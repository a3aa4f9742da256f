---------------------------- MODULE UsersProofs -----------------------------
(***************************************************************************)
(* Theorems about the users, groups and permissions of MyFileSystem.       *)
(*                                                                         *)
(* The inductive invariant Inv says that users and groups are unique, in   *)
(* their names as far as no longer name is cut to them (UserInv,           *)
(* GroupInv), that somebody active is logged in (SessionInv), that nothing *)
(* has happened since a useradd that is half done (AddInv), that names of  *)
(* files are cut, and unique in the same sense, and the open file is one   *)
(* with the shell's current_filename (FileInv), and that uids are slots as *)
(* long as nobody has been deleted (SlotInv).                              *)
(***************************************************************************)
EXTENDS Users, SequenceTheorems, WellFoundedInduction, TLAPS

UserRecord ==
    [active : BOOLEAN, uid : 0 .. MaxUid, name : Names \cup {""}, gid : 0 .. MaxGid,
     groups : Seq(0 .. MaxGid)]
GroupRecord == [active : BOOLEAN, gid : 0 .. MaxGid, name : Names \cup {""}]
FileRecord ==
    [used : BOOLEAN, empty : BOOLEAN, name : Files \cup {""}, mode : Modes \cup {<<>>},
     owner : 0 .. MaxUid, group : 0 .. MaxGid]

\* Active users differ in uid and in whole names; root is user 0 in slot 0.
UserInv ==
    /\ \A i, j \in ActiveUsers : i # j =>
        /\ user_table[i].uid # user_table[j].uid
        /\ user_table[i].name = user_table[j].name => ~WholeName(user_table[i].name)
    /\ 0 \in ActiveUsers /\ user_table[0].uid = 0 /\ user_table[0].name = "root"

\* Active groups differ in gid and in whole names.
GroupInv ==
    \A i, j \in ActiveGroups : i # j =>
        /\ group_table[i].gid # group_table[j].gid
        /\ group_table[i].name = group_table[j].name => ~WholeName(group_table[i].name)

\* The session belongs to an active user.
SessionInv == \E i \in ActiveUsers : user_table[i].uid = current_uid

\* Between the two saves of useradd the name as typed, a slot and a uid are still free.
AddInv ==
    adding # NoAdd =>
        /\ adding.name \in Names /\ Users(adding.name) = {}
        /\ ActiveUsers # UserSlots /\ NewUid <= MaxUid

\* File names are cut and whole ones are unique, and the name the shell has kept is the
\* name of the open entry.
NamesOnce(t) ==
    \A i, j \in Entries :
        t[i].used /\ t[j].used /\ t[i].name = t[j].name /\ WholeFile(t[i].name) => i = j

FileInv ==
    /\ NamesOnce(file_table)
    /\ \A i \in Entries : file_table[i].used =>
        file_table[i].name \in Files /\ StoredFile[file_table[i].name] = file_table[i].name
    /\ open # -1 => file_table[open].used /\ file_table[open].name = current_filename

\* Until a deletion the users fill the first slots, each in the slot of its uid.
SlotInv ==
    ~deleted => \A i \in ActiveUsers : user_table[i].uid = i /\ 0 .. i \subseteq ActiveUsers

Inv ==
    TypeOK /\ UserInv /\ GroupInv /\ SessionInv /\ AddInv /\ FileInv /\ SlotInv

----------------------------------------------------------------------------
(* Helpers                                                                 *)

\* The parts of TypeOK, and the ranges of slots.
LEMMA Types ==
    ASSUME TypeOK
    PROVE  /\ user_table \in [UserSlots -> UserRecord]
           /\ group_table \in [GroupSlots -> GroupRecord]
           /\ file_table \in [Entries -> FileRecord]
           /\ disk = <<user_table, group_table, file_table>>
           /\ current_uid \in 0 .. MaxUid
           /\ open \in Entries \cup {-1} /\ current_filename \in Files \cup {""}
           /\ adding \in [name : Names \cup {""}, gid : 0 .. MaxGid]
           /\ deleted \in BOOLEAN
BY DEF TypeOK, UserRecord, GroupRecord, FileRecord, tables

\* And back: the types of the tables after a step that saves them.
LEMMA TypesNext ==
    ASSUME user_table' \in [UserSlots -> UserRecord],
           group_table' \in [GroupSlots -> GroupRecord],
           file_table' \in [Entries -> FileRecord],
           disk' = <<user_table', group_table', file_table'>>,
           current_uid' \in 0 .. MaxUid,
           open' \in Entries \cup {-1}, current_filename' \in Files \cup {""},
           adding' \in [name : Names \cup {""}, gid : 0 .. MaxGid],
           deleted' \in BOOLEAN
    PROVE  TypeOK'
BY DEF TypeOK, UserRecord, GroupRecord, FileRecord, tables

\* Slots and ids are natural numbers.
LEMMA Ranges ==
    /\ UserSlots \subseteq Nat /\ GroupSlots \subseteq Nat /\ Entries \subseteq Nat
    /\ 0 \in UserSlots /\ 0 \in GroupSlots
    /\ MaxUid \in Nat /\ MaxGid \in Nat
    /\ 0 .. MaxUid \subseteq Nat /\ 0 .. MaxGid \subseteq Nat
BY UsersAssumption DEF UserSlots, GroupSlots, Entries

\* Zero is a uid.
LEMMA ZeroUid == 0 \in 0 .. MaxUid
<1>1. MaxUid \in Nat BY UsersAssumption
<1>. QED BY <1>1

\* A set of naturals that is not empty has a least element,
LEMMA LeastNatural ==
    ASSUME NEW T, T \subseteq Nat, T # {}
    PROVE  \E x \in T : \A y \in T : x <= y
<1>1. \E x \in T : \A y \in T : ~(<<y, x>> \in OpToRel(<, Nat))
  BY NatLessThanWellFounded, WFMin
<1>2. PICK x \in T : \A y \in T : ~(<<y, x>> \in OpToRel(<, Nat)) BY <1>1
<1>3. \A y \in T : y \in Nat /\ x \in Nat BY <1>2
<1>4. \A y \in T : ~(y < x) BY <1>2, <1>3 DEF OpToRel
<1>. QED BY <1>3, <1>4

\* which is what the loops of the code find,
LEMMA FirstIs ==
    ASSUME NEW S, S \subseteq Nat, S # {}
    PROVE  First(S) \in S /\ \A j \in S : First(S) <= j
<1>1. \E i \in S : \A j \in S : i <= j BY LeastNatural
<1>. QED BY <1>1 DEF First

\* and one with a bound has a greatest.
LEMMA NewIdIs ==
    ASSUME NEW m \in Nat, NEW ids, ids \subseteq 0 .. m, ids # {}
    PROVE  /\ NewId(ids) \in Nat /\ NewId(ids) - 1 \in ids
           /\ \A j \in ids : j < NewId(ids)
<1>. DEFINE T == {m - i : i \in ids}
<1>1. T \subseteq Nat /\ T # {} OBVIOUS
<1>2. PICK x \in T : \A y \in T : x <= y BY <1>1, LeastNatural
<1>3. PICK i \in ids : x = m - i BY <1>2
<1>4. \A j \in ids : j <= i
  <2>. SUFFICES ASSUME NEW j \in ids PROVE j <= i OBVIOUS
  <2>1. m - i <= m - j BY <1>2, <1>3
  <2>2. i \in 0 .. m /\ j \in 0 .. m OBVIOUS
  <2>. QED BY <2>1, <2>2
<1>5. PICK c : c = CHOOSE k \in ids : \A j \in ids : j <= k OBVIOUS
<1>6. c \in ids /\ \A j \in ids : j <= c BY <1>4, <1>5
<1>7. NewId(ids) = c + 1 BY <1>5 DEF NewId
<1>8. c \in 0 .. m /\ \A j \in ids : j \in 0 .. m BY <1>6
<1>. QED BY <1>6, <1>7, <1>8

\* A new uid is no user's, and one more than the uid of some user or than 0.
LEMMA NewUidIs ==
    ASSUME TypeOK
    PROVE  /\ NewUid \in Nat /\ NewUid > 0
           /\ \A i \in ActiveUsers : user_table[i].uid < NewUid
           /\ NewUid = 1 \/ \E i \in ActiveUsers : NewUid = user_table[i].uid + 1
<1>. DEFINE ids == {user_table[i].uid : i \in ActiveUsers} \cup {0}
<1>1. \A i \in UserSlots : user_table[i].uid \in 0 .. MaxUid BY Types DEF UserRecord
<1>2. ids \subseteq 0 .. MaxUid /\ ids # {} BY <1>1, Ranges DEF ActiveUsers
<1>3. /\ NewId(ids) \in Nat /\ NewId(ids) - 1 \in ids
      /\ \A j \in ids : j < NewId(ids)
  BY <1>2, NewIdIs, Ranges
<1>4. NewUid = NewId(ids) BY DEF NewUid
<1>5. NewUid \in Nat /\ NewUid > 0 BY <1>3, <1>4
<1>6. \A i \in ActiveUsers : user_table[i].uid < NewUid BY <1>3, <1>4
<1>7. NewUid - 1 = 0 \/ \E i \in ActiveUsers : NewUid - 1 = user_table[i].uid
  BY <1>3, <1>4
<1>8. \A i \in ActiveUsers : user_table[i].uid \in Nat
  BY <1>1, Ranges DEF ActiveUsers
<1>. QED BY <1>5, <1>6, <1>7, <1>8

\* So it is with a new gid.
LEMMA NewGidIs ==
    ASSUME TypeOK
    PROVE  NewGid \in Nat /\ \A i \in ActiveGroups : group_table[i].gid < NewGid
<1>. DEFINE ids == {group_table[i].gid : i \in ActiveGroups} \cup {0}
<1>1. \A i \in GroupSlots : group_table[i].gid \in 0 .. MaxGid BY Types DEF GroupRecord
<1>2. ids \subseteq 0 .. MaxGid /\ ids # {} BY <1>1, Ranges DEF ActiveGroups
<1>3. NewId(ids) \in Nat /\ \A j \in ids : j < NewId(ids)
  BY <1>2, NewIdIs, Ranges
<1>. QED BY <1>3 DEF NewGid

\* A user or a group that is found by name.
LEMMA FoundUser ==
    ASSUME NEW n, Users(n) # {}
    PROVE  First(Users(n)) \in ActiveUsers /\ user_table[First(Users(n))].name = n
<1>1. Users(n) \subseteq Nat BY Ranges DEF Users, ActiveUsers
<1>. QED BY <1>1, FirstIs DEF Users

\* The same for a group.
LEMMA FoundGroup ==
    ASSUME NEW n, Groups(n) # {}
    PROVE  First(Groups(n)) \in ActiveGroups
<1>1. Groups(n) \subseteq Nat BY Ranges DEF Groups, ActiveGroups
<1>. QED BY <1>1, FirstIs DEF Groups

\* A file that is found by name.
LEMMA FoundFile ==
    ASSUME NEW f, FilesNamed(f) # {}
    PROVE  /\ First(FilesNamed(f)) \in Entries
           /\ file_table[First(FilesNamed(f))].used
           /\ file_table[First(FilesNamed(f))].name = f
<1>1. FilesNamed(f) \subseteq Nat BY Ranges DEF FilesNamed
<1>. QED BY <1>1, FirstIs DEF FilesNamed

----------------------------------------------------------------------------
(* Steps that do not touch a part of the invariant                         *)

\* The commands on files leave users, groups and the session alone.
LEMMA UsersSame ==
    ASSUME Inv, UNCHANGED <<user_table, group_table, current_uid, adding, deleted>>
    PROVE  UserInv' /\ GroupInv' /\ SessionInv' /\ AddInv' /\ SlotInv'
<1>1. ActiveUsers' = ActiveUsers /\ ActiveGroups' = ActiveGroups
  BY DEF ActiveUsers, ActiveGroups
<1>2. NewUid' = NewUid BY <1>1 DEF NewUid, NewId
<1>3. UserInv' /\ GroupInv' BY <1>1 DEF Inv, UserInv, GroupInv
<1>4. SessionInv' BY <1>1 DEF Inv, SessionInv
<1>5. AddInv' BY <1>1, <1>2 DEF Inv, AddInv, Users
<1>6. SlotInv' BY <1>1 DEF Inv, SlotInv
<1>. QED BY <1>3, <1>4, <1>5, <1>6

\* The commands on users and groups leave the files and what is open alone.
LEMMA FilesSame ==
    ASSUME FileInv, UNCHANGED <<file_table, open, current_filename>>
    PROVE  FileInv'
BY DEF FileInv

----------------------------------------------------------------------------
(* Users and groups                                                        *)

\* fs_groupadd(), also as the first half of fs_useradd(): nothing about users changes.
LEMMA AddGroup_Inv ==
    ASSUME Inv, NEW n \in Names, AddGroup(n)
    PROVE  /\ user_table' = user_table /\ UserInv' /\ GroupInv' /\ SessionInv' /\ FileInv' /\ SlotInv'
           /\ adding' \in [name : Names \cup {""}, gid : 0 .. MaxGid] => TypeOK'
           /\ NewGid \in 0 .. MaxGid
<1>1. TypeOK /\ UserInv /\ GroupInv /\ SessionInv /\ AddInv /\ FileInv /\ SlotInv
  BY DEF Inv
<1>2. PICK g \in GroupSlots \ ActiveGroups : g = First(GroupSlots \ ActiveGroups)
  <2>1. GroupSlots \ ActiveGroups \subseteq Nat /\ GroupSlots \ ActiveGroups # {}
    BY Ranges DEF AddGroup, ActiveGroups
  <2>. QED BY <2>1, FirstIs
<1>3. /\ group_table' = [group_table EXCEPT ![g] =
                            [active |-> TRUE, gid |-> NewGid, name |-> StoredName[n]]]
      /\ UNCHANGED <<user_table, file_table, current_uid, open, current_filename, deleted>>
      /\ disk' = <<user_table', group_table', file_table'>>
      /\ Groups(n) = {} /\ NewGid <= MaxGid
  BY <1>2 DEF AddGroup, shell, Save
<1>4. NewGid \in 0 .. MaxGid
  BY <1>1, <1>3, NewGidIs, Ranges
<1>5. group_table \in [GroupSlots -> GroupRecord] /\ StoredName[n] \in Names
  BY <1>1, Types, UsersAssumption
<1>6. /\ group_table'[g].active = TRUE /\ group_table'[g].gid = NewGid
      /\ group_table'[g].name = StoredName[n]
      /\ \A i \in GroupSlots \ {g} : group_table'[i] = group_table[i]
      /\ group_table' \in [GroupSlots -> GroupRecord]
  BY <1>3, <1>4, <1>5 DEF GroupRecord
<1>7. ActiveGroups' = ActiveGroups \cup {g}
  BY <1>2, <1>6 DEF ActiveGroups
<1>8. GroupInv'
  <2>1. \A i \in ActiveGroups : /\ i # g /\ i \in GroupSlots
                                /\ group_table[i].gid # NewGid
                                /\ group_table[i].name = StoredName[n] => ~WholeName(StoredName[n])
    <3>1. \A i \in ActiveGroups : group_table[i].gid < NewGid /\ group_table[i].gid \in Nat
      <4>1. \A i \in ActiveGroups : group_table[i].gid \in 0 .. MaxGid
        BY <1>5 DEF ActiveGroups, GroupRecord
      <4>. QED BY <1>1, <4>1, NewGidIs, Ranges
    <3>2. \A i \in ActiveGroups : group_table[i].gid # NewGid
      BY <3>1, <1>4, Ranges
    <3>3. \A i \in ActiveGroups : group_table[i].name # n
      BY <1>3 DEF Groups, ActiveGroups
    <3>4. WholeName(StoredName[n]) => StoredName[n] = n BY DEF WholeName
    <3>. QED BY <1>2, <3>2, <3>3, <3>4 DEF ActiveGroups
  <2>2. \A i \in ActiveGroups : group_table'[i] = group_table[i] BY <1>6, <2>1
  <2>. QED BY <1>1, <1>6, <1>7, <2>1, <2>2 DEF GroupInv
<1>9. ActiveUsers' = ActiveUsers BY <1>3 DEF ActiveUsers
<1>10. UserInv' /\ SessionInv' /\ SlotInv'
  BY <1>1, <1>3, <1>9 DEF UserInv, SessionInv, SlotInv
<1>11. FileInv' BY <1>1, <1>3, FilesSame
<1>12. ASSUME adding' \in [name : Names \cup {""}, gid : 0 .. MaxGid] PROVE TypeOK'
  BY <1>1, <1>3, <1>6, <1>12, Types, TypesNext
<1>. QED BY <1>3, <1>4, <1>8, <1>10, <1>11, <1>12

\* groupadd.
LEMMA Groupadd_Inv ==
    ASSUME Inv, NEW n \in Names, Groupadd(n)
    PROVE  Inv'
<1>1. AddGroup(n) /\ adding = NoAdd /\ adding' = adding
  BY DEF Groupadd, Root, Idle
<1>2. adding' \in [name : Names \cup {""}, gid : 0 .. MaxGid] BY <1>1, Types DEF Inv
<1>3. AddInv' BY <1>1 DEF AddInv
<1>. QED BY <1>1, <1>2, <1>3, AddGroup_Inv DEF Inv

\* useradd, up to the first save.
LEMMA Useradd_Inv ==
    ASSUME Inv, NEW n \in Names, Useradd(n)
    PROVE  Inv'
<1>1. /\ AddGroup(n) /\ adding' = [name |-> n, gid |-> NewGid]
      /\ Users(n) = {} /\ ActiveUsers # UserSlots /\ NewUid <= MaxUid
  BY DEF Useradd
<1>2. /\ user_table' = user_table /\ UserInv' /\ GroupInv' /\ SessionInv' /\ FileInv' /\ SlotInv'
      /\ adding' \in [name : Names \cup {""}, gid : 0 .. MaxGid] => TypeOK'
      /\ NewGid \in 0 .. MaxGid
  BY <1>1, AddGroup_Inv
<1>3. adding' \in [name : Names \cup {""}, gid : 0 .. MaxGid] BY <1>1, <1>2
<1>4. AddInv'
  <2>1. ActiveUsers' = ActiveUsers BY <1>2 DEF ActiveUsers
  <2>2. NewUid' = NewUid BY <1>2, <2>1 DEF NewUid, NewId
  <2>3. Users(n)' = {} BY <1>1, <1>2, <2>1 DEF Users
  <2>4. adding'.name = n BY <1>1
  <2>5. Users(adding.name)' = {} BY <2>3, <2>4 DEF Users
  <2>. QED BY <1>1, <2>1, <2>2, <2>4, <2>5 DEF AddInv
<1>. QED BY <1>2, <1>3, <1>4 DEF Inv

\* useradd, the rest: the new user has a free slot, a new uid and a new name.
LEMMA UseraddEnd_Inv ==
    ASSUME Inv, UseraddEnd
    PROVE  Inv'
<1>1. TypeOK /\ UserInv /\ GroupInv /\ SessionInv /\ AddInv /\ FileInv /\ SlotInv
  BY DEF Inv
<1>2. /\ adding.name \in Names /\ Users(adding.name) = {}
      /\ ActiveUsers # UserSlots /\ NewUid <= MaxUid
  BY <1>1 DEF AddInv, UseraddEnd, Idle
<1>3. PICK s \in UserSlots \ ActiveUsers :
         s = FreeSlot /\ \A j \in UserSlots \ ActiveUsers : s <= j
  <2>1. UserSlots \ ActiveUsers \subseteq Nat /\ UserSlots \ ActiveUsers # {}
    BY <1>2, Ranges DEF ActiveUsers
  <2>. QED BY <2>1, FirstIs DEF FreeSlot
<1>4. /\ user_table' = [user_table EXCEPT ![s] =
             [active |-> TRUE, uid |-> NewUid, name |-> StoredName[adding.name],
              gid |-> adding.gid, groups |-> <<>>]]
      /\ adding' = NoAdd
      /\ UNCHANGED <<group_table, file_table, current_uid, open, current_filename, deleted>>
      /\ disk' = <<user_table', group_table', file_table'>>
  BY <1>3 DEF UseraddEnd, shell, Save
<1>5. NewUid \in 0 .. MaxUid BY <1>1, <1>2, NewUidIs, Ranges
<1>6. /\ user_table \in [UserSlots -> UserRecord] /\ adding.gid \in 0 .. MaxGid
      /\ StoredName[adding.name] \in Names
  BY <1>1, <1>2, Types, UsersAssumption
<1>7. /\ user_table'[s].active = TRUE /\ user_table'[s].uid = NewUid
      /\ user_table'[s].name = StoredName[adding.name]
      /\ \A i \in UserSlots \ {s} : user_table'[i] = user_table[i]
      /\ user_table' \in [UserSlots -> UserRecord]
  <2>1. PICK gs \in Seq(0 .. MaxGid) : gs = <<>> BY EmptySeq
  <2>2. PICK u : u = [active |-> TRUE, uid |-> NewUid, name |-> StoredName[adding.name],
                      gid |-> adding.gid, groups |-> gs]
    OBVIOUS
  <2>3. u \in UserRecord /\ u.active = TRUE /\ u.uid = NewUid /\ u.name = StoredName[adding.name]
    BY <1>2, <1>5, <1>6, <2>2 DEF UserRecord
  <2>4. user_table' = [user_table EXCEPT ![s] = u] BY <1>4, <2>1, <2>2
  <2>. QED BY <1>6, <2>3, <2>4
<1>8. ActiveUsers' = ActiveUsers \cup {s}
  BY <1>3, <1>7 DEF ActiveUsers
<1>9. \A i \in ActiveUsers : /\ i # s /\ i \in UserSlots /\ user_table'[i] = user_table[i]
                             /\ user_table[i].uid # NewUid
                             /\ user_table[i].name = StoredName[adding.name] =>
                                  ~WholeName(StoredName[adding.name])
  <2>1. \A i \in ActiveUsers : user_table[i].uid < NewUid /\ user_table[i].uid \in Nat
    <3>1. \A i \in ActiveUsers : user_table[i].uid \in 0 .. MaxUid
      BY <1>6 DEF ActiveUsers, UserRecord
    <3>. QED BY <1>1, <3>1, NewUidIs, Ranges
  <2>2. \A i \in ActiveUsers : user_table[i].uid # NewUid
    BY <2>1, <1>5, Ranges
  <2>3. \A i \in ActiveUsers : user_table[i].name # adding.name
    BY <1>2 DEF Users, ActiveUsers
  <2>4. WholeName(StoredName[adding.name]) => StoredName[adding.name] = adding.name
    BY <1>2 DEF WholeName
  <2>. QED BY <1>3, <1>7, <2>2, <2>3, <2>4 DEF ActiveUsers
<1>10. UserInv'
  BY <1>1, <1>7, <1>8, <1>9 DEF UserInv
<1>11. GroupInv'
  <2>. ActiveGroups' = ActiveGroups BY <1>4 DEF ActiveGroups
  <2>. QED BY <1>1, <1>4 DEF GroupInv
<1>12. SessionInv'
  BY <1>1, <1>4, <1>8, <1>9 DEF SessionInv
<1>13. AddInv' BY <1>4 DEF AddInv
<1>14. FileInv' BY <1>1, <1>4, FilesSame
<1>15. SlotInv'
  <2>. SUFFICES ASSUME ~deleted
                PROVE  \A i \in ActiveUsers' : user_table'[i].uid = i /\ 0 .. i \subseteq ActiveUsers'
    BY <1>4 DEF SlotInv
  <2>1. \A i \in ActiveUsers : user_table[i].uid = i /\ 0 .. i \subseteq ActiveUsers
    BY <1>1 DEF SlotInv
  <2>2. NewUid - 1 \in ActiveUsers
    <3>1. NewUid = 1 \/ \E i \in ActiveUsers : NewUid = user_table[i].uid + 1
      BY <1>1, NewUidIs
    <3>2. CASE NewUid = 1
      BY <1>1, <3>2 DEF UserInv
    <3>3. ASSUME NEW i \in ActiveUsers, NewUid = user_table[i].uid + 1 PROVE NewUid - 1 \in ActiveUsers
      <4>1. i \in Nat /\ NewUid = i + 1 BY <2>1, <3>3, Ranges DEF ActiveUsers
      <4>2. NewUid - 1 = i BY <4>1
      <4>. QED BY <4>2
    <3>. QED BY <3>1, <3>2, <3>3
  <2>3. 0 .. NewUid - 1 \subseteq ActiveUsers BY <2>1, <2>2
  <2>4. NewUid \notin ActiveUsers
    BY <1>9, <2>1
  <2>5. s \in Nat /\ s \notin 0 .. NewUid - 1 BY <1>3, <2>3, Ranges
  <2>6. s >= NewUid BY <1>5, <2>5, Ranges
  <2>7. s = NewUid
    <3>1. SUFFICES ASSUME s > NewUid PROVE FALSE BY <1>5, <2>5, <2>6, Ranges
    <3>2. NewUid \in Nat BY <1>5, Ranges
    <3>3. s \in 0 .. MAX_USERS - 1 /\ MAX_USERS \in Nat BY <1>3, UsersAssumption DEF UserSlots
    <3>4. NewUid \in UserSlots BY <3>1, <3>2, <3>3 DEF UserSlots
    <3>5. s <= NewUid BY <1>3, <2>4, <3>4
    <3>. QED BY <2>5, <3>1, <3>2, <3>5
  <2>8. 0 .. s \subseteq ActiveUsers'
    <3>1. 0 .. s = (0 .. NewUid - 1) \cup {s} BY <2>5, <2>7
    <3>. QED BY <1>8, <2>3, <3>1
  <2>. QED BY <1>7, <1>8, <1>9, <2>1, <2>7, <2>8
<1>16. TypeOK'
  <2>. NoAdd \in [name : Names \cup {""}, gid : 0 .. MaxGid] BY Ranges DEF NoAdd
  <2>. QED BY <1>1, <1>4, <1>7, Types, TypesNext
<1>. QED BY <1>10, <1>11, <1>12, <1>13, <1>14, <1>15, <1>16 DEF Inv

\* userdel: somebody else than root, who is logged in.
LEMMA Userdel_Inv ==
    ASSUME Inv, NEW n \in Names, Userdel(n)
    PROVE  Inv'
<1>1. TypeOK /\ UserInv /\ GroupInv /\ SessionInv /\ AddInv /\ FileInv /\ SlotInv
  BY DEF Inv
<1>2. PICK s : s = First(Users(n)) OBVIOUS
<1>3. /\ user_table' = [user_table EXCEPT ![s].active = FALSE]
      /\ adding = NoAdd /\ adding' = NoAdd /\ current_uid = 0 /\ n # "root" /\ deleted' = TRUE
      /\ UNCHANGED <<group_table, file_table, current_uid, open, current_filename>>
      /\ disk' = <<user_table', group_table', file_table'>>
  BY <1>2 DEF Userdel, shell, Save, Root, Idle
<1>4. s \in ActiveUsers /\ user_table[s].name = n
  BY <1>2, FoundUser DEF Userdel
<1>5. user_table \in [UserSlots -> UserRecord] /\ s \in UserSlots
  BY <1>1, <1>4, Types DEF ActiveUsers
<1>6. /\ user_table'[s].active = FALSE
      /\ \A i \in UserSlots \ {s} : user_table'[i] = user_table[i]
      /\ user_table' \in [UserSlots -> UserRecord]
  BY <1>3, <1>5 DEF UserRecord
<1>7. ActiveUsers' = ActiveUsers \ {s} /\ \A i \in ActiveUsers' : user_table'[i] = user_table[i]
  BY <1>6 DEF ActiveUsers
<1>8. s # 0 BY <1>1, <1>3, <1>4 DEF UserInv
<1>9. UserInv' BY <1>1, <1>7, <1>8 DEF UserInv
<1>10. GroupInv'
  <2>. ActiveGroups' = ActiveGroups BY <1>3 DEF ActiveGroups
  <2>. QED BY <1>1, <1>3 DEF GroupInv
<1>11. SessionInv'
  <2>1. 0 \in ActiveUsers' /\ user_table'[0].uid = current_uid'
    BY <1>3, <1>9 DEF UserInv
  <2>. QED BY <2>1 DEF SessionInv
<1>12. AddInv' BY <1>3 DEF AddInv
<1>13. FileInv' BY <1>1, <1>3, FilesSame
<1>14. SlotInv' BY <1>3 DEF SlotInv
<1>15. TypeOK'
  <2>. NoAdd \in [name : Names \cup {""}, gid : 0 .. MaxGid] BY Ranges DEF NoAdd
  <2>. deleted' \in BOOLEAN BY <1>3
  <2>. QED BY <1>1, <1>3, <1>6, Types, TypesNext
<1>. QED BY <1>9, <1>10, <1>11, <1>12, <1>13, <1>14, <1>15 DEF Inv

\* groupdel.
LEMMA Groupdel_Inv ==
    ASSUME Inv, NEW n \in Names, Groupdel(n)
    PROVE  Inv'
<1>1. TypeOK /\ UserInv /\ GroupInv /\ SessionInv /\ AddInv /\ FileInv /\ SlotInv
  BY DEF Inv
<1>2. PICK s : s = First(Groups(n)) OBVIOUS
<1>3. /\ group_table' = [group_table EXCEPT ![s].active = FALSE]
      /\ adding = NoAdd /\ adding' = adding
      /\ UNCHANGED <<user_table, file_table, current_uid, open, current_filename, deleted>>
      /\ disk' = <<user_table', group_table', file_table'>>
  BY <1>2 DEF Groupdel, shell, Save, Root, Idle
<1>4. s \in ActiveGroups
  BY <1>2, FoundGroup DEF Groupdel
<1>5. group_table \in [GroupSlots -> GroupRecord] /\ s \in GroupSlots
  BY <1>1, <1>4, Types DEF ActiveGroups
<1>6. /\ group_table'[s].active = FALSE
      /\ \A i \in GroupSlots \ {s} : group_table'[i] = group_table[i]
      /\ group_table' \in [GroupSlots -> GroupRecord]
  BY <1>3, <1>5 DEF GroupRecord
<1>7. ActiveGroups' = ActiveGroups \ {s} /\ \A i \in ActiveGroups' : group_table'[i] = group_table[i]
  BY <1>6 DEF ActiveGroups
<1>8. GroupInv' BY <1>1, <1>7 DEF GroupInv
<1>9. UserInv' /\ SessionInv' /\ SlotInv'
  <2>. ActiveUsers' = ActiveUsers BY <1>3 DEF ActiveUsers
  <2>. QED BY <1>1, <1>3 DEF UserInv, SessionInv, SlotInv
<1>10. AddInv' BY <1>3 DEF AddInv
<1>11. FileInv' BY <1>1, <1>3, FilesSame
<1>12. TypeOK' BY <1>1, <1>3, <1>6, Types, TypesNext
<1>. QED BY <1>8, <1>9, <1>10, <1>11, <1>12 DEF Inv

\* usermod -aG: one more group in the user's list.
LEMMA Usermod_Inv ==
    ASSUME Inv, NEW n \in Names, NEW g \in Names, Usermod(n, g)
    PROVE  Inv'
<1>1. TypeOK /\ UserInv /\ GroupInv /\ SessionInv /\ AddInv /\ FileInv /\ SlotInv
  BY DEF Inv
<1>2. PICK s : s = First(Users(n)) OBVIOUS
<1>3. /\ user_table' = [user_table EXCEPT ![s].groups = Append(@, Gid(g))]
      /\ adding = NoAdd /\ adding' = adding
      /\ UNCHANGED <<group_table, file_table, current_uid, open, current_filename, deleted>>
      /\ disk' = <<user_table', group_table', file_table'>>
  BY <1>2 DEF Usermod, shell, Save, Root, Idle
<1>4. s \in ActiveUsers
  BY <1>2, FoundUser DEF Usermod
<1>5. user_table \in [UserSlots -> UserRecord] /\ s \in UserSlots
  BY <1>1, <1>4, Types DEF ActiveUsers
<1>6. Gid(g) \in 0 .. MaxGid
  <2>1. First(Groups(g)) \in GroupSlots BY FoundGroup DEF Usermod, ActiveGroups
  <2>2. group_table \in [GroupSlots -> GroupRecord] BY <1>1, Types
  <2>. QED BY <2>1, <2>2 DEF Gid, GroupRecord
<1>7. Append(user_table[s].groups, Gid(g)) \in Seq(0 .. MaxGid)
  <2>. user_table[s].groups \in Seq(0 .. MaxGid) BY <1>5 DEF UserRecord
  <2>. QED BY <1>6
<1>8. user_table' = [user_table EXCEPT ![s].groups = Append(user_table[s].groups, Gid(g))]
  BY <1>3, <1>5
<1>9. /\ \A i \in UserSlots : /\ user_table'[i].active = user_table[i].active
                              /\ user_table'[i].uid = user_table[i].uid
                              /\ user_table'[i].name = user_table[i].name
      /\ user_table' \in [UserSlots -> UserRecord]
  BY <1>5, <1>7, <1>8 DEF UserRecord
<1>10. ActiveUsers' = ActiveUsers BY <1>9 DEF ActiveUsers
<1>11. UserInv' BY <1>1, <1>9, <1>10 DEF UserInv, ActiveUsers
<1>12. GroupInv'
  <2>. ActiveGroups' = ActiveGroups BY <1>3 DEF ActiveGroups
  <2>. QED BY <1>1, <1>3 DEF GroupInv
<1>13. SessionInv' BY <1>1, <1>3, <1>9, <1>10 DEF SessionInv, ActiveUsers
<1>14. AddInv' BY <1>3 DEF AddInv
<1>15. FileInv' BY <1>1, <1>3, FilesSame
<1>16. SlotInv' BY <1>1, <1>3, <1>9, <1>10 DEF SlotInv, ActiveUsers
<1>17. TypeOK' BY <1>1, <1>3, <1>9, Types, TypesNext
<1>. QED BY <1>11, <1>12, <1>13, <1>14, <1>15, <1>16, <1>17 DEF Inv

\* su: to somebody who is there.
LEMMA Su_Inv ==
    ASSUME Inv, NEW n \in Names, Su(n)
    PROVE  Inv'
<1>1. TypeOK /\ UserInv /\ GroupInv /\ SessionInv /\ AddInv /\ FileInv /\ SlotInv
  BY DEF Inv
<1>2. /\ current_uid' = Uid(n) /\ adding = NoAdd /\ adding' = adding
      /\ UNCHANGED <<user_table, group_table, file_table, disk, open, current_filename, deleted>>
  BY DEF Su, Idle, tables
<1>3. PICK s \in ActiveUsers : s = First(Users(n)) BY FoundUser DEF Su
<1>4. ActiveUsers' = ActiveUsers /\ ActiveGroups' = ActiveGroups
  BY <1>2 DEF ActiveUsers, ActiveGroups
<1>5. UserInv' /\ GroupInv' /\ SlotInv'
  BY <1>1, <1>2, <1>4 DEF UserInv, GroupInv, SlotInv
<1>6. current_uid' = user_table[s].uid BY <1>2, <1>3 DEF Uid
<1>7. SessionInv' BY <1>2, <1>3, <1>4, <1>6 DEF SessionInv
<1>8. AddInv' BY <1>2 DEF AddInv
<1>9. FileInv' BY <1>1, <1>2, FilesSame
<1>10. TypeOK'
  <2>. user_table[s].uid \in 0 .. MaxUid
    <3>. user_table \in [UserSlots -> UserRecord] /\ s \in UserSlots
      BY <1>1, Types DEF ActiveUsers
    <3>. QED BY DEF UserRecord
  <2>. disk' = <<user_table', group_table', file_table'>> BY <1>1, <1>2, Types
  <2>. QED BY <1>1, <1>2, <1>6, Types, TypesNext
<1>. QED BY <1>5, <1>7, <1>8, <1>9, <1>10 DEF Inv

----------------------------------------------------------------------------
(* Files                                                                   *)

\* A command that changes one entry of the file table, and its name or used mark only so
\* that names stay unique and the open file stays.
LEMMA File_Inv ==
    ASSUME Inv, file_table' \in [Entries -> FileRecord], FileInv',
           UNCHANGED <<user_table, group_table, current_uid, adding, deleted>>,
           open' \in Entries \cup {-1}, current_filename' \in Files \cup {""}, Save
    PROVE  Inv'
<1>1. TypeOK /\ FileInv BY DEF Inv
<1>2. UserInv' /\ GroupInv' /\ SessionInv' /\ AddInv' /\ SlotInv' BY UsersSame
<1>3. TypeOK' BY <1>1, Types, TypesNext DEF Save
<1>. QED BY <1>2, <1>3 DEF Inv

\* A command that leaves used and name of every file alone.
LEMMA Content_Inv ==
    ASSUME Inv, file_table' \in [Entries -> FileRecord],
           \A i \in Entries : /\ file_table'[i].used = file_table[i].used
                              /\ file_table'[i].name = file_table[i].name,
           UNCHANGED <<user_table, group_table, shell, adding, deleted>>, Save
    PROVE  Inv'
<1>1. TypeOK /\ FileInv BY DEF Inv
<1>2. UNCHANGED <<current_uid, open, current_filename>> BY DEF shell
<1>3. open \in Entries \cup {-1} /\ current_filename \in Files \cup {""} BY <1>1, Types
<1>4. FileInv' BY <1>1, <1>2, <1>3 DEF FileInv, NamesOnce
<1>. QED BY <1>2, <1>3, <1>4, File_Inv

\* chmod.
LEMMA Chmod_Inv ==
    ASSUME Inv, NEW f \in Files, NEW m \in Modes, Chmod(f, m)
    PROVE  Inv'
<1>1. PICK i \in Entries : i = First(FilesNamed(f)) BY FoundFile DEF Chmod
<1>2. file_table \in [Entries -> FileRecord] BY Types DEF Inv
<1>3. file_table' = [file_table EXCEPT ![i].mode = m] BY <1>1 DEF Chmod
<1>4. /\ file_table' \in [Entries -> FileRecord]
      /\ \A j \in Entries : /\ file_table'[j].used = file_table[j].used
                            /\ file_table'[j].name = file_table[j].name
  BY <1>2, <1>3 DEF FileRecord
<1>. QED BY <1>4, Content_Inv DEF Chmod

\* chown and chgrp: ids of users and groups that exist.
LEMMA Chown_Inv ==
    ASSUME Inv, NEW f \in Files, NEW u, NEW g, Chown(f, u, g)
    PROVE  Inv'
<1>1. PICK i \in Entries : i = First(FilesNamed(f)) BY FoundFile DEF Chown
<1>2. file_table \in [Entries -> FileRecord] BY Types DEF Inv
<1>3. PICK o \in 0 .. MaxUid : o = NewOwner(i, u)
  <2>1. CASE current_uid = 0 /\ Users(u) # {}
    <3>1. First(Users(u)) \in UserSlots BY <2>1, FoundUser DEF ActiveUsers
    <3>2. user_table \in [UserSlots -> UserRecord] BY Types DEF Inv
    <3>. QED BY <2>1, <3>1, <3>2 DEF NewOwner, Uid, UserRecord
  <2>2. CASE ~(current_uid = 0 /\ Users(u) # {})
    BY <1>2, <2>2 DEF NewOwner, FileRecord
  <2>. QED BY <2>1, <2>2
<1>4. PICK k \in 0 .. MaxGid : k = NewGroup(i, o, g)
  <2>1. CASE Groups(g) # {}
    <3>1. First(Groups(g)) \in GroupSlots BY <2>1, FoundGroup DEF ActiveGroups
    <3>2. group_table \in [GroupSlots -> GroupRecord] BY Types DEF Inv
    <3>3. Gid(g) \in 0 .. MaxGid BY <3>1, <3>2 DEF Gid, GroupRecord
    <3>. QED BY <1>2, <3>3 DEF NewGroup, FileRecord
  <2>2. CASE Groups(g) = {}
    BY <1>2, <2>2 DEF NewGroup, FileRecord
  <2>. QED BY <2>1, <2>2
<1>5. file_table' = [file_table EXCEPT ![i].owner = o, ![i].group = k]
  BY <1>1, <1>3, <1>4 DEF Chown
<1>6. /\ file_table' \in [Entries -> FileRecord]
      /\ \A j \in Entries : /\ file_table'[j].used = file_table[j].used
                            /\ file_table'[j].name = file_table[j].name
  BY <1>2, <1>5, ZenonT(40) DEF FileRecord
<1>. QED BY <1>6, Content_Inv DEF Chown

\* write and shrink, on the open file.
LEMMA Fill_Inv ==
    ASSUME Inv, NEW c \in BOOLEAN, Fill(c), open # -1
    PROVE  Inv'
<1>1. open \in Entries BY Types DEF Inv
<1>2. file_table \in [Entries -> FileRecord] BY Types DEF Inv
<1>3. PICK i \in Entries, x \in BOOLEAN : file_table' = [file_table EXCEPT ![i].empty = x]
  <2>1. file_table' = [file_table EXCEPT ![open].empty = ~c] BY DEF Fill
  <2>2. (~c) \in BOOLEAN OBVIOUS
  <2>. QED BY <1>1, <2>1, <2>2
<1>4. /\ file_table' \in [Entries -> FileRecord]
      /\ \A j \in Entries : /\ file_table'[j].used = file_table[j].used
                            /\ file_table'[j].name = file_table[j].name
  BY <1>2, <1>3, Zenon DEF FileRecord
<1>. QED BY <1>4, Content_Inv DEF Fill

\* What fs_create() does to the file table.
LEMMA NewFileDoes ==
    ASSUME Inv, NEW f \in Files, NEW m \in Modes, NEW gid \in 0 .. MaxGid, NewFile(f, m, gid)
    PROVE  \E i \in Entries :
              /\ i = First(FreeEntries) /\ ~file_table[i].used
              /\ file_table'[i].used = TRUE /\ file_table'[i].name = StoredFile[f]
              /\ file_table'[i].group = gid /\ file_table'[i].empty = TRUE
              /\ \A j \in Entries \ {i} : file_table'[j] = file_table[j]
              /\ \A j \in Entries : ~(file_table[j].used /\ file_table[j].name = f)
              /\ file_table' \in [Entries -> FileRecord]
<1>1. FreeEntries \subseteq Nat /\ FreeEntries # {} BY Ranges DEF NewFile, FreeEntries
<1>2. PICK i \in FreeEntries : i = First(FreeEntries) BY <1>1, FirstIs
<1>3. i \in Entries /\ ~file_table[i].used BY <1>2 DEF FreeEntries
<1>4. /\ file_table \in [Entries -> FileRecord] /\ current_uid \in 0 .. MaxUid
      /\ StoredFile[f] \in Files
  BY Types, UsersAssumption DEF Inv
<1>5. PICK x : x = [used |-> TRUE, empty |-> TRUE, name |-> StoredFile[f], mode |-> m,
                    owner |-> current_uid, group |-> gid]
  OBVIOUS
<1>6. x \in FileRecord /\ x.used = TRUE /\ x.name = StoredFile[f] /\ x.group = gid /\ x.empty = TRUE
  BY <1>4, <1>5 DEF FileRecord
<1>7. file_table' = [file_table EXCEPT ![i] = x] BY <1>2, <1>5 DEF NewFile
<1>8. /\ file_table'[i] = x /\ \A j \in Entries \ {i} : file_table'[j] = file_table[j]
      /\ file_table' \in [Entries -> FileRecord]
  BY <1>3, <1>4, <1>6, <1>7
<1>9. \A j \in Entries : ~(file_table[j].used /\ file_table[j].name = f)
  BY DEF NewFile, FilesNamed
<1>. QED BY <1>2, <1>3, <1>6, <1>8, <1>9

\* A new file has a name that no used entry has, unless it is cut; it may be opened at once.
LEMMA NewFile_Inv ==
    ASSUME Inv, NEW f \in Files, NEW m \in Modes, NEW gid \in 0 .. MaxGid, NewFile(f, m, gid),
           \/ UNCHANGED <<open, current_filename>>
           \/ open' = First(FreeEntries) /\ current_filename' = StoredFile[f]
    PROVE  Inv'
<1>1. PICK i \in Entries :
              /\ i = First(FreeEntries) /\ ~file_table[i].used
              /\ file_table'[i].used = TRUE /\ file_table'[i].name = StoredFile[f]
              /\ \A j \in Entries \ {i} : file_table'[j] = file_table[j]
              /\ \A j \in Entries : ~(file_table[j].used /\ file_table[j].name = f)
              /\ file_table' \in [Entries -> FileRecord]
  BY NewFileDoes
<1>2. FileInv /\ open \in Entries \cup {-1} /\ current_filename \in Files \cup {""}
  BY Types DEF Inv
<1>3. StoredFile[f] \in Files /\ StoredFile[StoredFile[f]] = StoredFile[f]
  BY UsersAssumption
<1>4. open' \in Entries \cup {-1} /\ current_filename' \in Files \cup {""}
  BY <1>1, <1>2, <1>3
<1>5. WholeFile(StoredFile[f]) => StoredFile[f] = f BY DEF WholeFile
<1>6. FileInv'
  <2>1. NamesOnce(file_table')
    <3>. SUFFICES ASSUME NEW j \in Entries, NEW k \in Entries, file_table'[j].used,
                         file_table'[k].used, file_table'[j].name = file_table'[k].name,
                         WholeFile(file_table'[j].name)
                  PROVE  j = k
      BY DEF NamesOnce
    <3>1. CASE j # i /\ k # i
      <4>1. file_table'[j] = file_table[j] /\ file_table'[k] = file_table[k]
        BY <1>1, <3>1, Zenon
      <4>. QED BY <1>2, <4>1, Zenon DEF FileInv, NamesOnce
    <3>2. CASE j = i /\ k # i
      <4>1. file_table'[k] = file_table[k] BY <1>1, <3>2, Zenon
      <4>. QED BY <1>1, <1>5, <3>2, <4>1, Zenon
    <3>3. CASE j # i /\ k = i
      <4>1. file_table'[j] = file_table[j] BY <1>1, <3>3, Zenon
      <4>2. file_table[j].name = StoredFile[f] /\ WholeFile(StoredFile[f]) /\ file_table[j].used
        BY <1>1, <3>3, <4>1, Zenon
      <4>. QED BY <1>1, <1>5, <4>2, Zenon
    <3>. QED BY <3>1, <3>2, <3>3, Zenon
  <2>2. \A j \in Entries : file_table'[j].used =>
            file_table'[j].name \in Files /\ StoredFile[file_table'[j].name] = file_table'[j].name
    <3>. SUFFICES ASSUME NEW j \in Entries, file_table'[j].used
                  PROVE  file_table'[j].name \in Files
                         /\ StoredFile[file_table'[j].name] = file_table'[j].name
      OBVIOUS
    <3>1. CASE j = i BY <1>1, <1>3, <3>1, Zenon
    <3>2. CASE j # i
      <4>1. file_table'[j] = file_table[j] BY <1>1, <3>2, Zenon
      <4>. QED BY <1>2, <4>1, Zenon DEF FileInv
    <3>. QED BY <3>1, <3>2, Zenon
  <2>3. CASE UNCHANGED <<open, current_filename>>
    <3>1. open # -1 => open # i BY <1>1, <1>2 DEF FileInv
    <3>2. open' # -1 => file_table'[open'].used /\ file_table'[open'].name = current_filename'
      BY <1>1, <1>2, <2>3, <3>1 DEF FileInv
    <3>. QED BY <2>1, <2>2, <3>2 DEF FileInv, NamesOnce
  <2>4. CASE open' = First(FreeEntries) /\ current_filename' = StoredFile[f]
    <3>1. file_table'[open'].used /\ file_table'[open'].name = current_filename'
      BY <1>1, <2>4
    <3>. QED BY <2>1, <2>2, <3>1 DEF FileInv, NamesOnce
  <2>. QED BY <2>3, <2>4
<1>. QED BY <1>1, <1>4, <1>6, File_Inv DEF NewFile

\* user_table[current_uid].gid, or what lies behind the table.
LEMMA PrimaryGidsIn ==
    ASSUME TypeOK
    PROVE  PrimaryGids(current_uid) \subseteq 0 .. MaxGid
<1>. user_table \in [UserSlots -> UserRecord] BY Types
<1>. QED BY DEF PrimaryGids, UserRecord

\* create.
LEMMA Create_Inv ==
    ASSUME Inv, NEW f \in Files, NEW m \in Modes, Create(f, m)
    PROVE  Inv'
<1>1. PICK gid \in 0 .. MaxGid : NewFile(f, m, gid)
  BY PrimaryGidsIn DEF Create, Inv
<1>. QED BY <1>1, NewFile_Inv DEF Create

\* Opening a file that is there.
LEMMA Open_Inv ==
    ASSUME Inv, NEW f \in Files, FilesNamed(f) # {}, OpenFile(f, First(FilesNamed(f))),
           UNCHANGED <<tables, disk, current_uid, adding, deleted>>
    PROVE  Inv'
<1>1. PICK i \in Entries : /\ i = First(FilesNamed(f))
                           /\ file_table[i].used /\ file_table[i].name = f
  BY FoundFile
<1>2. open' = i /\ current_filename' = f BY <1>1 DEF OpenFile, Inv, FileInv
<1>3. UNCHANGED <<user_table, group_table, file_table>> BY DEF tables
<1>4. FileInv' BY <1>1, <1>2, <1>3 DEF FileInv, NamesOnce, Inv
<1>5. Save /\ file_table' \in [Entries -> FileRecord]
  BY <1>3, Types DEF Inv, Save
<1>. QED BY <1>2, <1>3, <1>4, <1>5, File_Inv

\* open with c.
LEMMA OpenCreate_Inv ==
    ASSUME Inv, NEW f \in Files, OpenCreate(f)
    PROVE  Inv'
<1>1. CASE /\ Idle /\ FilesNamed(f) # {}
           /\ OpenFile(f, First(FilesNamed(f)))
           /\ UNCHANGED <<tables, disk, current_uid, adding, deleted>>
  BY <1>1, Open_Inv
<1>2. CASE /\ \E gid \in PrimaryGids(current_uid) : NewFile(f, Mode0644, gid)
           /\ OpenFile(f, First(FreeEntries))
  <2>1. PICK gid \in 0 .. MaxGid : NewFile(f, Mode0644, gid)
    BY <1>2, PrimaryGidsIn DEF Inv
  <2>2. Mode0644 \in Modes BY UsersAssumption
  <2>. QED BY <1>2, <2>1, <2>2, NewFile_Inv DEF OpenFile
<1>. QED BY <1>1, <1>2 DEF OpenCreate

\* close.
LEMMA Close_Inv ==
    ASSUME Inv, Close
    PROVE  Inv'
<1>1. UNCHANGED <<user_table, group_table, file_table, current_uid, adding, deleted, disk>>
  BY DEF Close, tables
<1>2. open' = -1 /\ current_filename' = "" BY DEF Close
<1>3. FileInv' BY <1>1, <1>2 DEF FileInv, Inv
<1>4. Save /\ file_table' \in [Entries -> FileRecord]
  BY <1>1, Types DEF Inv, Save
<1>. QED BY <1>1, <1>2, <1>3, <1>4, File_Inv

\* rm: never of the open file, as the open file is the one with its name.
LEMMA Rm_Inv ==
    ASSUME Inv, NEW f \in Files, Rm(f)
    PROVE  Inv'
<1>1. PICK i \in Entries : /\ i = First(FilesNamed(f))
                           /\ file_table[i].used /\ file_table[i].name = f
  BY FoundFile DEF Rm, CheckPermission
<1>2. /\ file_table' = [file_table EXCEPT ![i].used = FALSE]
      /\ ~(open # -1 /\ current_filename = f) /\ Save
      /\ UNCHANGED <<user_table, group_table, current_uid, open, current_filename, adding,
                     deleted>>
  BY <1>1 DEF Rm, shell
<1>3. /\ FileInv /\ file_table \in [Entries -> FileRecord]
      /\ open \in Entries \cup {-1} /\ current_filename \in Files \cup {""}
  BY Types DEF Inv
<1>4. /\ file_table'[i].used = FALSE /\ \A j \in Entries \ {i} : file_table'[j] = file_table[j]
      /\ file_table' \in [Entries -> FileRecord]
  BY <1>2, <1>3 DEF FileRecord
<1>5. open # -1 => open # i BY <1>1, <1>2, <1>3 DEF FileInv
<1>6. FileInv' BY <1>2, <1>3, <1>4, <1>5 DEF FileInv, NamesOnce
<1>. QED BY <1>2, <1>3, <1>4, <1>6, File_Inv

\* format: no file, none open; users and groups stay.
LEMMA Format_Inv ==
    ASSUME Inv, Format
    PROVE  Inv'
<1>1. /\ file_table' = [i \in Entries |-> ZeroFile] /\ open' = -1 /\ current_filename' = ""
      /\ UNCHANGED <<user_table, group_table, current_uid, adding, deleted>> /\ Save
  BY DEF Format
<1>2. ZeroFile \in FileRecord /\ ~ZeroFile.used BY Ranges DEF ZeroFile, FileRecord
<1>3. file_table' \in [Entries -> FileRecord] /\ \A i \in Entries : ~file_table'[i].used
  BY <1>1, <1>2
<1>4. FileInv' BY <1>1, <1>3 DEF FileInv, NamesOnce
<1>. QED BY <1>1, <1>3, <1>4, File_Inv

\* The program starts again, also after half a useradd, with the tables as they were saved.
LEMMA Restart_Inv ==
    ASSUME Inv, Restart
    PROVE  Inv'
<1>1. TypeOK /\ UserInv /\ GroupInv /\ SessionInv /\ AddInv /\ FileInv /\ SlotInv
  BY DEF Inv
<1>2. disk = <<user_table, group_table, file_table>> BY <1>1, Types
<1>3. /\ UNCHANGED <<user_table, group_table, file_table, disk, deleted>>
      /\ current_uid' = 0 /\ open' = -1 /\ current_filename' = "" /\ adding' = NoAdd
  BY <1>2 DEF Restart
<1>4. ActiveUsers' = ActiveUsers /\ ActiveGroups' = ActiveGroups
  BY <1>3 DEF ActiveUsers, ActiveGroups
<1>5. UserInv' /\ GroupInv' /\ SlotInv'
  <2>1. UserInv' BY <1>1, <1>3, <1>4, Zenon DEF UserInv
  <2>2. GroupInv' BY <1>1, <1>3, <1>4, Zenon DEF GroupInv
  <2>3. SlotInv' BY <1>1, <1>3, <1>4, Zenon DEF SlotInv
  <2>. QED BY <2>1, <2>2, <2>3
<1>6. SessionInv' BY <1>1, <1>3, <1>4 DEF SessionInv, UserInv
<1>7. AddInv' BY <1>3 DEF AddInv
<1>8. FileInv' BY <1>1, <1>3 DEF FileInv
<1>9. TypeOK'
  <2>. NoAdd \in [name : Names \cup {""}, gid : 0 .. MaxGid] BY Ranges DEF NoAdd
  <2>. 0 \in 0 .. MaxUid BY ZeroUid
  <2>. QED BY <1>1, <1>2, <1>3, Types, TypesNext
<1>. QED BY <1>5, <1>6, <1>7, <1>8, <1>9 DEF Inv

----------------------------------------------------------------------------
(* The theorems                                                            *)

\* A new disk: root, and no file.
LEMMA Init_Inv ==
    ASSUME Init
    PROVE  Inv
<1>1. user_table \in [UserSlots -> UserRecord]
  <2>1. PICK gs \in Seq(0 .. MaxGid) : gs = <<>> BY EmptySeq
  <2>2. RootUser \in UserRecord /\ ZeroUser \in UserRecord
    BY <2>1, UsersAssumption, Ranges DEF RootUser, ZeroUser, UserRecord
  <2>. QED BY <2>2 DEF Init
<1>2. group_table \in [GroupSlots -> GroupRecord]
  <2>1. RootGroup \in GroupRecord /\ ZeroGroup \in GroupRecord
    BY UsersAssumption, Ranges DEF RootGroup, ZeroGroup, GroupRecord
  <2>. QED BY <2>1 DEF Init
<1>3. file_table \in [Entries -> FileRecord] /\ \A i \in Entries : ~file_table[i].used
  <2>1. ZeroFile \in FileRecord /\ ~ZeroFile.used BY Ranges DEF ZeroFile, FileRecord
  <2>. QED BY <2>1 DEF Init
<1>4. TypeOK
  <2>1. NoAdd \in [name : Names \cup {""}, gid : 0 .. MaxGid] BY Ranges DEF NoAdd
  <2>2. 0 \in 0 .. MaxUid BY ZeroUid
  <2>3. deleted \in BOOLEAN BY DEF Init
  <2>. QED BY <1>1, <1>2, <1>3, <2>1, <2>2, <2>3 DEF Init, TypeOK, UserRecord, GroupRecord, FileRecord
<1>5. ActiveUsers = {0} /\ user_table[0] = RootUser
  BY Ranges DEF Init, ActiveUsers, RootUser, ZeroUser
<1>6. ActiveGroups = {0}
  BY Ranges DEF Init, ActiveGroups, RootGroup, ZeroGroup
<1>7. UserInv BY <1>5 DEF UserInv, RootUser
<1>8. GroupInv BY <1>6 DEF GroupInv
<1>9. SessionInv
  <2>1. current_uid = 0 BY DEF Init
  <2>2. user_table[0].uid = 0 BY <1>5 DEF RootUser
  <2>. QED BY <1>5, <2>1, <2>2 DEF SessionInv
<1>10. AddInv BY DEF AddInv, Init
<1>11. FileInv BY <1>3 DEF FileInv, NamesOnce, Init
<1>12. SlotInv
  <2>1. 0 .. 0 \subseteq {0} OBVIOUS
  <2>. QED BY <1>5, <2>1 DEF SlotInv, RootUser
<1>. QED BY <1>4, <1>7, <1>8, <1>9, <1>10, <1>11, <1>12 DEF Inv

\* A step without a change.
LEMMA Stutter_Inv ==
    ASSUME Inv, UNCHANGED vars
    PROVE  Inv'
<1>1. UNCHANGED <<user_table, group_table, file_table, disk, current_uid, open,
                  current_filename, adding, deleted>>
  BY DEF vars, tables, shell
<1>2. /\ open \in Entries \cup {-1} /\ current_filename \in Files \cup {""}
      /\ file_table \in [Entries -> FileRecord] /\ Save
  BY <1>1, Types DEF Inv, Save
<1>3. FileInv' BY <1>1, FilesSame DEF Inv
<1>. QED BY <1>1, <1>2, <1>3, File_Inv

\* Every command of the shell, a restart, and no step at all.
LEMMA Next_Inv ==
    ASSUME Inv, [Next]_vars
    PROVE  Inv'
<1>1. ASSUME NEW n \in Names,
             \/ Useradd(n) \/ Userdel(n) \/ Groupadd(n) \/ Groupdel(n) \/ Su(n)
             \/ \E g \in Names : Usermod(n, g)
      PROVE  Inv'
  BY <1>1, Useradd_Inv, Userdel_Inv, Groupadd_Inv, Groupdel_Inv, Su_Inv, Usermod_Inv
<1>2. CASE UseraddEnd BY <1>2, UseraddEnd_Inv
<1>3. ASSUME NEW f \in Files,
             \/ \E m \in Modes : Create(f, m) \/ Chmod(f, m)
             \/ OpenCreate(f)
             \/ \E u, g \in Names \cup {""} : Chown(f, u, g)
             \/ \E required \in OpenModes : Open(f, required)
             \/ Rm(f)
      PROVE  Inv'
  <2>1. ASSUME NEW required, Open(f, required) PROVE Inv'
    BY <2>1, Open_Inv DEF Open, CheckPermission
  <2>. QED BY <1>3, <2>1, Create_Inv, Chmod_Inv, OpenCreate_Inv, Chown_Inv, Rm_Inv
<1>4. CASE Write \/ Shrink
  BY <1>4, Fill_Inv DEF Write, Shrink, MayAccess
<1>5. CASE Close \/ Format \/ Restart \/ UNCHANGED vars
  BY <1>5, Close_Inv, Format_Inv, Restart_Inv, Stutter_Inv
<1>. QED BY <1>1, <1>2, <1>3, <1>4, <1>5 DEF Next

\* The inductive invariant holds in every state of the shell.
THEOREM Invariance == Spec => []Inv
<1>1. Init => Inv BY Init_Inv
<1>2. Inv /\ [Next]_vars => Inv' BY Next_Inv
<1>. QED BY <1>1, <1>2, PTL DEF Spec

\* The tables keep their types, and the saved ones are the ones in memory.
THEOREM TypeCorrect == Spec => []TypeOK
<1>1. Inv => TypeOK BY DEF Inv
<1>. QED BY <1>1, Invariance, PTL

\* Ids of active users and groups are unique, so are names that no longer one is cut to,
\* and the session is somebody's, whatever is added and deleted and wherever the program is
\* stopped.
THEOREM IdentityHolds == Spec => []Identity
<1>1. Inv => Identity BY DEF Inv, Identity, UserInv, GroupInv, SessionInv
<1>. QED BY <1>1, Invariance, PTL

\* Only fs_create() makes an entry used that was not.
LEMMA OnlyNewFile ==
    ASSUME Inv, Next, NEW i \in Entries, ~file_table[i].used, file_table'[i].used
    PROVE  \E f \in Files, m \in Modes, gid \in PrimaryGids(current_uid) : NewFile(f, m, gid)
<1>1. TypeOK /\ file_table \in [Entries -> FileRecord] /\ file_table' # file_table
  BY Types DEF Inv
<1>2. ASSUME NEW n \in Names,
             \/ Useradd(n) \/ Userdel(n) \/ Groupadd(n) \/ Groupdel(n) \/ Su(n)
             \/ \E g \in Names : Usermod(n, g)
      PROVE  FALSE
  BY <1>1, <1>2 DEF Useradd, Userdel, Groupadd, Groupdel, Su, Usermod, AddGroup, tables
<1>3. CASE UseraddEnd \/ Close
  BY <1>1, <1>3 DEF UseraddEnd, Close, tables
<1>4. CASE Restart
  <2>1. disk = <<user_table, group_table, file_table>> BY <1>1, Types
  <2>2. file_table' = disk[3] BY <1>4 DEF Restart
  <2>3. file_table' = file_table BY <2>1, <2>2
  <2>. QED BY <1>1, <2>3
<1>5. CASE Format
  <2>1. file_table'[i] = ZeroFile BY <1>5 DEF Format
  <2>2. ZeroFile.used = FALSE BY DEF ZeroFile
  <2>3. ~(file_table'[i].used)
    BY <2>1, <2>2
  <2>. QED BY <2>3
<1>6. CASE Write \/ Shrink
  <2>1. PICK c : file_table' = [file_table EXCEPT ![open].empty = ~c]
    BY <1>6 DEF Write, Shrink, Fill
  <2>2. file_table'[i].used = file_table[i].used
    BY <1>1, <2>1 DEF FileRecord
  <2>. QED BY <2>2
<1>7. ASSUME NEW f \in Files, NEW m \in Modes, Chmod(f, m) PROVE FALSE
  <2>1. PICK k : file_table' = [file_table EXCEPT ![k].mode = m] BY <1>7 DEF Chmod
  <2>2. file_table'[i].used = file_table[i].used
    BY <1>1, <2>1 DEF FileRecord
  <2>. QED BY <2>2
<1>8. ASSUME NEW f \in Files, NEW u, NEW g, Chown(f, u, g) PROVE FALSE
  <2>1. PICK k, o, x : file_table' = [file_table EXCEPT ![k].owner = o, ![k].group = x]
    BY <1>8 DEF Chown
  <2>2. file_table'[i].used = file_table[i].used
    BY <1>1, <2>1 DEF FileRecord
  <2>. QED BY <2>2
<1>9. ASSUME NEW f \in Files, Rm(f) PROVE FALSE
  <2>1. PICK k : file_table' = [file_table EXCEPT ![k].used = FALSE] BY <1>9 DEF Rm
  <2>2. file_table'[i].used = file_table[i].used \/ file_table'[i].used = FALSE
    BY <1>1, <2>1 DEF FileRecord
  <2>. QED BY <2>2
<1>10. ASSUME NEW f \in Files, NEW required, Open(f, required) PROVE FALSE
  BY <1>1, <1>10 DEF Open, tables
<1>11. ASSUME NEW f \in Files, NEW m \in Modes, Create(f, m)
       PROVE  \E gid \in PrimaryGids(current_uid) : NewFile(f, m, gid)
  BY <1>11 DEF Create
<1>12. ASSUME NEW f \in Files, OpenCreate(f)
       PROVE  \E gid \in PrimaryGids(current_uid) : NewFile(f, Mode0644, gid)
  BY <1>1, <1>12 DEF OpenCreate, tables
<1>13. Mode0644 \in Modes BY UsersAssumption
<1>. QED BY <1>2, <1>3, <1>4, <1>5, <1>6, <1>7, <1>8, <1>9, <1>10, <1>11, <1>12, <1>13 DEF Next

\* The one entry that becomes used by fs_create() gets the group it was called with.
LEMMA NewFileGroup ==
    ASSUME Inv, NEW f \in Files, NEW m \in Modes, NEW gid \in PrimaryGids(current_uid),
           NewFile(f, m, gid),
           NEW i \in Entries, ~file_table[i].used, file_table'[i].used
    PROVE  file_table'[i].group = gid
<1>1. gid \in 0 .. MaxGid BY PrimaryGidsIn DEF Inv
<1>2. \E j \in Entries :
          /\ j = First(FreeEntries) /\ ~file_table[j].used
          /\ file_table'[j].used = TRUE /\ file_table'[j].name = StoredFile[f]
          /\ file_table'[j].group = gid /\ file_table'[j].empty = TRUE
          /\ \A k \in Entries \ {j} : file_table'[k] = file_table[k]
          /\ \A k \in Entries : ~(file_table[k].used /\ file_table[k].name = f)
          /\ file_table' \in [Entries -> FileRecord]
  BY <1>1, NewFileDoes, Zenon
<1>3. PICK j \in Entries : /\ file_table'[j].group = gid
                           /\ \A k \in Entries \ {j} : file_table'[k] = file_table[k]
  BY <1>2
<1>4. i = j BY <1>3
<1>. QED BY <1>3, <1>4

\* fs_create() gives a new file the primary group of its creator as long as no user has been
\* deleted, because until then uids and slots agree.
THEOREM CreatorsGroupHolds == Spec => CreatorsGroup
<1>1. ASSUME Inv, [Next]_vars, ~UNCHANGED vars,
             NEW i \in Entries, ~deleted, ~file_table[i].used, file_table'[i].used,
             NEW u \in ActiveUsers, user_table[u].uid = current_uid
      PROVE  file_table'[i].group = user_table[u].gid
  <2>1. PICK f \in Files, m \in Modes, gid \in PrimaryGids(current_uid) : NewFile(f, m, gid)
    BY <1>1, OnlyNewFile
  <2>2. u = current_uid BY <1>1 DEF Inv, SlotInv
  <2>3. gid = user_table[u].gid
    BY <2>1, <2>2 DEF PrimaryGids, ActiveUsers
  <2>4. file_table'[i].group = gid BY <1>1, <2>1, NewFileGroup
  <2>. QED BY <2>3, <2>4
<1>2. Inv /\ [Next]_vars =>
        [\A i \in Entries : ~deleted /\ ~file_table[i].used /\ file_table'[i].used =>
            \A u \in ActiveUsers : user_table[u].uid = current_uid =>
                file_table'[i].group = user_table[u].gid]_vars
  BY <1>1
<1>. QED BY <1>2, Invariance, PTL DEF Spec, CreatorsGroup

\* Only cmd_write() puts something into a file, the open one, and asks before.
LEMMA OnlyWrite ==
    ASSUME Inv, Next, NEW i \in Entries, file_table[i].empty, ~file_table'[i].empty
    PROVE  Write /\ i = open
<1>1. TypeOK /\ file_table \in [Entries -> FileRecord] /\ file_table' # file_table
  BY Types DEF Inv
<1>2. ASSUME NEW n \in Names,
             \/ Useradd(n) \/ Userdel(n) \/ Groupadd(n) \/ Groupdel(n) \/ Su(n)
             \/ \E g \in Names : Usermod(n, g)
      PROVE  FALSE
  BY <1>1, <1>2 DEF Useradd, Userdel, Groupadd, Groupdel, Su, Usermod, AddGroup, tables
<1>3. CASE UseraddEnd \/ Close
  BY <1>1, <1>3 DEF UseraddEnd, Close, tables
<1>4. CASE Restart
  <2>1. disk = <<user_table, group_table, file_table>> BY <1>1, Types
  <2>2. file_table' = disk[3] BY <1>4 DEF Restart
  <2>3. file_table' = file_table BY <2>1, <2>2
  <2>. QED BY <1>1, <2>3
<1>5. CASE Format
  <2>1. file_table'[i] = ZeroFile BY <1>5 DEF Format
  <2>2. ZeroFile.empty = TRUE BY DEF ZeroFile
  <2>3. ~(~file_table'[i].empty)
    BY <2>1, <2>2
  <2>. QED BY <2>3
<1>6. CASE Shrink
  <2>1. file_table' = [file_table EXCEPT ![open].empty = TRUE]
    BY <1>6 DEF Shrink, Fill
  <2>2. file_table'[i].empty = file_table[i].empty \/ file_table'[i].empty = TRUE
    BY <1>1, <2>1 DEF FileRecord
  <2>. QED BY <2>2
<1>7. CASE Write
  <2>1. file_table' = [file_table EXCEPT ![open].empty = FALSE]
    BY <1>7 DEF Write, Fill
  <2>2. i # open => file_table'[i] = file_table[i]
    BY <1>1, <2>1
  <2>. QED BY <1>7, <2>2
<1>8. ASSUME NEW f \in Files, NEW m \in Modes, Chmod(f, m) PROVE FALSE
  <2>1. PICK k : file_table' = [file_table EXCEPT ![k].mode = m] BY <1>8 DEF Chmod
  <2>2. file_table'[i].empty = file_table[i].empty
    BY <1>1, <2>1 DEF FileRecord
  <2>. QED BY <2>2
<1>9. ASSUME NEW f \in Files, NEW u, NEW g, Chown(f, u, g) PROVE FALSE
  <2>1. PICK k, o, x : file_table' = [file_table EXCEPT ![k].owner = o, ![k].group = x]
    BY <1>9 DEF Chown
  <2>2. file_table'[i].empty = file_table[i].empty
    BY <1>1, <2>1 DEF FileRecord
  <2>. QED BY <2>2
<1>10. ASSUME NEW f \in Files, Rm(f) PROVE FALSE
  <2>1. PICK k : file_table' = [file_table EXCEPT ![k].used = FALSE] BY <1>10 DEF Rm
  <2>2. file_table'[i].empty = file_table[i].empty
    BY <1>1, <2>1 DEF FileRecord
  <2>. QED BY <2>2
<1>11. ASSUME NEW f \in Files, NEW required, Open(f, required) PROVE FALSE
  BY <1>1, <1>11 DEF Open, tables
<1>12. ASSUME NEW f \in Files, NEW m \in Modes, NEW gid \in PrimaryGids(current_uid),
              NewFile(f, m, gid)
       PROVE  FALSE
  <2>1. gid \in 0 .. MaxGid BY <1>1, PrimaryGidsIn
  <2>2. PICK j \in Entries : /\ file_table'[j].empty = TRUE
                             /\ \A k \in Entries \ {j} : file_table'[k] = file_table[k]
    BY <1>12, <2>1, NewFileDoes
  <2>. QED BY <2>2
<1>13. ASSUME NEW f \in Files, NEW m \in Modes, Create(f, m) PROVE FALSE
  BY <1>12, <1>13 DEF Create
<1>14. ASSUME NEW f \in Files, OpenCreate(f) PROVE FALSE
  <2>1. Mode0644 \in Modes BY UsersAssumption
  <2>. QED BY <1>1, <1>12, <1>14, <2>1 DEF OpenCreate, tables
<1>. QED BY <1>2, <1>3, <1>4, <1>5, <1>6, <1>7, <1>8, <1>9, <1>10, <1>11, <1>13, <1>14 DEF Next

\* cmd_write() asks for the file by its name, and writes to the one that is open: where no
\* longer name is cut to this one they are the same file, and the mode it has now permits
\* the user of now to write.
THEOREM WritePermittedHolds == Spec => WritePermitted
<1>1. ASSUME Inv, [Next]_vars, ~UNCHANGED vars,
             NEW i \in Entries, file_table[i].empty, ~file_table'[i].empty,
             WholeFile(file_table[i].name)
      PROVE  Permits(file_table[i], {"w"})
  <2>1. Write /\ i = open BY <1>1, OnlyWrite
  <2>2. /\ open # -1 /\ FilesNamed(current_filename) # {}
        /\ Permits(file_table[First(FilesNamed(current_filename))], {"w"})
    BY <2>1 DEF Write, MayAccess, CheckPermission
  <2>3. First(FilesNamed(current_filename)) = i
    <3>1. PICK j \in Entries : /\ j = First(FilesNamed(current_filename))
                               /\ file_table[j].used /\ file_table[j].name = current_filename
      BY <2>2, FoundFile
    <3>2. file_table[i].used /\ file_table[i].name = current_filename
      BY <1>1, <2>1, <2>2 DEF Inv, FileInv
    <3>. QED BY <1>1, <3>1, <3>2 DEF Inv, FileInv, NamesOnce
  <2>. QED BY <2>2, <2>3
<1>2. Inv /\ [Next]_vars =>
        [\A i \in Entries :
            file_table[i].empty /\ ~file_table'[i].empty /\ WholeFile(file_table[i].name) =>
                Permits(file_table[i], {"w"})]_vars
  BY <1>1
<1>. QED BY <1>2, Invariance, PTL DEF Spec, WritePermitted
=============================================================================
