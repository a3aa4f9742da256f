------------------------------- MODULE Users --------------------------------
(***************************************************************************)
(* Users, groups and permissions of MyFileSystem (File-System/filesystem.c *)
(* from fs_useradd() on) and the shell commands of cli.c that use them.    *)
(*                                                                         *)
(* Blocks and sizes are in module MyFS; here a file is empty or not and    *)
(* has a name, a mode, an owner and a group.  A command compares the name  *)
(* as it is typed with the names in the tables, which are cut.  A command  *)
(* that prints an error and returns is no step.  useradd is two steps,     *)
(* because it saves the metadata twice and the program may be stopped in   *)
(* between.                                                                *)
(***************************************************************************)
EXTENDS Integers, Sequences, FiniteSets

CONSTANTS
    Names,              \* of users and groups, as typed, "root" among them
    Files,              \* names of files, as typed
    StoredName,         \* a name cut to MAX_USERNAME - 1 characters,
    StoredFile,         \* and one cut to MAX_FILENAME - 1
    Modes,              \* what owner, group and others may do
    MAX_USERS, MAX_GROUPS, MAX_FILES, MAX_GROUPS_PER_USER,
    MaxUid, MaxGid,     \* bounds on uids and gids
    MaxMembers          \* bound: users with further groups

Mode0644 == [owner |-> {"r", "w"}, group |-> {"r"}, other |-> {"r"}]

ASSUME UsersAssumption ==
    /\ "root" \in Names
    /\ StoredName \in [Names -> Names] /\ StoredFile \in [Files -> Files]
    /\ \A n \in Names : StoredName[StoredName[n]] = StoredName[n]
    /\ \A n \in Names : StoredName[n] = "root" <=> n = "root"
    /\ \A f \in Files : StoredFile[StoredFile[f]] = StoredFile[f]
    /\ Mode0644 \in Modes
    /\ Modes \subseteq [{"owner", "group", "other"} -> SUBSET {"r", "w"}]
    /\ {MAX_USERS, MAX_GROUPS, MAX_FILES} \subseteq Nat \ {0}
    /\ MAX_GROUPS_PER_USER \in Nat /\ MaxUid \in Nat /\ MaxGid \in Nat /\ MaxMembers \in Nat

UserSlots  == 0 .. MAX_USERS - 1
GroupSlots == 0 .. MAX_GROUPS - 1
Entries    == 0 .. MAX_FILES - 1

VARIABLES
    user_table, group_table, file_table,
    disk,               \* the three tables as saved
    current_uid,
    open,               \* entry of the shell's open file, -1 when none
    current_filename,
    adding,             \* useradd in progress: a record, or NoAdd
    deleted             \* history: a user has been deleted

tables == <<user_table, group_table, file_table>>
shell  == <<current_uid, open, current_filename>>
vars   == <<tables, disk, shell, adding, deleted>>

NoAdd == [name |-> "", gid |-> 0]

TypeOK ==
    /\ user_table \in [UserSlots -> [active : BOOLEAN, uid : 0 .. MaxUid, name : Names \cup {""},
                                     gid : 0 .. MaxGid, groups : Seq(0 .. MaxGid)]]
    /\ group_table \in [GroupSlots -> [active : BOOLEAN, gid : 0 .. MaxGid, name : Names \cup {""}]]
    /\ file_table \in [Entries -> [used : BOOLEAN, empty : BOOLEAN, name : Files \cup {""},
                                   mode : Modes \cup {<<>>}, owner : 0 .. MaxUid, group : 0 .. MaxGid]]
    /\ disk = tables
    /\ current_uid \in 0 .. MaxUid
    /\ open \in Entries \cup {-1} /\ current_filename \in Files \cup {""}
    /\ adding \in [name : Names \cup {""}, gid : 0 .. MaxGid]
    /\ deleted \in BOOLEAN

Save == disk' = <<user_table', group_table', file_table'>>

First(S) == CHOOSE i \in S : \A j \in S : i <= j

----------------------------------------------------------------------------
(* The tables                                                              *)

ActiveUsers  == {i \in UserSlots : user_table[i].active}
ActiveGroups == {i \in GroupSlots : group_table[i].active}

Users(n)  == {i \in ActiveUsers : user_table[i].name = n}
Groups(n) == {i \in ActiveGroups : group_table[i].name = n}

\* fs_get_uid() and fs_get_gid() of a name that is found.
Uid(n) == user_table[First(Users(n))].uid
Gid(n) == group_table[First(Groups(n))].gid

\* Mutant of NewId: ids are counted.
NewIdCount(ids) == Cardinality(ids)

\* One more than the highest id in use.
NewId(ids) == (CHOOSE i \in ids : \A j \in ids : j <= i) + 1

NewUid == NewId({user_table[i].uid : i \in ActiveUsers} \cup {0})
NewGid == NewId({group_table[i].gid : i \in ActiveGroups} \cup {0})

\* fs_user_in_group(), for the first active user with this uid.
InGroup(uid, gid) ==
    LET S == {i \in ActiveUsers : user_table[i].uid = uid} IN
    /\ S # {}
    /\ LET u == user_table[First(S)] IN
       \/ u.gid = gid
       \/ \E j \in 1 .. Len(u.groups) : u.groups[j] = gid

FilesNamed(f) == {i \in Entries : file_table[i].used /\ file_table[i].name = f}
FreeEntries == {i \in Entries : ~file_table[i].used}

\* The class of permission bits that applies to the current user.
Class(file) ==
    CASE file.owner = current_uid -> "owner"
      [] file.owner # current_uid /\ InGroup(current_uid, file.group) -> "group"
      [] OTHER -> "other"

Permits(file, required) == current_uid = 0 \/ required \subseteq file.mode[Class(file)]

\* fs_check_permission() finds the file by its name.
CheckPermission(f, required) ==
    /\ FilesNamed(f) # {}
    /\ Permits(file_table[First(FilesNamed(f))], required)

----------------------------------------------------------------------------
(* Users and groups, for root only                                         *)

Idle == adding = NoAdd
Root == Idle /\ current_uid = 0

\* fs_groupadd() looks for the name as typed, and stores it cut.
AddGroup(n) ==
    /\ Groups(n) = {}
    /\ ActiveGroups # GroupSlots
    /\ NewGid <= MaxGid
    /\ group_table' = [group_table EXCEPT ![First(GroupSlots \ ActiveGroups)] =
           [active |-> TRUE, gid |-> NewGid, name |-> StoredName[n]]]
    /\ UNCHANGED <<user_table, file_table, shell, deleted>>
    /\ Save

Groupadd(n) == Root /\ AddGroup(n) /\ UNCHANGED adding

\* fs_useradd() up to the group of the same name, which is saved.
Useradd(n) ==
    /\ Root
    /\ Users(n) = {}
    /\ ActiveUsers # UserSlots
    /\ NewUid <= MaxUid
    /\ AddGroup(n)
    /\ adding' = [name |-> n, gid |-> NewGid]

\* Mutant of FreeSlot: the last free slot.
FreeSlotLast == CHOOSE i \in UserSlots \ ActiveUsers : \A j \in UserSlots \ ActiveUsers : j <= i

FreeSlot == First(UserSlots \ ActiveUsers)

UseraddEnd ==
    /\ ~Idle
    /\ user_table' = [user_table EXCEPT ![FreeSlot] =
           [active |-> TRUE, uid |-> NewUid, name |-> StoredName[adding.name],
            gid |-> adding.gid, groups |-> <<>>]]
    /\ adding' = NoAdd
    /\ UNCHANGED <<group_table, file_table, shell, deleted>>
    /\ Save

\* The user's group, files and memberships stay.
Userdel(n) ==
    /\ Root
    /\ n # "root"
    /\ Users(n) # {}
    /\ user_table' = [user_table EXCEPT ![First(Users(n))].active = FALSE]
    /\ deleted' = TRUE
    /\ UNCHANGED <<group_table, file_table, shell, adding>>
    /\ Save

Groupdel(n) ==
    /\ Root
    /\ n # "root"
    /\ Groups(n) # {}
    /\ group_table' = [group_table EXCEPT ![First(Groups(n))].active = FALSE]
    /\ UNCHANGED <<user_table, file_table, shell, adding, deleted>>
    /\ Save

\* fs_usermod_add_group() of a group the user is not in.
Usermod(n, g) ==
    /\ Root
    /\ Groups(g) # {} /\ Users(n) # {}
    /\ LET u == user_table[First(Users(n))] IN
       /\ ~\E j \in 1 .. Len(u.groups) : u.groups[j] = Gid(g)
       /\ u.gid # Gid(g)
       /\ Len(u.groups) < MAX_GROUPS_PER_USER
    /\ Cardinality({i \in ActiveUsers : user_table[i].groups # <<>>} \ Users(n)) < MaxMembers
    /\ user_table' = [user_table EXCEPT ![First(Users(n))].groups = Append(@, Gid(g))]
    /\ UNCHANGED <<group_table, file_table, shell, adding, deleted>>
    /\ Save

\* fs_switch_user(): to anybody, with the file still open.
Su(n) ==
    /\ Idle
    /\ Users(n) # {}
    /\ current_uid' = Uid(n)
    /\ UNCHANGED <<tables, disk, open, current_filename, adding, deleted>>

----------------------------------------------------------------------------
(* Owner, group and mode of a file                                         *)

OwnerOrRoot(i) == current_uid = 0 \/ file_table[i].owner = current_uid

Chmod(f, m) ==
    /\ Idle
    /\ FilesNamed(f) # {}
    /\ OwnerOrRoot(First(FilesNamed(f)))
    /\ file_table' = [file_table EXCEPT ![First(FilesNamed(f))].mode = m]
    /\ UNCHANGED <<user_table, group_table, shell, adding, deleted>>
    /\ Save

\* fs_chown() and fs_chgrp() fail one by one: the owner changes if root asks for a user who
\* exists, the group if the owner at that time or root asks for a group that exists.
NewOwner(i, u) == IF current_uid = 0 /\ Users(u) # {} THEN Uid(u) ELSE file_table[i].owner

NewGroup(i, owner, g) ==
    IF (current_uid = 0 \/ owner = current_uid) /\ Groups(g) # {} THEN Gid(g)
    ELSE file_table[i].group

\* chown user:group, and chgrp where no user is named.
Chown(f, u, g) ==
    LET i == First(FilesNamed(f)) IN
    /\ Idle
    /\ FilesNamed(f) # {}
    /\ file_table' = [file_table EXCEPT ![i].owner = NewOwner(i, u),
                                        ![i].group = NewGroup(i, NewOwner(i, u), g)]
    /\ UNCHANGED <<user_table, group_table, shell, adding, deleted>>
    /\ Save

----------------------------------------------------------------------------
(* Files                                                                   *)

\* user_table[current_uid] uses the uid as a slot: it may be another user's, a deleted
\* user's or behind the table.
PrimaryGids(uid) == IF uid \in UserSlots THEN {user_table[uid].gid} ELSE 0 .. MaxGid

\* fs_create() looks for the name as typed, and stores it cut.
NewFile(f, m, gid) ==
    /\ Idle
    /\ FilesNamed(f) = {} /\ FreeEntries # {}
    /\ file_table' = [file_table EXCEPT ![First(FreeEntries)] =
           [used |-> TRUE, empty |-> TRUE, name |-> StoredFile[f], mode |-> m,
            owner |-> current_uid, group |-> gid]]
    /\ UNCHANGED <<user_table, group_table, current_uid, adding, deleted>>
    /\ Save

Create(f, m) ==
    /\ \E gid \in PrimaryGids(current_uid) : NewFile(f, m, gid)
    /\ UNCHANGED <<open, current_filename>>

\* The shell keeps a cut copy of the name.
OpenFile(f, i) == open = -1 /\ open' = i /\ current_filename' = StoredFile[f]

\* What is required to open a file for reading, and for writing (which asks for both).
OpenModes == {{"r"}, {"r", "w"}}

\* open with r, w or rw.
Open(f, required) ==
    /\ Idle
    /\ CheckPermission(f, required)
    /\ OpenFile(f, First(FilesNamed(f)))
    /\ UNCHANGED <<tables, disk, current_uid, adding, deleted>>

\* open with c: no check, the file is made with mode 0644 if it is not found.
OpenCreate(f) ==
    \/ /\ Idle /\ FilesNamed(f) # {}
       /\ OpenFile(f, First(FilesNamed(f)))
       /\ UNCHANGED <<tables, disk, current_uid, adding, deleted>>
    \/ /\ \E gid \in PrimaryGids(current_uid) : NewFile(f, Mode0644, gid)
       /\ OpenFile(f, First(FreeEntries))

Close ==
    /\ Idle
    /\ open # -1
    /\ open' = -1 /\ current_filename' = ""
    /\ UNCHANGED <<tables, disk, current_uid, adding, deleted>>

\* Mutant of MayAccess: checked when the file was opened.
MayAccessOpened(required) == open # -1

\* cmd_write() checks again, by name, before it uses the open file (as does cmd_read(),
\* which changes nothing).
MayAccess(required) == open # -1 /\ CheckPermission(current_filename, required)

Fill(content) ==
    /\ file_table' = [file_table EXCEPT ![open].empty = ~content]
    /\ UNCHANGED <<user_table, group_table, shell, adding, deleted>>
    /\ Save

Write == Idle /\ MayAccess({"w"}) /\ Fill(TRUE)

\* cmd_shrink() to 0 does not check.
Shrink == Idle /\ open # -1 /\ ~file_table[open].empty /\ Fill(FALSE)

\* fs_delete(), never of the open file.
Rm(f) ==
    /\ Idle
    /\ ~(open # -1 /\ current_filename = f)
    /\ CheckPermission(f, {"w"})
    /\ file_table' = [file_table EXCEPT ![First(FilesNamed(f))].used = FALSE]
    /\ UNCHANGED <<user_table, group_table, shell, adding, deleted>>
    /\ Save

ZeroFile == [used |-> FALSE, empty |-> TRUE, name |-> "", mode |-> <<>>, owner |-> 0, group |-> 0]

\* Users and groups stay.
Format ==
    /\ Idle
    /\ file_table' = [i \in Entries |-> ZeroFile]
    /\ open' = -1 /\ current_filename' = ""
    /\ UNCHANGED <<user_table, group_table, current_uid, adding, deleted>>
    /\ Save

----------------------------------------------------------------------------
(* The system                                                              *)

\* init_users_and_groups() on a new disk.
RootUser  == [active |-> TRUE, uid |-> 0, name |-> "root", gid |-> 0, groups |-> <<>>]
ZeroUser  == [active |-> FALSE, uid |-> 0, name |-> "", gid |-> 0, groups |-> <<>>]
RootGroup == [active |-> TRUE, gid |-> 0, name |-> "root"]
ZeroGroup == [active |-> FALSE, gid |-> 0, name |-> ""]

Init ==
    /\ user_table = [i \in UserSlots |-> IF i = 0 THEN RootUser ELSE ZeroUser]
    /\ group_table = [i \in GroupSlots |-> IF i = 0 THEN RootGroup ELSE ZeroGroup]
    /\ file_table = [i \in Entries |-> ZeroFile]
    /\ disk = tables
    /\ current_uid = 0 /\ open = -1 /\ current_filename = ""
    /\ adding = NoAdd
    /\ deleted = FALSE

\* The program ends or is stopped, also within useradd, and starts again as root.
Restart ==
    /\ user_table' = disk[1] /\ group_table' = disk[2] /\ file_table' = disk[3]
    /\ current_uid' = 0 /\ open' = -1 /\ current_filename' = ""
    /\ adding' = NoAdd
    /\ UNCHANGED <<disk, deleted>>

Next ==
    \/ \E n \in Names : \/ Useradd(n) \/ Userdel(n) \/ Groupadd(n) \/ Groupdel(n) \/ Su(n)
                        \/ \E g \in Names : Usermod(n, g)
    \/ UseraddEnd
    \/ \E f \in Files :
        \/ \E m \in Modes : Create(f, m) \/ Chmod(f, m)
        \/ OpenCreate(f)
        \/ \E u, g \in Names \cup {""} : Chown(f, u, g)
        \/ \E required \in OpenModes : Open(f, required)
        \/ Rm(f)
    \/ Close \/ Write \/ Shrink \/ Format \/ Restart

Spec == Init /\ [][Next]_vars

----------------------------------------------------------------------------
(* Properties                                                              *)

\* No other name is cut to this one.
WholeName(n) == \A m \in Names : StoredName[m] = n => m = n
WholeFile(f) == \A g \in Files : StoredFile[g] = f => g = f

\* Users and groups can be told apart: ids are unique among the active ones, and so are
\* names that no longer one is cut to; root is user 0, and the user of the session is
\* active, though slots and ids are used again after deletions and useradd may be stopped
\* half way.
Identity ==
    /\ \A i, j \in ActiveUsers : i # j =>
        /\ user_table[i].uid # user_table[j].uid
        /\ user_table[i].name = user_table[j].name => ~WholeName(user_table[i].name)
    /\ \A i, j \in ActiveGroups : i # j =>
        /\ group_table[i].gid # group_table[j].gid
        /\ group_table[i].name = group_table[j].name => ~WholeName(group_table[i].name)
    /\ 0 \in ActiveUsers /\ user_table[0].uid = 0
    /\ \E i \in ActiveUsers : user_table[i].uid = current_uid

\* No two active users have one name: fs_useradd() says of a second one that it already
\* exists.
UserNamesUnique ==
    \A i, j \in ActiveUsers : user_table[i].name = user_table[j].name => i = j

\* A new file gets the primary group of the user who creates it, as the comment in
\* fs_create() says, as long as nobody has been deleted: until then uid and slot agree.
CreatorsGroup ==
    [][\A i \in Entries : ~deleted /\ ~file_table[i].used /\ file_table'[i].used =>
        \A u \in ActiveUsers : user_table[u].uid = current_uid =>
            file_table'[i].group = user_table[u].gid]_vars

\* Same, whoever has been deleted.
CreatorsGroupAlways ==
    [][\A i \in Entries : ~file_table[i].used /\ file_table'[i].used =>
        \A u \in ActiveUsers : user_table[u].uid = current_uid =>
            file_table'[i].group = user_table[u].gid]_vars

\* Whoever puts something into a file is permitted to by the mode of that very file,
\* though the check is by name and the user, the mode, the owner and the groups may have
\* changed since the file was opened.  Where a longer name is cut to the name of the file,
\* the check may look at another file.
WritePermitted ==
    [][\A i \in Entries :
        file_table[i].empty /\ ~file_table'[i].empty /\ WholeFile(file_table[i].name) =>
            Permits(file_table[i], {"w"})]_vars
=============================================================================
