---------------------------- MODULE FilesProofs -----------------------------
(***************************************************************************)
(* Theorems about open files and pipes.                                    *)
(*                                                                         *)
(* The inductive invariant Inv says that references are counted (RefInv),  *)
(* that descriptors and calls in progress belong to ends of pipes (FdInv,  *)
(* CallInv), what a process may have left to close (CloseInv), that every  *)
(* end has one owner (OwnerInv), who holds the locks (LockInv), that       *)
(* sleepers have a reason to sleep or somebody with the lock who is going  *)
(* to wake them (SleepInv), and that the counters of a pipe are at most    *)
(* PIPESIZE apart (RingInv).                                               *)
(***************************************************************************)
EXTENDS Files, FiniteSetTheorems, SequenceTheorems, TLAPS

\* A process inside a call on a pipe, and where it has the lock there.
Calling == Reading \cup Writing
Holding == {"rloop", "rgo", "wloop", "wgo"}

\* Descriptors of live processes name files that are ends of pipes.
FdInv ==
    \A p \in Proc, fd \in FD :
        ofile[p][fd] # 0 => pc[p] # "none" /\ end[ofile[p][fd]] # None

\* A call on a pipe is on the end that a descriptor of its process names.
CallInv ==
    \A p \in Proc : pc[p] \in Calling =>
        /\ \E fd \in FD : ofile[p][fd] = file[p] /\ file[p] # 0
        /\ end[file[p]] # None
        /\ end[file[p]][2] = (pc[p] \in Writing)

\* What each process has to close: nothing, one file or the two of a failed pipe(),
\* and while pipe() has only its first file nobody else knows that one.
CloseInv ==
    \A p \in Proc :
        /\ \/ closing[p] = <<>> /\ pc[p] # "pipe"
           \/ \E f \in File : closing[p] = <<f>> /\ pc[p] \in {"close", "exit"}
           \/ \E f \in File : /\ closing[p] = <<f>> /\ pc[p] = "pipe"
                              /\ ref[f] = 1 /\ end[f] = None
           \/ \E f, g \in File : f # g /\ closing[p] = <<f, g>> /\ pc[p] = "close"
        /\ ff[p] # None => pc[p] \in {"close", "exit"}

\* The counts are exact, and a file that nobody refers to is FD_NONE.
RefInv == RefCounts /\ \A f \in File : ref[f] = 0 => end[f] = None

\* What holds an end of a pipe: a file, or a pipeclose() that is yet to run.
Held(e) == (\E f \in File : end[f] = e) \/ (\E p \in Proc : ff[p] = e)

\* An end is open exactly while it is held, and has one holder.
OwnerInv ==
    /\ \A i \in Pages : /\ pipe[i].readopen <=> Held(<<i, FALSE>>)
                        /\ pipe[i].writeopen <=> Held(<<i, TRUE>>)
    /\ \A f, g \in File : end[f] # None /\ end[f] = end[g] => f = g
    /\ \A p, q \in Proc : ff[p] # None /\ ff[p] = ff[q] => p = q
    /\ \A f \in File, p \in Proc : ff[p] # None => end[f] # ff[p]

\* Whoever is in a loop of the pipe has its lock.
LockInv ==
    /\ \A p \in Proc : pc[p] \in Holding => plock[Pipe(p)] = p
    /\ \A i \in Pages : plock[i] # 0 => pc[plock[i]] \in Holding /\ Pipe(plock[i]) = i

\* The holder of the lock has put bytes into the pipe, or taken some out, and will say so.
Filling(i)  == plock[i] # 0 /\ pc[plock[i]] = "wloop" /\ begun[plock[i]]
Draining(i) == plock[i] # 0 /\ pc[plock[i]] = "rloop" /\ begun[plock[i]]

\* What a process that sleeps, or has decided to, may rely on.
SleepOK(p) ==
    /\ pc[p] = "rgo" => pipe[Pipe(p)].writeopen /\ Empty(Pipe(p))
    /\ pc[p] = "wgo" => pipe[Pipe(p)].readopen /\ Full(Pipe(p))
    /\ pc[p] = "rsleep" =>
        pipe[Pipe(p)].writeopen /\ (Empty(Pipe(p)) \/ quiet[Pipe(p)] \/ Filling(Pipe(p)))
    /\ pc[p] = "wsleep" =>
        pipe[Pipe(p)].readopen /\ (Full(Pipe(p)) \/ Draining(Pipe(p)))

\* A sleeper cannot go on, or whoever has the lock is about to wake it.
SleepInv == \A p \in Proc : SleepOK(p)

\* How many bytes are between two values of the counters.
Dist(r, w) == (w - r) % UINT

\* The counters are at most PIPESIZE apart, across their wrap too.
RingInv == \A i \in Pages : Dist(pipe[i].nread, pipe[i].nwrite) <= PIPESIZE

Inv ==
    /\ TypeOK /\ FdInv /\ CallInv /\ CloseInv /\ RefInv /\ OwnerInv /\ LockInv /\ SleepInv
    /\ RingInv

----------------------------------------------------------------------------
(* Helpers                                                                 *)

\* The parts of TypeOK.
LEMMA Types ==
    ASSUME TypeOK
    PROVE  /\ ofile \in [Proc -> [FD -> 0 .. NFILE]]
           /\ ref \in [File -> Nat] /\ end \in [File -> End \cup {None}]
           /\ plock \in [Pages -> Proc \cup {0}]
           /\ file \in [Proc -> 0 .. NFILE]
           /\ begun \in [Proc -> BOOLEAN]
           /\ closing \in [Proc -> Seq(File)] /\ ff \in [Proc -> End \cup {None}]
           /\ quiet \in [Pages -> BOOLEAN]
BY DEF TypeOK

\* The pipe of a page has both ends, and counters that are natural numbers.
LEMMA PipeTypes ==
    ASSUME TypeOK, NEW i \in Pages
    PROVE  /\ pipe[i].readopen \in BOOLEAN /\ pipe[i].writeopen \in BOOLEAN
           /\ pipe[i].nread \in 0 .. UINT - 1 /\ pipe[i].nwrite \in 0 .. UINT - 1
           /\ pipe[i].data \in [0 .. PIPESIZE - 1 -> Bytes]
BY DEF TypeOK

\* The constants are natural numbers.
LEMMA Consts ==
    /\ UINT \in Nat /\ PIPESIZE \in Nat /\ NFILE \in Nat /\ NOFILE \in Nat
    /\ PIPESIZE > 0 /\ PIPESIZE < UINT /\ NFILE > 0
    /\ FD \subseteq Nat /\ File \subseteq Nat /\ File \subseteq 0 .. NFILE
    /\ 0 \notin File /\ 0 .. NFILE = File \cup {0}
BY FilesAssumption DEF FD, File

\* An end is a page and a side.
LEMMA EndIs ==
    ASSUME NEW e \in End \cup {None}, e # None
    PROVE  e \in End /\ e[1] \in Pages /\ e[2] \in BOOLEAN /\ e = <<e[1], e[2]>>
BY DEF End

\* A pair is an end, and not None.
LEMMA PairIsEnd ==
    ASSUME NEW i \in Pages, NEW w \in BOOLEAN
    PROVE  <<i, w>> \in End /\ <<i, w>> # None /\ <<i, w>>[1] = i /\ <<i, w>>[2] = w
BY DEF End, None

\* The files of processes that have one, two or no file to close.
LEMMA ClosingIs ==
    ASSUME NEW p \in Proc
    PROVE  /\ closing[p] = <<>> => Closing(p) = {}
           /\ \A f : closing[p] = <<f>> => Closing(p) = {f}
           /\ \A f, g : closing[p] = <<f, g>> => Closing(p) = {f, g}
BY DEF Closing

\* The same after a step.
LEMMA ClosingIsNext ==
    ASSUME NEW p \in Proc
    PROVE  /\ closing'[p] = <<>> => Closing(p)' = {}
           /\ \A f : closing'[p] = <<f>> => Closing(p)' = {f}
           /\ \A f, g : closing'[p] = <<f, g>> => Closing(p)' = {f, g}
BY DEF Closing

FdRefs(f) == {x \in Proc \X FD : ofile[x[1]][x[2]] = f}
CloseRefs(f) == {p \in Proc : f \in Closing(p)}

\* A process has finitely many descriptors.
LEMMA FDFinite == IsFiniteSet(FD)
<1>1. NOFILE \in Int BY Consts
<1>2. IsFiniteSet(1 .. NOFILE) BY <1>1, FS_Interval
<1>. QED BY <1>2 DEF FD

\* Both kinds of references are finitely many.
LEMMA RefsFinite ==
    ASSUME NEW f
    PROVE  IsFiniteSet(FdRefs(f)) /\ IsFiniteSet(CloseRefs(f))
<1>1. IsFiniteSet(Proc) BY FilesAssumption
<1>2. IsFiniteSet(FD) BY FDFinite
<1>3. IsFiniteSet(Proc \X FD) BY <1>1, <1>2, FS_Product
<1>4. FdRefs(f) \in SUBSET (Proc \X FD) /\ CloseRefs(f) \in SUBSET Proc
  BY DEF FdRefs, CloseRefs
<1>. QED BY <1>1, <1>3, <1>4, FS_Subset

\* The same after a step.
LEMMA RefsFiniteNext ==
    ASSUME NEW f
    PROVE  IsFiniteSet(FdRefs(f)') /\ IsFiniteSet(CloseRefs(f)')
<1>1. IsFiniteSet(Proc) BY FilesAssumption
<1>2. IsFiniteSet(FD) BY FDFinite
<1>3. IsFiniteSet(Proc \X FD) BY <1>1, <1>2, FS_Product
<1>4. FdRefs(f)' \in SUBSET (Proc \X FD) /\ CloseRefs(f)' \in SUBSET Proc
  BY DEF FdRefs, CloseRefs
<1>. QED BY <1>1, <1>3, <1>4, FS_Subset

\* RefCounts in terms of the two sets.
LEMMA RefIs ==
    ASSUME RefCounts, NEW f \in File
    PROVE  /\ ref[f] = Cardinality(FdRefs(f)) + Cardinality(CloseRefs(f))
           /\ Cardinality(FdRefs(f)) \in Nat /\ Cardinality(CloseRefs(f)) \in Nat
           /\ Cardinality(FdRefs(f)) = 0 <=> FdRefs(f) = {}
           /\ Cardinality(CloseRefs(f)) = 0 <=> CloseRefs(f) = {}
<1>1. IsFiniteSet(FdRefs(f)) /\ IsFiniteSet(CloseRefs(f)) BY RefsFinite
<1>2. ref[f] = Cardinality(FdRefs(f)) + Cardinality(CloseRefs(f))
  BY DEF RefCounts, FdRefs, CloseRefs
<1>. QED BY <1>1, <1>2, FS_CardinalityType, FS_EmptySet

\* A file with a descriptor, or about to be closed, has a reference;
LEMMA RefOne ==
    ASSUME RefCounts, NEW f \in File, NEW p \in Proc,
           f \in Closing(p) \/ \E fd \in FD : ofile[p][fd] = f
    PROVE  ref[f] \in Nat /\ ref[f] >= 1
<1>1. FdRefs(f) # {} \/ CloseRefs(f) # {}
  <2>1. CASE f \in Closing(p) BY <2>1 DEF CloseRefs
  <2>2. ASSUME NEW fd \in FD, ofile[p][fd] = f PROVE FdRefs(f) # {}
    <3>1. <<p, fd>> \in FdRefs(f) BY <2>2 DEF FdRefs
    <3>. QED BY <3>1
  <2>. QED BY <2>1, <2>2
<1>. QED BY <1>1, RefIs

\* one with both has two,
LEMMA RefTwo ==
    ASSUME RefCounts, NEW f \in File, NEW p \in Proc, f \in Closing(p),
           NEW q \in Proc, NEW fd \in FD, ofile[q][fd] = f
    PROVE  ref[f] \in Nat /\ ref[f] >= 2
<1>1. <<q, fd>> \in FdRefs(f) BY DEF FdRefs
<1>2. p \in CloseRefs(f) BY DEF CloseRefs
<1>3. Cardinality(FdRefs(f)) # 0 /\ Cardinality(CloseRefs(f)) # 0
  BY <1>1, <1>2, RefIs
<1>. QED BY <1>3, RefIs

\* and so has one that two processes are closing.
LEMMA RefTwoClosers ==
    ASSUME RefCounts, NEW f \in File, NEW p \in Proc, f \in Closing(p),
           NEW q \in Proc, f \in Closing(q), p # q
    PROVE  ref[f] \in Nat /\ ref[f] >= 2
<1>1. IsFiniteSet(CloseRefs(f)) BY RefsFinite
<1>2. p \in CloseRefs(f) /\ q \in CloseRefs(f) BY DEF CloseRefs
<1>3. IsFiniteSet(CloseRefs(f) \ {p})
      /\ Cardinality(CloseRefs(f) \ {p}) = Cardinality(CloseRefs(f)) - 1
  BY <1>1, <1>2, FS_RemoveElement
<1>4. CloseRefs(f) \ {p} # {} BY <1>2
<1>5. Cardinality(CloseRefs(f) \ {p}) \in Nat /\ Cardinality(CloseRefs(f) \ {p}) # 0
  BY <1>3, <1>4, FS_CardinalityType, FS_EmptySet
<1>. QED BY <1>3, <1>5, RefIs

\* A process in piperead() or pipewrite() has its end open.
LEMMA CallFacts ==
    ASSUME Inv, NEW p \in Proc, pc[p] \in Calling
    PROVE  /\ file[p] \in File /\ Pipe(p) \in Pages
           /\ end[file[p]] = <<Pipe(p), pc[p] \in Writing>>
           /\ ref[file[p]] \in Nat /\ ref[file[p]] >= 1
           /\ \E fd \in FD : ofile[p][fd] = file[p]
<1>1. TypeOK /\ CallInv /\ RefCounts BY DEF Inv, RefInv
<1>2. PICK fd \in FD : ofile[p][fd] = file[p] /\ file[p] # 0 BY <1>1 DEF CallInv
<1>3. file[p] \in File BY <1>1, <1>2, Types, Consts
<1>4. end[file[p]] \in End \cup {None} /\ end[file[p]] # None
      /\ end[file[p]][2] = (pc[p] \in Writing)
  BY <1>1, <1>3, Types DEF CallInv
<1>5. end[file[p]] = <<Pipe(p), pc[p] \in Writing>> /\ Pipe(p) \in Pages
  BY <1>4, EndIs DEF Pipe
<1>. QED BY <1>1, <1>2, <1>3, <1>5, RefOne

----------------------------------------------------------------------------
(* piperead() and pipewrite(): files and descriptors stay as they are      *)

\* What CallInv says of one process.
CallOK(p) ==
    pc[p] \in Calling =>
        /\ \E fd \in FD : ofile[p][fd] = file[p] /\ file[p] # 0
        /\ end[file[p]] # None
        /\ end[file[p]][2] = (pc[p] \in Writing)

\* A process that goes on where it was, or is woken.
Stays(q) ==
    /\ file'[q] = file[q]
    /\ \/ pc'[q] = pc[q]
       \/ pc[q] = "rsleep" /\ pc'[q] = "racq"
       \/ pc[q] = "wsleep" /\ pc'[q] = "wacq"

\* A process that begins, ends or goes on with a call.
Calls(q) ==
    /\ pc[q] \in Calling \cup {"user"} /\ pc'[q] \in Calling \cup {"user"}
    /\ CallOK(q)'

\* Calls leave alone what the file table and the descriptors have to satisfy.
LEMMA Call_Tables ==
    ASSUME Inv, UNCHANGED <<ofile, ref, end, closing, ff>>,
           \A q \in Proc : Stays(q) \/ Calls(q)
    PROVE  FdInv' /\ CallInv' /\ CloseInv' /\ RefInv'
<1>1. FdInv /\ CallInv /\ CloseInv /\ RefInv BY DEF Inv
<1>2. FdInv'
  <2>. SUFFICES ASSUME NEW q \in Proc, NEW fd \in FD, ofile[q][fd] # 0
                PROVE  pc'[q] # "none" /\ end[ofile[q][fd]] # None
    BY DEF FdInv
  <2>1. pc[q] # "none" /\ end[ofile[q][fd]] # None BY <1>1 DEF FdInv
  <2>2. pc'[q] # "none" BY <2>1 DEF Stays, Calls, Calling, Reading, Writing
  <2>. QED BY <2>1, <2>2
<1>3. CallInv'
  <2>. SUFFICES ASSUME NEW q \in Proc PROVE CallOK(q)'
    BY DEF CallInv, CallOK
  <2>1. CallOK(q) BY <1>1 DEF CallInv, CallOK
  <2>2. CASE Stays(q) /\ pc'[q] = pc[q] BY <2>1, <2>2 DEF Stays, CallOK
  <2>3. CASE Stays(q) /\ pc'[q] # pc[q]
    BY <2>1, <2>3 DEF Stays, CallOK, Calling, Reading, Writing
  <2>. QED BY <2>2, <2>3 DEF Calls
<1>4. CloseInv'
  <2>. SUFFICES ASSUME NEW q \in Proc
                PROVE  \/ pc'[q] = pc[q]
                       \/ /\ pc[q] \notin {"close", "exit", "pipe"}
                          /\ pc'[q] \notin {"close", "exit", "pipe"}
    BY <1>1 DEF CloseInv
  <2>. QED BY DEF Stays, Calls, Calling, Reading, Writing
<1>5. RefInv'
  <2>1. \A f \in File : ref'[f] = 0 => end'[f] = None BY <1>1 DEF RefInv
  <2>2. RefCounts' BY <1>1 DEF RefInv, RefCounts, Closing
  <2>. QED BY <2>1, <2>2 DEF RefInv
<1>. QED BY <1>2, <1>3, <1>4, <1>5

\* As long as no end is opened or closed, owners stay.
LEMMA Same_Owners ==
    ASSUME Inv, UNCHANGED <<end, ff>>,
           \A i \in Pages : pipe'[i].readopen = pipe[i].readopen
                            /\ pipe'[i].writeopen = pipe[i].writeopen
    PROVE  OwnerInv'
<1>1. OwnerInv BY DEF Inv
<1>2. \A e : Held(e)' <=> Held(e) BY DEF Held
<1>. QED BY <1>1, <1>2 DEF OwnerInv

\* A pipe whose counters stay keeps their distance.
LEMMA Same_Ring ==
    ASSUME Inv,
           \A i \in Pages : pipe'[i].nread = pipe[i].nread /\ pipe'[i].nwrite = pipe[i].nwrite
    PROVE  RingInv'
BY DEF Inv, RingInv

\* What wakeup() does to each process.
LEMMA WokenIs ==
    ASSUME NEW p \in Proc, NEW s, NEW i, NEW asleep, NEW awake,
           pc' = Woken(p, s, i, asleep, awake)
    PROVE  /\ pc'[p] = s
           /\ \A q \in Proc \ {p} :
                /\ pc[q] = asleep /\ Pipe(q) = i => pc'[q] = awake
                /\ ~(pc[q] = asleep /\ Pipe(q) = i) => pc'[q] = pc[q]
BY DEF Woken

\* Types of pc after wakeup().
LEMMA WokenType ==
    ASSUME TypeOK, NEW p \in Proc, NEW s, NEW i, NEW asleep, NEW awake,
           pc' = Woken(p, s, i, asleep, awake),
           s \in {"none", "user", "exit", "pipe", "close"} \cup Reading \cup Writing,
           awake \in {"none", "user", "exit", "pipe", "close"} \cup Reading \cup Writing
    PROVE  pc' \in [Proc -> {"none", "user", "exit", "pipe", "close"} \cup Reading \cup Writing]
<1>. DEFINE T == {"none", "user", "exit", "pipe", "close"} \cup Reading \cup Writing
<1>1. pc \in [Proc -> T] /\ s \in T /\ awake \in T BY DEF TypeOK
<1>. HIDE DEF T
<1>. SUFFICES pc' \in [Proc -> T] BY DEF T
<1>. QED BY <1>1 DEF Woken

\* A step of p that touches no lock, no bytes and no history but those of the pages J,
\* which p has locked or finds unlocked.
Frame(p, J) ==
    /\ \A j \in Pages \ J : /\ pipe'[j] = pipe[j] /\ quiet'[j] = quiet[j]
                            /\ plock'[j] = plock[j] /\ plock[j] # p
    /\ \A j \in J : plock[j] \in {0, p}
    /\ \A q \in Proc \ {p} : /\ Stays(q) /\ begun'[q] = begun[q]
                             /\ pc[q] \in Calling => end'[file[q]] = end[file[q]]

Asleep == {"rgo", "wgo", "rsleep", "wsleep"}

\* Another process in a call stays with its pipe.
LEMMA SamePipe ==
    ASSUME NEW p \in Proc, NEW J, Frame(p, J), NEW q \in Proc \ {p}, pc[q] \in Calling
    PROVE  Pipe(q)' = Pipe(q)
BY DEF Frame, Stays, Pipe

\* Where a process that stays is going to sleep or holds a lock, it was there before.
LEMMA StaysIn ==
    ASSUME NEW q \in Proc, Stays(q), pc'[q] \in Asleep \cup Holding
    PROVE  pc'[q] = pc[q] /\ pc[q] \in Calling
BY DEF Stays, Asleep, Holding, Calling, Reading, Writing

\* Locks other than those of J keep their holder.
LEMMA Lock_Step ==
    ASSUME Inv, NEW p \in Proc, NEW J \in SUBSET Pages, Frame(p, J),
           pc'[p] \in Holding => plock'[Pipe(p)'] = p,
           \A j \in J : \/ plock'[j] = 0
                        \/ plock'[j] = p /\ pc'[p] \in Holding /\ Pipe(p)' = j
    PROVE  LockInv'
<1>1. LockInv /\ TypeOK BY DEF Inv
<1>2. ASSUME NEW q \in Proc, pc'[q] \in Holding PROVE plock'[Pipe(q)'] = q
  <2>1. CASE q = p BY <1>2, <2>1
  <2>2. CASE q # p
    <3>1. pc'[q] = pc[q] /\ pc[q] \in Calling BY <1>2, <2>2, StaysIn DEF Frame
    <3>2. Pipe(q)' = Pipe(q) /\ Pipe(q) \in Pages BY <2>2, <3>1, SamePipe, CallFacts
    <3>3. plock[Pipe(q)] = q BY <1>1, <1>2, <3>1 DEF LockInv
    <3>4. Pipe(q) \notin J BY <2>2, <3>3, FilesAssumption DEF Frame
    <3>. QED BY <3>2, <3>3, <3>4 DEF Frame
  <2>. QED BY <2>1, <2>2
<1>3. ASSUME NEW i \in Pages, plock'[i] # 0
      PROVE  pc'[plock'[i]] \in Holding /\ Pipe(plock[i])' = i
  <2>1. CASE i \in J BY <1>3, <2>1 DEF Pipe
  <2>2. CASE i \notin J
    <3>1. plock'[i] = plock[i] /\ plock[i] # p BY <2>2 DEF Frame
    <3>2. PICK q \in Proc : q = plock[i] /\ q # p BY <1>1, <1>3, <3>1, Types
    <3>3. pc[q] \in Holding /\ Pipe(q) = i BY <1>1, <1>3, <3>1, <3>2 DEF LockInv
    <3>4. pc'[q] = pc[q] BY <3>2, <3>3 DEF Frame, Stays, Holding
    <3>5. pc[q] \in Calling BY <3>3 DEF Holding, Calling, Reading, Writing
    <3>6. Pipe(q)' = i BY <3>2, <3>3, <3>5, SamePipe
    <3>. QED BY <3>1, <3>2, <3>3, <3>4, <3>6 DEF Pipe
  <2>. QED BY <2>1, <2>2
<1>4. \A i \in Pages : plock'[i] # 0 => pc'[plock'[i]] \in Holding /\ Pipe(plock[i])' = i
  BY <1>3
<1>. QED BY <1>2, <1>4 DEF LockInv

\* The sleepers of other pipes keep their reason.
LEMMA Sleep_Step ==
    ASSUME Inv, NEW p \in Proc, NEW J \in SUBSET Pages, Frame(p, J), SleepOK(p)',
           \A q \in Proc \ {p} : pc[q] \in Asleep /\ pc'[q] = pc[q] /\ Pipe(q) \in J => SleepOK(q)'
    PROVE  SleepInv'
<1>1. SleepInv /\ TypeOK BY DEF Inv
<1>. SUFFICES ASSUME NEW q \in Proc \ {p} PROVE SleepOK(q)' BY DEF SleepInv
<1>2. CASE pc'[q] \notin Asleep BY <1>2 DEF SleepOK, Asleep
<1>3. CASE pc'[q] \in Asleep
  <2>1. pc'[q] = pc[q] /\ pc[q] \in Calling BY <1>3, StaysIn DEF Frame
  <2>2. PICK i \in Pages : Pipe(q)' = i /\ Pipe(q) = i BY <2>1, SamePipe, CallFacts
  <2>3. CASE i \in J BY <1>3, <2>1, <2>2, <2>3
  <2>4. CASE i \notin J
    <3>1. /\ pipe'[i] = pipe[i] /\ quiet'[i] = quiet[i]
          /\ plock'[i] = plock[i] /\ plock[i] # p
      BY <2>4 DEF Frame
    <3>2. Empty(i)' = Empty(i) /\ Full(i)' = Full(i) BY <3>1 DEF Empty, Full
    <3>3. ASSUME plock[i] # 0
          PROVE  pc'[plock[i]] = pc[plock[i]] /\ begun'[plock[i]] = begun[plock[i]]
      <4>1. PICK h \in Proc \ {p} : h = plock[i] BY <1>1, <3>1, <3>3, Types
      <4>2. pc[h] \in Holding BY <3>3, <4>1 DEF Inv, LockInv
      <4>3. pc'[h] = pc[h] /\ begun'[h] = begun[h] BY <4>2 DEF Frame, Stays, Holding
      <4>. QED BY <4>1, <4>3
    <3>4. Filling(i) => Filling(i)' BY <3>1, <3>3 DEF Filling
    <3>5. Draining(i) => Draining(i)' BY <3>1, <3>3 DEF Draining
    <3>6. SleepOK(q) BY <1>1 DEF SleepInv
    <3>. QED BY <2>1, <2>2, <3>1, <3>2, <3>4, <3>5, <3>6 DEF SleepOK
  <2>. QED BY <2>3, <2>4
<1>. QED BY <1>2, <1>3

\* Who is not between acquire() and release() holds no lock.
LEMMA NotHolder ==
    ASSUME Inv, NEW p \in Proc, pc[p] \notin Holding, NEW j \in Pages
    PROVE  plock[j] # p
BY FilesAssumption DEF Inv, LockInv

\* Who is holds the lock of its pipe and no other.
LEMMA Holder ==
    ASSUME Inv, NEW p \in Proc, pc[p] \in Holding
    PROVE  /\ pc[p] \in Calling /\ Pipe(p) \in Pages /\ plock[Pipe(p)] = p
           /\ \A j \in Pages \ {Pipe(p)} : plock[j] # p
<1>1. pc[p] \in Calling BY DEF Holding, Calling, Reading, Writing
<1>2. Pipe(p) \in Pages BY <1>1, CallFacts
<1>3. plock[Pipe(p)] = p BY DEF Inv, LockInv
<1>4. ASSUME NEW j \in Pages \ {Pipe(p)} PROVE plock[j] # p
  BY FilesAssumption DEF Inv, LockInv
<1>. QED BY <1>1, <1>2, <1>3, <1>4

\* What the others at a pipe wait for while p holds its lock.
LEMMA Sleepers ==
    ASSUME Inv, NEW p \in Proc, pc[p] \in Holding,
           NEW q \in Proc \ {p}, pc[q] \in Asleep, NEW i, i = Pipe(p), Pipe(q) = i
    PROVE  /\ pc[q] \in {"rsleep", "wsleep"}
           /\ pc[q] = "rsleep" =>
                /\ pipe[i].writeopen
                /\ Empty(i) \/ quiet[i] \/ (pc[p] = "wloop" /\ begun[p])
           /\ pc[q] = "wsleep" =>
                pipe[i].readopen /\ (Full(i) \/ (pc[p] = "rloop" /\ begun[p]))
<1>1. plock[i] = p BY Holder
<1>2. pc[q] \notin Holding BY <1>1 DEF Inv, LockInv
<1>3. pc[q] \in {"rsleep", "wsleep"} BY <1>2 DEF Asleep, Holding
<1>4. SleepOK(q) BY DEF Inv, SleepInv
<1>5. Filling(i) => pc[p] = "wloop" /\ begun[p] BY <1>1 DEF Filling
<1>6. Draining(i) => pc[p] = "rloop" /\ begun[p] BY <1>1 DEF Draining
<1>. QED BY <1>3, <1>4, <1>5, <1>6 DEF SleepOK

\* And while nobody holds it.
LEMMA SleepersFree ==
    ASSUME Inv, NEW q \in Proc, pc[q] \in Asleep, NEW i, Pipe(q) = i, plock[i] = 0
    PROVE  /\ pc[q] \in {"rsleep", "wsleep"}
           /\ pc[q] = "rsleep" => pipe[i].writeopen /\ (Empty(i) \/ quiet[i])
           /\ pc[q] = "wsleep" => pipe[i].readopen /\ Full(i)
<1>1. pc[q] \notin Holding BY FilesAssumption DEF Inv, LockInv
<1>2. pc[q] \in {"rsleep", "wsleep"} BY <1>1 DEF Asleep, Holding
<1>3. SleepOK(q) BY DEF Inv, SleepInv
<1>4. ~Filling(i) /\ ~Draining(i) BY DEF Filling, Draining
<1>. QED BY <1>2, <1>3, <1>4 DEF SleepOK

\* Reasons to sleep that hold whoever has the lock.
LEMMA SleepOKNext ==
    ASSUME NEW q \in Proc, NEW i, Pipe(q)' = i, pc'[q] \in {"rsleep", "wsleep"},
           pc'[q] = "rsleep" => pipe'[i].writeopen /\ (Empty(i)' \/ quiet'[i] \/ Filling(i)'),
           pc'[q] = "wsleep" => pipe'[i].readopen /\ (Full(i)' \/ Draining(i)')
    PROVE  SleepOK(q)'
BY DEF SleepOK

\* A process that is awake need have none.
LEMMA AwakeOK ==
    ASSUME NEW q \in Proc, pc'[q] \notin Asleep
    PROVE  SleepOK(q)'
BY DEF SleepOK, Asleep

PCs == {"none", "user", "exit", "pipe", "close"} \cup Reading \cup Writing

\* A step of a call: the types of what calls change, and what the tables need.
LEMMA Call_Step ==
    ASSUME Inv, NEW p \in Proc, UNCHANGED <<ofile, ref, end, closing, ff>>,
           pc[p] \in Calling \cup {"user"}, pc'[p] \in Calling \cup {"user"}, CallOK(p)',
           \A q \in Proc \ {p} : Stays(q),
           \A i \in Pages : pipe'[i].readopen = pipe[i].readopen
                            /\ pipe'[i].writeopen = pipe[i].writeopen,
           LockInv', SleepInv', RingInv',
           pipe' \in [Pages -> [nread : 0 .. UINT - 1, nwrite : 0 .. UINT - 1,
                                data : [0 .. PIPESIZE - 1 -> Bytes],
                                readopen : BOOLEAN, writeopen : BOOLEAN]],
           plock' \in [Pages -> Proc \cup {0}], pc' \in [Proc -> PCs],
           file' \in [Proc -> 0 .. NFILE], left' \in [Proc -> Nat],
           begun' \in [Proc -> BOOLEAN], killed' \in [Proc -> BOOLEAN],
           quiet' \in [Pages -> BOOLEAN]
    PROVE  Inv'
<1>1. \A q \in Proc : Stays(q) \/ Calls(q) BY DEF Calls
<1>2. FdInv' /\ CallInv' /\ CloseInv' /\ RefInv' BY <1>1, Call_Tables
<1>3. OwnerInv' BY Same_Owners
<1>4. TypeOK' BY DEF Inv, TypeOK, PCs
<1>. QED BY <1>2, <1>3, <1>4 DEF Inv

PipeType ==
    [nread : 0 .. UINT - 1, nwrite : 0 .. UINT - 1, data : [0 .. PIPESIZE - 1 -> Bytes],
     readopen : BOOLEAN, writeopen : BOOLEAN]

\* The types of what calls change.
LEMMA CallTypes ==
    ASSUME TypeOK
    PROVE  /\ pipe \in [Pages -> PipeType]
           /\ plock \in [Pages -> Proc \cup {0}] /\ pc \in [Proc -> PCs]
           /\ file \in [Proc -> 0 .. NFILE] /\ left \in [Proc -> Nat]
           /\ begun \in [Proc -> BOOLEAN] /\ killed \in [Proc -> BOOLEAN]
           /\ quiet \in [Pages -> BOOLEAN]
BY DEF TypeOK, PCs, PipeType

\* The states of calls are states.
LEMMA PCsAre ==
    /\ {"user", "close", "exit", "pipe", "none", "racq", "rloop", "rgo", "rsleep", "wacq", "wloop",
        "wgo", "wsleep"} = PCs
    /\ Calling \subseteq PCs /\ Asleep \subseteq Calling /\ Holding \subseteq Calling
BY DEF PCs, Reading, Writing, Calling, Asleep, Holding

\* acquire() in a call.
LEMMA Acquire_Inv ==
    ASSUME Inv, NEW p \in Proc, Acquire(p)
    PROVE  Inv'
<1>1. PICK i : i = Pipe(p) OBVIOUS
<1>2. /\ pc[p] \in {"wacq", "racq"} /\ plock[i] = 0 /\ plock' = [plock EXCEPT ![i] = p]
      /\ pc' = [pc EXCEPT ![p] = IF pc[p] = "wacq" THEN "wloop" ELSE "rloop"]
      /\ UNCHANGED <<ofile, ref, end, closing, ff, pipe, file, left, begun, killed, quiet>>
  BY <1>1 DEF Acquire, Goto, ftable, call, closes
<1>3. TypeOK BY DEF Inv
<1>4. pc[p] \in Calling BY <1>2 DEF Calling, Reading, Writing
<1>5. i \in Pages BY <1>1, <1>4, CallFacts
<1>6. pc' \in [Proc -> PCs] /\ plock' \in [Pages -> Proc \cup {0}]
  BY <1>2, <1>3, CallTypes, PCsAre
<1>7. /\ pc'[p] = IF pc[p] = "wacq" THEN "wloop" ELSE "rloop"
      /\ \A q \in Proc \ {p} : pc'[q] = pc[q]
  BY <1>2, <1>3, CallTypes
<1>8. plock'[i] = p /\ \A j \in Pages \ {i} : plock'[j] = plock[j]
  BY <1>2, <1>3, <1>5, CallTypes
<1>9. Frame(p, {i})
  <2>1. \A j \in Pages : plock[j] # p BY <1>2, NotHolder DEF Holding
  <2>. QED BY <1>2, <1>7, <1>8, <2>1 DEF Frame, Stays
<1>10. Pipe(p)' = i /\ \A q \in Proc : Pipe(q)' = Pipe(q) BY <1>1, <1>2 DEF Pipe
<1>11. pc'[p] \in Holding /\ pc'[p] \in Calling /\ pc'[p] \notin Asleep
  BY <1>7 DEF Holding, Calling, Reading, Writing, Asleep
<1>12. LockInv' BY <1>5, <1>8, <1>9, <1>10, <1>11, Lock_Step
<1>13. SleepInv'
  <2>1. ASSUME NEW q \in Proc \ {p}, pc[q] \in Asleep, pc'[q] = pc[q], Pipe(q) = i
        PROVE  SleepOK(q)'
    <3>1. /\ pc[q] \in {"rsleep", "wsleep"}
          /\ pc[q] = "rsleep" => pipe[i].writeopen /\ (Empty(i) \/ quiet[i])
          /\ pc[q] = "wsleep" => pipe[i].readopen /\ Full(i)
      BY <1>2, <2>1, SleepersFree
    <3>2. Empty(i)' = Empty(i) /\ Full(i)' = Full(i) BY <1>2 DEF Empty, Full
    <3>3. Pipe(q)' = i BY <1>10, <2>1
    <3>. QED BY <1>2, <2>1, <3>1, <3>2, <3>3, SleepOKNext
  <2>2. SleepOK(p)' BY <1>11, AwakeOK
  <2>. QED BY <1>5, <1>9, <2>1, <2>2, Sleep_Step
<1>14. CallOK(p)'
  <2>1. CallOK(p) BY DEF Inv, CallInv, CallOK
  <2>2. (pc'[p] \in Writing) = (pc[p] \in Writing) BY <1>2, <1>7 DEF Writing
  <2>. QED BY <1>2, <1>4, <2>1, <2>2 DEF CallOK
<1>15. RingInv' BY <1>2, Same_Ring
<1>. QED BY <1>2, <1>3, <1>4, <1>6, <1>9, <1>11, <1>12, <1>13, <1>14, <1>15, CallTypes,
            Call_Step DEF Frame, PipeType

\* A step that gives up the lock leaves nobody asleep without a reason.
LEMMA Release_Step ==
    ASSUME Inv, NEW p \in Proc, pc[p] \in Holding, NEW i, i = Pipe(p), Release(i),
           UNCHANGED <<ofile, ref, end, closing, ff, pipe, killed>>,
           pc' \in [Proc -> PCs], file' \in [Proc -> 0 .. NFILE], left' \in [Proc -> Nat],
           begun' \in [Proc -> BOOLEAN], quiet' \in [Pages -> BOOLEAN],
           pc'[p] \in {"user", "rsleep", "wsleep"}, CallOK(p)', SleepOK(p)',
           \A j \in Pages \ {i} : quiet'[j] = quiet[j],
           \A q \in Proc \ {p} : Stays(q) /\ begun'[q] = begun[q],
           \A q \in Proc \ {p} :
              pc[q] \in {"rsleep", "wsleep"} /\ pc'[q] = pc[q] /\ Pipe(q) = i =>
                 /\ pc[q] = "rsleep" => Empty(i) \/ quiet'[i]
                 /\ pc[q] = "wsleep" => Full(i)
    PROVE  Inv'
<1>1. TypeOK BY DEF Inv
<1>2. i \in Pages /\ plock[i] = p /\ pc[p] \in Calling /\ \A j \in Pages \ {i} : plock[j] # p
  BY Holder
<1>3. /\ plock' \in [Pages -> Proc \cup {0}] /\ plock'[i] = 0
      /\ \A j \in Pages \ {i} : plock'[j] = plock[j]
  BY <1>1, <1>2, CallTypes DEF Release
<1>4. Frame(p, {i}) BY <1>2, <1>3 DEF Frame
<1>5. LockInv' BY <1>2, <1>3, <1>4, Lock_Step DEF Holding
<1>6. SleepInv'
  <2>1. ASSUME NEW q \in Proc \ {p}, pc[q] \in Asleep, pc'[q] = pc[q], Pipe(q) = i
        PROVE  SleepOK(q)'
    <3>1. /\ pc[q] \in {"rsleep", "wsleep"}
          /\ pc[q] = "rsleep" => pipe[i].writeopen
          /\ pc[q] = "wsleep" => pipe[i].readopen
      BY <2>1, Sleepers
    <3>2. Empty(i)' = Empty(i) /\ Full(i)' = Full(i) BY DEF Empty, Full
    <3>3. pc[q] \in Calling BY <2>1, PCsAre
    <3>4. Pipe(q)' = i BY <1>4, <2>1, <3>3, SamePipe
    <3>. QED BY <2>1, <3>1, <3>2, <3>4, SleepOKNext
  <2>. QED BY <1>2, <1>4, <2>1, Sleep_Step
<1>7. RingInv' BY Same_Ring
<1>8. pc'[p] \in Calling \cup {"user"} BY DEF Calling, Reading, Writing
<1>. QED BY <1>1, <1>2, <1>3, <1>5, <1>6, <1>7, <1>8, CallTypes, Call_Step DEF PipeType

\* A process that is back in user space is in no call.
LEMMA UserOK ==
    ASSUME NEW p \in Proc, pc'[p] = "user"
    PROVE  CallOK(p)' /\ SleepOK(p)'
BY DEF CallOK, SleepOK, Calling, Reading, Writing

\* What a call that returns leaves.
LEMMA ReturnTypes ==
    ASSUME TypeOK, NEW p \in Proc, Return(p)
    PROVE  /\ file' \in [Proc -> 0 .. NFILE] /\ left' \in [Proc -> Nat]
           /\ begun' \in [Proc -> BOOLEAN]
           /\ \A q \in Proc \ {p} : file'[q] = file[q] /\ begun'[q] = begun[q]
BY CallTypes, Consts DEF Return

\* sleep() in a call: the reason is still there, since the lock was held since it was found.
LEMMA Sleep_Inv ==
    ASSUME Inv, NEW p \in Proc, Sleep(p)
    PROVE  Inv'
<1>1. PICK i : i = Pipe(p) OBVIOUS
<1>2. /\ pc[p] \in {"wgo", "rgo"} /\ Release(i)
      /\ pc' = [pc EXCEPT ![p] = IF pc[p] = "wgo" THEN "wsleep" ELSE "rsleep"]
      /\ UNCHANGED <<ofile, ref, end, closing, ff, pipe, file, left, begun, killed, quiet>>
  BY <1>1 DEF Sleep, Goto, ftable, call, closes
<1>3. TypeOK BY DEF Inv
<1>4. pc[p] \in Holding /\ pc[p] \in Calling BY <1>2 DEF Holding, Calling, Reading, Writing
<1>5. pc' \in [Proc -> PCs] BY <1>2, <1>3, CallTypes, PCsAre
<1>6. /\ pc'[p] = IF pc[p] = "wgo" THEN "wsleep" ELSE "rsleep"
      /\ \A q \in Proc \ {p} : pc'[q] = pc[q]
  BY <1>2, <1>3, CallTypes
<1>7. CallOK(p)'
  <2>1. CallOK(p) BY DEF Inv, CallInv, CallOK
  <2>2. (pc'[p] \in Writing) = (pc[p] \in Writing) BY <1>2, <1>6 DEF Writing
  <2>. QED BY <1>2, <1>4, <2>1, <2>2 DEF CallOK
<1>8. SleepOK(p)'
  <2>1. SleepOK(p) BY DEF Inv, SleepInv
  <2>2. Pipe(p)' = i /\ Empty(i)' = Empty(i) /\ Full(i)' = Full(i) BY <1>1, <1>2 DEF Pipe, Empty, Full
  <2>3. pc[p] = "rgo" => pipe[i].writeopen /\ Empty(i) BY <1>1, <2>1 DEF SleepOK
  <2>4. pc[p] = "wgo" => pipe[i].readopen /\ Full(i) BY <1>1, <2>1 DEF SleepOK
  <2>. QED BY <1>2, <1>6, <2>2, <2>3, <2>4, SleepOKNext
<1>9. ASSUME NEW q \in Proc \ {p}, pc[q] \in {"rsleep", "wsleep"}, Pipe(q) = i
      PROVE  /\ pc[q] = "rsleep" => Empty(i) \/ quiet'[i]
             /\ pc[q] = "wsleep" => Full(i)
  BY <1>1, <1>2, <1>4, <1>9, Sleepers DEF Asleep
<1>10. \A q \in Proc \ {p} : Stays(q) BY <1>2, <1>6 DEF Stays
<1>. QED BY <1>1, <1>2, <1>3, <1>4, <1>5, <1>6, <1>7, <1>8, <1>9, <1>10, CallTypes, Release_Step

\* pipewrite() gives up: the readers it should have woken are the history's.
LEMMA WAbort_Inv ==
    ASSUME Inv, NEW p \in Proc, WAbort(p)
    PROVE  Inv'
<1>1. PICK i : i = Pipe(p) OBVIOUS
<1>2. /\ pc[p] = "wloop" /\ Release(i) /\ Return(p) /\ pc' = [pc EXCEPT ![p] = "user"]
      /\ quiet' = [quiet EXCEPT ![i] = quiet[i] \/ begun[p]]
      /\ UNCHANGED <<ofile, ref, end, closing, ff, pipe, killed>>
  BY <1>1 DEF WAbort, Goto, ftable, closes
<1>3. TypeOK BY DEF Inv
<1>4. pc[p] \in Holding BY <1>2 DEF Holding
<1>5. i \in Pages BY <1>1, <1>4, Holder
<1>6. pc' \in [Proc -> PCs] /\ pc'[p] = "user" /\ \A q \in Proc \ {p} : pc'[q] = pc[q]
  BY <1>2, <1>3, CallTypes, PCsAre
<1>7. /\ quiet' \in [Pages -> BOOLEAN] /\ quiet'[i] = (quiet[i] \/ begun[p])
      /\ \A j \in Pages \ {i} : quiet'[j] = quiet[j]
  BY <1>2, <1>3, <1>5, CallTypes
<1>8. CallOK(p)' /\ SleepOK(p)' BY <1>6, UserOK
<1>9. ASSUME NEW q \in Proc \ {p}, pc[q] \in {"rsleep", "wsleep"}, Pipe(q) = i
      PROVE  /\ pc[q] = "rsleep" => Empty(i) \/ quiet'[i]
             /\ pc[q] = "wsleep" => Full(i)
  BY <1>1, <1>2, <1>4, <1>7, <1>9, Sleepers DEF Asleep
<1>10. \A q \in Proc \ {p} : Stays(q) BY <1>2, <1>3, <1>6, ReturnTypes DEF Stays
<1>. QED BY <1>1, <1>2, <1>3, <1>4, <1>6, <1>7, <1>8, <1>9, <1>10, ReturnTypes, Release_Step

\* pipewrite() returns: all readers are awake.
LEMMA WEnd_Inv ==
    ASSUME Inv, NEW p \in Proc, WEnd(p)
    PROVE  Inv'
<1>1. PICK i : i = Pipe(p) OBVIOUS
<1>2. /\ pc[p] = "wloop" /\ Release(i) /\ Return(p) /\ pc' = Woken(p, "user", i, "rsleep", "racq")
      /\ quiet' = [quiet EXCEPT ![i] = FALSE]
      /\ UNCHANGED <<ofile, ref, end, closing, ff, pipe, killed>>
  BY <1>1 DEF WEnd, WakeReaders, ftable, closes
<1>3. TypeOK BY DEF Inv
<1>4. pc[p] \in Holding BY <1>2 DEF Holding
<1>5. i \in Pages BY <1>1, <1>4, Holder
<1>6. /\ pc'[p] = "user"
      /\ \A q \in Proc \ {p} :
            /\ pc[q] = "rsleep" /\ Pipe(q) = i => pc'[q] = "racq"
            /\ ~(pc[q] = "rsleep" /\ Pipe(q) = i) => pc'[q] = pc[q]
  BY <1>2, WokenIs
<1>7. pc' \in [Proc -> PCs] BY <1>2, <1>3, WokenType DEF PCs, Reading
<1>8. quiet' \in [Pages -> BOOLEAN] /\ \A j \in Pages \ {i} : quiet'[j] = quiet[j]
  BY <1>2, <1>3, <1>5, CallTypes
<1>9. CallOK(p)' /\ SleepOK(p)' BY <1>6, UserOK
<1>10. ASSUME NEW q \in Proc \ {p}, pc[q] \in {"rsleep", "wsleep"}, pc'[q] = pc[q], Pipe(q) = i
       PROVE  pc[q] # "rsleep" /\ (pc[q] = "wsleep" => Full(i))
  <2>1. pc[q] # "rsleep" BY <1>6, <1>10
  <2>. QED BY <1>1, <1>2, <1>4, <1>10, <2>1, Sleepers DEF Asleep
<1>11. \A q \in Proc \ {p} : Stays(q) BY <1>2, <1>3, <1>6, ReturnTypes DEF Stays
<1>. QED BY <1>1, <1>2, <1>3, <1>4, <1>6, <1>7, <1>8, <1>9, <1>10, <1>11, ReturnTypes, Release_Step

\* piperead() gives up before the first byte.
LEMMA RAbort_Inv ==
    ASSUME Inv, NEW p \in Proc, RAbort(p)
    PROVE  Inv'
<1>1. PICK i : i = Pipe(p) OBVIOUS
<1>2. /\ pc[p] = "rloop" /\ ~begun[p]
      /\ Release(i) /\ Return(p) /\ pc' = [pc EXCEPT ![p] = "user"]
      /\ UNCHANGED <<ofile, ref, end, closing, ff, pipe, killed, quiet>>
  BY <1>1 DEF RAbort, MustWait, Goto, ftable, closes
<1>3. TypeOK BY DEF Inv
<1>4. pc[p] \in Holding BY <1>2 DEF Holding
<1>6. pc' \in [Proc -> PCs] /\ pc'[p] = "user" /\ \A q \in Proc \ {p} : pc'[q] = pc[q]
  BY <1>2, <1>3, CallTypes, PCsAre
<1>8. CallOK(p)' /\ SleepOK(p)' BY <1>6, UserOK
<1>9. ASSUME NEW q \in Proc \ {p}, pc[q] \in {"rsleep", "wsleep"}, Pipe(q) = i
      PROVE  /\ pc[q] = "rsleep" => Empty(i) \/ quiet'[i]
             /\ pc[q] = "wsleep" => Full(i)
  BY <1>1, <1>2, <1>4, <1>9, Sleepers DEF Asleep
<1>10. \A q \in Proc \ {p} : Stays(q) BY <1>2, <1>3, <1>6, ReturnTypes DEF Stays
<1>. QED BY <1>1, <1>2, <1>3, <1>4, <1>6, <1>8, <1>9, <1>10, CallTypes, ReturnTypes, Release_Step

\* piperead() returns: all writers are awake.
LEMMA REnd_Inv ==
    ASSUME Inv, NEW p \in Proc, REnd(p)
    PROVE  Inv'
<1>1. PICK i : i = Pipe(p) OBVIOUS
<1>2. /\ pc[p] = "rloop" /\ Release(i) /\ Return(p) /\ pc' = Woken(p, "user", i, "wsleep", "wacq")
      /\ UNCHANGED <<ofile, ref, end, closing, ff, pipe, killed, quiet>>
  BY <1>1 DEF REnd, WakeWriters, ftable, closes
<1>3. TypeOK BY DEF Inv
<1>4. pc[p] \in Holding BY <1>2 DEF Holding
<1>6. /\ pc'[p] = "user"
      /\ \A q \in Proc \ {p} :
            /\ pc[q] = "wsleep" /\ Pipe(q) = i => pc'[q] = "wacq"
            /\ ~(pc[q] = "wsleep" /\ Pipe(q) = i) => pc'[q] = pc[q]
  BY <1>2, WokenIs
<1>7. pc' \in [Proc -> PCs] BY <1>2, <1>3, WokenType DEF PCs, Writing
<1>9. CallOK(p)' /\ SleepOK(p)' BY <1>6, UserOK
<1>10. ASSUME NEW q \in Proc \ {p}, pc[q] \in {"rsleep", "wsleep"}, pc'[q] = pc[q], Pipe(q) = i
       PROVE  pc[q] # "wsleep" /\ (pc[q] = "rsleep" => Empty(i) \/ quiet'[i])
  <2>1. pc[q] # "wsleep" BY <1>6, <1>10
  <2>. QED BY <1>1, <1>2, <1>4, <1>10, <2>1, Sleepers DEF Asleep
<1>11. \A q \in Proc \ {p} : Stays(q) BY <1>2, <1>3, <1>6, ReturnTypes DEF Stays
<1>. QED BY <1>1, <1>2, <1>3, <1>4, <1>6, <1>7, <1>9, <1>10, <1>11, CallTypes, ReturnTypes, Release_Step

----------------------------------------------------------------------------
(* The counters of a pipe, which wrap around                               *)

\* A distance without %.
LEMMA DistIs ==
    ASSUME NEW r \in 0 .. UINT - 1, NEW w \in 0 .. UINT - 1
    PROVE  /\ Dist(r, w) = IF w >= r THEN w - r ELSE w - r + UINT
           /\ Dist(r, w) \in 0 .. UINT - 1
           /\ Dist(r, w) = 0 <=> r = w
<1>1. UINT \in Nat /\ UINT > 0 BY Consts
<1>2. Dist(r, w) = IF w >= r THEN w - r ELSE w - r + UINT
  <2>1. CASE w >= r
    <3>1. w - r \in 0 .. UINT - 1 BY <1>1, <2>1
    <3>2. (w - r) % UINT = w - r BY <1>1, <3>1
    <3>. QED BY <2>1, <3>2 DEF Dist
  <2>2. CASE ~(w >= r)
    <3>1. PICK x \in 0 .. UINT - 1 : x = w - r + UINT BY <1>1, <2>2
    <3>2. \A y \in 0 .. UINT - 1 : (y - UINT) % UINT = y BY <1>1
    <3>3. (x - UINT) % UINT = x BY <3>2
    <3>4. w - r = x - UINT BY <1>1, <3>1
    <3>. QED BY <2>2, <3>1, <3>3, <3>4 DEF Dist
  <2>. QED BY <2>1, <2>2
<1>. QED BY <1>1, <1>2

\* A counter that is incremented.
LEMMA IncIs ==
    ASSUME NEW x \in 0 .. UINT - 1
    PROVE  /\ Inc(x) = IF x + 1 = UINT THEN 0 ELSE x + 1
           /\ Inc(x) \in 0 .. UINT - 1
<1>1. UINT \in Nat /\ UINT > 0 BY Consts
<1>2. CASE x + 1 = UINT
  <2>1. \A y \in 0 .. UINT - 1 : (y + UINT) % UINT = y BY <1>1
  <2>2. (0 + UINT) % UINT = 0 BY <1>1, <2>1
  <2>. QED BY <1>1, <1>2, <2>2 DEF Inc
<1>3. CASE x + 1 # UINT
  <2>1. x + 1 \in 0 .. UINT - 1 BY <1>1, <1>3
  <2>2. (x + 1) % UINT = x + 1 BY <1>1, <2>1
  <2>. QED BY <1>3, <2>1, <2>2 DEF Inc
<1>. QED BY <1>2, <1>3

\* Full() compares the counters as distances do.
LEMMA FullIs ==
    ASSUME NEW r \in 0 .. UINT - 1, NEW w \in 0 .. UINT - 1
    PROVE  w = (r + PIPESIZE) % UINT <=> Dist(r, w) = PIPESIZE
<1>1. UINT \in Nat /\ UINT > 0 /\ PIPESIZE \in 1 .. UINT - 1 BY Consts
<1>2. PICK z : z = (r + PIPESIZE) % UINT OBVIOUS
<1>3. PICK d : d = Dist(r, w) OBVIOUS
<1>4. d = IF w >= r THEN w - r ELSE w - r + UINT BY <1>3, DistIs
<1>5. CASE r + PIPESIZE < UINT
  <2>1. r + PIPESIZE \in 0 .. UINT - 1 BY <1>1, <1>5
  <2>2. (r + PIPESIZE) % UINT = r + PIPESIZE BY <1>1, <2>1
  <2>3. z = r + PIPESIZE BY <1>2, <2>2
  <2>4. w = z <=> d = PIPESIZE BY <1>1, <1>5, <1>4, <2>3
  <2>. QED BY <1>2, <1>3, <2>4
<1>6. CASE ~(r + PIPESIZE < UINT)
  <2>1. PICK x \in 0 .. UINT - 1 : x = r + PIPESIZE - UINT BY <1>1, <1>6
  <2>2. \A y \in 0 .. UINT - 1 : (y + UINT) % UINT = y BY <1>1
  <2>3. (x + UINT) % UINT = x BY <2>2
  <2>4. r + PIPESIZE = x + UINT BY <1>1, <2>1
  <2>5. (r + PIPESIZE) % UINT = x BY <2>3, <2>4
  <2>6. z = x BY <1>2, <2>5
  <2>7. w = z <=> d = PIPESIZE BY <1>1, <1>4, <2>1, <2>6
  <2>. QED BY <1>2, <1>3, <2>7
<1>. QED BY <1>5, <1>6

\* A byte more, and one less.
LEMMA DistInc ==
    ASSUME NEW r \in 0 .. UINT - 1, NEW w \in 0 .. UINT - 1
    PROVE  /\ Dist(r, w) < PIPESIZE => Dist(r, Inc(w)) = Dist(r, w) + 1
           /\ Dist(r, w) # 0 => Dist(Inc(r), w) = Dist(r, w) - 1
<1>1. UINT \in Nat /\ UINT > 0 /\ PIPESIZE \in 1 .. UINT - 1 BY Consts
<1>2. PICK r1 \in 0 .. UINT - 1 : r1 = Inc(r) /\ r1 = IF r + 1 = UINT THEN 0 ELSE r + 1
  BY IncIs
<1>3. PICK w1 \in 0 .. UINT - 1 : w1 = Inc(w) /\ w1 = IF w + 1 = UINT THEN 0 ELSE w + 1
  BY IncIs
<1>4. Dist(r, w) < PIPESIZE => Dist(r, w1) = Dist(r, w) + 1
  <2>1. Dist(r, w) = IF w >= r THEN w - r ELSE w - r + UINT BY DistIs
  <2>2. Dist(r, w1) = IF w1 >= r THEN w1 - r ELSE w1 - r + UINT BY DistIs
  <2>. QED BY <1>1, <1>3, <2>1, <2>2
<1>5. Dist(r, w) # 0 => Dist(r1, w) = Dist(r, w) - 1
  <2>1. Dist(r, w) = IF w >= r THEN w - r ELSE w - r + UINT BY DistIs
  <2>2. Dist(r1, w) = IF w >= r1 THEN w - r1 ELSE w - r1 + UINT BY DistIs
  <2>. QED BY <1>1, <1>2, <2>1, <2>2
<1>. QED BY <1>2, <1>3, <1>4, <1>5

----------------------------------------------------------------------------
(* Steps under the lock                                                    *)

\* A step that keeps the lock leaves a reason, or itself as somebody who will wake.
LEMMA Hold_Step ==
    ASSUME Inv, NEW p \in Proc, pc[p] \in Holding, NEW i, i = Pipe(p),
           UNCHANGED <<ofile, ref, end, closing, ff, plock, file, killed>>,
           pipe' \in [Pages -> PipeType], pc' \in [Proc -> PCs], left' \in [Proc -> Nat],
           begun' \in [Proc -> BOOLEAN], quiet' \in [Pages -> BOOLEAN],
           pc'[p] \in Holding, (pc'[p] \in Writing) = (pc[p] \in Writing),
           SleepOK(p)', RingInv',
           \A j \in Pages : pipe'[j].readopen = pipe[j].readopen
                            /\ pipe'[j].writeopen = pipe[j].writeopen,
           \A j \in Pages \ {i} : pipe'[j] = pipe[j] /\ quiet'[j] = quiet[j],
           \A q \in Proc \ {p} : Stays(q) /\ begun'[q] = begun[q],
           \A q \in Proc \ {p} :
              pc[q] \in {"rsleep", "wsleep"} /\ pc'[q] = pc[q] /\ Pipe(q) = i =>
                 /\ pc[q] = "rsleep" => Empty(i)' \/ quiet'[i] \/ Filling(i)'
                 /\ pc[q] = "wsleep" => Full(i)' \/ Draining(i)'
    PROVE  Inv'
<1>1. TypeOK BY DEF Inv
<1>2. i \in Pages /\ plock[i] = p /\ pc[p] \in Calling /\ \A j \in Pages \ {i} : plock[j] # p
  BY Holder
<1>3. Frame(p, {i}) BY <1>2 DEF Frame
<1>4. Pipe(p)' = i BY DEF Pipe
<1>5. LockInv' BY <1>2, <1>3, <1>4, Lock_Step
<1>6. SleepInv'
  <2>1. ASSUME NEW q \in Proc \ {p}, pc[q] \in Asleep, pc'[q] = pc[q], Pipe(q) = i
        PROVE  SleepOK(q)'
    <3>1. /\ pc[q] \in {"rsleep", "wsleep"}
          /\ pc[q] = "rsleep" => pipe[i].writeopen
          /\ pc[q] = "wsleep" => pipe[i].readopen
      BY <2>1, Sleepers
    <3>2. pc[q] \in Calling BY <2>1, PCsAre
    <3>3. Pipe(q)' = i BY <1>3, <2>1, <3>2, SamePipe
    <3>4. /\ pc'[q] = "rsleep" => pipe'[i].writeopen /\ (Empty(i)' \/ quiet'[i] \/ Filling(i)')
          /\ pc'[q] = "wsleep" => pipe'[i].readopen /\ (Full(i)' \/ Draining(i)')
      BY <1>2, <2>1, <3>1
    <3>. QED BY <2>1, <3>1, <3>3, <3>4, SleepOKNext
  <2>. QED BY <1>2, <1>3, <2>1, Sleep_Step
<1>7. pc'[p] \in Calling BY PCsAre
<1>8. CallOK(p)'
  <2>1. CallOK(p) BY DEF Inv, CallInv, CallOK
  <2>. QED BY <1>2, <2>1 DEF CallOK
<1>. QED BY <1>1, <1>2, <1>5, <1>6, <1>7, <1>8, CallTypes, Call_Step DEF PipeType

\* pipewrite() finds the pipe full.
LEMMA WFull_Inv ==
    ASSUME Inv, NEW p \in Proc, WFull(p)
    PROVE  Inv'
<1>1. PICK i : i = Pipe(p) OBVIOUS
<1>2. /\ pc[p] = "wloop" /\ pc' = Woken(p, "wgo", i, "rsleep", "racq")
      /\ quiet' = [quiet EXCEPT ![i] = FALSE]
      /\ UNCHANGED <<ofile, ref, end, closing, ff, pipe, plock, file, left, begun, killed>>
      /\ pipe[i].readopen /\ Full(i)
  BY <1>1 DEF WFull, WakeReaders, Broken, ftable, call, closes
<1>3. TypeOK BY DEF Inv
<1>4. pc[p] \in Holding BY <1>2 DEF Holding
<1>5. i \in Pages BY <1>1, <1>4, Holder
<1>6. /\ pc'[p] = "wgo"
      /\ \A q \in Proc \ {p} :
            /\ pc[q] = "rsleep" /\ Pipe(q) = i => pc'[q] = "racq"
            /\ ~(pc[q] = "rsleep" /\ Pipe(q) = i) => pc'[q] = pc[q]
  BY <1>2, WokenIs
<1>7. pc' \in [Proc -> PCs] BY <1>2, <1>3, WokenType DEF PCs, Reading, Writing
<1>8. quiet' \in [Pages -> BOOLEAN] /\ \A j \in Pages \ {i} : quiet'[j] = quiet[j]
  BY <1>2, <1>3, <1>5, CallTypes
<1>9. Pipe(p)' = i /\ Full(i)' BY <1>1, <1>2 DEF Pipe, Full
<1>10. SleepOK(p)' BY <1>2, <1>6, <1>9 DEF SleepOK
<1>11. ASSUME NEW q \in Proc \ {p}, pc[q] \in {"rsleep", "wsleep"}, pc'[q] = pc[q], Pipe(q) = i
       PROVE  pc[q] # "rsleep"
  BY <1>6, <1>11
<1>12. \A q \in Proc \ {p} : Stays(q) BY <1>2, <1>6 DEF Stays
<1>13. RingInv' BY <1>2, Same_Ring
<1>14. pc'[p] \in Holding /\ pc[p] \in Writing /\ pc'[p] \in Writing
  BY <1>2, <1>6 DEF Holding, Writing
<1>. QED BY <1>1, <1>2, <1>3, <1>4, <1>6, <1>7, <1>8, <1>9, <1>10, <1>11, <1>12, <1>13, <1>14,
            CallTypes, Hold_Step

\* piperead() finds the pipe empty.
LEMMA REmpty_Inv ==
    ASSUME Inv, NEW p \in Proc, REmpty(p)
    PROVE  Inv'
<1>1. PICK i : i = Pipe(p) OBVIOUS
<1>2. /\ pc[p] = "rloop" /\ pc' = [pc EXCEPT ![p] = "rgo"] /\ ~begun[p]
      /\ UNCHANGED <<ofile, ref, end, closing, ff, pipe, plock, file, left, begun, killed, quiet>>
      /\ pipe[i].writeopen /\ Empty(i)
  BY <1>1 DEF REmpty, MustWait, Goto, ftable, call, closes
<1>3. TypeOK BY DEF Inv
<1>4. pc[p] \in Holding BY <1>2 DEF Holding
<1>6. pc' \in [Proc -> PCs] /\ pc'[p] = "rgo" /\ \A q \in Proc \ {p} : pc'[q] = pc[q]
  BY <1>2, <1>3, CallTypes, PCsAre
<1>9. Pipe(p)' = i /\ Empty(i)' = Empty(i) /\ Full(i)' = Full(i) BY <1>1, <1>2 DEF Pipe, Empty, Full
<1>10. SleepOK(p)' BY <1>2, <1>6, <1>9 DEF SleepOK
<1>11. ASSUME NEW q \in Proc \ {p}, pc[q] \in {"rsleep", "wsleep"}, Pipe(q) = i
       PROVE  /\ pc[q] = "rsleep" => Empty(i) \/ quiet[i]
              /\ pc[q] = "wsleep" => Full(i)
  BY <1>1, <1>2, <1>4, <1>11, Sleepers DEF Asleep
<1>12. \A q \in Proc \ {p} : Stays(q) BY <1>2, <1>6 DEF Stays
<1>13. RingInv' BY <1>2, Same_Ring
<1>14. pc'[p] \in Holding /\ (pc'[p] \in Writing) = (pc[p] \in Writing)
  BY <1>2, <1>6 DEF Holding, Writing
<1>. QED BY <1>1, <1>2, <1>3, <1>4, <1>6, <1>9, <1>10, <1>11, <1>12, <1>13, <1>14,
            CallTypes, Hold_Step

\* What pipewrite() does to the pipe with a byte.
LEMMA PutDoes ==
    ASSUME TypeOK, NEW p \in Proc, NEW b \in Bytes, WPut(p, b), NEW i \in Pages, i = Pipe(p)
    PROVE  /\ pipe' \in [Pages -> PipeType]
           /\ \A j \in Pages \ {i} : pipe'[j] = pipe[j]
           /\ pipe'[i].readopen = pipe[i].readopen /\ pipe'[i].writeopen = pipe[i].writeopen
           /\ pipe'[i].nread = pipe[i].nread /\ pipe'[i].nwrite = Inc(pipe[i].nwrite)
           /\ pipe'[i].data = [pipe[i].data EXCEPT ![pipe[i].nwrite % PIPESIZE] = b]
<1>1. pipe \in [Pages -> PipeType] BY CallTypes
<1>2. pipe' = [pipe EXCEPT ![i].data[pipe[i].nwrite % PIPESIZE] = b, ![i].nwrite = Inc(@)]
  BY DEF WPut
<1>3. pipe[i] \in PipeType BY <1>1
<1>4. PICK n : n = Inc(pipe[i].nwrite) /\ n \in 0 .. UINT - 1 BY <1>3, IncIs DEF PipeType
<1>5. PICK d : /\ d = [pipe[i].data EXCEPT ![pipe[i].nwrite % PIPESIZE] = b]
               /\ d \in [0 .. PIPESIZE - 1 -> Bytes]
  <2>1. pipe[i].data \in [0 .. PIPESIZE - 1 -> Bytes] BY <1>3 DEF PipeType
  <2>2. PICK D \in [0 .. PIPESIZE - 1 -> Bytes] : D = pipe[i].data BY <2>1
  <2>3. \A k : [D EXCEPT ![k] = b] \in [0 .. PIPESIZE - 1 -> Bytes] OBVIOUS
  <2>. QED BY <2>2, <2>3
<1>6. pipe'[i] = [pipe[i] EXCEPT !.data = d, !.nwrite = n] /\ \A j \in Pages \ {i} : pipe'[j] = pipe[j]
  BY <1>1, <1>2, <1>3, <1>4, <1>5 DEF PipeType
<1>7. /\ pipe'[i].nread = pipe[i].nread /\ pipe'[i].nwrite = n /\ pipe'[i].data = d
      /\ pipe'[i].readopen = pipe[i].readopen /\ pipe'[i].writeopen = pipe[i].writeopen
      /\ pipe'[i] \in PipeType
  BY <1>3, <1>4, <1>5, <1>6 DEF PipeType
<1>8. pipe' \in [Pages -> PipeType] BY <1>1, <1>2, <1>6, <1>7
<1>. QED BY <1>4, <1>5, <1>6, <1>7, <1>8

\* What piperead() does to it.
LEMMA GetDoes ==
    ASSUME TypeOK, NEW p \in Proc, RGet(p), NEW i \in Pages, i = Pipe(p)
    PROVE  /\ pipe' \in [Pages -> PipeType]
           /\ \A j \in Pages \ {i} : pipe'[j] = pipe[j]
           /\ pipe'[i].readopen = pipe[i].readopen /\ pipe'[i].writeopen = pipe[i].writeopen
           /\ pipe'[i].nread = Inc(pipe[i].nread) /\ pipe'[i].nwrite = pipe[i].nwrite
           /\ pipe'[i].data = pipe[i].data
<1>1. pipe \in [Pages -> PipeType] BY CallTypes
<1>2. pipe' = [pipe EXCEPT ![i].nread = Inc(@)] BY DEF RGet
<1>3. pipe[i] \in PipeType BY <1>1
<1>4. PICK n : n = Inc(pipe[i].nread) /\ n \in 0 .. UINT - 1 BY <1>3, IncIs DEF PipeType
<1>6. pipe'[i] = [pipe[i] EXCEPT !.nread = n] /\ \A j \in Pages \ {i} : pipe'[j] = pipe[j]
  BY <1>1, <1>2, <1>3, <1>4 DEF PipeType
<1>7. /\ pipe'[i].nread = n /\ pipe'[i].nwrite = pipe[i].nwrite /\ pipe'[i].data = pipe[i].data
      /\ pipe'[i].readopen = pipe[i].readopen /\ pipe'[i].writeopen = pipe[i].writeopen
      /\ pipe'[i] \in PipeType
  BY <1>3, <1>4, <1>6 DEF PipeType
<1>8. pipe' \in [Pages -> PipeType] BY <1>1, <1>2, <1>6, <1>7
<1>. QED BY <1>4, <1>6, <1>7, <1>8

\* pipewrite() puts a byte into the pipe; nobody is asleep waiting for room.
LEMMA WPut_Inv ==
    ASSUME Inv, NEW p \in Proc, NEW b \in Bytes, WPut(p, b)
    PROVE  Inv'
<1>1. PICK i : i = Pipe(p) OBVIOUS
<1>2. /\ pc[p] = "wloop" /\ left[p] > 0 /\ ~Full(i)
      /\ left' = [left EXCEPT ![p] = @ - 1] /\ begun' = [begun EXCEPT ![p] = TRUE]
      /\ UNCHANGED <<ofile, ref, end, closing, ff, plock, pc, file, killed, quiet>>
  BY <1>1 DEF WPut, ftable, closes
<1>3. TypeOK BY DEF Inv
<1>4. pc[p] \in Holding BY <1>2 DEF Holding
<1>5. i \in Pages /\ plock[i] = p BY <1>1, <1>4, Holder
<1>6. /\ left' \in [Proc -> Nat] /\ begun' \in [Proc -> BOOLEAN] /\ begun'[p] = TRUE
      /\ \A q \in Proc \ {p} : begun'[q] = begun[q]
  BY <1>2, <1>3, CallTypes
<1>7. /\ pipe' \in [Pages -> PipeType]
      /\ \A j \in Pages \ {i} : pipe'[j] = pipe[j]
      /\ pipe'[i].readopen = pipe[i].readopen /\ pipe'[i].writeopen = pipe[i].writeopen
      /\ pipe'[i].nread = pipe[i].nread /\ pipe'[i].nwrite = Inc(pipe[i].nwrite)
  BY <1>1, <1>3, <1>5, PutDoes
<1>8. Filling(i)' BY <1>2, <1>5, <1>6, FilesAssumption DEF Filling
<1>9. SleepOK(p)' BY <1>2 DEF SleepOK
<1>10. ASSUME NEW q \in Proc \ {p}, pc[q] \in {"rsleep", "wsleep"}, Pipe(q) = i
       PROVE  /\ pc[q] = "rsleep" => Empty(i)' \/ quiet'[i] \/ Filling(i)'
              /\ pc[q] = "wsleep" => Full(i)' \/ Draining(i)'
  <2>1. pc[q] # "wsleep" BY <1>1, <1>2, <1>4, <1>10, Sleepers DEF Asleep
  <2>. QED BY <1>8, <2>1
<1>11. RingInv'
  <2>. SUFFICES ASSUME NEW j \in Pages PROVE Dist(pipe'[j].nread, pipe'[j].nwrite) <= PIPESIZE
    BY DEF RingInv, Dist
  <2>1. Dist(pipe[j].nread, pipe[j].nwrite) <= PIPESIZE BY DEF Inv, RingInv
  <2>2. CASE j # i BY <1>7, <2>1, <2>2
  <2>3. CASE j = i
    <3>1. PICK r \in 0 .. UINT - 1, w \in 0 .. UINT - 1 : r = pipe[i].nread /\ w = pipe[i].nwrite
      BY <1>3, <1>5, PipeTypes
    <3>2. Dist(r, w) \in 0 .. UINT - 1 /\ Dist(r, w) # PIPESIZE
      BY <1>2, <3>1, FullIs, DistIs DEF Full
    <3>3. Dist(r, w) < PIPESIZE BY <2>1, <2>3, <3>1, <3>2, Consts
    <3>4. Dist(r, Inc(w)) = Dist(r, w) + 1 BY <3>3, DistInc
    <3>5. Dist(r, Inc(w)) <= PIPESIZE BY <3>2, <3>3, <3>4, Consts
    <3>. QED BY <1>7, <2>3, <3>1, <3>5
  <2>. QED BY <2>2, <2>3
<1>12. \A q \in Proc \ {p} : Stays(q) BY <1>2 DEF Stays
<1>13. \A j \in Pages : pipe'[j].readopen = pipe[j].readopen
                        /\ pipe'[j].writeopen = pipe[j].writeopen
  BY <1>7
<1>14. pc' \in [Proc -> PCs] /\ quiet' \in [Pages -> BOOLEAN] BY <1>2, <1>3, CallTypes
<1>15. pc'[p] \in Holding /\ (pc'[p] \in Writing) = (pc[p] \in Writing) BY <1>2, <1>4
<1>16. /\ \A j \in Pages \ {i} : pipe'[j] = pipe[j] /\ quiet'[j] = quiet[j]
       /\ \A q \in Proc \ {p} : Stays(q) /\ begun'[q] = begun[q]
  BY <1>2, <1>6, <1>7, <1>12
<1>17. \A q \in Proc \ {p} :
          pc[q] \in {"rsleep", "wsleep"} /\ pc'[q] = pc[q] /\ Pipe(q) = i =>
             /\ pc[q] = "rsleep" => Empty(i)' \/ quiet'[i] \/ Filling(i)'
             /\ pc[q] = "wsleep" => Full(i)' \/ Draining(i)'
  BY <1>10
<1>18. pipe' \in [Pages -> PipeType] BY <1>7
<1>19. UNCHANGED <<ofile, ref, end, closing, ff, plock, file, killed>> BY <1>2
<1>20. left' \in [Proc -> Nat] /\ begun' \in [Proc -> BOOLEAN] BY <1>6
<1>. QED BY <1>1, <1>4, <1>9, <1>11, <1>13, <1>14, <1>15, <1>16, <1>17, <1>18, <1>19, <1>20,
            Hold_Step, Zenon

\* piperead() takes a byte out of it; who sleeps waiting for bytes is the history's.
LEMMA RGet_Inv ==
    ASSUME Inv, NEW p \in Proc, RGet(p)
    PROVE  Inv'
<1>1. PICK i : i = Pipe(p) OBVIOUS
<1>2. /\ pc[p] = "rloop" /\ left[p] > 0 /\ ~Empty(i)
      /\ left' = [left EXCEPT ![p] = @ - 1] /\ begun' = [begun EXCEPT ![p] = TRUE]
      /\ UNCHANGED <<ofile, ref, end, closing, ff, plock, pc, file, killed, quiet>>
  BY <1>1 DEF RGet, ftable, closes
<1>3. TypeOK BY DEF Inv
<1>4. pc[p] \in Holding BY <1>2 DEF Holding
<1>5. i \in Pages /\ plock[i] = p BY <1>1, <1>4, Holder
<1>6. /\ left' \in [Proc -> Nat] /\ begun' \in [Proc -> BOOLEAN] /\ begun'[p] = TRUE
      /\ \A q \in Proc \ {p} : begun'[q] = begun[q]
  BY <1>2, <1>3, CallTypes
<1>7. /\ pipe' \in [Pages -> PipeType]
      /\ \A j \in Pages \ {i} : pipe'[j] = pipe[j]
      /\ pipe'[i].readopen = pipe[i].readopen /\ pipe'[i].writeopen = pipe[i].writeopen
      /\ pipe'[i].nread = Inc(pipe[i].nread) /\ pipe'[i].nwrite = pipe[i].nwrite
  BY <1>1, <1>3, <1>5, GetDoes
<1>8. Draining(i)' BY <1>2, <1>5, <1>6, FilesAssumption DEF Draining
<1>9. SleepOK(p)' BY <1>2 DEF SleepOK
<1>10. ASSUME NEW q \in Proc \ {p}, pc[q] \in {"rsleep", "wsleep"}, Pipe(q) = i
       PROVE  /\ pc[q] = "rsleep" => Empty(i)' \/ quiet'[i] \/ Filling(i)'
              /\ pc[q] = "wsleep" => Full(i)' \/ Draining(i)'
  <2>1. pc[q] = "rsleep" => quiet'[i] BY <1>1, <1>2, <1>4, <1>10, Sleepers DEF Asleep
  <2>. QED BY <1>8, <2>1
<1>11. RingInv'
  <2>. SUFFICES ASSUME NEW j \in Pages PROVE Dist(pipe'[j].nread, pipe'[j].nwrite) <= PIPESIZE
    BY DEF RingInv, Dist
  <2>1. Dist(pipe[j].nread, pipe[j].nwrite) <= PIPESIZE BY DEF Inv, RingInv
  <2>2. CASE j # i BY <1>7, <2>1, <2>2
  <2>3. CASE j = i
    <3>1. PICK r \in 0 .. UINT - 1, w \in 0 .. UINT - 1 : r = pipe[i].nread /\ w = pipe[i].nwrite
      BY <1>3, <1>5, PipeTypes
    <3>2. Dist(r, w) \in 0 .. UINT - 1 /\ Dist(r, w) # 0
      BY <1>2, <3>1, DistIs DEF Empty
    <3>3. Dist(Inc(r), w) = Dist(r, w) - 1 BY <3>2, DistInc
    <3>4. Dist(Inc(r), w) <= PIPESIZE BY <2>1, <2>3, <3>1, <3>2, <3>3, Consts
    <3>. QED BY <1>7, <2>3, <3>1, <3>4
  <2>. QED BY <2>2, <2>3
<1>12. \A q \in Proc \ {p} : Stays(q) BY <1>2 DEF Stays
<1>13. \A j \in Pages : pipe'[j].readopen = pipe[j].readopen
                        /\ pipe'[j].writeopen = pipe[j].writeopen
  BY <1>7
<1>14. pc' \in [Proc -> PCs] /\ quiet' \in [Pages -> BOOLEAN] BY <1>2, <1>3, CallTypes
<1>15. pc'[p] \in Holding /\ (pc'[p] \in Writing) = (pc[p] \in Writing) BY <1>2, <1>4
<1>16. /\ \A j \in Pages \ {i} : pipe'[j] = pipe[j] /\ quiet'[j] = quiet[j]
       /\ \A q \in Proc \ {p} : Stays(q) /\ begun'[q] = begun[q]
  BY <1>2, <1>6, <1>7, <1>12
<1>17. \A q \in Proc \ {p} :
          pc[q] \in {"rsleep", "wsleep"} /\ pc'[q] = pc[q] /\ Pipe(q) = i =>
             /\ pc[q] = "rsleep" => Empty(i)' \/ quiet'[i] \/ Filling(i)'
             /\ pc[q] = "wsleep" => Full(i)' \/ Draining(i)'
  BY <1>10
<1>18. pipe' \in [Pages -> PipeType] BY <1>7
<1>19. UNCHANGED <<ofile, ref, end, closing, ff, plock, file, killed>> BY <1>2
<1>20. left' \in [Proc -> Nat] /\ begun' \in [Proc -> BOOLEAN] BY <1>6
<1>. QED BY <1>1, <1>4, <1>9, <1>11, <1>13, <1>14, <1>15, <1>16, <1>17, <1>18, <1>19, <1>20,
            Hold_Step, Zenon

\* read() and write() find the end behind the descriptor.
LEMMA Begin_Inv ==
    ASSUME Inv, NEW p \in Proc, NEW fd \in FD, NEW n \in Counts, Read(p, fd, n) \/ Write(p, fd, n)
    PROVE  Inv'
<1>. DEFINE s == IF Write(p, fd, n) THEN "wacq" ELSE "racq"
<1>1. /\ pc[p] = "user" /\ ofile[p][fd] # 0
      /\ file' = [file EXCEPT ![p] = ofile[p][fd]] /\ left' = [left EXCEPT ![p] = n]
      /\ pc' = [pc EXCEPT ![p] = s]
      /\ UNCHANGED <<ofile, ref, end, closing, ff, pipe, plock, begun, killed, quiet>>
  BY DEF Read, Write, InUser, Argfd, Goto, ftable, closes
<1>2. TypeOK BY DEF Inv
<1>3. PICK f \in File : f = ofile[p][fd] BY <1>1, <1>2, Types, Consts
<1>4. end[f] # None /\ end[f][2] \in BOOLEAN
  <2>1. end[f] # None BY <1>1, <1>3 DEF Inv, FdInv
  <2>2. end[f] \in End \cup {None} BY <1>2, <1>3, Types
  <2>. QED BY <2>1, <2>2, EndIs
<1>5. /\ pc' \in [Proc -> PCs] /\ pc'[p] = s /\ \A q \in Proc \ {p} : pc'[q] = pc[q]
  BY <1>1, <1>2, CallTypes, PCsAre
<1>6. /\ file' \in [Proc -> 0 .. NFILE] /\ file'[p] = f /\ \A q \in Proc \ {p} : file'[q] = file[q]
  BY <1>1, <1>2, <1>3, CallTypes, Consts
<1>7. left' \in [Proc -> Nat] BY <1>1, <1>2, CallTypes, FilesAssumption
<1>8. CallOK(p)'
  <2>1. CASE Write(p, fd, n)
    <3>1. end[f][2] = TRUE BY <1>3, <1>4, <2>1 DEF Write
    <3>2. pc'[p] = "wacq" BY <1>5, <2>1
    <3>. QED BY <1>1, <1>3, <1>4, <1>6, <3>1, <3>2 DEF CallOK, Writing
  <2>2. CASE ~Write(p, fd, n)
    <3>1. end[f][2] = FALSE BY <1>3, <1>4, <2>2 DEF Read
    <3>2. pc'[p] = "racq" BY <1>5, <2>2
    <3>. QED BY <1>1, <1>3, <1>4, <1>6, <3>1, <3>2 DEF CallOK, Writing
  <2>. QED BY <2>1, <2>2
<1>9. Frame(p, {})
  <2>1. \A j \in Pages : plock[j] # p BY <1>1, NotHolder DEF Holding
  <2>. QED BY <1>1, <1>5, <1>6, <2>1 DEF Frame, Stays
<1>10. pc'[p] \in Calling /\ pc'[p] \notin Holding /\ pc'[p] \notin Asleep
  BY <1>5 DEF Calling, Reading, Writing, Holding, Asleep
<1>11. LockInv' BY <1>9, <1>10, Lock_Step
<1>12. SleepInv' BY <1>9, <1>10, AwakeOK, Sleep_Step
<1>13. RingInv' BY <1>1, Same_Ring
<1>. QED BY <1>1, <1>2, <1>5, <1>6, <1>7, <1>8, <1>9, <1>10, <1>11, <1>12, <1>13, CallTypes,
            Call_Step DEF Frame, PipeType

\* kkill() wakes a process whatever it waits for.
LEMMA Kill_Inv ==
    ASSUME Inv, NEW p \in Proc, Kill(p)
    PROVE  Inv'
<1>1. /\ killed' = [killed EXCEPT ![p] = TRUE]
      /\ pc' = [pc EXCEPT ![p] = CASE pc[p] = "rsleep" -> "racq"
                                   [] pc[p] = "wsleep" -> "wacq" [] OTHER -> pc[p]]
      /\ UNCHANGED <<ofile, ref, end, closing, ff, pipe, plock, file, left, begun, quiet>>
  BY DEF Kill, Goto, ftable, call, closes
<1>2. TypeOK BY DEF Inv
<1>3. /\ pc'[p] = CASE pc[p] = "rsleep" -> "racq" [] pc[p] = "wsleep" -> "wacq" [] OTHER -> pc[p]
      /\ \A q \in Proc \ {p} : pc'[q] = pc[q]
  BY <1>1, <1>2, CallTypes
<1>4. \A q \in Proc : Stays(q) BY <1>1, <1>3 DEF Stays
<1>5. pc' \in [Proc -> PCs] BY <1>1, <1>2, <1>3, CallTypes, PCsAre
<1>6. killed' \in [Proc -> BOOLEAN] BY <1>1, <1>2, CallTypes
<1>7. FdInv' /\ CallInv' /\ CloseInv' /\ RefInv' BY <1>1, <1>4, Call_Tables
<1>8. OwnerInv' /\ RingInv' BY <1>1, Same_Owners, Same_Ring
<1>9. TypeOK' BY <1>1, <1>2, <1>5, <1>6 DEF TypeOK, PCs
<1>10. \A q \in Proc : Pipe(q)' = Pipe(q) BY <1>1 DEF Pipe
<1>11. \A q \in Proc : pc'[q] \in Asleep \cup Holding => pc'[q] = pc[q] BY <1>4, StaysIn
<1>12. \A q \in Proc : pc[q] \in Holding => pc'[q] = pc[q] BY <1>4 DEF Stays, Holding
<1>13. LockInv'
  <2>1. LockInv BY DEF Inv
  <2>2. ASSUME NEW q \in Proc, pc'[q] \in Holding PROVE plock'[Pipe(q)'] = q
    BY <1>1, <1>10, <1>11, <2>1, <2>2 DEF LockInv
  <2>3. ASSUME NEW i \in Pages, plock'[i] # 0
        PROVE  pc'[plock'[i]] \in Holding /\ Pipe(plock[i])' = i
    <3>1. PICK h \in Proc : h = plock[i] /\ plock'[i] = h BY <1>1, <1>2, <2>3, Types
    <3>2. pc[h] \in Holding /\ Pipe(h) = i BY <2>1, <2>3, <3>1, FilesAssumption DEF LockInv
    <3>3. pc'[h] \in Holding /\ Pipe(h)' = i BY <1>10, <1>12, <3>2
    <3>. QED BY <3>1, <3>3 DEF Pipe
  <2>4. \A i \in Pages : plock'[i] # 0 => pc'[plock'[i]] \in Holding /\ Pipe(plock[i])' = i
    BY <2>3
  <2>. QED BY <2>2, <2>4 DEF LockInv
<1>14. SleepInv'
  <2>. SUFFICES ASSUME NEW q \in Proc PROVE SleepOK(q)' BY DEF SleepInv
  <2>1. CASE pc'[q] \notin Asleep BY <2>1, AwakeOK
  <2>2. CASE pc'[q] \in Asleep
    <3>1. pc'[q] = pc[q] /\ pc[q] \in Calling BY <1>4, <2>2, StaysIn
    <3>2. PICK i \in Pages : i = Pipe(q) /\ Pipe(q)' = i BY <1>10, <3>1, CallFacts
    <3>3. SleepOK(q) BY DEF Inv, SleepInv
    <3>4. Empty(i)' = Empty(i) /\ Full(i)' = Full(i) BY <1>1 DEF Empty, Full
    <3>5. plock[i] # 0 /\ pc[plock[i]] \in Holding => pc'[plock[i]] = pc[plock[i]]
      BY <1>2, <1>12, <3>2, Types
    <3>6. (Filling(i) => Filling(i)') /\ (Draining(i) => Draining(i)')
      BY <1>1, <3>5 DEF Filling, Draining, Holding
    <3>. QED BY <1>1, <3>1, <3>2, <3>3, <3>4, <3>6 DEF SleepOK
  <2>. QED BY <2>1, <2>2
<1>. QED BY <1>7, <1>8, <1>9, <1>13, <1>14 DEF Inv

----------------------------------------------------------------------------
(* Counting references                                                     *)

\* One for the file that is meant, or for those of a set, and zero for the others.
Is(h, g) == IF h = g THEN 1 ELSE 0
In(h, S) == IF h \in S THEN 1 ELSE 0

Descriptors == [Proc -> [FD -> 0 .. NFILE]]
RefSet(o, h) == {x \in Proc \X FD : o[x[1]][x[2]] = h}

\* Such a set is finite.
LEMMA RefSetFinite ==
    ASSUME NEW o, NEW h
    PROVE  IsFiniteSet(RefSet(o, h)) /\ Cardinality(RefSet(o, h)) \in Nat
<1>1. IsFiniteSet(Proc) BY FilesAssumption
<1>2. IsFiniteSet(FD) BY FDFinite
<1>3. IsFiniteSet(Proc \X FD) BY <1>1, <1>2, FS_Product
<1>4. RefSet(o, h) \in SUBSET (Proc \X FD) BY DEF RefSet
<1>. QED BY <1>3, <1>4, FS_Subset, FS_CardinalityType

\* One descriptor changes.
LEMMA RefSetChange ==
    ASSUME NEW o, NEW o2, NEW p \in Proc, NEW fd \in FD,
           o[p][fd] # o2[p][fd],
           \A q \in Proc, e \in FD : q # p \/ e # fd => o2[q][e] = o[q][e],
           NEW h
    PROVE  Cardinality(RefSet(o2, h))
           = Cardinality(RefSet(o, h)) + Is(h, o2[p][fd]) - Is(h, o[p][fd])
<1>. DEFINE g == o2[p][fd]
<1>1. IsFiniteSet(RefSet(o, h)) /\ Cardinality(RefSet(o, h)) \in Nat BY RefSetFinite
<1>2. \A x \in Proc \X FD : x # <<p, fd>> => (x \in RefSet(o2, h) <=> x \in RefSet(o, h))
  BY DEF RefSet
<1>3. <<p, fd>> \in RefSet(o2, h) <=> h = g BY DEF RefSet
<1>4. <<p, fd>> \in RefSet(o, h) <=> h = o[p][fd] BY DEF RefSet
<1>5. RefSet(o, h) \subseteq Proc \X FD /\ RefSet(o2, h) \subseteq Proc \X FD BY DEF RefSet
<1>6. CASE h = g
  <2>1. RefSet(o2, h) = RefSet(o, h) \cup {<<p, fd>>} BY <1>2, <1>3, <1>5, <1>6
  <2>2. <<p, fd>> \notin RefSet(o, h) BY <1>4, <1>6
  <2>3. Cardinality(RefSet(o2, h)) = Cardinality(RefSet(o, h)) + 1
    BY <1>1, <2>1, <2>2, FS_AddElement
  <2>. QED BY <1>1, <1>6, <2>3 DEF Is
<1>7. CASE h = o[p][fd]
  <2>1. RefSet(o2, h) = RefSet(o, h) \ {<<p, fd>>} BY <1>2, <1>3, <1>5, <1>7
  <2>2. <<p, fd>> \in RefSet(o, h) BY <1>4, <1>7
  <2>3. Cardinality(RefSet(o2, h)) = Cardinality(RefSet(o, h)) - 1
    BY <1>1, <2>1, <2>2, FS_RemoveElement
  <2>. QED BY <1>1, <1>7, <2>3 DEF Is
<1>8. CASE h # g /\ h # o[p][fd]
  <2>1. RefSet(o2, h) = RefSet(o, h)
    <3>1. <<p, fd>> \notin RefSet(o2, h) /\ <<p, fd>> \notin RefSet(o, h) BY <1>3, <1>4, <1>8
    <3>2. \A x \in Proc \X FD : x \in RefSet(o2, h) <=> x \in RefSet(o, h) BY <1>2, <3>1
    <3>. QED BY <1>5, <3>2
  <2>. QED BY <1>1, <1>8, <2>1 DEF Is
<1>. QED BY <1>6, <1>7, <1>8

\* The same for the descriptors after a step.
LEMMA FdChange ==
    ASSUME NEW p \in Proc, NEW fd \in FD, ofile[p][fd] # ofile'[p][fd],
           \A q \in Proc, e \in FD : q # p \/ e # fd => ofile'[q][e] = ofile[q][e],
           NEW h
    PROVE  Cardinality(RefSet(ofile', h))
           = Cardinality(RefSet(ofile, h)) + Is(h, ofile'[p][fd]) - Is(h, ofile[p][fd])
<1>1. PICK o, o2 : o = ofile /\ o2 = ofile' OBVIOUS
<1>2. /\ o[p][fd] # o2[p][fd]
      /\ \A q \in Proc, d \in FD : q # p \/ d # fd => o2[q][d] = o[q][d]
  BY <1>1
<1>3. Cardinality(RefSet(o2, h)) = Cardinality(RefSet(o, h)) + Is(h, o2[p][fd]) - Is(h, o[p][fd])
  BY <1>2, RefSetChange
<1>. QED BY <1>1, <1>3

\* What one process has to close changes.
LEMMA CloseRefsChange ==
    ASSUME NEW p \in Proc, \A q \in Proc \ {p} : closing'[q] = closing[q], NEW h
    PROVE  /\ Cardinality(CloseRefs(h)) \in Nat
           /\ Cardinality(CloseRefs(h)')
              = Cardinality(CloseRefs(h)) + In(h, Closing(p)') - In(h, Closing(p))
<1>1. IsFiniteSet(CloseRefs(h)) BY RefsFinite
<1>2. Cardinality(CloseRefs(h)) \in Nat BY <1>1, FS_CardinalityType
<1>3. \A q \in Proc \ {p} : q \in CloseRefs(h)' <=> q \in CloseRefs(h)
  BY DEF CloseRefs, Closing
<1>4. (p \in CloseRefs(h)' <=> h \in Closing(p)') /\ (p \in CloseRefs(h) <=> h \in Closing(p))
  BY DEF CloseRefs
<1>5. CloseRefs(h) \subseteq Proc /\ CloseRefs(h)' \subseteq Proc BY DEF CloseRefs
<1>6. CASE h \in Closing(p)' /\ h \notin Closing(p)
  <2>1. CloseRefs(h)' = CloseRefs(h) \cup {p} BY <1>3, <1>4, <1>5, <1>6
  <2>2. Cardinality(CloseRefs(h)') = Cardinality(CloseRefs(h)) + 1
    BY <1>1, <1>4, <1>6, <2>1, FS_AddElement
  <2>. QED BY <1>2, <1>6, <2>2 DEF In
<1>7. CASE h \notin Closing(p)' /\ h \in Closing(p)
  <2>1. CloseRefs(h)' = CloseRefs(h) \ {p} BY <1>3, <1>4, <1>5, <1>7
  <2>2. Cardinality(CloseRefs(h)') = Cardinality(CloseRefs(h)) - 1
    BY <1>1, <1>4, <1>7, <2>1, FS_RemoveElement
  <2>. QED BY <1>2, <1>7, <2>2 DEF In
<1>8. CASE (h \in Closing(p)') <=> (h \in Closing(p))
  <2>1. CloseRefs(h)' = CloseRefs(h) BY <1>3, <1>4, <1>5, <1>8
  <2>2. In(h, Closing(p)') = In(h, Closing(p)) /\ In(h, Closing(p)) \in Nat
    BY <1>8 DEF In
  <2>. QED BY <1>2, <2>1, <2>2
<1>. QED BY <1>6, <1>7, <1>8

\* References are counted when every file's changes are those of its two sets.
LEMMA RefCountsNext ==
    ASSUME TypeOK, RefCounts,
           \A f \in File :
              ref'[f] - ref[f] =
                 (Cardinality(RefSet(ofile', f)) - Cardinality(RefSet(ofile, f)))
                 + (Cardinality(CloseRefs(f)') - Cardinality(CloseRefs(f))),
           ref' \in [File -> Int]
    PROVE  RefCounts'
<1>. SUFFICES ASSUME NEW f \in File
              PROVE  ref'[f] = Cardinality(RefSet(ofile', f)) + Cardinality(CloseRefs(f)')
  BY DEF RefCounts, RefSet, CloseRefs
<1>1. Cardinality(RefSet(ofile, f)) \in Nat /\ Cardinality(RefSet(ofile', f)) \in Nat
  BY RefSetFinite
<1>2. Cardinality(CloseRefs(f)) \in Nat /\ Cardinality(CloseRefs(f)') \in Nat
  BY RefsFinite, RefsFiniteNext, FS_CardinalityType
<1>3. ref[f] = Cardinality(RefSet(ofile, f)) + Cardinality(CloseRefs(f))
  BY DEF RefCounts, RefSet, CloseRefs
<1>4. ref'[f] \in Int /\ ref[f] \in Int BY Types
<1>. QED BY <1>1, <1>2, <1>3, <1>4

----------------------------------------------------------------------------
(* Descriptors                                                             *)

\* What CloseInv says of one process.
CloseOK(p) ==
    /\ \/ closing[p] = <<>> /\ pc[p] # "pipe"
       \/ \E f \in File : closing[p] = <<f>> /\ pc[p] \in {"close", "exit"}
       \/ \E f \in File : /\ closing[p] = <<f>> /\ pc[p] = "pipe"
                          /\ ref[f] = 1 /\ end[f] = None
       \/ \E f, g \in File : f # g /\ closing[p] = <<f, g>> /\ pc[p] = "close"
    /\ ff[p] # None => pc[p] \in {"close", "exit"}

\* A process outside of read() and write() that touches no pipe disturbs nobody at one.
LEMMA Table_Step ==
    ASSUME Inv, NEW p \in Proc, UNCHANGED <<pipe, plock, file, begun, quiet>>,
           pc[p] \notin Calling, pc'[p] \notin Calling,
           \A q \in Proc \ {p} : pc'[q] = pc[q],
           \A q \in Proc \ {p} : pc[q] \in Calling => end'[file[q]] = end[file[q]]
    PROVE  LockInv' /\ SleepInv' /\ RingInv'
<1>1. pc[p] \notin Holding /\ pc'[p] \notin Holding /\ pc'[p] \notin Asleep BY PCsAre
<1>2. \A j \in Pages : plock[j] # p BY <1>1, NotHolder
<1>3. Frame(p, {}) BY <1>2 DEF Frame, Stays
<1>4. LockInv' BY <1>1, <1>3, Lock_Step
<1>5. SleepInv' BY <1>1, <1>3, AwakeOK, Sleep_Step
<1>6. RingInv' BY Same_Ring
<1>. QED BY <1>4, <1>5, <1>6

\* The first file of a pipe() in progress is its own.
LEMMA PipeFile ==
    ASSUME Inv, NEW q \in Proc, pc[q] = "pipe"
    PROVE  \E f \in File : /\ closing[q] = <<f>> /\ Closing(q) = {f} /\ f = Head(closing[q])
                           /\ ref[f] = 1 /\ end[f] = None
                           /\ \A p \in Proc, fd \in FD : ofile[p][fd] # f
                           /\ \A p \in Proc \ {q} : f \notin Closing(p)
<1>1. PICK f \in File : closing[q] = <<f>> /\ ref[f] = 1 /\ end[f] = None
  BY DEF Inv, CloseInv
<1>2. Closing(q) = {f} BY <1>1, ClosingIs
<1>3. RefCounts BY DEF Inv, RefInv
<1>4. ASSUME NEW p \in Proc, NEW fd \in FD PROVE ofile[p][fd] # f
  <2>1. CASE ofile[p][fd] = f
    <3>1. ref[f] \in Nat /\ ref[f] >= 2 BY <1>2, <1>3, <2>1, RefTwo
    <3>. QED BY <1>1, <3>1
  <2>. QED BY <2>1
<1>5. ASSUME NEW p \in Proc \ {q} PROVE f \notin Closing(p)
  <2>1. CASE f \in Closing(p)
    <3>1. ref[f] \in Nat /\ ref[f] >= 2 BY <1>2, <1>3, <2>1, RefTwoClosers
    <3>. QED BY <1>1, <3>1
  <2>. QED BY <2>1
<1>6. f = Head(closing[q]) BY <1>1
<1>. QED BY <1>1, <1>2, <1>4, <1>5, <1>6

\* Others keep what CloseInv says of them as long as nobody touches their new files.
LEMMA Close_Others ==
    ASSUME Inv, NEW p \in Proc,
           \A q \in Proc \ {p} : /\ closing'[q] = closing[q] /\ ff'[q] = ff[q] /\ pc'[q] = pc[q]
                                 /\ pc[q] = "pipe" =>
                                      \A f \in Closing(q) : ref'[f] = ref[f] /\ end'[f] = end[f],
           CloseOK(p)'
    PROVE  CloseInv'
<1>. SUFFICES ASSUME NEW q \in Proc \ {p} PROVE CloseOK(q)' BY DEF CloseInv, CloseOK
<1>1. CloseOK(q) BY DEF Inv, CloseInv, CloseOK
<1>2. CASE pc[q] = "pipe"
  <2>1. PICK f \in File : closing[q] = <<f>> /\ Closing(q) = {f} /\ ref[f] = 1 /\ end[f] = None
    BY <1>2, PipeFile
  <2>2. ref'[f] = 1 /\ end'[f] = None BY <1>2, <2>1
  <2>. QED BY <1>1, <1>2, <2>1, <2>2 DEF CloseOK
<1>3. CASE pc[q] # "pipe" BY <1>1, <1>3 DEF CloseOK
<1>. QED BY <1>2, <1>3

\* dup(): one more descriptor of a file that has one.
LEMMA Dup_Inv ==
    ASSUME Inv, NEW p \in Proc, NEW fd \in FD, Dup(p, fd)
    PROVE  Inv'
<1>1. TypeOK /\ FdInv /\ CallInv /\ RefCounts BY DEF Inv, RefInv
<1>2. /\ pc[p] = "user" /\ ofile[p][fd] # 0
      /\ UNCHANGED <<end, pipe, plock, pc, file, left, begun, closing, ff, killed, quiet>>
  BY DEF Dup, InUser, Argfd, call, closes
<1>3. PICK f \in File : f = ofile[p][fd] BY <1>1, <1>2, Types, Consts
<1>4. PICK e \in FD : ofile[p][e] = 0 /\ ofile' = [ofile EXCEPT ![p][e] = f]
  BY <1>3 DEF Dup, FirstFd
<1>5. ref' = [ref EXCEPT ![f] = ref[f] + 1] BY <1>3 DEF Dup, Filedup
<1>6. /\ ref' \in [File -> Nat] /\ ref'[f] = ref[f] + 1 /\ \A g \in File \ {f} : ref'[g] = ref[g]
      /\ \A g \in File : ref[g] \in Nat
  BY <1>1, <1>5, Types
<1>7. ofile \in Descriptors /\ f \in 0 .. NFILE /\ f # 0 BY <1>1, Types, Consts DEF Descriptors
<1>8. /\ ofile' \in Descriptors /\ ofile'[p][e] = f
      /\ \A q \in Proc, d \in FD : q # p \/ d # e => ofile'[q][d] = ofile[q][d]
  BY <1>4, <1>7 DEF Descriptors
<1>9. RefCounts'
  <2>1. ASSUME NEW h \in File
        PROVE  ref'[h] - ref[h] =
                 (Cardinality(RefSet(ofile', h)) - Cardinality(RefSet(ofile, h)))
                 + (Cardinality(CloseRefs(h)') - Cardinality(CloseRefs(h)))
    <3>1. CloseRefs(h)' = CloseRefs(h) BY <1>2 DEF CloseRefs, Closing
    <3>2. Cardinality(CloseRefs(h)) \in Nat /\ Cardinality(RefSet(ofile, h)) \in Nat
      BY RefsFinite, RefSetFinite, FS_CardinalityType
    <3>3. h # 0 /\ h \in Nat BY Consts
    <3>4. Cardinality(RefSet(ofile', h))
          = Cardinality(RefSet(ofile, h)) + Is(h, ofile'[p][e]) - Is(h, ofile[p][e])
      BY <1>4, <1>7, <1>8, FdChange
    <3>5. ref'[h] = ref[h] + Is(h, f) BY <1>6 DEF Is
    <3>6. Is(h, f) \in Nat /\ Is(h, ofile'[p][e]) = Is(h, f) /\ Is(h, ofile[p][e]) = 0
      BY <1>4, <1>8, <3>3 DEF Is
    <3>. QED BY <1>6, <3>1, <3>2, <3>4, <3>5, <3>6
  <2>2. ref' \in [File -> Int] BY <1>6
  <2>. QED BY <1>1, <2>1, <2>2, RefCountsNext
<1>10. RefInv'
  <2>1. \A g \in File : ref'[g] = 0 => ref[g] = 0 BY <1>6
  <2>. QED BY <1>2, <1>9, <2>1 DEF Inv, RefInv
<1>11. end[f] # None BY <1>1, <1>2, <1>3 DEF FdInv
<1>12. FdInv' BY <1>1, <1>2, <1>8, <1>11 DEF FdInv
<1>13. CallInv'
  <2>. SUFFICES ASSUME NEW q \in Proc, pc[q] \in Calling PROVE CallOK(q)'
    BY <1>2 DEF CallInv, CallOK
  <2>1. CallOK(q) BY <1>1 DEF CallInv, CallOK
  <2>2. PICK d \in FD : ofile[q][d] = file[q] /\ file[q] # 0 BY <2>1 DEF CallOK
  <2>3. ofile'[q][d] = file[q] BY <1>4, <1>8, <2>2
  <2>. QED BY <1>2, <2>1, <2>2, <2>3 DEF CallOK
<1>14. CloseInv'
  <2>1. ASSUME NEW q \in Proc, pc[q] = "pipe", NEW g \in Closing(q)
        PROVE  ref'[g] = ref[g] /\ end'[g] = end[g]
    <3>1. g \in File /\ g # f BY <1>3, <2>1, PipeFile
    <3>. QED BY <1>2, <1>6, <3>1
  <2>2. CloseOK(p)'
    <3>1. CloseOK(p) BY DEF Inv, CloseInv, CloseOK
    <3>. QED BY <1>2, <3>1 DEF CloseOK
  <2>. QED BY <1>2, <2>1, <2>2, Close_Others
<1>15. OwnerInv' BY <1>2, Same_Owners
<1>16. LockInv' /\ SleepInv' /\ RingInv'
  BY <1>2, Table_Step DEF Calling, Reading, Writing
<1>17. TypeOK' BY <1>1, <1>2, <1>6, <1>8 DEF TypeOK, Descriptors
<1>. QED BY <1>10, <1>12, <1>13, <1>14, <1>15, <1>16, <1>17 DEF Inv

\* A descriptor is taken away and its file is to be closed: by close() and by kexit().
LEMMA Drop_Step ==
    ASSUME Inv, NEW p \in Proc, NEW fd \in FD, ofile[p][fd] # 0,
           pc[p] \in {"user", "exit"}, pc' \in [Proc -> PCs], pc'[p] \in {"close", "exit"},
           \A q \in Proc \ {p} : pc'[q] = pc[q],
           closing[p] = <<>>, closing' = [closing EXCEPT ![p] = <<ofile[p][fd]>>],
           ofile' = [ofile EXCEPT ![p][fd] = 0],
           UNCHANGED <<ref, end, pipe, plock, file, left, begun, ff, killed, quiet>>
    PROVE  Inv'
<1>1. TypeOK /\ FdInv /\ CallInv /\ RefCounts BY DEF Inv, RefInv
<1>2. PICK f \in File : f = ofile[p][fd] BY <1>1, Types, Consts
<1>3. /\ closing' \in [Proc -> Seq(File)] /\ closing'[p] = <<f>>
      /\ \A q \in Proc \ {p} : closing'[q] = closing[q]
  <2>1. <<f>> \in Seq(File) BY <1>2
  <2>. QED BY <1>1, <1>2, <2>1, Types
<1>4. Closing(p) = {} /\ Closing(p)' = {f} BY <1>3, ClosingIs, ClosingIsNext
<1>5. ofile \in Descriptors /\ 0 \in 0 .. NFILE /\ f # 0 BY <1>1, Types, Consts DEF Descriptors
<1>6. /\ ofile' \in Descriptors /\ ofile'[p][fd] = 0
      /\ \A q \in Proc, d \in FD : q # p \/ d # fd => ofile'[q][d] = ofile[q][d]
  BY <1>5 DEF Descriptors
<1>7. RefCounts'
  <2>1. ASSUME NEW h \in File
        PROVE  ref'[h] - ref[h] =
                 (Cardinality(RefSet(ofile', h)) - Cardinality(RefSet(ofile, h)))
                 + (Cardinality(CloseRefs(h)') - Cardinality(CloseRefs(h)))
    <3>1. /\ Cardinality(CloseRefs(h)) \in Nat
          /\ Cardinality(CloseRefs(h)')
             = Cardinality(CloseRefs(h)) + In(h, Closing(p)') - In(h, Closing(p))
      BY <1>3, CloseRefsChange
    <3>2. Cardinality(RefSet(ofile, h)) \in Nat BY RefSetFinite
    <3>3. h # 0 /\ h \in Nat /\ ref[h] \in Nat BY <1>1, Types, Consts
    <3>4. Cardinality(RefSet(ofile', h))
          = Cardinality(RefSet(ofile, h)) + Is(h, ofile'[p][fd]) - Is(h, ofile[p][fd])
      BY <1>2, <1>5, <1>6, FdChange
    <3>5. Is(h, f) \in Nat /\ Is(h, ofile'[p][fd]) = 0 /\ Is(h, ofile[p][fd]) = Is(h, f)
      BY <1>2, <1>6, <3>3 DEF Is
    <3>6. In(h, Closing(p)') = Is(h, f) /\ In(h, Closing(p)) = 0 BY <1>4 DEF Is, In
    <3>. QED BY <3>1, <3>2, <3>3, <3>4, <3>5, <3>6
  <2>2. ref' \in [File -> Int] BY <1>1, Types
  <2>. QED BY <1>1, <2>1, <2>2, RefCountsNext
<1>8. RefInv' BY <1>7 DEF Inv, RefInv
<1>9. FdInv'
  <2>. SUFFICES ASSUME NEW q \in Proc, NEW d \in FD, ofile'[q][d] # 0
                PROVE  pc'[q] # "none" /\ end[ofile'[q][d]] # None
    BY DEF FdInv
  <2>1. ofile'[q][d] = ofile[q][d] BY <1>6
  <2>2. pc[q] # "none" /\ end[ofile[q][d]] # None BY <1>1, <2>1 DEF FdInv
  <2>. QED BY <2>1, <2>2
<1>10. CallInv'
  <2>. SUFFICES ASSUME NEW q \in Proc, pc'[q] \in Calling PROVE CallOK(q)'
    BY DEF CallInv, CallOK
  <2>1. q # p BY DEF Calling, Reading, Writing
  <2>2. pc[q] = pc'[q] /\ CallOK(q) BY <1>1, <2>1 DEF CallInv, CallOK
  <2>3. PICK d \in FD : ofile[q][d] = file[q] /\ file[q] # 0 BY <2>2 DEF CallOK
  <2>4. ofile'[q][d] = file[q] BY <1>6, <2>1, <2>3
  <2>. QED BY <2>2, <2>3, <2>4 DEF CallOK
<1>11. CloseInv'
  <2>1. CloseOK(p)' BY <1>3 DEF CloseOK
  <2>. QED BY <1>3, <2>1, Close_Others
<1>12. OwnerInv' BY Same_Owners
<1>13. LockInv' /\ SleepInv' /\ RingInv'
  <2>1. pc[p] \notin Calling /\ pc'[p] \notin Calling BY DEF Calling, Reading, Writing
  <2>. QED BY <2>1, Table_Step
<1>14. TypeOK' BY <1>1, <1>3, <1>6 DEF TypeOK, Descriptors, PCs
<1>. QED BY <1>8, <1>9, <1>10, <1>11, <1>12, <1>13, <1>14 DEF Inv

\* close().
LEMMA Close_Inv ==
    ASSUME Inv, NEW p \in Proc, NEW fd \in FD, Close(p, fd)
    PROVE  Inv'
<1>1. TypeOK BY DEF Inv
<1>2. /\ pc[p] = "user" /\ ofile[p][fd] # 0
      /\ closing' = [closing EXCEPT ![p] = <<ofile[p][fd]>>]
      /\ ofile' = [ofile EXCEPT ![p][fd] = 0] /\ pc' = [pc EXCEPT ![p] = "close"]
      /\ UNCHANGED <<ref, end, pipe, plock, file, left, begun, ff, killed, quiet>>
  BY DEF Close, InUser, Argfd, Goto, ftable, call
<1>3. closing[p] = <<>> BY <1>2 DEF Inv, CloseInv
<1>4. pc' \in [Proc -> PCs] /\ pc'[p] = "close" /\ \A q \in Proc \ {p} : pc'[q] = pc[q]
  BY <1>1, <1>2, CallTypes, PCsAre
<1>. QED BY <1>2, <1>3, <1>4, Drop_Step

\* The loop of kexit().
LEMMA ExitClose_Inv ==
    ASSUME Inv, NEW p \in Proc, NEW fd \in FD, ExitClose(p, fd)
    PROVE  Inv'
<1>1. TypeOK BY DEF Inv
<1>2. /\ pc[p] = "exit" /\ ofile[p][fd] # 0 /\ closing[p] = <<>>
      /\ closing' = [closing EXCEPT ![p] = <<ofile[p][fd]>>]
      /\ ofile' = [ofile EXCEPT ![p][fd] = 0] /\ pc' = pc
      /\ UNCHANGED <<ref, end, pipe, plock, file, left, begun, ff, killed, quiet>>
  BY DEF ExitClose, Argfd, ftable, call
<1>3. pc' \in [Proc -> PCs] /\ pc'[p] = "exit" /\ \A q \in Proc \ {p} : pc'[q] = pc[q]
  BY <1>1, <1>2, CallTypes
<1>. QED BY <1>2, <1>3, Drop_Step

\* A process moves on, with nothing else changed, where it has nothing left to close.
LEMMA Move_Step ==
    ASSUME Inv, NEW p \in Proc, pc' \in [Proc -> PCs], killed' \in [Proc -> BOOLEAN],
           pc[p] \notin Calling, pc'[p] \notin Calling,
           \A q \in Proc \ {p} : pc'[q] = pc[q],
           UNCHANGED <<ofile, ref, end, pipe, plock, file, left, begun, closing, ff, quiet>>,
           CloseOK(p)', pc'[p] = "none" => \A fd \in FD : ofile[p][fd] = 0
    PROVE  Inv'
<1>1. TypeOK /\ FdInv /\ CallInv /\ RefInv BY DEF Inv
<1>2. FdInv' BY <1>1 DEF FdInv
<1>3. CallInv'
  <2>. SUFFICES ASSUME NEW q \in Proc, pc'[q] \in Calling PROVE CallOK(q)'
    BY DEF CallInv, CallOK
  <2>1. pc[q] = pc'[q] /\ CallOK(q) BY <1>1 DEF CallInv, CallOK
  <2>. QED BY <2>1 DEF CallOK
<1>4. RefInv' BY <1>1 DEF RefInv, RefCounts, Closing
<1>5. CloseInv' BY Close_Others
<1>6. OwnerInv' BY Same_Owners
<1>7. LockInv' /\ SleepInv' /\ RingInv' BY Table_Step
<1>8. TypeOK' BY <1>1 DEF TypeOK, PCs
<1>. QED BY <1>2, <1>3, <1>4, <1>5, <1>6, <1>7, <1>8 DEF Inv

\* kexit() begins, and ends.
LEMMA Exit_Inv ==
    ASSUME Inv, NEW p \in Proc, Exit(p) \/ ExitDone(p)
    PROVE  Inv'
<1>1. TypeOK BY DEF Inv
<1>2. PICK s \in {"exit", "none"} :
        /\ pc' = [pc EXCEPT ![p] = s] /\ pc[p] \in {"user", "exit"}
        /\ s = "none" => \A fd \in FD : ofile[p][fd] = 0
        /\ closing[p] = <<>> /\ ff[p] = None
        /\ UNCHANGED <<ofile, ref, end, pipe, plock, file, left, begun, closing, ff, quiet>>
  <2>1. CASE Exit(p)
    <3>1. closing[p] = <<>> /\ ff[p] = None BY <2>1 DEF Exit, Inv, CloseInv
    <3>. QED BY <2>1, <3>1 DEF Exit, Goto, ftable, call, closes
  <2>2. CASE ExitDone(p)
    <3>1. \A fd \in FD : ofile[p][fd] = 0 BY <2>2 DEF ExitDone, FreeFds
    <3>. QED BY <2>2, <3>1 DEF ExitDone, Goto, ftable, call, closes
  <2>. QED BY <2>1, <2>2
<1>3. killed' \in [Proc -> BOOLEAN] BY <1>1, CallTypes DEF Exit, ExitDone
<1>4. pc' \in [Proc -> PCs] /\ pc'[p] = s /\ \A q \in Proc \ {p} : pc'[q] = pc[q]
  BY <1>1, <1>2, CallTypes, PCsAre
<1>5. CloseOK(p)' BY <1>2, <1>4 DEF CloseOK
<1>6. pc[p] \notin Calling /\ pc'[p] \notin Calling BY <1>2, <1>4 DEF Calling, Reading, Writing
<1>. QED BY <1>2, <1>3, <1>4, <1>5, <1>6, Move_Step

\* pipe() finds no second file.
LEMMA PipeNoFile_Inv ==
    ASSUME Inv, NEW p \in Proc, PipeNoFile(p)
    PROVE  Inv'
<1>1. TypeOK BY DEF Inv
<1>2. /\ pc[p] = "pipe" /\ pc' = [pc EXCEPT ![p] = "close"]
      /\ UNCHANGED <<ofile, ref, end, pipe, plock, file, left, begun, closing, ff, killed, quiet>>
  BY DEF PipeNoFile, Goto, ftable, call, closes
<1>3. PICK f \in File : closing[p] = <<f>> BY <1>2, PipeFile
<1>4. pc' \in [Proc -> PCs] /\ pc'[p] = "close" /\ \A q \in Proc \ {p} : pc'[q] = pc[q]
  BY <1>1, <1>2, CallTypes, PCsAre
<1>5. CloseOK(p)' BY <1>2, <1>3, <1>4 DEF CloseOK
<1>6. pc[p] \notin Calling /\ pc'[p] \notin Calling BY <1>2, <1>4 DEF Calling, Reading, Writing
<1>. QED BY <1>1, <1>2, <1>4, <1>5, <1>6, CallTypes, Move_Step

Fds(o, p, h) == {fd \in FD : o[p][fd] = h}

\* The descriptors of p have been copied to c, which had none of file h.
RowCopied(o, o2, p, c, h) ==
    /\ \A fd \in FD : o[c][fd] # h
    /\ \A fd \in FD : o2[c][fd] = o[p][fd]
    /\ \A q \in Proc, fd \in FD : q # c => o2[q][fd] = o[q][fd]

\* A process without descriptors gets those of another.
LEMMA RefSetCopy ==
    ASSUME NEW o, NEW o2, NEW p \in Proc, NEW c \in Proc, p # c, NEW h,
           RowCopied(o, o2, p, c, h)
    PROVE  /\ Cardinality(Fds(o, p, h)) \in Nat
           /\ Cardinality(RefSet(o2, h)) = Cardinality(RefSet(o, h)) + Cardinality(Fds(o, p, h))
<1>. USE DEF RowCopied
<1>. DEFINE D == Fds(o, p, h)
            T == {x \in Proc \X FD : x[1] = c /\ o2[x[1]][x[2]] = h}
            F == [fd \in D |-> <<c, fd>>]
<1>1. IsFiniteSet(RefSet(o, h)) /\ Cardinality(RefSet(o, h)) \in Nat BY RefSetFinite
<1>2. IsFiniteSet(D)
  <2>1. D \subseteq FD BY DEF Fds
  <2>. QED BY <2>1, FDFinite, FS_Subset
<1>3. Cardinality(D) \in Nat BY <1>2, FS_CardinalityType
<1>4. IsFiniteSet(T) /\ Cardinality(T) = Cardinality(D)
  <2>1. F \in [D -> T] BY DEF Fds
  <2>2. \A a, b \in D : F[a] = F[b] => a = b OBVIOUS
  <2>3. ASSUME NEW x \in T PROVE \E fd \in D : F[fd] = x
    <3>1. x[2] \in D /\ F[x[2]] = x BY DEF Fds
    <3>. QED BY <3>1
  <2>4. F \in Injection(D, T) BY <2>1, <2>2 DEF Injection, IsInjective
  <2>5. F \in Surjection(D, T) BY <2>1, <2>3 DEF Surjection
  <2>6. ExistsBijection(D, T) BY <2>4, <2>5 DEF ExistsBijection, Bijection
  <2>. QED BY <1>2, <2>6, FS_Bijection
<1>5. RefSet(o2, h) = RefSet(o, h) \cup T
  <2>1. ASSUME NEW x \in Proc \X FD
        PROVE  x \in RefSet(o2, h) <=> x \in RefSet(o, h) \/ x \in T
    <3>1. CASE x[1] = c BY <3>1 DEF RefSet
    <3>2. CASE x[1] # c
      <4>1. o2[x[1]][x[2]] = o[x[1]][x[2]] BY <3>2
      <4>. QED BY <3>2, <4>1 DEF RefSet
    <3>. QED BY <3>1, <3>2
  <2>. QED BY <2>1 DEF RefSet
<1>6. RefSet(o, h) \cap T = {} BY DEF RefSet
<1>7. Cardinality({}) = 0 BY FS_EmptySet
<1>. HIDE DEF D, T, RowCopied
<1>8. Cardinality(RefSet(o2, h)) = Cardinality(RefSet(o, h)) + Cardinality(T)
      - Cardinality(RefSet(o, h) \cap T)
  BY <1>1, <1>4, <1>5, FS_Union
<1>9. Cardinality(RefSet(o, h) \cap T) = 0 BY <1>6, <1>7, Zenon
<1>10. Cardinality(RefSet(o2, h)) = Cardinality(RefSet(o, h)) + Cardinality(D)
  BY <1>1, <1>3, <1>4, <1>8, <1>9
<1>. QED BY <1>3, <1>10 DEF D

\* The same for the descriptors after a step.
LEMMA FdCopy ==
    ASSUME NEW p \in Proc, NEW c \in Proc, p # c, NEW h,
           \A fd \in FD : ofile[c][fd] # h,
           \A fd \in FD : ofile'[c][fd] = ofile[p][fd],
           \A q \in Proc, fd \in FD : q # c => ofile'[q][fd] = ofile[q][fd]
    PROVE  /\ Cardinality(Fds(ofile, p, h)) \in Nat
           /\ Cardinality(RefSet(ofile', h))
              = Cardinality(RefSet(ofile, h)) + Cardinality(Fds(ofile, p, h))
<1>1. PICK o, o2 : o = ofile /\ o2 = ofile' OBVIOUS
<1>2. RowCopied(o, o2, p, c, h) BY <1>1 DEF RowCopied
<1>3. /\ Cardinality(Fds(o, p, h)) \in Nat
      /\ Cardinality(RefSet(o2, h)) = Cardinality(RefSet(o, h)) + Cardinality(Fds(o, p, h))
  BY <1>2, RefSetCopy
<1>. QED BY <1>1, <1>3

\* kfork(): a reference for every descriptor of the child.
LEMMA Fork_Inv ==
    ASSUME Inv, NEW p \in Proc, NEW c \in Proc, Fork(p, c)
    PROVE  Inv'
<1>1. TypeOK /\ FdInv /\ CallInv /\ RefCounts BY DEF Inv, RefInv
<1>2. /\ pc[p] = "user" /\ pc[c] = "none" /\ p # c
      /\ ofile' = [ofile EXCEPT ![c] = ofile[p]] /\ pc' = [pc EXCEPT ![c] = "user"]
      /\ ref' = [f \in File |-> ref[f] + Cardinality({fd \in FD : ofile[p][fd] = f})]
      /\ UNCHANGED <<end, pipe, plock, file, left, begun, closing, ff, killed, quiet>>
  BY DEF Fork, InUser, Goto, call, closes
<1>3. \A fd \in FD : ofile[c][fd] = 0 BY <1>1, <1>2 DEF FdInv
<1>4. /\ ofile' \in Descriptors /\ ofile'[c] = ofile[p]
      /\ \A q \in Proc \ {c} : ofile'[q] = ofile[q]
  BY <1>1, <1>2, Types DEF Descriptors
<1>5. pc' \in [Proc -> PCs] /\ pc'[c] = "user" /\ \A q \in Proc \ {c} : pc'[q] = pc[q]
  BY <1>1, <1>2, CallTypes, PCsAre
<1>6. ASSUME NEW h \in File
      PROVE  /\ Cardinality(Fds(ofile, p, h)) \in Nat /\ ref[h] \in Nat /\ ref'[h] = ref[h] + Cardinality(Fds(ofile, p, h))
             /\ Cardinality(RefSet(ofile', h))
                = Cardinality(RefSet(ofile, h)) + Cardinality(Fds(ofile, p, h))
             /\ Cardinality(RefSet(ofile, h)) \in Nat
  <2>1. h # 0 BY Consts
  <2>2. \A fd \in FD : ofile[c][fd] # h BY <1>3, <2>1
  <2>3. /\ \A fd \in FD : ofile'[c][fd] = ofile[p][fd]
        /\ \A q \in Proc, fd \in FD : q # c => ofile'[q][fd] = ofile[q][fd]
    BY <1>4
  <2>4. /\ Cardinality(Fds(ofile, p, h)) \in Nat
        /\ Cardinality(RefSet(ofile', h))
                = Cardinality(RefSet(ofile, h)) + Cardinality(Fds(ofile, p, h))
    BY <1>2, <2>2, <2>3, FdCopy
  <2>5. ref[h] \in Nat BY <1>1, Types
  <2>6. ref'[h] = ref[h] + Cardinality(Fds(ofile, p, h)) BY <1>2 DEF Fds
  <2>. QED BY <2>4, <2>5, <2>6, RefSetFinite
<1>7. ref' \in [File -> Nat] BY <1>2, <1>6
<1>8. RefCounts'
  <2>1. ASSUME NEW h \in File
        PROVE  ref'[h] - ref[h] =
                 (Cardinality(RefSet(ofile', h)) - Cardinality(RefSet(ofile, h)))
                 + (Cardinality(CloseRefs(h)') - Cardinality(CloseRefs(h)))
    <3>1. CloseRefs(h)' = CloseRefs(h) BY <1>2 DEF CloseRefs, Closing
    <3>2. Cardinality(CloseRefs(h)) \in Nat BY RefsFinite, FS_CardinalityType
    <3>. QED BY <1>6, <3>1, <3>2
  <2>2. ref' \in [File -> Int] BY <1>7
  <2>. QED BY <1>1, <2>1, <2>2, RefCountsNext
<1>9. RefInv'
  <2>1. \A g \in File : ref'[g] = 0 => ref[g] = 0 BY <1>6
  <2>. QED BY <1>2, <1>8, <2>1 DEF Inv, RefInv
<1>10. FdInv'
  <2>. SUFFICES ASSUME NEW q \in Proc, NEW d \in FD, ofile'[q][d] # 0
                PROVE  pc'[q] # "none" /\ end[ofile'[q][d]] # None
    BY <1>2 DEF FdInv
  <2>1. CASE q = c BY <1>1, <1>4, <1>5, <2>1 DEF FdInv
  <2>2. CASE q # c BY <1>1, <1>4, <1>5, <2>2 DEF FdInv
  <2>. QED BY <2>1, <2>2
<1>11. CallInv'
  <2>. SUFFICES ASSUME NEW q \in Proc, pc'[q] \in Calling PROVE CallOK(q)'
    BY DEF CallInv, CallOK
  <2>1. q # c BY <1>5 DEF Calling, Reading, Writing
  <2>2. pc[q] = pc'[q] /\ CallOK(q) /\ ofile'[q] = ofile[q]
    BY <1>1, <1>4, <1>5, <2>1 DEF CallInv, CallOK
  <2>. QED BY <1>2, <2>2 DEF CallOK
<1>12. CloseInv'
  <2>1. ASSUME NEW q \in Proc, pc[q] = "pipe", NEW g \in Closing(q)
        PROVE  ref'[g] = ref[g] /\ end'[g] = end[g]
    <3>1. g \in File /\ \A fd \in FD : ofile[p][fd] # g BY <2>1, PipeFile
    <3>2. {fd \in FD : ofile[p][fd] = g} = {} BY <3>1
    <3>3. Cardinality({}) = 0 BY FS_EmptySet
    <3>4. ref[g] \in Nat BY <1>1, <3>1, Types
    <3>. QED BY <1>2, <3>1, <3>2, <3>3, <3>4
  <2>2. CloseOK(c)'
    <3>1. closing[c] = <<>> /\ ff[c] = None BY <1>2 DEF Inv, CloseInv
    <3>. QED BY <1>2, <1>5, <3>1 DEF CloseOK
  <2>. QED BY <1>2, <1>5, <2>1, <2>2, Close_Others
<1>13. OwnerInv' BY <1>2, Same_Owners
<1>14. LockInv' /\ SleepInv' /\ RingInv'
  <2>1. pc[c] \notin Calling /\ pc'[c] \notin Calling
    BY <1>2, <1>5 DEF Calling, Reading, Writing
  <2>. QED BY <1>2, <1>5, <2>1, Table_Step
<1>15. TypeOK' BY <1>1, <1>2, <1>4, <1>5, <1>7 DEF TypeOK, Descriptors, PCs
<1>. QED BY <1>9, <1>10, <1>11, <1>12, <1>13, <1>14, <1>15 DEF Inv

----------------------------------------------------------------------------
(* sys_pipe()                                                              *)

\* Nobody has a free file open or is closing it.
LEMMA FreeFile ==
    ASSUME Inv, NEW f \in File, FirstFree(f)
    PROVE  /\ ref[f] = 0 /\ end[f] = None
           /\ \A q \in Proc : f \notin Closing(q)
           /\ \A q \in Proc, fd \in FD : ofile[q][fd] # f
<1>1. RefCounts /\ ref[f] = 0 /\ end[f] = None BY DEF Inv, RefInv, FirstFree
<1>2. ASSUME NEW q \in Proc, f \in Closing(q) PROVE FALSE
  <2>1. ref[f] \in Nat /\ ref[f] >= 1 BY <1>1, <1>2, RefOne
  <2>. QED BY <1>1, <2>1
<1>3. ASSUME NEW q \in Proc, NEW fd \in FD, ofile[q][fd] = f PROVE FALSE
  <2>1. ref[f] \in Nat /\ ref[f] >= 1 BY <1>1, <1>3, RefOne
  <2>. QED BY <1>1, <2>1
<1>. QED BY <1>1, <1>2, <1>3

\* pipealloc() takes a file that it may have to close again.
LEMMA NewFile_Step ==
    ASSUME Inv, NEW p \in Proc, NEW f \in File, FirstFree(f),
           ref' = [ref EXCEPT ![f] = 1],
           closing' \in [Proc -> Seq(File)], Closing(p)' = Closing(p) \cup {f},
           \A q \in Proc \ {p} : closing'[q] = closing[q],
           pc' \in [Proc -> PCs], pc[p] \notin Calling, pc'[p] \in {"pipe", "close"},
           \A q \in Proc \ {p} : pc'[q] = pc[q],
           UNCHANGED <<ofile, end, pipe, plock, file, left, begun, ff, killed, quiet>>,
           CloseOK(p)'
    PROVE  Inv'
<1>1. TypeOK /\ FdInv /\ CallInv /\ RefInv /\ RefCounts BY DEF Inv, RefInv
<1>2. /\ ref[f] = 0 /\ end[f] = None /\ \A q \in Proc : f \notin Closing(q)
      /\ \A q \in Proc, fd \in FD : ofile[q][fd] # f
  BY FreeFile
<1>3. /\ ref' \in [File -> Nat] /\ ref'[f] = 1 /\ \A g \in File \ {f} : ref'[g] = ref[g]
      /\ \A g \in File : ref[g] \in Nat
  BY <1>1, Types
<1>4. RefCounts'
  <2>1. ASSUME NEW h \in File
        PROVE  ref'[h] - ref[h] =
                 (Cardinality(RefSet(ofile', h)) - Cardinality(RefSet(ofile, h)))
                 + (Cardinality(CloseRefs(h)') - Cardinality(CloseRefs(h)))
    <3>1. /\ Cardinality(CloseRefs(h)) \in Nat
          /\ Cardinality(CloseRefs(h)')
             = Cardinality(CloseRefs(h)) + In(h, Closing(p)') - In(h, Closing(p))
      BY CloseRefsChange
    <3>2. Cardinality(RefSet(ofile, h)) \in Nat /\ RefSet(ofile', h) = RefSet(ofile, h)
      BY RefSetFinite
    <3>3. In(h, Closing(p)') = In(h, Closing(p)) + Is(h, f)
      BY <1>2 DEF In, Is
    <3>4. In(h, Closing(p)) \in Nat /\ Is(h, f) \in Nat BY DEF In, Is
    <3>5. ref'[h] = ref[h] + Is(h, f) BY <1>2, <1>3 DEF Is
    <3>. QED BY <1>3, <3>1, <3>2, <3>3, <3>4, <3>5
  <2>2. ref' \in [File -> Int] BY <1>3
  <2>. QED BY <1>1, <2>1, <2>2, RefCountsNext
<1>5. RefInv'
  <2>1. \A g \in File : ref'[g] = 0 => ref[g] = 0 BY <1>3
  <2>. QED BY <1>1, <1>4, <2>1 DEF RefInv
<1>6. FdInv' BY <1>1 DEF FdInv
<1>7. pc'[p] \notin Calling BY DEF Calling, Reading, Writing
<1>8. CallInv'
  <2>. SUFFICES ASSUME NEW q \in Proc, pc'[q] \in Calling PROVE CallOK(q)'
    BY DEF CallInv, CallOK
  <2>1. pc[q] = pc'[q] /\ CallOK(q) BY <1>1, <1>7 DEF CallInv, CallOK
  <2>. QED BY <2>1 DEF CallOK
<1>9. CloseInv'
  <2>1. ASSUME NEW q \in Proc, pc[q] = "pipe", NEW g \in Closing(q)
        PROVE  ref'[g] = ref[g] /\ end'[g] = end[g]
    <3>1. g \in File /\ g # f BY <1>2, <2>1, PipeFile
    <3>. QED BY <1>3, <3>1
  <2>. QED BY <2>1, Close_Others
<1>10. OwnerInv' BY Same_Owners
<1>11. LockInv' /\ SleepInv' /\ RingInv' BY <1>7, Table_Step
<1>12. TypeOK' BY <1>1, <1>3 DEF TypeOK, PCs
<1>. QED BY <1>5, <1>6, <1>8, <1>9, <1>10, <1>11, <1>12 DEF Inv

\* The first file.
LEMMA PipeFile0_Inv ==
    ASSUME Inv, NEW p \in Proc, NEW f \in File, PipeFile0(p, f)
    PROVE  Inv'
<1>1. TypeOK BY DEF Inv
<1>2. /\ pc[p] = "user" /\ FirstFree(f) /\ ref' = [ref EXCEPT ![f] = 1]
      /\ closing' = [closing EXCEPT ![p] = <<f>>] /\ pc' = [pc EXCEPT ![p] = "pipe"]
      /\ UNCHANGED <<ofile, end, pipe, plock, file, left, begun, ff, killed, quiet>>
  BY DEF PipeFile0, InUser, Goto, call
<1>3. closing[p] = <<>> /\ ff[p] = None BY <1>2 DEF Inv, CloseInv
<1>4. /\ closing' \in [Proc -> Seq(File)] /\ closing'[p] = <<f>>
      /\ \A q \in Proc \ {p} : closing'[q] = closing[q]
  <2>1. <<f>> \in Seq(File) OBVIOUS
  <2>. QED BY <1>1, <1>2, <2>1, Types
<1>5. Closing(p)' = Closing(p) \cup {f} BY <1>3, <1>4, ClosingIs, ClosingIsNext
<1>6. pc' \in [Proc -> PCs] /\ pc'[p] = "pipe" /\ \A q \in Proc \ {p} : pc'[q] = pc[q]
  BY <1>1, <1>2, CallTypes, PCsAre
<1>7. ref'[f] = 1 /\ end'[f] = None BY <1>1, <1>2, Types, FreeFile
<1>8. CloseOK(p)' BY <1>2, <1>3, <1>4, <1>6, <1>7 DEF CloseOK
<1>9. pc[p] \notin Calling BY <1>2 DEF Calling, Reading, Writing
<1>. QED BY <1>2, <1>4, <1>5, <1>6, <1>8, <1>9, NewFile_Step

\* A sequence of two files.
LEMMA PairIsAppend ==
    ASSUME NEW S, NEW g \in S, NEW f \in S
    PROVE  Append(<<g>>, f) = <<g, f>> /\ <<g, f>> \in Seq(S)
<1>1. <<g>> \in Seq(S) /\ Len(<<g>>) = 1 /\ <<g>>[1] = g OBVIOUS
<1>2. PICK s \in Seq(S) : s = <<g>> BY <1>1
<1>3. Len(s) = 1 /\ s[1] = g BY <1>1, <1>2
<1>4. PICK t : t = Append(s, f) OBVIOUS
<1>5. t \in Seq(S) /\ Len(t) = Len(s) + 1 /\ \A i \in 1 .. Len(s) : t[i] = s[i]
  BY <1>4, AppendProperties
<1>6. t[Len(s) + 1] = f BY <1>4, AppendProperties
<1>7. Len(t) = 2 /\ t[1] = g /\ t[2] = f BY <1>3, <1>5, <1>6
<1>8. PICK u : u = <<g, f>> OBVIOUS
<1>9. u \in Seq(S) /\ Len(u) = 2 /\ u[1] = g /\ u[2] = f BY <1>8
<1>10. \A i \in 1 .. Len(t) : t[i] = u[i] BY <1>7, <1>9
<1>11. t = u BY <1>5, <1>7, <1>9, <1>10, SeqEqual
<1>. QED BY <1>2, <1>4, <1>8, <1>9, <1>11

\* What is to be closed when pipe() has two files.
LEMMA SecondFile ==
    ASSUME TypeOK, NEW p \in Proc, NEW f \in File, NEW g \in File, closing[p] = <<g>>,
           closing' = [closing EXCEPT ![p] = Append(@, f)]
    PROVE  /\ closing' \in [Proc -> Seq(File)] /\ closing'[p] = <<g, f>>
           /\ \A q \in Proc \ {p} : closing'[q] = closing[q]
           /\ Closing(p) = {g} /\ Closing(p)' = {g, f}
<1>1. Append(<<g>>, f) = <<g, f>> /\ <<g, f>> \in Seq(File) BY PairIsAppend
<1>2. /\ closing' \in [Proc -> Seq(File)] /\ closing'[p] = <<g, f>>
      /\ \A q \in Proc \ {p} : closing'[q] = closing[q]
  BY <1>1, Types
<1>. QED BY <1>2, ClosingIs, ClosingIsNext

\* The second file, when there is no page.
LEMMA PipeNoPage_Inv ==
    ASSUME Inv, NEW p \in Proc, NEW f \in File, PipeNoPage(p, f)
    PROVE  Inv'
<1>1. TypeOK BY DEF Inv
<1>2. /\ pc[p] = "pipe" /\ FirstFree(f) /\ ref' = [ref EXCEPT ![f] = 1]
      /\ closing' = [closing EXCEPT ![p] = Append(@, f)] /\ pc' = [pc EXCEPT ![p] = "close"]
      /\ UNCHANGED <<ofile, end, pipe, plock, file, left, begun, ff, killed, quiet>>
  BY DEF PipeNoPage, Goto, call
<1>3. PICK g \in File : closing[p] = <<g>> /\ Closing(p) = {g} BY <1>2, PipeFile
<1>4. /\ closing' \in [Proc -> Seq(File)] /\ closing'[p] = <<g, f>>
      /\ \A q \in Proc \ {p} : closing'[q] = closing[q]
      /\ Closing(p) = {g} /\ Closing(p)' = {g, f}
  BY <1>1, <1>2, <1>3, SecondFile
<1>5. Closing(p)' = Closing(p) \cup {f} BY <1>4
<1>6. pc' \in [Proc -> PCs] /\ pc'[p] = "close" /\ \A q \in Proc \ {p} : pc'[q] = pc[q]
  BY <1>1, <1>2, CallTypes, PCsAre
<1>7. g # f BY <1>2, <1>3, FreeFile
<1>8. CloseOK(p)' BY <1>4, <1>6, <1>7 DEF CloseOK
<1>9. pc[p] \notin Calling BY <1>2 DEF Calling, Reading, Writing
<1>. QED BY <1>2, <1>4, <1>5, <1>6, <1>8, <1>9, NewFile_Step

----------------------------------------------------------------------------
(* fileclose() and pipeclose()                                             *)

\* What a process in fileclose() closes first, and what it has then left.
LEMMA CloseCases ==
    ASSUME Inv, NEW p \in Proc, pc[p] \in {"close", "exit"}, closing[p] # <<>>
    PROVE  \E f \in File :
             /\ f = Head(closing[p]) /\ f \in Closing(p)
             /\ \/ Tail(closing[p]) = <<>> /\ Closing(p) = {f}
                \/ \E g \in File \ {f} : /\ Tail(closing[p]) = <<g>> /\ Closing(p) = {f, g}
                                         /\ pc[p] = "close"
<1>1. \/ \E f \in File : closing[p] = <<f>>
      \/ \E f, g \in File : f # g /\ closing[p] = <<f, g>> /\ pc[p] = "close"
  BY DEF Inv, CloseInv
<1>2. ASSUME NEW f \in File, closing[p] = <<f>>
      PROVE  f = Head(closing[p]) /\ Closing(p) = {f} /\ Tail(closing[p]) = <<>>
  <2>1. Head(<<f>>) = f /\ Tail(<<f>>) = <<>> OBVIOUS
  <2>. QED BY <1>2, <2>1, ClosingIs
<1>3. ASSUME NEW f \in File, NEW g \in File, closing[p] = <<f, g>>
      PROVE  f = Head(closing[p]) /\ Closing(p) = {f, g} /\ Tail(closing[p]) = <<g>>
  <2>1. Head(<<f, g>>) = f /\ Tail(<<f, g>>) = <<g>> OBVIOUS
  <2>. QED BY <1>3, <2>1, ClosingIs
<1>4. CASE \E f \in File : closing[p] = <<f>> BY <1>2, <1>4
<1>5. CASE \E f, g \in File : f # g /\ closing[p] = <<f, g>> /\ pc[p] = "close"
  BY <1>3, <1>5
<1>. QED BY <1>1, <1>4, <1>5

\* The last reference is gone: the end passes from the file to its copy.
LEMMA Move_Owner ==
    ASSUME Inv, NEW p \in Proc, NEW f \in File, ff[p] = None, pipe' = pipe,
           end'[f] = None, \A g \in File \ {f} : end'[g] = end[g],
           ff'[p] = end[f], \A q \in Proc \ {p} : ff'[q] = ff[q]
    PROVE  OwnerInv'
<1>1. OwnerInv BY DEF Inv
<1>2. ASSUME NEW e, e # None PROVE Held(e)' <=> Held(e)
  <2>1. ASSUME Held(e) PROVE Held(e)'
    <3>1. CASE \E g \in File : end[g] = e
      <4>1. PICK g \in File : end[g] = e BY <3>1
      <4>2. CASE g = f BY <4>1, <4>2 DEF Held
      <4>3. CASE g # f BY <4>1, <4>3 DEF Held
      <4>. QED BY <4>2, <4>3
    <3>2. CASE \E q \in Proc : ff[q] = e BY <1>2, <3>2 DEF Held
    <3>. QED BY <2>1, <3>1, <3>2 DEF Held
  <2>2. ASSUME Held(e)' PROVE Held(e)
    <3>1. CASE \E g \in File : end'[g] = e BY <1>2, <3>1 DEF Held
    <3>2. CASE \E q \in Proc : ff'[q] = e
      <4>1. PICK q \in Proc : ff'[q] = e BY <3>2
      <4>2. CASE q = p BY <4>1, <4>2 DEF Held
      <4>3. CASE q # p BY <4>1, <4>3 DEF Held
      <4>. QED BY <4>2, <4>3
    <3>. QED BY <2>2, <3>1, <3>2 DEF Held
  <2>. QED BY <2>1, <2>2
<1>3. \A i \in Pages : /\ pipe'[i].readopen <=> Held(<<i, FALSE>>)'
                       /\ pipe'[i].writeopen <=> Held(<<i, TRUE>>)'
  <2>. SUFFICES ASSUME NEW i \in Pages
                PROVE  /\ pipe'[i].readopen <=> Held(<<i, FALSE>>)'
                       /\ pipe'[i].writeopen <=> Held(<<i, TRUE>>)'
    OBVIOUS
  <2>1. <<i, FALSE>> # None /\ <<i, TRUE>> # None BY PairIsEnd
  <2>2. /\ Held(<<i, FALSE>>)' <=> Held(<<i, FALSE>>)
        /\ Held(<<i, TRUE>>)' <=> Held(<<i, TRUE>>)
    BY <1>2, <2>1
  <2>. QED BY <1>1, <2>2 DEF OwnerInv
<1>4. \A g, h \in File : end'[g] # None /\ end'[g] = end'[h] => g = h BY <1>1 DEF OwnerInv
<1>5. \A q, r \in Proc : ff'[q] # None /\ ff'[q] = ff'[r] => q = r BY <1>1 DEF OwnerInv
<1>6. ASSUME NEW g \in File, NEW q \in Proc, ff'[q] # None PROVE end'[g] # ff'[q]
  <2>1. CASE g = f BY <1>6, <2>1
  <2>2. CASE g # f /\ q # p BY <1>1, <1>6, <2>2 DEF OwnerInv
  <2>3. CASE g # f /\ q = p BY <1>1, <1>6, <2>3 DEF OwnerInv
  <2>. QED BY <2>1, <2>2, <2>3
<1>. QED BY <1>3, <1>4, <1>5, <1>6 DEF OwnerInv

\* A file that somebody has open is not freed by a fileclose() of it.
LEMMA LastCloser ==
    ASSUME RefCounts, NEW p \in Proc, NEW f \in File, f \in Closing(p),
           end' = IF ref[f] = 1 THEN [end EXCEPT ![f] = None] ELSE end,
           NEW q \in Proc, NEW fd \in FD, NEW g, ofile[q][fd] = g, end \in [File -> End \cup {None}],
           g \in File
    PROVE  end'[g] = end[g]
<1>1. CASE g = f
  <2>1. ref[f] \in Nat /\ ref[f] >= 2 BY <1>1, RefTwo
  <2>. QED BY <2>1
<1>2. CASE g # f BY <1>2
<1>. QED BY <1>1, <1>2

\* fileclose().
LEMMA FileClose_Inv ==
    ASSUME Inv, NEW p \in Proc, FileClose(p)
    PROVE  Inv'
<1>1. TypeOK /\ FdInv /\ CallInv /\ RefInv /\ RefCounts BY DEF Inv, RefInv
<1>2. pc[p] \in {"close", "exit"} /\ closing[p] # <<>> /\ ff[p] = None BY DEF FileClose
<1>3. PICK f \in File :
         /\ f = Head(closing[p]) /\ f \in Closing(p)
         /\ \/ Tail(closing[p]) = <<>> /\ Closing(p) = {f}
            \/ \E g \in File \ {f} : /\ Tail(closing[p]) = <<g>> /\ Closing(p) = {f, g}
                                     /\ pc[p] = "close"
  BY <1>2, CloseCases
<1>4. PICK copy : copy = IF ref[f] = 1 THEN end[f] ELSE None OBVIOUS
<1>5. /\ ref' = [ref EXCEPT ![f] = ref[f] - 1]
      /\ end' = IF ref[f] = 1 THEN [end EXCEPT ![f] = None] ELSE end
      /\ ff' = [ff EXCEPT ![p] = copy]
      /\ closing' = [closing EXCEPT ![p] = Tail(closing[p])]
      /\ pc' = [pc EXCEPT ![p] = AfterClose(p, Tail(closing[p]), copy)]
      /\ UNCHANGED <<ofile, pipe, plock, file, left, begun, killed, quiet>>
  BY <1>3, <1>4 DEF FileClose, Goto, call
<1>6. /\ ref[f] >= 1 /\ ref' \in [File -> Nat] /\ ref'[f] = ref[f] - 1
      /\ \A g \in File \ {f} : ref'[g] = ref[g]
      /\ \A g \in File : ref[g] \in Nat
  <2>1. ref[f] \in Nat /\ ref[f] >= 1 BY <1>1, <1>3, RefOne
  <2>. QED BY <1>1, <1>5, <2>1, Types
<1>7. end' \in [File -> End \cup {None}] /\ copy \in End \cup {None} BY <1>1, <1>4, <1>5, Types
<1>8. /\ ff' \in [Proc -> End \cup {None}] /\ ff'[p] = copy
      /\ \A q \in Proc \ {p} : ff'[q] = ff[q]
  BY <1>1, <1>5, <1>7, Types
<1>9. /\ closing' \in [Proc -> Seq(File)] /\ closing'[p] = Tail(closing[p])
      /\ \A q \in Proc \ {p} : closing'[q] = closing[q]
  <2>1. Tail(closing[p]) \in Seq(File)
    <3>1. <<>> \in Seq(File) /\ \A g \in File : <<g>> \in Seq(File) OBVIOUS
    <3>. QED BY <1>3, <3>1
  <2>. QED BY <1>1, <1>5, <2>1, Types
<1>10. Closing(p)' = Closing(p) \ {f}
  <2>1. CASE Tail(closing[p]) = <<>> /\ Closing(p) = {f}
    <3>1. closing'[p] = <<>> BY <1>9, <2>1
    <3>2. Closing(p)' = {} BY <3>1, ClosingIsNext
    <3>. QED BY <2>1, <3>2
  <2>2. CASE \E g \in File \ {f} : Tail(closing[p]) = <<g>> /\ Closing(p) = {f, g}
    <3>1. PICK g \in File \ {f} : Tail(closing[p]) = <<g>> /\ Closing(p) = {f, g} BY <2>2
    <3>2. closing'[p] = <<g>> BY <1>9, <3>1
    <3>3. Closing(p)' = {g} BY <3>2, ClosingIsNext
    <3>. QED BY <3>1, <3>3
  <2>. QED BY <1>3, <2>1, <2>2
<1>11. /\ pc' \in [Proc -> PCs] /\ \A q \in Proc \ {p} : pc'[q] = pc[q]
       /\ \/ pc'[p] = pc[p]
          \/ pc'[p] = "user" /\ closing'[p] = <<>> /\ ff'[p] = None
  <2>1. PICK s : s = AfterClose(p, Tail(closing[p]), copy) OBVIOUS
  <2>2. s = pc[p] \/ (s = "user" /\ closing'[p] = <<>> /\ ff'[p] = None)
    BY <1>8, <1>9, <2>1 DEF AfterClose
  <2>3. s \in PCs BY <1>2, <2>2, PCsAre
  <2>4. pc' = [pc EXCEPT ![p] = s] /\ pc \in [Proc -> PCs] BY <1>1, <1>5, <2>1, CallTypes
  <2>. QED BY <2>2, <2>3, <2>4
<1>12. pc[p] \notin Calling /\ pc'[p] \notin Calling /\ pc'[p] \in {"close", "exit", "user"}
  BY <1>2, <1>11 DEF Calling, Reading, Writing
<1>13. RefCounts'
  <2>1. ASSUME NEW h \in File
        PROVE  ref'[h] - ref[h] =
                 (Cardinality(RefSet(ofile', h)) - Cardinality(RefSet(ofile, h)))
                 + (Cardinality(CloseRefs(h)') - Cardinality(CloseRefs(h)))
    <3>1. /\ Cardinality(CloseRefs(h)) \in Nat
          /\ Cardinality(CloseRefs(h)')
             = Cardinality(CloseRefs(h)) + In(h, Closing(p)') - In(h, Closing(p))
      BY <1>9, CloseRefsChange
    <3>2. Cardinality(RefSet(ofile, h)) \in Nat /\ RefSet(ofile', h) = RefSet(ofile, h)
      BY <1>5, RefSetFinite
    <3>3. In(h, Closing(p)') = In(h, Closing(p)) - Is(h, f) BY <1>3, <1>10 DEF In, Is
    <3>4. In(h, Closing(p)) \in Nat /\ Is(h, f) \in Nat BY DEF In, Is
    <3>5. ref'[h] = ref[h] - Is(h, f) BY <1>6 DEF Is
    <3>. QED BY <1>6, <3>1, <3>2, <3>3, <3>4, <3>5
  <2>2. ref' \in [File -> Int] BY <1>6
  <2>. QED BY <1>1, <2>1, <2>2, RefCountsNext
<1>14. RefInv'
  <2>. SUFFICES ASSUME NEW g \in File, ref'[g] = 0 PROVE end'[g] = None
    BY <1>13 DEF RefInv
  <2>1. CASE g = f BY <1>1, <1>5, <1>6, <2>1, Types
  <2>2. CASE g # f BY <1>1, <1>5, <1>6, <2>2, Types DEF RefInv
  <2>. QED BY <2>1, <2>2
<1>15. ASSUME NEW q \in Proc, NEW fd \in FD, ofile[q][fd] # 0
       PROVE  ofile[q][fd] \in File /\ end'[ofile[q][fd]] = end[ofile[q][fd]]
  <2>1. PICK g \in File : g = ofile[q][fd] BY <1>1, <1>15, Types, Consts
  <2>2. end'[g] = end[g] BY <1>1, <1>3, <1>5, <2>1, LastCloser, Types
  <2>. QED BY <2>1, <2>2
<1>16. FdInv'
  <2>. SUFFICES ASSUME NEW q \in Proc, NEW fd \in FD, ofile[q][fd] # 0
                PROVE  pc'[q] # "none" /\ end'[ofile[q][fd]] # None
    BY <1>5 DEF FdInv
  <2>1. pc[q] # "none" /\ end[ofile[q][fd]] # None BY <1>1 DEF FdInv
  <2>. QED BY <1>11, <1>12, <1>15, <2>1
<1>17. ASSUME NEW q \in Proc, pc[q] \in Calling PROVE end'[file[q]] = end[file[q]]
  <2>1. PICK fd \in FD : ofile[q][fd] = file[q] /\ file[q] # 0 BY <1>1, <1>17 DEF CallInv
  <2>. QED BY <1>15, <2>1
<1>18. CallInv'
  <2>. SUFFICES ASSUME NEW q \in Proc, pc'[q] \in Calling PROVE CallOK(q)'
    BY DEF CallInv, CallOK
  <2>1. q # p /\ pc[q] = pc'[q] BY <1>11, <1>12
  <2>2. CallOK(q) /\ end'[file[q]] = end[file[q]] BY <1>1, <1>17, <2>1 DEF CallInv, CallOK
  <2>. QED BY <1>5, <2>1, <2>2 DEF CallOK
<1>19. CloseInv'
  <2>1. ASSUME NEW q \in Proc \ {p}, pc[q] = "pipe", NEW g \in Closing(q)
        PROVE  ref'[g] = ref[g] /\ end'[g] = end[g]
    <3>1. g \in File /\ g # f BY <1>3, <2>1, PipeFile
    <3>. QED BY <1>1, <1>5, <1>6, <3>1, Types
  <2>2. CloseOK(p)'
    <3>1. closing'[p] = <<>> \/ \E g \in File : closing'[p] = <<g>> /\ pc[p] = "close"
      BY <1>3, <1>9
    <3>2. ff'[p] # None => pc'[p] \in {"close", "exit"} BY <1>2, <1>11
    <3>3. closing'[p] # <<>> => pc'[p] = pc[p] BY <1>11
    <3>4. CASE closing'[p] = <<>> BY <1>12, <3>2, <3>4 DEF CloseOK
    <3>5. CASE closing'[p] # <<>> BY <3>1, <3>2, <3>3, <3>5 DEF CloseOK
    <3>. QED BY <3>4, <3>5
  <2>. QED BY <1>8, <1>9, <1>11, <2>1, <2>2, Close_Others
<1>20. OwnerInv'
  <2>1. CASE ref[f] = 1
    <3>1. end'[f] = None /\ \A g \in File \ {f} : end'[g] = end[g] BY <1>1, <1>5, <2>1, Types
    <3>2. ff'[p] = end[f] BY <1>4, <1>8, <2>1
    <3>. QED BY <1>2, <1>5, <1>8, <3>1, <3>2, Move_Owner
  <2>2. CASE ref[f] # 1
    <3>1. end' = end /\ copy = None BY <1>4, <1>5, <2>2
    <3>2. ff' = ff BY <1>1, <1>2, <1>5, <3>1, Types
    <3>. QED BY <1>5, <3>1, <3>2, Same_Owners
  <2>. QED BY <2>1, <2>2
<1>21. LockInv' /\ SleepInv' /\ RingInv' BY <1>5, <1>11, <1>12, <1>17, Table_Step
<1>22. TypeOK' BY <1>1, <1>5, <1>6, <1>7, <1>8, <1>9, <1>11 DEF TypeOK, PCs
<1>. QED BY <1>14, <1>16, <1>18, <1>19, <1>20, <1>21, <1>22 DEF Inv

\* The copy of a file lets its end go, which closes it.
LEMMA Drop_Owner ==
    ASSUME Inv, NEW p \in Proc, NEW e, ff[p] = e, e # None, end' = end,
           ff'[p] = None, \A q \in Proc \ {p} : ff'[q] = ff[q],
           \A i \in Pages : /\ pipe'[i].readopen <=> pipe[i].readopen /\ <<i, FALSE>> # e
                            /\ pipe'[i].writeopen <=> pipe[i].writeopen /\ <<i, TRUE>> # e
    PROVE  OwnerInv'
<1>1. OwnerInv BY DEF Inv
<1>2. ASSUME NEW d, d # None PROVE Held(d)' <=> Held(d) /\ d # e
  <2>1. CASE d = e
    <3>1. \A g \in File : end'[g] # e BY <1>1 DEF OwnerInv
    <3>2. \A q \in Proc : ff'[q] # e BY <1>1 DEF OwnerInv
    <3>. QED BY <2>1, <3>1, <3>2 DEF Held
  <2>2. CASE d # e
    <3>1. \A q \in Proc : ff'[q] = d <=> ff[q] = d BY <1>2, <2>2
    <3>. QED BY <2>2, <3>1 DEF Held
  <2>. QED BY <2>1, <2>2
<1>3. ASSUME NEW i \in Pages
      PROVE  /\ pipe'[i].readopen <=> Held(<<i, FALSE>>)'
             /\ pipe'[i].writeopen <=> Held(<<i, TRUE>>)'
  <2>1. <<i, FALSE>> # None /\ <<i, TRUE>> # None BY PairIsEnd
  <2>2. /\ Held(<<i, FALSE>>)' <=> Held(<<i, FALSE>>) /\ <<i, FALSE>> # e
        /\ Held(<<i, TRUE>>)' <=> Held(<<i, TRUE>>) /\ <<i, TRUE>> # e
    BY <1>2, <2>1
  <2>. QED BY <1>1, <2>2 DEF OwnerInv
<1>4. \A g, h \in File : end'[g] # None /\ end'[g] = end'[h] => g = h BY <1>1 DEF OwnerInv
<1>5. \A q, r \in Proc : ff'[q] # None /\ ff'[q] = ff'[r] => q = r BY <1>1 DEF OwnerInv
<1>6. \A g \in File, q \in Proc : ff'[q] # None => end'[g] # ff'[q] BY <1>1 DEF OwnerInv
<1>. QED BY <1>3, <1>4, <1>5, <1>6 DEF OwnerInv

\* A page without bytes.
LEMMA NewPageType ==
    ASSUME NEW r \in BOOLEAN, NEW w \in BOOLEAN
    PROVE  /\ NewPage(r, w) \in PipeType
           /\ NewPage(r, w).readopen = r /\ NewPage(r, w).writeopen = w
           /\ NewPage(r, w).nread = 0 /\ NewPage(r, w).nwrite = 0
<1>1. JUNK \in Bytes /\ 0 \in 0 .. UINT - 1 BY FilesAssumption, Consts
<1>. QED BY <1>1 DEF NewPage, PipeType

\* What closing an end that is open leaves of the pipe.
LEMMA ClosedIs ==
    ASSUME NEW i \in Pages, pipe[i] \in PipeType, NEW w \in BOOLEAN
    PROVE  /\ Closed(i, w) \in PipeType
           /\ Closed(i, w).readopen <=> pipe[i].readopen /\ w
           /\ Closed(i, w).writeopen <=> pipe[i].writeopen /\ ~w
           /\ IF (w /\ pipe[i].readopen) \/ (~w /\ pipe[i].writeopen)
              THEN /\ Closed(i, w).nread = pipe[i].nread /\ Closed(i, w).nwrite = pipe[i].nwrite
                   /\ Closed(i, w).data = pipe[i].data
              ELSE Closed(i, w) = NewPage(FALSE, FALSE)
<1>1. CASE (w /\ pipe[i].readopen) \/ (~w /\ pipe[i].writeopen)
  <2>1. Closed(i, w) = [pipe[i] EXCEPT !.readopen = @ /\ w, !.writeopen = @ /\ ~w]
    BY <1>1 DEF Closed
  <2>. QED BY <1>1, <2>1 DEF PipeType
<1>2. CASE ~((w /\ pipe[i].readopen) \/ (~w /\ pipe[i].writeopen))
  <2>1. Closed(i, w) = NewPage(FALSE, FALSE) BY <1>2 DEF Closed
  <2>. QED BY <1>2, <2>1, NewPageType
<1>. QED BY <1>1, <1>2

\* Who is in a call at the pipe whose end is being closed has the other end.
LEMMA OtherEnd ==
    ASSUME Inv, NEW p \in Proc, NEW i \in Pages, NEW w \in BOOLEAN, ff[p] = <<i, w>>,
           NEW q \in Proc, pc[q] \in Calling, Pipe(q) = i
    PROVE  (pc[q] \in Writing) # w
<1>1. file[q] \in File /\ end[file[q]] = <<i, pc[q] \in Writing>> BY CallFacts
<1>2. ff[p] # None BY PairIsEnd
<1>3. end[file[q]] # ff[p] BY <1>1, <1>2 DEF Inv, OwnerInv
<1>. QED BY <1>1, <1>3

\* A pipe without bytes is not overfull.
LEMMA DistZero ==
    Dist(0, 0) <= PIPESIZE
<1>1. UINT \in Nat /\ UINT > 0 /\ PIPESIZE \in Nat BY Consts
<1>2. 0 % UINT = 0 BY <1>1
<1>. QED BY <1>1, <1>2 DEF Dist

\* pipeclose().
LEMMA PipeClose_Inv ==
    ASSUME Inv, NEW p \in Proc, PipeClose(p)
    PROVE  Inv'
<1>1. TypeOK /\ FdInv /\ CallInv /\ RefInv /\ CloseInv BY DEF Inv
<1>2. PICK i \in Pages, w \in BOOLEAN : ff[p] = <<i, w>> /\ i = ff[p][1] /\ w = ff[p][2]
  <2>1. ff[p] \in End \cup {None} /\ ff[p] # None BY <1>1, Types DEF PipeClose
  <2>. QED BY <2>1, EndIs
<1>3. PICK s : s = AfterClose(p, closing[p], None) OBVIOUS
<1>4. /\ pc[p] \in {"close", "exit"} /\ plock[i] = 0
      /\ IF w THEN WakeReaders(p, s, i) ELSE WakeWriters(p, s, i)
      /\ pipe' = [pipe EXCEPT ![i] = Closed(i, w)] /\ ff' = [ff EXCEPT ![p] = None]
      /\ UNCHANGED <<ofile, ref, end, plock, file, left, begun, closing, killed>>
  BY <1>2, <1>3 DEF PipeClose, ftable, call
<1>5. s = pc[p] \/ (s = "user" /\ closing[p] = <<>>) BY <1>3 DEF AfterClose
<1>6. s \in PCs /\ s \in {"close", "exit", "user"} BY <1>4, <1>5, PCsAre
<1>7. PICK asleep, awake :
        /\ asleep = IF w THEN "rsleep" ELSE "wsleep"
        /\ awake = IF w THEN "racq" ELSE "wacq"
  OBVIOUS
<1>8. pc' = Woken(p, s, i, asleep, awake)
  BY <1>4, <1>7 DEF WakeReaders, WakeWriters
<1>9. /\ pc'[p] = s
      /\ \A q \in Proc \ {p} : /\ pc[q] = asleep /\ Pipe(q) = i => pc'[q] = awake
                               /\ ~(pc[q] = asleep /\ Pipe(q) = i) => pc'[q] = pc[q]
  BY <1>8, WokenIs
<1>10. pc' \in [Proc -> PCs]
  <2>1. awake \in PCs BY <1>7, PCsAre
  <2>. QED BY <1>1, <1>6, <1>8, <2>1, WokenType DEF PCs
<1>11. quiet' \in [Pages -> BOOLEAN] /\ \A j \in Pages \ {i} : quiet'[j] = quiet[j]
  BY <1>1, <1>4, CallTypes DEF WakeReaders, WakeWriters
<1>12. /\ pipe[i] \in PipeType /\ pipe' \in [Pages -> PipeType] /\ pipe'[i] = Closed(i, w)
       /\ \A j \in Pages \ {i} : pipe'[j] = pipe[j]
  <2>1. pipe \in [Pages -> PipeType] /\ pipe[i] \in PipeType BY <1>1, CallTypes
  <2>2. Closed(i, w) \in PipeType BY <2>1, ClosedIs
  <2>. QED BY <1>4, <2>1, <2>2
<1>13. ff' \in [Proc -> End \cup {None}] /\ ff'[p] = None /\ \A q \in Proc \ {p} : ff'[q] = ff[q]
  BY <1>1, <1>4, Types
<1>14. \A q \in Proc \ {p} : Stays(q) BY <1>4, <1>7, <1>9 DEF Stays
<1>15. pc[p] \notin Calling /\ pc'[p] \notin Calling /\ pc'[p] \notin Holding /\ pc'[p] \notin Asleep
       /\ pc[p] \notin Holding
  BY <1>4, <1>6, <1>9 DEF Calling, Reading, Writing, Holding, Asleep
<1>16. Frame(p, {i})
  <2>1. \A j \in Pages : plock[j] # p BY <1>15, NotHolder
  <2>. QED BY <1>4, <1>11, <1>12, <1>14, <2>1 DEF Frame
<1>17. LockInv' BY <1>4, <1>15, <1>16, Lock_Step
<1>18. SleepInv'
  <2>1. ASSUME NEW q \in Proc \ {p}, pc[q] \in Asleep, pc'[q] = pc[q], Pipe(q) = i
        PROVE  FALSE
    <3>1. pc[q] \in {"rsleep", "wsleep"} BY <1>4, <2>1, SleepersFree
    <3>2. pc[q] \in Calling BY <2>1, PCsAre
    <3>3. (pc[q] \in Writing) # w BY <1>2, <2>1, <3>2, OtherEnd
    <3>4. pc[q] = asleep
      <4>1. CASE w BY <1>7, <3>1, <3>3, <4>1 DEF Writing
      <4>2. CASE ~w BY <1>7, <3>1, <3>3, <4>2 DEF Writing
      <4>. QED BY <4>1, <4>2
    <3>5. pc'[q] = awake BY <1>9, <2>1, <3>4
    <3>. QED BY <1>7, <2>1, <3>4, <3>5
  <2>. QED BY <1>15, <1>16, <2>1, AwakeOK, Sleep_Step
<1>19. RingInv'
  <2>. SUFFICES ASSUME NEW j \in Pages PROVE Dist(pipe'[j].nread, pipe'[j].nwrite) <= PIPESIZE
    BY DEF RingInv
  <2>1. Dist(pipe[j].nread, pipe[j].nwrite) <= PIPESIZE BY DEF Inv, RingInv
  <2>2. CASE j # i BY <1>12, <2>1, <2>2
  <2>3. CASE j = i
    <3>1. \/ pipe'[i].nread = pipe[i].nread /\ pipe'[i].nwrite = pipe[i].nwrite
          \/ pipe'[i].nread = 0 /\ pipe'[i].nwrite = 0
      <4>1. NewPage(FALSE, FALSE).nread = 0 /\ NewPage(FALSE, FALSE).nwrite = 0 BY NewPageType
      <4>2. \/ pipe'[i].nread = pipe[i].nread /\ pipe'[i].nwrite = pipe[i].nwrite
            \/ pipe'[i] = NewPage(FALSE, FALSE)
        <5>1. \/ Closed(i, w).nread = pipe[i].nread /\ Closed(i, w).nwrite = pipe[i].nwrite
              \/ Closed(i, w) = NewPage(FALSE, FALSE)
          BY <1>12, ClosedIs, Zenon
        <5>. QED BY <1>12, <5>1, Zenon
      <4>. QED BY <4>1, <4>2
    <3>. QED BY <2>1, <2>3, <3>1, DistZero
  <2>. QED BY <2>2, <2>3
<1>20. OwnerInv'
  <2>1. ASSUME NEW j \in Pages
        PROVE  /\ pipe'[j].readopen <=> pipe[j].readopen /\ <<j, FALSE>> # <<i, w>>
               /\ pipe'[j].writeopen <=> pipe[j].writeopen /\ <<j, TRUE>> # <<i, w>>
    <3>1. CASE j # i BY <1>12, <3>1
    <3>2. CASE j = i
      <4>1. /\ pipe'[i].readopen <=> pipe[i].readopen /\ w
            /\ pipe'[i].writeopen <=> pipe[i].writeopen /\ ~w
        <5>1. /\ Closed(i, w).readopen <=> pipe[i].readopen /\ w
              /\ Closed(i, w).writeopen <=> pipe[i].writeopen /\ ~w
          BY <1>12, ClosedIs, Zenon
        <5>. QED BY <1>12, <5>1, Zenon
      <4>. QED BY <3>2, <4>1
    <3>. QED BY <3>1, <3>2
  <2>2. <<i, w>> # None BY PairIsEnd
  <2>. QED BY <1>2, <1>4, <1>13, <2>1, <2>2, Drop_Owner
<1>21. FdInv'
  <2>. SUFFICES ASSUME NEW q \in Proc, NEW fd \in FD, ofile[q][fd] # 0
                PROVE  pc'[q] # "none" /\ end[ofile[q][fd]] # None
    BY <1>4 DEF FdInv
  <2>1. pc[q] # "none" /\ end[ofile[q][fd]] # None BY <1>1 DEF FdInv
  <2>2. CASE q = p BY <1>6, <1>9, <2>1, <2>2
  <2>3. CASE q # p BY <1>14, <2>1, <2>3 DEF Stays
  <2>. QED BY <2>2, <2>3
<1>22. CallInv'
  <2>. SUFFICES ASSUME NEW q \in Proc, pc'[q] \in Calling PROVE CallOK(q)'
    BY DEF CallInv, CallOK
  <2>1. Stays(q) BY <1>14, <1>15
  <2>2. CallOK(q) BY <1>1 DEF CallInv, CallOK
  <2>3. CASE pc'[q] = pc[q] BY <1>4, <2>1, <2>2, <2>3 DEF Stays, CallOK
  <2>4. CASE pc'[q] # pc[q] BY <1>4, <2>1, <2>2, <2>4 DEF Stays, CallOK, Calling, Reading, Writing
  <2>. QED BY <2>3, <2>4
<1>23. CloseInv'
  <2>. SUFFICES ASSUME NEW q \in Proc PROVE CloseOK(q)' BY DEF CloseInv, CloseOK
  <2>1. CloseOK(q) BY <1>1 DEF CloseInv, CloseOK
  <2>2. CASE q = p
    <3>1. CASE closing[p] = <<>> BY <1>4, <1>6, <1>9, <1>13, <2>2, <3>1 DEF CloseOK
    <3>2. CASE closing[p] # <<>>
      <4>1. pc'[p] = pc[p] BY <1>5, <1>9, <3>2
      <4>. QED BY <1>4, <1>13, <2>1, <2>2, <4>1 DEF CloseOK
    <3>. QED BY <3>1, <3>2
  <2>3. CASE q # p
    <3>1. \/ pc'[q] = pc[q]
          \/ /\ pc[q] \notin {"close", "exit", "pipe"}
             /\ pc'[q] \notin {"close", "exit", "pipe"}
      BY <1>14, <2>3 DEF Stays
    <3>2. closing'[q] = closing[q] /\ ff'[q] = ff[q] BY <1>4, <1>13, <2>3
    <3>. QED BY <1>4, <2>1, <3>1, <3>2 DEF CloseOK
  <2>. QED BY <2>2, <2>3
<1>24. RefInv' BY <1>1, <1>4 DEF RefInv, RefCounts, Closing
<1>25. TypeOK' BY <1>1, <1>4, <1>10, <1>11, <1>12, <1>13 DEF TypeOK, PCs, PipeType
<1>. QED BY <1>17, <1>18, <1>19, <1>20, <1>21, <1>22, <1>23, <1>24, <1>25 DEF Inv

----------------------------------------------------------------------------
(* A new pipe                                                              *)

\* Two free descriptors d0 and d1 of p are set.
SetTwo(o, o2, p, d0, d1, g, f) ==
    /\ d0 # d1
    /\ o[p][d0] = 0 /\ o[p][d1] = 0 /\ o2[p][d0] = g /\ o2[p][d1] = f
    /\ \A q \in Proc, e \in FD : q # p \/ (e # d0 /\ e # d1) => o2[q][e] = o[q][e]

\* Their files have one more reference each.
LEMMA RefSetTwo ==
    ASSUME NEW o \in Descriptors, NEW o2, NEW p \in Proc, NEW d0 \in FD, NEW d1 \in FD,
           NEW g \in File, NEW f \in File, SetTwo(o, o2, p, d0, d1, g, f), NEW h \in File
    PROVE  Cardinality(RefSet(o2, h)) = Cardinality(RefSet(o, h)) + Is(h, g) + Is(h, f)
<1>1. 0 \notin File /\ g \in 0 .. NFILE BY Consts
<1>2. PICK m : m = [o EXCEPT ![p][d0] = g] OBVIOUS
<1>3. m[p][d0] = g /\ m[p][d1] = 0 BY <1>1, <1>2 DEF Descriptors, SetTwo
<1>4. \A q \in Proc, e \in FD : q # p \/ e # d0 => m[q][e] = o[q][e]
  BY <1>1, <1>2 DEF Descriptors
<1>5. \A q \in Proc, e \in FD : q # p \/ e # d1 => o2[q][e] = m[q][e]
  <2>. SUFFICES ASSUME NEW q \in Proc, NEW e \in FD, q # p \/ e # d1 PROVE o2[q][e] = m[q][e]
    OBVIOUS
  <2>1. CASE q = p /\ e = d0 BY <1>3, <2>1 DEF SetTwo
  <2>2. CASE q # p \/ e # d0 BY <1>4, <2>2 DEF SetTwo
  <2>. QED BY <2>1, <2>2
<1>6. Cardinality(RefSet(m, h)) = Cardinality(RefSet(o, h)) + Is(h, m[p][d0]) - Is(h, o[p][d0])
  <2>1. o[p][d0] # m[p][d0] BY <1>1, <1>3 DEF SetTwo
  <2>. QED BY <1>4, <2>1, RefSetChange
<1>7. Cardinality(RefSet(o2, h)) = Cardinality(RefSet(m, h)) + Is(h, o2[p][d1]) - Is(h, m[p][d1])
  <2>1. m[p][d1] # o2[p][d1] BY <1>1, <1>3 DEF SetTwo
  <2>. QED BY <1>5, <2>1, RefSetChange
<1>8. Is(h, 0) = 0 BY <1>1 DEF Is
<1>9. Is(h, g) \in Nat /\ Is(h, f) \in Nat BY DEF Is
<1>10. Cardinality(RefSet(o, h)) \in Nat BY RefSetFinite
<1>11. Cardinality(RefSet(m, h)) = Cardinality(RefSet(o, h)) + Is(h, g)
  BY <1>3, <1>6, <1>8, <1>9, <1>10 DEF SetTwo
<1>12. Cardinality(RefSet(o2, h)) = Cardinality(RefSet(m, h)) + Is(h, f)
  BY <1>3, <1>7, <1>8, <1>9, <1>10, <1>11 DEF SetTwo
<1>. QED BY <1>9, <1>10, <1>11, <1>12

\* The same for the descriptors after a step.
LEMMA FdTwo ==
    ASSUME ofile \in Descriptors, NEW p \in Proc, NEW d0 \in FD, NEW d1 \in FD,
           NEW g \in File, NEW f \in File, SetTwo(ofile, ofile', p, d0, d1, g, f), NEW h \in File
    PROVE  Cardinality(RefSet(ofile', h)) = Cardinality(RefSet(ofile, h)) + Is(h, g) + Is(h, f)
<1>1. PICK o \in Descriptors : o = ofile OBVIOUS
<1>2. PICK o2 : o2 = ofile' OBVIOUS
<1>3. SetTwo(o, o2, p, d0, d1, g, f) BY <1>1, <1>2
<1>4. Cardinality(RefSet(o2, h)) = Cardinality(RefSet(o, h)) + Is(h, g) + Is(h, f)
  BY <1>3, RefSetTwo
<1>. QED BY <1>1, <1>2, <1>4

\* What pipealloc() does: g and f are the ends of the new pipe in page i.
Piped(p, f, i, g) ==
    /\ g = Head(closing[p]) /\ closing[p] = <<g>> /\ Closing(p) = {g}
    /\ g # f /\ ref[g] = 1 /\ ref[f] = 0
    /\ \A q \in Proc, fd \in FD : ofile[q][fd] # g /\ ofile[q][fd] # f
    /\ \A q \in Proc \ {p} : g \notin Closing(q) /\ f \notin Closing(q)
    /\ ref' \in [File -> Nat] /\ ref'[f] = 1 /\ \A h \in File \ {f} : ref'[h] = ref[h]
    /\ end' \in [File -> End \cup {None}]
    /\ end'[g] = <<i, FALSE>> /\ end'[f] = <<i, TRUE>> /\ end[g] = None /\ end[f] = None
    /\ \A h \in File \ {g, f} : end'[h] = end[h]
    /\ pipe' \in [Pages -> PipeType] /\ pipe'[i] = NewPage(TRUE, TRUE)
    /\ \A j \in Pages \ {i} : pipe'[j] = pipe[j]
    /\ quiet' \in [Pages -> BOOLEAN] /\ \A j \in Pages \ {i} : quiet'[j] = quiet[j]
    /\ ~pipe[i].readopen /\ ~pipe[i].writeopen
    /\ pc[p] = "pipe"
    /\ UNCHANGED <<plock, file, left, begun, ff, killed>>

\* What pipealloc() does to the tables, to the pages and to their owners.
LEMMA NewPipeDoes ==
    ASSUME Inv, NEW p \in Proc, NEW f \in File, NEW i \in Pages, NewPipe(p, f, i)
    PROVE  \E g \in File : Piped(p, f, i, g)
<1>1. TypeOK BY DEF Inv
<1>2. pc[p] = "pipe" /\ FirstFree(f) /\ ~Used(i) BY DEF NewPipe
<1>3. PICK g \in File : /\ closing[p] = <<g>> /\ Closing(p) = {g} /\ g = Head(closing[p])
                        /\ ref[g] = 1 /\ end[g] = None
                        /\ \A q \in Proc, fd \in FD : ofile[q][fd] # g
                        /\ \A q \in Proc \ {p} : g \notin Closing(q)
  BY <1>2, PipeFile
<1>4. /\ ref[f] = 0 /\ end[f] = None /\ \A q \in Proc : f \notin Closing(q)
      /\ \A q \in Proc, fd \in FD : ofile[q][fd] # f
  BY <1>2, FreeFile
<1>5. g # f BY <1>3, <1>4
<1>6. /\ ref' = [ref EXCEPT ![f] = 1] /\ end' = [end EXCEPT ![g] = <<i, FALSE>>, ![f] = <<i, TRUE>>]
      /\ pipe' = [pipe EXCEPT ![i] = NewPage(TRUE, TRUE)]
      /\ quiet' = [quiet EXCEPT ![i] = FALSE]
      /\ UNCHANGED <<plock, file, left, begun, ff, killed>>
  BY <1>3 DEF NewPipe, call
<1>7. ref' \in [File -> Nat] /\ ref'[f] = 1 /\ \A h \in File \ {f} : ref'[h] = ref[h]
  BY <1>1, <1>6, Types
<1>8. <<i, FALSE>> \in End /\ <<i, TRUE>> \in End BY PairIsEnd
<1>9. /\ end' \in [File -> End \cup {None}]
      /\ end'[g] = <<i, FALSE>> /\ end'[f] = <<i, TRUE>>
      /\ \A h \in File \ {g, f} : end'[h] = end[h]
  BY <1>1, <1>5, <1>6, <1>8, Types
<1>10. /\ pipe' \in [Pages -> PipeType] /\ pipe'[i] = NewPage(TRUE, TRUE)
       /\ \A j \in Pages \ {i} : pipe'[j] = pipe[j]
  BY <1>1, <1>6, CallTypes, NewPageType
<1>11. quiet' \in [Pages -> BOOLEAN] /\ \A j \in Pages \ {i} : quiet'[j] = quiet[j]
  BY <1>1, <1>6, CallTypes
<1>12. ~pipe[i].readopen /\ ~pipe[i].writeopen BY <1>2 DEF Used
<1>13. \A q \in Proc, fd \in FD : ofile[q][fd] # g /\ ofile[q][fd] # f BY <1>3, <1>4
<1>14. \A q \in Proc \ {p} : g \notin Closing(q) /\ f \notin Closing(q) BY <1>3, <1>4
<1>. WITNESS g \in File
<1>. QED BY <1>2, <1>3, <1>4, <1>5, <1>6, <1>7, <1>9, <1>10, <1>11, <1>12, <1>13, <1>14 DEF Piped

\* The two files own the ends of the new pipe.
LEMMA New_Owners ==
    ASSUME Inv, NEW g \in File, NEW f \in File, NEW i \in Pages, g # f,
           end[g] = None, end[f] = None, end'[g] = <<i, FALSE>>, end'[f] = <<i, TRUE>>,
           \A h \in File \ {g, f} : end'[h] = end[h], ff' = ff,
           ~pipe[i].readopen, ~pipe[i].writeopen, pipe'[i].readopen, pipe'[i].writeopen,
           \A j \in Pages \ {i} : pipe'[j] = pipe[j]
    PROVE  OwnerInv'
<1>1. OwnerInv BY DEF Inv
<1>2. <<i, FALSE>> # <<i, TRUE>> /\ <<i, FALSE>> # None /\ <<i, TRUE>> # None BY PairIsEnd
<1>3. ~Held(<<i, FALSE>>) /\ ~Held(<<i, TRUE>>) BY <1>1 DEF OwnerInv
<1>4. Held(<<i, FALSE>>)' /\ Held(<<i, TRUE>>)' BY DEF Held
<1>5. ASSUME NEW e, e # None, e # <<i, FALSE>>, e # <<i, TRUE>> PROVE Held(e)' <=> Held(e)
  <2>1. \A h \in File : end'[h] = e <=> end[h] = e BY <1>5
  <2>. QED BY <2>1 DEF Held
<1>6. ASSUME NEW j \in Pages
      PROVE  /\ pipe'[j].readopen <=> Held(<<j, FALSE>>)'
             /\ pipe'[j].writeopen <=> Held(<<j, TRUE>>)'
  <2>1. CASE j = i BY <1>4, <2>1
  <2>2. CASE j # i
    <3>1. /\ <<j, FALSE>> # None /\ <<j, FALSE>> # <<i, FALSE>> /\ <<j, FALSE>> # <<i, TRUE>>
          /\ <<j, TRUE>> # None /\ <<j, TRUE>> # <<i, FALSE>> /\ <<j, TRUE>> # <<i, TRUE>>
      BY <2>2, PairIsEnd
    <3>2. /\ Held(<<j, FALSE>>)' <=> Held(<<j, FALSE>>)
          /\ Held(<<j, TRUE>>)' <=> Held(<<j, TRUE>>)
      BY <1>5, <3>1
    <3>. QED BY <1>1, <2>2, <3>2 DEF OwnerInv
  <2>. QED BY <2>1, <2>2
<1>7. \A h \in File : end[h] # <<i, FALSE>> /\ end[h] # <<i, TRUE>> BY <1>3 DEF Held
<1>8. \A q \in Proc : ff[q] # <<i, FALSE>> /\ ff[q] # <<i, TRUE>> BY <1>3 DEF Held
<1>9. ASSUME NEW h \in File, NEW k \in File, end'[h] # None, end'[h] = end'[k] PROVE h = k
  <2>1. CASE h \in {g, f} /\ k \in {g, f} BY <1>2, <1>9, <2>1
  <2>2. CASE h \in {g, f} /\ k \notin {g, f} BY <1>7, <1>9, <2>2
  <2>3. CASE h \notin {g, f} /\ k \in {g, f} BY <1>7, <1>9, <2>3
  <2>4. CASE h \notin {g, f} /\ k \notin {g, f} BY <1>1, <1>9, <2>4 DEF OwnerInv
  <2>. QED BY <2>1, <2>2, <2>3, <2>4
<1>10. \A q, r \in Proc : ff'[q] # None /\ ff'[q] = ff'[r] => q = r BY <1>1 DEF OwnerInv
<1>11. ASSUME NEW h \in File, NEW q \in Proc, ff'[q] # None PROVE end'[h] # ff'[q]
  <2>1. CASE h \in {g, f} BY <1>8, <2>1
  <2>2. CASE h \notin {g, f} BY <1>1, <1>11, <2>2 DEF OwnerInv
  <2>. QED BY <2>1, <2>2
<1>. QED BY <1>6, <1>9, <1>10, <1>11 DEF OwnerInv

\* Nobody is at a page that holds no pipe.
LEMMA NobodyThere ==
    ASSUME Inv, NEW i \in Pages, ~pipe[i].readopen, ~pipe[i].writeopen
    PROVE  /\ \A q \in Proc : pc[q] \in Calling => Pipe(q) # i
           /\ plock[i] = 0
<1>1. ASSUME NEW q \in Proc, pc[q] \in Calling, Pipe(q) = i PROVE FALSE
  <2>1. file[q] \in File /\ end[file[q]] = <<i, pc[q] \in Writing>> BY <1>1, CallFacts
  <2>2. CASE pc[q] \in Writing
    <3>1. Held(<<i, TRUE>>) BY <2>1, <2>2 DEF Held
    <3>. QED BY <3>1 DEF Inv, OwnerInv
  <2>3. CASE pc[q] \notin Writing
    <3>1. (pc[q] \in Writing) = FALSE BY <2>3
    <3>2. Held(<<i, FALSE>>) BY <2>1, <3>1 DEF Held
    <3>. QED BY <3>2 DEF Inv, OwnerInv
  <2>. QED BY <2>2, <2>3
<1>2. plock[i] = 0
  <2>1. plock[i] \in Proc \cup {0} BY Types DEF Inv
  <2>2. ASSUME plock[i] # 0 PROVE pc[plock[i]] \in Calling /\ Pipe(plock[i]) = i
    BY <2>2, PCsAre DEF Inv, LockInv
  <2>. QED BY <1>1, <2>1, <2>2
<1>. QED BY <1>1, <1>2

\* A new pipe, whatever becomes of its files.
LEMMA NewPipe_Step ==
    ASSUME Inv, NEW p \in Proc, NEW f \in File, NEW i \in Pages, NewPipe(p, f, i),
           ofile' \in Descriptors, \A q \in Proc \ {p} : ofile'[q] = ofile[q],
           \A fd \in FD : ofile'[p][fd] \in {ofile[p][fd], Head(closing[p]), f},
           closing' \in [Proc -> Seq(File)], \A q \in Proc \ {p} : closing'[q] = closing[q],
           pc' \in [Proc -> PCs], pc'[p] \in {"user", "close"},
           \A q \in Proc \ {p} : pc'[q] = pc[q],
           RefCounts', CloseOK(p)'
    PROVE  Inv'
<1>1. TypeOK /\ FdInv /\ CallInv /\ RefInv BY DEF Inv
<1>0. PICK g \in File : Piped(p, f, i, g) BY NewPipeDoes
<1>2. /\ g = Head(closing[p]) /\ closing[p] = <<g>> /\ Closing(p) = {g}
      /\ g # f /\ ref[g] = 1 /\ ref[f] = 0
      /\ \A q \in Proc, fd \in FD : ofile[q][fd] # g /\ ofile[q][fd] # f
      /\ \A q \in Proc \ {p} : g \notin Closing(q) /\ f \notin Closing(q)
      /\ ref' \in [File -> Nat] /\ ref'[f] = 1 /\ \A h \in File \ {f} : ref'[h] = ref[h]
      /\ end' \in [File -> End \cup {None}]
      /\ end'[g] = <<i, FALSE>> /\ end'[f] = <<i, TRUE>> /\ end[g] = None /\ end[f] = None
      /\ \A h \in File \ {g, f} : end'[h] = end[h]
      /\ pipe' \in [Pages -> PipeType] /\ pipe'[i] = NewPage(TRUE, TRUE)
      /\ \A j \in Pages \ {i} : pipe'[j] = pipe[j]
      /\ quiet' \in [Pages -> BOOLEAN] /\ \A j \in Pages \ {i} : quiet'[j] = quiet[j]
      /\ ~pipe[i].readopen /\ ~pipe[i].writeopen
      /\ pc[p] = "pipe"
      /\ UNCHANGED <<plock, file, left, begun, ff, killed>>
  BY <1>0 DEF Piped
<1>3. /\ pipe'[i].readopen /\ pipe'[i].writeopen /\ pipe'[i].nread = 0 /\ pipe'[i].nwrite = 0
  BY <1>2, NewPageType
<1>4. OwnerInv' BY <1>2, <1>3, New_Owners
<1>5. <<i, FALSE>> # None /\ <<i, TRUE>> # None BY PairIsEnd
<1>6. RefInv'
  <2>. SUFFICES ASSUME NEW h \in File, ref'[h] = 0 PROVE end'[h] = None BY DEF RefInv
  <2>1. h # f /\ h # g BY <1>2
  <2>. QED BY <1>1, <1>2, <2>1 DEF RefInv
<1>7. ASSUME NEW q \in Proc, NEW fd \in FD, ofile[q][fd] # 0
      PROVE  end'[ofile[q][fd]] = end[ofile[q][fd]]
  <2>1. PICK h \in File : h = ofile[q][fd] BY <1>1, <1>7, Types, Consts
  <2>2. h # g /\ h # f BY <1>2, <2>1
  <2>. QED BY <1>2, <2>1, <2>2
<1>8. FdInv'
  <2>. SUFFICES ASSUME NEW q \in Proc, NEW fd \in FD, ofile'[q][fd] # 0
                PROVE  pc'[q] # "none" /\ end'[ofile'[q][fd]] # None
    BY DEF FdInv
  <2>1. CASE ofile'[q][fd] = ofile[q][fd]
    <3>1. pc[q] # "none" /\ end[ofile[q][fd]] # None BY <1>1, <2>1 DEF FdInv
    <3>2. end'[ofile[q][fd]] = end[ofile[q][fd]] BY <1>7, <2>1
    <3>3. pc'[q] # "none" BY <3>1
    <3>. QED BY <2>1, <3>1, <3>2, <3>3
  <2>2. CASE ofile'[q][fd] # ofile[q][fd]
    <3>1. q = p BY <2>2
    <3>2. ofile'[q][fd] \in {g, f} BY <1>2, <2>2, <3>1
    <3>. QED BY <1>2, <1>5, <3>1, <3>2
  <2>. QED BY <2>1, <2>2
<1>9. pc[p] \notin Calling /\ pc'[p] \notin Calling /\ pc'[p] \notin Holding /\ pc'[p] \notin Asleep
      /\ pc[p] \notin Holding
  BY <1>2 DEF Calling, Reading, Writing, Holding, Asleep
<1>10. ASSUME NEW q \in Proc, pc[q] \in Calling PROVE end'[file[q]] = end[file[q]]
  <2>1. PICK fd \in FD : ofile[q][fd] = file[q] /\ file[q] # 0 BY <1>1, <1>10 DEF CallInv
  <2>. QED BY <1>7, <2>1
<1>11. CallInv'
  <2>. SUFFICES ASSUME NEW q \in Proc, pc'[q] \in Calling PROVE CallOK(q)'
    BY DEF CallInv, CallOK
  <2>1. q # p /\ pc[q] = pc'[q] BY <1>9
  <2>2. CallOK(q) /\ end'[file[q]] = end[file[q]] /\ ofile'[q] = ofile[q]
    BY <1>1, <1>10, <2>1 DEF CallInv, CallOK
  <2>. QED BY <1>2, <2>1, <2>2 DEF CallOK
<1>12. CloseInv'
  <2>1. ASSUME NEW q \in Proc \ {p}, pc[q] = "pipe", NEW h \in Closing(q)
        PROVE  ref'[h] = ref[h] /\ end'[h] = end[h]
    <3>1. h \in File /\ h # f /\ h # g BY <1>2, <2>1, PipeFile
    <3>. QED BY <1>2, <3>1
  <2>. QED BY <1>2, <2>1, Close_Others
<1>13. plock[i] = 0 /\ \A q \in Proc : pc[q] \in Calling => Pipe(q) # i BY <1>2, NobodyThere
<1>14. Frame(p, {i})
  <2>1. \A j \in Pages : plock[j] # p BY <1>9, NotHolder
  <2>2. \A q \in Proc \ {p} : Stays(q) BY <1>2 DEF Stays
  <2>. QED BY <1>2, <1>10, <1>13, <2>1, <2>2 DEF Frame
<1>15. LockInv' BY <1>2, <1>9, <1>13, <1>14, Lock_Step
<1>16. SleepInv'
  <2>1. \A q \in Proc : pc[q] \in Asleep => Pipe(q) # i BY <1>13, PCsAre
  <2>. QED BY <1>9, <1>14, <2>1, AwakeOK, Sleep_Step
<1>17. RingInv'
  <2>. SUFFICES ASSUME NEW j \in Pages PROVE Dist(pipe'[j].nread, pipe'[j].nwrite) <= PIPESIZE
    BY DEF RingInv
  <2>1. CASE j # i BY <1>2, <2>1 DEF Inv, RingInv
  <2>2. CASE j = i BY <1>3, <2>2, DistZero
  <2>. QED BY <2>1, <2>2
<1>18. TypeOK' BY <1>1, <1>2 DEF TypeOK, PCs, PipeType, Descriptors
<1>. QED BY <1>4, <1>6, <1>8, <1>11, <1>12, <1>15, <1>16, <1>17, <1>18 DEF Inv

\* pipe() succeeds: the references of the two files are descriptors.
LEMMA PipeOpened_Inv ==
    ASSUME Inv, NEW p \in Proc, NEW f \in File, NEW i \in Pages, PipeOpened(p, f, i)
    PROVE  Inv'
<1>1. TypeOK /\ RefCounts BY DEF Inv, RefInv
<1>2. NewPipe(p, f, i) BY DEF PipeOpened
<1>3. PICK g \in File : Piped(p, f, i, g) BY <1>2, NewPipeDoes
<1>4. /\ g = Head(closing[p]) /\ Closing(p) = {g} /\ g # f /\ ref[g] = 1 /\ ref[f] = 0
      /\ ref' \in [File -> Nat] /\ ref'[f] = 1 /\ \A h \in File \ {f} : ref'[h] = ref[h]
  BY <1>3 DEF Piped
<1>5. PICK d0 \in FD, d1 \in FD :
         /\ d1 # d0 /\ ofile[p][d0] = 0 /\ ofile[p][d1] = 0
         /\ ofile' = [ofile EXCEPT ![p][d0] = g, ![p][d1] = f]
  BY <1>4 DEF PipeOpened, FirstFd
<1>6. closing' = [closing EXCEPT ![p] = <<>>] /\ pc' = [pc EXCEPT ![p] = "user"]
  BY DEF PipeOpened, Goto
<1>7. ofile \in Descriptors /\ f \in 0 .. NFILE /\ g \in 0 .. NFILE BY <1>1, Types, Consts DEF Descriptors
<1>8. /\ ofile' \in Descriptors /\ ofile'[p][d0] = g /\ ofile'[p][d1] = f
      /\ \A e \in FD \ {d0, d1} : ofile'[p][e] = ofile[p][e]
      /\ \A q \in Proc \ {p} : ofile'[q] = ofile[q]
  BY <1>5, <1>7 DEF Descriptors
<1>9. SetTwo(ofile, ofile', p, d0, d1, g, f) BY <1>5, <1>8 DEF SetTwo
<1>10. \A fd \in FD : ofile'[p][fd] \in {ofile[p][fd], Head(closing[p]), f} BY <1>4, <1>8
<1>11. /\ closing' \in [Proc -> Seq(File)] /\ closing'[p] = <<>>
       /\ \A q \in Proc \ {p} : closing'[q] = closing[q]
  <2>1. <<>> \in Seq(File) OBVIOUS
  <2>. QED BY <1>1, <1>6, <2>1, Types
<1>12. pc' \in [Proc -> PCs] /\ pc'[p] = "user" /\ \A q \in Proc \ {p} : pc'[q] = pc[q]
  BY <1>1, <1>6, CallTypes, PCsAre
<1>13. Closing(p)' = {} BY <1>11, ClosingIsNext
<1>14. RefCounts'
  <2>1. ASSUME NEW h \in File
        PROVE  ref'[h] - ref[h] =
                 (Cardinality(RefSet(ofile', h)) - Cardinality(RefSet(ofile, h)))
                 + (Cardinality(CloseRefs(h)') - Cardinality(CloseRefs(h)))
    <3>1. /\ Cardinality(CloseRefs(h)) \in Nat
          /\ Cardinality(CloseRefs(h)')
             = Cardinality(CloseRefs(h)) + In(h, Closing(p)') - In(h, Closing(p))
      BY <1>11, CloseRefsChange
    <3>2. Cardinality(RefSet(ofile, h)) \in Nat BY RefSetFinite
    <3>3. Cardinality(RefSet(ofile', h)) = Cardinality(RefSet(ofile, h)) + Is(h, g) + Is(h, f)
      BY <1>7, <1>9, FdTwo
    <3>4. In(h, Closing(p)') = 0 /\ In(h, Closing(p)) = Is(h, g) BY <1>4, <1>13 DEF In, Is
    <3>5. Is(h, f) \in Nat /\ Is(h, g) \in Nat /\ ref[h] \in Nat BY <1>1, Types DEF Is
    <3>6. ref'[h] = ref[h] + Is(h, f) BY <1>4, <3>5 DEF Is
    <3>. QED BY <3>1, <3>2, <3>3, <3>4, <3>5, <3>6
  <2>2. ref' \in [File -> Int] BY <1>4
  <2>. QED BY <1>1, <2>1, <2>2, RefCountsNext
<1>15. CloseOK(p)'
  <2>1. ff'[p] = None
    <3>1. ff' = ff /\ pc[p] = "pipe" BY <1>3 DEF Piped
    <3>. QED BY <3>1 DEF Inv, CloseInv
  <2>. QED BY <1>11, <1>12, <2>1 DEF CloseOK
<1>. QED BY <1>2, <1>8, <1>10, <1>11, <1>12, <1>14, <1>15, NewPipe_Step

\* pipe() fails after all: both files are to be closed.
LEMMA PipeUndone_Inv ==
    ASSUME Inv, NEW p \in Proc, NEW f \in File, NEW i \in Pages, PipeUndone(p, f, i)
    PROVE  Inv'
<1>1. TypeOK /\ RefCounts BY DEF Inv, RefInv
<1>2. /\ NewPipe(p, f, i) /\ closing' = [closing EXCEPT ![p] = Append(@, f)]
      /\ pc' = [pc EXCEPT ![p] = "close"] /\ ofile' = ofile
  BY DEF PipeUndone, Goto
<1>3. PICK g \in File : Piped(p, f, i, g) BY <1>2, NewPipeDoes
<1>4. /\ closing[p] = <<g>> /\ g # f /\ ref[f] = 0
      /\ ref' \in [File -> Nat] /\ ref'[f] = 1 /\ \A h \in File \ {f} : ref'[h] = ref[h]
  BY <1>3 DEF Piped
<1>5. /\ closing' \in [Proc -> Seq(File)] /\ closing'[p] = <<g, f>>
      /\ \A q \in Proc \ {p} : closing'[q] = closing[q]
      /\ Closing(p) = {g} /\ Closing(p)' = {g, f}
  BY <1>1, <1>2, <1>4, SecondFile
<1>6. ofile' \in Descriptors /\ \A fd \in FD : ofile'[p][fd] \in {ofile[p][fd], Head(closing[p]), f}
  BY <1>1, <1>2, Types DEF Descriptors
<1>7. pc' \in [Proc -> PCs] /\ pc'[p] = "close" /\ \A q \in Proc \ {p} : pc'[q] = pc[q]
  BY <1>1, <1>2, CallTypes, PCsAre
<1>8. RefCounts'
  <2>1. ASSUME NEW h \in File
        PROVE  ref'[h] - ref[h] =
                 (Cardinality(RefSet(ofile', h)) - Cardinality(RefSet(ofile, h)))
                 + (Cardinality(CloseRefs(h)') - Cardinality(CloseRefs(h)))
    <3>1. /\ Cardinality(CloseRefs(h)) \in Nat
          /\ Cardinality(CloseRefs(h)')
             = Cardinality(CloseRefs(h)) + In(h, Closing(p)') - In(h, Closing(p))
      BY <1>5, CloseRefsChange
    <3>2. Cardinality(RefSet(ofile, h)) \in Nat /\ RefSet(ofile', h) = RefSet(ofile, h)
      BY <1>2, RefSetFinite
    <3>3. In(h, Closing(p)') = In(h, Closing(p)) + Is(h, f) BY <1>4, <1>5 DEF In, Is
    <3>4. In(h, Closing(p)) \in Nat /\ Is(h, f) \in Nat /\ ref[h] \in Nat BY <1>1, Types DEF In, Is
    <3>5. ref'[h] = ref[h] + Is(h, f) BY <1>4, <3>4 DEF Is
    <3>. QED BY <3>1, <3>2, <3>3, <3>4, <3>5
  <2>2. ref' \in [File -> Int] BY <1>4
  <2>. QED BY <1>1, <2>1, <2>2, RefCountsNext
<1>9. CloseOK(p)' BY <1>4, <1>5, <1>7 DEF CloseOK
<1>. QED BY <1>2, <1>5, <1>6, <1>7, <1>8, <1>9, NewPipe_Step

----------------------------------------------------------------------------
(* The inductive invariant                                                 *)

\* In the initial state nothing is open.
LEMMA Init_Inv ==
    ASSUME Init
    PROVE  Inv
<1>1. TypeOK
  <2>1. <<>> \in Seq(File) OBVIOUS
  <2>2. 0 \in 0 .. NFILE /\ 0 \in Nat BY Consts
  <2>3. NewPage(FALSE, FALSE) \in PipeType BY NewPageType
  <2>4. pipe \in [Pages -> PipeType] BY <2>3 DEF Init
  <2>. QED BY <2>1, <2>2, <2>4 DEF Init, TypeOK, PipeType
<1>2. \A p \in Proc : pc[p] \in {"user", "none"} /\ closing[p] = <<>> /\ ff[p] = None BY DEF Init
<1>3. \A p \in Proc, fd \in FD : ofile[p][fd] = 0 BY DEF Init
<1>4. \A f \in File : end[f] = None /\ ref[f] = 0 BY DEF Init
<1>5. \A i \in Pages : /\ ~pipe[i].readopen /\ ~pipe[i].writeopen
                       /\ pipe[i].nread = 0 /\ pipe[i].nwrite = 0 /\ plock[i] = 0
  BY NewPageType DEF Init
<1>6. FdInv BY <1>3 DEF FdInv
<1>7. CallInv BY <1>2 DEF CallInv, Calling, Reading, Writing
<1>8. CloseInv BY <1>2 DEF CloseInv
<1>9. RefInv
  <2>. SUFFICES ASSUME NEW f \in File
                PROVE  ref[f] = Cardinality({x \in Proc \X FD : ofile[x[1]][x[2]] = f})
                                + Cardinality({p \in Proc : f \in Closing(p)})
    BY <1>4 DEF RefInv, RefCounts
  <2>1. f # 0 BY Consts
  <2>2. {x \in Proc \X FD : ofile[x[1]][x[2]] = f} = {} BY <1>3, <2>1
  <2>3. \A p \in Proc : Closing(p) = {} BY <1>2, ClosingIs
  <2>4. {p \in Proc : f \in Closing(p)} = {} BY <2>3
  <2>5. /\ Cardinality({x \in Proc \X FD : ofile[x[1]][x[2]] = f}) = 0
        /\ Cardinality({p \in Proc : f \in Closing(p)}) = 0
    <3>1. Cardinality({}) = 0 BY FS_EmptySet
    <3>2. Cardinality({x \in Proc \X FD : ofile[x[1]][x[2]] = f}) = 0 BY <2>2, <3>1, Zenon
    <3>3. Cardinality({p \in Proc : f \in Closing(p)}) = 0 BY <2>4, <3>1, Zenon
    <3>. QED BY <3>2, <3>3
  <2>. QED BY <1>4, <2>5
<1>10. OwnerInv
  <2>1. \A i \in Pages : ~Held(<<i, FALSE>>) /\ ~Held(<<i, TRUE>>)
    BY <1>2, <1>4, PairIsEnd DEF Held
  <2>. QED BY <1>2, <1>4, <1>5, <2>1 DEF OwnerInv
<1>11. LockInv BY <1>2, <1>5 DEF LockInv, Holding
<1>12. SleepInv BY <1>2 DEF SleepInv, SleepOK
<1>13. RingInv BY <1>5, DistZero DEF RingInv
<1>. QED BY <1>1, <1>6, <1>7, <1>8, <1>9, <1>10, <1>11, <1>12, <1>13 DEF Inv

\* Steps that leave everything alone keep it.
LEMMA Stutter_Inv ==
    ASSUME Inv, UNCHANGED vars
    PROVE  Inv'
<1>1. UNCHANGED <<ofile, ref, end, pipe, plock, pc, file, left, begun, closing, ff, killed, quiet>>
  BY DEF vars, ftable, call, closes
<1>2. \A q \in Proc : Stays(q) BY <1>1 DEF Stays
<1>3. FdInv' /\ CallInv' /\ CloseInv' /\ RefInv' BY <1>1, <1>2, Call_Tables
<1>4. OwnerInv' /\ RingInv' BY <1>1, Same_Owners, Same_Ring
<1>5. LockInv' BY <1>1 DEF Inv, LockInv, Pipe
<1>6. SleepInv' BY <1>1 DEF Inv, SleepInv, SleepOK, Filling, Draining, Pipe, Empty, Full
<1>7. TypeOK' BY <1>1 DEF Inv, TypeOK
<1>. QED BY <1>3, <1>4, <1>5, <1>6, <1>7 DEF Inv

\* Every step keeps the invariant.
LEMMA Next_Inv ==
    ASSUME Inv, Next
    PROVE  Inv'
<1>1. PICK p \in Proc : Kernel(p) \/ User(p) \/ Kill(p) BY DEF Next
<1>2. CASE Kernel(p)
  <2>1. CASE FileClose(p) BY <2>1, FileClose_Inv
  <2>2. CASE PipeClose(p) BY <2>2, PipeClose_Inv
  <2>3. CASE ExitDone(p) BY <2>3, Exit_Inv
  <2>4. ASSUME NEW fd \in FD, ExitClose(p, fd) PROVE Inv' BY <2>4, ExitClose_Inv
  <2>5. CASE PipeNoFile(p) BY <2>5, PipeNoFile_Inv
  <2>6. ASSUME NEW f \in File, NEW i \in Pages, PipeOpened(p, f, i) PROVE Inv'
    BY <2>6, PipeOpened_Inv
  <2>7. ASSUME NEW f \in File, NEW i \in Pages, PipeUndone(p, f, i) PROVE Inv'
    BY <2>7, PipeUndone_Inv
  <2>8. ASSUME NEW f \in File, PipeNoPage(p, f) PROVE Inv' BY <2>8, PipeNoPage_Inv
  <2>9. CASE WAbort(p) BY <2>9, WAbort_Inv
  <2>10. CASE WFull(p) BY <2>10, WFull_Inv
  <2>11. CASE WEnd(p) BY <2>11, WEnd_Inv
  <2>12. ASSUME NEW b \in Bytes, WPut(p, b) PROVE Inv' BY <2>12, WPut_Inv
  <2>13. CASE RAbort(p) BY <2>13, RAbort_Inv
  <2>14. CASE REmpty(p) BY <2>14, REmpty_Inv
  <2>15. CASE RGet(p) BY <2>15, RGet_Inv
  <2>16. CASE REnd(p) BY <2>16, REnd_Inv
  <2>17. CASE Sleep(p) BY <2>17, Sleep_Inv
  <2>18. CASE Acquire(p) BY <2>18, Acquire_Inv
  <2>. QED BY <1>2, <2>1, <2>2, <2>3, <2>4, <2>5, <2>6, <2>7, <2>8, <2>9, <2>10, <2>11, <2>12,
              <2>13, <2>14, <2>15, <2>16, <2>17, <2>18 DEF Kernel
<1>3. CASE User(p)
  <2>1. CASE Exit(p) BY <2>1, Exit_Inv
  <2>2. ASSUME NEW q \in Proc, Fork(p, q) PROVE Inv' BY <2>2, Fork_Inv
  <2>3. ASSUME NEW f \in File, PipeFile0(p, f) PROVE Inv' BY <2>3, PipeFile0_Inv
  <2>4. ASSUME NEW fd \in FD, Dup(p, fd) PROVE Inv' BY <2>4, Dup_Inv
  <2>5. ASSUME NEW fd \in FD, Close(p, fd) PROVE Inv' BY <2>5, Close_Inv
  <2>6. ASSUME NEW fd \in FD, NEW n \in Counts, Read(p, fd, n) \/ Write(p, fd, n) PROVE Inv'
    BY <2>6, Begin_Inv
  <2>. QED BY <1>3, <2>1, <2>2, <2>3, <2>4, <2>5, <2>6 DEF User
<1>4. CASE Kill(p) BY <1>4, Kill_Inv
<1>. QED BY <1>1, <1>2, <1>3, <1>4

\* Inv is an invariant of open files and pipes.
THEOREM Invariance ==
    Spec => []Inv
<1>1. Init => Inv BY Init_Inv
<1>2. Inv /\ [Next]_vars => Inv' BY Next_Inv, Stutter_Inv
<1>. QED BY <1>1, <1>2, PTL DEF Spec

\* Descriptors, files, pipes and processes have their types.
THEOREM TypeCorrect ==
    Spec => []TypeOK
<1>1. Inv => TypeOK BY DEF Inv
<1>. QED BY <1>1, Invariance, PTL

\* f->ref counts the descriptors and the references about to be closed, whatever pipe(),
\* dup(), fork(), close() and exit() of any number of processes do and wherever they fail.
THEOREM RefCountsHolds ==
    Spec => []RefCounts
<1>1. Inv => RefCounts BY DEF Inv, RefInv
<1>. QED BY <1>1, Invariance, PTL

\* Nobody is left asleep beside bytes to read or room to write, save by a writer that was
\* killed in the middle of its write.
THEOREM NoSleepBesideDataHolds ==
    Spec => []NoSleepBesideData
<1>1. Inv => NoSleepBesideData
  <2>. SUFFICES ASSUME Inv, NEW p \in Proc
                PROVE  /\ pc[p] = "rsleep" /\ plock[Pipe(p)] = 0 =>
                            pipe[Pipe(p)].writeopen /\ (Empty(Pipe(p)) \/ quiet[Pipe(p)])
                       /\ pc[p] = "wsleep" /\ plock[Pipe(p)] = 0 =>
                            pipe[Pipe(p)].readopen /\ Full(Pipe(p))
    BY DEF NoSleepBesideData
  <2>1. PICK i : i = Pipe(p) OBVIOUS
  <2>. QED BY <2>1, SleepersFree DEF Asleep
<1>. QED BY <1>1, Invariance, PTL

\* The owners of an end, counted.
LEMMA OwnersCount ==
    ASSUME Inv, NEW i \in Pages, NEW w \in BOOLEAN,
           NEW F, F = {f \in File : ref[f] > 0 /\ end[f] = <<i, w>>},
           NEW P, P = {p \in Proc : ff[p] = <<i, w>>}
    PROVE  Cardinality(F) + Cardinality(P) = IF Held(<<i, w>>) THEN 1 ELSE 0
<1>1. TypeOK /\ OwnerInv /\ RefInv BY DEF Inv
<1>2. <<i, w>> # None BY PairIsEnd
<1>3. Cardinality({}) = 0 BY FS_EmptySet
<1>4. \A f \in File : end[f] = <<i, w>> => ref[f] > 0
  <2>. SUFFICES ASSUME NEW f \in File, end[f] = <<i, w>> PROVE ref[f] > 0 OBVIOUS
  <2>1. ref[f] # 0 BY <1>1, <1>2 DEF RefInv
  <2>2. ref[f] \in Nat BY <1>1, Types
  <2>. QED BY <2>1, <2>2
<1>5. ASSUME NEW f \in File, end[f] = <<i, w>>
      PROVE  Cardinality(F) + Cardinality(P) = 1 /\ Held(<<i, w>>)
  <2>1. F = {f} BY <1>1, <1>2, <1>4, <1>5 DEF OwnerInv
  <2>2. P = {} BY <1>1, <1>2, <1>5 DEF OwnerInv
  <2>3. Cardinality({f}) = 1 BY FS_Singleton
  <2>4. Cardinality(F) = 1 BY <2>1, <2>3, Zenon
  <2>5. Cardinality(P) = 0 BY <1>3, <2>2, Zenon
  <2>6. Held(<<i, w>>) BY <1>5 DEF Held
  <2>. QED BY <2>4, <2>5, <2>6
<1>6. ASSUME NEW p \in Proc, ff[p] = <<i, w>>
      PROVE  Cardinality(F) + Cardinality(P) = 1 /\ Held(<<i, w>>)
  <2>1. F = {} BY <1>1, <1>2, <1>6 DEF OwnerInv
  <2>2. P = {p} BY <1>1, <1>2, <1>6 DEF OwnerInv
  <2>3. Cardinality({p}) = 1 BY FS_Singleton
  <2>4. Cardinality(F) = 0 BY <1>3, <2>1, Zenon
  <2>5. Cardinality(P) = 1 BY <2>2, <2>3, Zenon
  <2>6. Held(<<i, w>>) BY <1>6 DEF Held
  <2>. QED BY <2>4, <2>5, <2>6
<1>7. CASE ~Held(<<i, w>>)
  <2>1. F = {} /\ P = {} BY <1>7 DEF Held
  <2>2. Cardinality(F) = 0 /\ Cardinality(P) = 0 BY <1>3, <2>1, Zenon
  <2>. QED BY <1>7, <2>2
<1>8. CASE Held(<<i, w>>)
  <2>1. (\E f \in File : end[f] = <<i, w>>) \/ (\E p \in Proc : ff[p] = <<i, w>>)
    BY <1>8 DEF Held
  <2>2. Cardinality(F) + Cardinality(P) = 1 BY <1>5, <1>6, <2>1
  <2>. QED BY <1>8, <2>2
<1>. QED BY <1>7, <1>8

\* An end of a pipe is open exactly while one file, or one pipeclose() to come, refers to it:
\* no page is freed under a reader or a writer, none is leaked or freed twice.
THEOREM OneOwnerHolds ==
    Spec => []OneOwner
<1>1. Inv => OneOwner
  <2>. SUFFICES ASSUME Inv, NEW i \in Pages, NEW w \in BOOLEAN
                PROVE  Cardinality({f \in File : ref[f] > 0 /\ end[f] = <<i, w>>})
                       + Cardinality({p \in Proc : ff[p] = <<i, w>>})
                       = IF IF w THEN pipe[i].writeopen ELSE pipe[i].readopen THEN 1 ELSE 0
    BY DEF OneOwner
  <2>1. PICK F : F = {f \in File : ref[f] > 0 /\ end[f] = <<i, w>>} OBVIOUS
  <2>2. PICK P : P = {p \in Proc : ff[p] = <<i, w>>} OBVIOUS
  <2>3. Cardinality(F) + Cardinality(P) = IF Held(<<i, w>>) THEN 1 ELSE 0
    BY <2>1, <2>2, OwnersCount
  <2>4. Held(<<i, w>>) <=> IF w THEN pipe[i].writeopen ELSE pipe[i].readopen
    <3>1. CASE w = TRUE BY <3>1 DEF Inv, OwnerInv
    <3>2. CASE w = FALSE BY <3>2 DEF Inv, OwnerInv
    <3>. QED BY <3>1, <3>2
  <2>5. CASE Held(<<i, w>>) BY <2>1, <2>2, <2>3, <2>4, <2>5
  <2>6. CASE ~Held(<<i, w>>) BY <2>1, <2>2, <2>3, <2>4, <2>6
  <2>. QED BY <2>5, <2>6
<1>. QED BY <1>1, Invariance, PTL

----------------------------------------------------------------------------
(* The bytes of a ring are a queue                                         *)

\* Quotient and remainder.
LEMMA DivMod ==
    ASSUME NEW n \in Nat, n > 0, NEW x \in Int
    PROVE  /\ x \div n \in Int /\ x % n \in 0 .. n - 1
           /\ x = n * (x \div n) + (x % n)
<1>1. x % n \in 0 .. n - 1 OBVIOUS
<1>2. x \div n \in Int OBVIOUS
<1>3. x = n * (x \div n) + (x % n) BY SMTT(20)
<1>. QED BY <1>1, <1>2, <1>3

\* They are the only ones.
LEMMA ModIs ==
    ASSUME NEW n \in Nat, n > 0, NEW q \in Int, NEW m \in 0 .. n - 1
    PROVE  (n * q + m) % n = m
OBVIOUS

\* Multiplication distributes, said once for the solver.
LEMMA Factor ==
    ASSUME NEW n \in Int, NEW q \in Int, NEW p \in Int
    PROVE  n * (q + p) = n * q + n * p
OBVIOUS

\* Counters that differ by UINT mean the same place, as UINT is a multiple of the size.
LEMMA SlotWraps ==
    ASSUME NEW i \in Int
    PROVE  (i + UINT) % PIPESIZE = i % PIPESIZE
<1>. DEFINE N == PIPESIZE
<1>1. N \in Nat /\ N > 0 /\ UINT \in Nat BY Consts
<1>2. PICK p \in Int : UINT = N * p
  <2>1. UINT % N = 0 BY FilesAssumption
  <2>2. UINT \div N \in Int /\ UINT = N * (UINT \div N) + (UINT % N)
    BY <1>1, DivMod
  <2>3. N * (UINT \div N) \in Int BY <1>1, <2>2
  <2>4. UINT = N * (UINT \div N) BY <2>1, <2>2, <2>3
  <2>. QED BY <2>2, <2>4
<1>3. PICK q \in Int, m \in 0 .. N - 1 : i = N * q + m /\ i % N = m
  BY <1>1, DivMod
<1>. HIDE DEF N
<1>4. i + UINT = N * (q + p) + m
  <2>1. N * (q + p) = N * q + N * p BY <1>1, Factor
  <2>2. N * q \in Int /\ N * p \in Int /\ m \in Int BY <1>1
  <2>. QED BY <1>2, <1>3, <2>1, <2>2
<1>5. (N * (q + p) + m) % N = m
  <2>. q + p \in Int OBVIOUS
  <2>. QED BY <1>1, ModIs
<1>. QED BY <1>3, <1>4, <1>5 DEF N

\* Counters less than the size apart mean different places.
LEMMA SlotsApart ==
    ASSUME NEW i \in Int, NEW k \in 1 .. PIPESIZE - 1
    PROVE  (i + k) % PIPESIZE # i % PIPESIZE
<1>. DEFINE N == PIPESIZE
<1>1. N \in Nat /\ N > 0 BY Consts
<1>2. PICK q \in Int, m \in 0 .. N - 1 : i = N * q + m /\ i % N = m
  BY <1>1, DivMod
<1>3. k \in 1 .. N - 1 OBVIOUS
<1>. HIDE DEF N
<1>4. N * q \in Int BY <1>1
<1>5. CASE m + k < N
  <2>1. m + k \in 0 .. N - 1 BY <1>1, <1>3, <1>5
  <2>2. i + k = N * q + (m + k) BY <1>2, <1>3, <1>4
  <2>3. (N * q + (m + k)) % N = m + k BY <1>1, <2>1, ModIs
  <2>4. (i + k) % N = m + k BY <2>2, <2>3
  <2>. QED BY <1>2, <1>3, <2>4 DEF N
<1>6. CASE m + k >= N
  <2>1. m + k - N \in 0 .. N - 1 BY <1>1, <1>3, <1>6
  <2>2. N * (q + 1) = N * q + N BY <1>1
  <2>3. i + k = N * (q + 1) + (m + k - N) BY <1>1, <1>2, <1>3, <1>4, <2>2
  <2>4. (N * (q + 1) + (m + k - N)) % N = m + k - N
    <3>. q + 1 \in Int OBVIOUS
    <3>. QED BY <1>1, <2>1, ModIs
  <2>5. (i + k) % N = m + k - N BY <2>3, <2>4
  <2>6. m + k - N # m BY <1>1, <1>3
  <2>. QED BY <1>2, <2>5, <2>6 DEF N
<1>. QED BY <1>1, <1>3, <1>5, <1>6

\* The n bytes of a ring from the counter r on.
Ring(r, n, d) == [k \in 1 .. n |-> d[(r + k - 1) % PIPESIZE]]

Ringdata == [0 .. PIPESIZE - 1 -> Bytes]

\* A place of the ring.
LEMMA SlotIn ==
    ASSUME NEW x \in Int
    PROVE  x % PIPESIZE \in 0 .. PIPESIZE - 1
BY Consts

\* They are a sequence of bytes.
LEMMA RingSeq ==
    ASSUME NEW r \in Nat, NEW n \in Nat, NEW d \in Ringdata
    PROVE  /\ Ring(r, n, d) \in Seq(Bytes) /\ Len(Ring(r, n, d)) = n
           /\ \A k \in 1 .. n : Ring(r, n, d)[k] = d[(r + k - 1) % PIPESIZE]
<1>1. \A k \in 1 .. n : d[(r + k - 1) % PIPESIZE] \in Bytes
  <2>1. \A k \in 1 .. n : r + k - 1 \in Int OBVIOUS
  <2>2. \A k \in 1 .. n : (r + k - 1) % PIPESIZE \in 0 .. PIPESIZE - 1 BY <2>1, SlotIn
  <2>. QED BY <2>2 DEF Ringdata
<1>. QED BY <1>1 DEF Ring

\* The place that nwrite means is the one after the bytes.
LEMMA WriteSlot ==
    ASSUME NEW r \in 0 .. UINT - 1, NEW w \in 0 .. UINT - 1, NEW n, n = Dist(r, w)
    PROVE  n \in Nat /\ w % PIPESIZE = (r + n) % PIPESIZE
<1>1. UINT \in Nat /\ UINT > 0 BY Consts
<1>2. n \in Nat /\ n = IF w >= r THEN w - r ELSE w - r + UINT
  <2>1. Dist(r, w) = IF w >= r THEN w - r ELSE w - r + UINT BY DistIs
  <2>2. Dist(r, w) \in 0 .. UINT - 1 BY DistIs
  <2>. QED BY <1>1, <2>1, <2>2
<1>3. CASE w >= r
  <2>1. w = r + n BY <1>1, <1>2, <1>3
  <2>. QED BY <1>2, <2>1
<1>4. CASE ~(w >= r)
  <2>1. w + UINT = r + n BY <1>1, <1>2, <1>4
  <2>2. (w + UINT) % PIPESIZE = w % PIPESIZE BY SlotWraps
  <2>. QED BY <1>2, <2>1, <2>2
<1>. QED BY <1>3, <1>4

\* A byte that is put into the ring is appended to the queue.
LEMMA RingPut ==
    ASSUME NEW r \in 0 .. UINT - 1, NEW w \in 0 .. UINT - 1, NEW n \in Nat, n < PIPESIZE,
           NEW d \in Ringdata, NEW b \in Bytes, NEW d2 \in Ringdata,
           w % PIPESIZE = (r + n) % PIPESIZE,
           d2[w % PIPESIZE] = b,
           \A x \in 0 .. PIPESIZE - 1 : x # w % PIPESIZE => d2[x] = d[x]
    PROVE  Ring(r, n + 1, d2) = Append(Ring(r, n, d), b)
<1>1. UINT \in Nat /\ UINT > 0 /\ PIPESIZE \in Nat /\ PIPESIZE > 0 /\ r \in Nat BY Consts
<1>2. n \in Nat /\ w % PIPESIZE = (r + n) % PIPESIZE OBVIOUS
<1>3. PICK c \in 0 .. PIPESIZE - 1 : c = w % PIPESIZE BY <1>1, SlotIn
<1>4. d2 \in Ringdata /\ d2[c] = b /\ \A x \in 0 .. PIPESIZE - 1 : x # c => d2[x] = d[x]
  BY <1>3
<1>5. PICK s \in Seq(Bytes) : s = Ring(r, n, d) BY <1>1, <1>2, RingSeq
<1>6. Len(s) = n /\ \A k \in 1 .. n : s[k] = d[(r + k - 1) % PIPESIZE]
  BY <1>1, <1>2, <1>5, RingSeq
<1>7. PICK t \in Seq(Bytes) : t = Ring(r, n + 1, d2)
  <2>1. n + 1 \in Nat BY <1>2
  <2>. QED BY <1>1, <1>4, <2>1, RingSeq
<1>8. Len(t) = n + 1 /\ \A k \in 1 .. n + 1 : t[k] = d2[(r + k - 1) % PIPESIZE]
  <2>1. PICK m \in Nat : m = n + 1 BY <1>2
  <2>2. PICK e \in Ringdata : e = d2 BY <1>4
  <2>3. t = Ring(r, m, e) BY <1>7, <2>1, <2>2
  <2>4. Len(Ring(r, m, e)) = m /\ \A k \in 1 .. m : Ring(r, m, e)[k] = e[(r + k - 1) % PIPESIZE]
    BY <1>1, RingSeq
  <2>5. Len(t) = m /\ \A k \in 1 .. m : t[k] = e[(r + k - 1) % PIPESIZE]
    BY <2>3, <2>4, Zenon
  <2>. QED BY <2>1, <2>2, <2>5
<1>9. PICK u \in Seq(Bytes) : u = Append(s, b) BY AppendProperties
<1>10. Len(u) = n + 1 /\ u[n + 1] = b /\ \A k \in 1 .. n : u[k] = s[k]
  BY <1>6, <1>9, AppendProperties
<1>11. ASSUME NEW k \in 1 .. n PROVE t[k] = u[k]
  <2>1. PICK x \in Int : x = r + k - 1 BY <1>1, <1>2
  <2>2. n - k + 1 \in 1 .. PIPESIZE - 1 BY <1>1, <1>2
  <2>3. (x + (n - k + 1)) % PIPESIZE # x % PIPESIZE BY <2>2, SlotsApart
  <2>4. x + (n - k + 1) = r + n BY <1>1, <1>2, <2>1
  <2>5. x % PIPESIZE # c BY <1>2, <1>3, <2>3, <2>4
  <2>6. x % PIPESIZE \in 0 .. PIPESIZE - 1 BY SlotIn
  <2>7. d2[x % PIPESIZE] = d[x % PIPESIZE] BY <1>4, <2>5, <2>6
  <2>8. k \in 1 .. n + 1 BY <1>2
  <2>9. t[k] = d2[x % PIPESIZE] /\ s[k] = d[x % PIPESIZE] BY <1>6, <1>8, <2>1, <2>8
  <2>. QED BY <1>10, <2>7, <2>9
<1>12. t[n + 1] = u[n + 1]
  <2>1. n + 1 \in 1 .. n + 1 /\ r + (n + 1) - 1 = r + n BY <1>1, <1>2
  <2>2. t[n + 1] = d2[(r + n) % PIPESIZE] BY <1>8, <2>1
  <2>. QED BY <1>2, <1>3, <1>4, <1>10, <2>2
<1>13. \A k \in 1 .. Len(t) : t[k] = u[k]
  <2>1. \A k \in 1 .. n + 1 : k \in 1 .. n \/ k = n + 1 BY <1>2
  <2>2. \A k \in 1 .. n + 1 : t[k] = u[k] BY <1>11, <1>12, <2>1
  <2>. QED BY <1>8, <2>2
<1>14. t = u BY <1>8, <1>10, <1>13, SeqEqual
<1>. QED BY <1>5, <1>7, <1>9, <1>14

\* A byte that is taken out of it is the first of the queue.
LEMMA RingGet ==
    ASSUME NEW r \in 0 .. UINT - 1, NEW n \in Nat, n # 0, NEW d \in Ringdata
    PROVE  Ring(r, n, d) # <<>> /\ Ring(Inc(r), n - 1, d) = Tail(Ring(r, n, d))
<1>1. UINT \in Nat /\ UINT > 0 /\ r \in Nat /\ n - 1 \in Nat BY Consts
<1>2. PICK r1 \in 0 .. UINT - 1 : r1 = Inc(r) /\ r1 = IF r + 1 = UINT THEN 0 ELSE r + 1
  BY IncIs
<1>3. r1 \in Nat BY <1>1
<1>4. PICK s \in Seq(Bytes) : s = Ring(r, n, d) BY <1>1, RingSeq
<1>5. Len(s) = n /\ \A k \in 1 .. n : s[k] = d[(r + k - 1) % PIPESIZE]
  BY <1>1, <1>4, RingSeq
<1>6. PICK t \in Seq(Bytes) : t = Ring(r1, n - 1, d) BY <1>1, <1>3, RingSeq
<1>7. Len(t) = n - 1 /\ \A k \in 1 .. n - 1 : t[k] = d[(r1 + k - 1) % PIPESIZE]
  BY <1>1, <1>3, <1>6, RingSeq
<1>8. s # <<>> BY <1>5
<1>9. PICK u \in Seq(Bytes) : u = Tail(s) BY <1>8, HeadTailProperties
<1>10. Len(u) = n - 1 /\ \A k \in 1 .. n - 1 : u[k] = s[k + 1]
  BY <1>5, <1>8, <1>9, HeadTailProperties
<1>11. ASSUME NEW k \in 1 .. n - 1 PROVE t[k] = u[k]
  <2>1. k + 1 \in 1 .. n BY <1>1
  <2>2. s[k + 1] = d[(r + (k + 1) - 1) % PIPESIZE] BY <1>5, <2>1
  <2>3. PICK x \in Int : x = r1 + k - 1 BY <1>3
  <2>4. PICK y \in Int : y = r + (k + 1) - 1 BY <1>1
  <2>5. x % PIPESIZE = y % PIPESIZE
    <3>1. CASE r + 1 # UINT
      <4>1. x = y BY <1>1, <1>2, <2>3, <2>4, <3>1
      <4>. QED BY <4>1
    <3>2. CASE r + 1 = UINT
      <4>1. x + UINT = y BY <1>1, <1>2, <2>3, <2>4, <3>2
      <4>2. (x + UINT) % PIPESIZE = x % PIPESIZE BY SlotWraps
      <4>. QED BY <4>1, <4>2
    <3>. QED BY <3>1, <3>2
  <2>6. t[k] = d[x % PIPESIZE] BY <1>7, <2>3
  <2>7. u[k] = d[y % PIPESIZE] BY <1>10, <2>2, <2>4
  <2>. QED BY <2>5, <2>6, <2>7
<1>12. t = u BY <1>7, <1>10, <1>11, SeqEqual
<1>. QED BY <1>2, <1>4, <1>6, <1>8, <1>9, <1>12

----------------------------------------------------------------------------
(* Pipes implement queues                                                  *)

Queue == [j \in Pages |-> Contents(j)]
Ropen == [j \in Pages |-> pipe[j].readopen]
Wopen == [j \in Pages |-> pipe[j].writeopen]

\* What is in a pipe.
LEMMA ContentsIs ==
    ASSUME NEW i \in Pages
    PROVE  Contents(i) = IF Used(i)
                         THEN Ring(pipe[i].nread, Dist(pipe[i].nread, pipe[i].nwrite), pipe[i].data)
                         ELSE <<>>
BY DEF Contents, Ring, Dist

\* The same after a step.
LEMMA ContentsIsNext ==
    ASSUME NEW i \in Pages
    PROVE  Contents(i)' = IF Used(i)'
                          THEN Ring(pipe'[i].nread, Dist(pipe'[i].nread, pipe'[i].nwrite),
                                    pipe'[i].data)
                          ELSE <<>>
BY DEF Contents, Ring, Dist

\* A step that changes one pipe changes one queue.
LEMMA OneQueue ==
    ASSUME NEW i \in Pages, \A j \in Pages \ {i} : pipe'[j] = pipe[j]
    PROVE  /\ Queue' = [Queue EXCEPT ![i] = Contents(i)']
           /\ Ropen' = [Ropen EXCEPT ![i] = pipe'[i].readopen]
           /\ Wopen' = [Wopen EXCEPT ![i] = pipe'[i].writeopen]
           /\ Queue[i] = Contents(i) /\ Ropen[i] = pipe[i].readopen /\ Wopen[i] = pipe[i].writeopen
<1>1. \A j \in Pages \ {i} : Contents(j)' = Contents(j) BY DEF Contents, Used
<1>. QED BY <1>1 DEF Queue, Ropen, Wopen

\* Whoever reads or writes a pipe finds its own end open.
LEMMA OwnEndOpen ==
    ASSUME Inv, NEW q \in Proc, pc[q] \in Calling
    PROVE  IF pc[q] \in Writing THEN pipe[Pipe(q)].writeopen ELSE pipe[Pipe(q)].readopen
<1>1. PICK i \in Pages : i = Pipe(q) BY CallFacts
<1>2. file[q] \in File /\ end[file[q]] = <<i, pc[q] \in Writing>> BY <1>1, CallFacts
<1>3. OwnerInv BY DEF Inv
<1>4. CASE pc[q] \in Writing
  <2>1. Held(<<i, TRUE>>) BY <1>2, <1>4 DEF Held
  <2>. QED BY <1>1, <1>3, <1>4, <2>1 DEF OwnerInv
<1>5. CASE pc[q] \notin Writing
  <2>1. (pc[q] \in Writing) = FALSE BY <1>5
  <2>2. Held(<<i, FALSE>>) BY <1>2, <2>1 DEF Held
  <2>. QED BY <1>1, <1>3, <1>5, <2>2 DEF OwnerInv
<1>. QED BY <1>4, <1>5

\* A step of the queues in terms of the three functions.
LEMMA QueueSteps ==
    ASSUME NEW i \in Pages, NEW b \in Bytes,
           \/ /\ Wopen[i] /\ Len(Queue[i]) < PIPESIZE
              /\ Queue' = [Queue EXCEPT ![i] = Append(Queue[i], b)]
              /\ UNCHANGED <<Ropen, Wopen>>
           \/ /\ Ropen[i] /\ Queue[i] # <<>> /\ Queue' = [Queue EXCEPT ![i] = Tail(Queue[i])]
              /\ UNCHANGED <<Ropen, Wopen>>
           \/ /\ ~Ropen[i] /\ ~Wopen[i] /\ Queue' = [Queue EXCEPT ![i] = <<>>]
              /\ Ropen' = [Ropen EXCEPT ![i] = TRUE] /\ Wopen' = [Wopen EXCEPT ![i] = TRUE]
           \/ /\ Ropen[i] /\ Ropen' = [Ropen EXCEPT ![i] = FALSE]
              /\ Queue' = IF Wopen[i] THEN Queue ELSE [Queue EXCEPT ![i] = <<>>]
              /\ UNCHANGED Wopen
           \/ /\ Wopen[i] /\ Wopen' = [Wopen EXCEPT ![i] = FALSE]
              /\ Queue' = IF Ropen[i] THEN Queue ELSE [Queue EXCEPT ![i] = <<>>]
              /\ UNCHANGED Ropen
    PROVE  Abstract!Next
BY DEF Abstract!Next, Abstract!Create, Abstract!Put, Abstract!Get, Abstract!CloseRead,
       Abstract!CloseWrite, Queue, Ropen, Wopen

\* A step that leaves the pipes alone leaves the queues alone.
LEMMA SameQueues ==
    ASSUME pipe' = pipe
    PROVE  UNCHANGED Abstract!vars
BY DEF Abstract!vars, Contents, Used

\* pipewrite() puts a byte.
LEMMA Put_Refines ==
    ASSUME Inv, NEW p \in Proc, NEW b \in Bytes, WPut(p, b)
    PROVE  Abstract!Next
<1>1. TypeOK BY DEF Inv
<1>2. pc[p] = "wloop" /\ ~Full(Pipe(p)) BY DEF WPut
<1>3. pc[p] \in Calling /\ pc[p] \in Writing BY <1>2 DEF Calling, Writing
<1>4. PICK i \in Pages : i = Pipe(p) BY <1>3, CallFacts
<1>5. /\ \A j \in Pages \ {i} : pipe'[j] = pipe[j]
      /\ pipe'[i].readopen = pipe[i].readopen /\ pipe'[i].writeopen = pipe[i].writeopen
      /\ pipe'[i].nread = pipe[i].nread /\ pipe'[i].nwrite = Inc(pipe[i].nwrite)
      /\ pipe'[i].data = [pipe[i].data EXCEPT ![pipe[i].nwrite % PIPESIZE] = b]
  BY <1>1, <1>4, PutDoes
<1>6. pipe[i].writeopen BY <1>3, <1>4, OwnEndOpen
<1>7. PICK r \in 0 .. UINT - 1 : r = pipe[i].nread BY <1>1, PipeTypes
<1>8. PICK w \in 0 .. UINT - 1 : w = pipe[i].nwrite BY <1>1, PipeTypes
<1>9. PICK d \in Ringdata : d = pipe[i].data BY <1>1, PipeTypes DEF Ringdata
<1>10. PICK n : n = Dist(r, w) OBVIOUS
<1>11. n \in Nat /\ n < PIPESIZE /\ Dist(r, Inc(w)) = n + 1
  <2>1. n \in Nat /\ n <= PIPESIZE
    <3>1. Dist(r, w) \in 0 .. UINT - 1 BY DistIs
    <3>2. Dist(r, w) <= PIPESIZE BY <1>7, <1>8 DEF Inv, RingInv
    <3>. QED BY <1>10, <3>1, <3>2, Consts
  <2>2. n # PIPESIZE BY <1>2, <1>4, <1>7, <1>8, <1>10, FullIs DEF Full
  <2>3. n < PIPESIZE BY <2>1, <2>2, Consts
  <2>. QED BY <1>10, <2>1, <2>3, DistInc
<1>12. Contents(i) = Ring(r, n, d) BY <1>6, <1>7, <1>8, <1>9, <1>10, ContentsIs DEF Used
<1>13. Contents(i)' = Append(Ring(r, n, d), b)
  <2>1. PICK d2 : d2 = [d EXCEPT ![w % PIPESIZE] = b] OBVIOUS
  <2>2. Ring(r, n + 1, d2) = Append(Ring(r, n, d), b)
    <3>1. w % PIPESIZE \in 0 .. PIPESIZE - 1 BY SlotIn, Consts
    <3>2. PICK e \in Ringdata :
             /\ e = d2 /\ e[w % PIPESIZE] = b
             /\ \A x \in 0 .. PIPESIZE - 1 : x # w % PIPESIZE => e[x] = d[x]
      BY <2>1, <3>1 DEF Ringdata
    <3>3. w % PIPESIZE = (r + n) % PIPESIZE BY <1>10, <1>11, WriteSlot
    <3>4. Ring(r, n + 1, e) = Append(Ring(r, n, d), b) BY <1>11, <3>2, <3>3, RingPut
    <3>. QED BY <3>2, <3>4
  <2>3. Used(i)' BY <1>5, <1>6 DEF Used
  <2>4. Contents(i)' = Ring(pipe'[i].nread, Dist(pipe'[i].nread, pipe'[i].nwrite), pipe'[i].data)
    BY <2>3, ContentsIsNext
  <2>5. pipe'[i].nread = r /\ pipe'[i].nwrite = Inc(w) /\ pipe'[i].data = d2
    BY <1>5, <1>7, <1>8, <1>9, <2>1
  <2>6. Contents(i)' = Ring(r, Dist(r, Inc(w)), d2) BY <2>4, <2>5
  <2>. QED BY <1>11, <2>2, <2>6
<1>14. Len(Ring(r, n, d)) = n
  <2>1. r \in Nat BY Consts
  <2>. QED BY <1>11, <2>1, RingSeq
<1>15. /\ Queue' = [Queue EXCEPT ![i] = Append(Queue[i], b)]
       /\ Queue[i] = Ring(r, n, d)
       /\ Wopen[i] = pipe[i].writeopen
  BY <1>5, <1>12, <1>13, OneQueue
<1>16. UNCHANGED <<Ropen, Wopen>>
  <2>1. \A j \in Pages : pipe'[j].readopen = pipe[j].readopen /\ pipe'[j].writeopen = pipe[j].writeopen
    BY <1>5
  <2>. QED BY <2>1 DEF Ropen, Wopen
<1>17. Len(Queue[i]) < PIPESIZE BY <1>11, <1>14, <1>15
<1>. QED BY <1>6, <1>15, <1>16, <1>17, QueueSteps

\* piperead() gets one.
LEMMA Get_Refines ==
    ASSUME Inv, NEW p \in Proc, RGet(p)
    PROVE  Abstract!Next
<1>1. TypeOK BY DEF Inv
<1>2. pc[p] = "rloop" /\ ~Empty(Pipe(p)) BY DEF RGet
<1>3. pc[p] \in Calling /\ pc[p] \notin Writing BY <1>2 DEF Calling, Reading, Writing
<1>4. PICK i \in Pages : i = Pipe(p) BY <1>3, CallFacts
<1>5. /\ \A j \in Pages \ {i} : pipe'[j] = pipe[j]
      /\ pipe'[i].readopen = pipe[i].readopen /\ pipe'[i].writeopen = pipe[i].writeopen
      /\ pipe'[i].nread = Inc(pipe[i].nread) /\ pipe'[i].nwrite = pipe[i].nwrite
      /\ pipe'[i].data = pipe[i].data
  BY <1>1, <1>4, GetDoes
<1>6. pipe[i].readopen BY <1>3, <1>4, OwnEndOpen
<1>7. PICK r \in 0 .. UINT - 1 : r = pipe[i].nread BY <1>1, PipeTypes
<1>8. PICK w \in 0 .. UINT - 1 : w = pipe[i].nwrite BY <1>1, PipeTypes
<1>9. PICK d \in Ringdata : d = pipe[i].data BY <1>1, PipeTypes DEF Ringdata
<1>10. PICK n : n = Dist(r, w) OBVIOUS
<1>11. n \in Nat /\ n # 0 /\ Dist(Inc(r), w) = n - 1
  <2>1. Dist(r, w) \in 0 .. UINT - 1 BY DistIs
  <2>2. Dist(r, w) # 0 BY <1>2, <1>4, <1>7, <1>8, DistIs DEF Empty
  <2>3. Dist(Inc(r), w) = Dist(r, w) - 1 BY <2>2, DistInc
  <2>. QED BY <1>10, <2>1, <2>2, <2>3, Consts
<1>12. Contents(i) = Ring(r, n, d) BY <1>6, <1>7, <1>8, <1>9, <1>10, ContentsIs DEF Used
<1>13. Ring(r, n, d) # <<>> /\ Ring(Inc(r), n - 1, d) = Tail(Ring(r, n, d)) BY <1>11, RingGet
<1>14. Contents(i)' = Tail(Ring(r, n, d))
  <2>1. Used(i)' BY <1>5, <1>6 DEF Used
  <2>2. Contents(i)' = Ring(pipe'[i].nread, Dist(pipe'[i].nread, pipe'[i].nwrite), pipe'[i].data)
    BY <2>1, ContentsIsNext
  <2>3. Contents(i)' = Ring(Inc(r), Dist(Inc(r), w), d) BY <1>5, <1>7, <1>8, <1>9, <2>2
  <2>. QED BY <1>11, <1>13, <2>3
<1>15. /\ Queue' = [Queue EXCEPT ![i] = Tail(Queue[i])]
       /\ Queue[i] = Ring(r, n, d) /\ Ropen[i] = pipe[i].readopen
  BY <1>5, <1>12, <1>14, OneQueue
<1>16. UNCHANGED <<Ropen, Wopen>>
  <2>1. \A j \in Pages : pipe'[j].readopen = pipe[j].readopen /\ pipe'[j].writeopen = pipe[j].writeopen
    BY <1>5
  <2>. QED BY <2>1 DEF Ropen, Wopen
<1>17. JUNK \in Bytes BY FilesAssumption
<1>. QED BY <1>6, <1>13, <1>15, <1>16, <1>17, QueueSteps

\* An empty page holds an empty queue.
LEMMA NewContents ==
    ASSUME NEW i \in Pages, NEW r \in BOOLEAN, NEW w \in BOOLEAN, pipe'[i] = NewPage(r, w)
    PROVE  Contents(i)' = <<>>
<1>1. pipe'[i].nread = 0 /\ pipe'[i].nwrite = 0 BY NewPageType
<1>2. Dist(0, 0) = 0
  <2>1. 0 \in 0 .. UINT - 1 BY Consts
  <2>. QED BY <2>1, DistIs
<1>3. \A d : Ring(0, 0, d) = <<>> BY DEF Ring
<1>4. PICK d : d = pipe'[i].data OBVIOUS
<1>5. Contents(i)' = IF Used(i)' THEN Ring(0, Dist(0, 0), d) ELSE <<>>
  BY <1>1, <1>4, ContentsIsNext
<1>. QED BY <1>2, <1>3, <1>5

\* pipealloc() makes a queue.
LEMMA Create_Refines ==
    ASSUME Inv, NEW p \in Proc, NEW f \in File, NEW i \in Pages, NewPipe(p, f, i)
    PROVE  Abstract!Next
<1>1. PICK g \in File : Piped(p, f, i, g) BY NewPipeDoes
<1>2. /\ pipe'[i] = NewPage(TRUE, TRUE) /\ \A j \in Pages \ {i} : pipe'[j] = pipe[j]
      /\ ~pipe[i].readopen /\ ~pipe[i].writeopen
  BY <1>1 DEF Piped
<1>3. Contents(i)' = <<>> BY <1>2, NewContents
<1>4. pipe'[i].readopen = TRUE /\ pipe'[i].writeopen = TRUE BY <1>2, NewPageType
<1>5. /\ Queue' = [Queue EXCEPT ![i] = <<>>]
      /\ Ropen' = [Ropen EXCEPT ![i] = TRUE] /\ Wopen' = [Wopen EXCEPT ![i] = TRUE]
      /\ ~Ropen[i] /\ ~Wopen[i]
  BY <1>2, <1>3, <1>4, OneQueue
<1>6. JUNK \in Bytes BY FilesAssumption
<1>. QED BY <1>5, <1>6, QueueSteps

\* pipeclose() closes an end, and with the second one the queue is gone.
LEMMA Close_Refines ==
    ASSUME Inv, NEW p \in Proc, PipeClose(p)
    PROVE  Abstract!Next
<1>1. TypeOK /\ OwnerInv BY DEF Inv
<1>2. PICK i \in Pages, w \in BOOLEAN : ff[p] = <<i, w>> /\ i = ff[p][1] /\ w = ff[p][2]
  <2>1. ff[p] \in End \cup {None} /\ ff[p] # None BY <1>1, Types DEF PipeClose
  <2>. QED BY <2>1, EndIs
<1>3. pipe' = [pipe EXCEPT ![i] = Closed(i, w)] BY <1>2 DEF PipeClose
<1>4. pipe \in [Pages -> PipeType] /\ pipe[i] \in PipeType BY <1>1, CallTypes
<1>5. pipe'[i] = Closed(i, w) /\ \A j \in Pages \ {i} : pipe'[j] = pipe[j] BY <1>3, <1>4
<1>6. /\ pipe'[i].readopen <=> pipe[i].readopen /\ w
      /\ pipe'[i].writeopen <=> pipe[i].writeopen /\ ~w
      /\ pipe'[i] \in PipeType
      /\ IF (w /\ pipe[i].readopen) \/ (~w /\ pipe[i].writeopen)
         THEN /\ pipe'[i].nread = pipe[i].nread /\ pipe'[i].nwrite = pipe[i].nwrite
              /\ pipe'[i].data = pipe[i].data
         ELSE pipe'[i] = NewPage(FALSE, FALSE)
  <2>1. /\ Closed(i, w).readopen <=> pipe[i].readopen /\ w
        /\ Closed(i, w).writeopen <=> pipe[i].writeopen /\ ~w
        /\ Closed(i, w) \in PipeType
    BY <1>4, ClosedIs, Zenon
  <2>2. IF (w /\ pipe[i].readopen) \/ (~w /\ pipe[i].writeopen)
        THEN /\ Closed(i, w).nread = pipe[i].nread /\ Closed(i, w).nwrite = pipe[i].nwrite
             /\ Closed(i, w).data = pipe[i].data
        ELSE Closed(i, w) = NewPage(FALSE, FALSE)
    BY <1>4, ClosedIs, Zenon
  <2>. QED BY <1>5, <2>1, <2>2, Zenon
<1>7. Held(<<i, w>>) BY <1>2 DEF Held
<1>8. IF w THEN pipe[i].writeopen ELSE pipe[i].readopen
  <2>1. CASE w = TRUE BY <1>1, <1>7, <2>1 DEF OwnerInv
  <2>2. CASE w = FALSE BY <1>1, <1>7, <2>2 DEF OwnerInv
  <2>. QED BY <2>1, <2>2
<1>9. /\ Queue' = [Queue EXCEPT ![i] = Contents(i)']
      /\ Ropen' = [Ropen EXCEPT ![i] = pipe'[i].readopen]
      /\ Wopen' = [Wopen EXCEPT ![i] = pipe'[i].writeopen]
      /\ Queue[i] = Contents(i) /\ Ropen[i] = pipe[i].readopen /\ Wopen[i] = pipe[i].writeopen
  BY <1>5, OneQueue
<1>10. JUNK \in Bytes BY FilesAssumption
<1>11. /\ pipe[i].readopen \in BOOLEAN /\ pipe[i].writeopen \in BOOLEAN
       /\ pipe'[i].readopen \in BOOLEAN /\ pipe'[i].writeopen \in BOOLEAN
  BY <1>4, <1>6 DEF PipeType
<1>12. CASE (w /\ pipe[i].readopen) \/ (~w /\ pipe[i].writeopen)
  <2>1. Used(i) /\ Used(i)' BY <1>6, <1>12 DEF Used
  <2>2. Contents(i)' = Contents(i) BY <1>6, <1>12, <2>1 DEF Contents
  <2>3. Queue' = Queue BY <1>9, <2>2 DEF Queue
  <2>4. CASE w = TRUE
    <3>1. pipe'[i].readopen = pipe[i].readopen /\ pipe'[i].writeopen = FALSE
      BY <1>6, <1>11, <2>4
    <3>2. Ropen' = Ropen BY <1>9, <3>1 DEF Ropen
    <3>3. Wopen[i] /\ Ropen[i] /\ Wopen' = [Wopen EXCEPT ![i] = FALSE]
      BY <1>8, <1>9, <1>12, <2>4, <3>1
    <3>. QED BY <1>10, <2>3, <3>2, <3>3, QueueSteps
  <2>5. CASE w = FALSE
    <3>1. pipe'[i].writeopen = pipe[i].writeopen /\ pipe'[i].readopen = FALSE
      BY <1>6, <1>11, <2>5
    <3>2. Wopen' = Wopen BY <1>9, <3>1 DEF Wopen
    <3>3. Wopen[i] /\ Ropen[i] /\ Ropen' = [Ropen EXCEPT ![i] = FALSE]
      BY <1>8, <1>9, <1>12, <2>5, <3>1
    <3>. QED BY <1>10, <2>3, <3>2, <3>3, QueueSteps
  <2>. QED BY <2>4, <2>5
<1>13. CASE ~((w /\ pipe[i].readopen) \/ (~w /\ pipe[i].writeopen))
  <2>1. pipe'[i] = NewPage(FALSE, FALSE) BY <1>6, <1>13
  <2>2. Contents(i)' = <<>> BY <2>1, NewContents
  <2>3. Queue' = [Queue EXCEPT ![i] = <<>>] BY <1>9, <2>2
  <2>4. CASE w = TRUE
    <3>1. pipe'[i].readopen = pipe[i].readopen /\ pipe'[i].writeopen = FALSE
      BY <1>6, <1>11, <2>4
    <3>2. Ropen' = Ropen BY <1>9, <3>1 DEF Ropen
    <3>3. Wopen[i] /\ ~Ropen[i] /\ Wopen' = [Wopen EXCEPT ![i] = FALSE]
      BY <1>8, <1>9, <1>13, <2>4, <3>1
    <3>. QED BY <1>10, <2>3, <3>2, <3>3, QueueSteps
  <2>5. CASE w = FALSE
    <3>1. pipe'[i].writeopen = pipe[i].writeopen /\ pipe'[i].readopen = FALSE
      BY <1>6, <1>11, <2>5
    <3>2. Wopen' = Wopen BY <1>9, <3>1 DEF Wopen
    <3>3. ~Wopen[i] /\ Ropen[i] /\ Ropen' = [Ropen EXCEPT ![i] = FALSE]
      BY <1>8, <1>9, <1>13, <2>5, <3>1
    <3>. QED BY <1>10, <2>3, <3>2, <3>3, QueueSteps
  <2>. QED BY <2>4, <2>5
<1>. QED BY <1>12, <1>13

\* No page holds a pipe at first.
LEMMA Init_Refines ==
    ASSUME Init
    PROVE  Abstract!Init
<1>1. \A i \in Pages : ~pipe[i].readopen /\ ~pipe[i].writeopen BY NewPageType DEF Init
<1>2. \A i \in Pages : pipe[i].readopen = FALSE /\ pipe[i].writeopen = FALSE
  BY NewPageType DEF Init
<1>3. \A i \in Pages : Contents(i) = <<>> BY <1>1 DEF Contents, Used
<1>. QED BY <1>2, <1>3 DEF Abstract!Init

\* Every step is a step of the queues or leaves them alone.
LEMMA Next_Refines ==
    ASSUME Inv, [Next]_vars
    PROVE  [Abstract!Next]_Abstract!vars
<1>1. CASE UNCHANGED vars
  <2>1. pipe' = pipe BY <1>1 DEF vars
  <2>. QED BY <2>1, SameQueues
<1>2. ASSUME NEW p \in Proc, Kernel(p) PROVE Abstract!Next \/ pipe' = pipe
  <2>1. CASE PipeClose(p) BY <2>1, Close_Refines
  <2>2. ASSUME NEW f \in File, NEW i \in Pages, PipeOpened(p, f, i) \/ PipeUndone(p, f, i)
        PROVE  Abstract!Next
    <3>1. NewPipe(p, f, i) BY <2>2 DEF PipeOpened, PipeUndone
    <3>. QED BY <3>1, Create_Refines
  <2>3. ASSUME NEW b \in Bytes, WPut(p, b) PROVE Abstract!Next BY <2>3, Put_Refines
  <2>4. CASE RGet(p) BY <2>4, Get_Refines
  <2>5. CASE \/ FileClose(p) \/ ExitDone(p) \/ \E fd \in FD : ExitClose(p, fd)
             \/ PipeNoFile(p) \/ \E f \in File : PipeNoPage(p, f)
    BY <2>5 DEF FileClose, ExitDone, ExitClose, PipeNoFile, PipeNoPage
  <2>6. CASE \/ WAbort(p) \/ WFull(p) \/ WEnd(p) \/ RAbort(p) \/ REmpty(p) \/ REnd(p)
             \/ Sleep(p) \/ Acquire(p)
    BY <2>6 DEF WAbort, WFull, WEnd, RAbort, REmpty, REnd, Sleep, Acquire
  <2>. QED BY <1>2, <2>1, <2>2, <2>3, <2>4, <2>5, <2>6 DEF Kernel
<1>3. ASSUME NEW p \in Proc, User(p) \/ Kill(p) PROVE pipe' = pipe
  BY <1>3 DEF User, Exit, Fork, PipeFile0, Dup, Close, Read, Write, Kill
<1>4. CASE Next BY <1>2, <1>3, <1>4, SameQueues DEF Next
<1>. QED BY <1>1, <1>4

\* Rings with wrapping counters, shared by any number of readers and writers, implement
\* queues of at most PIPESIZE bytes with two ends.
THEOREM PipesAreQueues ==
    Spec => BytePipeSpec
<1>1. Init => Abstract!Init BY Init_Refines
<1>2. Inv /\ [Next]_vars => [Abstract!Next]_Abstract!vars BY Next_Refines
<1>. QED BY <1>1, <1>2, Invariance, PTL DEF Spec, BytePipeSpec, Abstract!Spec
=============================================================================
