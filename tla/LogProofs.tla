----------------------------- MODULE LogProofs -----------------------------
(***************************************************************************)
(* Proofs about module Log, for any finite set of processes, any blocks    *)
(* and any sizes of the log that hold one call.                            *)
(***************************************************************************)
EXTENDS Log, FiniteSetTheorems, TLAPS

\* The calls in progress, and the blocks reserved for them that they have not
\* used.
Ops == {p \in Proc : pc[p] \in {"op", "panic"}}

Reserved ==
    {x \in Proc \X (1 .. MAXOPBLOCKS) :
        /\ pc[x[1]] \in {"op", "panic"}
        /\ x[2] + Cardinality(wrote[x[1]]) <= MAXOPBLOCKS}

\* No block is named twice.
Distinct(s) == \A i, j \in 1 .. Len(s) : s[i] = s[j] => i = j

\* log.outstanding counts the calls, and what is reserved for them fits behind what
\* is logged.
SpaceInv ==
    /\ outstanding = Cardinality(Ops)
    /\ Len(lh) + Cardinality(Reserved) <= LOGBLOCKS

\* A call writes no more blocks than are reserved for it, everything it wrote is in the
\* log, and only with all of them written it may find the log full.
WroteInv ==
    \A p \in Proc :
        /\ IsFiniteSet(wrote[p]) /\ Cardinality(wrote[p]) <= MAXOPBLOCKS
        /\ \A b \in wrote[p] : Logged(b)
        /\ pc[p] \notin {"op", "panic"} => wrote[p] = {}
        /\ pc[p] = "panic" => Cardinality(wrote[p]) = MAXOPBLOCKS

\* Who runs when: commits are alone, nobody runs during recovery, and whoever
\* sleeps in begin_op() has someone to wake him.
TurnInv ==
    /\ committing <=> \E p \in Proc : pc[p] \in CommitPCs
    /\ committing => Ops = {}
    /\ \A p, q \in Proc : pc[p] \in CommitPCs /\ pc[q] \in CommitPCs => p = q
    /\ boot # "up" => \A p \in Proc : pc[p] = "idle"
    /\ \A p \in Proc : pc[p] = "asleep" => committing \/ Ops # {}
    /\ boot = "up" /\ ~committing /\ Ops = {} => lh = << >>

\* Where the loops over the log are.
LoopInv ==
    /\ \A p \in Proc :
        /\ pc[p] \in {"write_log", "install"} => tail <= Len(lh)
        /\ pc[p] \in {"write_head", "clear"} => tail = 1
        /\ pc[p] = "write_head" => lh # << >>
        /\ pc[p] = "finish" => lh = << >>
    /\ boot = "read_head" => tail = 1 /\ lh = << >>
    /\ boot = "install" => tail <= Len(lh)

\* Which copies of a block agree.
DataInv ==
    /\ Distinct(lh) /\ Distinct(head)
    /\ boot = "up" /\ (\A p \in Proc : pc[p] \notin {"install", "clear"}) => head = << >>
    /\ \A p \in Proc : pc[p] \in {"install", "clear"} => head = lh
    /\ boot \in {"install", "clear"} => head = lh
    /\ boot # "up" => cache = home
    /\ boot = "up" => \A b \in Block : ~Logged(b) => cache[b] = home[b]
    /\ \A p \in Proc, i \in 1 .. Len(lh) :
        (pc[p] = "write_log" /\ i < tail) \/ pc[p] \in {"write_head", "install", "clear"}
            => logdata[i] = cache[lh[i]]
    /\ \A p \in Proc, i \in 1 .. Len(lh) :
        (pc[p] = "install" /\ i < tail) \/ pc[p] = "clear" => home[lh[i]] = logdata[i]
    /\ \A i \in 1 .. Len(lh) :
        (boot = "install" /\ i < tail) \/ boot = "clear" => home[lh[i]] = logdata[i]

\* The blocks that log_write() pinned and install_trans() has not reached yet.
Pinned(b) ==
    /\ boot = "up"
    /\ \A p \in Proc : pc[p] # "clear"
    /\ \E i \in 1 .. Len(lh) : lh[i] = b /\ \A p \in Proc : pc[p] = "install" => tail <= i

PinInv == \A b \in Block : pins[b] = IF Pinned(b) THEN 1 ELSE 0

Inv == TypeOK /\ SpaceInv /\ WroteInv /\ TurnInv /\ LoopInv /\ DataInv /\ PinInv

----------------------------------------------------------------------------
(* Initial states, types                                                   *)

\* Every call in progress and every reserved block are finitely many.
LEMMA FiniteOps ==
    ASSUME TypeOK
    PROVE  /\ IsFiniteSet(Ops) /\ Cardinality(Ops) \in Nat
           /\ Cardinality(Ops) <= Cardinality(Proc)
           /\ IsFiniteSet(Reserved) /\ Cardinality(Reserved) \in Nat
           /\ Cardinality(Ops) = 0 <=> Ops = {}
  <1>1. IsFiniteSet(Ops) /\ Cardinality(Ops) <= Cardinality(Proc)
    <2>1. Ops \in SUBSET Proc BY DEF Ops
    <2> QED BY <2>1, ProcAssumption, FS_Subset
  <1>2. IsFiniteSet(Reserved)
    <2>1. IsFiniteSet(1 .. MAXOPBLOCKS) BY FS_Interval, SizeAssumption
    <2>2. IsFiniteSet(Proc \X (1 .. MAXOPBLOCKS)) BY <2>1, ProcAssumption, FS_Product
    <2>3. Reserved \in SUBSET (Proc \X (1 .. MAXOPBLOCKS)) BY DEF Reserved
    <2> QED BY <2>2, <2>3, FS_Subset
  <1> QED BY <1>1, <1>2, FS_CardinalityType, FS_EmptySet

\* The fresh disk satisfies the invariant.
LEMMA Init_Inv == Init => Inv
  <1> SUFFICES ASSUME Init PROVE Inv OBVIOUS
  <1>1. Ops = {} /\ Reserved = {} BY DEF Init, Ops, Reserved
  <1>2. Cardinality(Ops) = 0 /\ Cardinality(Reserved) = 0 BY <1>1, FS_EmptySet
  <1>3. Cardinality(Proc) \in Nat BY ProcAssumption, FS_CardinalityType
  <1>4. TypeOK
    <2>1. << >> \in Seq(Block) /\ Len(<< >>) = 0 OBVIOUS
    <2>2. 0 \in Val /\ 0 \in 0 .. MaxOps /\ 0 \in 0 .. MaxCrashes
      BY SizeAssumption, BoundAssumption DEF Val
    <2>3. /\ home \in [Block -> Val] /\ cache \in [Block -> Val] /\ pins \in [Block -> Nat]
          /\ logdata \in [1 .. LOGBLOCKS -> Val]
      BY <2>2 DEF Init
    <2>4. head \in Seq(Block) /\ Len(head) <= LOGBLOCKS /\ lh \in Seq(Block) /\ Len(lh) <= LOGBLOCKS
      BY <2>1, SizeAssumption DEF Init
    <2>5. /\ pc \in [Proc -> {"idle", "begin", "asleep", "op", "panic"} \cup CommitPCs]
          /\ wrote \in [Proc -> SUBSET Block]
          /\ id \in [Proc -> Val]
      BY <2>2 DEF Init
    <2>6. outstanding \in 0 .. Cardinality(Proc) /\ tail \in 1 .. LOGBLOCKS + 1
      BY <1>3, SizeAssumption DEF Init
    <2> QED BY <2>2, <2>3, <2>4, <2>5, <2>6 DEF Init, TypeOK
  <1>5. SpaceInv /\ WroteInv
    <2>1. SpaceInv BY <1>2, SizeAssumption DEF Init, SpaceInv
    <2>2. IsFiniteSet({}) /\ Cardinality({}) = 0 BY FS_EmptySet
    <2>3. \A p \in Proc : wrote[p] = {} /\ pc[p] = "idle" BY DEF Init
    <2> QED BY <2>1, <2>2, <2>3, SizeAssumption DEF WroteInv
  <1>6. TurnInv BY <1>1 DEF Init, TurnInv, CommitPCs
  <1>7. LoopInv BY DEF Init, LoopInv
  <1>8. DataInv BY DEF Init, DataInv, Distinct
  <1>9. PinInv BY DEF Init, PinInv, Pinned
  <1> QED BY <1>4, <1>5, <1>6, <1>7, <1>8, <1>9 DEF Inv

\* The cardinality of what a call wrote is a number.
LEMMA WroteFinite ==
    ASSUME WroteInv, NEW p \in Proc
    PROVE  IsFiniteSet(wrote[p]) /\ Cardinality(wrote[p]) \in Nat /\ Cardinality(wrote[p]) <= MAXOPBLOCKS
  <1>1. IsFiniteSet(wrote[p]) /\ Cardinality(wrote[p]) <= MAXOPBLOCKS BY DEF WroteInv
  <1> QED BY <1>1, FS_CardinalityType

\* A call that has not used up what begin_op() reserved for it finds room in the
\* log, and log.outstanding counts it.
LEMMA Room ==
    ASSUME TypeOK, SpaceInv, WroteInv, NEW p \in Proc, pc[p] = "op",
           Cardinality(wrote[p]) < MAXOPBLOCKS
    PROVE  ~TooBig
  <1>1. <<p, 1>> \in Reserved /\ p \in Ops
    <2>1. 1 \in 1 .. MAXOPBLOCKS BY SizeAssumption
    <2>2. 1 + Cardinality(wrote[p]) <= MAXOPBLOCKS BY WroteFinite, SizeAssumption
    <2> QED BY <2>1, <2>2 DEF Reserved, Ops
  <1>2. Cardinality(Reserved) \in Nat \ {0} /\ Cardinality(Ops) \in Nat \ {0}
    BY <1>1, FiniteOps, FS_EmptySet
  <1>3. Len(lh) \in Nat BY DEF TypeOK
  <1> QED BY <1>2, <1>3, SizeAssumption DEF SpaceInv, TooBig

\* log_write() panics only for a block that the call has logged before, and only when
\* the call has written as many blocks as are reserved for it.
LEMMA PanicsAbsorbing ==
    ASSUME TypeOK, SpaceInv, WroteInv, NEW p \in Proc, NEW b \in Block, MayWrite(p, b), TooBig
    PROVE  Logged(b) /\ Cardinality(wrote[p]) = MAXOPBLOCKS
  <1>1. pc[p] = "op" /\ (b \in wrote[p] \/ Cardinality(wrote[p]) < MAXOPBLOCKS) BY DEF MayWrite
  <1>2. ~(Cardinality(wrote[p]) < MAXOPBLOCKS) BY <1>1, Room
  <1>3. Cardinality(wrote[p]) \in Nat /\ Cardinality(wrote[p]) <= MAXOPBLOCKS BY WroteFinite
  <1>4. b \in wrote[p] /\ Cardinality(wrote[p]) = MAXOPBLOCKS BY <1>1, <1>2, <1>3, SizeAssumption
  <1> QED BY <1>4 DEF WroteInv

\* A block the loop of a commit or of recovery is at is one of the log's, and
\* so is the next one.
LEMMA TailInLog ==
    ASSUME TypeOK, LoopInv,
           boot = "install" \/ \E p \in Proc : pc[p] \in {"write_log", "install"}
    PROVE  /\ tail \in 1 .. Len(lh) /\ tail \in 1 .. LOGBLOCKS /\ lh[tail] \in Block
           /\ (IF tail < Len(lh) THEN tail + 1 ELSE 1) \in 1 .. Len(lh)
           /\ (IF tail < Len(lh) THEN tail + 1 ELSE 1) \in 1 .. LOGBLOCKS + 1
  <1> USE SizeAssumption DEF TypeOK
  <1>1. Len(lh) \in Nat /\ tail \in Nat /\ tail >= 1 /\ tail <= Len(lh) /\ Len(lh) <= LOGBLOCKS
    BY DEF LoopInv
  <1>2. tail \in 1 .. Len(lh) BY <1>1
  <1>3. lh[tail] \in Block BY <1>2
  <1> HIDE DEF TypeOK
  <1> QED BY <1>1, <1>2, <1>3

\* Every step keeps the types.
LEMMA Next_Type ==
    ASSUME Inv, [Next]_vars PROVE TypeOK'
  <1> USE SizeAssumption, BoundAssumption DEF TypeOK
  <1>a. TypeOK /\ LoopInv /\ SpaceInv /\ PinInv /\ DataInv /\ TurnInv BY DEF Inv
  <1>b. Cardinality(Proc) \in Nat BY ProcAssumption, FS_CardinalityType
  <1>c. outstanding = Cardinality(Ops) /\ IsFiniteSet(Ops) /\ Cardinality(Ops) \in Nat
    BY <1>a, FiniteOps DEF SpaceInv
  <1>1. ASSUME NEW p \in Proc, Call(p) PROVE TypeOK'
    <2>1. ops + 1 \in Val /\ ops + 1 \in 0 .. MaxOps BY <1>1, <1>a DEF Call, Val
    <2> QED BY <1>1, <1>a, <2>1 DEF Call, Goto, disk
  <1>2. ASSUME NEW p \in Proc, BeginSleep(p) PROVE TypeOK'
    BY <1>2, <1>a DEF BeginSleep, Goto, disk
  <1>3. ASSUME NEW p \in Proc, BeginOp(p) PROVE TypeOK'
    <2>1. p \in Proc /\ p \notin Ops BY <1>3 DEF BeginOp, Ops
    <2>2. Cardinality(Ops \cup {p}) = Cardinality(Ops) + 1 BY <1>c, <2>1, FS_AddElement
    <2>3. Ops \cup {p} \in SUBSET Proc BY DEF Ops
    <2>4. Cardinality(Ops \cup {p}) <= Cardinality(Proc) BY <2>3, ProcAssumption, FS_Subset
    <2>5. outstanding' \in 0 .. Cardinality(Proc) BY <1>3, <1>b, <1>c, <2>2, <2>4 DEF BeginOp
    <2>6. wrote' \in [Proc -> SUBSET Block] BY <1>3, <1>a DEF BeginOp
    <2>7. pc' \in [Proc -> {"idle", "begin", "asleep", "op", "panic"} \cup CommitPCs]
      BY <1>3, <1>a DEF BeginOp, Goto
    <2> QED BY <1>3, <1>a, <2>5, <2>6, <2>7 DEF BeginOp, disk
  <1>4. ASSUME NEW p \in Proc, NEW b \in Block, LogWrite(p, b) PROVE TypeOK'
    <2>1. lh' \in Seq(Block) /\ pins' \in [Block -> Nat]
      <3>1. Append(lh, b) \in Seq(Block) BY <1>a
      <3>2. [pins EXCEPT ![b] = @ + 1] \in [Block -> Nat] BY <1>a
      <3>3. \/ UNCHANGED <<lh, pins>>
            \/ lh' = Append(lh, b) /\ pins' = [pins EXCEPT ![b] = @ + 1]
        BY <1>4 DEF LogWrite
      <3>4. lh' = lh \/ lh' = Append(lh, b) BY <3>3
      <3>5. pins' = pins \/ pins' = [pins EXCEPT ![b] = @ + 1] BY <3>3
      <3>6. lh' \in Seq(Block) BY <1>a, <3>1, <3>4
      <3>7. pins' \in [Block -> Nat] BY <1>a, <3>2, <3>5
      <3> QED BY <3>6, <3>7
    <2>2. wrote' \in [Proc -> SUBSET Block]
      <3>1. CASE TooBig
        <4>1. wrote' = wrote BY <1>4, <3>1 DEF LogWrite
        <4> QED BY <1>a, <4>1
      <3>2. CASE ~TooBig
        <4>1. wrote' = [wrote EXCEPT ![p] = @ \cup {b}] BY <1>4, <3>2, Zenon DEF LogWrite
        <4>2. wrote[p] \cup {b} \in SUBSET Block BY <1>a
        <4> QED BY <1>a, <4>1, <4>2
      <3> QED BY <3>1, <3>2
    <2>3. cache' \in [Block -> Val] BY <1>4, <1>a DEF LogWrite
    <2>4. Len(lh') <= LOGBLOCKS
      <3>1. lh' = lh \/ (Len(lh) < LOGBLOCKS /\ lh' = Append(lh, b))
        BY <1>4, <1>a DEF LogWrite, TooBig
      <3>2. Len(Append(lh, b)) = Len(lh) + 1 BY <1>a
      <3> QED BY <1>a, <3>1, <3>2
    <2>5. pc' \in [Proc -> {"idle", "begin", "asleep", "op", "panic"} \cup CommitPCs]
      BY <1>4, <1>a DEF LogWrite, Goto
    <2> QED BY <1>4, <1>a, <2>1, <2>2, <2>3, <2>4, <2>5 DEF LogWrite, disk
  <1>5. ASSUME NEW p \in Proc, EndOp(p) PROVE TypeOK'
    <2>1. pc' \in [Proc -> {"idle", "begin", "asleep", "op", "panic"} \cup CommitPCs]
      BY <1>5, <1>a DEF EndOp, WakeLog
    <2>2. outstanding' \in 0 .. Cardinality(Proc) BY <1>5, <1>a, <1>b DEF EndOp
    <2>3. wrote' \in [Proc -> SUBSET Block] /\ id' \in [Proc -> Val]
      BY <1>5, <1>a DEF EndOp, Val
    <2> QED BY <1>5, <1>a, <2>1, <2>2, <2>3 DEF EndOp, disk
  <1>6. ASSUME NEW p \in Proc, EndLast(p) PROVE TypeOK'
    <2>1. pc' \in [Proc -> {"idle", "begin", "asleep", "op", "panic"} \cup CommitPCs]
      BY <1>6, <1>a DEF EndLast, Goto, CommitPCs
    <2>2. outstanding' \in 0 .. Cardinality(Proc) BY <1>6, <1>a, <1>b DEF EndLast
    <2>3. wrote' \in [Proc -> SUBSET Block] /\ id' \in [Proc -> Val]
      BY <1>6, <1>a DEF EndLast, Val
    <2> QED BY <1>6, <1>a, <2>1, <2>2, <2>3 DEF EndLast, disk
  <1>7. ASSUME NEW p \in Proc, WriteLog(p) PROVE TypeOK'
    <2>1. /\ tail \in 1 .. LOGBLOCKS /\ lh[tail] \in Block
          /\ (IF tail < Len(lh) THEN tail + 1 ELSE 1) \in 1 .. LOGBLOCKS + 1
      BY <1>7, <1>a, TailInLog DEF WriteLog
    <2>2. logdata' \in [1 .. LOGBLOCKS -> Val] BY <1>7, <1>a, <2>1 DEF WriteLog
    <2>3. pc' \in [Proc -> {"idle", "begin", "asleep", "op", "panic"} \cup CommitPCs]
      BY <1>7, <1>a DEF WriteLog, Goto, CommitPCs
    <2>4. tail' \in 1 .. LOGBLOCKS + 1 BY <1>7, <2>1 DEF WriteLog
    <2> QED BY <1>7, <1>a, <2>2, <2>3, <2>4 DEF WriteLog
  <1>8. ASSUME NEW p \in Proc, WriteHead(p) PROVE TypeOK'
    BY <1>8, <1>a DEF WriteHead, Goto, CommitPCs
  <1>9. ASSUME NEW p \in Proc, InstallTrans(p) PROVE TypeOK'
    <2>1. /\ tail \in 1 .. LOGBLOCKS /\ lh[tail] \in Block /\ tail \in 1 .. Len(lh)
          /\ (IF tail < Len(lh) THEN tail + 1 ELSE 1) \in 1 .. LOGBLOCKS + 1
      BY <1>9, <1>a, TailInLog DEF InstallTrans
    <2>2. home' \in [Block -> Val] /\ cache' \in [Block -> Val]
      BY <1>9, <1>a, <2>1 DEF InstallTrans
    <2>3. pc' \in [Proc -> {"idle", "begin", "asleep", "op", "panic"} \cup CommitPCs]
      BY <1>9, <1>a DEF InstallTrans, Goto, CommitPCs
    <2>4. tail' \in 1 .. LOGBLOCKS + 1 BY <1>9, <2>1 DEF InstallTrans
    <2>5. Pinned(lh[tail])
      <3>1. boot = "up" BY <1>9, <1>a DEF InstallTrans, TurnInv
      <3>2. \A q \in Proc : pc[q] # "clear"
        BY <1>9, <1>a DEF InstallTrans, TurnInv, CommitPCs
      <3>3. tail <= tail BY <2>1
      <3> QED BY <2>1, <3>1, <3>2, <3>3 DEF Pinned
    <2>6. pins[lh[tail]] = 1 BY <1>a, <2>1, <2>5 DEF PinInv
    <2>7. pins' \in [Block -> Nat] BY <1>9, <1>a, <2>1, <2>6 DEF InstallTrans
    <2> QED BY <1>9, <1>a, <2>2, <2>3, <2>4, <2>7 DEF InstallTrans
  <1>10. ASSUME NEW p \in Proc, ClearLog(p) PROVE TypeOK'
    <2>1. << >> \in Seq(Block) /\ Len(<< >>) = 0 OBVIOUS
    <2>2. pc' \in [Proc -> {"idle", "begin", "asleep", "op", "panic"} \cup CommitPCs]
      BY <1>10, <1>a DEF ClearLog, Goto, CommitPCs
    <2> QED BY <1>10, <1>a, <2>1, <2>2 DEF ClearLog
  <1>11. ASSUME NEW p \in Proc, FinishCommit(p) PROVE TypeOK'
    BY <1>11, <1>a DEF FinishCommit, WakeLog, disk
  <1>12. ASSUME NEW b \in Block, Recycle(b) PROVE TypeOK'
    BY <1>12, <1>a DEF Recycle, disk
  <1>13. CASE Crash
    <2>1. << >> \in Seq(Block) /\ Len(<< >>) = 0 OBVIOUS
    <2>2. 0 \in Val BY DEF Val
    <2>3. /\ cache' \in [Block -> Val] /\ pins' \in [Block -> Nat]
          /\ lh' \in Seq(Block) /\ Len(lh') <= LOGBLOCKS
      BY <1>13, <1>a, <2>1 DEF Crash
    <2>4. /\ pc' \in [Proc -> {"idle", "begin", "asleep", "op", "panic"} \cup CommitPCs]
          /\ wrote' \in [Proc -> SUBSET Block]
          /\ id' \in [Proc -> Val]
      BY <1>13, <2>2 DEF Crash
    <2>5. outstanding' \in 0 .. Cardinality(Proc) /\ crashes' \in 0 .. MaxCrashes
      BY <1>13, <1>a, <1>b DEF Crash
    <2>6. /\ home' \in [Block -> Val] /\ logdata' \in [1 .. LOGBLOCKS -> Val]
          /\ head' \in Seq(Block) /\ Len(head') <= LOGBLOCKS /\ ops' \in 0 .. MaxOps
      BY <1>13, <1>a DEF Crash, disk
    <2>7. committing' = FALSE /\ tail' = 1 /\ boot' = "read_head" BY <1>13 DEF Crash
    <2>8. tail' \in 1 .. LOGBLOCKS + 1 BY <2>7
    <2> QED BY <2>3, <2>4, <2>5, <2>6, <2>7, <2>8
  <1>14. CASE ReadHead BY <1>14, <1>a DEF ReadHead, disk
  <1>15. CASE RecoverInstall
    <2>1. /\ tail \in 1 .. LOGBLOCKS /\ lh[tail] \in Block
          /\ (IF tail < Len(lh) THEN tail + 1 ELSE 1) \in 1 .. LOGBLOCKS + 1
      BY <1>15, <1>a, TailInLog DEF RecoverInstall
    <2>2. home' \in [Block -> Val] /\ cache' \in [Block -> Val]
      BY <1>15, <1>a, <2>1 DEF RecoverInstall
    <2>3. tail' \in 1 .. LOGBLOCKS + 1 BY <1>15, <2>1 DEF RecoverInstall
    <2> QED BY <1>15, <1>a, <2>2, <2>3 DEF RecoverInstall
  <1>16. CASE RecoverClear
    <2>1. << >> \in Seq(Block) /\ Len(<< >>) = 0 OBVIOUS
    <2> QED BY <1>16, <1>a, <2>1 DEF RecoverClear
  <1>17. CASE UNCHANGED vars BY <1>17, <1>a DEF vars
  <1> HIDE DEF TypeOK
  <1> QED BY <1>1, <1>2, <1>3, <1>4, <1>5, <1>6, <1>7, <1>8, <1>9, <1>10, <1>11, <1>12,
             <1>13, <1>14, <1>15, <1>16, <1>17
          DEF Next, EndStep, CommitStep, Recover

----------------------------------------------------------------------------
(* Control                                                                 *)

\* begin_op() reserves MAXOPBLOCKS for a call before it lets it in, log_write() of
\* a block that is new to the call uses one of them up, end_op() gives the rest
\* back: what is reserved always fits behind what is logged.
LEMMA Next_Space ==
    ASSUME Inv, [Next]_vars PROVE SpaceInv'
  <1> USE SizeAssumption
  <1>a. TypeOK /\ SpaceInv /\ WroteInv /\ TurnInv /\ LoopInv BY DEF Inv
  <1>b. TypeOK' BY Next_Type
  <1>c. /\ IsFiniteSet(Ops) /\ Cardinality(Ops) \in Nat
        /\ IsFiniteSet(Reserved) /\ Cardinality(Reserved) \in Nat
        /\ Len(lh) \in Nat /\ Len(lh') \in Nat
        /\ outstanding = Cardinality(Ops)
        /\ Len(lh) + Cardinality(Reserved) <= LOGBLOCKS
    <2>1. Len(lh) \in Nat /\ Len(lh') \in Nat BY <1>a, <1>b DEF TypeOK
    <2>2. /\ outstanding = Cardinality(Ops)
          /\ Len(lh) + Cardinality(Reserved) <= LOGBLOCKS
      BY <1>a DEF SpaceInv
    <2> QED BY <1>a, <2>1, <2>2, FiniteOps
  <1>d. ASSUME Ops' = Ops, outstanding' = outstanding, Reserved' \in SUBSET Reserved,
               Len(lh') <= Len(lh)
        PROVE  SpaceInv'
    <2>1. Cardinality(Reserved') <= Cardinality(Reserved) /\ IsFiniteSet(Reserved')
      BY <1>c, <1>d, FS_Subset
    <2>2. Cardinality(Reserved') \in Nat BY <2>1, FS_CardinalityType
    <2> QED BY <1>c, <1>d, <2>1, <2>2 DEF SpaceInv
  <1>e. ASSUME UNCHANGED <<pc, wrote, outstanding, lh>> PROVE SpaceInv'
    BY <1>a, <1>e DEF SpaceInv, Ops, Reserved
  <1>f. ASSUME NEW p \in Proc, NEW l \in {"begin", "asleep"} \cup CommitPCs,
               pc[p] \notin {"op", "panic"}, Goto(p, l), UNCHANGED <<wrote, outstanding>>, Len(lh') <= Len(lh)
        PROVE  SpaceInv'
    <2>1. \A q \in Proc : pc'[q] \in {"op", "panic"} <=> pc[q] \in {"op", "panic"}
      BY <1>f, <1>a DEF Goto, TypeOK, CommitPCs
    <2>2. Ops' = Ops /\ Reserved' \in SUBSET Reserved BY <1>f, <2>1 DEF Ops, Reserved
    <2> QED BY <1>d, <1>f, <2>2
  <1>1. ASSUME NEW p \in Proc, Call(p) PROVE SpaceInv'
    BY <1>1, <1>c, <1>f DEF Call
  <1>2. ASSUME NEW p \in Proc, BeginSleep(p) PROVE SpaceInv'
    BY <1>2, <1>c, <1>f DEF BeginSleep
  <1>3. ASSUME NEW p \in Proc, BeginOp(p) PROVE SpaceInv'
    <2>1. p \notin Ops /\ Ops' = Ops \cup {p} BY <1>3, <1>a DEF BeginOp, Ops, Goto, TypeOK
    <2>2. IsFiniteSet(Ops') /\ Cardinality(Ops') = Cardinality(Ops) + 1
      BY <1>c, <2>1, FS_AddElement
    <2>3. Reserved' \in SUBSET (Ops' \X (1 .. MAXOPBLOCKS)) BY DEF Reserved, Ops
    <2>4. IsFiniteSet(1 .. MAXOPBLOCKS) /\ Cardinality(1 .. MAXOPBLOCKS) = MAXOPBLOCKS
      BY FS_Interval
    <2>5. /\ IsFiniteSet(Ops' \X (1 .. MAXOPBLOCKS))
          /\ Cardinality(Ops' \X (1 .. MAXOPBLOCKS)) = Cardinality(Ops') * MAXOPBLOCKS
      BY <2>2, <2>4, FS_Product
    <2>6. /\ Cardinality(Reserved') <= Cardinality(Ops') * MAXOPBLOCKS
          /\ IsFiniteSet(Reserved')
      BY <2>3, <2>5, FS_Subset
    <2>7. Cardinality(Reserved') \in Nat BY <2>6, FS_CardinalityType
    <2>8. outstanding' = Cardinality(Ops') /\ lh' = lh BY <1>3, <1>c, <2>2 DEF BeginOp
    <2>9. (outstanding + 1) * MAXOPBLOCKS = Cardinality(Ops') * MAXOPBLOCKS
      BY <1>c, <2>2
    <2>10. Len(lh) + Cardinality(Ops') * MAXOPBLOCKS <= LOGBLOCKS
      <3>1. ~(Len(lh) + (outstanding + 1) * MAXOPBLOCKS > LOGBLOCKS)
        BY <1>3 DEF BeginOp, MustWait
      <3>2. Cardinality(Ops') * MAXOPBLOCKS \in Nat BY <1>c, <2>2
      <3> QED BY <1>c, <2>9, <3>1, <3>2
    <2>11. Cardinality(Ops') * MAXOPBLOCKS \in Nat BY <1>c, <2>2
    <2> QED BY <1>c, <2>6, <2>7, <2>8, <2>10, <2>11 DEF SpaceInv
  <1>4. ASSUME NEW p \in Proc, NEW b \in Block, LogWrite(p, b) PROVE SpaceInv'
    <2>1. \A q \in Proc : pc'[q] \in {"op", "panic"} <=> pc[q] \in {"op", "panic"}
      BY <1>4, <1>a DEF LogWrite, MayWrite, Goto, TypeOK
    <2>2. Ops' = Ops /\ outstanding' = outstanding BY <1>4, <2>1 DEF LogWrite, Ops
    <2>3. CASE wrote'[p] = wrote[p]
      <3>1. wrote' = wrote BY <1>4, <1>a, <2>3 DEF LogWrite, TypeOK
      <3>2. Reserved' \in SUBSET Reserved BY <2>1, <3>1 DEF Reserved
      <3>3. lh' = lh
        <4>1. CASE TooBig BY <1>4, <4>1 DEF LogWrite
        <4>2. CASE ~TooBig
          <5>1. b \in wrote[p] BY <1>4, <1>a, <2>3, <4>2 DEF LogWrite, TypeOK
          <5> QED BY <1>4, <1>a, <4>2, <5>1 DEF LogWrite, WroteInv
        <4> QED BY <4>1, <4>2
      <3> QED BY <1>c, <1>d, <2>2, <3>2, <3>3
    <2>4. CASE wrote'[p] # wrote[p]
      <3>1. /\ ~TooBig /\ wrote' = [wrote EXCEPT ![p] = @ \cup {b}] /\ b \notin wrote[p]
            /\ Cardinality(wrote[p]) < MAXOPBLOCKS /\ pc[p] = "op"
        <4>1. ~TooBig BY <1>4, <2>4 DEF LogWrite
        <4>2. wrote' = [wrote EXCEPT ![p] = @ \cup {b}] BY <1>4, <4>1 DEF LogWrite
        <4>3. b \notin wrote[p]
          <5>1. wrote'[p] = wrote[p] \cup {b} BY <1>a, <4>2 DEF TypeOK
          <5> QED BY <2>4, <5>1
        <4> QED BY <1>4, <4>1, <4>2, <4>3 DEF LogWrite, MayWrite
      <3> DEFINE k == MAXOPBLOCKS - Cardinality(wrote[p])
      <3>2. IsFiniteSet(wrote[p]) /\ Cardinality(wrote[p]) \in Nat BY <1>a, WroteFinite
      <3>3. Cardinality(wrote'[p]) = Cardinality(wrote[p]) + 1
        <4>1. wrote'[p] = wrote[p] \cup {b} BY <3>1, <1>a DEF TypeOK
        <4> QED BY <3>1, <3>2, <4>1, FS_AddElement
      <3>4. k \in 1 .. MAXOPBLOCKS /\ k + Cardinality(wrote[p]) = MAXOPBLOCKS BY <3>1, <3>2
      <3> HIDE DEF k
      <3>5. <<p, k>> \in Reserved
        <4>1. k + Cardinality(wrote[p]) <= MAXOPBLOCKS BY <3>4
        <4> QED BY <3>1, <3>4, <4>1 DEF Reserved
      <3>6. Reserved' \in SUBSET (Reserved \ {<<p, k>>})
        <4>1. SUFFICES ASSUME NEW x \in Reserved'
                       PROVE  x \in Reserved /\ x # <<p, k>>
          OBVIOUS
        <4>2. /\ x \in Proc \X (1 .. MAXOPBLOCKS) /\ pc[x[1]] \in {"op", "panic"}
              /\ x[2] + Cardinality(wrote'[x[1]]) <= MAXOPBLOCKS
          BY <2>1 DEF Reserved
        <4>3. x[1] \in Proc /\ x[2] \in Nat /\ x = <<x[1], x[2]>> BY <4>2
        <4>4. CASE x[1] = p
          <5>1. x[2] + (Cardinality(wrote[p]) + 1) <= MAXOPBLOCKS BY <3>3, <4>2, <4>4
          <5>2. x[2] + Cardinality(wrote[p]) <= MAXOPBLOCKS BY <3>2, <4>3, <5>1
          <5>3. x[2] # k BY <3>2, <3>4, <4>3, <5>1
          <5>4. x \in Reserved BY <4>2, <4>4, <5>2 DEF Reserved
          <5> QED BY <5>3, <5>4
        <4>5. CASE x[1] # p
          <5>1. wrote'[x[1]] = wrote[x[1]] BY <3>1, <4>3, <4>5, <1>a DEF TypeOK
          <5> QED BY <4>2, <4>5, <5>1 DEF Reserved
        <4> QED BY <4>4, <4>5
      <3>7. /\ IsFiniteSet(Reserved \ {<<p, k>>})
            /\ Cardinality(Reserved \ {<<p, k>>}) = Cardinality(Reserved) - 1
        BY <1>c, <3>5, FS_RemoveElement
      <3>8. IsFiniteSet(Reserved') /\ Cardinality(Reserved') <= Cardinality(Reserved) - 1
        BY <3>6, <3>7, FS_Subset
      <3>9. Cardinality(Reserved') \in Nat BY <3>8, FS_CardinalityType
      <3>10. Len(lh') <= Len(lh) + 1
        <4>1. lh' = lh \/ lh' = Append(lh, b) BY <1>4 DEF LogWrite
        <4>2. Len(Append(lh, b)) = Len(lh) + 1 BY <1>a DEF TypeOK
        <4> QED BY <1>c, <4>1, <4>2
      <3> QED BY <1>c, <2>2, <3>8, <3>9, <3>10 DEF SpaceInv
    <2> QED BY <2>3, <2>4
  <1>5. ASSUME NEW p \in Proc, EndStep(p) PROVE SpaceInv'
    <2>1. p \in Ops BY <1>5 DEF EndStep, EndOp, EndLast, Ops
    <2>2. Ops' = Ops \ {p}
      <3>1. \A q \in Proc : pc'[q] \in {"op", "panic"} <=> pc[q] \in {"op", "panic"} /\ q # p
        <4>1. CASE EndOp(p) BY <4>1, <1>a DEF EndOp, WakeLog, TypeOK
        <4>2. CASE EndLast(p) BY <4>2, <1>a DEF EndLast, Goto, TypeOK
        <4> QED BY <1>5, <4>1, <4>2 DEF EndStep
      <3> QED BY <3>1 DEF Ops
    <2>3. Cardinality(Ops') = Cardinality(Ops) - 1 BY <1>c, <2>1, <2>2, FS_RemoveElement
    <2>4. outstanding' = outstanding - 1 /\ lh' = lh
      BY <1>5, <1>c DEF EndStep, EndOp, EndLast
    <2>5. Reserved' \in SUBSET Reserved
      <3>1. \A q \in Proc : q # p => wrote'[q] = wrote[q]
        BY <1>5, <1>a DEF EndStep, EndOp, EndLast, TypeOK
      <3>2. \A q \in Proc : pc'[q] \in {"op", "panic"} => pc[q] \in {"op", "panic"} /\ q # p
        BY <2>2 DEF Ops
      <3> QED BY <3>1, <3>2 DEF Reserved
    <2>6. Cardinality(Reserved') <= Cardinality(Reserved) /\ IsFiniteSet(Reserved')
      BY <1>c, <2>5, FS_Subset
    <2>7. Cardinality(Reserved') \in Nat BY <2>6, FS_CardinalityType
    <2> QED BY <1>c, <2>3, <2>4, <2>6, <2>7 DEF SpaceInv
  <1>6. ASSUME NEW p \in Proc, WriteLog(p) PROVE SpaceInv'
    BY <1>6, <1>c, <1>f DEF WriteLog, CommitPCs
  <1>7. ASSUME NEW p \in Proc, WriteHead(p) PROVE SpaceInv'
    BY <1>7, <1>c, <1>f DEF WriteHead, CommitPCs
  <1>8. ASSUME NEW p \in Proc, InstallTrans(p) PROVE SpaceInv'
    BY <1>8, <1>c, <1>f DEF InstallTrans, CommitPCs
  <1>9. ASSUME NEW p \in Proc, ClearLog(p) PROVE SpaceInv'
    <2>1. Len(lh') = 0 BY <1>9 DEF ClearLog
    <2> QED BY <1>9, <1>c, <1>f, <2>1 DEF ClearLog, CommitPCs
  <1>10. ASSUME NEW p \in Proc, FinishCommit(p) PROVE SpaceInv'
    <2>1. \A q \in Proc : pc'[q] \in {"op", "panic"} <=> pc[q] \in {"op", "panic"}
      BY <1>10, <1>a DEF FinishCommit, WakeLog, TypeOK
    <2>2. Ops' = Ops /\ Reserved' \in SUBSET Reserved
      BY <1>10, <2>1 DEF Ops, Reserved, FinishCommit
    <2> QED BY <1>10, <1>c, <1>d, <2>2 DEF FinishCommit
  <1>11. ASSUME NEW b \in Block, Recycle(b) PROVE SpaceInv' BY <1>11, <1>e DEF Recycle
  <1>12. ASSUME Ops' = {}, Reserved' = {}, outstanding' = 0 PROVE SpaceInv'
    <2>1. Cardinality(Ops') = 0 /\ Cardinality(Reserved') = 0 BY <1>12, FS_EmptySet
    <2>2. Len(lh') <= LOGBLOCKS BY <1>b DEF TypeOK
    <2> QED BY <1>12, <1>c, <2>1, <2>2 DEF SpaceInv
  <1>13. CASE Crash
    <2>1. \A q \in Proc : pc'[q] \notin {"op", "panic"} BY <1>13 DEF Crash
    <2> QED BY <1>12, <1>13, <2>1 DEF Crash, Ops, Reserved
  <1>14. CASE Recover
    <2>1. boot # "up" /\ UNCHANGED <<pc, wrote, outstanding>>
      BY <1>14 DEF Recover, ReadHead, RecoverInstall, RecoverClear
    <2>2. \A q \in Proc : pc[q] = "idle" BY <1>a, <2>1 DEF TurnInv
    <2>3. Ops = {} /\ Ops' = {} /\ Reserved' = {} BY <2>1, <2>2 DEF Ops, Reserved
    <2>4. outstanding' = 0 BY <1>c, <2>1, <2>3, FS_EmptySet
    <2> QED BY <1>12, <2>3, <2>4
  <1>15. CASE UNCHANGED vars BY <1>15, <1>e DEF vars
  <1> QED BY <1>1, <1>2, <1>3, <1>4, <1>5, <1>6, <1>7, <1>8, <1>9, <1>10, <1>11,
             <1>13, <1>14, <1>15
          DEF Next, CommitStep

\* Every step keeps what the calls wrote small and in the log.
LEMMA Next_Wrote ==
    ASSUME Inv, [Next]_vars PROVE WroteInv'
  <1> USE SizeAssumption
  <1>a. TypeOK /\ SpaceInv /\ WroteInv /\ TurnInv BY DEF Inv
  <1>d. pc \in [Proc -> {"idle", "begin", "asleep", "op", "panic"} \cup CommitPCs]
    BY <1>a DEF TypeOK
  <1>e. \A q \in Proc : wrote[q] \in SUBSET Block BY <1>a DEF TypeOK
  <1>0. IsFiniteSet({}) /\ Cardinality({}) = 0 BY FS_EmptySet
  \* a step that logs nothing and empties the log only when there is no call
  <1>f. ASSUME NEW p \in Proc, UNCHANGED wrote, lh' = lh \/ \A q \in Proc : wrote[q] = {},
               \A q \in Proc : q # p => pc'[q] \in {pc[q], "begin"}, pc'[p] # "panic",
               pc'[p] = "op" \/ wrote[p] = {},
               \A q \in Proc : pc'[q] \in {"op", "panic"} \/ pc[q] \notin {"op", "panic"}
        PROVE  WroteInv'
    <2>1. \A q \in Proc : \A b \in wrote'[q] : Logged(b)' BY <1>a, <1>f DEF WroteInv, Logged
    <2>2. \A q \in Proc : pc'[q] = "panic" => pc[q] = "panic" BY <1>f
    <2> QED BY <1>a, <1>f, <2>1, <2>2 DEF WroteInv
  <1>1. ASSUME NEW p \in Proc, Call(p) \/ BeginSleep(p) \/ BeginOp(p) PROVE WroteInv'
    <2>1. wrote[p] = {} BY <1>1, <1>a DEF WroteInv, Call, BeginSleep, BeginOp
    <2> QED BY <1>1, <1>d, <1>f, <2>1 DEF Call, BeginSleep, BeginOp, Goto
  <1>2. ASSUME NEW p \in Proc, NEW b \in Block, LogWrite(p, b) PROVE WroteInv'
    <2>1. CASE TooBig
      <3>1. UNCHANGED <<wrote, lh>> /\ Cardinality(wrote[p]) = MAXOPBLOCKS /\ pc[p] = "op"
            /\ pc' = [pc EXCEPT ![p] = "panic"]
        BY <1>2, <1>a, <2>1, PanicsAbsorbing DEF LogWrite, MayWrite, Goto
      <3> QED BY <1>a, <1>d, <3>1 DEF WroteInv, Logged
    <2>2. CASE ~TooBig
      <3>1. /\ wrote' = [wrote EXCEPT ![p] = @ \cup {b}] /\ UNCHANGED pc /\ pc[p] = "op"
            /\ b \in wrote[p] \/ Cardinality(wrote[p]) < MAXOPBLOCKS
            /\ IF Logged(b) THEN UNCHANGED lh ELSE lh' = Append(lh, b)
        BY <1>2, <2>2 DEF LogWrite, MayWrite
      <3>2. \A q \in Proc : wrote'[q] = IF q = p THEN wrote[q] \cup {b} ELSE wrote[q]
        BY <1>a, <3>1 DEF TypeOK
      <3>3. IsFiniteSet(wrote'[p]) /\ Cardinality(wrote'[p]) <= MAXOPBLOCKS
        <4>1. CASE b \in wrote[p]
          <5>1. wrote'[p] = wrote[p] BY <3>2, <4>1
          <5> QED BY <1>a, <5>1, WroteFinite
        <4>2. CASE b \notin wrote[p]
          <5>1. Cardinality(wrote[p] \cup {b}) = Cardinality(wrote[p]) + 1 /\ IsFiniteSet(wrote[p] \cup {b})
            BY <1>a, <4>2, WroteFinite, FS_AddElement
          <5>2. Cardinality(wrote[p]) \in Nat /\ Cardinality(wrote[p]) + 1 <= MAXOPBLOCKS
            BY <1>a, <3>1, <4>2, WroteFinite
          <5>3. wrote'[p] = wrote[p] \cup {b} BY <3>2
          <5> QED BY <5>1, <5>2, <5>3
        <4> QED BY <4>1, <4>2
      <3>4. \A c \in Block : Logged(c) \/ c = b => Logged(c)'
        <4>1. CASE Logged(b) BY <3>1, <4>1 DEF Logged
        <4>2. CASE ~Logged(b)
          <5>1. lh' = Append(lh, b) /\ lh \in Seq(Block) BY <1>a, <3>1, <4>2 DEF TypeOK
          <5>2. /\ Len(lh) \in Nat /\ Len(lh') = Len(lh) + 1 /\ lh'[Len(lh) + 1] = b
                /\ \A i \in 1 .. Len(lh) : lh'[i] = lh[i]
            BY <5>1
          <5> QED BY <5>2 DEF Logged
        <4> QED BY <4>1, <4>2
      <3>5. \A q \in Proc : \A c \in wrote'[q] : Logged(c)'
        BY <1>a, <1>e, <3>2, <3>4 DEF WroteInv
      <3> QED BY <1>a, <3>1, <3>2, <3>3, <3>5 DEF WroteInv
    <2> QED BY <2>1, <2>2
  <1>3. ASSUME NEW p \in Proc, EndStep(p) PROVE WroteInv'
    <2>1. lh' = lh /\ \A q \in Proc : wrote'[q] = IF q = p THEN {} ELSE wrote[q]
      BY <1>3, <1>a DEF EndStep, EndOp, EndLast, TypeOK
    <2>2. \A q \in Proc : q # p => pc'[q] = pc[q] \/ (pc[q] = "asleep" /\ pc'[q] = "begin")
      BY <1>3, <1>d DEF EndStep, EndOp, EndLast, WakeLog, Goto
    <2>3. pc'[p] \notin {"op", "panic"} BY <1>3, <1>d DEF EndStep, EndOp, EndLast, WakeLog, Goto
    <2>4. \A q \in Proc : \A c \in wrote'[q] : Logged(c)' BY <1>a, <2>1 DEF WroteInv, Logged
    <2> QED BY <1>0, <1>a, <2>1, <2>2, <2>3, <2>4 DEF WroteInv
  <1>4. ASSUME NEW p \in Proc, CommitStep(p) PROVE WroteInv'
    <2>1. pc[p] \in CommitPCs /\ pc'[p] \in CommitPCs \cup {"idle"} /\ wrote' = wrote
      BY <1>4, <1>d DEF CommitStep, WriteLog, WriteHead, InstallTrans, ClearLog, FinishCommit,
                        WakeLog, Goto, CommitPCs
    <2>2. \A q \in Proc : q # p => pc'[q] = pc[q] \/ (pc[q] = "asleep" /\ pc'[q] = "begin")
      BY <1>4, <1>d DEF CommitStep, WriteLog, WriteHead, InstallTrans, ClearLog, FinishCommit,
                        WakeLog, Goto, CommitPCs
    <2>3. Ops = {} BY <1>a, <2>1 DEF TurnInv
    <2>4. \A q \in Proc : wrote[q] = {} BY <1>a, <2>3 DEF WroteInv, Ops
    <2> QED BY <1>0, <1>a, <2>1, <2>2, <2>4 DEF WroteInv, CommitPCs
  <1>5. ASSUME NEW b \in Block, Recycle(b) PROVE WroteInv'
    BY <1>5, <1>a DEF Recycle, WroteInv, Logged
  <1>6. CASE Crash BY <1>0, <1>6 DEF Crash, WroteInv
  <1>7. CASE Recover
    <2>1. boot # "up" /\ UNCHANGED <<pc, wrote>>
      BY <1>7 DEF Recover, ReadHead, RecoverInstall, RecoverClear
    <2>2. \A q \in Proc : pc[q] = "idle" /\ wrote[q] = {} BY <1>a, <2>1 DEF TurnInv, WroteInv
    <2> QED BY <1>0, <2>1, <2>2 DEF WroteInv
  <1>8. CASE UNCHANGED vars BY <1>8, <1>a DEF vars, WroteInv, Logged
  <1> QED BY <1>1, <1>2, <1>3, <1>4, <1>5, <1>6, <1>7, <1>8 DEF Next

\* Every step keeps commits alone, recovery alone, and every sleeper with
\* somebody to wake him.
LEMMA Next_Turn ==
    ASSUME Inv, [Next]_vars PROVE TurnInv'
  <1> USE SizeAssumption DEF CommitPCs
  <1>a. TypeOK /\ SpaceInv /\ TurnInv /\ LoopInv BY DEF Inv
  <1>b. SpaceInv' /\ TypeOK' BY Next_Space, Next_Type
  <1>c. outstanding = Cardinality(Ops) /\ (outstanding = 0 <=> Ops = {})
    BY <1>a, FiniteOps DEF SpaceInv
  <1>d. pc \in [Proc -> {"idle", "begin", "asleep", "op", "panic"} \cup CommitPCs] BY <1>a DEF TypeOK
  <1>e. boot = "up" \/ \A q \in Proc : pc[q] = "idle" BY <1>a DEF TurnInv
  \* a step of a commit that does not leave it
  <1>f. ASSUME NEW p \in Proc, NEW l \in CommitPCs, pc[p] \in CommitPCs, Goto(p, l),
               UNCHANGED <<committing, boot>>
        PROVE  TurnInv'
    <2>1. \A q \in Proc : pc'[q] = IF q = p THEN l ELSE pc[q] BY <1>d, <1>f DEF Goto
    <2>2. committing BY <1>a, <1>f DEF TurnInv
    <2>3. Ops' = {} BY <1>a, <2>1, <2>2 DEF TurnInv, Ops
    <2>4. boot = "up" BY <1>e, <1>f
    <2>5. \A q, r \in Proc : pc'[q] \in CommitPCs /\ pc'[r] \in CommitPCs => q = r
      BY <1>a, <1>f, <2>1 DEF TurnInv
    <2> QED BY <1>f, <2>1, <2>2, <2>3, <2>4, <2>5 DEF TurnInv
  <1>1. ASSUME NEW p \in Proc, Call(p) PROVE TurnInv'
    <2>1. \A q \in Proc : pc'[q] = IF q = p THEN "begin" ELSE pc[q] BY <1>d, <1>1 DEF Call, Goto
    <2>2. Ops' = Ops BY <1>1, <2>1 DEF Ops, Call
    <2> QED BY <1>1, <1>a, <2>1, <2>2 DEF Call, TurnInv
  <1>2. ASSUME NEW p \in Proc, BeginSleep(p) PROVE TurnInv'
    <2>1. \A q \in Proc : pc'[q] = IF q = p THEN "asleep" ELSE pc[q]
      BY <1>d, <1>2 DEF BeginSleep, Goto
    <2>2. Ops' = Ops BY <1>2, <2>1 DEF Ops, BeginSleep
    <2>3. committing \/ Ops # {}
      <3>1. SUFFICES ASSUME ~committing, Ops = {} PROVE FALSE OBVIOUS
      <3>2. boot = "up" BY <1>2, <1>e DEF BeginSleep
      <3>3. lh = << >> BY <1>a, <3>1, <3>2 DEF TurnInv
      <3>4. Len(lh) = 0 /\ outstanding = 0 BY <1>c, <3>1, <3>3
      <3>5. Len(lh) + (outstanding + 1) * MAXOPBLOCKS > LOGBLOCKS
        BY <1>2, <3>1 DEF BeginSleep, MustWait
      <3> QED BY <3>4, <3>5
    <2> QED BY <1>2, <1>a, <1>e, <2>1, <2>2, <2>3 DEF BeginSleep, TurnInv
  <1>3. ASSUME NEW p \in Proc, BeginOp(p) PROVE TurnInv'
    <2>1. \A q \in Proc : pc'[q] = IF q = p THEN "op" ELSE pc[q] BY <1>d, <1>3 DEF BeginOp, Goto
    <2>2. Ops' # {} BY <2>1 DEF Ops
    <2>3. boot = "up" /\ ~committing BY <1>3, <1>e DEF BeginOp, MustWait
    <2> QED BY <1>3, <1>a, <2>1, <2>2, <2>3 DEF BeginOp, TurnInv
  <1>4. ASSUME NEW p \in Proc, NEW b \in Block, LogWrite(p, b) PROVE TurnInv'
    <2>1. /\ \A q \in Proc : pc'[q] = pc[q] \/ (pc[q] = "op" /\ pc'[q] = "panic")
          /\ pc[p] = "op" /\ boot' = boot /\ committing' = committing
      BY <1>4, <1>d DEF LogWrite, MayWrite, Goto
    <2>2. Ops' = Ops /\ Ops # {} BY <2>1 DEF Ops
    <2>3. \A q \in Proc : pc'[q] \in CommitPCs \cup {"idle", "asleep"} <=>
                          pc[q] \in CommitPCs \cup {"idle", "asleep"}
      BY <2>1
    <2>4. boot = "up" BY <1>e, <2>1
    <2> QED BY <1>a, <2>1, <2>2, <2>3, <2>4 DEF TurnInv
  <1>5. ASSUME NEW p \in Proc, EndOp(p) PROVE TurnInv'
    <2>1. \A q \in Proc : pc'[q] = IF q = p THEN "idle"
                                   ELSE IF pc[q] = "asleep" THEN "begin" ELSE pc[q]
      BY <1>d, <1>5 DEF EndOp, WakeLog
    <2>2. outstanding' # 0 BY <1>5, <1>a DEF EndOp, TypeOK
    <2>3. Ops' # {} BY <1>b, <2>2, FS_EmptySet DEF SpaceInv
    <2>4. boot = "up" /\ ~committing BY <1>5, <1>a, <1>e DEF EndOp, TurnInv, Ops
    <2> QED BY <1>5, <1>a, <2>1, <2>3, <2>4 DEF EndOp, TurnInv
  <1>6. ASSUME NEW p \in Proc, EndLast(p) PROVE TurnInv'
    <2>1. PICK l \in CommitPCs : \A q \in Proc : pc'[q] = IF q = p THEN l ELSE pc[q]
      BY <1>d, <1>6 DEF EndLast, Goto
    <2>2. IsFiniteSet(Ops) /\ Cardinality(Ops) = 1 BY <1>6, <1>a, <1>c, FiniteOps DEF EndLast
    <2>3. PICK x : Ops = {x} BY <2>2, FS_Singleton
    <2>4. Ops = {p} BY <1>6, <2>3 DEF EndLast, Ops
    <2>5. Ops' = {} BY <2>1, <2>4 DEF Ops
    <2>6. boot = "up" /\ ~committing BY <1>6, <1>a, <1>e DEF EndLast, TurnInv, Ops
    <2>7. \A q \in Proc : pc[q] \notin CommitPCs BY <1>a, <2>6 DEF TurnInv
    <2> QED BY <1>6, <1>a, <2>1, <2>5, <2>6, <2>7 DEF EndLast, TurnInv
  <1>7. ASSUME NEW p \in Proc, WriteLog(p) PROVE TurnInv' BY <1>7, <1>f DEF WriteLog
  <1>8. ASSUME NEW p \in Proc, WriteHead(p) PROVE TurnInv' BY <1>8, <1>f DEF WriteHead
  <1>9. ASSUME NEW p \in Proc, InstallTrans(p) PROVE TurnInv' BY <1>9, <1>f DEF InstallTrans
  <1>10. ASSUME NEW p \in Proc, ClearLog(p) PROVE TurnInv' BY <1>10, <1>f DEF ClearLog
  <1>11. ASSUME NEW p \in Proc, FinishCommit(p) PROVE TurnInv'
    <2>1. \A q \in Proc : pc'[q] = IF q = p THEN "idle"
                                   ELSE IF pc[q] = "asleep" THEN "begin" ELSE pc[q]
      BY <1>d, <1>11 DEF FinishCommit, WakeLog
    <2>2. Ops = {} /\ boot = "up" /\ lh = << >>
      BY <1>11, <1>a, <1>e DEF FinishCommit, TurnInv, LoopInv
    <2>3. Ops' = {} BY <2>1, <2>2 DEF Ops
    <2>4. \A q \in Proc : pc'[q] \notin CommitPCs BY <1>11, <1>a, <2>1 DEF FinishCommit, TurnInv
    <2> QED BY <1>11, <2>1, <2>2, <2>3, <2>4 DEF FinishCommit, TurnInv
  <1>12. ASSUME NEW b \in Block, Recycle(b) PROVE TurnInv'
    <2>1. UNCHANGED <<pc, committing, boot, lh>> BY <1>12 DEF Recycle
    <2> QED BY <1>a, <2>1 DEF TurnInv, Ops
  <1>13. CASE Crash BY <1>13 DEF Crash, TurnInv, Ops
  <1>14. CASE Recover
    <2>1. boot # "up" /\ UNCHANGED <<pc, committing>> /\ (boot' = "up" => lh' = << >>)
      BY <1>14 DEF Recover, ReadHead, RecoverInstall, RecoverClear
    <2>2. Ops' = Ops BY <2>1 DEF Ops
    <2> QED BY <1>a, <2>1, <2>2 DEF TurnInv
  <1>15. CASE UNCHANGED vars BY <1>15, <1>a DEF vars, TurnInv, Ops
  <1> QED BY <1>1, <1>2, <1>3, <1>4, <1>5, <1>6, <1>7, <1>8, <1>9, <1>10, <1>11, <1>12,
             <1>13, <1>14, <1>15
          DEF Next, EndStep, CommitStep

\* Every step keeps the loop indices inside the log.
LEMMA Next_Loop ==
    ASSUME Inv, [Next]_vars PROVE LoopInv'
  <1> USE SizeAssumption DEF CommitPCs
  <1>a. TypeOK /\ TurnInv /\ LoopInv BY DEF Inv
  <1>d. pc \in [Proc -> {"idle", "begin", "asleep", "op", "panic"} \cup CommitPCs] BY <1>a DEF TypeOK
  <1>e. boot = "up" \/ \A q \in Proc : pc[q] = "idle" BY <1>a DEF TurnInv
  \* only one process is in commit()
  <1>f. \A p, q \in Proc : pc[p] \in CommitPCs /\ pc[q] \in CommitPCs => p = q
    BY <1>a DEF TurnInv
  <1>g. lh = << >> <=> Len(lh) = 0 BY <1>a DEF TypeOK
  \* a step outside of commit() that leaves the log alone
  <1>h. ASSUME UNCHANGED <<lh, tail, boot>>,
               \A q \in Proc : pc'[q] \in CommitPCs => pc'[q] = pc[q]
        PROVE  LoopInv'
    BY <1>a, <1>h DEF LoopInv
  <1>1. ASSUME NEW p \in Proc, Call(p) \/ BeginSleep(p) \/ BeginOp(p) PROVE LoopInv'
    BY <1>1, <1>d, <1>h DEF Call, BeginSleep, BeginOp, Goto
  <1>2. ASSUME NEW p \in Proc, EndOp(p) \/ FinishCommit(p) PROVE LoopInv'
    BY <1>2, <1>d, <1>h DEF EndOp, FinishCommit, WakeLog
  <1>3. ASSUME NEW p \in Proc, NEW b \in Block, LogWrite(p, b) PROVE LoopInv'
    <2>1. \A q \in Proc : pc[q] \notin CommitPCs BY <1>3, <1>a DEF LogWrite, MayWrite, TurnInv, Ops
    <2>2. boot = "up" BY <1>3, <1>e DEF LogWrite, MayWrite
    <2>3. \A q \in Proc : pc'[q] \notin CommitPCs BY <1>3, <1>d, <2>1 DEF LogWrite, Goto
    <2> QED BY <1>3, <2>2, <2>3 DEF LogWrite, LoopInv
  <1>4. ASSUME NEW p \in Proc, EndLast(p) PROVE LoopInv'
    <2>1. \A q \in Proc : pc[q] \notin CommitPCs BY <1>4, <1>a DEF EndLast, TurnInv, Ops
    <2>2. boot = "up" BY <1>4, <1>e DEF EndLast
    <2>3. \A q \in Proc : pc'[q] = IF q = p THEN IF lh = << >> THEN "finish" ELSE "write_log"
                                   ELSE pc[q]
      BY <1>d, <1>4 DEF EndLast, Goto
    <2>4. lh # << >> => 1 <= Len(lh) BY <1>a, <1>g DEF TypeOK
    <2> QED BY <1>4, <2>1, <2>2, <2>3, <2>4 DEF EndLast, LoopInv
  \* a step of the one process that is in commit()
  <1>5. ASSUME NEW p \in Proc, pc[p] \in CommitPCs, boot' = boot,
               \A q \in Proc : q # p => pc'[q] = pc[q],
               pc'[p] \in {"write_log", "install"} => tail' <= Len(lh'),
               pc'[p] \in {"write_head", "clear"} => tail' = 1,
               pc'[p] = "write_head" => lh' # << >>,
               pc'[p] = "finish" => lh' = << >>
        PROVE  LoopInv'
    BY <1>5, <1>e, <1>f DEF LoopInv
  <1>6. ASSUME NEW p \in Proc, WriteLog(p) \/ InstallTrans(p) PROVE LoopInv'
    <2>1. /\ tail \in 1 .. Len(lh)
          /\ (IF tail < Len(lh) THEN tail + 1 ELSE 1) \in 1 .. Len(lh)
      BY <1>6, <1>a, TailInLog DEF WriteLog, InstallTrans
    <2>2. /\ tail' = IF tail < Len(lh) THEN tail + 1 ELSE 1
          /\ lh' = lh /\ boot' = boot /\ pc[p] \in CommitPCs
          /\ \A q \in Proc : q # p => pc'[q] = pc[q]
          /\ pc'[p] \in IF tail < Len(lh) THEN {"write_log", "install"} ELSE {"write_head", "clear"}
      BY <1>6, <1>d DEF WriteLog, InstallTrans, Goto
    <2>3. Len(lh) \in Nat /\ tail' <= Len(lh) /\ lh # << >> BY <1>a, <1>g, <2>1, <2>2 DEF TypeOK
    <2>4. CASE tail < Len(lh)
      <3>1. pc'[p] \in {"write_log", "install"} BY <2>2, <2>4
      <3> QED BY <1>5, <2>2, <2>3, <3>1
    <2>5. CASE ~(tail < Len(lh))
      <3>1. pc'[p] \in {"write_head", "clear"} /\ tail' = 1 BY <2>2, <2>5
      <3> QED BY <1>5, <2>2, <2>3, <3>1
    <2> QED BY <2>4, <2>5
  <1>7. ASSUME NEW p \in Proc, WriteHead(p) PROVE LoopInv'
    <2>1. tail = 1 /\ lh # << >> BY <1>7, <1>a DEF WriteHead, LoopInv
    <2>2. tail <= Len(lh) BY <1>a, <1>g, <2>1 DEF TypeOK
    <2>3. /\ UNCHANGED <<tail, lh, boot>> /\ pc[p] \in CommitPCs /\ pc'[p] = "install"
          /\ \A q \in Proc : q # p => pc'[q] = pc[q]
      BY <1>7, <1>d DEF WriteHead, Goto
    <2> QED BY <1>5, <2>2, <2>3
  <1>8. ASSUME NEW p \in Proc, ClearLog(p) PROVE LoopInv'
    <2>1. /\ lh' = << >> /\ boot' = boot /\ pc[p] \in CommitPCs /\ pc'[p] = "finish"
          /\ \A q \in Proc : q # p => pc'[q] = pc[q]
      BY <1>8, <1>d DEF ClearLog, Goto
    <2> QED BY <1>5, <2>1
  <1>9. ASSUME NEW b \in Block, Recycle(b) PROVE LoopInv' BY <1>9, <1>h DEF Recycle
  <1>10. CASE Crash BY <1>10 DEF Crash, LoopInv
  <1>11. CASE ReadHead
    <2>1. \A q \in Proc : pc'[q] = "idle" BY <1>11, <1>e DEF ReadHead
    <2>2. head # << >> => 1 <= Len(head) BY <1>a DEF TypeOK
    <2>3. tail' = 1 /\ lh' = head BY <1>11, <1>a DEF ReadHead, LoopInv
    <2> QED BY <1>11, <2>1, <2>2, <2>3 DEF ReadHead, LoopInv
  <1>12. CASE RecoverInstall
    <2>1. \A q \in Proc : pc'[q] = "idle" BY <1>12, <1>e DEF RecoverInstall
    <2>2. (IF tail < Len(lh) THEN tail + 1 ELSE 1) \in 1 .. Len(lh)
      BY <1>12, <1>a, TailInLog DEF RecoverInstall
    <2>3. tail' <= Len(lh') BY <1>12, <2>2 DEF RecoverInstall
    <2> QED BY <1>12, <2>1, <2>3 DEF RecoverInstall, LoopInv
  <1>13. CASE RecoverClear
    <2>1. \A q \in Proc : pc'[q] = "idle" BY <1>13, <1>e DEF RecoverClear
    <2> QED BY <1>13, <2>1 DEF RecoverClear, LoopInv
  <1>14. CASE UNCHANGED vars BY <1>14, <1>h DEF vars
  <1> QED BY <1>1, <1>2, <1>3, <1>4, <1>6, <1>7, <1>8, <1>9, <1>10, <1>11, <1>12,
             <1>13, <1>14
          DEF Next, EndStep, CommitStep, Recover

----------------------------------------------------------------------------
(* Data                                                                    *)

\* A buffer that nobody pins holds what is on its home block, so recycling it
\* loses nothing.
LEMMA RecycleLosesNothing ==
    ASSUME Inv, NEW b \in Block, pins[b] = 0
    PROVE  cache[b] = home[b]
  <1>a. TypeOK /\ TurnInv /\ LoopInv /\ DataInv /\ PinInv BY DEF Inv
  <1>1. CASE boot # "up" BY <1>1, <1>a DEF DataInv
  <1>2. CASE boot = "up" /\ ~Logged(b) BY <1>2, <1>a DEF DataInv
  <1>3. CASE boot = "up" /\ Logged(b)
    <2>1. PICK i \in 1 .. Len(lh) : lh[i] = b BY <1>3 DEF Logged
    <2>2. ~Pinned(b) BY <1>a DEF PinInv
    <2>3. PICK p \in Proc : pc[p] = "clear" \/ (pc[p] = "install" /\ ~(tail <= i))
      BY <1>3, <2>1, <2>2 DEF Pinned
    <2>4. i \in Nat /\ tail \in Nat BY <1>a DEF TypeOK
    <2>5. pc[p] = "clear" \/ (pc[p] = "install" /\ i < tail) BY <2>3, <2>4
    <2>6. logdata[i] = cache[lh[i]] BY <1>a, <2>5 DEF DataInv
    <2>7. home[lh[i]] = logdata[i] BY <1>a, <2>5 DEF DataInv
    <2> QED BY <2>1, <2>6, <2>7
  <1> QED BY <1>1, <1>2, <1>3

\* A commit finds in the log what the cache holds, so writing a block home leaves
\* the cache as it is.
LEMMA InstallKeepsCache ==
    ASSUME Inv, NEW p \in Proc, InstallTrans(p)
    PROVE  cache' = cache
  <1>a. TypeOK /\ LoopInv /\ DataInv BY DEF Inv
  <1>1. tail \in 1 .. Len(lh) /\ lh[tail] \in Block BY <1>a, TailInLog DEF InstallTrans
  <1>2. logdata[tail] = cache[lh[tail]] BY <1>a, <1>1 DEF DataInv, InstallTrans
  <1>3. cache \in [Block -> Val] BY <1>a DEF TypeOK
  <1> QED BY <1>1, <1>2, <1>3 DEF InstallTrans

\* Every step keeps the copies of the blocks related as DataInv says.
LEMMA Next_Data ==
    ASSUME Inv, [Next]_vars PROVE DataInv'
  <1> USE SizeAssumption
  <1>a. TypeOK /\ TurnInv /\ LoopInv /\ DataInv BY DEF Inv
  <1>d. pc \in [Proc -> {"idle", "begin", "asleep", "op", "panic"} \cup CommitPCs] BY <1>a DEF TypeOK
  <1>e. boot = "up" \/ \A q \in Proc : pc[q] = "idle" BY <1>a DEF TurnInv
  <1>f. \A p, q \in Proc : pc[p] \in CommitPCs /\ pc[q] \in CommitPCs => p = q
    BY <1>a DEF TurnInv
  <1>g. /\ lh \in Seq(Block) /\ Len(lh) \in Nat /\ \A i \in 1 .. Len(lh) : lh[i] \in Block
        /\ Len(lh) <= LOGBLOCKS /\ tail \in Nat
        /\ home \in [Block -> Val] /\ cache \in [Block -> Val]
        /\ logdata \in [1 .. LOGBLOCKS -> Val]
        /\ boot \in {"up", "read_head", "install", "clear"}
    BY <1>a DEF TypeOK
  <1>k. Distinct(<< >>) /\ Len(<< >>) = 0 BY DEF Distinct
  \* a step outside of commit() that leaves the log and the blocks alone
  <1>h. ASSUME UNCHANGED <<lh, head, boot, cache, home, logdata, tail>>,
               \A q \in Proc : pc'[q] = pc[q] \/
                   {pc[q], pc'[q]} \cap {"write_log", "write_head", "install", "clear"} = {}
        PROVE  DataInv'
    <2>1. \A q \in Proc, l \in {"write_log", "write_head", "install", "clear"} :
            pc'[q] = l <=> pc[q] = l
      BY <1>h
    <2>2. (\A q \in Proc : pc'[q] \notin {"install", "clear"}) =>
            (\A q \in Proc : pc[q] \notin {"install", "clear"})
      BY <2>1
    <2>3. \A b : Logged(b)' <=> Logged(b) BY <1>h DEF Logged
    <2> QED BY <1>a, <1>h, <2>1, <2>2, <2>3 DEF DataInv, Distinct
  <1>1. ASSUME NEW p \in Proc, Call(p) PROVE DataInv' BY <1>1, <1>d, <1>h DEF Call, Goto, disk
  <1>2. ASSUME NEW p \in Proc, BeginSleep(p) PROVE DataInv'
    BY <1>2, <1>d, <1>h DEF BeginSleep, Goto, disk
  <1>3. ASSUME NEW p \in Proc, BeginOp(p) PROVE DataInv'
    BY <1>3, <1>d, <1>h DEF BeginOp, Goto, disk
  <1>4. ASSUME NEW p \in Proc, EndOp(p) PROVE DataInv'
    BY <1>4, <1>d, <1>h DEF EndOp, WakeLog, disk
  <1>5. ASSUME NEW p \in Proc, FinishCommit(p) PROVE DataInv'
    BY <1>5, <1>d, <1>h DEF FinishCommit, WakeLog, disk
  <1>6. ASSUME NEW p \in Proc, NEW b \in Block, LogWrite(p, b) PROVE DataInv'
    <2>0. \A q \in Proc : pc[q] \notin CommitPCs BY <1>6, <1>a DEF LogWrite, MayWrite, TurnInv, Ops
    <2>1. \A q \in Proc : pc'[q] \notin CommitPCs BY <1>6, <1>d, <2>0 DEF LogWrite, Goto, CommitPCs
    <2>2. boot' = "up" /\ boot = "up" /\ head' = head /\ home' = home
      BY <1>6, <1>e DEF LogWrite, MayWrite, disk
    <2>3. head' = << >> BY <1>a, <2>0, <2>2 DEF DataInv, CommitPCs
    <2>p. CASE TooBig
      <3>1. Logged(b) /\ lh' = lh /\ cache' = [cache EXCEPT ![b] = id[p]]
        BY <1>6, <2>p, PanicsAbsorbing DEF LogWrite, Inv
      <3>2. \A c \in Block : ~Logged(c)' => cache'[c] = home'[c]
        BY <1>a, <1>g, <2>2, <3>1 DEF DataInv, Logged
      <3> QED BY <1>a, <1>k, <2>1, <2>2, <2>3, <3>1, <3>2 DEF DataInv, CommitPCs, Distinct
    <2>w. CASE ~TooBig
      <3>4. Distinct(lh')
        <4>1. CASE Logged(b) BY <1>6, <1>a, <2>w, <4>1 DEF LogWrite, DataInv
        <4>2. CASE ~Logged(b)
          <5>1. lh' = Append(lh, b) BY <1>6, <2>w, <4>2 DEF LogWrite
          <5>2. Len(lh') = Len(lh) + 1 BY <1>g, <5>1
          <5>3. \A i \in 1 .. Len(lh') : lh'[i] = IF i \in 1 .. Len(lh) THEN lh[i] ELSE b
            BY <1>g, <5>1
          <5>4. \A i, j \in 1 .. Len(lh) : lh[i] = lh[j] => i = j BY <1>a DEF DataInv, Distinct
          <5>5. \A i \in 1 .. Len(lh) : lh[i] # b BY <4>2 DEF Logged
          <5> QED BY <1>g, <5>2, <5>3, <5>4, <5>5 DEF Distinct
        <4> QED BY <4>1, <4>2
      <3>5. ASSUME NEW c \in Block, ~Logged(c)' PROVE ~Logged(c) /\ c # b
        <4>1. CASE Logged(b) BY <1>6, <2>w, <3>5, <4>1 DEF LogWrite, Logged
        <4>2. CASE ~Logged(b)
          <5>1. lh' = Append(lh, b) BY <1>6, <2>w, <4>2 DEF LogWrite
          <5>2. Len(lh') = Len(lh) + 1 /\ Len(lh') \in 1 .. Len(lh') BY <1>g, <5>1
          <5>3. lh'[Len(lh')] = b BY <1>g, <5>1, <5>2
          <5>4. \A i \in 1 .. Len(lh) : i \in 1 .. Len(lh') /\ lh'[i] = lh[i] BY <1>g, <5>1, <5>2
          <5> QED BY <3>5, <5>2, <5>3, <5>4 DEF Logged
        <4> QED BY <4>1, <4>2
      <3>6. \A c \in Block : ~Logged(c)' => cache'[c] = home'[c]
        BY <1>6, <1>a, <1>g, <2>2, <3>5 DEF LogWrite, DataInv
      <3> QED BY <1>k, <2>1, <2>2, <2>3, <3>4, <3>6 DEF DataInv, CommitPCs
    <2> QED BY <2>p, <2>w
  <1>7. ASSUME NEW p \in Proc, EndLast(p) PROVE DataInv'
    <2>1. \A q \in Proc : pc[q] \notin CommitPCs BY <1>7, <1>a DEF EndLast, TurnInv, Ops
    <2>2. \A q \in Proc : pc'[q] \in {"finish", "write_log"} \/ pc'[q] \notin CommitPCs
      BY <1>7, <1>d, <2>1 DEF EndLast, Goto
    <2>3. boot = "up" BY <1>7, <1>e DEF EndLast
    <2>4. head = << >> BY <1>a, <2>1, <2>3 DEF DataInv, CommitPCs
    <2>5. UNCHANGED <<home, logdata, head, cache, lh, boot>> /\ tail' = 1
      BY <1>7 DEF EndLast, disk
    <2>6. \A i \in 1 .. Len(lh) : ~(i < 1) OBVIOUS
    <2>7. \A q \in Proc : pc'[q] \notin {"write_head", "install", "clear"}
      BY <2>2 DEF CommitPCs
    <2>8. \A c : Logged(c)' <=> Logged(c) BY <2>5 DEF Logged
    <2> QED BY <1>a, <1>k, <2>3, <2>4, <2>5, <2>6, <2>7, <2>8 DEF DataInv
  <1>8. ASSUME NEW p \in Proc, WriteLog(p) PROVE DataInv'
    <2>1. tail \in 1 .. Len(lh) /\ tail \in 1 .. LOGBLOCKS BY <1>8, <1>a, TailInLog DEF WriteLog
    <2>2. /\ pc'[p] = IF tail < Len(lh) THEN "write_log" ELSE "write_head"
          /\ \A q \in Proc : q # p => pc'[q] = pc[q] /\ pc[q] \notin CommitPCs
      BY <1>8, <1>d, <1>f DEF WriteLog, Goto, CommitPCs
    <2>3. boot = "up" BY <1>8, <1>e DEF WriteLog
    <2>4. UNCHANGED <<home, head, cache, lh, boot>> BY <1>8 DEF WriteLog
    <2>5. \A q \in Proc : pc[q] \notin {"install", "clear"} /\ pc'[q] \notin {"install", "clear"}
      BY <1>8, <2>2 DEF CommitPCs, WriteLog
    <2>6. head = << >> BY <1>a, <2>3, <2>5 DEF DataInv
    <2>7. \A i \in 1 .. Len(lh) : i <= tail => logdata'[i] = cache[lh[i]]
      <3>1. \A i \in 1 .. Len(lh) : i < tail => logdata[i] = cache[lh[i]]
        BY <1>8, <1>a DEF DataInv, WriteLog
      <3>2. \A i \in 1 .. Len(lh) : i \in 1 .. LOGBLOCKS BY <1>g
      <3>3. \A i \in 1 .. Len(lh) :
              logdata'[i] = IF i = tail THEN cache[lh[tail]] ELSE logdata[i]
        BY <1>8, <1>g, <3>2 DEF WriteLog
      <3>4. \A i \in 1 .. Len(lh) : i <= tail => i < tail \/ i = tail BY <1>g
      <3> QED BY <3>1, <3>3, <3>4
    <2>8. \A i \in 1 .. Len(lh) :
            (pc'[p] = "write_log" /\ i < tail') \/ pc'[p] = "write_head" => i <= tail
      BY <1>8, <1>g, <2>1, <2>2 DEF WriteLog
    <2>9. \A c : Logged(c)' <=> Logged(c) BY <2>4 DEF Logged
    <2> QED BY <1>a, <1>k, <2>2, <2>3, <2>4, <2>5, <2>6, <2>7, <2>8, <2>9 DEF DataInv, CommitPCs
  <1>9. ASSUME NEW p \in Proc, WriteHead(p) PROVE DataInv'
    <2>1. tail = 1 BY <1>9, <1>a DEF WriteHead, LoopInv
    <2>2. /\ pc'[p] = "install"
          /\ \A q \in Proc : q # p => pc'[q] = pc[q] /\ pc[q] \notin CommitPCs
      BY <1>9, <1>d, <1>f DEF WriteHead, Goto, CommitPCs
    <2>3. boot = "up" BY <1>9, <1>e DEF WriteHead
    <2>4. UNCHANGED <<home, cache, lh, boot, tail, logdata>> /\ head' = lh BY <1>9 DEF WriteHead
    <2>5. \A i \in 1 .. Len(lh) : ~(i < 1) OBVIOUS
    <2>6. \A i \in 1 .. Len(lh) : logdata[i] = cache[lh[i]] BY <1>9, <1>a DEF WriteHead, DataInv
    <2>7. \A c : Logged(c)' <=> Logged(c) BY <2>4 DEF Logged
    <2> QED BY <1>a, <2>1, <2>2, <2>3, <2>4, <2>5, <2>6, <2>7 DEF DataInv, CommitPCs
  <1>10. ASSUME NEW p \in Proc, InstallTrans(p) PROVE DataInv'
    <2>1. /\ tail \in 1 .. Len(lh) /\ lh[tail] \in Block
      BY <1>10, <1>a, TailInLog DEF InstallTrans
    <2>2. /\ pc'[p] = IF tail < Len(lh) THEN "install" ELSE "clear"
          /\ \A q \in Proc : q # p => pc'[q] = pc[q] /\ pc[q] \notin CommitPCs
      BY <1>10, <1>d, <1>f DEF InstallTrans, Goto, CommitPCs
    <2>3. boot = "up" BY <1>10, <1>e DEF InstallTrans
    <2>4. UNCHANGED <<head, lh, boot, logdata, cache>>
      BY <1>10, InstallKeepsCache DEF InstallTrans
    <2>5. head = lh /\ \A i \in 1 .. Len(lh) : logdata[i] = cache[lh[i]]
      BY <1>10, <1>a DEF DataInv, InstallTrans
    <2>6. \A c \in Block : home'[c] = IF c = lh[tail] THEN logdata[tail] ELSE home[c]
      BY <1>10, <1>g DEF InstallTrans
    <2>7. \A i \in 1 .. Len(lh) : i <= tail => home'[lh[i]] = logdata[i]
      <3>1. \A i \in 1 .. Len(lh) : i < tail => home[lh[i]] = logdata[i]
        BY <1>10, <1>a DEF DataInv, InstallTrans
      <3>2. \A i \in 1 .. Len(lh) : lh[i] = lh[tail] => i = tail
        BY <1>a, <2>1 DEF DataInv, Distinct
      <3>3. \A i \in 1 .. Len(lh) : i <= tail => i < tail \/ i = tail BY <1>g
      <3> QED BY <1>g, <2>6, <3>1, <3>2, <3>3
    <2>8. \A i \in 1 .. Len(lh) :
            (pc'[p] = "install" /\ i < tail') \/ pc'[p] = "clear" => i <= tail
      BY <1>10, <1>g, <2>1, <2>2 DEF InstallTrans
    <2>9. \A c : Logged(c)' <=> Logged(c) BY <2>4 DEF Logged
    <2>10. \A c \in Block : ~Logged(c) => home'[c] = cache[c]
      BY <1>a, <2>1, <2>3, <2>6 DEF DataInv, Logged
    <2>11. pc'[p] \in {"install", "clear"} BY <2>2
    <2> QED BY <1>a, <2>2, <2>3, <2>4, <2>5, <2>7, <2>8, <2>9, <2>10, <2>11 DEF DataInv, CommitPCs
  <1>11. ASSUME NEW p \in Proc, ClearLog(p) PROVE DataInv'
    <2>1. /\ pc'[p] = "finish"
          /\ \A q \in Proc : q # p => pc'[q] = pc[q] /\ pc[q] \notin CommitPCs
      BY <1>11, <1>d, <1>f DEF ClearLog, Goto, CommitPCs
    <2>2. boot = "up" BY <1>11, <1>e DEF ClearLog
    <2>3. UNCHANGED <<home, cache, boot, logdata>> /\ head' = << >> /\ lh' = << >>
      BY <1>11 DEF ClearLog
    <2>4. \A i \in 1 .. Len(lh) : cache[lh[i]] = home[lh[i]]
      BY <1>11, <1>a DEF DataInv, ClearLog
    <2>5. \A c \in Block : cache[c] = home[c] BY <1>a, <2>2, <2>4 DEF DataInv, Logged
    <2> QED BY <1>k, <2>1, <2>2, <2>3, <2>5 DEF DataInv, CommitPCs
  <1>12. ASSUME NEW b \in Block, Recycle(b) PROVE DataInv'
    <2>1. cache' = cache BY <1>12, <1>g, RecycleLosesNothing DEF Recycle
    <2> QED BY <1>12, <1>h, <2>1 DEF Recycle, disk
  <1>13. CASE Crash
    <2>1. \A q \in Proc : pc'[q] = "idle" BY <1>13 DEF Crash
    <2>2. /\ lh' = << >> /\ head' = head /\ home' = home /\ cache' = home /\ boot' = "read_head"
      BY <1>13 DEF Crash, disk
    <2> QED BY <1>a, <1>k, <2>1, <2>2 DEF DataInv
  <1>14. CASE ReadHead
    <2>1. \A q \in Proc : pc'[q] = "idle" BY <1>14, <1>e DEF ReadHead
    <2>2. UNCHANGED <<head, home, cache, logdata, tail>> /\ lh' = head /\ cache = home
      BY <1>14, <1>a DEF ReadHead, disk, DataInv
    <2>3. tail = 1 BY <1>14, <1>a DEF ReadHead, LoopInv
    <2>4. \A i \in 1 .. Len(head) : ~(i < 1) OBVIOUS
    <2>5. boot' = "install" \/ (boot' = "clear" /\ head = << >>) BY <1>14 DEF ReadHead
    <2> QED BY <1>a, <1>k, <2>1, <2>2, <2>3, <2>4, <2>5 DEF DataInv
  <1>15. CASE RecoverInstall
    <2>1. \A q \in Proc : pc'[q] = "idle" BY <1>15, <1>e DEF RecoverInstall
    <2>2. tail \in 1 .. Len(lh) /\ lh[tail] \in Block BY <1>15, <1>a, TailInLog DEF RecoverInstall
    <2>3. UNCHANGED <<head, lh, logdata>> /\ head = lh /\ cache' = home'
      BY <1>15, <1>a DEF RecoverInstall, DataInv
    <2>4. \A c \in Block : home'[c] = IF c = lh[tail] THEN logdata[tail] ELSE home[c]
      BY <1>15, <1>g DEF RecoverInstall
    <2>5. \A i \in 1 .. Len(lh) : i <= tail => home'[lh[i]] = logdata[i]
      <3>1. \A i \in 1 .. Len(lh) : i < tail => home[lh[i]] = logdata[i]
        BY <1>15, <1>a DEF DataInv, RecoverInstall
      <3>2. \A i \in 1 .. Len(lh) : lh[i] = lh[tail] => i = tail
        BY <1>a, <2>2 DEF DataInv, Distinct
      <3>3. \A i \in 1 .. Len(lh) : i <= tail => i < tail \/ i = tail BY <1>g
      <3> QED BY <1>g, <2>4, <3>1, <3>2, <3>3
    <2>6. \A i \in 1 .. Len(lh) :
            (boot' = "install" /\ i < tail') \/ boot' = "clear" => i <= tail
      BY <1>15, <1>g, <2>2 DEF RecoverInstall
    <2>7. boot' # "up" BY <1>15 DEF RecoverInstall
    <2> QED BY <1>a, <2>1, <2>3, <2>5, <2>6, <2>7 DEF DataInv
  <1>16. CASE RecoverClear
    <2>1. \A q \in Proc : pc'[q] = "idle" BY <1>16, <1>e DEF RecoverClear
    <2>2. UNCHANGED <<home, cache>> /\ cache = home /\ boot' = "up" /\ head' = << >> /\ lh' = << >>
      BY <1>16, <1>a DEF RecoverClear, DataInv
    <2> QED BY <1>k, <2>1, <2>2 DEF DataInv
  <1>17. CASE UNCHANGED vars BY <1>17, <1>h DEF vars
  <1> QED BY <1>1, <1>2, <1>3, <1>4, <1>5, <1>6, <1>7, <1>8, <1>9, <1>10, <1>11, <1>12,
             <1>13, <1>14, <1>15, <1>16, <1>17
          DEF Next, EndStep, CommitStep, Recover

\* Every step keeps the pins exact: log_write() pins a block when it enters the
\* log, install_trans() unpins it when it is home, and nothing else counts.
LEMMA Next_Pin ==
    ASSUME Inv, [Next]_vars PROVE PinInv'
  <1> USE SizeAssumption
  <1>a. TypeOK /\ TurnInv /\ LoopInv /\ DataInv /\ PinInv BY DEF Inv
  <1>d. pc \in [Proc -> {"idle", "begin", "asleep", "op", "panic"} \cup CommitPCs] BY <1>a DEF TypeOK
  <1>e. boot = "up" \/ \A q \in Proc : pc[q] = "idle" BY <1>a DEF TurnInv
  <1>f. \A p, q \in Proc : pc[p] \in CommitPCs /\ pc[q] \in CommitPCs => p = q
    BY <1>a DEF TurnInv
  <1>g. /\ lh \in Seq(Block) /\ Len(lh) \in Nat /\ \A i \in 1 .. Len(lh) : lh[i] \in Block
        /\ tail \in Nat /\ pins \in [Block -> Nat]
    BY <1>a DEF TypeOK
  \* a step after which the same blocks are pinned
  <1>h. ASSUME \A b \in Block : Pinned(b)' <=> Pinned(b), pins' = pins PROVE PinInv'
    BY <1>a, <1>h DEF PinInv
  \* a step that neither enters nor leaves install_trans()
  <1>i. ASSUME UNCHANGED <<lh, boot, pins>>, tail' = tail \/ \A q \in Proc : pc[q] # "install",
               \A q \in Proc, l \in {"install", "clear"} : pc'[q] = l <=> pc[q] = l
        PROVE  PinInv'
    <2>1. \A b : Pinned(b)' <=> Pinned(b) BY <1>i DEF Pinned
    <2> QED BY <1>h, <1>i, <2>1
  <1>1. ASSUME NEW p \in Proc, Call(p) PROVE PinInv' BY <1>1, <1>d, <1>i DEF Call, Goto
  <1>2. ASSUME NEW p \in Proc, BeginSleep(p) PROVE PinInv'
    BY <1>2, <1>d, <1>i DEF BeginSleep, Goto
  <1>3. ASSUME NEW p \in Proc, BeginOp(p) PROVE PinInv'
    BY <1>3, <1>d, <1>i DEF BeginOp, Goto
  <1>4. ASSUME NEW p \in Proc, EndOp(p) PROVE PinInv'
    BY <1>4, <1>d, <1>i DEF EndOp, WakeLog
  <1>5. ASSUME NEW p \in Proc, FinishCommit(p) PROVE PinInv'
    BY <1>5, <1>d, <1>i DEF FinishCommit, WakeLog
  <1>6. ASSUME NEW p \in Proc, NEW b \in Block, LogWrite(p, b) PROVE PinInv'
    <2>0. \A q \in Proc : pc[q] \notin CommitPCs BY <1>6, <1>a DEF LogWrite, MayWrite, TurnInv, Ops
    <2>1. \A q \in Proc : pc'[q] \notin CommitPCs /\ pc[q] \notin CommitPCs
      BY <1>6, <1>d, <2>0 DEF LogWrite, Goto, CommitPCs
    <2>2. boot' = "up" /\ boot = "up" BY <1>6, <1>e DEF LogWrite, MayWrite
    <2>3. \A c : (Pinned(c) <=> Logged(c)) /\ (Pinned(c)' <=> Logged(c)')
      BY <2>1, <2>2 DEF Pinned, Logged, CommitPCs
    <2>4. CASE Logged(b) \/ TooBig
      <3>1. UNCHANGED <<lh, pins>> BY <1>6, <2>4 DEF LogWrite
      <3>2. \A c : Logged(c)' <=> Logged(c) BY <3>1 DEF Logged
      <3> QED BY <1>h, <2>3, <3>1, <3>2
    <2>5. CASE ~Logged(b) /\ ~TooBig
      <3>1. lh' = Append(lh, b) /\ pins' = [pins EXCEPT ![b] = @ + 1] BY <1>6, <2>5 DEF LogWrite
      <3>2. Len(lh') = Len(lh) + 1 /\ Len(lh') \in 1 .. Len(lh') BY <1>g, <3>1
      <3>3. \A i \in 1 .. Len(lh') : lh'[i] = IF i \in 1 .. Len(lh) THEN lh[i] ELSE b
        BY <1>g, <3>1
      <3>4. lh'[Len(lh')] = b BY <1>g, <3>1, <3>2
      <3>5. \A i \in 1 .. Len(lh) : i \in 1 .. Len(lh') /\ lh'[i] = lh[i] BY <1>g, <3>2, <3>3
      <3>6. \A c \in Block : Logged(c)' <=> Logged(c) \/ c = b
        BY <3>2, <3>3, <3>4, <3>5 DEF Logged
      <3>7. pins[b] = 0 BY <1>a, <2>3, <2>5 DEF PinInv
      <3>8. \A c \in Block : pins'[c] = IF c = b THEN 1 ELSE pins[c] BY <1>g, <3>1, <3>7
      <3> QED BY <1>a, <2>3, <3>6, <3>8 DEF PinInv
    <2> QED BY <2>4, <2>5
  <1>7. ASSUME NEW p \in Proc, EndLast(p) PROVE PinInv'
    <2>1. \A q \in Proc : pc[q] \notin CommitPCs BY <1>7, <1>a DEF EndLast, TurnInv, Ops
    <2> QED BY <1>7, <1>d, <1>i, <2>1 DEF EndLast, Goto, CommitPCs
  <1>8. ASSUME NEW p \in Proc, WriteLog(p) PROVE PinInv'
    <2>1. \A q \in Proc : q # p => pc[q] \notin CommitPCs BY <1>8, <1>f DEF WriteLog, CommitPCs
    <2> QED BY <1>8, <1>d, <1>i, <2>1 DEF WriteLog, Goto, CommitPCs
  <1>9. ASSUME NEW p \in Proc, WriteHead(p) PROVE PinInv'
    <2>1. UNCHANGED <<lh, boot, pins, tail>> BY <1>9 DEF WriteHead
    <2>2. \A q \in Proc : pc[q] \notin {"install", "clear"} /\ pc'[q] # "clear"
      BY <1>9, <1>d, <1>f DEF WriteHead, Goto, CommitPCs
    <2>3. tail = 1 BY <1>9, <1>a DEF WriteHead, LoopInv
    <2>4. \A i \in 1 .. Len(lh) : tail <= i BY <2>3
    <2>5. \A b : Pinned(b)' <=> Pinned(b) BY <2>1, <2>2, <2>4 DEF Pinned
    <2> QED BY <1>h, <2>1, <2>5
  <1>10. ASSUME NEW p \in Proc, InstallTrans(p) PROVE PinInv'
    <2>1. tail \in 1 .. Len(lh) /\ lh[tail] \in Block
      BY <1>10, <1>a, TailInLog DEF InstallTrans
    <2>c. PICK c \in Block : c = lh[tail] BY <2>1
    <2>2. /\ pc'[p] = IF tail < Len(lh) THEN "install" ELSE "clear"
          /\ \A q \in Proc : q # p => pc'[q] = pc[q] /\ pc[q] \notin CommitPCs
      BY <1>10, <1>d, <1>f DEF InstallTrans, Goto, CommitPCs
    <2>3. boot = "up" /\ pc[p] = "install" BY <1>10, <1>e DEF InstallTrans
    <2>4. UNCHANGED <<lh, boot>> BY <1>10 DEF InstallTrans
    <2>5. \A b : Pinned(b) <=> \E i \in 1 .. Len(lh) : lh[i] = b /\ tail <= i
      <3>1. \A q \in Proc : pc[q] # "clear" BY <2>2, <2>3 DEF CommitPCs
      <3>2. \A i \in Nat : (\A q \in Proc : pc[q] = "install" => tail <= i) <=> tail <= i
        BY <2>2, <2>3 DEF CommitPCs
      <3> QED BY <2>3, <3>1, <3>2 DEF Pinned
    <2>6. \A b : Pinned(b)' <=> \E i \in 1 .. Len(lh) : lh[i] = b /\ tail < i
      <3>1. CASE tail < Len(lh)
        <4>1. pc'[p] = "install" /\ tail' = tail + 1 BY <1>10, <2>2, <3>1 DEF InstallTrans
        <4>2. \A q \in Proc : pc'[q] # "clear" BY <2>2, <4>1 DEF CommitPCs
        <4>3. \A i \in Nat : (\A q \in Proc : pc'[q] = "install" => tail' <= i) <=> tail < i
          BY <1>g, <2>2, <4>1 DEF CommitPCs
        <4> QED BY <2>3, <2>4, <4>2, <4>3 DEF Pinned
      <3>2. CASE ~(tail < Len(lh))
        <4>1. pc'[p] = "clear" BY <2>2, <3>2
        <4>2. \A b : ~Pinned(b)' BY <4>1 DEF Pinned
        <4>3. \A i \in 1 .. Len(lh) : ~(tail < i) BY <1>g, <3>2
        <4> QED BY <4>2, <4>3
      <3> QED BY <3>1, <3>2
    <2>7. \A i \in 1 .. Len(lh) : lh[i] = c => i = tail BY <1>a, <2>1, <2>c DEF DataInv, Distinct
    <2>8. \A i \in 1 .. Len(lh) : tail <= i <=> i = tail \/ tail < i BY <1>g
    <2>9. ~(tail < tail) BY <1>g
    <2>10. Pinned(c) /\ ~Pinned(c)' BY <2>1, <2>c, <2>5, <2>6, <2>7, <2>8, <2>9
    <2>11. \A b \in Block \ {c} : Pinned(b)' <=> Pinned(b) BY <2>c, <2>5, <2>6, <2>8
    <2>12. pins' = [pins EXCEPT ![c] = @ - 1] BY <1>10, <2>c DEF InstallTrans
    <2>13. pins[c] = 1 BY <1>a, <2>1, <2>10 DEF PinInv
    <2>14. \A b \in Block : pins'[b] = IF b = c THEN 0 ELSE pins[b] BY <1>g, <2>12, <2>13
    <2> QED BY <1>a, <2>10, <2>11, <2>14 DEF PinInv
  <1>11. ASSUME NEW p \in Proc, ClearLog(p) PROVE PinInv'
    <2>1. \A b : ~Pinned(b) BY <1>11 DEF Pinned, ClearLog
    <2>2. lh' = << >> /\ pins' = pins BY <1>11 DEF ClearLog
    <2>3. \A b : ~Pinned(b)' BY <2>2 DEF Pinned
    <2> QED BY <1>h, <2>1, <2>2, <2>3
  <1>12. ASSUME NEW b \in Block, Recycle(b) PROVE PinInv' BY <1>12, <1>i DEF Recycle
  <1>13. CASE Crash BY <1>13 DEF Crash, PinInv, Pinned
  <1>14. CASE Recover
    <2>1. boot # "up" /\ pins' = pins /\ (boot' = "up" => lh' = << >>)
      BY <1>14 DEF Recover, ReadHead, RecoverInstall, RecoverClear
    <2>2. \A b : ~Pinned(b) /\ ~Pinned(b)' BY <2>1 DEF Pinned
    <2> QED BY <1>h, <2>1, <2>2
  <1>15. CASE UNCHANGED vars BY <1>15, <1>i DEF vars
  <1> QED BY <1>1, <1>2, <1>3, <1>4, <1>5, <1>6, <1>7, <1>8, <1>9, <1>10, <1>11, <1>12,
             <1>13, <1>14, <1>15
          DEF Next, EndStep, CommitStep

----------------------------------------------------------------------------
(* Theorems                                                                *)

\* The invariant is inductive.
LEMMA Invariance == Spec => []Inv
  <1>1. Inv /\ [Next]_vars => Inv'
    BY Next_Type, Next_Space, Next_Wrote, Next_Turn, Next_Loop, Next_Data, Next_Pin DEF Inv
  <1> QED BY Init_Inv, <1>1, PTL DEF Spec

\* Every variable of the log keeps its type, log.outstanding never exceeds the
\* number of processes and the header never names more than LOGBLOCKS blocks.
THEOREM TypeCorrect == Spec => []TypeOK
  BY Invariance, PTL DEF Inv

\* For any number of concurrent calls, however often each writes its blocks: a call that
\* has not logged all the MAXOPBLOCKS blocks reserved for it never panics in log_write()
\* ("too big a transaction", "log_write outside of trans"), and end_op() never panics.
THEOREM LogNeverFullHolds == Spec => []LogNeverFull
  <1>1. Inv => LogNeverFull
    <2> SUFFICES ASSUME Inv PROVE LogNeverFull OBVIOUS
    <2>a. WroteInv /\ TurnInv BY DEF Inv
    <2>1. CommitAlone BY <2>a DEF TurnInv, CommitAlone, Ops
    <2> QED BY <2>a, <2>1 DEF LogNeverFull, WroteInv
  <1> QED BY Invariance, <1>1, PTL

\* Whoever sleeps in begin_op() sleeps beside a commit or a call that will wake it.
THEOREM SleepersWokenHolds == Spec => []SleepersWoken
  <1>1. Inv => SleepersWoken
    <2> SUFFICES ASSUME Inv PROVE SleepersWoken OBVIOUS
    <2>a. TypeOK /\ SpaceInv /\ TurnInv BY DEF Inv
    <2>1. Ops # {} => Cardinality(Ops) \in Nat \ {0} BY <2>a, FiniteOps
    <2> QED BY <2>a, <2>1 DEF SleepersWoken, SpaceInv, TurnInv, Ops, Halted
  <1> QED BY Invariance, <1>1, PTL

\* A buffer is pinned once from log_write() to install_trans() and not otherwise.
THEOREM PinsBalancedHolds == Spec => []PinsBalanced
  <1>1. Inv => PinsBalanced
    <2> SUFFICES ASSUME Inv, boot = "up", NEW b \in Block
                 PROVE  pins[b] = Cardinality({i \in 1 .. Len(lh) :
                          /\ lh[i] = b
                          /\ \A p \in Proc : pc[p] = "install" => tail <= i
                          /\ \A p \in Proc : pc[p] # "clear"})
      BY DEF PinsBalanced
    <2> DEFINE S == {i \in 1 .. Len(lh) :
                          /\ lh[i] = b
                          /\ \A p \in Proc : pc[p] = "install" => tail <= i
                          /\ \A p \in Proc : pc[p] # "clear"}
    <2>a. DataInv /\ PinInv BY DEF Inv
    <2>1. CASE Pinned(b)
      <3>1. PICK i \in 1 .. Len(lh) : lh[i] = b /\ \A p \in Proc : pc[p] = "install" => tail <= i
        BY <2>1 DEF Pinned
      <3>2. i \in S BY <2>1, <3>1 DEF Pinned
      <3>3. \A j \in S : j = i BY <2>a, <3>1 DEF DataInv, Distinct
      <3>4. S = {i} BY <3>2, <3>3
      <3> QED BY <2>a, <2>1, <3>4, FS_Singleton DEF PinInv
    <2>2. CASE ~Pinned(b)
      <3>1. S = {} BY <2>2 DEF Pinned
      <3> QED BY <2>a, <2>2, <3>1, FS_EmptySet DEF PinInv
    <2> QED BY <2>1, <2>2
  <1> QED BY Invariance, <1>1, PTL

----------------------------------------------------------------------------
(* Crash atomicity                                                         *)

\* What recovery would read for a block: the log's copy if the header names it,
\* the home copy otherwise.
LEMMA OverlayRead ==
    ASSUME NEW h, NEW d, NEW n, Distinct(n)
    PROVE  /\ \A i \in 1 .. Len(n) : n[i] \in Block => Overlay(h, d, n)[n[i]] = d[i]
           /\ \A b \in Block : (\A i \in 1 .. Len(n) : n[i] # b) => Overlay(h, d, n)[b] = h[b]
           /\ Overlay(h, d, n) = [b \in Block |-> Overlay(h, d, n)[b]]
  <1>1. ASSUME NEW i \in 1 .. Len(n), n[i] \in Block PROVE Overlay(h, d, n)[n[i]] = d[i]
    <2> DEFINE k == CHOOSE j \in 1 .. Len(n) : n[j] = n[i]
    <2>1. k \in 1 .. Len(n) /\ n[k] = n[i] OBVIOUS
    <2>2. k = i BY <2>1 DEF Distinct
    <2>3. Overlay(h, d, n)[n[i]] = d[k] BY <1>1 DEF Overlay
    <2> QED BY <2>2, <2>3
  <1>2. ASSUME NEW b \in Block, \A i \in 1 .. Len(n) : n[i] # b
        PROVE  Overlay(h, d, n)[b] = h[b]
    BY <1>2 DEF Overlay
  <1>3. Overlay(h, d, n) = [b \in Block |-> Overlay(h, d, n)[b]] BY DEF Overlay
  <1> QED BY <1>1, <1>2, <1>3

\* Two functions on the blocks that agree block by block are the same.
LEMMA SameBlocks ==
    ASSUME NEW f, NEW g, f = [b \in Block |-> f[b]], g = [b \in Block |-> g[b]],
           \A b \in Block : f[b] = g[b]
    PROVE  f = g
  OBVIOUS

\* A log that holds c's version of the blocks in which c differs from the home
\* blocks recovers c.  (Instances: an empty log, a log that was just written, a log
\* that is installed.)
LEMMA OverlayIs ==
    ASSUME NEW h, NEW d, NEW n \in Seq(Block), Distinct(n),
           NEW c \in [Block -> Val],
           \A i \in 1 .. Len(n) : d[i] = c[n[i]],
           \A b \in Block : (\A i \in 1 .. Len(n) : n[i] # b) => h[b] = c[b]
    PROVE  Overlay(h, d, n) = c
  <1>1. \A i \in 1 .. Len(n) : n[i] \in Block OBVIOUS
  <1>2. ASSUME NEW b \in Block PROVE Overlay(h, d, n)[b] = c[b]
    <2>1. CASE \E i \in 1 .. Len(n) : n[i] = b BY <1>1, <2>1, OverlayRead
    <2>2. CASE \A i \in 1 .. Len(n) : n[i] # b BY <2>2, OverlayRead
    <2> QED BY <2>1, <2>2
  <1> QED BY <1>2, OverlayRead, SameBlocks

\* Writing a logged block home changes nothing that recovery would read.
LEMMA OverlayInstall ==
    ASSUME NEW h \in [Block -> Val], NEW d, NEW n \in Seq(Block), Distinct(n),
           NEW k \in 1 .. Len(n)
    PROVE  Overlay([h EXCEPT ![n[k]] = d[k]], d, n) = Overlay(h, d, n)
  <1> DEFINE g == [h EXCEPT ![n[k]] = d[k]]
  <1>1. \A i \in 1 .. Len(n) : n[i] \in Block OBVIOUS
  <1>2. \A b \in Block : b # n[k] => g[b] = h[b] OBVIOUS
  <1> HIDE DEF g
  <1>3. ASSUME NEW b \in Block PROVE Overlay(g, d, n)[b] = Overlay(h, d, n)[b]
    <2>1. CASE \E i \in 1 .. Len(n) : n[i] = b BY <1>1, <2>1, OverlayRead
    <2>2. CASE \A i \in 1 .. Len(n) : n[i] # b BY <1>2, <2>2, OverlayRead
    <2> QED BY <2>1, <2>2
  <1>4. Overlay(g, d, n) = Overlay(h, d, n) BY <1>3, OverlayRead, SameBlocks
  <1> QED BY <1>4 DEF g

\* While no transaction is committed, recovery would find the home blocks.
LEMMA EmptyLog ==
    ASSUME NEW h \in [Block -> Val], NEW d
    PROVE  Overlay(h, d, << >>) = h
  <1>1. << >> \in Seq(Block) /\ Len(<< >>) = 0 /\ Distinct(<< >>) BY DEF Distinct
  <1>2. \A i \in 1 .. Len(<< >>) : FALSE BY <1>1
  <1> QED BY <1>1, <1>2, OverlayIs

\* The initial disk is an initial abstract disk.
LEMMA InitRefines == Init => A!Init
  <1> SUFFICES ASSUME Init PROVE A!Init OBVIOUS
  <1>1. home \in [Block -> Val] /\ head = << >> BY BoundAssumption DEF Init, Val
  <1>2. Recovered = home BY <1>1, EmptyLog DEF Recovered
  <1>3. {p \in Proc : pc[p] \in {"op", "panic"}} = {} BY DEF Init
  <1>4. boot # "up" BY DEF Init
  <1> QED BY <1>1, <1>2, <1>3, <1>4 DEF A!Init

\* Every step of the log is a step of the abstract disk, or none that it sees.
LEMMA NextRefines ==
    ASSUME Inv, [Next]_vars PROVE [A!Next]_(A!dvars)
  <1> DEFINE M == IF boot = "up" THEN cache ELSE Recovered
  <1> USE DEF Ops
  <1>a. TypeOK /\ TurnInv /\ LoopInv /\ DataInv BY DEF Inv
  <1>d. pc \in [Proc -> {"idle", "begin", "asleep", "op", "panic"} \cup CommitPCs] BY <1>a DEF TypeOK
  <1>e. boot = "up" \/ \A q \in Proc : pc[q] = "idle" BY <1>a DEF TurnInv
  <1>g. /\ lh \in Seq(Block) /\ head \in Seq(Block)
        /\ \A i \in 1 .. Len(lh) : lh[i] \in Block
        /\ home \in [Block -> Val] /\ cache \in [Block -> Val]
    BY <1>a DEF TypeOK
  \* a step that the abstract disk does not see
  <1>s. ASSUME M' = M, Recovered' = Recovered, Ops' = Ops PROVE UNCHANGED A!dvars
    BY <1>s DEF A!dvars
  <1>t. ASSUME disk' = disk, UNCHANGED <<cache, boot>>,
               \A q \in Proc : pc'[q] \in {"op", "panic"} <=> pc[q] \in {"op", "panic"}
        PROVE  UNCHANGED A!dvars
    <2>1. Recovered' = Recovered BY <1>t DEF Recovered, disk
    <2>2. M' = M BY <1>t, <2>1
    <2>3. Ops' = Ops BY <1>t
    <2> QED BY <1>s, <2>1, <2>2, <2>3
  <1> HIDE DEF M
  <1>1. ASSUME NEW p \in Proc, Call(p) PROVE UNCHANGED A!dvars
    BY <1>1, <1>d, <1>t DEF Call, Goto
  <1>2. ASSUME NEW p \in Proc, BeginSleep(p) PROVE UNCHANGED A!dvars
    BY <1>2, <1>d, <1>t DEF BeginSleep, Goto
  <1>3. ASSUME NEW p \in Proc, BeginOp(p) PROVE A!Begin(p)
    <2>1. p \notin Ops /\ Ops' = Ops \cup {p} BY <1>3, <1>d DEF BeginOp, Goto
    <2>2. Recovered' = Recovered /\ M' = M BY <1>3 DEF BeginOp, Recovered, disk, M
    <2>3. Ops = {} => Recovered = M
      <3>1. SUFFICES ASSUME Ops = {} PROVE Recovered = M OBVIOUS
      <3>2. boot = "up" /\ ~committing BY <1>3, <1>e DEF BeginOp, MustWait
      <3>3. lh = << >> BY <1>a, <3>1, <3>2 DEF TurnInv
      <3>4. \A q \in Proc : pc[q] \notin CommitPCs BY <1>a, <3>2 DEF TurnInv
      <3>5. head = << >> BY <1>a, <3>2, <3>4 DEF DataInv, CommitPCs
      <3>6. Recovered = home BY <1>g, <3>5, EmptyLog DEF Recovered
      <3>7. \A b \in Block : ~Logged(b) BY <3>3 DEF Logged
      <3>8. \A b \in Block : cache[b] = home[b] BY <1>a, <3>2, <3>7 DEF DataInv
      <3>9. cache = home BY <1>g, <3>8
      <3> QED BY <3>2, <3>6, <3>9 DEF M
    <2> QED BY <2>1, <2>2, <2>3 DEF A!Begin, M
  <1>4. ASSUME NEW p \in Proc, NEW b \in Block, LogWrite(p, b) PROVE A!Write(p)
    <2>1. boot = "up" /\ boot' = "up" BY <1>4, <1>e DEF LogWrite, MayWrite
    <2>2. M' = [M EXCEPT ![b] = id[p]] BY <1>4, <2>1 DEF LogWrite, M
    <2>3. id[p] \in Val BY <1>a DEF TypeOK
    <2>4. Recovered' = Recovered /\ Ops' = Ops /\ p \in Ops
      BY <1>4, <1>d DEF LogWrite, MayWrite, Goto, Recovered, disk
    <2> QED BY <2>2, <2>3, <2>4 DEF A!Write, M
  <1>5. ASSUME NEW p \in Proc, EndStep(p) PROVE A!End(p)
    <2>1. p \in Ops BY <1>5 DEF EndStep, EndOp, EndLast
    <2>2. Ops' = Ops \ {p}
      <3>1. \A q \in Proc : pc'[q] \in {"op", "panic"} <=> pc[q] \in {"op", "panic"} /\ q # p
        <4>1. CASE EndOp(p) BY <4>1, <1>d DEF EndOp, WakeLog
        <4>2. CASE EndLast(p) BY <4>2, <1>d DEF EndLast, Goto
        <4> QED BY <1>5, <4>1, <4>2 DEF EndStep
      <3> QED BY <3>1
    <2>3. Recovered' = Recovered /\ M' = M
      BY <1>5 DEF EndStep, EndOp, EndLast, Recovered, disk, M
    <2> QED BY <2>1, <2>2, <2>3 DEF A!End, M
  <1>6. ASSUME NEW p \in Proc, WriteLog(p) PROVE UNCHANGED A!dvars
    <2>1. boot = "up" /\ boot' = "up" /\ cache' = cache /\ head' = head /\ home' = home
      BY <1>6, <1>e DEF WriteLog
    <2>2. \A q \in Proc : pc[q] \notin {"install", "clear"}
      BY <1>6, <1>a DEF WriteLog, TurnInv, CommitPCs
    <2>3. head = << >> BY <1>a, <2>1, <2>2 DEF DataInv
    <2>4. Recovered' = Recovered BY <1>g, <2>1, <2>3, EmptyLog DEF Recovered
    <2>5. Ops' = Ops BY <1>6, <1>d DEF WriteLog, Goto
    <2>6. M' = M BY <2>1 DEF M
    <2> QED BY <1>s, <2>4, <2>5, <2>6
  <1>7. ASSUME NEW p \in Proc, WriteHead(p) PROVE A!Commit
    <2>1. boot = "up" /\ boot' = "up" /\ cache' = cache /\ logdata' = logdata /\ home' = home /\ head' = lh
      BY <1>7, <1>e DEF WriteHead
    <2>2. Ops = {} BY <1>7, <1>a DEF WriteHead, TurnInv, CommitPCs
    <2>3. Ops' = {} BY <1>7, <1>d, <2>2 DEF WriteHead, Goto
    <2>4. \A i \in 1 .. Len(lh) : logdata[i] = cache[lh[i]] BY <1>7, <1>a DEF WriteHead, DataInv
    <2>5. \A b \in Block : (\A i \in 1 .. Len(lh) : lh[i] # b) => home[b] = cache[b]
      BY <1>a, <2>1 DEF DataInv, Logged
    <2>6. Distinct(lh) BY <1>a DEF DataInv
    <2>7. Overlay(home, logdata, lh) = cache BY <1>g, <2>4, <2>5, <2>6, OverlayIs
    <2>8. Recovered' = M /\ M' = M BY <2>1, <2>7 DEF Recovered, M
    <2> QED BY <2>2, <2>3, <2>8 DEF A!Commit, M
  <1>8. ASSUME NEW p \in Proc, InstallTrans(p) PROVE UNCHANGED A!dvars
    <2>1. /\ boot = "up" /\ boot' = "up" /\ logdata' = logdata /\ head' = head
          /\ home' = [home EXCEPT ![lh[tail]] = logdata[tail]]
      BY <1>8, <1>e DEF InstallTrans
    <2>2. cache' = cache BY <1>8, InstallKeepsCache
    <2>3. tail \in 1 .. Len(lh) BY <1>8, <1>a, TailInLog DEF InstallTrans
    <2>4. head = lh /\ Distinct(lh) BY <1>8, <1>a DEF InstallTrans, DataInv
    <2>5. Recovered' = Recovered
      <3>1. Overlay([home EXCEPT ![lh[tail]] = logdata[tail]], logdata, lh)
              = Overlay(home, logdata, lh)
        BY <1>g, <2>3, <2>4, OverlayInstall
      <3> QED BY <2>1, <2>3, <2>4, <3>1 DEF Recovered
    <2>6. Ops' = Ops BY <1>8, <1>d DEF InstallTrans, Goto
    <2>7. M' = M BY <2>1, <2>2 DEF M
    <2> QED BY <1>s, <2>5, <2>6, <2>7
  \* erasing a header whose blocks are all home
  <1>9. ASSUME Distinct(head), \A i \in 1 .. Len(head) : home[head[i]] = logdata[i],
               head' = << >>, UNCHANGED <<home, logdata>>
        PROVE  Recovered' = Recovered /\ Recovered = home
    <2>1. Recovered' = home BY <1>9, <1>g, EmptyLog DEF Recovered
    <2>2. Overlay(home, logdata, head) = home BY <1>9, <1>g, OverlayIs
    <2> QED BY <2>1, <2>2 DEF Recovered
  <1>10. ASSUME NEW p \in Proc, ClearLog(p) PROVE UNCHANGED A!dvars
    <2>1. head = lh /\ Distinct(lh) /\ \A i \in 1 .. Len(lh) : home[lh[i]] = logdata[i]
      BY <1>10, <1>a DEF ClearLog, DataInv
    <2>2. Recovered' = Recovered BY <1>9, <1>10, <2>1 DEF ClearLog
    <2>3. Ops' = Ops BY <1>10, <1>d DEF ClearLog, Goto
    <2>4. M' = M BY <1>10, <2>2 DEF ClearLog, M
    <2> QED BY <1>s, <2>2, <2>3, <2>4
  <1>11. ASSUME NEW p \in Proc, FinishCommit(p) PROVE UNCHANGED A!dvars
    BY <1>11, <1>d, <1>t DEF FinishCommit, WakeLog
  <1>12. ASSUME NEW b \in Block, Recycle(b) PROVE UNCHANGED A!dvars
    <2>1. cache' = cache BY <1>12, <1>g, RecycleLosesNothing DEF Recycle
    <2> QED BY <1>12, <1>t, <2>1 DEF Recycle
  <1>13. CASE Crash
    <2>1. Recovered' = Recovered /\ Ops' = {} /\ boot' # "up" BY <1>13 DEF Crash, Recovered, disk
    <2>2. M' = Recovered BY <2>1 DEF M
    <2>3. A!Crash BY <2>1, <2>2 DEF A!Crash, M
    <2> QED BY <2>3 DEF A!Next
  <1>14. CASE ReadHead
    <2>1. Recovered' = Recovered /\ Ops' = Ops /\ boot # "up" /\ boot' # "up"
      BY <1>14 DEF ReadHead, Recovered, disk
    <2>2. M' = M BY <2>1 DEF M
    <2> QED BY <1>s, <2>1, <2>2
  <1>15. CASE RecoverInstall
    <2>1. /\ boot # "up" /\ boot' # "up" /\ logdata' = logdata /\ head' = head /\ Ops' = Ops
          /\ home' = [home EXCEPT ![lh[tail]] = logdata[tail]]
      BY <1>15 DEF RecoverInstall
    <2>2. tail \in 1 .. Len(lh) BY <1>15, <1>a, TailInLog DEF RecoverInstall
    <2>3. head = lh /\ Distinct(lh) BY <1>15, <1>a DEF RecoverInstall, DataInv
    <2>4. Recovered' = Recovered
      <3>1. Overlay([home EXCEPT ![lh[tail]] = logdata[tail]], logdata, lh)
              = Overlay(home, logdata, lh)
        BY <1>g, <2>2, <2>3, OverlayInstall
      <3> QED BY <2>1, <2>2, <2>3, <3>1 DEF Recovered
    <2>5. M' = M BY <2>1, <2>4 DEF M
    <2> QED BY <1>s, <2>1, <2>4, <2>5
  <1>16. CASE RecoverClear
    <2>1. head = lh /\ Distinct(lh) /\ (\A i \in 1 .. Len(lh) : home[lh[i]] = logdata[i]) /\ cache = home
      BY <1>16, <1>a DEF RecoverClear, DataInv
    <2>2. Recovered' = Recovered /\ Recovered = home BY <1>9, <1>16, <2>1 DEF RecoverClear
    <2>3. Ops' = Ops /\ M' = M BY <1>16, <2>1, <2>2 DEF RecoverClear, M
    <2> QED BY <1>s, <2>2, <2>3
  <1>17. CASE UNCHANGED vars BY <1>17, <1>t DEF vars, disk
  <1> QED BY <1>1, <1>2, <1>3, <1>4, <1>5, <1>6, <1>7, <1>8, <1>10, <1>11, <1>12, <1>13,
             <1>14, <1>15, <1>16, <1>17
          DEF Next, CommitStep, Recover, A!Next

\* Crash atomicity: for any processes, blocks and log size, what the log and its
\* recovery do is what a disk does on which groups of calls commit in one step;
\* crashes at any moment, during commit() and during recovery included.
THEOREM LogIsAtomicDisk == Spec => AtomicDiskSpec
  BY Invariance, InitRefines, NextRefines, PTL DEF Spec, AtomicDiskSpec, A!Spec
=============================================================================
