-------------------------- MODULE ResourceProofs ---------------------------
(***************************************************************************)
(* Proofs about the three modules that share something out among           *)
(* claimants.  First Scheduler, which shares the harts among the           *)
(* processes: for any number of slots and harts, any tickets and any width *)
(* of int.  Then MyFS, which shares the blocks of a disk among the files:  *)
(* for any disk, any number of files and any names and arguments of        *)
(* commands.  Then Memory, which shares physical pages among page tables:  *)
(* for any number of pages and processes, any page tables of three levels  *)
(* and any programs that fit them.  The parts have no definition in common *)
(* but LeastNatural, and the last two the recursion over 0 .. n.           *)
(***************************************************************************)
EXTENDS Scheduler, MyFS, Memory, FiniteSetTheorems, SequenceTheorems, WellFoundedInduction,
        TLAPS

----------------------------------------------------------------------------
(* Scheduler                                                               *)

\* A hart has a process exactly while it is outside scheduler(), and a process
\* is RUNNING exactly when one hart has it.
RunInv ==
    /\ \A c \in Harts : cur[c] # 0 <=> spc[c] = "run"
    /\ OneHart

\* int addition stays inside int.
LEMMA AddIntType ==
    ASSUME NEW x \in Int, NEW y \in Int
    PROVE  AddInt(x, y) \in -MAXINT - 1 .. MAXINT
  <1> DEFINE m == 2 * MAXINT + 2
             z == x + y + MAXINT + 1
  <1>1. m \in Nat /\ m > 0 /\ z \in Int BY TicketAssumption
  <1>2. z % m \in 0 .. m - 1 BY <1>1
  <1> QED BY <1>2, TicketAssumption DEF AddInt

\* A draw is an int that is not negative.
LEMMA DrawsType ==
    ASSUME NEW n \in Int, n # 0, NEW w \in Draws(n), n \in -MAXINT - 1 .. MAXINT
    PROVE  w \in 0 .. MAXINT
  <1> DEFINE m == IF n < 0 THEN -n ELSE n
  <1>1. m \in Nat /\ m > 0 /\ m <= MAXINT + 1 BY TicketAssumption
  <1>2. PICK r \in 0 .. MAXINT : w = r % m BY DEF Draws
  <1>3. r % m \in 0 .. m - 1 BY <1>1, TicketAssumption
  <1> QED BY <1>1, <1>2, <1>3, TicketAssumption

\* Init is type correct and no hart runs anything.
LEMMA Init_Inv == Init => TypeOK /\ RunInv
  BY NPROCAssumption, TicketAssumption DEF Init, TypeOK, RunInv, OneHart, Slots

\* The sets the variables range over, as sets only.
Ints     == -MAXINT - 1 .. MAXINT
Winners  == 0 .. MAXINT
Amounts  == 1 .. MAXINT
Procs    == 0 .. NPROC
States   == {"BLOCKED", "RUNNABLE", "RUNNING"}
Places   == {"count", "draw", "pick", "wfi", "run"}

\* What the steps put into the variables is in those sets.
LEMMA Members ==
    /\ 0 \in Ints /\ 0 \in Winners /\ 0 \in Procs /\ 1 \in Slots /\ 0 \notin Slots
    /\ Slots \subseteq Procs /\ Tickets \subseteq Amounts
    /\ \A p \in Procs : p # 0 => p \in Slots
    /\ \A p \in Slots : p < NPROC => p + 1 \in Slots
    /\ {"BLOCKED", "RUNNABLE", "RUNNING"} \subseteq States
    /\ {"count", "draw", "pick", "wfi", "run"} \subseteq Places
  BY NPROCAssumption, TicketAssumption
     DEF Ints, Winners, Amounts, Procs, Slots, States, Places

\* The parts of TypeOK.
LEMMA Types ==
    ASSUME TypeOK
    PROVE  /\ state \in [Slots -> States] /\ ticket \in [Slots -> Amounts]
           /\ cur \in [Harts -> Procs] /\ spc \in [Harts -> Places] /\ at \in [Harts -> Slots]
           /\ total \in [Harts -> Ints] /\ winner \in [Harts -> Winners]
           /\ counter \in [Harts -> Ints] /\ stable \in [Harts -> BOOLEAN]
           /\ seen \in [Harts -> SUBSET Slots]
  BY DEF TypeOK, Ints, Winners, Amounts, Procs, States, Places

\* They make TypeOK up.
LEMMA TypesNext ==
    ASSUME state' \in [Slots -> States], ticket' \in [Slots -> Amounts],
           cur' \in [Harts -> Procs], spc' \in [Harts -> Places], at' \in [Harts -> Slots],
           total' \in [Harts -> Ints], winner' \in [Harts -> Winners],
           counter' \in [Harts -> Ints], stable' \in [Harts -> BOOLEAN],
           seen' \in [Harts -> SUBSET Slots]
    PROVE  TypeOK'
  BY DEF TypeOK, Ints, Winners, Amounts, Procs, States, Places

\* Sums of an int and tickets are ints.
LEMMA SumType ==
    ASSUME TypeOK, NEW x \in Ints, NEW p \in Slots
    PROVE  AddInt(x, ticket[p]) \in Ints
  <1>1. ticket[p] \in Amounts BY Types
  <1>2. x \in Int /\ ticket[p] \in Int BY <1>1, TicketAssumption DEF Ints, Amounts
  <1> QED BY <1>2, AddIntType DEF Ints

\* The start of the outer loop keeps the types.
LEMMA Again_Type ==
    ASSUME TypeOK, NEW c \in Harts, Again(c)
    PROVE  /\ spc' \in [Harts -> Places] /\ at' \in [Harts -> Slots]
           /\ total' \in [Harts -> Ints] /\ winner' \in [Harts -> Winners]
           /\ counter' \in [Harts -> Ints] /\ seen' \in [Harts -> SUBSET Slots]
  <1>1. /\ spc' = [spc EXCEPT ![c] = "count"] /\ at' = [at EXCEPT ![c] = 1]
        /\ total' = [total EXCEPT ![c] = 0] /\ winner' = [winner EXCEPT ![c] = 0]
        /\ counter' = [counter EXCEPT ![c] = 0] /\ seen' = [seen EXCEPT ![c] = {}]
    BY DEF Again
  <1>2. spc' \in [Harts -> Places] /\ at' \in [Harts -> Slots] BY <1>1, Types, Members
  <1>3. total' \in [Harts -> Ints] /\ winner' \in [Harts -> Winners] BY <1>1, Types, Members
  <1>4. counter' \in [Harts -> Ints] /\ seen' \in [Harts -> SUBSET Slots]
    BY <1>1, Types, Members
  <1> QED BY <1>2, <1>3, <1>4

\* Every step keeps the types of the table and of scheduler()'s variables.
LEMMA Next_Type ==
    ASSUME TypeOK, RunInv, [Next]_vars PROVE TypeOK'
  <1>1. ASSUME NEW c \in Harts, Count(c) PROVE TypeOK'
    <2>1. total[c] \in Ints /\ at[c] \in Slots BY Types
    <2>2. AddInt(total[c], ticket[at[c]]) \in Ints BY <2>1, SumType
    <2>3. total' \in [Harts -> Ints] BY <1>1, <2>2, Types DEF Count
    <2>4. seen' \in [Harts -> SUBSET Slots] BY <1>1, <2>1, Types DEF Count
    <2>5. stable' \in [Harts -> BOOLEAN] BY <1>1, Types DEF Count
    <2>6. at' \in [Harts -> Slots] /\ spc' \in [Harts -> Places]
      <3>1. \/ at[c] < NPROC /\ at' = [at EXCEPT ![c] = at[c] + 1] /\ spc' = spc
            \/ at' = [at EXCEPT ![c] = 1] /\ spc' = [spc EXCEPT ![c] = "draw"]
        BY <1>1 DEF Count
      <3>2. CASE at[c] < NPROC /\ at' = [at EXCEPT ![c] = at[c] + 1] /\ spc' = spc
        <4>1. at[c] + 1 \in Slots BY <2>1, <3>2, Members
        <4> QED BY <3>2, <4>1, Types
      <3>3. CASE at' = [at EXCEPT ![c] = 1] /\ spc' = [spc EXCEPT ![c] = "draw"]
        BY <3>3, Types, Members
      <3> QED BY <3>1, <3>2, <3>3
    <2>7. UNCHANGED <<state, ticket, cur, winner, counter>> BY <1>1 DEF Count, table
    <2> QED BY <2>3, <2>4, <2>5, <2>6, <2>7, Types, TypesNext
  <1>2. ASSUME NEW c \in Harts, Idle(c) PROVE TypeOK'
    <2>1. spc' \in [Harts -> Places] BY <1>2, Types, Members DEF Idle
    <2>2. UNCHANGED <<state, ticket, cur, at, total, winner, counter, stable, seen>>
      BY <1>2 DEF Idle, table
    <2> QED BY <2>1, <2>2, Types, TypesNext
  <1>3. ASSUME NEW c \in Harts, Again(c), UNCHANGED <<state, ticket, cur, stable>>
        PROVE  TypeOK'
    BY <1>3, Again_Type, Types, TypesNext
  <1>4. ASSUME NEW c \in Harts, NEW w \in Winners, DrawTicket(c, w) PROVE TypeOK'
    <2>1. spc' \in [Harts -> Places] BY <1>4, Types, Members DEF DrawTicket
    <2>2. winner' \in [Harts -> Winners] BY <1>4, Types DEF DrawTicket
    <2>3. UNCHANGED <<state, ticket, cur, at, total, counter, stable, seen>>
      BY <1>4 DEF DrawTicket, table
    <2> QED BY <2>1, <2>2, <2>3, Types, TypesNext
  <1>5. ASSUME NEW c \in Harts PROVE at[c] \in Slots /\ NewCounter(c) \in Ints
    <2>1. counter[c] \in Ints /\ at[c] \in Slots BY Types
    <2> QED BY <2>1, SumType DEF NewCounter
  <1>6. ASSUME NEW c \in Harts, Dispatch(c) PROVE TypeOK'
    <2>1. state' \in [Slots -> States] BY <1>5, <1>6, Types, Members DEF Dispatch
    <2>2. cur' \in [Harts -> Procs]
      <3>1. at[c] \in Procs BY <1>5, Members
      <3> QED BY <1>6, <3>1, Types DEF Dispatch
    <2>3. spc' \in [Harts -> Places] BY <1>6, Types, Members DEF Dispatch
    <2>4. counter' \in [Harts -> Ints] BY <1>5, <1>6, Types DEF Dispatch
    <2>5. stable' \in [Harts -> BOOLEAN] BY <1>6 DEF Dispatch, Disturb
    <2>6. UNCHANGED <<ticket, at, total, winner, seen>> BY <1>6 DEF Dispatch
    <2> QED BY <2>1, <2>2, <2>3, <2>4, <2>5, <2>6, Types, TypesNext
  <1>7. ASSUME NEW c \in Harts, Skip(c) PROVE TypeOK'
    <2>1. at' \in [Harts -> Slots]
      <3>1. at[c] + 1 \in Slots BY <1>5, <1>7, Members DEF Skip
      <3> QED BY <1>7, <3>1, Types DEF Skip
    <2>2. counter' \in [Harts -> Ints] BY <1>5, <1>7, Types DEF Skip
    <2>3. UNCHANGED <<state, ticket, cur, spc, total, winner, stable, seen>>
      BY <1>7 DEF Skip, table
    <2> QED BY <2>1, <2>2, <2>3, Types, TypesNext
  <1>8. ASSUME NEW c \in Harts, NEW s \in {"RUNNABLE", "BLOCKED"}, SwitchBack(c, s)
        PROVE TypeOK'
    <2>1. state' = [state EXCEPT ![cur[c]] = s] /\ cur' = [cur EXCEPT ![c] = 0]
      BY <1>8 DEF SwitchBack
    <2>2. s \in States BY Members
    <2>3. state' \in [Slots -> States] BY <2>1, <2>2, Types
    <2>4. cur' \in [Harts -> Procs] BY <2>1, Types, Members
    <2>5. stable' \in [Harts -> BOOLEAN] BY <1>8 DEF SwitchBack, Disturb
    <2>6. Again(c) /\ ticket' = ticket BY <1>8 DEF SwitchBack
    <2> QED BY <2>3, <2>4, <2>5, <2>6, Again_Type, Types, TypesNext
  <1>9. ASSUME NEW p \in Slots, Wakeup(p) PROVE TypeOK'
    <2>1. state' \in [Slots -> States] BY <1>9, Types, Members DEF Wakeup
    <2>2. stable' \in [Harts -> BOOLEAN] BY <1>9 DEF Wakeup, Disturb
    <2>3. UNCHANGED <<ticket, cur, spc, at, total, winner, counter, seen>>
      BY <1>9 DEF Wakeup
    <2> QED BY <2>1, <2>2, <2>3, Types, TypesNext
  <1>10. ASSUME NEW p \in Slots, NEW n \in Tickets, SetTickets(p, n) PROVE TypeOK'
    <2>1. ticket' \in [Slots -> Amounts] BY <1>10, Types, Members DEF SetTickets
    <2>2. stable' \in [Harts -> BOOLEAN] BY <1>10 DEF SetTickets, Disturb
    <2>3. UNCHANGED <<state, cur, spc, at, total, winner, counter, seen>>
      BY <1>10 DEF SetTickets
    <2> QED BY <2>1, <2>2, <2>3, Types, TypesNext
  <1>11. CASE UNCHANGED vars BY <1>11, Types, TypesNext DEF vars
  <1> QED BY <1>1, <1>2, <1>3, <1>4, <1>6, <1>7, <1>8, <1>9, <1>10, <1>11
          DEF Next, SchedStep, Interrupt, NoWinner, Winners, table

\* A step inside scheduler() that takes no process leaves who runs what alone.
LEMMA SameRun ==
    ASSUME RunInv, state' = state, cur' = cur,
           \A c \in Harts : spc'[c] = "run" <=> spc[c] = "run"
    PROVE  RunInv'
  BY DEF RunInv, OneHart

\* Every step keeps one hart per running process: a hart takes a process only
\* while it is RUNNABLE, and makes it RUNNING under the same p->lock.
LEMMA Next_Run ==
    ASSUME TypeOK, RunInv, [Next]_vars PROVE RunInv'
  <1>t. /\ state \in [Slots -> States] /\ cur \in [Harts -> Procs]
        /\ spc \in [Harts -> Places] /\ at \in [Harts -> Slots]
    BY Types
  <1>r. /\ \A c \in Harts : cur[c] # 0 <=> spc[c] = "run"
        /\ \A p \in Slots : /\ state[p] = "RUNNING" <=> \E c \in Harts : cur[c] = p
                            /\ \A c, d \in Harts : cur[c] = p /\ cur[d] = p => c = d
    BY DEF RunInv, OneHart
  <1>1. ASSUME NEW c \in Harts, Count(c) PROVE RunInv'
    <2>1. \/ spc' = spc
          \/ spc[c] = "count" /\ spc' = [spc EXCEPT ![c] = "draw"]
      BY <1>1 DEF Count
    <2>2. \A d \in Harts : spc'[d] = "run" <=> spc[d] = "run" BY <1>t, <2>1
    <2>3. state' = state /\ cur' = cur BY <1>1 DEF Count, table
    <2> QED BY <2>2, <2>3, SameRun
  <1>2. ASSUME NEW c \in Harts, Idle(c) PROVE RunInv'
    <2>1. \A d \in Harts : spc'[d] = "run" <=> spc[d] = "run" BY <1>t, <1>2 DEF Idle
    <2>2. state' = state /\ cur' = cur BY <1>2 DEF Idle, table
    <2> QED BY <2>1, <2>2, SameRun
  <1>3. ASSUME NEW c \in Harts, spc[c] # "run", Again(c), UNCHANGED <<state, ticket, cur, stable>>
        PROVE  RunInv'
    <2>1. \A d \in Harts : spc'[d] = "run" <=> spc[d] = "run" BY <1>t, <1>3 DEF Again
    <2> QED BY <1>3, <2>1, SameRun
  <1>4. ASSUME NEW c \in Harts, NEW w \in 0 .. MAXINT, DrawTicket(c, w) PROVE RunInv'
    <2>1. \A d \in Harts : spc'[d] = "run" <=> spc[d] = "run" BY <1>t, <1>4 DEF DrawTicket
    <2>2. state' = state /\ cur' = cur BY <1>4 DEF DrawTicket, table
    <2> QED BY <2>1, <2>2, SameRun
  <1>5. ASSUME NEW c \in Harts, Dispatch(c) PROVE RunInv'
    <2>0. spc[c] = "pick" /\ state[at[c]] = "RUNNABLE" BY <1>5 DEF Dispatch, Wins
    <2>1. at[c] \in Slots /\ at[c] # 0 /\ cur[c] = 0 BY <1>t, <1>r, <2>0, Members
    <2>2. \A d \in Harts : cur[d] # at[c] BY <1>r, <2>0, <2>1
    <2>3. /\ cur' = [cur EXCEPT ![c] = at[c]]
          /\ state' = [state EXCEPT ![at[c]] = "RUNNING"]
          /\ spc' = [spc EXCEPT ![c] = "run"]
      BY <1>5 DEF Dispatch
    <2>4. \A d \in Harts : cur'[d] # 0 <=> spc'[d] = "run" BY <1>t, <1>r, <2>1, <2>3
    <2>5. ASSUME NEW p \in Slots
          PROVE /\ state'[p] = "RUNNING" <=> \E d \in Harts : cur'[d] = p
                /\ \A d, e \in Harts : cur'[d] = p /\ cur'[e] = p => d = e
      <3>1. CASE p = at[c]
        <4>1. state'[p] = "RUNNING" /\ cur'[c] = p BY <1>t, <2>3, <3>1
        <4>2. \A d \in Harts \ {c} : cur'[d] # p BY <1>t, <2>2, <2>3, <3>1
        <4> QED BY <4>1, <4>2
      <3>2. CASE p # at[c]
        <4>1. p # 0 BY Members
        <4>2. \A d \in Harts : cur'[d] = p <=> cur[d] = p BY <1>t, <2>1, <2>3, <3>2, <4>1
        <4>3. state'[p] = state[p] BY <1>t, <2>3, <3>2
        <4> QED BY <1>r, <4>2, <4>3
      <3> QED BY <3>1, <3>2
    <2> QED BY <2>4, <2>5 DEF RunInv, OneHart
  <1>6. ASSUME NEW c \in Harts, Skip(c) PROVE RunInv'
    <2>1. state' = state /\ cur' = cur /\ spc' = spc BY <1>6 DEF Skip, table
    <2> QED BY <2>1, SameRun
  <1>7. ASSUME NEW c \in Harts, NEW s \in {"RUNNABLE", "BLOCKED"}, SwitchBack(c, s)
        PROVE RunInv'
    <2>1. /\ spc[c] = "run" /\ s # "RUNNING"
          /\ cur' = [cur EXCEPT ![c] = 0] /\ state' = [state EXCEPT ![cur[c]] = s]
          /\ spc' = [spc EXCEPT ![c] = "count"]
      BY <1>7 DEF SwitchBack, Again
    <2>2. cur[c] # 0 /\ cur[c] \in Slots BY <1>t, <1>r, <2>1, Members
    <2>3. \A d \in Harts : cur'[d] # 0 <=> spc'[d] = "run" BY <1>t, <1>r, <2>1
    <2>4. ASSUME NEW p \in Slots
          PROVE /\ state'[p] = "RUNNING" <=> \E d \in Harts : cur'[d] = p
                /\ \A d, e \in Harts : cur'[d] = p /\ cur'[e] = p => d = e
      <3>1. p # 0 BY Members
      <3>2. CASE p = cur[c]
        <4>1. state'[p] # "RUNNING" BY <1>t, <2>1, <2>2, <3>2
        <4>2. \A d \in Harts : cur'[d] # p BY <1>t, <1>r, <2>1, <3>1, <3>2
        <4> QED BY <4>1, <4>2
      <3>3. CASE p # cur[c]
        <4>1. \A d \in Harts : cur'[d] = p <=> cur[d] = p BY <1>t, <2>1, <3>1, <3>3
        <4>2. state'[p] = state[p] BY <1>t, <2>1, <2>2, <3>3
        <4> QED BY <1>r, <4>1, <4>2
      <3> QED BY <3>2, <3>3
    <2> QED BY <2>3, <2>4 DEF RunInv, OneHart
  <1>8. ASSUME NEW p \in Slots, Wakeup(p) PROVE RunInv'
    <2>1. /\ state[p] = "BLOCKED" /\ state' = [state EXCEPT ![p] = "RUNNABLE"]
          /\ cur' = cur /\ spc' = spc
      BY <1>8 DEF Wakeup
    <2>2. \A q \in Slots : state'[q] = "RUNNING" <=> state[q] = "RUNNING" BY <1>t, <2>1
    <2> QED BY <1>r, <2>1, <2>2 DEF RunInv, OneHart
  <1>9. ASSUME NEW p \in Slots, NEW n \in Tickets, SetTickets(p, n) PROVE RunInv'
    <2>1. state' = state /\ cur' = cur /\ spc' = spc BY <1>9 DEF SetTickets
    <2> QED BY <2>1, SameRun
  <1>10. CASE UNCHANGED vars
    <2>1. state' = state /\ cur' = cur /\ spc' = spc BY <1>10 DEF vars
    <2> QED BY <2>1, SameRun
  <1>11. ASSUME NEW c \in Harts, Interrupt(c) \/ NoWinner(c) PROVE RunInv'
    <2>1. spc[c] # "run" /\ Again(c) /\ UNCHANGED <<state, ticket, cur, stable>>
      BY <1>11 DEF Interrupt, NoWinner, table
    <2> QED BY <1>3, <2>1
  <1> QED BY <1>1, <1>2, <1>4, <1>5, <1>6, <1>7, <1>8, <1>9, <1>10, <1>11 DEF Next, SchedStep

\* The lottery's variables stay ints and slots in every reachable state, wrapped
\* sums included.
THEOREM TypeCorrect == Spec => []TypeOK
  BY Init_Inv, Next_Type, Next_Run, PTL DEF Spec

\* However the walks of any number of harts interleave with wakeups, blocking and
\* settickets(), no two harts run the same process, and RUNNING means that one does.
THEOREM OneHartHolds == Spec => []OneHart
  <1>1. RunInv => OneHart BY DEF RunInv
  <1> QED BY <1>1, Init_Inv, Next_Type, Next_Run, PTL DEF Spec

----------------------------------------------------------------------------
(* The first walk when no sum can overflow                                 *)

\* Nobody holds more than M tickets, and a full table of them still adds up to
\* an int.
Fits(M) ==
    /\ M \in Nat
    /\ Tickets \subseteq 1 .. M
    /\ InitTicket <= M
    /\ NPROC * M <= MAXINT

\* total_tickets is the sum of at most M tickets for each slot the walk has
\* passed, and it is 0 only if none of them was runnable.
SumInv(M) ==
    /\ \A p \in Slots : ticket[p] <= M
    /\ \A c \in Harts :
        /\ spc[c] = "count" => 0 <= total[c] /\ total[c] <= (at[c] - 1) * M
        /\ spc[c] = "draw" => 0 <= total[c] /\ total[c] <= NPROC * M
        /\ spc[c] \in {"count", "draw"} => (total[c] = 0 => seen[c] = {})
        /\ spc[c] = "wfi" => seen[c] = {}

\* A sum that fits is the sum: AddInt() wraps only past MAXINT.
LEMMA AddIntExact ==
    ASSUME NEW x \in Nat, NEW y \in Nat, x + y <= MAXINT
    PROVE  AddInt(x, y) = x + y
  <1> DEFINE m == 2 * MAXINT + 2
             z == x + y + MAXINT + 1
  <1>1. m \in Nat /\ m > 0 /\ z \in Nat /\ z < m BY TicketAssumption
  <1>2. z % m = z BY <1>1
  <1> QED BY <1>2, TicketAssumption DEF AddInt

\* The first slots of the table hold no more tickets than the whole table.
LEMMA SlotTickets ==
    ASSUME NEW M, Fits(M), NEW i \in Slots
    PROVE  /\ (i - 1) * M \in Nat /\ i * M \in Nat
           /\ (i - 1) * M + M = i * M
           /\ i * M <= NPROC * M
           /\ i * M <= MAXINT
  <1> USE NPROCAssumption, TicketAssumption DEF Fits, Slots
  <1>1. (i - 1) * M \in Nat /\ i * M \in Nat OBVIOUS
  <1>2. (i - 1) * M + M = i * M OBVIOUS
  <1>3. PICK k \in Nat : NPROC = i + k
    <2>1. NPROC - i \in Nat /\ NPROC = i + (NPROC - i) OBVIOUS
    <2> QED BY <2>1
  <1>4. NPROC * M = i * M + k * M /\ k * M \in Nat BY <1>3
  <1> QED BY <1>1, <1>2, <1>4

\* Every step keeps the sum of the first walk exact.
LEMMA Next_Sum ==
    ASSUME NEW M, Fits(M), TypeOK, SumInv(M), [Next]_vars PROVE SumInv(M)'
  <1> USE NPROCAssumption, TicketAssumption DEF TypeOK, SumInv, Slots
  <1>a. M \in Nat /\ NPROC * M \in Nat BY SlotTickets DEF Fits
  <1>1. ASSUME NEW c \in Harts, Count(c) PROVE SumInv(M)'
    <2> DEFINE p == at[c]
    <2>1. p \in 1 .. NPROC /\ total[c] \in Int /\ spc[c] = "count" /\ ticket[p] \in 1 .. MAXINT
      BY <1>1 DEF Count
    <2>2. /\ (p - 1) * M \in Nat /\ p * M \in Nat
          /\ (p - 1) * M + M = p * M /\ p * M <= NPROC * M /\ p * M <= MAXINT
      BY <2>1, SlotTickets
    <2>3. 0 <= total[c] /\ total[c] <= (p - 1) * M /\ ticket[p] <= M /\ 1 <= ticket[p]
      BY <2>1
    <2> HIDE DEF p, TypeOK, SumInv, Slots
    <2>4. AddInt(total[c], ticket[p]) = total[c] + ticket[p]
      <3>1. total[c] \in Nat /\ ticket[p] \in Nat BY <2>1, <2>3
      <3>2. total[c] + ticket[p] <= (p - 1) * M + M BY <1>a, <2>2, <2>3, <3>1
      <3>3. total[c] + ticket[p] <= MAXINT BY <2>2, <3>1, <3>2
      <3> QED BY <3>1, <3>3, AddIntExact
    <2>5. /\ total'[c] \in Int /\ 0 <= total'[c] /\ total'[c] <= p * M
          /\ total'[c] = 0 => seen'[c] = {}
      <3>1. CASE state[p] = "RUNNABLE"
        <4>1. total'[c] = total[c] + ticket[p] BY <1>1, <2>4, <3>1 DEF Count, p, TypeOK
        <4>2. total[c] + ticket[p] <= (p - 1) * M + M BY <1>a, <2>1, <2>2, <2>3
        <4> QED BY <2>1, <2>2, <2>3, <4>1, <4>2
      <3>2. CASE state[p] # "RUNNABLE"
        <4>1. total'[c] = total[c] /\ seen'[c] = seen[c] BY <1>1, <3>2 DEF Count, p, TypeOK
        <4>2. total[c] = 0 => seen[c] = {} BY <2>1 DEF SumInv
        <4>3. total[c] <= p * M BY <1>a, <2>1, <2>2, <2>3
        <4> QED BY <2>1, <2>3, <4>1, <4>2, <4>3
      <3> QED BY <3>1, <3>2
    <2>6. \/ p < NPROC /\ at'[c] = p + 1 /\ spc'[c] = "count"
          \/ spc'[c] = "draw"
      BY <1>1, <2>1 DEF Count, p, TypeOK
    <2>7. /\ spc'[c] = "count" => total'[c] <= (at'[c] - 1) * M
          /\ spc'[c] = "draw" => total'[c] <= NPROC * M
          /\ spc'[c] # "wfi"
      <3>1. CASE p < NPROC /\ at'[c] = p + 1 /\ spc'[c] = "count"
        <4>1. at'[c] - 1 = p BY <2>1, <3>1
        <4> QED BY <2>5, <3>1, <4>1
      <3>2. CASE spc'[c] = "draw" BY <1>a, <2>2, <2>5, <3>2
      <3> QED BY <2>6, <3>1, <3>2
    <2>8. ASSUME NEW d \in Harts, d # c
          PROVE /\ spc'[d] = spc[d] /\ total'[d] = total[d]
                /\ seen'[d] = seen[d] /\ at'[d] = at[d]
      BY <1>1, <2>8 DEF Count, TypeOK
    <2>9. ticket' = ticket BY <1>1 DEF Count, table
    <2> QED BY <2>5, <2>7, <2>8, <2>9 DEF SumInv
  <1>2. ASSUME NEW c \in Harts, Idle(c) PROVE SumInv(M)' BY <1>2 DEF Idle, table
  <1>3. ASSUME NEW c \in Harts, Again(c), UNCHANGED ticket PROVE SumInv(M)'
    <2>1. (1 - 1) * M = 0 BY <1>a
    <2>2. spc'[c] = "count" /\ at'[c] = 1 /\ total'[c] = 0 /\ seen'[c] = {} BY <1>3 DEF Again
    <2>3. \A d \in Harts \ {c} : /\ spc'[d] = spc[d] /\ at'[d] = at[d]
                                 /\ total'[d] = total[d] /\ seen'[d] = seen[d]
      BY <1>3 DEF Again
    <2> HIDE DEF TypeOK
    <2> QED BY <1>3, <2>1, <2>2, <2>3
  <1>4. ASSUME NEW c \in Harts, NEW w \in 0 .. MAXINT, DrawTicket(c, w) PROVE SumInv(M)'
    BY <1>4 DEF DrawTicket, table
  <1>5. ASSUME NEW c \in Harts, Dispatch(c) PROVE SumInv(M)'
    BY <1>5 DEF Dispatch
  <1>6. ASSUME NEW c \in Harts, Skip(c) PROVE SumInv(M)'
    BY <1>6 DEF Skip, table
  <1>7. ASSUME NEW p \in Slots, Wakeup(p) PROVE SumInv(M)' BY <1>7 DEF Wakeup
  <1>8. ASSUME NEW p \in Slots, NEW n \in Tickets, SetTickets(p, n) PROVE SumInv(M)'
    <2>1. n <= M BY DEF Fits
    <2> QED BY <1>8, <2>1 DEF SetTickets
  <1>9. CASE UNCHANGED vars BY <1>9 DEF vars
  <1> HIDE DEF TypeOK, SumInv
  <1> QED BY <1>1, <1>2, <1>3, <1>4, <1>5, <1>6, <1>7, <1>8, <1>9
          DEF Next, SchedStep, Interrupt, NoWinner, SwitchBack, table

\* Whatever the number of slots and harts, a hart stops only if its walk met no
\* runnable process, as long as NPROC times the most tickets anyone asks for is an
\* int.  (Without that hypothesis it is false: run scheduler_wrap.)
THEOREM IdleOnlyWhenEmptyHolds ==
    ASSUME NEW M, Fits(M)
    PROVE  Spec => []IdleOnlyWhenEmpty
  <1>1. Init => SumInv(M)
    <2>1. (1 - 1) * M = 0 /\ NPROC * M \in Nat BY NPROCAssumption DEF Fits
    <2> QED BY <2>1 DEF Init, SumInv, Fits
  <1>2. TypeOK /\ SumInv(M) /\ [Next]_vars => SumInv(M)' BY Next_Sum
  <1>3. SumInv(M) => IdleOnlyWhenEmpty BY DEF SumInv, IdleOnlyWhenEmpty
  <1> QED BY <1>1, <1>2, <1>3, TypeCorrect, PTL DEF Spec

----------------------------------------------------------------------------
(* The draw                                                                *)

\* A set of naturals that is not empty has a least element.
LEMMA LeastNatural ==
    ASSUME NEW T, T \subseteq Nat, T # {}
    PROVE  \E x \in T : \A y \in T : x <= y
  <1>1. \E x \in T : \A y \in T : ~(<<y, x>> \in OpToRel(<, Nat))
    BY NatLessThanWellFounded, WFMin
  <1>2. PICK x \in T : \A y \in T : ~(<<y, x>> \in OpToRel(<, Nat)) BY <1>1
  <1>3. \A y \in T : y \in Nat /\ x \in Nat BY <1>2
  <1>4. \A y \in T : ~(y < x) BY <1>2, <1>3 DEF OpToRel
  <1> QED BY <1>3, <1>4

\* The recursive sum exists: by induction on the number of slots.
LEMMA SumExists ==
    ASSUME NEW w \in [Slots -> Nat]
    PROVE  \E f : f = [i \in 1 .. NPROC + 1 |-> IF i = 1 THEN 0 ELSE f[i - 1] + w[i - 1]]
  <1> USE NPROCAssumption DEF Slots
  <1> DEFINE Good(n, f) ==
        f \in [1 .. n + 1 -> Nat] /\ f[1] = 0 /\ \A i \in 2 .. n + 1 : f[i] = f[i - 1] + w[i - 1]
      Bad == {n \in Nat : n <= NPROC /\ \A f : ~Good(n, f)}
  <1>1. Bad = {}
    <2> SUFFICES ASSUME Bad # {} PROVE FALSE OBVIOUS
    <2>1. PICK n \in Bad : \A m \in Bad : n <= m BY LeastNatural
    <2>2. n \in Nat /\ n <= NPROC /\ \A f : ~Good(n, f) OBVIOUS
    <2>3. n # 0
      <3>1. Good(0, [i \in 1 .. 1 |-> 0]) OBVIOUS
      <3> QED BY <2>2, <3>1
    <2>4. n - 1 \in Nat /\ n - 1 <= NPROC /\ ~(n <= n - 1) BY <2>2, <2>3
    <2>5. PICK f : Good(n - 1, f)
      <3> HIDE DEF Good
      <3>1. n - 1 \notin Bad BY <2>1, <2>4 DEF Bad
      <3> QED BY <2>4, <3>1
    <2>6. /\ f \in [1 .. n -> Nat] /\ f[1] = 0 /\ w[n] \in Nat /\ f[n] \in Nat
          /\ \A i \in 2 .. n : f[i] = f[i - 1] + w[i - 1]
      <3>1. n - 1 + 1 = n BY <2>2
      <3>2. n \in 1 .. n /\ n \in Slots BY <2>2, <2>3
      <3> QED BY <2>5, <3>1, <3>2
    <2> DEFINE g == [i \in 1 .. n + 1 |-> IF i = n + 1 THEN f[n] + w[n] ELSE f[i]]
    <2>7. \A i \in 1 .. n : g[i] = f[i] /\ f[i] \in Nat BY <2>2, <2>6
    <2>8. g[n + 1] = f[n] + w[n] BY <2>2
    <2>9. g \in [1 .. n + 1 -> Nat]
      <3>1. \A i \in 1 .. n + 1 : i = n + 1 \/ i \in 1 .. n BY <2>2
      <3>2. f[n] + w[n] \in Nat BY <2>6
      <3> QED BY <2>6, <2>7, <3>1, <3>2
    <2>10. g[1] = 0 BY <2>2, <2>3, <2>6, <2>7
    <2> HIDE DEF g
    <2>11. ASSUME NEW i \in 2 .. n + 1 PROVE g[i] = g[i - 1] + w[i - 1]
      <3>1. i - 1 \in 1 .. n BY <2>2
      <3>2. g[i - 1] = f[i - 1] BY <2>7, <3>1
      <3>3. CASE i = n + 1
        <4>1. i - 1 = n BY <2>2, <3>3
        <4> QED BY <2>8, <3>2, <3>3, <4>1
      <3>4. CASE i # n + 1
        <4>1. i \in 2 .. n /\ i \in 1 .. n BY <2>2, <3>4
        <4> QED BY <2>6, <2>7, <3>2, <4>1
      <3> QED BY <3>3, <3>4
    <2>12. Good(n, g) BY <2>9, <2>10, <2>11
    <2> QED BY <2>2, <2>12
  <1>2. PICK f : Good(NPROC, f)
    <2> HIDE DEF Good
    <2> QED BY <1>1
  <1>3. \A i \in 1 .. NPROC + 1 : f[i] = IF i = 1 THEN 0 ELSE f[i - 1] + w[i - 1]
    <2>1. \A i \in 1 .. NPROC + 1 : i = 1 \/ i \in 2 .. NPROC + 1 OBVIOUS
    <2> QED BY <1>2, <2>1
  <1>4. f = [i \in 1 .. NPROC + 1 |-> f[i]] BY <1>2
  <1>5. f = [i \in 1 .. NPROC + 1 |-> IF i = 1 THEN 0 ELSE f[i - 1] + w[i - 1]]
    BY <1>3, <1>4
  <1> QED BY <1>5

\* What the recursive sum computes.
LEMMA SumSteps ==
    ASSUME NEW w \in [Slots -> Nat]
    PROVE  /\ SumBefore(w, 1) = 0
           /\ \A p \in Slots : SumBefore(w, p + 1) = SumBefore(w, p) + w[p]
  <1> USE NPROCAssumption DEF Slots
  <1> DEFINE sum[i \in 1 .. NPROC + 1] == IF i = 1 THEN 0 ELSE sum[i - 1] + w[i - 1]
  <1>1. sum = [i \in 1 .. NPROC + 1 |-> IF i = 1 THEN 0 ELSE sum[i - 1] + w[i - 1]]
    BY SumExists
  <1>2. \A n : SumBefore(w, n) = sum[n] BY DEF SumBefore
  <1> HIDE DEF sum
  <1>3. sum[1] = 0
    <2>1. 1 \in 1 .. NPROC + 1 OBVIOUS
    <2> QED BY <1>1, <2>1
  <1>4. ASSUME NEW p \in Slots PROVE sum[p + 1] = sum[p] + w[p]
    <2>1. p + 1 \in 1 .. NPROC + 1 /\ p + 1 # 1 /\ p + 1 - 1 = p OBVIOUS
    <2> QED BY <1>1, <2>1
  <1> QED BY <1>2, <1>3, <1>4

\* Tickets that fit: no partial sum leaves int.
LEMMA SumFits ==
    ASSUME NEW M, Fits(M), NEW w \in [Slots -> 0 .. M], NEW n \in 1 .. NPROC + 1
    PROVE  SumBefore(w, n) \in Nat /\ SumBefore(w, n) <= (n - 1) * M
  <1> USE NPROCAssumption DEF Slots
  <1> DEFINE Good(k) == SumBefore(w, k) \in Nat /\ SumBefore(w, k) <= (k - 1) * M
             Bad == {k \in Nat : k \in 1 .. NPROC + 1 /\ ~Good(k)}
  <1>a. M \in Nat /\ w \in [Slots -> Nat] BY DEF Fits
  <1>b. /\ SumBefore(w, 1) = 0
        /\ \A p \in Slots : SumBefore(w, p + 1) = SumBefore(w, p) + w[p]
    BY <1>a, SumSteps
  <1>1. Bad = {}
    <2> SUFFICES ASSUME Bad # {} PROVE FALSE OBVIOUS
    <2>1. PICK k \in Bad : \A m \in Bad : k <= m BY LeastNatural
    <2>2. k \in Nat /\ k \in 1 .. NPROC + 1 /\ ~Good(k) OBVIOUS
    <2>3. Good(1)
      <3>1. (1 - 1) * M = 0 BY <1>a
      <3> QED BY <1>b, <3>1
    <2>4. k # 1 BY <2>2, <2>3
    <2>5. PICK p \in Slots : k = p + 1
      <3>1. k - 1 \in Slots /\ k = (k - 1) + 1 BY <2>2, <2>4
      <3> QED BY <3>1
    <2>6. Good(p)
      <3>1. p \in Nat /\ p \in 1 .. NPROC + 1 /\ ~(k <= p) BY <2>5
      <3> QED BY <2>1, <3>1
    <2>7. w[p] \in Nat /\ w[p] <= M BY <1>a
    <2>8. (p - 1) * M + M = p * M /\ (p - 1) * M \in Nat /\ p * M \in Nat BY SlotTickets
    <2>9. SumBefore(w, k) = SumBefore(w, p) + w[p] BY <1>b, <2>5
    <2>10. (k - 1) * M = p * M
      <3>1. k - 1 = p BY <2>5
      <3> QED BY <3>1
    <2>11. Good(k)
      <3>0. SumBefore(w, p) \in Nat /\ SumBefore(w, p) <= (p - 1) * M BY <2>6
      <3> HIDE DEF Good, Bad, Slots
      <3>1. SumBefore(w, p) + w[p] \in Nat /\ SumBefore(w, p) + w[p] <= (p - 1) * M + M
        BY <1>a, <2>7, <2>8, <3>0
      <3> QED BY <2>8, <2>9, <2>10, <3>1 DEF Good
    <2> QED BY <2>2, <2>11
  <1>2. n \in Nat OBVIOUS
  <1> QED BY <1>1, <1>2

\* While the table stays as the first walk found it, the walks compute its sums,
\* and the ticket drawn lies between the sum so far and the sum of all.
DrawInv ==
    \A c \in Harts :
        /\ spc[c] \in {"count", "draw"} => counter[c] = 0
        /\ spc[c] = "draw" => at[c] = 1
        /\ stable[c] /\ spc[c] = "count" => total[c] = SumBefore(Weight, at[c])
        /\ stable[c] /\ spc[c] = "draw" => total[c] = SumBefore(Weight, NPROC + 1)
        /\ stable[c] /\ spc[c] = "pick" =>
            /\ counter[c] = SumBefore(Weight, at[c])
            /\ counter[c] <= winner[c]
            /\ winner[c] < SumBefore(Weight, NPROC + 1)

\* The sums of the table in any state that fits.
LEMMA TableSums ==
    ASSUME NEW M, Fits(M), TypeOK, SumInv(M)
    PROVE  /\ SumBefore(Weight, 1) = 0
           /\ \A n \in 1 .. NPROC + 1 : SumBefore(Weight, n) \in Nat /\ SumBefore(Weight, n) <= MAXINT
           /\ \A p \in Slots : SumBefore(Weight, p + 1) = SumBefore(Weight, p) +
                                 IF state[p] = "RUNNABLE" THEN ticket[p] ELSE 0
  <1> USE NPROCAssumption, TicketAssumption DEF Slots
  <1>1. M \in Nat /\ NPROC * M \in Nat /\ NPROC * M <= MAXINT BY SlotTickets DEF Fits
  <1>2. Weight \in [Slots -> 0 .. M] BY <1>1 DEF Weight, TypeOK, SumInv
  <1>3. Weight \in [Slots -> Nat] BY <1>1, <1>2
  <1>4. ASSUME NEW n \in 1 .. NPROC + 1
        PROVE  SumBefore(Weight, n) \in Nat /\ SumBefore(Weight, n) <= MAXINT
    <2>1. SumBefore(Weight, n) \in Nat /\ SumBefore(Weight, n) <= (n - 1) * M
      BY <1>2, SumFits
    <2>2. (n - 1) * M \in Nat /\ (n - 1) * M <= NPROC * M
      <3>1. CASE n = NPROC + 1
        <4>1. n - 1 = NPROC BY <3>1
        <4> QED BY <1>1, <4>1
      <3>2. CASE n # NPROC + 1
        <4>1. n \in Slots BY <3>2
        <4>2. (n - 1) * M \in Nat /\ (n - 1) * M + M = n * M /\ n * M <= NPROC * M /\ n * M \in Nat
          BY <4>1, SlotTickets
        <4> QED BY <1>1, <4>2
      <3> QED BY <3>1, <3>2
    <2> QED BY <1>1, <2>1, <2>2
  <1>5. \A p \in Slots : SumBefore(Weight, p + 1) = SumBefore(Weight, p) + Weight[p]
    BY <1>3, SumSteps
  <1>6. SumBefore(Weight, 1) = 0 BY <1>3, SumSteps
  <1> QED BY <1>4, <1>5, <1>6 DEF Weight

\* On an unchanged table the second walk's sum after a slot is the exact sum.
LEMMA ExactSum ==
    ASSUME NEW M, Fits(M), TypeOK, SumInv(M), DrawInv, NEW c \in Harts,
           stable[c], spc[c] = "pick"
    PROVE  NewCounter(c) = SumBefore(Weight, at[c] + 1)
  <1> USE NPROCAssumption, TicketAssumption DEF Slots
  <1>1. at[c] \in Slots /\ ticket[at[c]] \in Nat BY DEF TypeOK
  <1>2. counter[c] = SumBefore(Weight, at[c]) BY DEF DrawInv
  <1>3. at[c] \in 1 .. NPROC + 1 /\ at[c] + 1 \in 1 .. NPROC + 1 BY <1>1
  <1>4. /\ SumBefore(Weight, at[c]) \in Nat
        /\ SumBefore(Weight, at[c] + 1) \in Nat
        /\ SumBefore(Weight, at[c] + 1) <= MAXINT
        /\ SumBefore(Weight, at[c] + 1) = SumBefore(Weight, at[c]) +
             IF state[at[c]] = "RUNNABLE" THEN ticket[at[c]] ELSE 0
    BY <1>1, <1>3, TableSums
  <1>5. CASE state[at[c]] = "RUNNABLE"
    <2>1. counter[c] + ticket[at[c]] <= MAXINT BY <1>2, <1>4, <1>5
    <2>2. AddInt(counter[c], ticket[at[c]]) = counter[c] + ticket[at[c]]
      BY <1>1, <1>2, <1>4, <2>1, AddIntExact
    <2> QED BY <1>2, <1>4, <1>5, <2>2 DEF NewCounter
  <1>6. CASE state[at[c]] # "RUNNABLE" BY <1>2, <1>4, <1>6 DEF NewCounter
  <1> QED BY <1>5, <1>6

\* Every step keeps the walks of an unchanged table exact; a step that changes the
\* table says so to every hart.
LEMMA Next_Draw ==
    ASSUME NEW M, Fits(M), TypeOK, SumInv(M), DrawInv, [Next]_vars PROVE DrawInv'
  <1> USE NPROCAssumption, TicketAssumption DEF Slots
  <1>a. /\ SumBefore(Weight, 1) = 0
        /\ \A n \in 1 .. NPROC + 1 : SumBefore(Weight, n) \in Nat /\ SumBefore(Weight, n) <= MAXINT
        /\ \A p \in Slots : SumBefore(Weight, p + 1) = SumBefore(Weight, p) +
                              IF state[p] = "RUNNABLE" THEN ticket[p] ELSE 0
    BY TableSums
  <1>b. table' = table => Weight' = Weight BY DEF table, Weight
  \* the hart that takes a step, and the others
  <1>c. ASSUME NEW c \in Harts, table' = table,
               \A d \in Harts : d # c =>
                   /\ spc'[d] = spc[d] /\ at'[d] = at[d] /\ total'[d] = total[d]
                   /\ winner'[d] = winner[d] /\ counter'[d] = counter[d] /\ stable'[d] = stable[d],
               spc'[c] \in {"count", "draw"} => counter'[c] = 0,
               spc'[c] = "draw" => at'[c] = 1,
               stable'[c] /\ spc'[c] = "count" => total'[c] = SumBefore(Weight, at'[c]),
               stable'[c] /\ spc'[c] = "draw" => total'[c] = SumBefore(Weight, NPROC + 1),
               stable'[c] /\ spc'[c] = "pick" =>
                   /\ counter'[c] = SumBefore(Weight, at'[c])
                   /\ counter'[c] <= winner'[c]
                   /\ winner'[c] < SumBefore(Weight, NPROC + 1)
        PROVE  DrawInv'
    <2>1. Weight' = Weight BY <1>b, <1>c
    <2>2. ASSUME NEW d \in Harts, d # c
          PROVE /\ spc'[d] \in {"count", "draw"} => counter'[d] = 0
                /\ spc'[d] = "draw" => at'[d] = 1
                /\ stable'[d] /\ spc'[d] = "count" => total'[d] = SumBefore(Weight, at'[d])
                /\ stable'[d] /\ spc'[d] = "draw" => total'[d] = SumBefore(Weight, NPROC + 1)
                /\ stable'[d] /\ spc'[d] = "pick" =>
                    /\ counter'[d] = SumBefore(Weight, at'[d])
                    /\ counter'[d] <= winner'[d]
                    /\ winner'[d] < SumBefore(Weight, NPROC + 1)
      BY <1>c, <2>2 DEF DrawInv
    <2> QED BY <1>c, <2>1, <2>2 DEF DrawInv
  \* a step that disturbs the table
  <1>d. ASSUME Disturb,
               \A d \in Harts : spc'[d] \in {"count", "draw"} => counter'[d] = 0,
               \A d \in Harts : spc'[d] = "draw" => at'[d] = 1
        PROVE  DrawInv'
    <2>1. \A d \in Harts : ~stable'[d] BY <1>d DEF Disturb
    <2> QED BY <1>d, <2>1 DEF DrawInv
  <1> USE DEF TypeOK
  <1>1. ASSUME NEW c \in Harts, Count(c) PROVE DrawInv'
    <2> DEFINE p == at[c]
    <2>1. /\ p \in Slots /\ p + 1 \in 1 .. NPROC + 1 /\ p \in 1 .. NPROC + 1
          /\ spc[c] = "count" /\ ticket[p] \in Nat /\ counter[c] = 0
          /\ total[c] \in Int
      BY <1>1 DEF Count, DrawInv
    <2>2. p = 1 => total[c] = 0
      <3>1. SUFFICES ASSUME p = 1 PROVE total[c] = 0 OBVIOUS
      <3>2. 0 <= total[c] /\ total[c] <= (1 - 1) * M BY <2>1, <3>1 DEF SumInv
      <3>3. (1 - 1) * M = 0 BY DEF Fits
      <3> QED BY <2>1, <3>2, <3>3
    <2>3. stable'[c] => total[c] = SumBefore(Weight, p)
      <3>1. stable'[c] => stable[c] \/ p = 1 BY <1>1 DEF Count
      <3> HIDE DEF TypeOK
      <3>2. stable[c] => total[c] = SumBefore(Weight, p) BY <2>1 DEF DrawInv
      <3>3. p = 1 => total[c] = SumBefore(Weight, p) BY <1>a, <2>2
      <3> QED BY <3>1, <3>2, <3>3
    <2>4. /\ SumBefore(Weight, p) \in Nat /\ SumBefore(Weight, p + 1) <= MAXINT
          /\ SumBefore(Weight, p + 1) = SumBefore(Weight, p) +
               IF state[p] = "RUNNABLE" THEN ticket[p] ELSE 0
      BY <1>a, <2>1
    <2>5. total'[c] = IF state[p] = "RUNNABLE" THEN AddInt(total[c], ticket[p]) ELSE total[c]
      BY <1>1 DEF Count
    <2> HIDE DEF p, TypeOK
    <2>6. stable'[c] => total'[c] = SumBefore(Weight, p + 1)
      <3>1. SUFFICES ASSUME stable'[c] PROVE total'[c] = SumBefore(Weight, p + 1) OBVIOUS
      <3>2. CASE state[p] = "RUNNABLE"
        <4>1. total[c] + ticket[p] <= MAXINT /\ total[c] \in Nat BY <2>3, <2>4, <3>1, <3>2
        <4>2. AddInt(total[c], ticket[p]) = total[c] + ticket[p] BY <2>1, <4>1, AddIntExact
        <4> QED BY <2>3, <2>4, <2>5, <3>1, <3>2, <4>2
      <3>3. CASE state[p] # "RUNNABLE" BY <2>3, <2>4, <2>5, <3>1, <3>3
      <3> QED BY <3>2, <3>3
    <2>7. \/ at'[c] = p + 1 /\ spc'[c] = "count"
          \/ p = NPROC /\ at'[c] = 1 /\ spc'[c] = "draw"
      BY <1>1, <2>1 DEF Count, p, TypeOK
    <2>8. counter'[c] = 0 /\ table' = table BY <1>1, <2>1 DEF Count, table
    <2>9. \A d \in Harts : d # c =>
            /\ spc'[d] = spc[d] /\ at'[d] = at[d] /\ total'[d] = total[d]
            /\ winner'[d] = winner[d] /\ counter'[d] = counter[d] /\ stable'[d] = stable[d]
      BY <1>1 DEF Count, TypeOK
    <2> QED BY <1>c, <2>6, <2>7, <2>8, <2>9
  <1>2. ASSUME NEW c \in Harts, Idle(c) PROVE DrawInv'
    <2>1. \A d \in Harts : d # c =>
            /\ spc'[d] = spc[d] /\ at'[d] = at[d] /\ total'[d] = total[d]
            /\ winner'[d] = winner[d] /\ counter'[d] = counter[d] /\ stable'[d] = stable[d]
      BY <1>2 DEF Idle
    <2> QED BY <1>2, <1>c, <2>1 DEF Idle
  <1>3. ASSUME NEW c \in Harts, Again(c), UNCHANGED <<table, stable>> PROVE DrawInv'
    <2>1. \A d \in Harts : d # c =>
            /\ spc'[d] = spc[d] /\ at'[d] = at[d] /\ total'[d] = total[d]
            /\ winner'[d] = winner[d] /\ counter'[d] = counter[d] /\ stable'[d] = stable[d]
      BY <1>3 DEF Again
    <2>2. spc'[c] = "count" /\ at'[c] = 1 /\ total'[c] = 0 /\ counter'[c] = 0 BY <1>3 DEF Again
    <2> QED BY <1>3, <1>a, <1>c, <2>1, <2>2
  <1>4. ASSUME NEW c \in Harts, NEW w \in 0 .. MAXINT, DrawTicket(c, w) PROVE DrawInv'
    <2>1. \A d \in Harts : d # c =>
            /\ spc'[d] = spc[d] /\ at'[d] = at[d] /\ total'[d] = total[d]
            /\ winner'[d] = winner[d] /\ counter'[d] = counter[d] /\ stable'[d] = stable[d]
      BY <1>4 DEF DrawTicket
    <2>2. /\ spc'[c] = "pick" /\ at'[c] = 1 /\ counter'[c] = 0 /\ winner'[c] = w
          /\ table' = table /\ stable'[c] = stable[c] /\ total[c] # 0 /\ w \in Draws(total[c])
      BY <1>4 DEF DrawTicket, DrawInv
    <2>3. stable[c] => w < SumBefore(Weight, NPROC + 1)
      <3>1. SUFFICES ASSUME stable[c] PROVE w < SumBefore(Weight, NPROC + 1) OBVIOUS
      <3>2. total[c] = SumBefore(Weight, NPROC + 1) BY <1>4, <3>1 DEF DrawTicket, DrawInv
      <3>3. NPROC + 1 \in 1 .. NPROC + 1 OBVIOUS
      <3>4. total[c] \in Nat /\ total[c] > 0
        <4> HIDE DEF TypeOK
        <4>1. SumBefore(Weight, NPROC + 1) \in Nat BY <1>a, <3>3
        <4> QED BY <2>2, <3>2, <4>1
      <3>5. PICK r \in 0 .. MAXINT : w = r % total[c] BY <2>2, <3>4 DEF Draws
      <3>6. r % total[c] \in 0 .. total[c] - 1 BY <3>4
      <3> QED BY <3>2, <3>4, <3>5, <3>6
    <2> HIDE DEF TypeOK
    <2>4. 0 <= w OBVIOUS
    <2> QED BY <1>a, <1>c, <2>1, <2>2, <2>3, <2>4
  <1>5. ASSUME NEW c \in Harts, Dispatch(c) PROVE DrawInv'
    <2>1. \A d \in Harts : spc'[d] \in {"count", "draw"} =>
            spc'[d] = spc[d] /\ counter'[d] = counter[d] /\ at'[d] = at[d]
      BY <1>5 DEF Dispatch
    <2> QED BY <1>5, <1>d, <2>1 DEF Dispatch, DrawInv
  <1>6. ASSUME NEW c \in Harts, Skip(c) PROVE DrawInv'
    <2>1. \A d \in Harts : d # c =>
            /\ spc'[d] = spc[d] /\ at'[d] = at[d] /\ total'[d] = total[d]
            /\ winner'[d] = winner[d] /\ counter'[d] = counter[d] /\ stable'[d] = stable[d]
      BY <1>6 DEF Skip
    <2>2. /\ spc'[c] = "pick" /\ at'[c] = at[c] + 1 /\ counter'[c] = NewCounter(c) /\ winner'[c] = winner[c]
          /\ table' = table /\ stable'[c] = stable[c] /\ ~Wins(c) /\ spc[c] = "pick"
      BY <1>6 DEF Skip
    <2>3. stable[c] => /\ NewCounter(c) = SumBefore(Weight, at[c] + 1)
                       /\ NewCounter(c) <= winner[c]
                       /\ winner[c] < SumBefore(Weight, NPROC + 1)
      <3>1. SUFFICES ASSUME stable[c]
                     PROVE  /\ NewCounter(c) = SumBefore(Weight, at[c] + 1)
                            /\ NewCounter(c) <= winner[c]
                            /\ winner[c] < SumBefore(Weight, NPROC + 1)
        OBVIOUS
      <3>2. NewCounter(c) = SumBefore(Weight, at[c] + 1) BY <2>2, <3>1, ExactSum
      <3>3. counter[c] <= winner[c] /\ winner[c] < SumBefore(Weight, NPROC + 1)
        BY <2>2, <3>1 DEF DrawInv
      <3>4. at[c] + 1 \in 1 .. NPROC + 1 /\ winner[c] \in Int BY <1>6 DEF Skip
      <3>5. NewCounter(c) \in Nat BY <1>a, <3>2, <3>4
      <3>6. NewCounter(c) <= winner[c]
        <4>1. CASE state[at[c]] = "RUNNABLE" BY <2>2, <3>4, <3>5, <4>1 DEF Wins
        <4>2. CASE state[at[c]] # "RUNNABLE" BY <3>3, <4>2 DEF NewCounter
        <4> QED BY <4>1, <4>2
      <3> QED BY <3>2, <3>3, <3>6
    <2> HIDE DEF TypeOK
    <2> QED BY <1>c, <2>1, <2>2, <2>3
  <1>7. ASSUME NEW c \in Harts, NEW s \in {"RUNNABLE", "BLOCKED"}, SwitchBack(c, s)
        PROVE  DrawInv'
    <2>1. \A d \in Harts : d # c => spc'[d] = spc[d] /\ counter'[d] = counter[d] /\ at'[d] = at[d]
      BY <1>7 DEF SwitchBack, Again
    <2>2. spc'[c] = "count" /\ counter'[c] = 0 BY <1>7 DEF SwitchBack, Again
    <2>3. \A d \in Harts : spc'[d] \in {"count", "draw"} => counter'[d] = 0
      BY <2>1, <2>2 DEF DrawInv
    <2>4. \A d \in Harts : spc'[d] = "draw" => at'[d] = 1 BY <2>1, <2>2 DEF DrawInv
    <2>5. Disturb BY <1>7 DEF SwitchBack
    <2> HIDE DEF TypeOK
    <2> QED BY <1>d, <2>3, <2>4, <2>5
  <1>8. ASSUME NEW p \in Slots, Wakeup(p) PROVE DrawInv' BY <1>8, <1>d DEF Wakeup, DrawInv
  <1>9. ASSUME NEW p \in Slots, NEW n \in Tickets, SetTickets(p, n) PROVE DrawInv'
    BY <1>9, <1>d DEF SetTickets, DrawInv
  <1>10. CASE UNCHANGED vars
    <2>1. Weight' = Weight BY <1>10, <1>b DEF vars, table
    <2> QED BY <1>10, <2>1 DEF vars, DrawInv
  <1> HIDE DEF TypeOK
  <1> QED BY <1>1, <1>2, <1>3, <1>4, <1>5, <1>6, <1>7, <1>8, <1>9, <1>10
          DEF Next, SchedStep, Interrupt, NoWinner, table

\* For any number of slots and harts and any tickets whose sum is an int: on a table
\* that nobody changed since the first walk began, the second walk ends at the
\* process that holds the ticket drawn, and never without a winner.
THEOREM HonestDrawHolds ==
    ASSUME NEW M, Fits(M)
    PROVE  Spec => HonestDraw
  <1> USE NPROCAssumption, TicketAssumption DEF Slots
  <1>1. Init => SumInv(M) /\ DrawInv
    <2>1. (1 - 1) * M = 0 /\ NPROC * M \in Nat BY DEF Fits
    <2>2. Init => SumInv(M) BY <2>1 DEF Init, SumInv, Fits
    <2>3. Init => DrawInv BY DEF Init, DrawInv
    <2> QED BY <2>2, <2>3
  <1>2. TypeOK /\ SumInv(M) /\ [Next]_vars => SumInv(M)' BY Next_Sum
  <1>3. TypeOK /\ SumInv(M) /\ DrawInv /\ [Next]_vars => DrawInv' BY Next_Draw
  <1>4. ASSUME TypeOK, SumInv(M), DrawInv, NEW c \in Harts, stable[c]
        PROVE  /\ Dispatch(c) =>
                   winner[c] \in TicketsBefore(at[c]) .. TicketsBefore(at[c] + 1) - 1
               /\ ~NoWinner(c)
    <2> USE <1>4
    <2>1. SUFFICES ASSUME spc[c] = "pick"
                   PROVE  /\ Dispatch(c) =>
                               winner[c] \in TicketsBefore(at[c]) .. TicketsBefore(at[c] + 1) - 1
                          /\ ~NoWinner(c)
      BY DEF Dispatch, NoWinner
    <2>2. NewCounter(c) = SumBefore(Weight, at[c] + 1) BY <2>1, ExactSum
    <2>3. /\ counter[c] = SumBefore(Weight, at[c]) /\ counter[c] <= winner[c]
          /\ winner[c] < SumBefore(Weight, NPROC + 1)
      BY <2>1 DEF DrawInv
    <2>4. at[c] \in 1 .. NPROC + 1 /\ at[c] + 1 \in 1 .. NPROC + 1 /\ winner[c] \in Int
      BY DEF TypeOK
    <2>5. SumBefore(Weight, at[c]) \in Nat /\ SumBefore(Weight, at[c] + 1) \in Nat
      BY <2>4, TableSums
    <2>6. ASSUME Dispatch(c)
          PROVE winner[c] \in TicketsBefore(at[c]) .. TicketsBefore(at[c] + 1) - 1
      BY <2>2, <2>3, <2>4, <2>5, <2>6 DEF Dispatch, Wins, TicketsBefore
    <2>7. ASSUME NoWinner(c) PROVE FALSE
      <3>1. at[c] = NPROC /\ ~Wins(c) BY <2>7 DEF NoWinner
      <3>2. NewCounter(c) > winner[c] BY <2>2, <2>3, <2>4, <2>5, <3>1
      <3>3. state[at[c]] # "RUNNABLE" BY <3>1, <3>2 DEF Wins
      <3>4. NewCounter(c) = counter[c] BY <3>3 DEF NewCounter
      <3> QED BY <2>3, <2>4, <2>5, <3>2, <3>4
    <2> QED BY <2>6, <2>7
  <1>5. TypeOK /\ SumInv(M) /\ DrawInv =>
          [\A c \in Harts : stable[c] =>
            /\ Dispatch(c) =>
                winner[c] \in TicketsBefore(at[c]) .. TicketsBefore(at[c] + 1) - 1
            /\ ~NoWinner(c)]_vars
    BY <1>4
  <1> QED BY <1>1, <1>2, <1>3, <1>5, TypeCorrect, PTL DEF Spec, HonestDraw

----------------------------------------------------------------------------
(* Recursion over 0 .. n                                                   *)

\* Induction from 0 to n, with a set for the predicate.
LEMMA UpTo ==
    ASSUME NEW n \in Nat, NEW T, 0 \in T, \A k \in 1 .. n : k - 1 \in T => k \in T
    PROVE  \A k \in 0 .. n : k \in T
  <1> DEFINE Bad == {k \in 0 .. n : k \notin T}
  <1>1. Bad = {}
    <2> SUFFICES ASSUME Bad # {} PROVE FALSE OBVIOUS
    <2>1. Bad \subseteq Nat OBVIOUS
    <2>2. PICK k \in Bad : \A m \in Bad : k <= m
      <3> HIDE DEF Bad
      <3> QED BY <2>1, LeastNatural
    <2>3. k \in 0 .. n /\ k \notin T OBVIOUS
    <2>4. k # 0 BY <2>3
    <2>5. k \in 1 .. n /\ k - 1 \in 0 .. n /\ ~(k <= k - 1) BY <2>3, <2>4
    <2>6. k - 1 \in T BY <2>2, <2>5
    <2> QED BY <2>3, <2>5, <2>6
  <1> QED BY <1>1

\* x0 and G are a start in X and a step for each number up to n.
Stepping(n, X, x0, G) == n \in Nat /\ x0 \in X /\ G \in [(1 .. n) \X X -> X]

\* f takes these steps.
Steps(f, n, X, x0, G) ==
    f \in [0 .. n -> X] /\ f[0] = x0 /\ \A k \in 1 .. n : f[k] = G[<<k, f[k - 1]>>]

\* A function that takes the steps exists.
LEMMA Recursion ==
    ASSUME NEW n, NEW X, NEW x0, NEW G, Stepping(n, X, x0, G)
    PROVE  \E f : Steps(f, n, X, x0, G)
  <1> USE DEF Stepping
  <1> DEFINE Good(m, f) ==
        f \in [0 .. m -> X] /\ f[0] = x0 /\ \A k \in 1 .. m : f[k] = G[<<k, f[k - 1]>>]
      T == {m \in 0 .. n : \E f : Good(m, f)}
  <1>0. \A k \in 1 .. n : \A x \in X : G[<<k, x>>] \in X OBVIOUS
  <1>1. 0 \in T
    <2> DEFINE f0 == [k \in {0} |-> x0]
    <2>1. 0 .. 0 = {0} /\ 1 .. 0 = {} OBVIOUS
    <2>2. Good(0, f0) BY <2>1
    <2>3. 0 \in 0 .. n OBVIOUS
    <2> HIDE DEF Good, f0
    <2> QED BY <2>2, <2>3
  <1> HIDE DEF Good, T
  <1>2. ASSUME NEW m \in 1 .. n, m - 1 \in T PROVE m \in T
    <2>1. PICK f : Good(m - 1, f) BY <1>2 DEF T
    <2>2. m \in Nat /\ m - 1 \in 0 .. m - 1 /\ m \in 0 .. n /\ 0 \in 0 .. m - 1 /\ m # 0 OBVIOUS
    <2>3. f[m - 1] \in X /\ f[0] = x0 BY <2>1, <2>2 DEF Good
    <2>4. G[<<m, f[m - 1]>>] \in X BY <1>0, <2>3
    <2> DEFINE g == [k \in 0 .. m |-> IF k = m THEN G[<<m, f[m - 1]>>] ELSE f[k]]
    <2>5. g \in [0 .. m -> X]
      <3>1. ASSUME NEW k \in 0 .. m, k # m PROVE f[k] \in X
        <4>1. k \in 0 .. m - 1 BY <2>2, <3>1
        <4> QED BY <2>1, <4>1 DEF Good
      <3> QED BY <2>4, <3>1
    <2>6. g[0] = x0 BY <2>2, <2>3
    <2>7. ASSUME NEW k \in 1 .. m PROVE g[k] = G[<<k, g[k - 1]>>]
      <3>1. k - 1 \in 0 .. m /\ k - 1 # m /\ k \in 0 .. m BY <2>2
      <3>2. g[k - 1] = f[k - 1] BY <3>1
      <3>3. CASE k = m BY <3>1, <3>2, <3>3
      <3>4. CASE k # m
        <4>1. k \in 1 .. m - 1 BY <2>2, <3>4
        <4>2. f[k] = G[<<k, f[k - 1]>>] BY <2>1, <4>1 DEF Good
        <4>3. g[k] = f[k] BY <3>1, <3>4
        <4> QED BY <3>2, <4>2, <4>3
      <3> QED BY <3>3, <3>4
    <2> HIDE DEF g
    <2>8. Good(m, g) BY <2>5, <2>6, <2>7 DEF Good
    <2> QED BY <2>2, <2>8 DEF T
  <1>3. \A k \in 0 .. n : k \in T BY <1>1, <1>2, UpTo
  <1>4. n \in 0 .. n OBVIOUS
  <1>5. n \in T BY <1>3, <1>4
  <1> QED BY <1>5 DEF T, Good, Steps

----------------------------------------------------------------------------
(* Sums                                                                    *)

\* The loop that sums up w, step by step.
LEMMA SumsStep ==
    ASSUME NEW w \in [Entries -> Int]
    PROVE  /\ PartialSums(w)[0] = 0
           /\ \A k \in 0 .. MAX_FILES : PartialSums(w)[k] \in Int
           /\ \A k \in 1 .. MAX_FILES : PartialSums(w)[k] = PartialSums(w)[k - 1] + w[k - 1]
  <1> DEFINE P(f) == f = [k \in 0 .. MAX_FILES |-> IF k = 0 THEN 0 ELSE f[k - 1] + w[k - 1]]
             G == [q \in (1 .. MAX_FILES) \X Int |-> q[2] + w[q[1] - 1]]
             c == PartialSums(w)
  <1> USE DiskAssumption
  <1>0. \A k \in 1 .. MAX_FILES : k - 1 \in Entries /\ w[k - 1] \in Int BY DEF Entries
  <1>1. ASSUME NEW k \in 1 .. MAX_FILES, NEW x \in Int
        PROVE  G[<<k, x>>] = x + w[k - 1] /\ G[<<k, x>>] \in Int
    <2>1. <<k, x>> \in (1 .. MAX_FILES) \X Int OBVIOUS
    <2>2. G[<<k, x>>] = x + w[k - 1] BY <2>1
    <2> QED BY <1>0, <2>2
  <1>2. Stepping(MAX_FILES, Int, 0, G)
    <2>1. \A q \in (1 .. MAX_FILES) \X Int : q[2] + w[q[1] - 1] \in Int BY <1>0
    <2> QED BY <2>1 DEF Stepping
  <1> HIDE DEF G
  <1>3. PICK f : Steps(f, MAX_FILES, Int, 0, G) BY <1>2, Recursion
  <1>4. P(f)
    <2>1. ASSUME NEW k \in 1 .. MAX_FILES PROVE f[k] = f[k - 1] + w[k - 1]
      <3>1. k - 1 \in 0 .. MAX_FILES OBVIOUS
      <3> QED BY <1>1, <1>3, <3>1 DEF Steps
    <2>2. f = [k \in 0 .. MAX_FILES |-> f[k]] BY <1>3 DEF Steps
    <2>3. \A k \in 0 .. MAX_FILES : f[k] = IF k = 0 THEN 0 ELSE f[k - 1] + w[k - 1]
      <3>1. \A k \in 0 .. MAX_FILES : k = 0 \/ k \in 1 .. MAX_FILES OBVIOUS
      <3> QED BY <1>3, <2>1, <3>1 DEF Steps
    <2> QED BY <2>2, <2>3
  <1>5. c = CHOOSE g : P(g) BY DEF PartialSums
  <1>6. P(c)
    <2> HIDE DEF P, c
    <2> QED BY <1>4, <1>5
  <1>7. c[0] = 0 /\ \A k \in 1 .. MAX_FILES : c[k] = c[k - 1] + w[k - 1]
    <2> HIDE DEF c
    <2> QED BY <1>6
  <1> HIDE DEF c
  <1> DEFINE T == {k \in 0 .. MAX_FILES : c[k] \in Int}
  <1>8. \A k \in 0 .. MAX_FILES : k \in T
    <2>1. 0 \in T BY <1>7
    <2>2. \A k \in 1 .. MAX_FILES : k - 1 \in T => k \in T BY <1>0, <1>7
    <2> HIDE DEF T
    <2> QED BY <2>1, <2>2, UpTo
  <1> QED BY <1>7, <1>8 DEF c

\* Sums of functions that differ at i at most differ by what they have there.
LEMMA TotalChange ==
    ASSUME NEW w \in [Entries -> Int], NEW v \in [Entries -> Int], NEW i \in Entries,
           \A j \in Entries : j # i => v[j] = w[j]
    PROVE  Total(v) = Total(w) + v[i] - w[i]
  <1> DEFINE a == PartialSums(w)
             b == PartialSums(v)
             T == {k \in 0 .. MAX_FILES : b[k] = IF k <= i THEN a[k] ELSE a[k] + v[i] - w[i]}
  <1> USE DiskAssumption
  <1>1. /\ a[0] = 0 /\ b[0] = 0
        /\ \A k \in 0 .. MAX_FILES : a[k] \in Int /\ b[k] \in Int
        /\ \A k \in 1 .. MAX_FILES : a[k] = a[k - 1] + w[k - 1] /\ b[k] = b[k - 1] + v[k - 1]
    BY SumsStep
  <1>2. i \in Nat /\ i < MAX_FILES /\ v[i] \in Int /\ w[i] \in Int BY DEF Entries
  <1> HIDE DEF a, b
  <1>3. \A k \in 0 .. MAX_FILES : k \in T
    <2>1. 0 \in T BY <1>1, <1>2
    <2>2. ASSUME NEW k \in 1 .. MAX_FILES, k - 1 \in T PROVE k \in T
      <3>1. k - 1 \in Entries /\ k - 1 \in 0 .. MAX_FILES BY DEF Entries
      <3>2. w[k - 1] \in Int /\ v[k - 1] \in Int /\ a[k - 1] \in Int BY <1>1, <3>1
      <3>3. a[k] = a[k - 1] + w[k - 1] /\ b[k] = b[k - 1] + v[k - 1] BY <1>1
      <3>4. b[k - 1] = IF k - 1 <= i THEN a[k - 1] ELSE a[k - 1] + v[i] - w[i] BY <2>2
      <3>5. CASE k <= i
        <4>1. v[k - 1] = w[k - 1] BY <1>2, <3>1, <3>5
        <4> QED BY <1>2, <3>2, <3>3, <3>4, <3>5, <4>1
      <3>6. CASE k - 1 = i BY <1>2, <3>2, <3>3, <3>4, <3>6
      <3>7. CASE k - 1 > i
        <4>1. v[k - 1] = w[k - 1] BY <1>2, <3>1, <3>7
        <4>2. ~(k - 1 <= i) /\ ~(k <= i) BY <1>2, <3>7
        <4>3. b[k] = a[k] + v[i] - w[i] BY <1>2, <3>2, <3>3, <3>4, <4>1, <4>2
        <4> QED BY <4>2, <4>3
      <3> QED BY <1>2, <3>5, <3>6, <3>7
    <2> HIDE DEF T
    <2> QED BY <2>1, <2>2, UpTo
  <1>4. MAX_FILES \in T BY <1>3
  <1>5. ~(MAX_FILES <= i) BY <1>2
  <1>6. b[MAX_FILES] = a[MAX_FILES] + v[i] - w[i] BY <1>4, <1>5
  <1> QED BY <1>6 DEF a, b, Total

\* A sum is an integer, and 0 when there is nothing to sum.
LEMMA TotalType ==
    ASSUME NEW w \in [Entries -> Int]
    PROVE  Total(w) \in Int /\ ((\A j \in Entries : w[j] = 0) => Total(w) = 0)
  <1> DEFINE a == PartialSums(w)
             T == {k \in 0 .. MAX_FILES : a[k] = 0}
  <1> USE DiskAssumption
  <1>1. /\ a[0] = 0 /\ \A k \in 0 .. MAX_FILES : a[k] \in Int
        /\ \A k \in 1 .. MAX_FILES : a[k] = a[k - 1] + w[k - 1]
    BY SumsStep
  <1> HIDE DEF a
  <1>2. ASSUME \A j \in Entries : w[j] = 0 PROVE a[MAX_FILES] = 0
    <2>1. 0 \in T BY <1>1
    <2>2. ASSUME NEW k \in 1 .. MAX_FILES, k - 1 \in T PROVE k \in T
      <3>1. k - 1 \in Entries BY DEF Entries
      <3>2. w[k - 1] = 0 /\ a[k - 1] = 0 BY <1>2, <2>2, <3>1
      <3> QED BY <1>1, <3>2
    <2>3. \A k \in 0 .. MAX_FILES : k \in T
      <3> HIDE DEF T
      <3> QED BY <2>1, <2>2, UpTo
    <2> QED BY <2>3
  <1>3. a[MAX_FILES] \in Int BY <1>1
  <1> QED BY <1>2, <1>3 DEF a, Total

----------------------------------------------------------------------------
(* Lists of regions                                                        *)

ListRegion == [s : Int, e : Int]
BlocksOf(r) == r.s .. r.e

\* A list of regions that have no blocks in common, and none less than none.
GoodList(fl) ==
    /\ fl \in Seq(ListRegion)
    /\ \A i \in 1 .. Len(fl) : fl[i].s <= fl[i].e + 1
    /\ \A i, j \in 1 .. Len(fl) : i # j => BlocksOf(fl[i]) \cap BlocksOf(fl[j]) = {}

\* The blocks on the list, region by region.
LEMMA InFreeSet ==
    ASSUME NEW fl \in Seq(ListRegion), NEW b
    PROVE  b \in FreeSet(fl) <=> \E i \in 1 .. Len(fl) : b \in BlocksOf(fl[i])
  BY DEF FreeSet, BlocksOf

\* The elements of a sequence without its ith.
LEMMA RemoveAtElements ==
    ASSUME NEW S, NEW s \in Seq(S), NEW i \in 1 .. Len(s)
    PROVE  /\ RemoveAt(s, i) \in Seq(S) /\ Len(RemoveAt(s, i)) = Len(s) - 1
           /\ \A j \in 1 .. Len(s) - 1 : RemoveAt(s, i)[j] = IF j < i THEN s[j] ELSE s[j + 1]
  <1> DEFINE a == SubSeq(s, 1, i - 1)
             b == SubSeq(s, i + 1, Len(s))
  <1>1. Len(s) \in Nat /\ i \in Nat OBVIOUS
  <1>2. a \in Seq(S) /\ Len(a) = i - 1 /\ \A j \in 1 .. i - 1 : a[j] = s[j] BY <1>1
  <1>3. b \in Seq(S) /\ Len(b) = Len(s) - i /\ \A j \in 1 .. Len(s) - i : b[j] = s[i + j] BY <1>1
  <1> HIDE DEF a, b
  <1>4. a \o b \in Seq(S) /\ Len(a \o b) = Len(s) - 1
    <2>0. a \in Seq(S) /\ b \in Seq(S) BY <1>2, <1>3
    <2>1. a \o b \in Seq(S) /\ Len(a \o b) = Len(a) + Len(b) BY <2>0, ConcatProperties
    <2> QED BY <1>1, <1>2, <1>3, <2>1
  <1>5. ASSUME NEW j \in 1 .. Len(s) - 1
        PROVE  (a \o b)[j] = IF j < i THEN s[j] ELSE s[j + 1]
    <2>1. CASE j < i
      <3>1. j \in 1 .. Len(a) /\ j \in 1 .. i - 1 BY <1>1, <1>2, <2>1
      <3> QED BY <1>2, <1>3, <2>1, <3>1
    <2>2. CASE ~(j < i)
      <3>1. j - Len(a) \in 1 .. Len(s) - i /\ j \in 1 .. Len(a) + Len(b) /\ ~(j <= Len(a))
            /\ i + (j - Len(a)) = j + 1
        BY <1>1, <1>2, <1>3, <2>2
      <3>2. (a \o b)[j] = b[j - Len(a)] BY <1>2, <1>3, <3>1
      <3> QED BY <1>3, <2>2, <3>1, <3>2
    <2> QED BY <2>1, <2>2
  <1> QED BY <1>4, <1>5 DEF RemoveAt, a, b

\* The elements of a sequence with x before its ith.
LEMMA InsertAtElements ==
    ASSUME NEW S, NEW s \in Seq(S), NEW i \in 1 .. Len(s) + 1, NEW x \in S
    PROVE  /\ InsertAt(s, i, x) \in Seq(S) /\ Len(InsertAt(s, i, x)) = Len(s) + 1
           /\ \A j \in 1 .. Len(s) + 1 :
                InsertAt(s, i, x)[j] = IF j < i THEN s[j] ELSE IF j = i THEN x ELSE s[j - 1]
  <1> DEFINE a == SubSeq(s, 1, i - 1)
             b == SubSeq(s, i, Len(s))
             c == a \o <<x>>
  <1>1. Len(s) \in Nat /\ i \in Nat OBVIOUS
  <1>2. a \in Seq(S) /\ Len(a) = i - 1 /\ \A j \in 1 .. i - 1 : a[j] = s[j] BY <1>1
  <1>3. b \in Seq(S) /\ Len(b) = Len(s) - i + 1 /\ \A j \in 1 .. Len(s) - i + 1 : b[j] = s[i + j - 1]
    BY <1>1
  <1> HIDE DEF a, b
  <1>4. c \in Seq(S) /\ Len(c) = i /\ c[i] = x /\ \A j \in 1 .. i - 1 : c[j] = a[j] BY <1>1, <1>2
  <1> HIDE DEF c
  <1>5. c \o b \in Seq(S) /\ Len(c \o b) = Len(s) + 1 BY <1>1, <1>3, <1>4
  <1>6. ASSUME NEW j \in 1 .. Len(s) + 1
        PROVE  (c \o b)[j] = IF j < i THEN s[j] ELSE IF j = i THEN x ELSE s[j - 1]
    <2>1. CASE j <= i
      <3>1. j \in 1 .. Len(c) /\ (j = i \/ j \in 1 .. i - 1) BY <1>1, <1>4, <2>1
      <3>2. (c \o b)[j] = c[j] BY <1>3, <1>4, <3>1
      <3> QED BY <1>1, <1>2, <1>4, <2>1, <3>1, <3>2
    <2>2. CASE j > i
      <3>1. /\ j - Len(c) \in 1 .. Len(s) - i + 1 /\ j \in 1 .. Len(c) + Len(b)
            /\ ~(j <= Len(c)) /\ i + (j - Len(c)) - 1 = j - 1
        BY <1>1, <1>3, <1>4, <2>2
      <3>2. b \in Seq(S) /\ c \in Seq(S) BY <1>3, <1>4
      <3>3. (c \o b)[j] = b[j - Len(c)] BY <3>1, <3>2
      <3>4. b[j - Len(c)] = s[j - 1] BY <1>3, <3>1
      <3>5. ~(j < i) /\ j # i BY <1>1, <2>2
      <3> QED BY <3>3, <3>4, <3>5
    <2>3. j <= i \/ j > i BY <1>1
    <2> QED BY <2>1, <2>2, <2>3
  <1> QED BY <1>5, <1>6 DEF InsertAt, a, b, c

\* A list without its ith region.
LEMMA RemoveGood ==
    ASSUME NEW fl, GoodList(fl), NEW i \in 1 .. Len(fl)
    PROVE  /\ GoodList(RemoveAt(fl, i))
           /\ FreeSet(RemoveAt(fl, i)) = FreeSet(fl) \ BlocksOf(fl[i])
  <1> DEFINE g == RemoveAt(fl, i)
             p(j) == IF j < i THEN j ELSE j + 1
  <1>1. fl \in Seq(ListRegion) /\ Len(fl) \in Nat BY DEF GoodList
  <1>2. /\ g \in Seq(ListRegion) /\ Len(g) = Len(fl) - 1
        /\ \A j \in 1 .. Len(fl) - 1 : g[j] = IF j < i THEN fl[j] ELSE fl[j + 1]
    BY <1>1, RemoveAtElements
  <1> HIDE DEF g
  <1>3. \A j \in 1 .. Len(g) : p(j) \in 1 .. Len(fl) /\ p(j) # i /\ g[j] = fl[p(j)]
    BY <1>1, <1>2
  <1>4. \A j, k \in 1 .. Len(g) : j # k => p(j) # p(k) BY <1>1, <1>2
  <1>5. \A k \in 1 .. Len(fl) : k # i => \E j \in 1 .. Len(g) : p(j) = k
    <2>1. SUFFICES ASSUME NEW k \in 1 .. Len(fl), k # i PROVE \E j \in 1 .. Len(g) : p(j) = k
      OBVIOUS
    <2>2. CASE k < i
      <3>1. k \in 1 .. Len(g) /\ p(k) = k BY <1>1, <1>2, <2>2
      <3> QED BY <3>1
    <2>3. CASE k > i
      <3>1. k - 1 \in 1 .. Len(g) /\ p(k - 1) = k BY <1>1, <1>2, <2>3
      <3> QED BY <3>1
    <2> QED BY <2>1, <2>2, <2>3
  <1> HIDE DEF p
  <1>6. GoodList(g)
    <2>1. \A j \in 1 .. Len(g) : g[j].s <= g[j].e + 1 BY <1>3 DEF GoodList
    <2>2. ASSUME NEW j \in 1 .. Len(g), NEW k \in 1 .. Len(g), j # k
          PROVE  BlocksOf(g[j]) \cap BlocksOf(g[k]) = {}
      <3>1. p(j) # p(k) BY <1>4, <2>2
      <3> QED BY <1>3, <3>1 DEF GoodList
    <2> QED BY <1>2, <2>1, <2>2 DEF GoodList
  <1>7. FreeSet(g) = FreeSet(fl) \ BlocksOf(fl[i])
    <2>1. ASSUME NEW b \in FreeSet(g) PROVE b \in FreeSet(fl) /\ b \notin BlocksOf(fl[i])
      <3>1. PICK j \in 1 .. Len(g) : b \in BlocksOf(g[j]) BY <1>2, InFreeSet
      <3>2. p(j) \in 1 .. Len(fl) /\ p(j) # i /\ b \in BlocksOf(fl[p(j)]) BY <1>3, <3>1
      <3>3. BlocksOf(fl[p(j)]) \cap BlocksOf(fl[i]) = {} BY <3>2 DEF GoodList
      <3> QED BY <1>1, <3>2, <3>3, InFreeSet
    <2>2. ASSUME NEW b \in FreeSet(fl), b \notin BlocksOf(fl[i]) PROVE b \in FreeSet(g)
      <3>1. PICK k \in 1 .. Len(fl) : b \in BlocksOf(fl[k]) BY <1>1, InFreeSet
      <3>2. k # i BY <2>2, <3>1
      <3>3. PICK j \in 1 .. Len(g) : p(j) = k BY <1>5, <3>2
      <3>4. b \in BlocksOf(g[j]) BY <1>3, <3>1, <3>3
      <3> QED BY <1>2, <3>4, InFreeSet
    <2> QED BY <2>1, <2>2
  <1> QED BY <1>6, <1>7 DEF g

\* A list with another region in the place of its ith.
LEMMA ReplaceGood ==
    ASSUME NEW fl, GoodList(fl), NEW i \in 1 .. Len(fl), NEW r \in ListRegion,
           r.s <= r.e + 1, BlocksOf(r) \cap (FreeSet(fl) \ BlocksOf(fl[i])) = {}
    PROVE  /\ GoodList([fl EXCEPT ![i] = r])
           /\ FreeSet([fl EXCEPT ![i] = r]) = (FreeSet(fl) \ BlocksOf(fl[i])) \cup BlocksOf(r)
  <1> DEFINE g == [fl EXCEPT ![i] = r]
  <1>1. fl \in Seq(ListRegion) /\ Len(fl) \in Nat BY DEF GoodList
  <1>2. g \in Seq(ListRegion) /\ Len(g) = Len(fl) /\ g[i] = r BY <1>1
  <1>3. \A j \in 1 .. Len(fl) : j # i => g[j] = fl[j] BY <1>1
  <1> HIDE DEF g
  <1>4. \A j \in 1 .. Len(fl) : j # i => BlocksOf(fl[j]) \subseteq FreeSet(fl) \ BlocksOf(fl[i])
    <2> SUFFICES ASSUME NEW j \in 1 .. Len(fl), j # i, NEW b \in BlocksOf(fl[j])
                 PROVE  b \in FreeSet(fl) /\ b \notin BlocksOf(fl[i])
      OBVIOUS
    <2>1. BlocksOf(fl[j]) \cap BlocksOf(fl[i]) = {} BY DEF GoodList
    <2> QED BY <1>1, <2>1, InFreeSet
  <1>5. GoodList(g)
    <2>1. \A j \in 1 .. Len(g) : g[j].s <= g[j].e + 1 BY <1>2, <1>3 DEF GoodList
    <2>2. ASSUME NEW j \in 1 .. Len(g), NEW k \in 1 .. Len(g), j # k
          PROVE  BlocksOf(g[j]) \cap BlocksOf(g[k]) = {}
      <3>1. CASE j # i /\ k # i BY <1>2, <1>3, <2>2, <3>1 DEF GoodList
      <3>2. CASE j = i BY <1>2, <1>3, <1>4, <2>2, <3>2
      <3>3. CASE k = i BY <1>2, <1>3, <1>4, <2>2, <3>3
      <3> QED BY <3>1, <3>2, <3>3
    <2> QED BY <1>2, <2>1, <2>2 DEF GoodList
  <1>6. FreeSet(g) = (FreeSet(fl) \ BlocksOf(fl[i])) \cup BlocksOf(r)
    <2>1. ASSUME NEW b \in FreeSet(g) PROVE b \in (FreeSet(fl) \ BlocksOf(fl[i])) \cup BlocksOf(r)
      <3>1. PICK j \in 1 .. Len(g) : b \in BlocksOf(g[j]) BY <1>2, InFreeSet
      <3> QED BY <1>2, <1>3, <1>4, <3>1
    <2>2. ASSUME NEW b \in FreeSet(fl), b \notin BlocksOf(fl[i]) PROVE b \in FreeSet(g)
      <3>1. PICK k \in 1 .. Len(fl) : b \in BlocksOf(fl[k]) BY <1>1, InFreeSet
      <3>2. b \in BlocksOf(g[k]) BY <1>3, <2>2, <3>1
      <3> QED BY <1>2, <3>2, InFreeSet
    <2>3. BlocksOf(r) \subseteq FreeSet(g) BY <1>2, InFreeSet
    <2> QED BY <2>1, <2>2, <2>3
  <1> QED BY <1>5, <1>6 DEF g

\* A list with one more region.
LEMMA InsertGood ==
    ASSUME NEW fl, GoodList(fl), NEW i \in 1 .. Len(fl) + 1, NEW r \in ListRegion,
           r.s <= r.e + 1, BlocksOf(r) \cap FreeSet(fl) = {}
    PROVE  /\ GoodList(InsertAt(fl, i, r))
           /\ FreeSet(InsertAt(fl, i, r)) = FreeSet(fl) \cup BlocksOf(r)
  <1> DEFINE g == InsertAt(fl, i, r)
             p(j) == IF j < i THEN j ELSE j - 1
  <1>1. fl \in Seq(ListRegion) /\ Len(fl) \in Nat BY DEF GoodList
  <1>2. /\ g \in Seq(ListRegion) /\ Len(g) = Len(fl) + 1
        /\ \A j \in 1 .. Len(fl) + 1 : g[j] = IF j < i THEN fl[j] ELSE IF j = i THEN r ELSE fl[j - 1]
    BY <1>1, InsertAtElements
  <1> HIDE DEF g
  <1>3. i \in 1 .. Len(g) /\ g[i] = r BY <1>1, <1>2
  <1>4. \A j \in 1 .. Len(g) : j # i => p(j) \in 1 .. Len(fl) /\ g[j] = fl[p(j)]
    BY <1>1, <1>2
  <1>5. \A j, k \in 1 .. Len(g) : j # k /\ j # i /\ k # i => p(j) # p(k) BY <1>1, <1>2
  <1>6. \A k \in 1 .. Len(fl) : \E j \in 1 .. Len(g) : j # i /\ p(j) = k
    <2>1. SUFFICES ASSUME NEW k \in 1 .. Len(fl) PROVE \E j \in 1 .. Len(g) : j # i /\ p(j) = k
      OBVIOUS
    <2>2. CASE k < i
      <3>1. k \in 1 .. Len(g) /\ p(k) = k /\ k # i BY <1>1, <1>2, <2>2
      <3> QED BY <3>1
    <2>3. CASE ~(k < i)
      <3>1. k + 1 \in 1 .. Len(g) /\ p(k + 1) = k /\ k + 1 # i BY <1>1, <1>2, <2>3
      <3> QED BY <3>1
    <2> QED BY <2>2, <2>3
  <1> HIDE DEF p
  <1>7. \A j \in 1 .. Len(fl) : BlocksOf(fl[j]) \cap BlocksOf(r) = {} BY <1>1, InFreeSet
  <1>8. GoodList(g)
    <2>1. ASSUME NEW j \in 1 .. Len(g) PROVE g[j].s <= g[j].e + 1
      <3>1. CASE j = i BY <1>3, <3>1
      <3>2. CASE j # i BY <1>4, <3>2 DEF GoodList
      <3> QED BY <3>1, <3>2
    <2>2. ASSUME NEW j \in 1 .. Len(g), NEW k \in 1 .. Len(g), j # k
          PROVE  BlocksOf(g[j]) \cap BlocksOf(g[k]) = {}
      <3>1. CASE j # i /\ k # i
        <4>1. p(j) # p(k) BY <1>5, <2>2, <3>1
        <4> QED BY <1>4, <3>1, <4>1 DEF GoodList
      <3>2. CASE j = i BY <1>3, <1>4, <1>7, <2>2, <3>2
      <3>3. CASE k = i BY <1>3, <1>4, <1>7, <2>2, <3>3
      <3> QED BY <3>1, <3>2, <3>3
    <2> QED BY <1>2, <2>1, <2>2 DEF GoodList
  <1>9. FreeSet(g) = FreeSet(fl) \cup BlocksOf(r)
    <2>1. ASSUME NEW b \in FreeSet(g) PROVE b \in FreeSet(fl) \cup BlocksOf(r)
      <3>1. PICK j \in 1 .. Len(g) : b \in BlocksOf(g[j]) BY <1>2, InFreeSet
      <3> QED BY <1>1, <1>3, <1>4, <3>1, InFreeSet
    <2>2. ASSUME NEW b \in FreeSet(fl) PROVE b \in FreeSet(g)
      <3>1. PICK k \in 1 .. Len(fl) : b \in BlocksOf(fl[k]) BY <1>1, InFreeSet
      <3>2. PICK j \in 1 .. Len(g) : j # i /\ p(j) = k BY <1>6
      <3>3. b \in BlocksOf(g[j]) BY <1>4, <3>1, <3>2
      <3> QED BY <1>2, <3>3, InFreeSet
    <2>3. BlocksOf(r) \subseteq FreeSet(g) BY <1>2, <1>3, InFreeSet
    <2> QED BY <2>1, <2>2, <2>3
  <1> QED BY <1>8, <1>9 DEF g

\* The least of the indices in I, or 0.
LEMMA FirstIndex ==
    ASSUME NEW n \in Nat, NEW I, I \subseteq 1 .. n, NEW i, i = IF I # {} THEN Min(I) ELSE 0
    PROVE  i \in I \/ i = 0
  <1>1. CASE I = {} BY <1>1
  <1>2. CASE I # {}
    <2>1. I \subseteq Nat OBVIOUS
    <2>2. \E x \in I : \A y \in I : x <= y BY <1>2, <2>1, LeastNatural
    <2>3. Min(I) \in I BY <2>2 DEF Min
    <2> QED BY <1>2, <2>3
  <1> QED BY <1>1, <1>2

\* Where allocate_blocks() stops.
LEMMA FirstFitIndex ==
    ASSUME NEW fl \in Seq(ListRegion), NEW count \in Int
    PROVE  \/ FirstFit(fl, count) \in 1 .. Len(fl) /\ BlockCount(fl[FirstFit(fl, count)]) >= count
           \/ FirstFit(fl, count) = 0
  <1> DEFINE I == {i \in 1 .. Len(fl) : BlockCount(fl[i]) >= count}
  <1>1. Len(fl) \in Nat /\ I \subseteq 1 .. Len(fl) OBVIOUS
  <1>2. FirstFit(fl, count) = IF I # {} THEN Min(I) ELSE 0 BY DEF FirstFit, SelectInSeq
  <1>3. FirstFit(fl, count) \in I \/ FirstFit(fl, count) = 0
    <2> HIDE DEF I
    <2> QED BY <1>1, <1>2, FirstIndex
  <1> QED BY <1>3

\* Where free_blocks() stops.
LEMMA FirstFromIndex ==
    ASSUME NEW fl \in Seq(ListRegion), NEW start \in Int
    PROVE  FirstFrom(fl, start) \in 0 .. Len(fl)
  <1> DEFINE I == {i \in 1 .. Len(fl) : fl[i].s >= start}
  <1>1. Len(fl) \in Nat /\ I \subseteq 1 .. Len(fl) OBVIOUS
  <1>2. FirstFrom(fl, start) = IF I # {} THEN Min(I) ELSE 0 BY DEF FirstFrom, SelectInSeq
  <1>3. FirstFrom(fl, start) \in I \/ FirstFrom(fl, start) = 0
    <2> HIDE DEF I
    <2> QED BY <1>1, <1>2, FirstIndex
  <1> QED BY <1>1, <1>3

\* What allocate_blocks() returns was free, and just that is taken off the list.
THEOREM AllocateTakesFree ==
    ASSUME NEW fl, GoodList(fl), NEW count \in Nat, FirstFit(fl, count) # 0
    PROVE  LET got == AllocStart(fl, count) .. AllocStart(fl, count) + count - 1 IN
           /\ GoodList(AllocateBlocks(fl, count))
           /\ got \subseteq FreeSet(fl)
           /\ FreeSet(AllocateBlocks(fl, count)) = FreeSet(fl) \ got
  <1> DEFINE i == FirstFit(fl, count)
             got == AllocStart(fl, count) .. AllocStart(fl, count) + count - 1
  <1>1. fl \in Seq(ListRegion) BY DEF GoodList
  <1>2. i \in 1 .. Len(fl) /\ BlockCount(fl[i]) >= count BY <1>1, FirstFitIndex
  <1>3. AllocStart(fl, count) = fl[i].s BY DEF AllocStart
  <1> HIDE DEF i
  <1>4. fl[i].s \in Int /\ fl[i].e \in Int /\ fl[i].s + count - 1 <= fl[i].e
    <2>1. fl[i] \in ListRegion BY <1>1, <1>2
    <2>2. fl[i].s \in Int /\ fl[i].e \in Int BY <2>1 DEF ListRegion
    <2>3. fl[i].e - fl[i].s + 1 >= count BY <1>2 DEF BlockCount
    <2> QED BY <2>2, <2>3
  <1>5. got \subseteq BlocksOf(fl[i]) BY <1>3, <1>4 DEF BlocksOf
  <1>6. BlocksOf(fl[i]) \subseteq FreeSet(fl) BY <1>1, <1>2, InFreeSet
  <1>7. CASE BlockCount(fl[i]) = count
    <2>1. AllocateBlocks(fl, count) = RemoveAt(fl, i) BY <1>2, <1>7 DEF AllocateBlocks, i
    <2>2. got = BlocksOf(fl[i])
      <3>1. fl[i].s + count - 1 = fl[i].e BY <1>4, <1>7 DEF BlockCount
      <3> QED BY <1>3, <3>1 DEF BlocksOf
    <2> HIDE DEF got
    <2> QED BY <1>2, <1>5, <1>6, <2>1, <2>2, RemoveGood DEF got
  <1>8. CASE BlockCount(fl[i]) # count
    <2> DEFINE r == [s |-> fl[i].s + count, e |-> fl[i].e]
    <2>1. AllocateBlocks(fl, count) = [fl EXCEPT ![i] = r]
      <3>1. AllocateBlocks(fl, count) = [fl EXCEPT ![i].s = @ + count]
        BY <1>2, <1>8 DEF AllocateBlocks, i
      <3>2. fl[i] \in ListRegion BY <1>1, <1>2
      <3>3. [fl[i] EXCEPT !.s = @ + count] = r BY <3>2 DEF ListRegion
      <3> QED BY <3>1, <3>3
    <2>2. r \in ListRegion /\ r.s <= r.e + 1 BY <1>4 DEF ListRegion
    <2>3. BlocksOf(r) = BlocksOf(fl[i]) \ got BY <1>3, <1>4 DEF BlocksOf
    <2> HIDE DEF r, got
    <2>4. BlocksOf(r) \cap (FreeSet(fl) \ BlocksOf(fl[i])) = {} BY <2>3
    <2>5. /\ GoodList([fl EXCEPT ![i] = r])
          /\ FreeSet([fl EXCEPT ![i] = r]) = (FreeSet(fl) \ BlocksOf(fl[i])) \cup BlocksOf(r)
      BY <1>2, <2>2, <2>4, ReplaceGood
    <2>6. (FreeSet(fl) \ BlocksOf(fl[i])) \cup BlocksOf(r) = FreeSet(fl) \ got
      BY <1>5, <1>6, <2>3
    <2> QED BY <1>5, <1>6, <2>1, <2>5, <2>6 DEF got
  <1> QED BY <1>7, <1>8

\* Three ranges in a row are one range.
LEMMA ThreeRanges ==
    ASSUME NEW a \in Int, NEW b \in Int, NEW c \in Int, NEW d \in Int,
           a <= b, b <= c + 1, c + 1 <= d + 1
    PROVE  a .. d = (a .. b - 1) \cup (b .. c) \cup (c + 1 .. d)
  OBVIOUS

\* free_blocks() of blocks that are not free makes them free, and just them, whichever
\* neighbours it merges with.
THEOREM FreeGivesBack ==
    ASSUME NEW fl, GoodList(fl), NEW start \in Int, NEW count \in Nat,
           (start .. start + count - 1) \cap FreeSet(fl) = {}
    PROVE  /\ GoodList(FreeBlocks(fl, start, count))
           /\ FreeSet(FreeBlocks(fl, start, count)) = FreeSet(fl) \cup (start .. start + count - 1)
  <1> DEFINE end  == start + count - 1
             found == FirstFrom(fl, start)
             curr == IF found = 0 THEN Len(fl) + 1 ELSE found
             prev == curr - 1
             mergePrev == prev > 0 /\ fl[prev].e + 1 = start
             mergeNext == found # 0 /\ end + 1 = fl[curr].s
             freed == start .. end
             new == FreeBlocks(fl, start, count)
  <1>1. fl \in Seq(ListRegion) /\ Len(fl) \in Nat BY DEF GoodList
  <1>2. found \in 0 .. Len(fl) BY <1>1, FirstFromIndex
  <1>3. curr \in 1 .. Len(fl) + 1 /\ (found # 0 => curr \in 1 .. Len(fl))
        /\ prev \in 0 .. Len(fl) /\ prev = curr - 1 /\ prev < curr
    BY <1>1, <1>2
  <1>4. end \in Int /\ start <= end + 1 OBVIOUS
  <1>5. \A i \in 1 .. Len(fl) : /\ fl[i] \in ListRegion
                                /\ fl[i].s \in Int /\ fl[i].e \in Int /\ fl[i].s <= fl[i].e + 1
                                /\ BlocksOf(fl[i]) \subseteq FreeSet(fl)
    <2> SUFFICES ASSUME NEW i \in 1 .. Len(fl)
                 PROVE  /\ fl[i] \in ListRegion
                        /\ fl[i].s \in Int /\ fl[i].e \in Int /\ fl[i].s <= fl[i].e + 1
                        /\ BlocksOf(fl[i]) \subseteq FreeSet(fl)
      OBVIOUS
    <2>1. fl[i] \in ListRegion BY <1>1
    <2>2. fl[i].s <= fl[i].e + 1 BY DEF GoodList
    <2>3. BlocksOf(fl[i]) \subseteq FreeSet(fl) BY <1>1, InFreeSet
    <2> QED BY <2>1, <2>2, <2>3 DEF ListRegion
  <1>6. /\ mergePrev /\ mergeNext => new = RemoveAt([fl EXCEPT ![prev].e = fl[curr].e], curr)
        /\ mergePrev /\ ~mergeNext => new = [fl EXCEPT ![prev].e = end]
        /\ ~mergePrev /\ mergeNext => new = [fl EXCEPT ![curr].s = start]
        /\ ~mergePrev /\ ~mergeNext => new = InsertAt(fl, curr, Region(start, end))
    BY DEF FreeBlocks
  <1>7. freed \cap FreeSet(fl) = {} OBVIOUS
  <1> HIDE DEF found, curr, prev, end, freed, new
  <1>8. CASE mergePrev /\ mergeNext
    <2> DEFINE g == RemoveAt(fl, curr)
               r == [s |-> fl[prev].s, e |-> fl[curr].e]
    <2>1. prev \in 1 .. Len(fl) /\ curr \in 1 .. Len(fl) /\ prev # curr
          /\ fl[prev].e + 1 = start /\ end + 1 = fl[curr].s
      BY <1>3, <1>8
    <2>a. /\ fl[prev] \in ListRegion /\ fl[prev].s \in Int /\ fl[prev].e \in Int
          /\ fl[prev].s <= fl[prev].e + 1
      BY <1>5, <2>1
    <2>b. /\ fl[curr] \in ListRegion /\ fl[curr].s \in Int /\ fl[curr].e \in Int
          /\ fl[curr].s <= fl[curr].e + 1
      BY <1>5, <2>1
    <2>2. GoodList(g) /\ FreeSet(g) = FreeSet(fl) \ BlocksOf(fl[curr]) BY <2>1, RemoveGood
    <2>3. Len(g) = Len(fl) - 1 /\ prev \in 1 .. Len(g) /\ g[prev] = fl[prev]
      <3>1. /\ Len(g) = Len(fl) - 1
            /\ \A j \in 1 .. Len(fl) - 1 : g[j] = IF j < curr THEN fl[j] ELSE fl[j + 1]
        BY <1>1, <2>1, RemoveAtElements
      <3>2. prev \in 1 .. Len(fl) - 1 /\ prev < curr BY <1>1, <1>3, <2>1
      <3> QED BY <3>1, <3>2
    <2>4. new = [g EXCEPT ![prev] = r]
      <3> DEFINE h == [fl EXCEPT ![prev].e = fl[curr].e]
      <3>1. fl[prev] \in ListRegion /\ fl[curr].e \in Int BY <2>a, <2>b
      <3>2. [fl[prev] EXCEPT !.e = fl[curr].e] = r BY <3>1 DEF ListRegion
      <3>3. h = [fl EXCEPT ![prev] = r] BY <3>2
      <3>4. r \in ListRegion BY <2>a, <2>b DEF ListRegion
      <3> HIDE DEF r
      <3>5. h \in Seq(ListRegion) /\ Len(h) = Len(fl)
            /\ \A j \in 1 .. Len(fl) : h[j] = IF j = prev THEN r ELSE fl[j]
        <4>1. LET k == [fl EXCEPT ![prev] = r] IN
              k \in Seq(ListRegion) /\ Len(k) = Len(fl)
              /\ \A j \in 1 .. Len(fl) : k[j] = IF j = prev THEN r ELSE fl[j]
          BY <1>1, <2>1, <3>4
        <4> HIDE DEF h
        <4> QED BY <3>3, <4>1
      <3> HIDE DEF h
      <3>6. /\ RemoveAt(h, curr) \in Seq(ListRegion) /\ Len(RemoveAt(h, curr)) = Len(fl) - 1
            /\ \A j \in 1 .. Len(fl) - 1 : RemoveAt(h, curr)[j] = IF j < curr THEN h[j] ELSE h[j + 1]
        <4>1. h \in Seq(ListRegion) /\ curr \in 1 .. Len(h) /\ Len(h) = Len(fl) BY <2>1, <3>5
        <4>2. /\ RemoveAt(h, curr) \in Seq(ListRegion) /\ Len(RemoveAt(h, curr)) = Len(h) - 1
              /\ \A j \in 1 .. Len(h) - 1 :
                    RemoveAt(h, curr)[j] = IF j < curr THEN h[j] ELSE h[j + 1]
          BY <4>1, RemoveAtElements
        <4> QED BY <4>1, <4>2
      <3>7. /\ g \in Seq(ListRegion)
            /\ \A j \in 1 .. Len(fl) - 1 : g[j] = IF j < curr THEN fl[j] ELSE fl[j + 1]
        BY <1>1, <2>1, RemoveAtElements
      <3> HIDE DEF g
      <3>8. ASSUME NEW j \in 1 .. Len(fl) - 1
            PROVE  RemoveAt(h, curr)[j] = [g EXCEPT ![prev] = r][j]
        <4>1. j \in 1 .. Len(fl) /\ j + 1 \in 1 .. Len(fl) /\ j \in DOMAIN g BY <1>1, <2>3, <3>7
        <4>2. prev < curr /\ prev \in Nat /\ curr \in Nat BY <1>1, <1>3, <2>1
        <4>3. CASE j < curr BY <3>5, <3>6, <3>7, <4>1, <4>3
        <4>4. CASE ~(j < curr)
          <5>1. j # prev /\ j + 1 # prev BY <4>2, <4>4
          <5> QED BY <3>5, <3>6, <3>7, <4>1, <4>4, <5>1
        <4> QED BY <4>3, <4>4
      <3>9. [g EXCEPT ![prev] = r] \in Seq(ListRegion) /\ Len([g EXCEPT ![prev] = r]) = Len(fl) - 1
        BY <2>3, <3>4, <3>7
      <3>10. RemoveAt(h, curr) = [g EXCEPT ![prev] = r]
        <4> DEFINE a == RemoveAt(h, curr)
                   b == [g EXCEPT ![prev] = r]
        <4>1. a \in Seq(ListRegion) /\ b \in Seq(ListRegion) /\ Len(a) = Len(b)
              /\ \A j \in 1 .. Len(a) : a[j] = b[j]
          BY <3>6, <3>8, <3>9
        <4> HIDE DEF a, b
        <4>2. a = b BY <4>1, SeqEqual
        <4> QED BY <4>2 DEF a, b
      <3> QED BY <1>6, <1>8, <3>10 DEF h
    <2>5. r \in ListRegion /\ r.s <= r.e + 1 BY <1>4, <2>1, <2>a, <2>b DEF ListRegion
    <2>6. BlocksOf(r) = BlocksOf(fl[prev]) \cup freed \cup BlocksOf(fl[curr])
      <3>1. /\ BlocksOf(fl[prev]) = fl[prev].s .. start - 1
            /\ BlocksOf(fl[curr]) = end + 1 .. fl[curr].e
            /\ BlocksOf(r) = fl[prev].s .. fl[curr].e
        <4>1. fl[prev].e = start - 1 /\ fl[curr].s = end + 1 BY <1>4, <2>1, <2>a, <2>b
        <4> QED BY <4>1 DEF BlocksOf
      <3>2. fl[prev].s <= start /\ start <= end + 1 /\ end + 1 <= fl[curr].e + 1
        BY <1>4, <2>1, <2>a, <2>b
      <3>3. fl[prev].s .. fl[curr].e =
              (fl[prev].s .. start - 1) \cup (start .. end) \cup (end + 1 .. fl[curr].e)
        <4> DEFINE a == fl[prev].s
                   d == fl[curr].e
        <4>1. /\ a \in Int /\ start \in Int /\ end \in Int /\ d \in Int
              /\ a <= start /\ start <= end + 1 /\ end + 1 <= d + 1
          BY <1>4, <2>a, <2>b, <3>2
        <4> HIDE DEF a, d
        <4>2. a .. d = (a .. start - 1) \cup (start .. end) \cup (end + 1 .. d)
          BY <4>1, ThreeRanges
        <4> QED BY <4>2 DEF a, d
      <3> QED BY <3>1, <3>3 DEF freed
    <2>7. BlocksOf(fl[prev]) \cap BlocksOf(fl[curr]) = {} BY <2>1 DEF GoodList
    <2> HIDE DEF r, g
    <2>8. BlocksOf(r) \cap (FreeSet(g) \ BlocksOf(g[prev])) = {} BY <1>7, <2>2, <2>3, <2>6
    <2>9. /\ GoodList([g EXCEPT ![prev] = r])
          /\ FreeSet([g EXCEPT ![prev] = r]) = (FreeSet(g) \ BlocksOf(g[prev])) \cup BlocksOf(r)
      <3>1. GoodList(g) /\ prev \in 1 .. Len(g) BY <2>2, <2>3
      <3> QED BY <2>5, <2>8, <3>1, ReplaceGood, ZenonT(30)
    <2>10. BlocksOf(fl[prev]) \subseteq FreeSet(fl) /\ BlocksOf(fl[curr]) \subseteq FreeSet(fl)
      BY <1>5, <2>1
    <2>11. (FreeSet(g) \ BlocksOf(g[prev])) \cup BlocksOf(r) = FreeSet(fl) \cup freed
      BY <2>2, <2>3, <2>6, <2>10
    <2> QED BY <2>4, <2>9, <2>11 DEF new, freed, end
  <1>9. CASE mergePrev /\ ~mergeNext
    <2> DEFINE r == [s |-> fl[prev].s, e |-> end]
    <2>1. prev \in 1 .. Len(fl) /\ fl[prev].e + 1 = start BY <1>3, <1>9
    <2>a. /\ fl[prev] \in ListRegion /\ fl[prev].s \in Int /\ fl[prev].e \in Int
          /\ fl[prev].s <= fl[prev].e + 1
      BY <1>5, <2>1
    <2>2. new = [fl EXCEPT ![prev] = r]
      <3>1. [fl[prev] EXCEPT !.e = end] = r BY <2>a DEF ListRegion
      <3> QED BY <1>6, <1>9, <3>1
    <2>3. r \in ListRegion /\ r.s <= r.e + 1 BY <1>4, <2>1, <2>a DEF ListRegion
    <2>4. BlocksOf(r) = BlocksOf(fl[prev]) \cup freed
      BY <1>4, <2>1, <2>a DEF BlocksOf, freed
    <2> HIDE DEF r
    <2>5. BlocksOf(r) \cap (FreeSet(fl) \ BlocksOf(fl[prev])) = {} BY <1>7, <2>4
    <2>6. /\ GoodList([fl EXCEPT ![prev] = r])
          /\ FreeSet([fl EXCEPT ![prev] = r]) = (FreeSet(fl) \ BlocksOf(fl[prev])) \cup BlocksOf(r)
      BY <2>1, <2>3, <2>5, ReplaceGood, ZenonT(30)
    <2>7. (FreeSet(fl) \ BlocksOf(fl[prev])) \cup BlocksOf(r) = FreeSet(fl) \cup freed
      BY <1>5, <2>1, <2>4
    <2> QED BY <2>2, <2>6, <2>7 DEF new, freed, end
  <1>10. CASE ~mergePrev /\ mergeNext
    <2> DEFINE r == [s |-> start, e |-> fl[curr].e]
    <2>1. curr \in 1 .. Len(fl) /\ end + 1 = fl[curr].s BY <1>3, <1>10
    <2>b. /\ fl[curr] \in ListRegion /\ fl[curr].s \in Int /\ fl[curr].e \in Int
          /\ fl[curr].s <= fl[curr].e + 1
      BY <1>5, <2>1
    <2>2. new = [fl EXCEPT ![curr] = r]
      <3>1. [fl[curr] EXCEPT !.s = start] = r BY <2>b DEF ListRegion
      <3> QED BY <1>6, <1>10, <3>1
    <2>3. r \in ListRegion /\ r.s <= r.e + 1 BY <1>4, <2>1, <2>b DEF ListRegion
    <2>4. BlocksOf(r) = BlocksOf(fl[curr]) \cup freed
      BY <1>4, <2>1, <2>b DEF BlocksOf, freed
    <2> HIDE DEF r
    <2>5. BlocksOf(r) \cap (FreeSet(fl) \ BlocksOf(fl[curr])) = {} BY <1>7, <2>4
    <2>6. /\ GoodList([fl EXCEPT ![curr] = r])
          /\ FreeSet([fl EXCEPT ![curr] = r]) = (FreeSet(fl) \ BlocksOf(fl[curr])) \cup BlocksOf(r)
      BY <2>1, <2>3, <2>5, ReplaceGood, ZenonT(30)
    <2>7. (FreeSet(fl) \ BlocksOf(fl[curr])) \cup BlocksOf(r) = FreeSet(fl) \cup freed
      BY <1>5, <2>1, <2>4
    <2> QED BY <2>2, <2>6, <2>7 DEF new, freed, end
  <1>11. CASE ~mergePrev /\ ~mergeNext
    <2> DEFINE r == Region(start, end)
    <2>1. r \in ListRegion /\ r.s <= r.e + 1 /\ BlocksOf(r) = freed
      BY <1>4 DEF ListRegion, BlocksOf, Region, freed
    <2>2. new = InsertAt(fl, curr, r) BY <1>6, <1>11
    <2> HIDE DEF r
    <2>3. GoodList(InsertAt(fl, curr, r)) /\ FreeSet(InsertAt(fl, curr, r)) = FreeSet(fl) \cup BlocksOf(r)
      BY <1>3, <1>7, <2>1, InsertGood
    <2> QED BY <2>1, <2>2, <2>3 DEF new, freed, end
  <1> QED BY <1>8, <1>9, <1>10, <1>11

\* Two lists that share no block, one after the other.
LEMMA ConcatGood ==
    ASSUME NEW f, NEW g, GoodList(f), GoodList(g), FreeSet(f) \cap FreeSet(g) = {}
    PROVE  GoodList(f \o g) /\ FreeSet(f \o g) = FreeSet(f) \cup FreeSet(g)
  <1> DEFINE h == f \o g
  <1>1. f \in Seq(ListRegion) /\ g \in Seq(ListRegion) /\ Len(f) \in Nat /\ Len(g) \in Nat
    BY DEF GoodList
  <1>2. h \in Seq(ListRegion) /\ Len(h) = Len(f) + Len(g) BY <1>1, ConcatProperties
  <1>3. \A i \in 1 .. Len(f) : i \in 1 .. Len(h) /\ h[i] = f[i]
    BY <1>1, <1>2
  <1>4. \A i \in 1 .. Len(g) : Len(f) + i \in 1 .. Len(h) /\ h[Len(f) + i] = g[i]
    BY <1>1, <1>2
  <1> HIDE DEF h
  <1>5. \A i \in 1 .. Len(h) : i \in 1 .. Len(f) \/ \E j \in 1 .. Len(g) : i = Len(f) + j
    <2> SUFFICES ASSUME NEW i \in 1 .. Len(h), i \notin 1 .. Len(f)
                 PROVE  \E j \in 1 .. Len(g) : i = Len(f) + j
      OBVIOUS
    <2>1. i - Len(f) \in 1 .. Len(g) /\ i = Len(f) + (i - Len(f)) BY <1>1, <1>2
    <2> QED BY <2>1
  <1>6. /\ \A i \in 1 .. Len(f) : BlocksOf(f[i]) \subseteq FreeSet(f)
        /\ \A i \in 1 .. Len(g) : BlocksOf(g[i]) \subseteq FreeSet(g)
    BY <1>1, InFreeSet
  <1>7. GoodList(h)
    <2>1. ASSUME NEW i \in 1 .. Len(h) PROVE h[i].s <= h[i].e + 1
      <3>1. CASE i \in 1 .. Len(f) BY <1>3, <3>1 DEF GoodList
      <3>2. ASSUME NEW j \in 1 .. Len(g), i = Len(f) + j PROVE h[i].s <= h[i].e + 1
        <4>1. h[i] = g[j] BY <1>4, <3>2
        <4> QED BY <4>1 DEF GoodList
      <3> QED BY <1>5, <3>1, <3>2
    <2>2. ASSUME NEW i \in 1 .. Len(h), NEW k \in 1 .. Len(h), i # k
          PROVE  BlocksOf(h[i]) \cap BlocksOf(h[k]) = {}
      <3>1. CASE i \in 1 .. Len(f) /\ k \in 1 .. Len(f) BY <1>3, <2>2, <3>1 DEF GoodList
      <3>2. ASSUME NEW j \in 1 .. Len(g), i = Len(f) + j, k \in 1 .. Len(f)
            PROVE  BlocksOf(h[i]) \cap BlocksOf(h[k]) = {}
        <4>1. h[i] = g[j] /\ h[k] = f[k] BY <1>3, <1>4, <3>2
        <4> QED BY <1>6, <3>2, <4>1
      <3>3. ASSUME NEW j \in 1 .. Len(g), k = Len(f) + j, i \in 1 .. Len(f)
            PROVE  BlocksOf(h[i]) \cap BlocksOf(h[k]) = {}
        <4>1. h[k] = g[j] /\ h[i] = f[i] BY <1>3, <1>4, <3>3
        <4> QED BY <1>6, <3>3, <4>1
      <3>4. ASSUME NEW j \in 1 .. Len(g), i = Len(f) + j, NEW m \in 1 .. Len(g), k = Len(f) + m
            PROVE  BlocksOf(h[i]) \cap BlocksOf(h[k]) = {}
        <4>1. h[i] = g[j] /\ h[k] = g[m] BY <1>4, <3>4
        <4>2. j # m BY <2>2, <3>4
        <4> QED BY <4>1, <4>2 DEF GoodList
      <3> QED BY <1>5, <3>1, <3>2, <3>3, <3>4
    <2> QED BY <1>2, <2>1, <2>2 DEF GoodList
  <1>8. FreeSet(h) = FreeSet(f) \cup FreeSet(g)
    <2>1. ASSUME NEW b \in FreeSet(h) PROVE b \in FreeSet(f) \cup FreeSet(g)
      <3>1. PICK i \in 1 .. Len(h) : b \in BlocksOf(h[i]) BY <1>2, InFreeSet
      <3>2. CASE i \in 1 .. Len(f) BY <1>3, <1>6, <3>1, <3>2
      <3>3. ASSUME NEW j \in 1 .. Len(g), i = Len(f) + j PROVE b \in FreeSet(g)
        <4>1. h[i] = g[j] BY <1>4, <3>3
        <4> QED BY <1>6, <3>1, <4>1
      <3> QED BY <1>5, <3>2, <3>3
    <2>2. ASSUME NEW b \in FreeSet(f) PROVE b \in FreeSet(h)
      <3>1. PICK i \in 1 .. Len(f) : b \in BlocksOf(f[i]) BY <1>1, InFreeSet
      <3> QED BY <1>2, <1>3, <3>1, InFreeSet
    <2>3. ASSUME NEW b \in FreeSet(g) PROVE b \in FreeSet(h)
      <3>1. PICK i \in 1 .. Len(g) : b \in BlocksOf(g[i]) BY <1>1, InFreeSet
      <3>2. Len(f) + i \in 1 .. Len(h) /\ b \in BlocksOf(h[Len(f) + i]) BY <1>4, <3>1
      <3> QED BY <1>2, <3>2, InFreeSet
    <2> QED BY <2>1, <2>2, <2>3
  <1> QED BY <1>7, <1>8 DEF h

\* Lists of no, one and two regions.
LEMMA SmallLists ==
    /\ GoodList(<< >>) /\ FreeSet(<< >>) = {}
    /\ \A r \in ListRegion : r.s <= r.e + 1 => GoodList(<<r>>) /\ FreeSet(<<r>>) = BlocksOf(r)
    /\ \A r, q \in ListRegion :
        r.s <= r.e + 1 /\ q.s <= q.e + 1 /\ BlocksOf(r) \cap BlocksOf(q) = {} =>
            GoodList(<<r, q>>) /\ FreeSet(<<r, q>>) = BlocksOf(r) \cup BlocksOf(q)
  <1>1. GoodList(<< >>) BY DEF GoodList
  <1>2. FreeSet(<< >>) = {}
    <2>1. DOMAIN << >> = {} OBVIOUS
    <2> QED BY <2>1 DEF FreeSet
  <1>3. ASSUME NEW r \in ListRegion, r.s <= r.e + 1
        PROVE  GoodList(<<r>>) /\ FreeSet(<<r>>) = BlocksOf(r)
    <2>1. <<r>> \in Seq(ListRegion) /\ Len(<<r>>) = 1 /\ <<r>>[1] = r /\ 1 .. 1 = {1} OBVIOUS
    <2>2. GoodList(<<r>>) BY <1>3, <2>1 DEF GoodList
    <2>3. \A b : b \in FreeSet(<<r>>) <=> b \in BlocksOf(r) BY <2>1, InFreeSet
    <2> QED BY <2>2, <2>3
  <1>4. ASSUME NEW r \in ListRegion, NEW q \in ListRegion, r.s <= r.e + 1, q.s <= q.e + 1,
               BlocksOf(r) \cap BlocksOf(q) = {}
        PROVE  GoodList(<<r, q>>) /\ FreeSet(<<r, q>>) = BlocksOf(r) \cup BlocksOf(q)
    <2> DEFINE l == <<r, q>>
    <2>1. l \in Seq(ListRegion) /\ Len(l) = 2 /\ l[1] = r /\ l[2] = q /\ 1 .. 2 = {1, 2} OBVIOUS
    <2> HIDE DEF l
    <2>2. GoodList(l) BY <1>4, <2>1 DEF GoodList
    <2>3. \A b : b \in FreeSet(l) <=> b \in BlocksOf(r) \/ b \in BlocksOf(q) BY <2>1, InFreeSet
    <2> QED BY <2>2, <2>3 DEF l
  <1> QED BY <1>1, <1>2, <1>3, <1>4

\* A region without a range.
LEMMA CutGood ==
    ASSUME NEW r \in ListRegion, r.s <= r.e + 1, NEW start \in Int, NEW end \in Int,
           start <= end + 1
    PROVE  /\ GoodList(CutRegion(r, start, end))
           /\ FreeSet(CutRegion(r, start, end)) = BlocksOf(r) \ (start .. end)
  <1> DEFINE a == [s |-> end + 1, e |-> r.e]
             b == [s |-> r.s, e |-> start - 1]
             c == CutRegion(r, start, end)
  <1>1. r.s \in Int /\ r.e \in Int BY DEF ListRegion
  <1>2. a \in ListRegion /\ b \in ListRegion /\ a.s = end + 1 /\ a.e = r.e /\ b.s = r.s
        /\ b.e = start - 1
    BY <1>1 DEF ListRegion
  <1>3. CASE ~(r.e >= start /\ r.s <= end)
    <2>1. c = <<r>> BY <1>3 DEF CutRegion
    <2>2. BlocksOf(r) \ (start .. end) = BlocksOf(r) BY <1>1, <1>3 DEF BlocksOf
    <2> QED BY <2>1, <2>2, SmallLists
  <1>4. CASE (r.e >= start /\ r.s <= end) /\ start <= r.s /\ end >= r.e
    <2>1. c = << >> BY <1>1, <1>4 DEF CutRegion
    <2>2. BlocksOf(r) \ (start .. end) = {} BY <1>1, <1>4 DEF BlocksOf
    <2> QED BY <2>1, <2>2, SmallLists
  <1>5. CASE (r.e >= start /\ r.s <= end) /\ start <= r.s /\ end < r.e
    <2>1. c = <<a>> BY <1>1, <1>5 DEF CutRegion, Region
    <2>2. BlocksOf(r) \ (start .. end) = BlocksOf(a) BY <1>1, <1>2, <1>5 DEF BlocksOf
    <2>3. a.s <= a.e + 1 BY <1>1, <1>2, <1>5
    <2> HIDE DEF a
    <2> QED BY <1>2, <2>1, <2>2, <2>3, SmallLists
  <1>6. CASE (r.e >= start /\ r.s <= end) /\ start > r.s /\ end >= r.e
    <2>1. c = <<b>> BY <1>1, <1>6 DEF CutRegion, Region
    <2>2. BlocksOf(r) \ (start .. end) = BlocksOf(b) BY <1>1, <1>2, <1>6 DEF BlocksOf
    <2>3. b.s <= b.e + 1 BY <1>1, <1>2, <1>6
    <2> HIDE DEF b
    <2> QED BY <1>2, <2>1, <2>2, <2>3, SmallLists
  <1>7. CASE (r.e >= start /\ r.s <= end) /\ start > r.s /\ end < r.e
    <2>1. c = <<b, a>> BY <1>1, <1>7 DEF CutRegion, Region
    <2>2. /\ BlocksOf(r) \ (start .. end) = BlocksOf(b) \cup BlocksOf(a)
          /\ BlocksOf(b) \cap BlocksOf(a) = {}
      BY <1>1, <1>2, <1>7 DEF BlocksOf
    <2>3. b.s <= b.e + 1 /\ a.s <= a.e + 1 BY <1>1, <1>2, <1>7
    <2> HIDE DEF a, b
    <2> QED BY <1>2, <2>1, <2>2, <2>3, SmallLists
  <1> QED BY <1>1, <1>3, <1>4, <1>5, <1>6, <1>7

\* A region falls into regions.
LEMMA CutRegionType ==
    ASSUME NEW r \in ListRegion, NEW start \in Int, NEW end \in Int
    PROVE  CutRegion(r, start, end) \in Seq(ListRegion)
  <1>1. r.s \in Int /\ r.e \in Int BY DEF ListRegion
  <1>2. Region(end + 1, r.e) \in ListRegion /\ Region(r.s, start - 1) \in ListRegion
    BY <1>1 DEF Region, ListRegion
  <1> QED BY <1>2 DEF CutRegion

\* The loop of remove_range_from_freelist(), step by step.
LEMMA CutStep ==
    ASSUME NEW fl \in Seq(ListRegion), NEW start \in Int, NEW end \in Int
    PROVE  /\ Cut(fl, start, end)[0] = << >>
           /\ \A k \in 1 .. Len(fl) :
                Cut(fl, start, end)[k] = Cut(fl, start, end)[k - 1] \o CutRegion(fl[k], start, end)
  <1> DEFINE n == Len(fl)
             L == Seq(ListRegion)
             d(k) == CutRegion(fl[k], start, end)
             P(f) == f = [k \in 0 .. n |-> IF k = 0 THEN << >> ELSE f[k - 1] \o d(k)]
             G == [q \in (1 .. n) \X L |-> q[2] \o d(q[1])]
             c == Cut(fl, start, end)
  <1>0. n \in Nat OBVIOUS
  <1>1. \A k \in 1 .. n : d(k) \in L BY CutRegionType
  <1>2. c = CHOOSE f : P(f) BY DEF Cut
  <1> HIDE DEF d, c
  <1>3. ASSUME NEW k \in 1 .. n, NEW x \in L PROVE G[<<k, x>>] = x \o d(k)
    <2>1. <<k, x>> \in (1 .. n) \X L OBVIOUS
    <2> QED BY <2>1
  <1>4. Stepping(n, L, << >>, G)
    <2>1. \A q \in (1 .. n) \X L : q[2] \o d(q[1]) \in L
      <3> SUFFICES ASSUME NEW q \in (1 .. n) \X L PROVE q[2] \o d(q[1]) \in L OBVIOUS
      <3>1. q[2] \in L /\ d(q[1]) \in L BY <1>1
      <3> QED BY <3>1, ConcatProperties
    <2>2. << >> \in L OBVIOUS
    <2> QED BY <1>0, <2>1, <2>2 DEF Stepping
  <1> HIDE DEF G, n, L
  <1>5. PICK f : Steps(f, n, L, << >>, G) BY <1>4, Recursion
  <1>6. P(f)
    <2>1. ASSUME NEW k \in 1 .. n PROVE f[k] = f[k - 1] \o d(k)
      <3>1. k - 1 \in 0 .. n BY <1>0
      <3> QED BY <1>3, <1>5, <3>1 DEF Steps
    <2>2. f = [k \in 0 .. n |-> f[k]] BY <1>5 DEF Steps
    <2>3. \A k \in 0 .. n : f[k] = IF k = 0 THEN << >> ELSE f[k - 1] \o d(k)
      <3>1. \A k \in 0 .. n : k = 0 \/ k \in 1 .. n BY <1>0
      <3> QED BY <1>5, <2>1, <3>1 DEF Steps
    <2> QED BY <2>2, <2>3
  <1>7. P(c)
    <2> HIDE DEF P
    <2> QED BY <1>2, <1>6
  <1>8. c[0] = << >> /\ \A k \in 1 .. n : c[k] = c[k - 1] \o d(k)
    <2>1. 0 \in 0 .. n /\ \A k \in 1 .. n : k \in 0 .. n /\ k # 0 BY <1>0
    <2> QED BY <1>7, <2>1
  <1> QED BY <1>8 DEF c, d, n

\* remove_range_from_freelist() takes the range off the list, and nothing else.
LEMMA RemoveRangeGood ==
    ASSUME NEW fl, GoodList(fl), NEW start \in Int, NEW count \in Nat
    PROVE  /\ GoodList(RemoveRange(fl, start, count))
           /\ FreeSet(RemoveRange(fl, start, count)) = FreeSet(fl) \ (start .. start + count - 1)
  <1> DEFINE n == Len(fl)
             end == start + count - 1
             d(k) == CutRegion(fl[k], start, end)
             c == Cut(fl, start, end)
             Prefix(k) == {b \in FreeSet(fl) : \E j \in 1 .. k : b \in BlocksOf(fl[j])}
             T == {k \in 0 .. n : GoodList(c[k]) /\ FreeSet(c[k]) = Prefix(k) \ (start .. end)}
  <1>1. fl \in Seq(ListRegion) /\ n \in Nat /\ end \in Int /\ start <= end + 1 BY DEF GoodList
  <1>2. c[0] = << >> /\ \A k \in 1 .. n : c[k] = c[k - 1] \o d(k) BY <1>1, CutStep
  <1>3. \A k \in 1 .. n : GoodList(d(k)) /\ FreeSet(d(k)) = BlocksOf(fl[k]) \ (start .. end)
    <2> SUFFICES ASSUME NEW k \in 1 .. n
                 PROVE  GoodList(d(k)) /\ FreeSet(d(k)) = BlocksOf(fl[k]) \ (start .. end)
      OBVIOUS
    <2>1. fl[k] \in ListRegion /\ fl[k].s <= fl[k].e + 1 BY <1>1 DEF GoodList
    <2> HIDE DEF end
    <2> QED BY <1>1, <2>1, CutGood
  <1>4. RemoveRange(fl, start, count) = c[n] BY DEF RemoveRange
  <1> HIDE DEF c, d, end
  <1>5. \A k \in 0 .. n : k \in T
    <2>1. 0 \in T
      <3>1. Prefix(0) = {} OBVIOUS
      <3>2. 0 \in 0 .. n BY <1>1
      <3> QED BY <1>2, <3>1, <3>2, SmallLists
    <2>2. ASSUME NEW k \in 1 .. n, k - 1 \in T PROVE k \in T
      <3>1. k \in 0 .. n /\ k - 1 \in 0 .. n BY <1>1
      <3>2. GoodList(c[k - 1]) /\ FreeSet(c[k - 1]) = Prefix(k - 1) \ (start .. end) BY <2>2
      <3>3. Prefix(k - 1) \cap BlocksOf(fl[k]) = {}
        <4>1. ASSUME NEW j \in 1 .. k - 1 PROVE BlocksOf(fl[j]) \cap BlocksOf(fl[k]) = {}
          <5>1. j \in 1 .. Len(fl) /\ k \in 1 .. Len(fl) /\ j # k BY <1>1
          <5> QED BY <5>1 DEF GoodList
        <4> QED BY <4>1
      <3>4. Prefix(k) = Prefix(k - 1) \cup BlocksOf(fl[k])
        <4>1. 1 .. k = (1 .. k - 1) \cup {k} BY <1>1
        <4>2. BlocksOf(fl[k]) \subseteq FreeSet(fl) BY <1>1, InFreeSet
        <4> QED BY <4>1, <4>2
      <3> HIDE DEF Prefix
      <3>5. FreeSet(c[k - 1]) \cap FreeSet(d(k)) = {} BY <1>3, <3>2, <3>3
      <3>6. /\ GoodList(c[k - 1] \o d(k))
            /\ FreeSet(c[k - 1] \o d(k)) = FreeSet(c[k - 1]) \cup FreeSet(d(k))
        BY <1>3, <3>2, <3>5, ConcatGood
      <3>7. c[k] = c[k - 1] \o d(k) BY <1>2
      <3>8. FreeSet(c[k]) = Prefix(k) \ (start .. end) BY <1>3, <3>2, <3>4, <3>6, <3>7
      <3> QED BY <3>1, <3>6, <3>7, <3>8
    <2> HIDE DEF T
    <2> QED BY <1>1, <2>1, <2>2, UpTo
  <1>6. Prefix(n) = FreeSet(fl) BY <1>1, InFreeSet
  <1>7. n \in T
    <2> HIDE DEF T
    <2> QED BY <1>1, <1>5
  <1> QED BY <1>4, <1>6, <1>7 DEF end

\* Regions that start in S.
RegionsIn(S) == [s : S, e : Int]

\* A list of such regions is a list of regions.
LEMMA RegionsInList ==
    ASSUME NEW S, S \subseteq Int, NEW fl \in Seq(RegionsIn(S))
    PROVE  fl \in Seq(ListRegion)
  <1>1. RegionsIn(S) \subseteq ListRegion BY DEF RegionsIn, ListRegion
  <1> QED BY <1>1, SeqMonotonic

\* The list stays a list of regions that start in S.
LEMMA ListTypesIn ==
    ASSUME NEW S, S \subseteq Int, NEW fl \in Seq(RegionsIn(S)), NEW start \in S, NEW count \in Int,
           \A x \in S : x + count \in S
    PROVE  /\ FirstFit(fl, count) # 0 => AllocStart(fl, count) \in S
           /\ AllocateBlocks(fl, count) \in Seq(RegionsIn(S))
           /\ FreeBlocks(fl, start, count) \in Seq(RegionsIn(S))
  <1>0. fl \in Seq(ListRegion) BY RegionsInList
  <1>1. \A i \in 1 .. Len(fl) : fl[i] \in RegionsIn(S) /\ fl[i].s \in S /\ fl[i].e \in Int
    <2>1. \A i \in 1 .. Len(fl) : fl[i] \in RegionsIn(S) OBVIOUS
    <2> QED BY <2>1 DEF RegionsIn
  <1>2. \A i \in 1 .. Len(fl), x \in Int :
            /\ x \in S => [fl EXCEPT ![i].s = x] \in Seq(RegionsIn(S))
            /\ [fl EXCEPT ![i].e = x] \in Seq(RegionsIn(S))
    <2> SUFFICES ASSUME NEW i \in 1 .. Len(fl), NEW x \in Int
                 PROVE  /\ x \in S => [fl EXCEPT ![i].s = x] \in Seq(RegionsIn(S))
                        /\ [fl EXCEPT ![i].e = x] \in Seq(RegionsIn(S))
      OBVIOUS
    <2>1. fl[i] \in RegionsIn(S) BY <1>1
    <2>2. /\ x \in S => [fl[i] EXCEPT !.s = x] \in RegionsIn(S)
          /\ [fl[i] EXCEPT !.e = x] \in RegionsIn(S)
      BY <2>1 DEF RegionsIn
    <2> QED BY <2>2
  <1>3. /\ FirstFit(fl, count) # 0 => AllocStart(fl, count) \in S
        /\ AllocateBlocks(fl, count) \in Seq(RegionsIn(S))
    <2>1. CASE FirstFit(fl, count) = 0 BY <2>1 DEF AllocStart, AllocateBlocks
    <2>2. CASE FirstFit(fl, count) \in 1 .. Len(fl)
      <3>1. FirstFit(fl, count) # 0 BY <2>2
      <3>2. AllocStart(fl, count) \in S BY <1>1, <2>2, <3>1 DEF AllocStart
      <3>3. RemoveAt(fl, FirstFit(fl, count)) \in Seq(RegionsIn(S)) BY <2>2, RemoveAtElements
      <3>4. [fl EXCEPT ![FirstFit(fl, count)].s = @ + count] \in Seq(RegionsIn(S))
        <4>1. fl[FirstFit(fl, count)].s + count \in S BY <1>1, <2>2
        <4> QED BY <1>2, <2>2, <4>1
      <3> QED BY <3>1, <3>2, <3>3, <3>4 DEF AllocateBlocks
    <2> QED BY <1>0, <2>1, <2>2, FirstFitIndex
  <1>4. FreeBlocks(fl, start, count) \in Seq(RegionsIn(S))
    <2> DEFINE end  == start + count - 1
               found == FirstFrom(fl, start)
               curr == IF found = 0 THEN Len(fl) + 1 ELSE found
               prev == curr - 1
               mergePrev == prev > 0 /\ fl[prev].e + 1 = start
               mergeNext == found # 0 /\ end + 1 = fl[curr].s
               new == FreeBlocks(fl, start, count)
    <2>1. found \in 0 .. Len(fl) BY <1>0, FirstFromIndex
    <2>2. /\ curr \in 1 .. Len(fl) + 1 /\ (found # 0 => curr \in 1 .. Len(fl))
          /\ prev \in 0 .. Len(fl) /\ end \in Int
      BY <2>1
    <2>3. /\ mergePrev /\ mergeNext => new = RemoveAt([fl EXCEPT ![prev].e = fl[curr].e], curr)
          /\ mergePrev /\ ~mergeNext => new = [fl EXCEPT ![prev].e = end]
          /\ ~mergePrev /\ mergeNext => new = [fl EXCEPT ![curr].s = start]
          /\ ~mergePrev /\ ~mergeNext => new = InsertAt(fl, curr, Region(start, end))
      BY DEF FreeBlocks
    <2>4. mergePrev => prev \in 1 .. Len(fl) BY <2>2
    <2>5. mergeNext => curr \in 1 .. Len(fl) BY <2>2
    <2>6. Region(start, end) \in RegionsIn(S) BY <2>2 DEF Region, RegionsIn
    <2>7. InsertAt(fl, curr, Region(start, end)) \in Seq(RegionsIn(S))
      <3> HIDE DEF curr, end
      <3> QED BY <2>2, <2>6, InsertAtElements
    <2>8. mergePrev /\ mergeNext =>
            RemoveAt([fl EXCEPT ![prev].e = fl[curr].e], curr) \in Seq(RegionsIn(S))
      <3> DEFINE h == [fl EXCEPT ![prev].e = fl[curr].e]
      <3> SUFFICES ASSUME mergePrev, mergeNext PROVE RemoveAt(h, curr) \in Seq(RegionsIn(S))
        OBVIOUS
      <3>1. fl[curr].e \in Int BY <1>1, <2>5
      <3>2. h \in Seq(RegionsIn(S)) BY <1>2, <2>4, <3>1
      <3>3. Len(h) = Len(fl) OBVIOUS
      <3> HIDE DEF h
      <3> QED BY <2>5, <3>2, <3>3, RemoveAtElements
    <2>9. mergePrev => [fl EXCEPT ![prev].e = end] \in Seq(RegionsIn(S)) BY <1>2, <2>2, <2>4
    <2>10. mergeNext => [fl EXCEPT ![curr].s = start] \in Seq(RegionsIn(S)) BY <1>2, <2>5
    <2>11. new \in Seq(RegionsIn(S))
      <3> HIDE DEF curr, end, prev, mergePrev, mergeNext, new
      <3> QED BY <2>3, <2>7, <2>8, <2>9, <2>10
    <2> QED BY <2>11
  <1> QED BY <1>3, <1>4

\* Whatever is on the list, it stays a list of regions.
LEMMA ListTypes ==
    ASSUME NEW fl \in Seq(ListRegion), NEW start \in Int, NEW count \in Int
    PROVE  /\ AllocStart(fl, count) \in Int
           /\ AllocateBlocks(fl, count) \in Seq(ListRegion)
           /\ FreeBlocks(fl, start, count) \in Seq(ListRegion)
  <1>1. ListRegion = RegionsIn(Int) BY DEF ListRegion, RegionsIn
  <1>2. \A x \in Int : x + count \in Int OBVIOUS
  <1>3. /\ FirstFit(fl, count) # 0 => AllocStart(fl, count) \in Int
        /\ AllocateBlocks(fl, count) \in Seq(ListRegion)
        /\ FreeBlocks(fl, start, count) \in Seq(ListRegion)
    BY <1>1, <1>2, ListTypesIn
  <1>4. FirstFit(fl, count) = 0 => AllocStart(fl, count) = -1 BY DEF AllocStart
  <1> QED BY <1>3, <1>4

\* Regions that do not start before block 0.
NatRegion == RegionsIn(Nat)

\* They stay such regions when the counts and the starts are not negative.
LEMMA NatLists ==
    ASSUME NEW fl \in Seq(NatRegion), NEW count \in Nat
    PROVE  /\ FirstFit(fl, count) # 0 => AllocStart(fl, count) \in Nat
           /\ AllocateBlocks(fl, count) \in Seq(NatRegion)
           /\ \A start \in Nat : /\ FreeBlocks(fl, start, count) \in Seq(NatRegion)
                                 /\ RemoveRange(fl, start, count) \in Seq(NatRegion)
  <1>1. Nat \subseteq Int /\ \A x \in Nat : x + count \in Nat OBVIOUS
  <1>2. ASSUME NEW start \in Nat
        PROVE  /\ FirstFit(fl, count) # 0 => AllocStart(fl, count) \in Nat
               /\ AllocateBlocks(fl, count) \in Seq(NatRegion)
               /\ FreeBlocks(fl, start, count) \in Seq(NatRegion)
    <2>1. count \in Int OBVIOUS
    <2> QED BY <1>1, <2>1, ListTypesIn DEF NatRegion
  <1>3. ASSUME NEW start \in Nat PROVE RemoveRange(fl, start, count) \in Seq(NatRegion)
    <2> DEFINE n == Len(fl)
               end == start + count - 1
               c == Cut(fl, start, end)
               T == {k \in 0 .. n : c[k] \in Seq(NatRegion)}
    <2>1. fl \in Seq(ListRegion) BY <1>1, RegionsInList DEF NatRegion
    <2>2. n \in Nat /\ end \in Int /\ end + 1 \in Nat /\ start \in Int OBVIOUS
    <2>3. ASSUME NEW k \in 1 .. n PROVE CutRegion(fl[k], start, end) \in Seq(NatRegion)
      <3>1. fl[k] \in NatRegion OBVIOUS
      <3> HIDE DEF end
      <3>2. fl[k].s \in Nat /\ fl[k].e \in Int BY <3>1 DEF NatRegion, RegionsIn
      <3>3. Region(end + 1, fl[k].e) \in NatRegion /\ Region(fl[k].s, start - 1) \in NatRegion
        BY <2>2, <3>2 DEF Region, NatRegion, RegionsIn
      <3> QED BY <3>1, <3>3 DEF CutRegion
    <2>4. /\ c[0] = << >>
          /\ \A k \in 1 .. n : c[k] = c[k - 1] \o CutRegion(fl[k], start, end)
      <3> HIDE DEF end
      <3> QED BY <2>1, <2>2, CutStep
    <2> HIDE DEF c, end
    <2>5. 0 \in T
      <3>1. << >> \in Seq(NatRegion) /\ 0 \in 0 .. n BY <2>2
      <3> QED BY <2>4, <3>1
    <2>6. ASSUME NEW k \in 1 .. n, k - 1 \in T PROVE k \in T
      <3>1. c[k - 1] \in Seq(NatRegion) /\ k \in 0 .. n BY <2>2, <2>6
      <3>2. c[k - 1] \o CutRegion(fl[k], start, end) \in Seq(NatRegion)
        BY <2>3, <3>1, ConcatProperties
      <3> QED BY <2>4, <3>1, <3>2
    <2>7. n \in T
      <3> HIDE DEF T
      <3>1. \A k \in 0 .. n : k \in T BY <2>2, <2>5, <2>6, UpTo
      <3> QED BY <2>2, <3>1
    <2> QED BY <2>7 DEF RemoveRange, c, end
  <1> QED BY <1>2, <1>3

----------------------------------------------------------------------------
(* Loading                                                                 *)

\* init_free_list(): everything after the metadata.
LEMMA InitGood ==
    /\ GoodList(InitFreeList(META, TOTAL)) /\ FreeSet(InitFreeList(META, TOTAL)) = META .. TOTAL - 1
    /\ InitFreeList(META, TOTAL) \in Seq(NatRegion)
  <1> DEFINE r == Region(META, TOTAL - 1)
  <1>1. r \in ListRegion /\ r.s <= r.e + 1 /\ BlocksOf(r) = META .. TOTAL - 1
    BY DiskAssumption DEF Region, ListRegion, BlocksOf
  <1>2. InitFreeList(META, TOTAL) = <<r>> BY DEF InitFreeList
  <1>3. r \in NatRegion BY DiskAssumption DEF Region, NatRegion, RegionsIn
  <1> HIDE DEF r
  <1> QED BY <1>1, <1>2, <1>3, SmallLists

\* The blocks that an entry with these fields claims.
ExtentOf(f) == IF f.used /\ f.start # -1 THEN f.start .. f.start + f.count - 1 ELSE {}

\* load_metadata() leaves on the list what no entry in use claims.
THEOREM LoadRebuilds ==
    ASSUME NEW t \in [Entries -> FileEntry]
    PROVE  /\ GoodList(LoadFreeList(t))
           /\ FreeSet(LoadFreeList(t)) = (META .. TOTAL - 1) \ UNION {ExtentOf(t[i]) : i \in Entries}
           /\ (\A j \in Holders(t) : t[j].start \in Nat) => LoadFreeList(t) \in Seq(NatRegion)
  <1> DEFINE n == MAX_FILES
             low == \A j \in Holders(t) : t[j].start \in Nat
             L == {fl \in Seq(ListRegion) : GoodList(fl) /\ (low => fl \in Seq(NatRegion))}
             fl0 == InitFreeList(META, TOTAL)
             step(k, x) == IF k - 1 \in Holders(t)
                           THEN RemoveRange(x, t[k - 1].start, t[k - 1].count) ELSE x
             P(f) == f = [k \in 0 .. n |-> IF k = 0 THEN fl0 ELSE step(k, f[k - 1])]
             G == [q \in (1 .. n) \X L |-> step(q[1], q[2])]
             c == Loaded(t)
             Before(k) == {b \in Int : \E j \in Entries : j < k /\ b \in ExtentOf(t[j])}
             T == {k \in 0 .. n : c[k] \in L /\ FreeSet(c[k]) = (META .. TOTAL - 1) \ Before(k)}
  <1>0. n \in Nat BY DiskAssumption
  <1>1. \A k \in 1 .. n : k - 1 \in Entries BY <1>0 DEF Entries
  <1>2. \A j \in Entries : /\ t[j].start \in Int /\ t[j].count \in Int /\ t[j].used \in BOOLEAN
                           /\ j \in Holders(t) =>
                                t[j].count \in Nat /\ ExtentOf(t[j]) = t[j].start .. t[j].start + t[j].count - 1
                           /\ j \notin Holders(t) => ExtentOf(t[j]) = {}
    BY DEF FileEntry, Holders, ExtentOf
  <1>3. c = CHOOSE f : P(f) BY DEF Loaded
  <1>4. ASSUME NEW k \in 1 .. n, NEW x \in L
        PROVE  step(k, x) \in L /\ FreeSet(step(k, x)) = FreeSet(x) \ ExtentOf(t[k - 1])
    <2>1. x \in L /\ GoodList(x) /\ k - 1 \in Entries BY <1>1
    <2>2. CASE k - 1 \in Holders(t)
      <3> DEFINE g == RemoveRange(x, t[k - 1].start, t[k - 1].count)
      <3>1. step(k, x) = g BY <2>2
      <3>2. GoodList(g) /\ FreeSet(g) = FreeSet(x) \ (t[k - 1].start .. t[k - 1].start + t[k - 1].count - 1)
        <4>1. t[k - 1].start \in Int /\ t[k - 1].count \in Nat BY <1>2, <2>1, <2>2
        <4> HIDE DEF L
        <4> QED BY <2>1, <4>1, RemoveRangeGood
      <3>5. low => g \in Seq(NatRegion)
        <4> SUFFICES ASSUME low PROVE g \in Seq(NatRegion) OBVIOUS
        <4>1. t[k - 1].start \in Nat /\ t[k - 1].count \in Nat /\ x \in Seq(NatRegion)
          BY <1>2, <2>1, <2>2
        <4> QED BY <4>1, NatLists
      <3>3. g \in L BY <3>2, <3>5 DEF GoodList
      <3>4. ExtentOf(t[k - 1]) = t[k - 1].start .. t[k - 1].start + t[k - 1].count - 1
        BY <1>2, <2>1, <2>2
      <3> HIDE DEF g, L, step
      <3> QED BY <3>1, <3>2, <3>3, <3>4
    <2>3. CASE k - 1 \notin Holders(t) BY <1>2, <2>1, <2>3
    <2> QED BY <2>2, <2>3
  <1>5. fl0 \in L /\ FreeSet(fl0) = META .. TOTAL - 1
    <2>1. GoodList(fl0) /\ fl0 \in Seq(ListRegion) /\ FreeSet(fl0) = META .. TOTAL - 1
      BY InitGood DEF GoodList
    <2>2. fl0 \in Seq(NatRegion) BY InitGood
    <2> QED BY <2>1, <2>2
  <1> HIDE DEF step, c, fl0, L, low
  <1>6. Stepping(n, L, fl0, G)
    <2>1. \A q \in (1 .. n) \X L : step(q[1], q[2]) \in L BY <1>4
    <2> QED BY <1>0, <1>5, <2>1 DEF Stepping
  <1>7. \A k \in 1 .. n : \A x \in L : G[<<k, x>>] = step(k, x) OBVIOUS
  <1> HIDE DEF G, n
  <1>8. PICK f : Steps(f, n, L, fl0, G) BY <1>6, Recursion
  <1>9. P(f)
    <2>1. ASSUME NEW k \in 1 .. n PROVE f[k] = step(k, f[k - 1])
      <3>1. k - 1 \in 0 .. n BY <1>0
      <3> QED BY <1>7, <1>8, <3>1 DEF Steps
    <2>2. f = [k \in 0 .. n |-> f[k]] BY <1>8 DEF Steps
    <2>3. \A k \in 0 .. n : f[k] = IF k = 0 THEN fl0 ELSE step(k, f[k - 1])
      <3>1. \A k \in 0 .. n : k = 0 \/ k \in 1 .. n BY <1>0
      <3>2. \A k \in 1 .. n : k # 0 BY <1>0
      <3> QED BY <1>8, <2>1, <3>1, <3>2 DEF Steps
    <2> QED BY <2>2, <2>3
  <1>10. P(c)
    <2> HIDE DEF P
    <2> QED BY <1>3, <1>9
  <1>11. c[0] = fl0 /\ \A k \in 1 .. n : c[k] = step(k, c[k - 1])
    <2>1. 0 \in 0 .. n /\ \A k \in 1 .. n : k \in 0 .. n /\ k # 0 BY <1>0
    <2> QED BY <1>10, <2>1
  <1>12. \A k \in 0 .. n : k \in T
    <2>1. 0 \in T
      <3>1. Before(0) = {} BY DEF Entries
      <3>2. 0 \in 0 .. n BY <1>0
      <3> QED BY <1>5, <1>11, <3>1, <3>2
    <2>2. ASSUME NEW k \in 1 .. n, k - 1 \in T PROVE k \in T
      <3>1. k \in 0 .. n /\ k - 1 \in Entries BY <1>0, <1>1
      <3>2. c[k - 1] \in L /\ FreeSet(c[k - 1]) = (META .. TOTAL - 1) \ Before(k - 1) BY <2>2
      <3>3. c[k] \in L /\ FreeSet(c[k]) = FreeSet(c[k - 1]) \ ExtentOf(t[k - 1])
        BY <1>4, <1>11, <3>2
      <3>4. Before(k) = Before(k - 1) \cup ExtentOf(t[k - 1])
        <4>1. \A j \in Entries : j < k <=> j < k - 1 \/ j = k - 1 BY <1>0 DEF Entries
        <4>2. ExtentOf(t[k - 1]) \subseteq Int BY <1>2, <3>1
        <4> QED BY <3>1, <4>1, <4>2
      <3> HIDE DEF Before
      <3> QED BY <3>1, <3>2, <3>3, <3>4
    <2> HIDE DEF T
    <2> QED BY <1>0, <2>1, <2>2, UpTo
  <1>13. Before(n) = UNION {ExtentOf(t[i]) : i \in Entries}
    <2>1. \A j \in Entries : j < n BY <1>0 DEF Entries, n
    <2>2. \A j \in Entries : ExtentOf(t[j]) \subseteq Int BY <1>2
    <2> QED BY <2>1, <2>2
  <1>14. n \in T
    <2> HIDE DEF T
    <2> QED BY <1>0, <1>12
  <1>15. c[n] \in L /\ FreeSet(c[n]) = (META .. TOTAL - 1) \ UNION {ExtentOf(t[i]) : i \in Entries}
    BY <1>13, <1>14
  <1> QED BY <1>15 DEF LoadFreeList, c, n, L, low

----------------------------------------------------------------------------
(* The inductive invariant                                                 *)

\* What an entry counts for in used_blocks and in file_count.
HeldBlocks(f) == IF f.used THEN f.count ELSE 0
Holdings(t) == [i \in Entries |-> HeldBlocks(t[i])]
UsedIn(t) == {i \in Entries : t[i].used}

\* A table and a set of free blocks that divide the data blocks among them.
Divided(t, F) ==
    /\ \A i, j \in Entries : i # j => ExtentOf(t[i]) \cap ExtentOf(t[j]) = {}
    /\ \A i \in Entries : ExtentOf(t[i]) \cap F = {}
    /\ \A b : b \in META .. TOTAL - 1 <=> b \in F \/ \E i \in Entries : b \in ExtentOf(t[i])

\* The counts, until a shrink has gone below zero blocks: used_blocks is what the files
\* have, on the disk too, no region and no file starts before block 0, and a file
\* without a start has no blocks.
CountsInv ==
    /\ saved.used = used_blocks
    /\ used_blocks = META + Total(Holdings(file_table))
    /\ free_list \in Seq(NatRegion)
    /\ \A i \in UsedIn(file_table) : /\ file_table[i].count \in Nat
                                     /\ file_table[i].start \in Nat \cup {-1}
                                     /\ file_table[i].start = -1 => file_table[i].count = 0

\* The tables: the file table is on the disk and file_count counts it, names are as they
\* are stored, and until a shrink has gone below zero blocks the counts are right; until
\* a write has extended a file, too, the free list is in order and divides the disk with
\* the files.
TablesInv ==
    /\ file_table \in [Entries -> FileEntry]
    /\ free_list \in Seq(ListRegion)
    /\ used_blocks \in Int
    /\ grown \in 0 .. MaxGrow
    /\ negative \in 0 .. MaxNegative
    /\ saved = [files |-> file_table, count |-> file_count, used |-> saved.used]
    /\ saved.used \in Int
    /\ file_count = Cardinality(UsedIn(file_table))
    /\ \A i \in UsedIn(file_table) : /\ file_table[i].name \in Names
                                     /\ StoredName[file_table[i].name] = file_table[i].name
    /\ negative = 0 => CountsInv
    /\ grown = 0 /\ negative = 0 => GoodList(free_list) /\ Divided(file_table, FreeSet(free_list))

\* The session: at most one descriptor is in use, and it is for an entry in use whose
\* name is the one the shell has kept.
SessionInv ==
    /\ open_files \in [Entries -> Entries \cup {-1}]
    /\ current_fd \in Entries \cup {-1}
    /\ current_filename \in Names \cup {NoName}
    /\ \A d \in Entries : open_files[d] # -1 => d = current_fd
    /\ current_fd # -1 =>
        /\ open_files[current_fd] \in UsedIn(file_table)
        /\ file_table[open_files[current_fd]].name = current_filename

FsInv == TablesInv /\ SessionInv

\* One entry takes blocks from the free set, or gives some back.
LEMMA DividedStep ==
    ASSUME NEW t \in [Entries -> FileEntry], NEW F, Divided(t, F), NEW i \in Entries, NEW f, NEW F2,
           ExtentOf(f) \cup F2 = ExtentOf(t[i]) \cup F, ExtentOf(f) \cap F2 = {}
    PROVE  Divided([t EXCEPT ![i] = f], F2)
  <1> DEFINE u == [t EXCEPT ![i] = f]
  <1>1. u[i] = f /\ \A j \in Entries : j # i => u[j] = t[j] OBVIOUS
  <1>2. \A j \in Entries : j # i => ExtentOf(t[j]) \cap (ExtentOf(f) \cup F2) = {} BY DEF Divided
  <1> HIDE DEF u
  <1>3. ASSUME NEW j \in Entries, NEW k \in Entries, j # k
        PROVE  ExtentOf(u[j]) \cap ExtentOf(u[k]) = {}
    <2>1. CASE j = i BY <1>1, <1>2, <1>3, <2>1
    <2>2. CASE k = i BY <1>1, <1>2, <1>3, <2>2
    <2>3. CASE j # i /\ k # i BY <1>1, <1>3, <2>3 DEF Divided
    <2> QED BY <2>1, <2>2, <2>3
  <1>4. \A j \in Entries : ExtentOf(u[j]) \cap F2 = {} BY <1>1, <1>2
  <1>5. ASSUME NEW b
        PROVE  (b \in F2 \/ \E j \in Entries : b \in ExtentOf(u[j])) <=>
                    (b \in F \/ \E j \in Entries : b \in ExtentOf(t[j]))
    <2>1. b \in F2 \/ b \in ExtentOf(u[i]) <=> b \in F \/ b \in ExtentOf(t[i]) BY <1>1
    <2>2. \A j \in Entries : j # i => (b \in ExtentOf(u[j]) <=> b \in ExtentOf(t[j])) BY <1>1
    <2> QED BY <2>1, <2>2
  <1> QED BY <1>3, <1>4, <1>5 DEF Divided, u

\* One entry changes: the sum and the number of entries in use change with it.
LEMMA EntryTotals ==
    ASSUME NEW t \in [Entries -> FileEntry], NEW i \in Entries, NEW f \in FileEntry
    PROVE  /\ Total(Holdings([t EXCEPT ![i] = f])) = Total(Holdings(t)) + HeldBlocks(f) - HeldBlocks(t[i])
           /\ f.used /\ t[i].used => UsedIn([t EXCEPT ![i] = f]) = UsedIn(t)
           /\ f.used /\ ~t[i].used => Cardinality(UsedIn([t EXCEPT ![i] = f])) = Cardinality(UsedIn(t)) + 1
           /\ ~f.used /\ t[i].used => Cardinality(UsedIn([t EXCEPT ![i] = f])) = Cardinality(UsedIn(t)) - 1
  <1> DEFINE u == [t EXCEPT ![i] = f]
  <1>1. u \in [Entries -> FileEntry] /\ u[i] = f /\ \A j \in Entries : j # i => u[j] = t[j]
    OBVIOUS
  <1> HIDE DEF u
  <1>2. \A g \in FileEntry : HeldBlocks(g) \in Int BY DEF FileEntry, HeldBlocks
  <1>3. Holdings(t) \in [Entries -> Int] /\ Holdings(u) \in [Entries -> Int] BY <1>1, <1>2 DEF Holdings
  <1>4. Holdings(u)[i] = HeldBlocks(f) /\ Holdings(t)[i] = HeldBlocks(t[i])
        /\ \A j \in Entries : j # i => Holdings(u)[j] = Holdings(t)[j]
    BY <1>1 DEF Holdings
  <1>5. Total(Holdings(u)) = Total(Holdings(t)) + HeldBlocks(f) - HeldBlocks(t[i])
    BY <1>3, <1>4, TotalChange
  <1>6. IsFiniteSet(UsedIn(t)) /\ IsFiniteSet(UsedIn(u))
    <2>1. IsFiniteSet(Entries) BY DiskAssumption, FS_Interval DEF Entries
    <2>2. UsedIn(t) \subseteq Entries /\ UsedIn(u) \subseteq Entries BY DEF UsedIn
    <2> QED BY <2>1, <2>2, FS_Subset
  <1>7. f.used /\ t[i].used => UsedIn(u) = UsedIn(t) BY <1>1 DEF UsedIn
  <1>8. ASSUME f.used, ~t[i].used PROVE Cardinality(UsedIn(u)) = Cardinality(UsedIn(t)) + 1
    <2>1. UsedIn(u) = UsedIn(t) \cup {i} /\ i \notin UsedIn(t) BY <1>1, <1>8 DEF UsedIn
    <2> QED BY <1>6, <2>1, FS_AddElement
  <1>9. ASSUME ~f.used, t[i].used PROVE Cardinality(UsedIn(u)) = Cardinality(UsedIn(t)) - 1
    <2>1. UsedIn(u) = UsedIn(t) \ {i} /\ i \in UsedIn(t) BY <1>1, <1>9 DEF UsedIn
    <2> QED BY <1>6, <2>1, FS_RemoveElement
  <1> QED BY <1>5, <1>7, <1>8, <1>9 DEF u

\* The step of the tables that every command which changes one entry takes.
LEMMA EntryStep ==
    ASSUME TablesInv, NEW i \in Entries, NEW f \in FileEntry,
           file_table' = [file_table EXCEPT ![i] = f],
           f.used \/ file_table[i].used,
           free_list' \in Seq(ListRegion), used_blocks' \in Int,
           grown' \in 0 .. MaxGrow, negative' \in 0 .. MaxNegative,
           file_count' = IF f.used /\ file_table[i].used THEN file_count
                         ELSE IF f.used THEN file_count + 1 ELSE file_count - 1,
           saved' = [files |-> file_table', count |-> file_count', used |-> used_blocks'],
           f.used => f.name \in Names /\ StoredName[f.name] = f.name,
           negative' = 0 =>
               /\ negative = 0 /\ free_list' \in Seq(NatRegion)
               /\ used_blocks' = used_blocks + HeldBlocks(f) - HeldBlocks(file_table[i])
               /\ f.used => /\ f.count \in Nat /\ f.start \in Nat \cup {-1}
                            /\ f.start = -1 => f.count = 0,
           grown' = 0 /\ negative' = 0 =>
               /\ grown = 0 /\ GoodList(free_list')
               /\ ExtentOf(f) \cup FreeSet(free_list') = ExtentOf(file_table[i]) \cup FreeSet(free_list)
               /\ ExtentOf(f) \cap FreeSet(free_list') = {}
    PROVE  TablesInv'
  <1>1. file_table \in [Entries -> FileEntry] BY DEF TablesInv
  <1>2. file_table' \in [Entries -> FileEntry] BY <1>1
  <1>3. /\ Total(Holdings(file_table')) = Total(Holdings(file_table)) + HeldBlocks(f) - HeldBlocks(file_table[i])
        /\ f.used /\ file_table[i].used => UsedIn(file_table') = UsedIn(file_table)
        /\ f.used /\ ~file_table[i].used =>
            Cardinality(UsedIn(file_table')) = Cardinality(UsedIn(file_table)) + 1
        /\ ~f.used /\ file_table[i].used =>
            Cardinality(UsedIn(file_table')) = Cardinality(UsedIn(file_table)) - 1
    BY <1>1, EntryTotals
  <1>4. ASSUME negative' = 0 PROVE used_blocks' = META + Total(Holdings(file_table'))
    <2>1. used_blocks = META + Total(Holdings(file_table)) BY <1>4 DEF TablesInv, CountsInv
    <2>2. HeldBlocks(f) \in Int /\ HeldBlocks(file_table[i]) \in Int BY <1>1 DEF HeldBlocks, FileEntry
    <2>3. Total(Holdings(file_table)) \in Int
      <3>1. Holdings(file_table) \in [Entries -> Int] BY <1>1 DEF Holdings, HeldBlocks, FileEntry
      <3> QED BY <3>1, TotalType
    <2> QED BY <1>3, <1>4, <2>1, <2>2, <2>3, DiskAssumption
  <1>5. file_count' = Cardinality(UsedIn(file_table'))
    <2>1. file_count = Cardinality(UsedIn(file_table)) BY DEF TablesInv
    <2>2. f.used \in BOOLEAN /\ file_table[i].used \in BOOLEAN BY <1>1 DEF FileEntry
    <2> QED BY <1>3, <2>1, <2>2
  <1>6. ASSUME NEW j \in UsedIn(file_table')
        PROVE  /\ j \in Entries
               /\ \/ j = i /\ file_table'[j] = f /\ f.used
                  \/ j \in UsedIn(file_table) /\ file_table'[j] = file_table[j]
    <2>1. j \in Entries /\ file_table'[j].used BY DEF UsedIn
    <2>2. CASE j = i
      <3>1. file_table'[j] = f BY <1>1, <2>2
      <3> QED BY <2>1, <2>2, <3>1
    <2>3. CASE j # i
      <3>1. file_table'[j] = file_table[j] BY <1>1, <2>1, <2>3
      <3> QED BY <2>1, <3>1 DEF UsedIn
    <2> QED BY <2>2, <2>3
  <1>7. \A j \in UsedIn(file_table') : /\ file_table'[j].name \in Names
                                       /\ StoredName[file_table'[j].name] = file_table'[j].name
    BY <1>6 DEF TablesInv
  <1>8. negative' = 0 => CountsInv'
    <2> SUFFICES ASSUME negative' = 0 PROVE CountsInv' OBVIOUS
    <2>1. \A j \in UsedIn(file_table) : /\ file_table[j].count \in Nat
                                        /\ file_table[j].start \in Nat \cup {-1}
                                        /\ file_table[j].start = -1 => file_table[j].count = 0
      BY DEF TablesInv, CountsInv
    <2>2. \A j \in UsedIn(file_table') : /\ file_table'[j].count \in Nat
                                         /\ file_table'[j].start \in Nat \cup {-1}
                                         /\ file_table'[j].start = -1 => file_table'[j].count = 0
      BY <1>6, <2>1
    <2>3. saved'.used = used_blocks' OBVIOUS
    <2> QED BY <1>4, <2>2, <2>3 DEF CountsInv
  <1>9. grown' = 0 /\ negative' = 0 => GoodList(free_list') /\ Divided(file_table', FreeSet(free_list'))
    <2> SUFFICES ASSUME grown' = 0, negative' = 0 PROVE Divided(file_table', FreeSet(free_list')) OBVIOUS
    <2>1. Divided(file_table, FreeSet(free_list)) BY DEF TablesInv
    <2> QED BY <1>1, <2>1, DividedStep
  <1>10. saved'.used \in Int
         /\ saved' = [files |-> file_table', count |-> file_count', used |-> saved'.used]
    OBVIOUS
  <1> QED BY <1>2, <1>5, <1>7, <1>8, <1>9, <1>10 DEF TablesInv

\* The session is not affected by what happens to the tables as long as the entries in
\* use stay in use under their names.
LEMMA SameSession ==
    ASSUME SessionInv, UNCHANGED session,
           \A i \in UsedIn(file_table) : i \in UsedIn(file_table') /\ file_table'[i].name = file_table[i].name
    PROVE  SessionInv'
  BY DEF SessionInv, session

----------------------------------------------------------------------------
(* The commands                                                            *)

\* Block counts.
LEMMA BlocksForType ==
    ASSUME NEW size \in Int
    PROVE  BlocksFor(size) \in Int /\ (size >= 0 => BlocksFor(size) \in Nat)
  <1> DEFINE a == size + BLOCK_SIZE - 1
  <1>1. a \in Int /\ BLOCK_SIZE \in Nat /\ BLOCK_SIZE > 0 /\ (size >= 0 => a >= 0) BY DiskAssumption
  <1>2. \A x \in Nat : x \div BLOCK_SIZE \in Nat BY <1>1
  <1>3. BlocksFor(size) = IF a >= 0 THEN a \div BLOCK_SIZE ELSE -((-a) \div BLOCK_SIZE)
    BY DEF BlocksFor, DivC
  <1> HIDE DEF a
  <1> QED BY <1>1, <1>2, <1>3

\* The first of some entries is one of them.
LEMMA FirstEntry ==
    ASSUME NEW S, S \subseteq Entries, S # {}
    PROVE  First(S) \in S
  <1>1. S \subseteq Nat BY DEF Entries
  <1>2. \E i \in S : \A j \in S : i <= j BY <1>1, LeastNatural
  <1> QED BY <1>2 DEF First

\* The types of the tables, from the invariant.
LEMMA TableTypes ==
    ASSUME TablesInv
    PROVE  /\ file_table \in [Entries -> FileEntry]
           /\ \A i \in Entries : /\ file_table[i].used \in BOOLEAN /\ file_table[i].size \in Int
                                 /\ file_table[i].start \in Int /\ file_table[i].count \in Int
                                 /\ file_table[i].name \in Names \cup {NoName}
  BY DEF TablesInv, FileEntry

\* A new entry takes no blocks, and its name is stored as a name.
LEMMA CreateTables ==
    ASSUME TablesInv, NEW n \in Names, FreeEntries # {}, CreateEntry(n), UNCHANGED history
    PROVE  /\ TablesInv'
           /\ First(FreeEntries) \in Entries
           /\ ~file_table[First(FreeEntries)].used
           /\ First(FreeEntries) \in UsedIn(file_table') 
           /\ file_table'[First(FreeEntries)].name = StoredName[n]
           /\ \A i \in UsedIn(file_table) : 
                i \in UsedIn(file_table') /\ file_table'[i].name = file_table[i].name
  <1> DEFINE i == First(FreeEntries)
             f == [used |-> TRUE, name |-> StoredName[n], size |-> 0, start |-> -1, count |-> 0]
  <1>1. i \in Entries /\ ~file_table[i].used
    <2>1. FreeEntries \subseteq Entries BY DEF FreeEntries
    <2>2. i \in FreeEntries BY <2>1, FirstEntry
    <2> QED BY <2>2 DEF FreeEntries
  <1>2. file_table' = [file_table EXCEPT ![i] = f] /\ file_count' = file_count + 1
        /\ UNCHANGED <<free_list, used_blocks, grown, negative>>
        /\ saved' = [files |-> file_table', count |-> file_count', used |-> used_blocks']
    BY DEF CreateEntry, Save, history
  <1> HIDE DEF i
  <1>3. StoredName[n] \in Names /\ StoredName[StoredName[n]] = StoredName[n] BY NamesAssumption
  <1>4. f \in FileEntry BY <1>3 DEF FileEntry
  <1>5. HeldBlocks(f) = 0 /\ HeldBlocks(file_table[i]) = 0 BY <1>1 DEF HeldBlocks
  <1>6. ExtentOf(f) = {} /\ ExtentOf(file_table[i]) = {} BY <1>1 DEF ExtentOf
  <1>7. f.used /\ f.name = StoredName[n] /\ f.start = -1 /\ f.count = 0 OBVIOUS
  <1>8. used_blocks \in Int BY DEF TablesInv
  <1> HIDE DEF f
  <1>9. used_blocks' = used_blocks + HeldBlocks(f) - HeldBlocks(file_table[i]) BY <1>2, <1>5, <1>8
  <1>10. /\ free_list' \in Seq(ListRegion) /\ grown' \in 0 .. MaxGrow /\ negative' \in 0 .. MaxNegative
         /\ negative' = 0 => negative = 0 /\ free_list' \in Seq(NatRegion)
         /\ grown' = 0 /\ negative' = 0 => grown = 0 /\ GoodList(free_list')
    BY <1>2 DEF TablesInv, CountsInv
  <1>11. TablesInv'
    <2>1. f.used \/ file_table[i].used BY <1>7
    <2>2. file_count' = IF f.used /\ file_table[i].used THEN file_count
                        ELSE IF f.used THEN file_count + 1 ELSE file_count - 1
      BY <1>1, <1>2, <1>7
    <2>3. used_blocks' \in Int BY <1>2, <1>8
    <2>4. f.name \in Names /\ StoredName[f.name] = f.name BY <1>3, <1>7
    <2>5. f.count \in Nat /\ f.start \in Nat \cup {-1} /\ (f.start = -1 => f.count = 0) BY <1>7
    <2>6. ExtentOf(f) \cup FreeSet(free_list') = ExtentOf(file_table[i]) \cup FreeSet(free_list)
          /\ ExtentOf(f) \cap FreeSet(free_list') = {}
      BY <1>2, <1>6
    <2> QED BY <1>1, <1>2, <1>4, <1>9, <1>10, <2>1, <2>2, <2>3, <2>4, <2>5, <2>6, EntryStep
  <1>12. file_table'[i] = f /\ \A j \in Entries : j # i => file_table'[j] = file_table[j]
    BY <1>1, <1>2, TableTypes
  <1>13. \A j \in UsedIn(file_table) : j \in UsedIn(file_table') /\ file_table'[j].name = file_table[j].name
    BY <1>1, <1>12 DEF UsedIn
  <1>14. i \in UsedIn(file_table') /\ file_table'[i].name = StoredName[n]
    BY <1>1, <1>7, <1>12 DEF UsedIn
  <1> QED BY <1>1, <1>11, <1>13, <1>14 DEF i

\* fs_create() does not disturb the session.
LEMMA CreateKeeps ==
    ASSUME FsInv, NEW n \in Names, Create(n)
    PROVE  FsInv'
  <1>1. FreeEntries # {} /\ CreateEntry(n) /\ UNCHANGED <<session, history>> BY DEF Create
  <1>2. TablesInv' BY <1>1, CreateTables DEF FsInv
  <1>3. SessionInv' BY <1>1, CreateTables, SameSession DEF FsInv
  <1> QED BY <1>2, <1>3 DEF FsInv

\* When no file is open the descriptor that fs_open() takes is the only one.
LEMMA OpenSession ==
    ASSUME SessionInv, current_fd = -1, NEW n \in Names, NEW i \in UsedIn(file_table'),
           OpenEntry(n, i), file_table'[i].name = StoredName[n]
    PROVE  SessionInv'
  <1> DEFINE fd == First({f \in Entries : open_files[f] = -1})
  <1>1. \A d \in Entries : open_files[d] = -1
    <2>1. \A d \in Entries : open_files[d] # -1 => d = -1 BY DEF SessionInv
    <2>2. -1 \notin Entries BY DEF Entries
    <2> QED BY <2>1, <2>2
  <1>2. fd \in Entries
    <2>1. 0 \in Entries BY DiskAssumption DEF Entries
    <2>2. {f \in Entries : open_files[f] = -1} # {} BY <1>1, <2>1
    <2>3. fd \in {f \in Entries : open_files[f] = -1} BY <2>2, FirstEntry
    <2> QED BY <2>3
  <1>3. open_files' = [open_files EXCEPT ![fd] = i] /\ current_fd' = fd
        /\ current_filename' = StoredName[n]
    BY DEF OpenEntry
  <1> HIDE DEF fd
  <1>4. i \in Entries /\ StoredName[n] \in Names BY NamesAssumption DEF UsedIn
  <1>5. open_files \in [Entries -> Entries \cup {-1}] BY DEF SessionInv
  <1>6. open_files' \in [Entries -> Entries \cup {-1}] /\ open_files'[fd] = i
        /\ \A d \in Entries : d # fd => open_files'[d] = -1
    BY <1>1, <1>2, <1>3, <1>4, <1>5
  <1> QED BY <1>2, <1>3, <1>4, <1>6 DEF SessionInv

\* The entry a name leads to is in use and has the name.
LEMMA NamedEntry ==
    ASSUME NEW n, Named(n) # {}
    PROVE  First(Named(n)) \in UsedIn(file_table) /\ file_table[First(Named(n))].name = n
  <1>1. Named(n) \subseteq Entries BY DEF Named
  <1>2. First(Named(n)) \in Named(n) BY <1>1, FirstEntry
  <1> QED BY <1>2 DEF Named, UsedIn

\* A command that leaves the tables alone.
LEMMA TablesSame ==
    ASSUME TablesInv, UNCHANGED <<fs, saved, history>>
    PROVE  TablesInv'
  BY DEF TablesInv, CountsInv, fs, history

\* open takes one descriptor for an entry in use.
LEMMA OpenKeeps ==
    ASSUME FsInv, NEW n \in Names, Open(n)
    PROVE  FsInv'
  <1> DEFINE i == First(Named(n))
  <1>1. current_fd = -1 /\ OpenEntry(n, i) /\ UNCHANGED <<fs, saved, history>> /\ Named(n) # {}
    BY DEF Open
  <1>2. TablesInv' BY <1>1, TablesSame DEF FsInv
  <1>3. i \in UsedIn(file_table) /\ file_table[i].name = n BY <1>1, NamedEntry
  <1> HIDE DEF i
  <1>4. StoredName[n] = n BY <1>3 DEF FsInv, TablesInv
  <1>5. i \in UsedIn(file_table') /\ file_table'[i].name = StoredName[n] BY <1>1, <1>3, <1>4 DEF fs
  <1>6. SessionInv' BY <1>1, <1>5, OpenSession DEF FsInv
  <1> QED BY <1>2, <1>6 DEF FsInv

\* open with O_CREAT of a new name.
LEMMA OpenCreateKeeps ==
    ASSUME FsInv, NEW n \in Names, OpenCreate(n)
    PROVE  FsInv'
  <1> DEFINE i == First(FreeEntries)
  <1>1. current_fd = -1 /\ FreeEntries # {} /\ CreateEntry(n) /\ OpenEntry(n, i) /\ UNCHANGED history
    BY DEF OpenCreate
  <1>2. TablesInv' /\ i \in UsedIn(file_table') /\ file_table'[i].name = StoredName[n]
    BY <1>1, CreateTables DEF FsInv
  <1> HIDE DEF i
  <1>3. SessionInv' BY <1>1, <1>2, OpenSession DEF FsInv
  <1> QED BY <1>2, <1>3 DEF FsInv

\* close frees the session's descriptor.
LEMMA CloseKeeps ==
    ASSUME FsInv, Close
    PROVE  FsInv'
  <1>1. current_fd # -1 /\ open_files' = [open_files EXCEPT ![current_fd] = -1] /\ current_fd' = -1
        /\ current_filename' = NoName /\ UNCHANGED <<fs, saved, history>>
    BY DEF Close
  <1>2. TablesInv' BY <1>1, TablesSame DEF FsInv
  <1>3. /\ open_files \in [Entries -> Entries \cup {-1}] /\ current_fd \in Entries
        /\ \A d \in Entries : open_files[d] # -1 => d = current_fd
    BY <1>1 DEF FsInv, SessionInv
  <1>4. open_files' \in [Entries -> Entries \cup {-1}] /\ \A d \in Entries : open_files'[d] = -1
    BY <1>1, <1>3
  <1>5. SessionInv' BY <1>1, <1>4 DEF SessionInv
  <1> QED BY <1>2, <1>5 DEF FsInv

\* The open file: an entry in use.
LEMMA OpenEntryUsed ==
    ASSUME FsInv, current_fd # -1
    PROVE  /\ Idx \in Entries /\ Idx \in UsedIn(file_table) /\ file_table[Idx] \in FileEntry
           /\ file_table[Idx].used /\ used_blocks \in Int
           /\ file_table[Idx].name \in Names /\ StoredName[file_table[Idx].name] = file_table[Idx].name
           /\ file_table[Idx].start \in Int /\ file_table[Idx].count \in Int
           /\ negative = 0 =>
                /\ file_table[Idx].count \in Nat /\ file_table[Idx].start \in Nat \cup {-1}
                /\ file_table[Idx].start = -1 => file_table[Idx].count = 0
  <1>1. Idx \in UsedIn(file_table) BY DEF FsInv, SessionInv, Idx
  <1>2. Idx \in Entries /\ file_table[Idx].used BY <1>1 DEF UsedIn
  <1>3. file_table[Idx] \in FileEntry BY <1>2, TableTypes DEF FsInv
  <1>4. file_table[Idx].start \in Int /\ file_table[Idx].count \in Int BY <1>3 DEF FileEntry
  <1>5. used_blocks \in Int BY DEF FsInv, TablesInv
  <1> QED BY <1>1, <1>2, <1>3, <1>4, <1>5 DEF FsInv, TablesInv, CountsInv

\* The bounds and the list, from the invariant.
LEMMA BoundsTypes ==
    ASSUME FsInv
    PROVE  /\ free_list \in Seq(ListRegion) /\ grown \in 0 .. MaxGrow /\ negative \in 0 .. MaxNegative
           /\ negative = 0 => free_list \in Seq(NatRegion)
  BY DEF FsInv, TablesInv, CountsInv

\* A write or a shrink of the open file changes its start, count and size; what the
\* step keeps otherwise, the counts and the blocks.
EntryChanged(start, count, size) ==
    file_table' = [file_table EXCEPT ![Idx].start = start, ![Idx].count = count,
                                     ![Idx].size = size]

RestKept ==
    /\ UNCHANGED <<file_count, session>> /\ Save
    /\ free_list' \in Seq(ListRegion) /\ used_blocks' \in Int
    /\ grown' \in 0 .. MaxGrow /\ negative' \in 0 .. MaxNegative

CountsKept(start, count) ==
    negative' = 0 =>
        /\ negative = 0 /\ free_list' \in Seq(NatRegion)
        /\ count \in Nat /\ start \in Nat \cup {-1} /\ (start = -1 => count = 0)
        /\ used_blocks' = used_blocks + count - file_table[Idx].count

BlocksKept(start, count) ==
    (grown' = 0 /\ negative' = 0) =>
        /\ grown = 0 /\ GoodList(free_list')
        /\ LET e == IF start # -1 THEN start .. start + count - 1 ELSE {} IN
           /\ e \cup FreeSet(free_list') = ExtentOf(file_table[Idx]) \cup FreeSet(free_list)
           /\ e \cap FreeSet(free_list') = {}

LEMMA FileStep ==
    ASSUME FsInv, current_fd # -1, NEW size \in Int, NEW start \in Int, NEW count \in Int,
           EntryChanged(start, count, size), RestKept, CountsKept(start, count),
           BlocksKept(start, count)
    PROVE  FsInv'
  <1> DEFINE i == Idx
             f == [file_table[i] EXCEPT !.start = start, !.count = count, !.size = size]
  <1>1. /\ i \in Entries /\ i \in UsedIn(file_table) /\ file_table[i] \in FileEntry
        /\ file_table[i].used /\ used_blocks \in Int
        /\ file_table[i].name \in Names /\ StoredName[file_table[i].name] = file_table[i].name
        /\ file_table[i].count \in Int
    BY OpenEntryUsed
  <1>2. file_table \in [Entries -> FileEntry] BY TableTypes DEF FsInv
  <1>3. file_table' = [file_table EXCEPT ![i] = f] BY <1>1, <1>2 DEF EntryChanged
  <1>4. f \in FileEntry /\ f.used /\ f.start = start /\ f.count = count /\ f.name = file_table[i].name
    BY <1>1 DEF FileEntry
  <1> HIDE DEF f, i
  <1>5. HeldBlocks(f) = count /\ HeldBlocks(file_table[i]) = file_table[i].count BY <1>1, <1>4 DEF HeldBlocks
  <1>6. ExtentOf(f) = IF start # -1 THEN start .. start + count - 1 ELSE {} BY <1>4 DEF ExtentOf
  <1>7. /\ used_blocks' \in Int
        /\ negative' = 0 => used_blocks' = used_blocks + HeldBlocks(f) - HeldBlocks(file_table[i])
    BY <1>1, <1>5 DEF i, RestKept, CountsKept
  <1>8. grown' = 0 /\ negative' = 0 =>
               /\ grown = 0 /\ GoodList(free_list')
               /\ ExtentOf(f) \cup FreeSet(free_list') = ExtentOf(file_table[i]) \cup FreeSet(free_list)
               /\ ExtentOf(f) \cap FreeSet(free_list') = {}
    BY <1>6 DEF i, BlocksKept
  <1>9. saved' = [files |-> file_table', count |-> file_count', used |-> used_blocks']
        /\ file_count' = file_count /\ free_list' \in Seq(ListRegion)
        /\ grown' \in 0 .. MaxGrow /\ negative' \in 0 .. MaxNegative /\ UNCHANGED session
    BY DEF RestKept, Save
  <1>10. TablesInv'
    <2>1. file_count' = IF f.used /\ file_table[i].used THEN file_count
                        ELSE IF f.used THEN file_count + 1 ELSE file_count - 1
      BY <1>1, <1>4, <1>9
    <2>2. f.used \/ file_table[i].used BY <1>1
    <2>3. f.name \in Names /\ StoredName[f.name] = f.name BY <1>1, <1>4
    <2>4. TablesInv BY DEF FsInv
    <2>5. negative' = 0 =>
               /\ negative = 0 /\ free_list' \in Seq(NatRegion)
               /\ used_blocks' = used_blocks + HeldBlocks(f) - HeldBlocks(file_table[i])
               /\ f.used => /\ f.count \in Nat /\ f.start \in Nat \cup {-1}
                            /\ f.start = -1 => f.count = 0
      BY <1>4, <1>7 DEF CountsKept
    <2> HIDE DEF FsInv
    <2> QED BY <1>1, <1>3, <1>4, <1>7, <1>8, <1>9, <2>1, <2>2, <2>3, <2>4, <2>5, EntryStep
  <1>11. \A j \in UsedIn(file_table) : j \in UsedIn(file_table') /\ file_table'[j].name = file_table[j].name
    <2>1. file_table'[i] = f /\ \A j \in Entries : j # i => file_table'[j] = file_table[j]
      BY <1>1, <1>2, <1>3
    <2> QED BY <1>1, <1>4, <2>1 DEF UsedIn
  <1>12. SessionInv' BY <1>9, <1>11, SameSession DEF FsInv
  <1> QED BY <1>10, <1>12 DEF FsInv

\* A command that changes the size of the open file and nothing else.
LEMMA SizeStep ==
    ASSUME FsInv, current_fd # -1, NEW size \in Int,
           file_table' = [file_table EXCEPT ![Idx].size = size],
           UNCHANGED <<free_list, used_blocks, file_count, session, grown>>, Save,
           negative' \in 0 .. MaxNegative, negative' = 0 => negative = 0
    PROVE  FsInv'
  <1> DEFINE f == file_table[Idx]
  <1>1. f \in FileEntry /\ f.count \in Int /\ f.start \in Int /\ Idx \in Entries /\ used_blocks \in Int
    BY OpenEntryUsed
  <1>2. EntryChanged(f.start, f.count, size)
    <2>1. file_table \in [Entries -> FileEntry] BY TableTypes DEF FsInv
    <2>2. [file_table[Idx] EXCEPT !.size = size] =
            [file_table[Idx] EXCEPT !.start = f.start, !.count = f.count, !.size = size]
      BY <1>1 DEF FileEntry
    <2> QED BY <1>1, <2>1, <2>2 DEF EntryChanged
  <1>3. RestKept BY <1>1, BoundsTypes DEF RestKept
  <1>4. CountsKept(f.start, f.count)
    <2>1. used_blocks' = used_blocks + f.count - f.count BY <1>1
    <2>2. negative' = 0 => negative = 0 /\ free_list' \in Seq(NatRegion) BY BoundsTypes
    <2>3. negative' = 0 => /\ f.count \in Nat /\ f.start \in Nat \cup {-1}
                           /\ f.start = -1 => f.count = 0
      BY OpenEntryUsed
    <2> QED BY <2>1, <2>2, <2>3 DEF CountsKept
  <1>5. BlocksKept(f.start, f.count)
    <2>1. ExtentOf(f) = IF f.start # -1 THEN f.start .. f.start + f.count - 1 ELSE {}
      <3>1. f.used BY OpenEntryUsed
      <3> QED BY <3>1 DEF ExtentOf
    <2>2. grown = 0 /\ negative = 0 => GoodList(free_list) /\ ExtentOf(f) \cap FreeSet(free_list) = {}
      BY <1>1 DEF FsInv, TablesInv, Divided
    <2> QED BY <2>1, <2>2 DEF BlocksKept
  <1> HIDE DEF f
  <1> QED BY <1>1, <1>2, <1>3, <1>4, <1>5, FileStep

\* The size after a write.
LEMMA NewSizeType ==
    ASSUME FsInv, current_fd # -1, NEW pos \in Nat, NEW n \in Nat
    PROVE  NewSize(pos, n) \in Int
  BY OpenEntryUsed DEF NewSize, FileEntry

\* A write whose blocks are all new.
LEMMA WriteFirstKeeps ==
    ASSUME FsInv, NEW pos \in Nat, NEW n \in Nat, WriteFirst(pos, n)
    PROVE  FsInv'
  <1> DEFINE needed == BlocksFor(pos + n)
             start  == AllocStart(free_list, needed)
             f == file_table[Idx]
             size == NewSize(pos, n)
  <1>1. /\ current_fd # -1 /\ f.start = -1 /\ start # -1
        /\ free_list' = AllocateBlocks(free_list, needed) /\ used_blocks' = used_blocks + needed
        /\ file_table' = [file_table EXCEPT ![Idx].start = start, ![Idx].count = needed,
                                            ![Idx].size = size]
        /\ UNCHANGED <<file_count, session, grown, negative>> /\ Save
    BY DEF WriteFirst, history
  <1>2. /\ f.used /\ f.count \in Int /\ used_blocks \in Int /\ (negative = 0 => f.count = 0)
        /\ free_list \in Seq(ListRegion) /\ grown \in 0 .. MaxGrow /\ negative \in 0 .. MaxNegative
        /\ negative = 0 => free_list \in Seq(NatRegion)
    BY <1>1, OpenEntryUsed, BoundsTypes
  <1>3. size \in Int BY <1>1, NewSizeType
  <1>4. needed \in Nat
    <2>1. pos + n \in Int /\ pos + n >= 0 OBVIOUS
    <2> QED BY <2>1, BlocksForType
  <1> HIDE DEF needed
  <1>5. FirstFit(free_list, needed) # 0 BY <1>1 DEF AllocStart
  <1>6. start \in Int /\ free_list' \in Seq(ListRegion)
    <2>1. 0 \in Int /\ needed \in Int BY <1>4
    <2> QED BY <1>1, <1>2, <2>1, ListTypes
  <1>7. negative = 0 => start \in Nat /\ free_list' \in Seq(NatRegion)
    <2> HIDE DEF start
    <2> QED BY <1>1, <1>2, <1>4, <1>5, NatLists DEF start
  <1>8. ExtentOf(f) = {} BY <1>1 DEF ExtentOf
  <1>9. ASSUME grown = 0, negative = 0
        PROVE  /\ GoodList(free_list')
               /\ (start .. start + needed - 1) \cup FreeSet(free_list') = FreeSet(free_list)
               /\ (start .. start + needed - 1) \cap FreeSet(free_list') = {}
    <2>1. GoodList(free_list) BY <1>9 DEF FsInv, TablesInv
    <2> HIDE DEF start
    <2>2. /\ GoodList(AllocateBlocks(free_list, needed))
          /\ (start .. start + needed - 1) \subseteq FreeSet(free_list)
          /\ FreeSet(AllocateBlocks(free_list, needed)) =
                FreeSet(free_list) \ (start .. start + needed - 1)
      BY <1>4, <1>5, <2>1, AllocateTakesFree DEF start
    <2> QED BY <1>1, <2>2
  <1>10. f.count \in Int BY <1>2
  <1>11. EntryChanged(start, needed, size) BY <1>1 DEF EntryChanged
  <1>12. RestKept
    <2>1. used_blocks' \in Int BY <1>1, <1>2, <1>4
    <2> HIDE DEF f, start, size
    <2> QED BY <1>1, <1>2, <1>6, <2>1 DEF RestKept
  <1>13. CountsKept(start, needed)
    <2> SUFFICES ASSUME negative' = 0
                 PROVE  /\ negative = 0 /\ free_list' \in Seq(NatRegion) /\ needed \in Nat
                        /\ start \in Nat \cup {-1} /\ (start = -1 => needed = 0)
                        /\ used_blocks' = used_blocks + needed - f.count
      BY DEF CountsKept
    <2>1. negative = 0 BY <1>1
    <2>2. start \in Nat /\ free_list' \in Seq(NatRegion) BY <1>7, <2>1
    <2>3. f.count = 0 BY <1>2, <2>1
    <2>4. used_blocks' = used_blocks + needed /\ used_blocks \in Int BY <1>1, <1>2
    <2> HIDE DEF start, f
    <2>5. used_blocks' = used_blocks + needed - f.count BY <1>4, <2>3, <2>4
    <2> QED BY <1>4, <2>1, <2>2, <2>5
  <1>14. BlocksKept(start, needed)
    <2> SUFFICES ASSUME grown' = 0, negative' = 0
                 PROVE  /\ grown = 0 /\ GoodList(free_list') /\ start # -1
                        /\ (start .. start + needed - 1) \cup FreeSet(free_list')
                                = ExtentOf(f) \cup FreeSet(free_list)
                        /\ (start .. start + needed - 1) \cap FreeSet(free_list') = {}
      BY DEF BlocksKept
    <2>1. grown = 0 /\ negative = 0 /\ start # -1 BY <1>1
    <2> HIDE DEF start, f
    <2> QED BY <1>8, <1>9, <2>1
  <1>15. current_fd # -1 BY <1>1
  <1> HIDE DEF start, size, f
  <1> QED BY <1>3, <1>4, <1>6, <1>11, <1>12, <1>13, <1>14, <1>15, FileStep

\* A write into the blocks that the file has.
LEMMA WriteInPlaceKeeps ==
    ASSUME FsInv, NEW pos \in Nat, NEW n \in Nat, WriteInPlace(pos, n)
    PROVE  FsInv'
  <1> DEFINE size == NewSize(pos, n)
  <1>1. current_fd # -1 /\ file_table' = [file_table EXCEPT ![Idx].size = size] /\ Save
    BY DEF WriteInPlace
  <1>2. UNCHANGED <<free_list, used_blocks, file_count, session, grown>>
    BY DEF WriteInPlace, history
  <1>3. negative' = negative BY DEF WriteInPlace, history
  <1>4. negative' \in 0 .. MaxNegative /\ (negative' = 0 => negative = 0) BY <1>3, BoundsTypes
  <1>5. size \in Int BY <1>1, NewSizeType
  <1> HIDE DEF size
  <1> QED BY <1>1, <1>2, <1>4, <1>5, SizeStep

\* A write that extends the file.
LEMMA WriteGrowKeeps ==
    ASSUME FsInv, NEW pos \in Nat, NEW n \in Nat, WriteGrow(pos, n)
    PROVE  FsInv'
  <1> DEFINE needed == BlocksFor(pos + n)
             f == file_table[Idx]
             additional == needed - f.count
             size == NewSize(pos, n)
  <1>1. /\ current_fd # -1 /\ additional > 0 /\ grown < MaxGrow /\ grown' = grown + 1
        /\ free_list' = AllocateBlocks(free_list, additional)
        /\ used_blocks' = used_blocks + additional
        /\ file_table' = [file_table EXCEPT ![Idx].count = needed, ![Idx].size = size]
    BY DEF WriteGrow
  <1>2. UNCHANGED <<file_count, session>> /\ Save /\ negative' = negative BY DEF WriteGrow
  <1>3. f.start # -1 BY DEF WriteGrow
  <1>4. f \in FileEntry /\ f.count \in Int /\ f.start \in Int /\ Idx \in Entries /\ used_blocks \in Int
    BY <1>1, OpenEntryUsed
  <1>5. free_list \in Seq(ListRegion) /\ grown \in 0 .. MaxGrow /\ negative \in 0 .. MaxNegative
    BY BoundsTypes
  <1>6. size \in Int BY <1>1, NewSizeType
  <1>7. needed \in Nat
    <2>1. pos + n \in Int /\ pos + n >= 0 OBVIOUS
    <2> QED BY <2>1, BlocksForType
  <1> HIDE DEF needed, size
  <1>8. additional \in Nat
    <2>1. f.count \in Int /\ additional > 0 BY <1>1, <1>4
    <2> HIDE DEF f
    <2> QED BY <1>7, <2>1
  <1>9. free_list' \in Seq(ListRegion)
    <2>1. 0 \in Int /\ additional \in Int /\ free_list' = AllocateBlocks(free_list, additional)
      BY <1>1, <1>8
    <2> HIDE DEF additional
    <2> QED BY <1>5, <2>1, ListTypes
  <1>10. negative = 0 => free_list' \in Seq(NatRegion)
    <2>1. free_list' = AllocateBlocks(free_list, additional) BY <1>1
    <2>2. negative = 0 => free_list \in Seq(NatRegion) BY BoundsTypes
    <2> HIDE DEF additional
    <2> QED BY <1>8, <2>1, <2>2, NatLists
  <1>11. EntryChanged(f.start, needed, size)
    <2>1. file_table \in [Entries -> FileEntry] BY TableTypes DEF FsInv
    <2>2. [file_table[Idx] EXCEPT !.count = needed, !.size = size] =
            [file_table[Idx] EXCEPT !.start = f.start, !.count = needed, !.size = size]
      BY <1>4 DEF FileEntry
    <2>3. file_table' = [file_table EXCEPT ![Idx].count = needed, ![Idx].size = size] BY <1>1
    <2> QED BY <1>4, <2>1, <2>2, <2>3 DEF EntryChanged
  <1>12. used_blocks' = used_blocks + needed - f.count /\ used_blocks' \in Int
    <2>1. used_blocks' = used_blocks + (needed - f.count) BY <1>1
    <2>2. f.count \in Int /\ used_blocks \in Int BY <1>4
    <2> HIDE DEF f, additional
    <2> QED BY <1>7, <2>1, <2>2
  <1>13. grown' \in 0 .. MaxGrow /\ grown' # 0
    <2>1. grown < MaxGrow /\ grown' = grown + 1 BY <1>1
    <2> HIDE DEF f, additional
    <2> QED BY <1>5, <2>1, BoundAssumption
  <1>14. RestKept
    <2>1. negative' \in 0 .. MaxNegative BY <1>2, <1>5
    <2> HIDE DEF f, additional
    <2> QED BY <1>2, <1>9, <1>12, <1>13, <2>1 DEF RestKept
  <1>15. CountsKept(f.start, needed)
    <2>1. negative = 0 => f.start \in Nat BY <1>1, <1>3, OpenEntryUsed
    <2>2. f.start # -1 BY <1>3
    <2>3. used_blocks' = used_blocks + needed - file_table[Idx].count BY <1>12
    <2> HIDE DEF f, additional
    <2> QED BY <1>2, <1>7, <1>10, <2>1, <2>2, <2>3 DEF CountsKept
  <1>16. BlocksKept(f.start, needed) BY <1>13 DEF BlocksKept
  <1>17. f.start \in Int /\ current_fd # -1 BY <1>1, <1>4
  <1> HIDE DEF f
  <1> QED BY <1>6, <1>7, <1>11, <1>14, <1>15, <1>16, <1>17, FileStep

\* A write that takes a region for "not enough space": there is such a region only
\* after a shrink below zero blocks.
LEMMA WriteLostKeeps ==
    ASSUME FsInv, NEW pos \in Nat, NEW n \in Nat, WriteLost(pos, n)
    PROVE  FsInv'
  <1> DEFINE needed == BlocksFor(pos + n)
             count  == IF file_table[Idx].start = -1 THEN needed ELSE needed - file_table[Idx].count
  <1>1. /\ current_fd # -1 /\ (file_table[Idx].start = -1 \/ count > 0)
        /\ FirstFit(free_list, count) # 0 /\ AllocStart(free_list, count) = -1
        /\ free_list' = AllocateBlocks(free_list, count)
        /\ used_blocks' = used_blocks + count
    BY DEF WriteLost
  <1>2. UNCHANGED <<file_table, file_count, session, saved, grown, negative>>
    BY DEF WriteLost, history
  <1>3. count \in Nat
    <2>1. pos + n \in Int /\ pos + n >= 0 OBVIOUS
    <2>2. needed \in Nat BY <2>1, BlocksForType
    <2>3. file_table[Idx].count \in Int BY <1>1, OpenEntryUsed
    <2>4. file_table[Idx].start = -1 \/ count > 0 BY <1>1
    <2> HIDE DEF needed
    <2> QED BY <2>2, <2>3, <2>4
  <1>4. /\ FirstFit(free_list, count) # 0 /\ AllocStart(free_list, count) = -1
        /\ free_list' = AllocateBlocks(free_list, count) /\ used_blocks' = used_blocks + count
    BY <1>1
  <1> HIDE DEF count
  <1>5. negative # 0
    <2> SUFFICES ASSUME negative = 0 PROVE FALSE OBVIOUS
    <2>1. free_list \in Seq(NatRegion) BY BoundsTypes
    <2>2. AllocStart(free_list, count) \in Nat BY <1>3, <1>4, <2>1, NatLists
    <2> QED BY <1>4, <2>2
  <1>6. free_list' \in Seq(ListRegion)
    <2>1. 0 \in Int /\ count \in Int BY <1>3
    <2>2. free_list \in Seq(ListRegion) BY BoundsTypes
    <2> QED BY <1>4, <2>1, <2>2, ListTypes
  <1>7. used_blocks' \in Int
    <2>1. used_blocks \in Int BY DEF FsInv, TablesInv
    <2> QED BY <1>3, <1>4, <2>1
  <1>8. TablesInv' BY <1>2, <1>5, <1>6, <1>7 DEF FsInv, TablesInv
  <1>9. SessionInv' BY <1>2, SameSession DEF FsInv
  <1> QED BY <1>8, <1>9 DEF FsInv

\* A range cut in two.
LEMMA SplitRange ==
    ASSUME NEW a \in Int, NEW b \in Nat, NEW c \in Nat, b <= c
    PROVE  /\ a .. a + c - 1 = (a .. a + b - 1) \cup ((a + b) .. (a + b) + (c - b) - 1)
           /\ (a .. a + b - 1) \cap ((a + b) .. (a + b) + (c - b) - 1) = {}
  OBVIOUS

\* A shrink gives the end of the file back.
LEMMA ShrinkKeeps ==
    ASSUME FsInv, NEW size \in ShrinkArgs, Shrink(size)
    PROVE  FsInv'
  <1> DEFINE blocks == BlocksFor(size)
             f == file_table[Idx]
             freed == f.count - blocks
  <1>1. /\ current_fd # -1 /\ UNCHANGED <<file_count, session, grown>> /\ Save
        /\ blocks < 0 => negative < MaxNegative
        /\ negative' = IF blocks < 0 THEN negative + 1 ELSE negative
    BY DEF Shrink
  <1>2. /\ f \in FileEntry /\ f.used /\ f.count \in Int /\ f.start \in Int /\ Idx \in Entries
        /\ negative = 0 => /\ f.count \in Nat /\ f.start \in Nat \cup {-1}
                           /\ f.start = -1 => f.count = 0
        /\ free_list \in Seq(ListRegion) /\ grown \in 0 .. MaxGrow /\ negative \in 0 .. MaxNegative
        /\ negative = 0 => free_list \in Seq(NatRegion)
        /\ used_blocks \in Int
    BY <1>1, OpenEntryUsed, BoundsTypes
  <1>3. size \in Int BY ArgsAssumption
  <1>4. blocks \in Int BY <1>3, BlocksForType
  <1> HIDE DEF blocks
  <1>5. /\ negative' \in 0 .. MaxNegative /\ grown' \in 0 .. MaxGrow
        /\ negative' = 0 => negative = 0 /\ blocks \in Nat
    BY <1>1, <1>2, <1>4, BoundAssumption
  <1>6. CASE /\ freed > 0
             /\ free_list' = FreeBlocks(free_list, f.start + blocks, freed)
             /\ used_blocks' = used_blocks - freed
             /\ file_table' = [file_table EXCEPT ![Idx].count = blocks, ![Idx].size = size]
    <2>0. f.count \in Int /\ f.start \in Int /\ used_blocks \in Int /\ freed > 0
          /\ used_blocks' = used_blocks - (f.count - blocks)
      BY <1>2, <1>6
    <2>1. freed \in Nat /\ f.start + blocks \in Int
      <3> HIDE DEF f
      <3> QED BY <1>4, <2>0
    <2>2. free_list' \in Seq(ListRegion)
      <3> HIDE DEF freed
      <3> QED BY <1>2, <1>6, <2>1, ListTypes
    <2>3. used_blocks' = used_blocks + blocks - f.count /\ used_blocks' \in Int
      <3> HIDE DEF f, freed
      <3> QED BY <1>4, <2>0
    <2>4. EntryChanged(f.start, blocks, size)
      <3>1. file_table \in [Entries -> FileEntry] BY TableTypes DEF FsInv
      <3>2. [file_table[Idx] EXCEPT !.count = blocks, !.size = size] =
              [file_table[Idx] EXCEPT !.start = f.start, !.count = blocks, !.size = size]
        BY <1>2 DEF FileEntry
      <3>3. file_table' = [file_table EXCEPT ![Idx].count = blocks, ![Idx].size = size] BY <1>6
      <3> QED BY <1>2, <3>1, <3>2, <3>3 DEF EntryChanged
    <2>5. ASSUME negative' = 0
          PROVE  /\ negative = 0 /\ free_list' \in Seq(NatRegion)
                 /\ blocks \in Nat /\ f.start \in Nat /\ blocks <= f.count /\ f.count \in Nat
      <3>1. negative = 0 /\ blocks \in Nat /\ f.start \in Nat BY <1>2, <1>5, <1>6, <2>5
      <3>2. f.start + blocks \in Nat /\ free_list \in Seq(NatRegion) BY <1>2, <3>1
      <3>3. blocks <= f.count /\ f.count \in Nat BY <1>2, <1>4, <1>6, <3>1
      <3> HIDE DEF freed
      <3>4. free_list' \in Seq(NatRegion) BY <1>6, <2>1, <3>2, NatLists
      <3> QED BY <3>1, <3>3, <3>4
    <2>6. ASSUME grown' = 0, negative' = 0
          PROVE  /\ GoodList(free_list')
                 /\ (f.start .. f.start + blocks - 1) \cup FreeSet(free_list')
                        = ExtentOf(f) \cup FreeSet(free_list)
                 /\ (f.start .. f.start + blocks - 1) \cap FreeSet(free_list') = {}
      <3> DEFINE tail == (f.start + blocks) .. (f.start + blocks) + freed - 1
      <3>1. negative = 0 /\ blocks \in Nat /\ f.start \in Nat /\ blocks <= f.count /\ f.count \in Nat
            /\ grown = 0
        BY <1>1, <2>5, <2>6
      <3>2. GoodList(free_list) /\ ExtentOf(f) \cap FreeSet(free_list) = {}
        BY <1>2, <3>1 DEF FsInv, TablesInv, Divided
      <3>3. ExtentOf(f) = f.start .. f.start + f.count - 1
        <4>1. f.start # -1 BY <3>1
        <4> QED BY <1>2, <4>1 DEF ExtentOf
      <3>4. ExtentOf(f) = (f.start .. f.start + blocks - 1) \cup tail
            /\ (f.start .. f.start + blocks - 1) \cap tail = {}
        <4>1. freed = f.count - blocks /\ f.start \in Int BY <3>1
        <4> HIDE DEF f, freed
        <4> QED BY <3>1, <3>3, <4>1, SplitRange
      <3>5. tail \cap FreeSet(free_list) = {} BY <3>2, <3>4
      <3>6. GoodList(free_list') /\ FreeSet(free_list') = FreeSet(free_list) \cup tail
        <4> HIDE DEF freed
        <4> QED BY <1>6, <2>1, <3>2, <3>5, FreeGivesBack
      <3> HIDE DEF tail
      <3> QED BY <3>2, <3>4, <3>6
    <2>7. BlocksKept(f.start, blocks)
      <3> SUFFICES ASSUME grown' = 0, negative' = 0
                   PROVE  /\ grown = 0 /\ GoodList(free_list') /\ f.start # -1
                          /\ (f.start .. f.start + blocks - 1) \cup FreeSet(free_list')
                                = ExtentOf(f) \cup FreeSet(free_list)
                          /\ (f.start .. f.start + blocks - 1) \cap FreeSet(free_list') = {}
        BY DEF BlocksKept
      <3>1. f.start # -1 BY <2>5
      <3>2. grown = 0 BY <1>1
      <3> HIDE DEF f
      <3> QED BY <2>6, <3>1, <3>2
    <2>8. CountsKept(f.start, blocks)
      <3>1. used_blocks' = used_blocks + blocks - file_table[Idx].count BY <2>3
      <3> QED BY <2>5, <3>1 DEF CountsKept
    <2>9. UNCHANGED <<file_count, session>> /\ Save BY <1>1
    <2>10. RestKept
      <3> HIDE DEF f, freed
      <3> QED BY <1>5, <2>2, <2>3, <2>9 DEF RestKept
    <2>11. f.start \in Int /\ current_fd # -1 BY <1>1, <2>0
    <2> HIDE DEF f
    <2> QED BY <1>3, <1>4, <2>4, <2>7, <2>8, <2>10, <2>11, FileStep
  <1>7. CASE /\ file_table' = [file_table EXCEPT ![Idx].size = size]
             /\ UNCHANGED <<free_list, used_blocks>>
    <2>1. UNCHANGED <<free_list, used_blocks, file_count, session, grown>> /\ Save /\ current_fd # -1
      BY <1>1, <1>7
    <2>2. negative' \in 0 .. MaxNegative /\ (negative' = 0 => negative = 0) BY <1>5
    <2>3. file_table' = [file_table EXCEPT ![Idx].size = size] BY <1>7
    <2> HIDE DEF f
    <2> QED BY <1>3, <2>1, <2>2, <2>3, SizeStep
  <1> QED BY <1>6, <1>7 DEF Shrink, blocks

\* rm gives all blocks back; the entry cannot be the open one.
LEMMA DeleteKeeps ==
    ASSUME FsInv, NEW n \in Names, Delete(n)
    PROVE  FsInv'
  <1> DEFINE i == First(Named(n))
             f == file_table[i]
             g == [f EXCEPT !.used = FALSE]
  <1>1. /\ Named(n) # {} /\ ~(current_fd # -1 /\ current_filename = n)
        /\ file_table' = [file_table EXCEPT ![i].used = FALSE] /\ file_count' = file_count - 1
        /\ open_files' = [d \in Entries |-> IF open_files[d] = i THEN -1 ELSE open_files[d]]
        /\ UNCHANGED <<current_fd, current_filename, grown, negative>>
        /\ saved' = [files |-> file_table', count |-> file_count', used |-> used_blocks']
    BY DEF Delete, Save, history
  <1>2. \/ /\ f.start # -1 /\ free_list' = FreeBlocks(free_list, f.start, f.count)
           /\ used_blocks' = used_blocks - f.count
        \/ f.start = -1 /\ UNCHANGED <<free_list, used_blocks>>
    BY DEF Delete
  <1>3. i \in UsedIn(file_table) /\ f.name = n BY <1>1, NamedEntry
  <1> HIDE DEF i
  <1>4. file_table \in [Entries -> FileEntry] BY TableTypes DEF FsInv
  <1>5. i \in Entries /\ f.used /\ f \in FileEntry BY <1>3, <1>4 DEF UsedIn
  <1>6. f.start \in Int /\ f.count \in Int /\ g \in FileEntry /\ ~g.used BY <1>5 DEF FileEntry
  <1>7. negative = 0 => /\ f.count \in Nat /\ f.start \in Nat \cup {-1}
                        /\ f.start = -1 => f.count = 0
    BY <1>3 DEF FsInv, TablesInv, CountsInv
  <1>8. file_table' = [file_table EXCEPT ![i] = g] BY <1>1, <1>4, <1>5
  <1> HIDE DEF g
  <1>9. HeldBlocks(g) = 0 /\ HeldBlocks(f) = f.count /\ ExtentOf(g) = {}
        /\ ExtentOf(f) = IF f.start # -1 THEN f.start .. f.start + f.count - 1 ELSE {}
    BY <1>5, <1>6 DEF HeldBlocks, ExtentOf
  <1>10. /\ free_list \in Seq(ListRegion) /\ grown \in 0 .. MaxGrow /\ negative \in 0 .. MaxNegative
         /\ negative = 0 => free_list \in Seq(NatRegion)
         /\ used_blocks \in Int
    BY BoundsTypes DEF FsInv, TablesInv
  <1>11. used_blocks' \in Int
         /\ (negative = 0 => used_blocks' = used_blocks + HeldBlocks(g) - HeldBlocks(f))
    BY <1>2, <1>6, <1>7, <1>9, <1>10
  <1>12. free_list' \in Seq(ListRegion)
    <2> HIDE DEF f
    <2> QED BY <1>2, <1>6, <1>10, ListTypes
  <1>13. negative = 0 => free_list' \in Seq(NatRegion)
    <2> HIDE DEF f
    <2> SUFFICES ASSUME negative = 0 PROVE free_list' \in Seq(NatRegion) OBVIOUS
    <2>1. CASE f.start # -1 /\ free_list' = FreeBlocks(free_list, f.start, f.count)
      <3>1. f.start \in Nat /\ f.count \in Nat BY <1>7, <2>1
      <3> QED BY <1>10, <2>1, <3>1, NatLists
    <2>2. CASE UNCHANGED free_list BY <1>10, <2>2
    <2> QED BY <1>2, <2>1, <2>2
  <1>14. grown = 0 /\ negative = 0 => GoodList(free_list) /\ ExtentOf(f) \cap FreeSet(free_list) = {}
    BY <1>5 DEF FsInv, TablesInv, Divided
  <1>15. ASSUME grown = 0, negative = 0
         PROVE  GoodList(free_list') /\ FreeSet(free_list') = ExtentOf(f) \cup FreeSet(free_list)
    <2> HIDE DEF f
    <2>1. CASE f.start # -1 /\ free_list' = FreeBlocks(free_list, f.start, f.count)
      <3>1. (f.start .. f.start + f.count - 1) \cap FreeSet(free_list) = {} /\ f.count \in Nat
        BY <1>7, <1>9, <1>14, <1>15, <2>1
      <3>2. /\ GoodList(FreeBlocks(free_list, f.start, f.count))
            /\ FreeSet(FreeBlocks(free_list, f.start, f.count)) =
                    FreeSet(free_list) \cup (f.start .. f.start + f.count - 1)
        BY <1>6, <1>14, <1>15, <3>1, FreeGivesBack
      <3> QED BY <1>9, <2>1, <3>2
    <2>2. CASE f.start = -1 /\ UNCHANGED free_list BY <1>9, <1>14, <1>15, <2>2
    <2> QED BY <1>2, <2>1, <2>2
  <1>16. TablesInv'
    <2>1. grown' \in 0 .. MaxGrow /\ negative' \in 0 .. MaxNegative BY <1>1, <1>10
    <2>2. grown' = 0 /\ negative' = 0 =>
               /\ grown = 0 /\ GoodList(free_list')
               /\ ExtentOf(g) \cup FreeSet(free_list') = ExtentOf(f) \cup FreeSet(free_list)
               /\ ExtentOf(g) \cap FreeSet(free_list') = {}
      BY <1>1, <1>9, <1>15
    <2>3. file_count' = IF g.used /\ f.used THEN file_count
                        ELSE IF g.used THEN file_count + 1 ELSE file_count - 1
      BY <1>1, <1>6
    <2>4. negative' = 0 =>
               /\ negative = 0 /\ free_list' \in Seq(NatRegion)
               /\ used_blocks' = used_blocks + HeldBlocks(g) - HeldBlocks(f)
      BY <1>1, <1>11, <1>13
    <2>5. TablesInv BY DEF FsInv
    <2> HIDE DEF FsInv
    <2> QED BY <1>1, <1>5, <1>6, <1>8, <1>11, <1>12, <2>1, <2>2, <2>3, <2>4, <2>5, EntryStep
  <1>17. SessionInv'
    <2>1. /\ open_files \in [Entries -> Entries \cup {-1}] /\ current_fd \in Entries \cup {-1}
          /\ current_filename \in Names \cup {NoName}
          /\ \A d \in Entries : open_files[d] # -1 => d = current_fd
          /\ current_fd # -1 =>
            /\ open_files[current_fd] \in UsedIn(file_table)
            /\ file_table[open_files[current_fd]].name = current_filename
      BY DEF FsInv, SessionInv
    <2>2. current_fd # -1 => open_files[current_fd] # i BY <1>1, <1>3, <2>1
    <2>3. \A d \in Entries : open_files[d] # i
      <3>1. i # -1 /\ -1 \notin Entries BY <1>5 DEF Entries
      <3> SUFFICES ASSUME NEW d \in Entries PROVE open_files[d] # i OBVIOUS
      <3>2. CASE open_files[d] = -1 BY <3>1, <3>2
      <3>3. CASE open_files[d] # -1
        <4>1. d = current_fd /\ current_fd # -1 BY <2>1, <3>1, <3>3
        <4> QED BY <2>2, <4>1
      <3> QED BY <3>2, <3>3
    <2>4. open_files' = open_files BY <1>1, <2>1, <2>3
    <2>5. \A j \in UsedIn(file_table) : j # i => j \in UsedIn(file_table') /\ file_table'[j] = file_table[j]
      BY <1>4, <1>5, <1>8 DEF UsedIn
    <2> QED BY <1>1, <2>1, <2>2, <2>4, <2>5 DEF SessionInv
  <1> QED BY <1>16, <1>17 DEF FsInv

\* Tables without entries.
LEMMA EmptyTables ==
    ASSUME NEW t, t = [i \in Entries |-> ZeroEntry]
    PROVE  /\ t \in [Entries -> FileEntry] /\ UsedIn(t) = {} /\ Total(Holdings(t)) = 0
           /\ Divided(t, META .. TOTAL - 1)
  <1>1. ZeroEntry \in FileEntry /\ HeldBlocks(ZeroEntry) = 0 /\ ExtentOf(ZeroEntry) = {} /\ ~ZeroEntry.used
    BY DEF ZeroEntry, FileEntry, HeldBlocks, ExtentOf
  <1>2. t \in [Entries -> FileEntry] /\ UsedIn(t) = {} BY <1>1 DEF UsedIn
  <1>3. Holdings(t) \in [Entries -> Int] /\ \A i \in Entries : Holdings(t)[i] = 0 BY <1>1 DEF Holdings
  <1>4. Total(Holdings(t)) = 0 BY <1>3, TotalType
  <1>5. Divided(t, META .. TOTAL - 1)
    <2>1. \A i \in Entries : ExtentOf(t[i]) = {} BY <1>1
    <2> QED BY <2>1 DEF Divided
  <1> QED BY <1>2, <1>4, <1>5

\* What fs_init() of a new disk and fs_format() leave.
LEMMA EmptyDisk ==
    ASSUME file_table = [i \in Entries |-> ZeroEntry], file_count = 0, used_blocks = META,
           free_list = InitFreeList(META, TOTAL), grown = 0, negative = 0,
           saved = [files |-> file_table, count |-> file_count, used |-> used_blocks]
    PROVE  TablesInv
  <1>1. /\ file_table \in [Entries -> FileEntry] /\ UsedIn(file_table) = {}
        /\ Total(Holdings(file_table)) = 0 /\ Divided(file_table, META .. TOTAL - 1)
    BY EmptyTables
  <1>2. GoodList(free_list) /\ FreeSet(free_list) = META .. TOTAL - 1 /\ free_list \in Seq(NatRegion)
    BY InitGood
  <1>3. free_list \in Seq(ListRegion) BY <1>2 DEF GoodList
  <1>4. Cardinality(UsedIn(file_table)) = 0 BY <1>1, FS_EmptySet
  <1>5. used_blocks = META + Total(Holdings(file_table)) /\ used_blocks \in Int BY <1>1, DiskAssumption
  <1>6. grown \in 0 .. MaxGrow /\ negative \in 0 .. MaxNegative BY BoundAssumption
  <1>7. CountsInv BY <1>1, <1>2, <1>5 DEF CountsInv
  <1> QED BY <1>1, <1>2, <1>3, <1>4, <1>5, <1>6, <1>7 DEF TablesInv

\* A session with no open file.
LEMMA NoSession ==
    ASSUME open_files = [d \in Entries |-> -1], current_fd = -1, current_filename = NoName
    PROVE  SessionInv
  BY DEF SessionInv

\* A new disk has the invariant.
LEMMA FsInit_Inv == FsInit => FsInv
  <1> SUFFICES ASSUME FsInit PROVE FsInv OBVIOUS
  <1>1. TablesInv BY EmptyDisk DEF FsInit
  <1>2. SessionInv BY NoSession DEF FsInit
  <1> QED BY <1>1, <1>2 DEF FsInv

\* format empties the tables and closes the descriptor of the session.
LEMMA FormatKeeps ==
    ASSUME FsInv, Format
    PROVE  FsInv'
  <1>1. TablesInv'
    <2>1. /\ file_table' = [i \in Entries |-> ZeroEntry] /\ file_count' = 0 /\ used_blocks' = META
          /\ free_list' = InitFreeList(META, TOTAL) /\ grown' = 0 /\ negative' = 0
          /\ saved' = [files |-> file_table', count |-> file_count', used |-> used_blocks']
      BY DEF Format, Save
    <2>2. /\ file_table' \in [Entries -> FileEntry] /\ UsedIn(file_table') = {}
          /\ Total(Holdings(file_table')) = 0 /\ Divided(file_table', META .. TOTAL - 1)
      BY <2>1, EmptyTables
    <2>3. GoodList(free_list') /\ FreeSet(free_list') = META .. TOTAL - 1 /\ free_list' \in Seq(NatRegion)
      BY <2>1, InitGood
    <2>4. free_list' \in Seq(ListRegion) BY <2>3 DEF GoodList
    <2>5. Cardinality(UsedIn(file_table')) = 0 BY <2>2, FS_EmptySet
    <2>6. used_blocks' = META + Total(Holdings(file_table')) /\ used_blocks' \in Int
      BY <2>1, <2>2, DiskAssumption
    <2>7. grown' \in 0 .. MaxGrow /\ negative' \in 0 .. MaxNegative BY <2>1, BoundAssumption
    <2>8. saved'.used = used_blocks' BY <2>1
    <2>9. CountsInv' BY <2>2, <2>3, <2>6, <2>8 DEF CountsInv
    <2> QED BY <2>1, <2>2, <2>3, <2>4, <2>5, <2>6, <2>7, <2>9 DEF TablesInv
  <1>2. SessionInv'
    <2>1. /\ open_files' = IF current_fd = -1 THEN open_files
                           ELSE [open_files EXCEPT ![current_fd] = -1]
          /\ current_fd' = -1 /\ current_filename' = NoName
      BY DEF Format
    <2>2. /\ open_files \in [Entries -> Entries \cup {-1}] /\ current_fd \in Entries \cup {-1}
          /\ \A d \in Entries : open_files[d] # -1 => d = current_fd
      BY DEF FsInv, SessionInv
    <2>3. open_files' \in [Entries -> Entries \cup {-1}] /\ \A d \in Entries : open_files'[d] = -1
      <3>1. -1 \notin Entries BY DEF Entries
      <3> QED BY <2>1, <2>2, <3>1
    <2> QED BY <2>1, <2>3 DEF SessionInv
  <1> QED BY <1>1, <1>2 DEF FsInv

\* A restart finds the tables as they were, and builds the free list and the statistics
\* again from them.
LEMMA RestartKeeps ==
    ASSUME FsInv, Restart
    PROVE  FsInv'
  <1>1. /\ file_table \in [Entries -> FileEntry]
        /\ saved.files = file_table /\ saved.count = file_count /\ saved.used \in Int
        /\ grown \in 0 .. MaxGrow
    BY DEF FsInv, TablesInv
  <1>2. /\ file_table' = file_table /\ file_count' = file_count /\ UNCHANGED <<saved, grown, negative>>
        /\ free_list' = LoadFreeList(file_table)
        /\ used_blocks' = META + SumCounts(file_table, Holders(file_table))
    BY <1>1 DEF Restart, history
  <1> DEFINE held == [i \in Entries |-> IF i \in Holders(file_table) THEN file_table[i].count ELSE 0]
  <1>3. ASSUME negative = 0 PROVE held = Holdings(file_table)
    <2>1. ASSUME NEW i \in Entries
          PROVE  (IF i \in Holders(file_table) THEN file_table[i].count ELSE 0) = HeldBlocks(file_table[i])
      <3>1. CASE i \in Holders(file_table) BY <3>1 DEF Holders, HeldBlocks
      <3>2. CASE i \notin Holders(file_table)
        <4>1. CASE ~file_table[i].used BY <3>2, <4>1 DEF HeldBlocks
        <4>2. CASE file_table[i].used
          <5>1. i \in UsedIn(file_table) BY <4>2 DEF UsedIn
          <5>2. file_table[i].count \in Nat /\ (file_table[i].start = -1 => file_table[i].count = 0)
            BY <1>3, <5>1 DEF FsInv, TablesInv, CountsInv
          <5>3. file_table[i].count = 0 BY <3>2, <4>2, <5>2 DEF Holders
          <5> QED BY <3>2, <5>3 DEF HeldBlocks
        <4> QED BY <4>1, <4>2
      <3> QED BY <3>1, <3>2
    <2> QED BY <2>1 DEF Holdings
  <1>4. used_blocks' = META + Total(held) /\ used_blocks' \in Int
    <2>1. \A i \in Entries : file_table[i].count \in Int BY <1>1 DEF FileEntry
    <2>2. held \in [Entries -> Int] BY <2>1
    <2> HIDE DEF held
    <2>3. Total(held) \in Int BY <2>2, TotalType
    <2>4. used_blocks' = META + Total(held) BY <1>2 DEF SumCounts, held
    <2> QED BY <2>3, <2>4, DiskAssumption
  <1> HIDE DEF held
  <1>5. /\ GoodList(free_list')
        /\ FreeSet(free_list') = (META .. TOTAL - 1) \ UNION {ExtentOf(file_table[i]) : i \in Entries}
        /\ (\A j \in Holders(file_table) : file_table[j].start \in Nat) => free_list' \in Seq(NatRegion)
    BY <1>1, <1>2, LoadRebuilds
  <1>6. grown = 0 /\ negative = 0 => Divided(file_table, FreeSet(free_list'))
    <2> SUFFICES ASSUME grown = 0, negative = 0 PROVE Divided(file_table, FreeSet(free_list')) OBVIOUS
    <2>1. Divided(file_table, FreeSet(free_list)) BY DEF FsInv, TablesInv
    <2>2. \A b : b \in FreeSet(free_list') <=>
                b \in META .. TOTAL - 1 /\ ~\E i \in Entries : b \in ExtentOf(file_table[i])
      BY <1>5
    <2> QED BY <2>1, <2>2 DEF Divided
  <1>7. TablesInv'
    <2>1. free_list' \in Seq(ListRegion) BY <1>5 DEF GoodList
    <2>2. negative' = 0 => CountsInv'
      <3> SUFFICES ASSUME negative' = 0 PROVE CountsInv' OBVIOUS
      <3>1. negative = 0 /\ saved'.used = saved.used BY <1>2
      <3>2. CountsInv BY <3>1 DEF FsInv, TablesInv
      <3>3. used_blocks' = used_blocks BY <1>3, <1>4, <3>1, <3>2 DEF CountsInv
      <3>4. \A j \in Holders(file_table) : file_table[j].start \in Nat
        BY <3>2 DEF CountsInv, Holders, UsedIn
      <3>5. free_list' \in Seq(NatRegion) BY <1>5, <3>4
      <3> QED BY <1>2, <3>1, <3>2, <3>3, <3>5 DEF CountsInv
    <2> QED BY <1>1, <1>2, <1>4, <1>5, <1>6, <2>1, <2>2 DEF FsInv, TablesInv
  <1>8. SessionInv'
    <2>1. open_files' = [d \in Entries |-> -1] /\ current_fd' = -1 /\ current_filename' = NoName
      BY DEF Restart
    <2> QED BY <2>1 DEF SessionInv
  <1> QED BY <1>7, <1>8 DEF FsInv

\* Every step keeps the invariant.
LEMMA FsNext_Inv == FsInv /\ [FsNext]_fs_vars => FsInv'
  <1> SUFFICES ASSUME FsInv, [FsNext]_fs_vars PROVE FsInv' OBVIOUS
  <1>1. ASSUME NEW n \in Names, Create(n) \/ Open(n) \/ OpenCreate(n) \/ Delete(n) PROVE FsInv'
    BY <1>1, CreateKeeps, OpenKeeps, OpenCreateKeeps, DeleteKeeps
  <1>2. ASSUME NEW w \in WriteArgs,
               \/ WriteFirst(w[1], w[2]) \/ WriteInPlace(w[1], w[2])
               \/ WriteGrow(w[1], w[2]) \/ WriteLost(w[1], w[2])
        PROVE  FsInv'
    <2>1. w[1] \in Nat /\ w[2] \in Nat BY ArgsAssumption
    <2> QED BY <1>2, <2>1, WriteFirstKeeps, WriteInPlaceKeeps, WriteGrowKeeps, WriteLostKeeps
  <1>3. ASSUME NEW s \in ShrinkArgs, Shrink(s) PROVE FsInv' BY <1>3, ShrinkKeeps
  <1>4. CASE Close BY <1>4, CloseKeeps
  <1>5. CASE Format BY <1>5, FormatKeeps
  <1>6. CASE Restart BY <1>6, RestartKeeps
  <1>7. CASE UNCHANGED fs_vars
    <2>1. UNCHANGED <<fs, saved, history>> /\ UNCHANGED session /\ UNCHANGED file_table
      BY <1>7 DEF fs_vars, fs, session, history
    <2>2. TablesInv' BY <2>1, TablesSame DEF FsInv
    <2>3. SessionInv' BY <2>1, SameSession DEF FsInv
    <2> QED BY <2>2, <2>3 DEF FsInv
  <1> QED BY <1>1, <1>2, <1>3, <1>4, <1>5, <1>6, <1>7 DEF FsNext

\* The invariant holds in every state.
LEMMA FsInductive == FsSpec => []FsInv
  <1>1. FsInv /\ [FsNext]_fs_vars => FsInv' BY FsNext_Inv
  <1> QED BY FsInit_Inv, <1>1, PTL DEF FsSpec

\* There are at most as many used entries as entries.
LEMMA UsedCount ==
    ASSUME NEW t \in [Entries -> FileEntry]
    PROVE  Cardinality(UsedIn(t)) \in 0 .. MAX_FILES
  <1>1. IsFiniteSet(Entries) /\ Cardinality(Entries) = MAX_FILES
    <2>1. /\ IsFiniteSet(0 .. MAX_FILES - 1)
          /\ Cardinality(0 .. MAX_FILES - 1) =
               IF 0 > MAX_FILES - 1 THEN 0 ELSE MAX_FILES - 1 - 0 + 1
      BY FS_Interval, DiskAssumption
    <2> QED BY <2>1, DiskAssumption DEF Entries
  <1>2. UsedIn(t) \subseteq Entries BY DEF UsedIn
  <1>3. IsFiniteSet(UsedIn(t)) /\ Cardinality(UsedIn(t)) <= Cardinality(Entries)
    BY <1>1, <1>2, FS_Subset
  <1>4. Cardinality(UsedIn(t)) \in Nat BY <1>3, FS_CardinalityType
  <1> QED BY <1>1, <1>3, <1>4, DiskAssumption

\* The variables of MyFS keep their types: the program's tables hold what their
\* declarations say, and the number of files never exceeds MAX_FILES.
THEOREM FsTypeCorrect == FsSpec => []FsTypeOK
  <1>1. FsInv => FsTypeOK
    <2> SUFFICES ASSUME FsInv PROVE FsTypeOK OBVIOUS
    <2>1. /\ file_table \in [Entries -> FileEntry] /\ free_list \in Seq(ListRegion)
          /\ used_blocks \in Int
          /\ file_count = Cardinality(UsedIn(file_table))
          /\ saved = [files |-> file_table, count |-> file_count, used |-> saved.used]
          /\ saved.used \in Int
          /\ grown \in 0 .. MaxGrow /\ negative \in 0 .. MaxNegative
      BY DEF FsInv, TablesInv
    <2>2. file_count \in 0 .. MAX_FILES BY <2>1, UsedCount
    <2>4. /\ open_files \in [Entries -> Entries \cup {-1}] /\ current_fd \in Entries \cup {-1}
          /\ current_filename \in Names \cup {NoName}
      BY DEF FsInv, SessionInv
    <2>5. saved \in [files : [Entries -> FileEntry], count : 0 .. MAX_FILES, used : Int]
      BY <2>1, <2>2
    <2>6. free_list \in Seq([s : Int, e : Int]) BY <2>1 DEF ListRegion
    <2> QED BY <2>1, <2>2, <2>4, <2>5, <2>6 DEF FsTypeOK
  <1> QED BY <1>1, FsInductive, PTL

\* The statistics of the file system are exact, and the disk has what memory has, after
\* every command and every restart: create, rm, write, shrink and format each keep
\* used_blocks and file_count beside the entries they change.  A shrink below zero blocks
\* ends this for used_blocks, and for nothing else, until the next format.
THEOREM AccountingHolds == FsSpec => []Accounting
  <1>1. FsInv => Accounting
    <2> SUFFICES ASSUME FsInv PROVE Accounting OBVIOUS
    <2>1. /\ file_table \in [Entries -> FileEntry]
          /\ file_count = Cardinality(UsedIn(file_table))
          /\ saved.files = file_table /\ saved.count = file_count
          /\ negative = 0 => /\ saved.used = used_blocks
                             /\ used_blocks = META + Total(Holdings(file_table))
      BY DEF FsInv, TablesInv, CountsInv
    <2>2. Used = UsedIn(file_table) BY DEF Used, UsedIn
    <2>3. [i \in Entries |-> IF i \in Used THEN file_table[i].count ELSE 0] = Holdings(file_table)
      <3>1. ASSUME NEW i \in Entries
            PROVE  (IF i \in Used THEN file_table[i].count ELSE 0) = HeldBlocks(file_table[i])
        BY DEF Used, HeldBlocks
      <3> QED BY <3>1 DEF Holdings
    <2>4. SumCounts(file_table, Used) = Total(Holdings(file_table)) BY <2>3 DEF SumCounts
    <2>5. Persisted BY <2>1 DEF Persisted
    <2> QED BY <2>1, <2>2, <2>4, <2>5 DEF Accounting
  <1> QED BY <1>1, FsInductive, PTL

\* No command leaves the session with a descriptor of a file that is gone, and
\* no descriptor but the session's stays open.
THEOREM OpenFileValidHolds == FsSpec => []OpenFileValid
  <1>1. FsInv => OpenFileValid
    <2> SUFFICES ASSUME FsInv PROVE OpenFileValid OBVIOUS
    <2>1. Used = UsedIn(file_table) BY DEF Used, UsedIn
    <2> QED BY <2>1 DEF FsInv, SessionInv, OpenFileValid
  <1> QED BY <1>1, FsInductive, PTL

\* As long as no write has extended a file and no shrink has gone below zero blocks, every
\* data block is either free or a block of exactly one file, whatever the order of
\* writes, shrinks, removals, formats and restarts.
THEOREM PartitionHolds == FsSpec => []Partition
  <1>1. FsInv => Partition
    <2> SUFFICES ASSUME FsInv, grown = 0, negative = 0
                 PROVE  NoOverlap /\ Extents \cup FreeSet(free_list) = META .. TOTAL - 1
      BY DEF Partition
    <2>1. Divided(file_table, FreeSet(free_list)) BY DEF FsInv, TablesInv
    <2>2. \A i \in Entries : Extent(i) = ExtentOf(file_table[i]) BY DEF Extent, ExtentOf
    <2>3. \A b : b \in Extents <=> \E i \in Entries : b \in ExtentOf(file_table[i])
      BY <2>2 DEF Extents
    <2>4. NoOverlap BY <2>1, <2>2, <2>3 DEF NoOverlap, Divided
    <2>5. Extents \cup FreeSet(free_list) = META .. TOTAL - 1 BY <2>1, <2>3 DEF Divided
    <2> QED BY <2>4, <2>5
  <1> QED BY <1>1, FsInductive, PTL

----------------------------------------------------------------------------
(* Memory: addresses and sizes                                             *)

\* Quotient and remainder.
LEMMA DivMod ==
    ASSUME NEW n \in Nat, n > 0, NEW x \in Int
    PROVE  /\ x \div n \in Int /\ x % n \in 0 .. n - 1
           /\ x = n * (x \div n) + (x % n)
  <1>1. x % n \in 0 .. n - 1 OBVIOUS
  <1>2. x \div n \in Int OBVIOUS
  <1>3. x = n * (x \div n) + (x % n) BY SMTT(20)
  <1> QED BY <1>1, <1>2, <1>3

\* Multiplication keeps the order.
LEMMA TimesLess ==
    ASSUME NEW n \in Nat, NEW q \in Int, NEW p \in Int, q < p
    PROVE  n * q + n <= n * p /\ n * q \in Int /\ n * p \in Int
  <1>1. PICK d \in Nat : p = q + 1 + d
    <2>1. p - q - 1 \in Nat /\ p = q + 1 + (p - q - 1) OBVIOUS
    <2> QED BY <2>1
  <1>2. n * (q + 1 + d) = n * q + n + n * d /\ n * d \in Nat /\ n * q \in Int OBVIOUS
  <1> QED BY <1>1, <1>2

\* A quotient is where its multiples enclose the number.
LEMMA DivIs ==
    ASSUME NEW n \in Nat, n > 0, NEW x \in Int, NEW q \in Int, n * q <= x, x < n * q + n
    PROVE  x \div n = q
  <1> DEFINE d == x \div n
  <1>1. d \in Int /\ n * d \in Int /\ n * q \in Int /\ n * d <= x /\ x < n * d + n BY DivMod
  <1> HIDE DEF d
  <1>2. ~(q < d) BY <1>1, TimesLess
  <1>3. ~(d < q) BY <1>1, TimesLess
  <1> QED BY <1>1, <1>2, <1>3 DEF d

\* A quotient is below a bound if the number is below the bound's multiple.
LEMMA DivBelow ==
    ASSUME NEW n \in Nat, n > 0, NEW k \in Nat, NEW x \in Nat, x < n * k
    PROVE  x \div n \in 0 .. k - 1
  <1> DEFINE d == x \div n
  <1>1. d \in Int /\ n * d \in Int /\ n * k \in Int /\ n * d <= x /\ x < n * d + n BY DivMod
  <1> HIDE DEF d
  <1>2. d < k
    <2> SUFFICES ASSUME k <= d PROVE FALSE BY <1>1
    <2>1. CASE k = d BY <1>1, <2>1
    <2>2. CASE k < d BY <1>1, <2>2, TimesLess
    <2> QED BY <1>1, <2>1, <2>2
  <1>3. d >= 0
    <2> SUFFICES ASSUME d < 0 PROVE FALSE BY <1>1
    <2>1. n * d + n <= n * 0 BY <1>1, TimesLess
    <2> QED BY <1>1, <2>1
  <1> QED BY <1>1, <1>2, <1>3 DEF d

\* The levels of a page table.
LEMMA Levels ==
    /\ MAXVA \in Nat /\ MAXVA >= 8 /\ FAN * FAN \in Nat /\ FAN * FAN > 0
    /\ MAXVA = FAN * (FAN * FAN) /\ MAXVA = (FAN * FAN) * FAN
    /\ FAN * FAN >= FAN + 2
  <1> DEFINE s == FAN * FAN
  <1>1. FAN \in Nat /\ FAN >= 2 BY MemoryAssumption
  <1>2. s \in Nat /\ s >= FAN + 2 /\ s >= 4
    <2>1. CASE FAN = 2
      <3>1. s = 4 BY <2>1
      <3> QED BY <2>1, <3>1
    <2>2. CASE FAN > 2
      <3>1. FAN * 2 + FAN <= FAN * FAN /\ FAN * FAN \in Int BY <1>1, <2>2, TimesLess
      <3>2. FAN * 2 = FAN + FAN BY <1>1
      <3> QED BY <1>1, <2>2, <3>1, <3>2
    <2> QED BY <1>1, <2>1, <2>2
  <1>3. MAXVA = s * FAN BY DEF MAXVA
  <1>4. FAN * s = s * FAN BY <1>1, <1>2
  <1> HIDE DEF s
  <1>5. s * FAN >= 8 /\ s * FAN \in Nat
    <2>1. s * 1 + s <= s * FAN BY <1>1, <1>2, TimesLess
    <2>2. s * 1 = s /\ s * FAN \in Nat BY <1>1, <1>2
    <2> QED BY <1>2, <2>1, <2>2
  <1> QED BY <1>2, <1>3, <1>4, <1>5 DEF s

\* The addresses of user memory and of the two pages above it.
LEMMA Addresses ==
    /\ TRAPFRAME \in Nat /\ TRAPFRAME >= 6 /\ TRAMPOLINE = TRAPFRAME + 1
    /\ VA = 0 .. TRAPFRAME + 1
    /\ UserVA = 0 .. TRAPFRAME - 1 /\ UserVA \subseteq VA
    /\ TRAMPOLINE \in VA /\ TRAPFRAME \in VA
    /\ \A a \in VA : a \in UserVA \/ a = TRAPFRAME \/ a = TRAMPOLINE
    /\ TRAMPOLINE \notin UserVA /\ TRAPFRAME \notin UserVA
  BY Levels DEF TRAPFRAME, TRAMPOLINE, VA, UserVA

\* The page-table pages on the way to a page.
LEMMA WayNodes ==
    ASSUME NEW a \in VA
    PROVE  <<1, a \div (FAN * FAN)>> \in Nodes /\ <<0, a \div FAN>> \in Nodes
  <1> DEFINE s == FAN * FAN
  <1>1. FAN \in Nat /\ FAN > 0 /\ s \in Nat /\ s > 0 BY MemoryAssumption, Levels
  <1>2. a \in Nat /\ a < s * FAN /\ a < FAN * s BY Levels DEF VA
  <1>3. a \div s \in 0 .. FAN - 1
    <2> HIDE DEF s
    <2> QED BY <1>1, <1>2, DivBelow
  <1>4. a \div FAN \in 0 .. s - 1
    <2> HIDE DEF s
    <2> QED BY <1>1, <1>2, DivBelow
  <1> QED BY <1>3, <1>4 DEF Nodes

\* They are the same for the trampoline and the trapframe.
LEMMA TopNodes ==
    /\ TRAMPOLINE \div FAN = TRAPFRAME \div FAN
    /\ TRAMPOLINE \div (FAN * FAN) = TRAPFRAME \div (FAN * FAN)
  <1> DEFINE s == FAN * FAN
  <1>1. FAN \in Nat /\ FAN >= 2 /\ s \in Nat /\ s >= 4 BY MemoryAssumption, Levels
  <1>2. FAN * (s - 1) + FAN = MAXVA /\ FAN * (s - 1) \in Int
    <2>1. FAN * (s - 1) + FAN = FAN * s /\ FAN * (s - 1) \in Int
      <3> HIDE DEF s
      <3> QED BY <1>1
    <2> QED BY <2>1, Levels
  <1>3. s * (FAN - 1) + s = MAXVA /\ s * (FAN - 1) \in Int
    <2>1. s * (FAN - 1) + s = s * FAN /\ s * (FAN - 1) \in Int
      <3> HIDE DEF s
      <3> QED BY <1>1
    <2> QED BY <2>1, Levels
  <1>4. TRAMPOLINE = MAXVA - 1 /\ TRAPFRAME = MAXVA - 2 /\ MAXVA \in Int
    BY Levels DEF TRAMPOLINE, TRAPFRAME
  <1> HIDE DEF s
  <1>5. TRAMPOLINE \div FAN = s - 1 /\ TRAPFRAME \div FAN = s - 1
    <2>1. s - 1 \in Int /\ TRAMPOLINE \in Int /\ TRAPFRAME \in Int BY <1>1, <1>4
    <2>2. /\ FAN * (s - 1) <= TRAMPOLINE /\ TRAMPOLINE < FAN * (s - 1) + FAN
          /\ FAN * (s - 1) <= TRAPFRAME /\ TRAPFRAME < FAN * (s - 1) + FAN
      BY <1>1, <1>2, <1>4
    <2> QED BY <1>1, <2>1, <2>2, DivIs
  <1>6. TRAMPOLINE \div s = FAN - 1 /\ TRAPFRAME \div s = FAN - 1
    <2>1. FAN - 1 \in Int /\ TRAMPOLINE \in Int /\ TRAPFRAME \in Int BY <1>1, <1>4
    <2>2. /\ s * (FAN - 1) <= TRAMPOLINE /\ TRAMPOLINE < s * (FAN - 1) + s
          /\ s * (FAN - 1) <= TRAPFRAME /\ TRAPFRAME < s * (FAN - 1) + s
      BY <1>1, <1>3, <1>4
    <2> QED BY <1>1, <2>1, <2>2, DivIs
  <1> QED BY <1>5, <1>6 DEF s

\* Bytes and pages.
LEMMA RoundUp ==
    ASSUME NEW n \in Nat
    PROVE  /\ PGROUNDUP(n) \in Nat /\ n <= PGROUNDUP(n) * PGSIZE /\ PGROUNDUP(n) * PGSIZE \in Nat
           /\ \A k \in Nat : n <= k * PGSIZE => PGROUNDUP(n) <= k
           /\ \A k \in Nat : k * PGSIZE < n => k < PGROUNDUP(n)
  <1> DEFINE u == PGROUNDUP(n)
             S == PGSIZE
  <1>1. S \in Nat /\ S > 0 /\ n + S - 1 \in Int BY MemoryAssumption
  <1>2. u \in Int /\ S * u \in Int /\ S * u <= n + S - 1 /\ n + S - 1 < S * u + S
    BY <1>1, DivMod DEF PGROUNDUP
  <1>3. u * S = S * u BY <1>1, <1>2
  <1>4. u >= 0
    <2> SUFFICES ASSUME u < 0 PROVE FALSE BY <1>2
    <2>1. S * u + S <= S * 0 BY <1>1, <1>2, TimesLess
    <2> QED BY <1>1, <1>2, <2>1
  <1> HIDE DEF u
  <1>5. ASSUME NEW k \in Nat, n <= k * S PROVE u <= k
    <2> SUFFICES ASSUME k < u PROVE FALSE BY <1>2
    <2>1. S * k + S <= S * u /\ S * k \in Int BY <1>1, <1>2, TimesLess
    <2>2. S * k = k * S BY <1>1
    <2> QED BY <1>1, <1>2, <1>5, <2>1, <2>2
  <1>6. ASSUME NEW k \in Nat, k * S < n PROVE k < u
    <2> SUFFICES ASSUME u <= k PROVE FALSE BY <1>2
    <2>0. u <= k /\ u \in Int BY <1>2
    <2>1. S * u <= S * k /\ S * k \in Int
      <3>0. S * k \in Int BY <1>1
      <3>1. CASE u < k BY <1>1, <1>2, <3>1, TimesLess
      <3>2. CASE u = k BY <1>1, <1>2, <3>2
      <3> QED BY <2>0, <3>0, <3>1, <3>2
    <2>2. S * k = k * S BY <1>1
    <2> QED BY <1>1, <1>2, <1>6, <2>1, <2>2
  <1> QED BY <1>1, <1>2, <1>3, <1>4, <1>5, <1>6 DEF u

\* Whole pages.
LEMMA RoundWhole ==
    ASSUME NEW k \in Nat
    PROVE  PGROUNDUP(k * PGSIZE) = k /\ k * PGSIZE \in Nat
  <1> DEFINE n == k * PGSIZE
             u == PGROUNDUP(n)
  <1>1. n \in Nat /\ PGSIZE \in Nat /\ PGSIZE > 0 BY MemoryAssumption
  <1>2. u \in Nat /\ n <= u * PGSIZE /\ u <= k BY <1>1, RoundUp
  <1>3. k <= u
    <2> SUFFICES ASSUME u < k PROVE FALSE BY <1>2
    <2> HIDE DEF u, n
    <2>1. PGSIZE * u + PGSIZE <= PGSIZE * k BY <1>1, <1>2, TimesLess
    <2>2. PGSIZE * u = u * PGSIZE /\ PGSIZE * k = k * PGSIZE BY <1>1, <1>2
    <2> QED BY <1>1, <1>2, <2>1, <2>2 DEF n
  <1> QED BY <1>1, <1>2, <1>3

\* Rounding keeps the order.
LEMMA RoundOrder ==
    ASSUME NEW m \in Nat, NEW n \in Nat, m <= n
    PROVE  PGROUNDUP(m) <= PGROUNDUP(n)
  <1>1. PGROUNDUP(n) \in Nat /\ n <= PGROUNDUP(n) * PGSIZE /\ PGROUNDUP(n) * PGSIZE \in Nat
    BY RoundUp
  <1>2. m <= PGROUNDUP(n) * PGSIZE BY <1>1
  <1> QED BY <1>1, <1>2, RoundUp

----------------------------------------------------------------------------
(* Pages: each in one place                                                *)

\* The pages that a trapframe pointer and a page table name, by cell.
Held(tf, pt) ==
    [c \in Cell |-> IF c[1] = "tf" THEN tf
                    ELSE IF c[1] = "root" THEN pt.root
                    ELSE IF c[1] = "node" THEN pt.node[c[2]]
                    ELSE pt.leaf[c[2]].pa]

PagesOf(h) == {h[c] : c \in Cell} \ {0}

\* Each page is in F, in X, or in just one cell of h.
Split(F, h, X) ==
    /\ F \subseteq Page /\ X \subseteq Page /\ F \cap X = {}
    /\ h \in [Cell -> 0 .. NPAGE]
    /\ \A c, d \in Cell : h[c] = h[d] /\ h[c] # 0 => c = d
    /\ \A c \in Cell : h[c] \notin F /\ h[c] \notin X
    /\ \A b \in Page : b \in F \/ b \in X \/ \E c \in Cell : h[c] = b

\* Page numbers, and 0 for none.
LEMMA PageRange ==
    /\ \A b \in Page : b \in 0 .. NPAGE /\ b # 0
    /\ 0 \in 0 .. NPAGE
    /\ \A b \in 0 .. NPAGE : b # 0 => b \in Page
  BY MemoryAssumption DEF Page

\* The cells of a table that satisfies the types.
LEMMA HeldType ==
    ASSUME NEW tf \in 0 .. NPAGE, NEW pt \in Table
    PROVE  Held(tf, pt) \in [Cell -> 0 .. NPAGE]
  <1>1. ASSUME NEW c \in Cell PROVE Held(tf, pt)[c] \in 0 .. NPAGE
    <2>1. CASE c \in {<<"tf", 0>>, <<"root", 0>>}
      BY <2>1 DEF Held, Table
    <2>2. CASE c \in {"node"} \X Nodes
      BY <2>2 DEF Held, Table
    <2>3. CASE c \in {"leaf"} \X UserVA
      <3>1. c[2] \in VA /\ c[1] = "leaf" BY <2>3, Addresses
      <3>2. pt.leaf[c[2]] \in Leaf BY <3>1 DEF Table
      <3> QED BY <3>1, <3>2 DEF Held, Leaf
    <2> QED BY <2>1, <2>2, <2>3 DEF Cell
  <1>2. Held(tf, pt) = [c \in Cell |-> Held(tf, pt)[c]] BY DEF Held
  <1> QED BY <1>1, <1>2

\* Free pages that are taken, and taken ones that are freed.
LEMMA SplitAlloc ==
    ASSUME NEW F, NEW h, NEW X, Split(F, h, X), NEW B, B \subseteq F
    PROVE  Split(F \ B, h, X \cup B)
  BY DEF Split

\* Pages that are given back.
LEMMA SplitFree ==
    ASSUME NEW F, NEW h, NEW X, NEW B, Split(F, h, X), B \subseteq X
    PROVE  Split(F \cup B, h, X \ B)
  BY DEF Split

\* A taken page that an empty cell gets.
LEMMA SplitPlace ==
    ASSUME NEW F, NEW h, NEW X, NEW b \in Page, b \notin X, Split(F, h, X \cup {b}),
           NEW c \in Cell, h[c] = 0
    PROVE  Split(F, [h EXCEPT ![c] = b], X)
  <1> DEFINE g == [h EXCEPT ![c] = b]
  <1>0. b \in 0 .. NPAGE /\ b # 0 BY PageRange
  <1>1. g \in [Cell -> 0 .. NPAGE] BY <1>0 DEF Split
  <1>2. g[c] = b /\ \A d \in Cell : d # c => g[d] = h[d] BY DEF Split
  <1>3. \A d \in Cell : h[d] # b BY DEF Split
  <1> HIDE DEF g
  <1>4. \A d, e \in Cell : g[d] = g[e] /\ g[d] # 0 => d = e BY <1>2, <1>3 DEF Split
  <1>5. \A d \in Cell : g[d] \notin F /\ g[d] \notin X BY <1>2 DEF Split
  <1>6. ASSUME NEW a \in Page PROVE a \in F \/ a \in X \/ \E d \in Cell : g[d] = a
    <2>1. CASE \E d \in Cell : h[d] = a
      <3>1. PICK d \in Cell : h[d] = a BY <2>1
      <3>2. d # c BY <3>1, PageRange
      <3> QED BY <1>2, <3>1, <3>2
    <2> QED BY <1>2, <2>1 DEF Split
  <1> QED BY <1>1, <1>4, <1>5, <1>6 DEF Split, g

\* Cells that are emptied, their pages freed.
LEMMA SplitDrop ==
    ASSUME NEW F, NEW h, NEW X, Split(F, h, X), NEW C, C \subseteq Cell
    PROVE  Split(F \cup ({h[c] : c \in C} \ {0}), [c \in Cell |-> IF c \in C THEN 0 ELSE h[c]], X)
  <1> DEFINE g == [c \in Cell |-> IF c \in C THEN 0 ELSE h[c]]
             B == {h[c] : c \in C} \ {0}
  <1>0. \A c \in Cell : h[c] \in 0 .. NPAGE BY DEF Split
  <1>1. g \in [Cell -> 0 .. NPAGE] BY <1>0, PageRange
  <1>2. B \subseteq Page BY <1>0, PageRange
  <1>3. \A c \in Cell : g[c] = IF c \in C THEN 0 ELSE h[c] OBVIOUS
  <1>4. \A b \in B : \E c \in C : h[c] = b /\ b # 0 OBVIOUS
  <1>5. \A c \in C : h[c] # 0 => h[c] \in B OBVIOUS
  <1> HIDE DEF g, B
  <1>6. \A c, d \in Cell : g[c] = g[d] /\ g[c] # 0 => c = d BY <1>3 DEF Split
  <1>7. ASSUME NEW c \in Cell PROVE g[c] \notin F \cup B /\ g[c] \notin X
    <2>1. CASE c \in C
      <3>1. 0 \notin F /\ 0 \notin X /\ 0 \notin B BY <1>2, PageRange DEF Split
      <3> QED BY <1>3, <2>1, <3>1
    <2>2. CASE c \notin C
      <3>1. g[c] = h[c] BY <1>3, <2>2
      <3>2. h[c] \notin B BY <1>4, <2>2 DEF Split
      <3> QED BY <3>1, <3>2 DEF Split
    <2> QED BY <2>1, <2>2
  <1>8. ASSUME NEW b \in Page PROVE b \in F \cup B \/ b \in X \/ \E c \in Cell : g[c] = b
    <2>1. CASE \E c \in Cell : h[c] = b
      <3>1. PICK c \in Cell : h[c] = b BY <2>1
      <3>2. b # 0 BY PageRange
      <3> QED BY <1>3, <1>5, <3>1, <3>2
    <2> QED BY <2>1 DEF Split
  <1>9. (F \cup B) \cap X = {} /\ F \cup B \subseteq Page BY <1>2, <1>4 DEF Split
  <1> QED BY <1>1, <1>6, <1>7, <1>8, <1>9 DEF Split, g, B

\* What h shares with the pages of g is what g shares with the pages of h.
LEMMA SplitSwap ==
    ASSUME NEW F, NEW h, NEW Y, NEW g, Split(F, h, Y \cup PagesOf(g)),
           NEW E, NEW Z, Split(E, g, Z), Y \subseteq Z
    PROVE  Split(F, g, Y \cup PagesOf(h))
  <1>1. PagesOf(h) \subseteq Page /\ \A b \in PagesOf(h) : \E c \in Cell : h[c] = b
    BY PageRange DEF Split, PagesOf
  <1>2. \A c \in Cell : g[c] # 0 => g[c] \in PagesOf(g) BY DEF PagesOf
  <1>3. \A c \in Cell : h[c] # 0 => h[c] \in PagesOf(h) BY DEF PagesOf
  <1>4. \A b \in PagesOf(g) : \E c \in Cell : g[c] = b BY DEF PagesOf
  <1>5. 0 \notin F /\ 0 \notin Y /\ 0 \notin PagesOf(h) BY PageRange DEF Split, PagesOf
  <1>6. ASSUME NEW c \in Cell PROVE g[c] \notin F /\ g[c] \notin Y \cup PagesOf(h)
    <2>1. g[c] \notin Y BY DEF Split
    <2>2. CASE g[c] = 0 BY <1>5, <2>2
    <2>3. CASE g[c] # 0
      <3>1. g[c] \in PagesOf(g) BY <1>2, <2>3
      <3> QED BY <1>1, <2>1, <3>1 DEF Split
    <2> QED BY <2>2, <2>3
  <1>7. ASSUME NEW b \in Page
        PROVE  b \in F \/ b \in Y \cup PagesOf(h) \/ \E c \in Cell : g[c] = b
    <2>1. b # 0 BY PageRange
    <2> QED BY <1>3, <1>4, <2>1 DEF Split
  <1>8. F \cap (Y \cup PagesOf(h)) = {} BY <1>1 DEF Split
  <1> QED BY <1>1, <1>6, <1>7, <1>8 DEF Split

----------------------------------------------------------------------------
(* One table at a time                                                     *)

\* What the operations compute with.
MemRec == [free : SUBSET Page, pt : Table, got : 0 .. NPAGE, ok : BOOLEAN, panic : BOOLEAN]

\* The page-table page that has the entry for page a.
Hung(pt, a) == pt.node[<<0, a \div FAN>>] # 0

\* Only what is mapped has a page and permissions, and an entry that holds it.
TableOK(pt) ==
    /\ pt \in Table
    /\ \A a \in VA : ~pt.leaf[a].v => pt.leaf[a] = NoLeaf
    /\ \A a \in UserVA : pt.leaf[a].v => pt.leaf[a].pa # 0
    /\ \A a \in VA : pt.leaf[a].v => Hung(pt, a)

\* A computation whose pages, with those elsewhere in X, are each in one place.
Accounted(m, tf, X) ==
    m \in MemRec /\ tf \in 0 .. NPAGE /\ TableOK(m.pt) /\ Split(m.free, Held(tf, m.pt), X)

\* The cells there are.
LEMMA CellCases ==
    /\ <<"tf", 0>> \in Cell /\ <<"root", 0>> \in Cell
    /\ \A n \in Nodes : <<"node", n>> \in Cell
    /\ \A a \in UserVA : <<"leaf", a>> \in Cell
    /\ \A c \in Cell : \/ c = <<"tf", 0>> \/ c = <<"root", 0>>
                       \/ \E n \in Nodes : c = <<"node", n>>
                       \/ \E a \in UserVA : c = <<"leaf", a>>
  BY DEF Cell

\* The page in each cell.
LEMMA HeldAt ==
    ASSUME NEW tf, NEW pt
    PROVE  /\ Held(tf, pt)[<<"tf", 0>>] = tf /\ Held(tf, pt)[<<"root", 0>>] = pt.root
           /\ \A n \in Nodes : Held(tf, pt)[<<"node", n>>] = pt.node[n]
           /\ \A a \in UserVA : Held(tf, pt)[<<"leaf", a>>] = pt.leaf[a].pa
  BY CellCases DEF Held

\* A function on cells is a table's if it has the table's pages.
LEMMA HeldIs ==
    ASSUME NEW tf, NEW pt, NEW R, NEW h \in [Cell -> R],
           h[<<"tf", 0>>] = tf, h[<<"root", 0>>] = pt.root,
           \A n \in Nodes : h[<<"node", n>>] = pt.node[n],
           \A a \in UserVA : h[<<"leaf", a>>] = pt.leaf[a].pa
    PROVE  Held(tf, pt) = h
  <1>1. \A c \in Cell : Held(tf, pt)[c] = h[c] BY CellCases, HeldAt
  <1>2. Held(tf, pt) = [c \in Cell |-> Held(tf, pt)[c]] BY DEF Held
  <1> QED BY <1>1, <1>2

\* An empty table has no pages.
LEMMA NoTableOK ==
    /\ TableOK(NoTable) /\ NoLeaf \in Leaf /\ NoTable \in Table
    /\ \A a \in VA : NoTable.leaf[a] = NoLeaf
    /\ \A c \in Cell : Held(0, NoTable)[c] = 0
  <1>1. NoLeaf \in Leaf BY PageRange DEF NoLeaf, Leaf
  <1>2. NoTable \in Table BY <1>1, PageRange DEF NoTable, Table
  <1>3. \A a \in VA : NoTable.leaf[a] = NoLeaf /\ ~NoTable.leaf[a].v BY DEF NoTable, NoLeaf
  <1>4. TableOK(NoTable) BY <1>2, <1>3, Addresses DEF TableOK
  <1>5. \A c \in Cell : Held(0, NoTable)[c] = 0
    <2>1. NoTable.root = 0 /\ \A n \in Nodes : NoTable.node[n] = 0 BY DEF NoTable
    <2>2. \A a \in UserVA : NoTable.leaf[a].pa = 0 BY <1>3, Addresses DEF NoLeaf
    <2> QED BY <2>1, <2>2, CellCases, HeldAt
  <1> QED BY <1>1, <1>2, <1>3, <1>4, <1>5

\* Every page on the free list, and no table.
LEMMA EmptySplit == Split(Page, Held(0, NoTable), {})
  <1>1. Held(0, NoTable) \in [Cell -> 0 .. NPAGE] BY NoTableOK, PageRange, HeldType
  <1> QED BY <1>1, NoTableOK, PageRange DEF Split

\* kalloc() takes a page off the free list, if there is one.
LEMMA KallocSpec ==
    ASSUME NEW m, NEW tf, NEW X, Accounted(m, tf, X), m.ok
    PROVE  LET k == Kalloc(m) IN
           /\ k.pt = m.pt /\ k.panic = m.panic /\ k \in MemRec
           /\ ~k.ok => Accounted(k, tf, X)
           /\ k.ok => k.got \in Page /\ k.got \notin X /\ Accounted(k, tf, X \cup {k.got})
  <1> DEFINE k == Kalloc(m)
             pa == CHOOSE b \in m.free : \A c \in m.free : b <= c
  <1>1. m \in MemRec /\ m.free \subseteq Page BY DEF Accounted, MemRec
  <1>2. CASE m.free = {}
    <2>1. k = [m EXCEPT !.ok = FALSE] BY <1>2 DEF Kalloc
    <2>2. k \in MemRec /\ k.pt = m.pt /\ k.free = m.free /\ k.panic = m.panic /\ ~k.ok
      BY <1>1, <2>1 DEF MemRec
    <2> QED BY <2>2 DEF Accounted
  <1>3. CASE m.free # {}
    <2>1. pa \in m.free
      <3>1. m.free \subseteq Nat BY <1>1 DEF Page
      <3>2. \E b \in m.free : \A c \in m.free : b <= c BY <1>3, <3>1, LeastNatural
      <3> QED BY <3>2
    <2>2. k = [m EXCEPT !.free = @ \ {pa}, !.got = pa] BY <1>3 DEF Kalloc
    <2> HIDE DEF pa
    <2>3. pa \in 0 .. NPAGE /\ pa \in Page BY <1>1, <2>1, PageRange
    <2>4. /\ k \in MemRec /\ k.pt = m.pt /\ k.free = m.free \ {pa} /\ k.panic = m.panic
          /\ k.ok = m.ok /\ k.got = pa
      BY <1>1, <2>2, <2>3 DEF MemRec
    <2> HIDE DEF k
    <2>5. Split(m.free \ {pa}, Held(tf, m.pt), X \cup {pa})
      BY <2>1, SplitAlloc DEF Accounted
    <2>6. pa \notin X BY <2>1 DEF Accounted, Split
    <2>7. Accounted(k, tf, X \cup {pa}) BY <2>4, <2>5 DEF Accounted
    <2> QED BY <2>3, <2>4, <2>6, <2>7 DEF k
  <1> QED BY <1>2, <1>3

\* kfree() of pages that are taken.
LEMMA KfreeSpec ==
    ASSUME NEW m, NEW tf, NEW X, NEW B, Accounted(m, tf, X), B \subseteq X
    PROVE  LET k == Kfree(m, B) IN
           /\ k.pt = m.pt /\ k.panic = m.panic /\ k.ok = m.ok /\ k.got = m.got
           /\ Accounted(k, tf, X \ B)
  <1> DEFINE k == Kfree(m, B)
  <1>1. m \in MemRec /\ B \subseteq Page BY DEF Accounted, Split
  <1>2. /\ k.pt = m.pt /\ k.panic = m.panic /\ k.ok = m.ok /\ k.got = m.got
        /\ k.free = m.free \cup B /\ k \in MemRec
    BY <1>1 DEF Kfree, MemRec
  <1>3. Split(m.free \cup B, Held(tf, m.pt), X \ B)
    <2>1. Split(m.free, Held(tf, m.pt), X) BY DEF Accounted
    <2> QED BY <2>1, SplitFree
  <1> HIDE DEF k
  <1>4. Accounted(k, tf, X \ B) BY <1>2, <1>3 DEF Accounted
  <1> QED BY <1>2, <1>4 DEF k

\* A page-table page that is hung into the table.
LEMMA AttachSpec ==
    ASSUME NEW k, NEW tf, NEW X, NEW n \in Nodes, NEW b \in Page, k.ok, k.got = b, b \notin X,
           Accounted(k, tf, X \cup {b}), k.pt.node[n] = 0
    PROVE  LET r == Attach(k, n) IN
           /\ Accounted(r, tf, X) /\ r.panic = k.panic /\ r.ok /\ r.pt.leaf = k.pt.leaf
           /\ r.pt.node[n] # 0 /\ \A x \in Nodes : k.pt.node[x] # 0 => r.pt.node[x] # 0
           /\ r.pt.root = k.pt.root
  <1> DEFINE r == Attach(k, n)
             pt == [k.pt EXCEPT !.node[n] = b]
  <1>1. k \in MemRec /\ k.pt \in Table /\ b \in 0 .. NPAGE /\ b # 0
    BY PageRange DEF Accounted, MemRec
  <1>2. /\ pt \in Table /\ pt.root = k.pt.root /\ pt.leaf = k.pt.leaf
        /\ pt.node = [k.pt.node EXCEPT ![n] = b]
    BY <1>1 DEF Table
  <1>3. r = [k EXCEPT !.pt.node[n] = b] BY DEF Attach
  <1>4. /\ r \in MemRec /\ r.pt = pt /\ r.free = k.free /\ r.panic = k.panic /\ r.ok = k.ok
    BY <1>1, <1>2, <1>3 DEF MemRec
  <1> HIDE DEF r, pt
  <1>5. TableOK(pt)
    <2>1. TableOK(k.pt) BY DEF Accounted
    <2>2. \A x : k.pt.node[x] # 0 /\ x \in Nodes => pt.node[x] # 0 BY <1>1, <1>2 DEF Table
    <2> QED BY <1>2, <2>1, <2>2, WayNodes DEF TableOK, Hung
  <1> DEFINE h == Held(tf, k.pt)
             g == [h EXCEPT ![<<"node", n>>] = b]
  <1>6. h \in [Cell -> 0 .. NPAGE] BY DEF Accounted, Split
  <1>7. <<"node", n>> \in Cell /\ h[<<"node", n>>] = 0 BY CellCases, HeldAt
  <1>8. Split(k.free, g, X)
    <2>1. Split(k.free, h, X \cup {b}) BY DEF Accounted
    <2> HIDE DEF h
    <2> QED BY <1>7, <2>1, SplitPlace
  <1>9. Held(tf, pt) = g
    <2>1. g \in [Cell -> 0 .. NPAGE] BY <1>1, <1>6
    <2>2. g[<<"node", n>>] = b /\ \A c \in Cell : c # <<"node", n>> => g[c] = h[c]
      BY <1>6, <1>7
    <2>3. /\ h[<<"tf", 0>>] = tf /\ h[<<"root", 0>>] = k.pt.root
          /\ \A x \in Nodes : h[<<"node", x>>] = k.pt.node[x]
          /\ \A a \in UserVA : h[<<"leaf", a>>] = k.pt.leaf[a].pa
      BY HeldAt
    <2> HIDE DEF g, h
    <2>4. g[<<"tf", 0>>] = tf /\ g[<<"root", 0>>] = pt.root BY <1>2, <2>2, <2>3, CellCases
    <2>5. \A x \in Nodes : g[<<"node", x>>] = pt.node[x]
      <3>1. \A x \in Nodes : pt.node[x] = IF x = n THEN b ELSE k.pt.node[x]
        BY <1>1, <1>2 DEF Table
      <3>2. \A x \in Nodes : x # n => <<"node", x>> # <<"node", n>> OBVIOUS
      <3> QED BY <2>2, <2>3, <3>1, <3>2, CellCases
    <2>6. \A a \in UserVA : g[<<"leaf", a>>] = pt.leaf[a].pa
      <3>1. \A a \in UserVA : <<"leaf", a>> # <<"node", n>> OBVIOUS
      <3> QED BY <1>2, <2>2, <2>3, <3>1, CellCases
    <2> QED BY <2>1, <2>4, <2>5, <2>6, HeldIs
  <1> HIDE DEF g, h
  <1>10. Accounted(r, tf, X) BY <1>4, <1>5, <1>8, <1>9 DEF Accounted
  <1>11. pt.node[n] # 0 /\ \A x \in Nodes : k.pt.node[x] # 0 => pt.node[x] # 0
    BY <1>1, <1>2 DEF Table
  <1> QED BY <1>2, <1>4, <1>10, <1>11 DEF r

\* One level of walk().
LEMMA LevelSpec ==
    ASSUME NEW m, NEW tf, NEW X, Accounted(m, tf, X), NEW n \in Nodes
    PROVE  LET r == Level(m, n) IN
           /\ Accounted(r, tf, X) /\ r.panic = m.panic /\ r.pt.leaf = m.pt.leaf
           /\ r.pt.root = m.pt.root
           /\ r.ok => m.ok /\ r.pt.node[n] # 0
           /\ \A x \in Nodes : m.pt.node[x] # 0 => r.pt.node[x] # 0
  <1> DEFINE r == Level(m, n)
             k == Kalloc(m)
  <1>1. CASE ~m.ok \/ m.pt.node[n] # 0
    <2>1. r = m BY <1>1 DEF Level
    <2> QED BY <1>1, <2>1
  <1>2. CASE m.ok /\ m.pt.node[n] = 0
    <2>1. r = Attach(k, n) BY <1>2 DEF Level
    <2>2. /\ k.pt = m.pt /\ k.panic = m.panic
          /\ ~k.ok => Accounted(k, tf, X)
          /\ k.ok => k.got \in Page /\ k.got \notin X /\ Accounted(k, tf, X \cup {k.got})
      BY <1>2, KallocSpec
    <2> HIDE DEF k, r
    <2>3. CASE ~k.ok
      <3>1. r = k BY <2>1, <2>3 DEF Attach
      <3> QED BY <2>2, <2>3, <3>1 DEF r
    <2>4. CASE k.ok
      <3>1. /\ Accounted(r, tf, X) /\ r.panic = k.panic /\ r.ok /\ r.pt.leaf = k.pt.leaf
            /\ r.pt.node[n] # 0 /\ \A x \in Nodes : k.pt.node[x] # 0 => r.pt.node[x] # 0
            /\ r.pt.root = k.pt.root
        <4>1. k.pt.node[n] = 0 BY <1>2, <2>2
        <4> DEFINE q == Attach(k, n)
                   b == k.got
        <4>2. b \in Page /\ b \notin X /\ Accounted(k, tf, X \cup {b}) /\ k.got = b
          BY <2>2, <2>4
        <4> HIDE DEF b
        <4>3. /\ Accounted(q, tf, X) /\ q.panic = k.panic /\ q.ok /\ q.pt.leaf = k.pt.leaf
              /\ q.pt.node[n] # 0 /\ \A x \in Nodes : k.pt.node[x] # 0 => q.pt.node[x] # 0
              /\ q.pt.root = k.pt.root
          BY <2>4, <4>1, <4>2, AttachSpec
        <4> HIDE DEF q
        <4> QED BY <2>1, <4>2, <4>3 DEF q
      <3> QED BY <1>2, <2>2, <3>1 DEF r
    <2> QED BY <2>3, <2>4
  <1> QED BY <1>1, <1>2

\* walk() with alloc: an entry for the page, or no memory for one.
LEMMA WalkSpec ==
    ASSUME NEW m, NEW tf, NEW X, Accounted(m, tf, X), NEW a \in VA
    PROVE  LET r == Walk(m, a) IN
           /\ Accounted(r, tf, X) /\ r.panic = m.panic /\ r.pt.leaf = m.pt.leaf
           /\ r.ok => m.ok /\ Hung(r.pt, a)
  <1> DEFINE n1 == <<1, a \div (FAN * FAN)>>
             n0 == <<0, a \div FAN>>
             k == Level(m, n1)
             r == Level(k, n0)
  <1>1. n1 \in Nodes /\ n0 \in Nodes BY WayNodes
  <1> HIDE DEF n1, n0
  <1>2. Accounted(k, tf, X) /\ k.panic = m.panic /\ k.pt.leaf = m.pt.leaf /\ (k.ok => m.ok)
    BY <1>1, LevelSpec
  <1> HIDE DEF k
  <1>3. /\ Accounted(r, tf, X) /\ r.panic = k.panic /\ r.pt.leaf = k.pt.leaf
        /\ (r.ok => k.ok /\ r.pt.node[n0] # 0)
    BY <1>1, <1>2, LevelSpec
  <1> HIDE DEF r
  <1> QED BY <1>2, <1>3 DEF Walk, Hung, n0, n1, k, r

\* A leaf that is written where nothing was mapped; what it maps is the page it needs, of X.
LEMMA SetLeafSpec ==
    ASSUME NEW k, NEW tf, NEW X, NEW a \in VA, NEW l \in Leaf, NEW Z, k.ok,
           Accounted(k, tf, X), ~k.pt.leaf[a].v, Hung(k.pt, a), l.v,
           a \in UserVA => l.pa \in Page /\ l.pa \notin Z /\ X = Z \cup {l.pa},
           a \notin UserVA => X = Z
    PROVE  LET r == SetLeaf(k, a, l) IN
           /\ Accounted(r, tf, Z) /\ r.panic = k.panic /\ r.ok
           /\ r.pt.leaf = [k.pt.leaf EXCEPT ![a] = l]
  <1> DEFINE r == SetLeaf(k, a, l)
             pt == [k.pt EXCEPT !.leaf[a] = l]
             h == Held(tf, k.pt)
             g == [h EXCEPT ![<<"leaf", a>>] = l.pa]
  <1>1. /\ k \in MemRec /\ k.pt \in Table /\ TableOK(k.pt) /\ tf \in 0 .. NPAGE
        /\ k.pt.leaf \in [VA -> Leaf] /\ k.panic \in BOOLEAN
    BY DEF Accounted, MemRec, Table
  <1>2. /\ pt \in Table /\ pt.root = k.pt.root /\ pt.node = k.pt.node
        /\ pt.leaf = [k.pt.leaf EXCEPT ![a] = l]
    BY <1>1 DEF Table
  <1>3. r = [k EXCEPT !.pt = pt, !.panic = @ \/ FALSE]
    BY DEF SetLeaf
  <1>4. /\ r \in MemRec /\ r.pt = pt /\ r.free = k.free /\ r.panic = k.panic /\ r.ok = k.ok
    <2> HIDE DEF pt
    <2>1. r = [k EXCEPT !.pt = pt, !.panic = k.panic] BY <1>1, <1>3
    <2> QED BY <1>1, <1>2, <2>1 DEF MemRec
  <1> HIDE DEF r, pt
  <1>5. \A x \in VA : pt.leaf[x] = IF x = a THEN l ELSE k.pt.leaf[x] BY <1>1, <1>2
  <1>6. TableOK(pt)
    <2>1. a \in UserVA => l.pa # 0 BY PageRange
    <2>2. \A x \in VA : Hung(pt, x) <=> Hung(k.pt, x) BY <1>2 DEF Hung
    <2> QED BY <1>1, <1>2, <1>5, <2>1, <2>2, Addresses DEF TableOK
  <1>7. h \in [Cell -> 0 .. NPAGE] /\ Split(k.free, h, X) BY DEF Accounted, Split
  <1>8. /\ h[<<"tf", 0>>] = tf /\ h[<<"root", 0>>] = pt.root
        /\ \A n \in Nodes : h[<<"node", n>>] = pt.node[n]
        /\ \A x \in UserVA : h[<<"leaf", x>>] = k.pt.leaf[x].pa
    BY <1>2, HeldAt
  <1> HIDE DEF h, g
  <1>9. Split(k.free, Held(tf, pt), Z)
    <2>1. CASE a \in UserVA
      <3>1. <<"leaf", a>> \in Cell /\ h[<<"leaf", a>>] = 0
        BY <1>1, <1>8, <2>1, CellCases DEF TableOK, NoLeaf
      <3>2. Split(k.free, g, Z) BY <1>7, <2>1, <3>1, SplitPlace DEF g
      <3>3. g \in [Cell -> 0 .. NPAGE] BY <3>2 DEF Split
      <3>4. g[<<"leaf", a>>] = l.pa /\ \A c \in Cell : c # <<"leaf", a>> => g[c] = h[c]
        BY <1>7, <3>1 DEF g
      <3>5. g[<<"tf", 0>>] = tf /\ g[<<"root", 0>>] = pt.root BY <1>8, <3>4, CellCases
      <3>6. \A n \in Nodes : g[<<"node", n>>] = pt.node[n]
        <4>1. \A n \in Nodes : <<"node", n>> # <<"leaf", a>> OBVIOUS
        <4> QED BY <1>8, <3>4, <4>1, CellCases
      <3>7. \A x \in UserVA : g[<<"leaf", x>>] = pt.leaf[x].pa
        <4>1. \A x \in UserVA : x # a => <<"leaf", x>> # <<"leaf", a>> OBVIOUS
        <4> QED BY <1>5, <1>8, <3>4, <4>1, CellCases, Addresses
      <3>8. Held(tf, pt) = g BY <3>3, <3>5, <3>6, <3>7, HeldIs
      <3> QED BY <3>2, <3>8
    <2>2. CASE a \notin UserVA
      <3>1. \A x \in UserVA : h[<<"leaf", x>>] = pt.leaf[x].pa
        BY <1>5, <1>8, <2>2, Addresses
      <3>2. Held(tf, pt) = h BY <1>7, <1>8, <3>1, HeldIs
      <3> QED BY <1>7, <2>2, <3>2
    <2> QED BY <2>1, <2>2
  <1>10. Accounted(r, tf, Z) BY <1>1, <1>4, <1>6, <1>9 DEF Accounted
  <1> QED BY <1>2, <1>4, <1>10 DEF r

\* The entries above user memory.
TopLeaf(pa, w) == [pa |-> pa, v |-> TRUE, u |-> FALSE, w |-> w]

\* r is m with leaf l at a, or without memory for it.
Extended(m, r, a, l) == /\ r.ok => m.ok /\ r.pt.leaf = [m.pt.leaf EXCEPT ![a] = l]
                        /\ ~r.ok => r.pt.leaf = m.pt.leaf

\* Another page's mapping, in the entries above user memory.
LEMMA MapTopSpec ==
    ASSUME NEW m, NEW tf, NEW X, Accounted(m, tf, X), NEW a \in VA, a \notin UserVA,
           ~m.pt.leaf[a].v, NEW pa \in 0 .. NPAGE, NEW w \in BOOLEAN
    PROVE  LET r == Mappages(m, a, pa, FALSE, w) IN
           Accounted(r, tf, X) /\ r.panic = m.panic /\ Extended(m, r, a, TopLeaf(pa, w))
  <1> DEFINE k == Walk(m, a)
             l == TopLeaf(pa, w)
             r == SetLeaf(k, a, l)
  <1>1. /\ Accounted(k, tf, X) /\ k.panic = m.panic /\ k.pt.leaf = m.pt.leaf
        /\ (k.ok => m.ok /\ Hung(k.pt, a))
    BY WalkSpec
  <1>2. l \in Leaf /\ l.v BY DEF Leaf, TopLeaf
  <1> HIDE DEF k, l
  <1>3. CASE ~k.ok
    <2>1. r = k BY <1>3 DEF SetLeaf
    <2> QED BY <1>1, <1>3, <2>1 DEF Mappages, Extended, TopLeaf, k, l
  <1>4. CASE k.ok
    <2>1. ~k.pt.leaf[a].v BY <1>1
    <2>2. /\ Accounted(r, tf, X) /\ r.panic = k.panic /\ r.ok
          /\ r.pt.leaf = [k.pt.leaf EXCEPT ![a] = l]
      BY <1>1, <1>2, <1>4, <2>1, SetLeafSpec
    <2> HIDE DEF r
    <2> QED BY <1>1, <1>4, <2>2 DEF Mappages, Extended, TopLeaf, k, l, r
  <1> QED BY <1>3, <1>4

\* Leaves that differ at most in S.
SameBut(old, new, S) == \A a \in VA : a \notin S => new[a] = old[a]

\* r is m with a page at a, or without memory for it.
Paged(m, r, a, u, w) ==
    /\ SameBut(m.pt.leaf, r.pt.leaf, {a})
    /\ r.ok => m.ok /\ r.pt.leaf[a].v /\ r.pt.leaf[a].u = u /\ r.pt.leaf[a].w = w
    /\ ~r.ok => r.pt.leaf = m.pt.leaf

\* A new user page, or nothing if some page is not to be had.
LEMMA UserPageSpec ==
    ASSUME NEW m, NEW tf, NEW X, Accounted(m, tf, X), NEW a \in UserVA, ~m.pt.leaf[a].v,
           NEW u \in BOOLEAN, NEW w \in BOOLEAN
    PROVE  LET r == UserPage(m, a, u, w) IN
           Accounted(r, tf, X) /\ r.panic = m.panic /\ Paged(m, r, a, u, w)
  <1> DEFINE r == UserPage(m, a, u, w)
             k == Kalloc(m)
             b == k.got
             l == [pa |-> b, v |-> TRUE, u |-> u, w |-> w]
             t == Walk(k, a)
             s == SetLeaf(t, a, l)
  <1>0. a \in VA BY Addresses
  <1>1. CASE ~m.ok
    <2>1. r = m BY <1>1 DEF UserPage
    <2> QED BY <1>1, <2>1 DEF Paged, SameBut
  <1>2. CASE m.ok
    <2>1. /\ k.pt = m.pt /\ k.panic = m.panic
          /\ ~k.ok => Accounted(k, tf, X)
          /\ k.ok => b \in Page /\ b \notin X /\ Accounted(k, tf, X \cup {b})
      BY <1>2, KallocSpec
    <2>2. r = MapNew(k, a, u, w) BY <1>2 DEF UserPage
    <2> HIDE DEF k, r
    <2>3. CASE ~k.ok
      <3>1. r = k BY <2>2, <2>3 DEF MapNew
      <3> QED BY <2>1, <2>3, <3>1 DEF r, Paged, SameBut
    <2>4. CASE k.ok
      <3>1. /\ Accounted(t, tf, X \cup {b}) /\ t.panic = k.panic /\ t.pt.leaf = k.pt.leaf
            /\ (t.ok => Hung(t.pt, a))
        BY <1>0, <2>1, <2>4, WalkSpec
      <3>2. r = OrKfree(s, b) BY <2>2, <2>4 DEF MapNew, Mappages
      <3>3. l \in Leaf /\ l.v /\ l.pa = b /\ l.u = u /\ l.w = w
        BY <2>1, <2>4, PageRange DEF Leaf
      <3> HIDE DEF t, b, l
      <3>4. CASE ~t.ok
        <4>1. s = t BY <3>4 DEF SetLeaf
        <4>2. r = Kfree(t, {b}) BY <3>2, <3>4, <4>1 DEF OrKfree
        <4>3. /\ r.pt = t.pt /\ r.panic = t.panic /\ r.ok = t.ok
              /\ Accounted(r, tf, (X \cup {b}) \ {b})
          <5>1. {b} \subseteq X \cup {b} OBVIOUS
          <5> DEFINE q == Kfree(t, {b})
          <5>2. /\ q.pt = t.pt /\ q.panic = t.panic /\ q.ok = t.ok
                /\ Accounted(q, tf, (X \cup {b}) \ {b})
            BY <3>1, <5>1, KfreeSpec
          <5> HIDE DEF q
          <5> QED BY <4>2, <5>2 DEF q
        <4>4. (X \cup {b}) \ {b} = X BY <2>1, <2>4
        <4> QED BY <2>1, <3>1, <3>4, <4>3, <4>4 DEF r, Paged, SameBut
      <3>5. CASE t.ok
        <4>1. ~t.pt.leaf[a].v BY <2>1, <3>1
        <4>2. /\ Accounted(s, tf, X) /\ s.panic = t.panic /\ s.ok
              /\ s.pt.leaf = [t.pt.leaf EXCEPT ![a] = l]
          BY <1>0, <2>1, <2>4, <3>1, <3>3, <3>5, <4>1, SetLeafSpec
        <4> HIDE DEF s
        <4>3. r = s BY <3>2, <4>2 DEF OrKfree
        <4>4. t.pt.leaf \in [VA -> Leaf] BY <3>1 DEF Accounted, MemRec, Table
        <4>5. s.pt.leaf[a] = l /\ \A x \in VA : x # a => s.pt.leaf[x] = m.pt.leaf[x]
          BY <1>0, <2>1, <3>1, <4>2, <4>4
        <4> QED BY <1>2, <2>1, <3>1, <3>3, <4>2, <4>3, <4>5 DEF r, Paged, SameBut
      <3> QED BY <3>4, <3>5
    <2> QED BY <2>3, <2>4
  <1> QED BY <1>1, <1>2

\* The pairs with a given first.
LEMMA PairOf ==
    ASSUME NEW x, NEW S, NEW c \in {x} \X S
    PROVE  c[2] \in S /\ c = <<x, c[2]>>
  OBVIOUS

\* What one operation leaves: the flags and the pages accounted for.
LEMMA OkSpec ==
    ASSUME NEW m, NEW tf, NEW X, Accounted(m, tf, X), NEW o \in BOOLEAN
    PROVE  LET r == [m EXCEPT !.ok = o] IN
           Accounted(r, tf, X) /\ r.panic = m.panic /\ r.pt = m.pt /\ r.ok = o /\ r.free = m.free
  <1> DEFINE r == [m EXCEPT !.ok = o]
  <1>1. m \in MemRec BY DEF Accounted
  <1>2. r \in MemRec /\ r.panic = m.panic /\ r.pt = m.pt /\ r.ok = o /\ r.free = m.free
    BY <1>1 DEF MemRec
  <1> HIDE DEF r
  <1>3. Accounted(r, tf, X) BY <1>2 DEF Accounted
  <1> QED BY <1>2, <1>3 DEF r

\* A table without the leaves of some pages.
LEMMA FewerLeaves ==
    ASSUME NEW pt, TableOK(pt), NEW as, NEW q \in Table, q.node = pt.node,
           \A a \in VA : q.leaf[a] = NoLeaf \/ q.leaf[a] = pt.leaf[a]
    PROVE  TableOK(q)
  <1>1. ~NoLeaf.v BY DEF NoLeaf
  <1>2. \A a \in VA : q.leaf[a].v => q.leaf[a] = pt.leaf[a] BY <1>1
  <1>3. \A a \in VA : ~q.leaf[a].v => q.leaf[a] = NoLeaf BY DEF TableOK
  <1>4. \A a \in VA : Hung(q, a) <=> Hung(pt, a) BY DEF Hung
  <1>5. UserVA \subseteq VA BY Addresses
  <1> QED BY <1>2, <1>3, <1>4, <1>5 DEF TableOK

\* Leaves without those of some pages.
Cleared(old, new, as) == \A a \in VA : /\ a \in as => new[a] = NoLeaf
                                       /\ a \notin as => new[a] = old[a]

\* uvmunmap() of user pages gives them back.
LEMMA UnmapUserSpec ==
    ASSUME NEW m, NEW tf, NEW X, Accounted(m, tf, X), NEW as, as \subseteq UserVA
    PROVE  LET r == Uvmunmap(m, as, TRUE) IN
           /\ Accounted(r, tf, X) /\ r.panic = m.panic /\ r.ok = m.ok
           /\ Cleared(m.pt.leaf, r.pt.leaf, as)
  <1> DEFINE r == Uvmunmap(m, as, TRUE)
             f == [a \in VA |-> IF a \in as THEN NoLeaf ELSE m.pt.leaf[a]]
             q == [m.pt EXCEPT !.leaf = f]
             B == {m.pt.leaf[a].pa : a \in Mapped(m, as)}
             C == {"leaf"} \X as
             h == Held(tf, m.pt)
             g == [c \in Cell |-> IF c \in C THEN 0 ELSE h[c]]
  <1>1. m \in MemRec /\ TableOK(m.pt) /\ tf \in 0 .. NPAGE BY DEF Accounted
  <1>2. /\ TableOK(q) /\ q.root = m.pt.root /\ q.node = m.pt.node
        /\ \A a \in VA : /\ a \in as => q.leaf[a] = NoLeaf
                         /\ a \notin as => q.leaf[a] = m.pt.leaf[a]
    <2>1. m.pt \in Table /\ \A a \in VA : m.pt.leaf[a] \in Leaf BY <1>1 DEF TableOK, Table
    <2>2. f \in [VA -> Leaf] BY <2>1, NoTableOK
    <2>3. \A a \in VA : /\ a \in as => f[a] = NoLeaf
                        /\ a \notin as => f[a] = m.pt.leaf[a]
      OBVIOUS
    <2> HIDE DEF f
    <2>4. q \in Table /\ q.root = m.pt.root /\ q.node = m.pt.node /\ q.leaf = f
      BY <2>1, <2>2 DEF Table
    <2> HIDE DEF q
    <2>5. \A a \in VA : q.leaf[a] = NoLeaf \/ q.leaf[a] = m.pt.leaf[a] BY <2>3, <2>4
    <2>6. TableOK(q) BY <1>1, <2>4, <2>5, FewerLeaves
    <2> QED BY <2>3, <2>4, <2>6
  <1>3. Split(m.free, h, X) BY DEF Accounted
  <1>4. C \subseteq Cell BY DEF Cell
  <1>5. Split(m.free \cup ({h[c] : c \in C} \ {0}), g, X)
    <2> HIDE DEF h, C
    <2> QED BY <1>3, <1>4, SplitDrop
  <1>a. /\ h[<<"tf", 0>>] = tf /\ h[<<"root", 0>>] = m.pt.root
        /\ \A n \in Nodes : h[<<"node", n>>] = m.pt.node[n]
        /\ \A a \in UserVA : h[<<"leaf", a>>] = m.pt.leaf[a].pa
    BY HeldAt
  <1> HIDE DEF h
  <1>6. \A a \in as : h[<<"leaf", a>>] = m.pt.leaf[a].pa BY <1>a
  <1>7. \A a \in as : m.pt.leaf[a].v <=> m.pt.leaf[a].pa # 0
    <2>1. \A a \in as : a \in VA /\ a \in UserVA BY Addresses
    <2>2. NoLeaf.pa = 0 BY DEF NoLeaf
    <2> QED BY <1>1, <2>1, <2>2 DEF TableOK
  <1>8. {h[c] : c \in C} \ {0} = B
    <2>1. \A a \in as : <<"leaf", a>> \in C OBVIOUS
    <2>2. \A c \in C : c[2] \in as /\ c = <<"leaf", c[2]>> BY PairOf
    <2> HIDE DEF C
    <2>3. \A b \in B : \E a \in as : m.pt.leaf[a].v /\ b = m.pt.leaf[a].pa BY DEF Mapped
    <2>4. \A a \in as : m.pt.leaf[a].v => m.pt.leaf[a].pa \in B BY DEF Mapped
    <2> HIDE DEF B
    <2>5. ASSUME NEW b \in B PROVE b \in {h[c] : c \in C} \ {0}
      <3>1. PICK a \in as : m.pt.leaf[a].v /\ b = m.pt.leaf[a].pa BY <2>3
      <3>2. b # 0 /\ b = h[<<"leaf", a>>] BY <1>6, <1>7, <3>1
      <3> QED BY <2>1, <3>2
    <2>6. ASSUME NEW c \in C, h[c] # 0 PROVE h[c] \in B
      <3>1. c[2] \in as /\ h[c] = m.pt.leaf[c[2]].pa BY <1>6, <2>2
      <3> QED BY <1>7, <2>4, <2>6, <3>1
    <2> QED BY <2>5, <2>6
  <1>9. Held(tf, q) = g
    <2> HIDE DEF q
    <2>1. g \in [Cell -> 0 .. NPAGE] BY <1>5 DEF Split
    <2>2. \A c \in Cell : g[c] = IF c \in C THEN 0 ELSE h[c] OBVIOUS
    <2> HIDE DEF g
    <2>3. g[<<"tf", 0>>] = tf /\ g[<<"root", 0>>] = q.root
      BY <1>2, <1>a, <2>2, CellCases
    <2>4. \A n \in Nodes : g[<<"node", n>>] = q.node[n]
      <3>1. \A n \in Nodes : <<"node", n>> \notin C OBVIOUS
      <3> QED BY <1>2, <1>a, <2>2, <3>1, CellCases
    <2>5. \A a \in UserVA : g[<<"leaf", a>>] = q.leaf[a].pa
      <3>1. \A a \in UserVA : <<"leaf", a>> \in C <=> a \in as OBVIOUS
      <3>2. UserVA \subseteq VA /\ NoLeaf.pa = 0 BY Addresses DEF NoLeaf
      <3>3. ASSUME NEW a \in UserVA PROVE g[<<"leaf", a>>] = q.leaf[a].pa
        <4>1. <<"leaf", a>> \in Cell /\ a \in VA BY <3>2, CellCases
        <4>2. CASE a \in as
          <5>1. q.leaf[a] = NoLeaf BY <1>2, <4>1, <4>2
          <5>2. <<"leaf", a>> \in C BY <3>1, <4>2
          <5>3. g[<<"leaf", a>>] = 0
            <6> HIDE DEF C
            <6> QED BY <2>2, <4>1, <5>2
          <5> QED BY <3>2, <5>1, <5>3
        <4>3. CASE a \notin as
          <5>1. q.leaf[a] = m.pt.leaf[a] BY <1>2, <4>1, <4>3
          <5>2. g[<<"leaf", a>>] = h[<<"leaf", a>>] BY <2>2, <3>1, <4>1, <4>3
          <5> QED BY <1>a, <5>1, <5>2
        <4> QED BY <4>2, <4>3
      <3> QED BY <3>3
    <2> QED BY <2>1, <2>3, <2>4, <2>5, HeldIs
  <1>10. q \in Table /\ m.free \cup B \subseteq Page BY <1>2, <1>5, <1>8 DEF TableOK, Split
  <1>11. r = [m EXCEPT !.free = m.free \cup B, !.pt = q]
    <2> HIDE DEF B, f
    <2> QED BY <1>1 DEF Uvmunmap, Kfree, MemRec, B, f
  <1> HIDE DEF q, B, g, h, f
  <1>12. /\ r \in MemRec /\ r.pt = q /\ r.free = m.free \cup B /\ r.panic = m.panic
         /\ r.ok = m.ok
    BY <1>1, <1>10, <1>11 DEF MemRec
  <1> HIDE DEF r
  <1>13. Accounted(r, tf, X) BY <1>1, <1>2, <1>5, <1>8, <1>9, <1>12 DEF Accounted
  <1> QED BY <1>2, <1>12, <1>13 DEF r, Cleared

\* uvmunmap() of the trampoline or the trapframe frees nothing.
LEMMA UnmapTopSpec ==
    ASSUME NEW m, NEW tf, NEW X, Accounted(m, tf, X), NEW as, as \cap UserVA = {}
    PROVE  LET r == Uvmunmap(m, as, FALSE) IN
           /\ Accounted(r, tf, X) /\ r.panic = m.panic /\ r.ok = m.ok
           /\ Cleared(m.pt.leaf, r.pt.leaf, as)
  <1> DEFINE r == Uvmunmap(m, as, FALSE)
             f == [a \in VA |-> IF a \in as THEN NoLeaf ELSE m.pt.leaf[a]]
             q == [m.pt EXCEPT !.leaf = f]
             h == Held(tf, m.pt)
  <1>1. m \in MemRec /\ TableOK(m.pt) /\ tf \in 0 .. NPAGE BY DEF Accounted
  <1>2. /\ TableOK(q) /\ q.root = m.pt.root /\ q.node = m.pt.node
        /\ \A a \in VA : /\ a \in as => q.leaf[a] = NoLeaf
                         /\ a \notin as => q.leaf[a] = m.pt.leaf[a]
    <2>1. m.pt \in Table /\ \A a \in VA : m.pt.leaf[a] \in Leaf BY <1>1 DEF TableOK, Table
    <2>2. f \in [VA -> Leaf] BY <2>1, NoTableOK
    <2>3. \A a \in VA : /\ a \in as => f[a] = NoLeaf
                        /\ a \notin as => f[a] = m.pt.leaf[a]
      OBVIOUS
    <2> HIDE DEF f
    <2>4. q \in Table /\ q.root = m.pt.root /\ q.node = m.pt.node /\ q.leaf = f
      BY <2>1, <2>2 DEF Table
    <2> HIDE DEF q
    <2>5. \A a \in VA : q.leaf[a] = NoLeaf \/ q.leaf[a] = m.pt.leaf[a] BY <2>3, <2>4
    <2>6. TableOK(q) BY <1>1, <2>4, <2>5, FewerLeaves
    <2> QED BY <2>3, <2>4, <2>6
  <1>3. Split(m.free, h, X) /\ h \in [Cell -> 0 .. NPAGE] BY DEF Accounted, Split
  <1>4. r = [m EXCEPT !.pt = q]
    <2> HIDE DEF f
    <2> QED BY <1>1 DEF Uvmunmap, MemRec, f
  <1> HIDE DEF q, f
  <1>5. \A a \in UserVA : q.leaf[a] = m.pt.leaf[a] BY <1>2, Addresses
  <1>6. Held(tf, q) = h
    <2>a. /\ h[<<"tf", 0>>] = tf /\ h[<<"root", 0>>] = m.pt.root
          /\ \A n \in Nodes : h[<<"node", n>>] = m.pt.node[n]
          /\ \A a \in UserVA : h[<<"leaf", a>>] = m.pt.leaf[a].pa
      BY HeldAt
    <2> HIDE DEF h
    <2>1. h[<<"tf", 0>>] = tf /\ h[<<"root", 0>>] = q.root BY <1>2, <2>a
    <2>2. \A n \in Nodes : h[<<"node", n>>] = q.node[n] BY <1>2, <2>a
    <2>3. \A a \in UserVA : h[<<"leaf", a>>] = q.leaf[a].pa BY <1>5, <2>a
    <2> QED BY <1>3, <2>1, <2>2, <2>3, HeldIs
  <1> HIDE DEF h
  <1>7. q \in Table BY <1>2 DEF TableOK
  <1>8. r \in MemRec /\ r.pt = q /\ r.free = m.free /\ r.panic = m.panic /\ r.ok = m.ok
    BY <1>1, <1>4, <1>7 DEF MemRec
  <1> HIDE DEF r
  <1>9. Accounted(r, tf, X) BY <1>1, <1>2, <1>3, <1>6, <1>8 DEF Accounted
  <1> QED BY <1>2, <1>8, <1>9 DEF r, Cleared

\* freewalk() of a table without leaves gives back all its page-table pages.
LEMMA FreewalkSpec ==
    ASSUME NEW m, NEW tf, NEW X, Accounted(m, tf, X), \A a \in VA : ~m.pt.leaf[a].v
    PROVE  LET r == Freewalk(m) IN
           Accounted(r, tf, X) /\ r.panic = m.panic /\ r.ok = m.ok /\ r.pt = NoTable
  <1> DEFINE r == Freewalk(m)
             P == {m.pt.node[n] : n \in Nodes} \cup {m.pt.root}
             C == ({"node"} \X Nodes) \cup {<<"root", 0>>}
             h == Held(tf, m.pt)
             g == [c \in Cell |-> IF c \in C THEN 0 ELSE h[c]]
  <1>1. m \in MemRec /\ TableOK(m.pt) /\ tf \in 0 .. NPAGE /\ m.panic \in BOOLEAN
    BY DEF Accounted, MemRec
  <1>2. Split(m.free, h, X) BY DEF Accounted
  <1>3. C \subseteq Cell BY DEF Cell
  <1>4. Split(m.free \cup ({h[c] : c \in C} \ {0}), g, X)
    <2> HIDE DEF h, C
    <2> QED BY <1>2, <1>3, SplitDrop
  <1>a. /\ h[<<"tf", 0>>] = tf /\ h[<<"root", 0>>] = m.pt.root
        /\ \A n \in Nodes : h[<<"node", n>>] = m.pt.node[n]
        /\ \A a \in UserVA : h[<<"leaf", a>>] = m.pt.leaf[a].pa
    BY HeldAt
  <1> HIDE DEF h
  <1>5. \A n \in Nodes : h[<<"node", n>>] = m.pt.node[n] BY <1>a
  <1>6. h[<<"root", 0>>] = m.pt.root /\ h[<<"tf", 0>>] = tf BY <1>a
  <1>7. \A a \in UserVA : h[<<"leaf", a>>] = 0
    <2>1. UserVA \subseteq VA /\ NoLeaf.pa = 0 BY Addresses DEF NoLeaf
    <2> QED BY <1>1, <1>a, <2>1 DEF TableOK
  <1>8. {h[c] : c \in C} \ {0} = P \ {0}
    <2>1. \A n \in Nodes : <<"node", n>> \in C OBVIOUS
    <2>2. \A c \in C : c = <<"root", 0>> \/ \E n \in Nodes : c = <<"node", n>> OBVIOUS
    <2>3. <<"root", 0>> \in C OBVIOUS
    <2> HIDE DEF C
    <2>4. ASSUME NEW b \in P PROVE b \in {h[c] : c \in C}
      <3>1. CASE b = m.pt.root BY <1>6, <2>3, <3>1
      <3>2. CASE b # m.pt.root
        <4>1. PICK n \in Nodes : b = m.pt.node[n] BY <3>2
        <4> QED BY <1>5, <2>1, <4>1
      <3> QED BY <3>1, <3>2
    <2>5. ASSUME NEW c \in C PROVE h[c] \in P
      <3>1. CASE c = <<"root", 0>> BY <1>6, <3>1
      <3>2. CASE c # <<"root", 0>>
        <4>1. PICK n \in Nodes : c = <<"node", n>> BY <2>2, <3>2
        <4> QED BY <1>5, <4>1
      <3> QED BY <3>1, <3>2
    <2> HIDE DEF P
    <2> QED BY <2>4, <2>5
  <1>9. Held(tf, NoTable) = g
    <2>1. g \in [Cell -> 0 .. NPAGE] BY <1>4 DEF Split
    <2>2. \A c \in Cell : g[c] = IF c \in C THEN 0 ELSE h[c] OBVIOUS
    <2> HIDE DEF g
    <2>3. g[<<"tf", 0>>] = tf /\ g[<<"root", 0>>] = NoTable.root
      BY <1>6, <2>2, CellCases DEF NoTable
    <2>4. \A n \in Nodes : g[<<"node", n>>] = NoTable.node[n]
      <3>1. \A n \in Nodes : NoTable.node[n] = 0 BY DEF NoTable
      <3>2. \A n \in Nodes : <<"node", n>> \in C OBVIOUS
      <3> QED BY <2>2, <3>1, <3>2, CellCases
    <2>5. \A a \in UserVA : g[<<"leaf", a>>] = NoTable.leaf[a].pa
      <3>1. \A a \in UserVA : NoTable.leaf[a].pa = 0 BY NoTableOK, Addresses DEF NoLeaf
      <3>2. \A a \in UserVA : <<"leaf", a>> \notin C OBVIOUS
      <3> QED BY <1>7, <2>2, <3>1, <3>2, CellCases
    <2> QED BY <2>1, <2>3, <2>4, <2>5, HeldIs
  <1>10. Mapped(m, VA) = {} BY DEF Mapped
  <1>11. m.free \cup (P \ {0}) \subseteq Page BY <1>4, <1>8 DEF Split
  <1>12. r = [m EXCEPT !.free = m.free \cup (P \ {0}), !.pt = NoTable, !.panic = m.panic]
    <2>1. (m.panic \/ Mapped(m, VA) # {}) = m.panic BY <1>1, <1>10
    <2> HIDE DEF P
    <2> QED BY <1>1, <2>1 DEF Freewalk, Kfree, MemRec, P
  <1> HIDE DEF P, g
  <1>13. /\ r \in MemRec /\ r.pt = NoTable /\ r.free = m.free \cup (P \ {0})
         /\ r.panic = m.panic /\ r.ok = m.ok
    BY <1>1, <1>11, <1>12, NoTableOK DEF MemRec
  <1> HIDE DEF r
  <1>14. Accounted(r, tf, X) BY <1>1, <1>4, <1>8, <1>9, <1>13, NoTableOK DEF Accounted
  <1> QED BY <1>13, <1>14 DEF r

\* uvmfree() of a table whose leaves are all below the size.
LEMMA UvmfreeSpec ==
    ASSUME NEW m, NEW tf, NEW X, Accounted(m, tf, X), NEW sz \in Nat,
           PGROUNDUP(sz) <= TRAPFRAME,
           \A a \in VA : m.pt.leaf[a].v => a < PGROUNDUP(sz)
    PROVE  LET r == Uvmfree(m, sz) IN
           Accounted(r, tf, X) /\ r.panic = m.panic /\ r.ok = m.ok /\ r.pt = NoTable
  <1> DEFINE as == 0 .. PGROUNDUP(sz) - 1
             k == Uvmunmap(m, as, TRUE)
             r == Freewalk(k)
  <1>1. PGROUNDUP(sz) \in Nat /\ TRAPFRAME \in Nat BY RoundUp, Addresses
  <1>2. as \subseteq UserVA BY <1>1, Addresses
  <1>3. \A a \in VA : a \notin as => ~m.pt.leaf[a].v BY <1>1, Addresses
  <1> HIDE DEF as
  <1>4. /\ Accounted(k, tf, X) /\ k.panic = m.panic /\ k.ok = m.ok
        /\ Cleared(m.pt.leaf, k.pt.leaf, as)
    BY <1>2, UnmapUserSpec
  <1> HIDE DEF k
  <1>5. ~NoLeaf.v BY DEF NoLeaf
  <1>6. \A a \in VA : ~k.pt.leaf[a].v BY <1>3, <1>4, <1>5 DEF Cleared
  <1>7. Accounted(r, tf, X) /\ r.panic = k.panic /\ r.ok = k.ok /\ r.pt = NoTable
    BY <1>4, <1>6, FreewalkSpec
  <1> HIDE DEF r
  <1> QED BY <1>4, <1>7 DEF Uvmfree, r, k, as

\* What is mapped in user memory is below the size.
Below(pt, sz) == \A a \in UserVA : pt.leaf[a].v => a < PGROUNDUP(sz)

\* A size whose pages are user memory.
Fitting(sz) == sz \in Nat /\ PGROUNDUP(sz) <= TRAPFRAME

\* proc_freepagetable() of such a table finds all there is.
LEMMA ProcFreeSpec ==
    ASSUME NEW m, NEW tf, NEW X, Accounted(m, tf, X), NEW sz, Fitting(sz), Below(m.pt, sz)
    PROVE  LET r == ProcFreepagetable(m, sz) IN
           Accounted(r, tf, X) /\ r.panic = m.panic /\ r.ok = m.ok /\ r.pt = NoTable
  <1> DEFINE as == {TRAMPOLINE, TRAPFRAME}
             k == Uvmunmap(m, as, FALSE)
             r == Uvmfree(k, sz)
  <1>1. as \cap UserVA = {} /\ \A a \in VA : a \in as \/ a \in UserVA BY Addresses
  <1>2. ProcFreepagetable(m, sz) = r BY DEF ProcFreepagetable
  <1> HIDE DEF as
  <1>3. /\ Accounted(k, tf, X) /\ k.panic = m.panic /\ k.ok = m.ok
        /\ Cleared(m.pt.leaf, k.pt.leaf, as)
    BY <1>1, UnmapTopSpec
  <1> HIDE DEF k
  <1>4. ~NoLeaf.v BY DEF NoLeaf
  <1>5. \A a \in VA : k.pt.leaf[a].v => a < PGROUNDUP(sz) BY <1>1, <1>3, <1>4 DEF Below, Cleared
  <1>6. Accounted(r, tf, X) /\ r.panic = k.panic /\ r.ok = k.ok /\ r.pt = NoTable
    BY <1>3, <1>5, UvmfreeSpec DEF Fitting
  <1> HIDE DEF r
  <1> QED BY <1>2, <1>3, <1>6

\* The root of a new table.
LEMMA RootSpec ==
    ASSUME NEW k, NEW tf, NEW X, NEW b \in Page, k.ok, k.got = b, b \notin X,
           Accounted(k, tf, X \cup {b}), k.pt = NoTable
    PROVE  LET r == Root(k) IN
           /\ Accounted(r, tf, X) /\ r.panic = k.panic /\ r.ok /\ r.pt.leaf = NoTable.leaf
  <1> DEFINE r == Root(k)
             pt == [k.pt EXCEPT !.root = b]
             h == Held(tf, k.pt)
             g == [h EXCEPT ![<<"root", 0>>] = b]
  <1>1. k \in MemRec /\ k.pt \in Table /\ b \in 0 .. NPAGE /\ b # 0
    BY PageRange DEF Accounted, MemRec
  <1>2. /\ pt \in Table /\ pt.root = b /\ pt.leaf = k.pt.leaf /\ pt.node = k.pt.node
    BY <1>1 DEF Table
  <1>3. r = [k EXCEPT !.pt = pt] BY DEF Root
  <1> HIDE DEF pt
  <1>4. /\ r \in MemRec /\ r.pt = pt /\ r.free = k.free /\ r.panic = k.panic /\ r.ok = k.ok
    BY <1>1, <1>2, <1>3 DEF MemRec
  <1> HIDE DEF r
  <1>5. TableOK(pt)
    <2>1. TableOK(k.pt) BY DEF Accounted
    <2>2. \A x \in VA : Hung(pt, x) <=> Hung(k.pt, x) BY <1>2 DEF Hung
    <2> QED BY <1>2, <2>1, <2>2 DEF TableOK
  <1>6. h \in [Cell -> 0 .. NPAGE] /\ Split(k.free, h, X \cup {b}) BY DEF Accounted, Split
  <1>7. /\ h[<<"tf", 0>>] = tf /\ h[<<"root", 0>>] = k.pt.root
        /\ \A n \in Nodes : h[<<"node", n>>] = k.pt.node[n]
        /\ \A a \in UserVA : h[<<"leaf", a>>] = k.pt.leaf[a].pa
    BY HeldAt
  <1> HIDE DEF h
  <1>8. <<"root", 0>> \in Cell /\ h[<<"root", 0>>] = 0 BY <1>7, CellCases DEF NoTable
  <1>9. Split(k.free, g, X) BY <1>6, <1>8, SplitPlace
  <1>10. Held(tf, pt) = g
    <2>1. g \in [Cell -> 0 .. NPAGE] BY <1>9 DEF Split
    <2>2. g[<<"root", 0>>] = b /\ \A c \in Cell : c # <<"root", 0>> => g[c] = h[c]
      BY <1>6, <1>8
    <2> HIDE DEF g
    <2>3. g[<<"tf", 0>>] = tf /\ g[<<"root", 0>>] = pt.root BY <1>2, <1>7, <2>2, CellCases
    <2>4. \A n \in Nodes : g[<<"node", n>>] = pt.node[n]
      <3>1. \A n \in Nodes : <<"node", n>> # <<"root", 0>> OBVIOUS
      <3> QED BY <1>2, <1>7, <2>2, <3>1, CellCases
    <2>5. \A a \in UserVA : g[<<"leaf", a>>] = pt.leaf[a].pa
      <3>1. \A a \in UserVA : <<"leaf", a>> # <<"root", 0>> OBVIOUS
      <3> QED BY <1>2, <1>7, <2>2, <3>1, CellCases
    <2> QED BY <2>1, <2>3, <2>4, <2>5, HeldIs
  <1> HIDE DEF g
  <1>11. Accounted(r, tf, X) BY <1>4, <1>5, <1>9, <1>10 DEF Accounted
  <1> QED BY <1>2, <1>4, <1>11 DEF r

\* One of the two pages above user memory, or no table at all.
LEMMA AddPageSpec ==
    ASSUME NEW m, NEW tf, NEW X, Accounted(m, tf, X), NEW a \in {TRAMPOLINE, TRAPFRAME},
           NEW pa \in 0 .. NPAGE, NEW w \in BOOLEAN, ~m.pt.leaf[a].v,
           \A x \in VA : m.pt.leaf[x].v => x = TRAMPOLINE, ~m.ok => m.pt = NoTable
    PROVE  LET r == AddPage(m, a, pa, w) IN
           /\ Accounted(r, tf, X) /\ r.panic = m.panic /\ (r.ok => m.ok)
           /\ r.ok => r.pt.leaf = [m.pt.leaf EXCEPT ![a] = TopLeaf(pa, w)]
           /\ ~r.ok => r.pt = NoTable
  <1> DEFINE r == AddPage(m, a, pa, w)
             l == TopLeaf(pa, w)
             q == Mappages(m, a, pa, FALSE, w)
             k == Uvmunmap(q, {TRAMPOLINE}, FALSE)
             s == Uvmfree(k, 0)
  <1>1. CASE ~m.ok
    <2>1. r = m BY <1>1 DEF AddPage
    <2> QED BY <1>1, <2>1
  <1>2. CASE m.ok
    <2>1. a \in VA /\ a \notin UserVA BY Addresses
    <2>a. Accounted(q, tf, X) /\ q.panic = m.panic /\ Extended(m, q, a, l)
      BY <2>1, MapTopSpec
    <2>2. /\ Accounted(q, tf, X) /\ q.panic = m.panic /\ (q.ok => m.ok)
          /\ (q.ok => q.pt.leaf = [m.pt.leaf EXCEPT ![a] = l])
          /\ (~q.ok => q.pt.leaf = m.pt.leaf)
      BY <2>a DEF Extended
    <2>3. r = OrUvmfree(q) BY <1>2 DEF AddPage
    <2> HIDE DEF q, l, r
    <2>4. CASE q.ok
      <3>1. r = q BY <2>3, <2>4 DEF OrUvmfree
      <3> QED BY <2>2, <2>4, <3>1 DEF r, l
    <2>5. CASE ~q.ok
      <3>1. r = s BY <2>3, <2>5 DEF OrUvmfree
      <3>2. {TRAMPOLINE} \cap UserVA = {} BY Addresses
      <3>3. /\ Accounted(k, tf, X) /\ k.panic = q.panic /\ k.ok = q.ok
            /\ Cleared(q.pt.leaf, k.pt.leaf, {TRAMPOLINE})
        BY <2>2, <3>2, UnmapTopSpec
      <3> HIDE DEF k
      <3>4. \A x \in VA : ~k.pt.leaf[x].v
        <4>1. ~NoLeaf.v BY DEF NoLeaf
        <4> QED BY <2>2, <2>5, <3>3, <4>1 DEF Cleared
      <3>5. PGROUNDUP(0) = 0 /\ TRAPFRAME \in Nat
        <4>1. 0 * PGSIZE = 0 BY MemoryAssumption
        <4> QED BY <4>1, RoundWhole, Addresses
      <3>6. Accounted(s, tf, X) /\ s.panic = k.panic /\ s.ok = k.ok /\ s.pt = NoTable
        <4>1. PGROUNDUP(0) <= TRAPFRAME BY <3>5
        <4>2. \A x \in VA : k.pt.leaf[x].v => x < PGROUNDUP(0) BY <3>4
        <4> QED BY <3>3, <4>1, <4>2, UvmfreeSpec
      <3> HIDE DEF s
      <3> QED BY <2>2, <2>5, <3>1, <3>3, <3>6 DEF r
    <2> QED BY <2>4, <2>5
  <1> QED BY <1>1, <1>2

\* The leaves of a new table: the trampoline and the trapframe.
Fresh(leaf, tf) ==
    /\ \A a \in UserVA : leaf[a] = NoLeaf
    /\ leaf[TRAMPOLINE] = TopLeaf(0, FALSE)
    /\ leaf[TRAPFRAME] = TopLeaf(tf, TRUE)

\* proc_pagetable() gives a table with just these, or none.
LEMMA ProcPagetableSpec ==
    ASSUME NEW m, NEW tf, NEW X, Accounted(m, tf, X), m.ok, m.pt = NoTable,
           NEW pa \in 0 .. NPAGE
    PROVE  LET r == ProcPagetable(m, pa) IN
           /\ Accounted(r, tf, X) /\ r.panic = m.panic
           /\ r.ok => Fresh(r.pt.leaf, pa)
           /\ ~r.ok => r.pt = NoTable
  <1> DEFINE k == Kalloc(m)
             b == k.got
             t == Root(k)
             q == AddPage(t, TRAMPOLINE, 0, FALSE)
             r == AddPage(q, TRAPFRAME, pa, TRUE)
             l1 == TopLeaf(0, FALSE)
             l2 == TopLeaf(pa, TRUE)
  <1>1. /\ k.pt = m.pt /\ k.panic = m.panic
        /\ ~k.ok => Accounted(k, tf, X)
        /\ k.ok => b \in Page /\ b \notin X /\ Accounted(k, tf, X \cup {b})
    BY KallocSpec
  <1>2. r = ProcPagetable(m, pa) BY DEF ProcPagetable
  <1> HIDE DEF k
  <1>3. /\ Accounted(t, tf, X) /\ t.panic = m.panic /\ t.pt.leaf = NoTable.leaf
        /\ ~t.ok => t.pt = NoTable
    <2>1. CASE k.ok
      <3>1. k.got = b /\ k.pt = NoTable BY <1>1
      <3> HIDE DEF b
      <3>2. /\ Accounted(t, tf, X) /\ t.panic = k.panic /\ t.ok /\ t.pt.leaf = NoTable.leaf
        BY <1>1, <2>1, <3>1, RootSpec
      <3> HIDE DEF t
      <3> QED BY <1>1, <3>2
    <2>2. CASE ~k.ok
      <3>1. t = k BY <2>2 DEF Root
      <3> QED BY <1>1, <2>2, <3>1
    <2> QED BY <2>1, <2>2
  <1> HIDE DEF t
  <1>4. ~NoLeaf.v /\ 0 \in 0 .. NPAGE BY PageRange DEF NoLeaf
  <1>5. \A x \in VA : t.pt.leaf[x] = NoLeaf BY <1>3, NoTableOK
  <1>6. /\ Accounted(q, tf, X) /\ q.panic = t.panic /\ (q.ok => t.ok)
        /\ q.ok => q.pt.leaf = [t.pt.leaf EXCEPT ![TRAMPOLINE] = l1]
        /\ ~q.ok => q.pt = NoTable
    <2>1. TRAMPOLINE \in {TRAMPOLINE, TRAPFRAME} /\ TRAMPOLINE \in VA BY Addresses
    <2>2. ~t.pt.leaf[TRAMPOLINE].v /\ \A x \in VA : t.pt.leaf[x].v => x = TRAMPOLINE
      BY <1>4, <1>5, <2>1
    <2> QED BY <1>3, <1>4, <2>1, <2>2, AddPageSpec
  <1>7. \A x \in VA : q.pt.leaf[x] = IF q.ok /\ x = TRAMPOLINE THEN l1 ELSE NoLeaf
    <2>1. t.pt.leaf \in [VA -> Leaf] BY <1>3 DEF Accounted, MemRec, Table
    <2> HIDE DEF q, l1
    <2> QED BY <1>5, <1>6, <2>1, NoTableOK
  <1> HIDE DEF q
  <1>8. /\ Accounted(r, tf, X) /\ r.panic = q.panic /\ (r.ok => q.ok)
        /\ r.ok => r.pt.leaf = [q.pt.leaf EXCEPT ![TRAPFRAME] = l2]
        /\ ~r.ok => r.pt = NoTable
    <2>1. TRAPFRAME \in {TRAMPOLINE, TRAPFRAME} /\ TRAPFRAME \in VA /\ TRAPFRAME # TRAMPOLINE
      BY Addresses
    <2>2. ~q.pt.leaf[TRAPFRAME].v /\ \A x \in VA : q.pt.leaf[x].v => x = TRAMPOLINE
      <3> HIDE DEF l1
      <3> QED BY <1>4, <1>7, <2>1
    <2> QED BY <1>6, <2>1, <2>2, AddPageSpec
  <1> HIDE DEF r
  <1>9. ASSUME r.ok PROVE Fresh(r.pt.leaf, pa)
    <2>1. q.pt.leaf \in [VA -> Leaf] BY <1>6 DEF Accounted, MemRec, Table
    <2> HIDE DEF l1, l2
    <2>2. r.pt.leaf[TRAPFRAME] = l2 /\ \A x \in VA : x # TRAPFRAME => r.pt.leaf[x] = q.pt.leaf[x]
      BY <1>8, <1>9, <2>1, Addresses
    <2>3. r.pt.leaf[TRAMPOLINE] = l1 BY <1>7, <1>8, <1>9, <2>2, Addresses
    <2>4. \A x \in UserVA : r.pt.leaf[x] = NoLeaf BY <1>7, <2>2, Addresses
    <2> QED BY <2>2, <2>3, <2>4 DEF Fresh, l1, l2
  <1> QED BY <1>2, <1>3, <1>6, <1>8, <1>9

----------------------------------------------------------------------------
(* Loops over pages                                                        *)

\* A loop whose k-th step, by G, leads from T[k - 1] to T[k].
Staged(n, L, T, x0, G) ==
    /\ n \in Nat /\ x0 \in T[0] /\ \A k \in 0 .. n : T[k] \subseteq L
    /\ \A k \in 1 .. n : \A x \in T[k - 1] : G[<<k, x>>] \in T[k]

\* f runs it.
Runs(f, n, L, T, x0, G) ==
    /\ f \in [0 .. n -> L] /\ f[0] = x0
    /\ \A k \in 1 .. n : f[k] = G[<<k, f[k - 1]>>]
    /\ \A k \in 0 .. n : f[k] \in T[k]

\* A loop that stays in its stages makes a function that runs through them.
LEMMA Loop ==
    ASSUME NEW n, NEW L, NEW T, NEW x0, NEW G, Staged(n, L, T, x0, G)
    PROVE  \E f : Runs(f, n, L, T, x0, G)
  <1> USE DEF Staged
  <1> DEFINE H == [q \in (1 .. n) \X L |-> IF q[2] \in T[q[1] - 1] THEN G[q] ELSE x0]
  <1>1. x0 \in L
    <2>1. 0 \in 0 .. n OBVIOUS
    <2> QED BY <2>1
  <1>2. \A k \in 1 .. n : \A x \in L : x \in T[k - 1] => H[<<k, x>>] = G[<<k, x>>] OBVIOUS
  <1>3. H \in [(1 .. n) \X L -> L]
    <2>1. ASSUME NEW q \in (1 .. n) \X L, q[2] \in T[q[1] - 1] PROVE G[q] \in L
      <3>1. q[1] \in 1 .. n /\ q[1] \in 0 .. n /\ q = <<q[1], q[2]>> OBVIOUS
      <3>2. G[<<q[1], q[2]>>] \in T[q[1]] BY <2>1, <3>1
      <3>3. T[q[1]] \subseteq L BY <3>1
      <3> QED BY <3>1, <3>2, <3>3
    <2> QED BY <1>1, <2>1
  <1> HIDE DEF H
  <1>4. Stepping(n, L, x0, H) BY <1>1, <1>3 DEF Stepping
  <1>5. PICK f : Steps(f, n, L, x0, H) BY <1>4, Recursion
  <1>6. f \in [0 .. n -> L] /\ f[0] = x0 /\ \A k \in 1 .. n : f[k] = H[<<k, f[k - 1]>>]
    BY <1>5 DEF Steps
  <1> DEFINE U == {k \in 0 .. n : f[k] \in T[k]}
  <1>7. ASSUME NEW k \in 1 .. n, f[k - 1] \in T[k - 1]
        PROVE  f[k] = G[<<k, f[k - 1]>>] /\ f[k] \in T[k]
    <2>1. k - 1 \in 0 .. n OBVIOUS
    <2>2. f[k - 1] \in L BY <1>7, <2>1
    <2>3. f[k] = G[<<k, f[k - 1]>>] BY <1>2, <1>6, <1>7, <2>2
    <2> QED BY <1>7, <2>3
  <1>8. 0 \in U
    <2>1. 0 \in 0 .. n OBVIOUS
    <2> QED BY <1>6, <2>1
  <1>9. ASSUME NEW k \in 1 .. n, k - 1 \in U PROVE k \in U
    <2>1. k \in 0 .. n /\ f[k - 1] \in T[k - 1] BY <1>9
    <2> QED BY <1>7, <2>1
  <1>10. \A k \in 0 .. n : k \in U
    <2> HIDE DEF U
    <2> QED BY <1>8, <1>9, UpTo
  <1>11. \A k \in 0 .. n : f[k] \in T[k] BY <1>10
  <1>12. \A k \in 1 .. n : f[k] = G[<<k, f[k - 1]>>]
    <2>1. \A k \in 1 .. n : k - 1 \in 0 .. n OBVIOUS
    <2> QED BY <1>7, <1>11, <2>1
  <1> QED BY <1>6, <1>11, <1>12 DEF Runs

\* Pages of S are mapped.
AllMapped(leaf, S) == \A a \in S : leaf[a].v

\* The loop of uvmalloc(): it maps the pages, or stops where there is no memory.
LEMMA GrowingSpec ==
    ASSUME NEW m, NEW tf, NEW X, Accounted(m, tf, X), NEW first \in Nat, NEW n \in Nat,
           first + n <= TRAPFRAME, NEW w \in BOOLEAN,
           \A a \in first .. first + n - 1 : ~m.pt.leaf[a].v
    PROVE  LET r == Growing(m, first, n, w)[n] IN
           /\ Accounted(r, tf, X) /\ r.panic = m.panic
           /\ SameBut(m.pt.leaf, r.pt.leaf, first .. first + n - 1)
           /\ r.ok => m.ok /\ AllMapped(r.pt.leaf, first .. first + n - 1)
  <1> DEFINE step(k, x) == UserPage(x, first + k - 1, TRUE, w)
             P(f) == f = [k \in 0 .. n |-> IF k = 0 THEN m ELSE step(k, f[k - 1])]
             S(k) == first .. first + k - 1
             Q(k, r) == /\ Accounted(r, tf, X) /\ r.panic = m.panic
                        /\ SameBut(m.pt.leaf, r.pt.leaf, S(k))
                        /\ r.ok => m.ok /\ AllMapped(r.pt.leaf, S(k))
             T == [k \in 0 .. n |-> {r \in MemRec : Q(k, r)}]
             G == [q \in (1 .. n) \X MemRec |-> step(q[1], q[2])]
             c == Growing(m, first, n, w)
  <1>1. c = CHOOSE f : P(f) BY DEF Growing
  <1>2. ASSUME NEW k \in 1 .. n, NEW x \in MemRec, Q(k - 1, x)
        PROVE  step(k, x) \in MemRec /\ Q(k, step(k, x))
    <2> DEFINE a == first + k - 1
               r == step(k, x)
    <2>1. /\ a \in S(n) /\ a \notin S(k - 1) /\ a \in UserVA /\ a \in VA /\ a \in S(k)
          /\ \A y \in S(k) : y = a \/ y \in S(k - 1)
          /\ S(k - 1) \subseteq S(k) /\ S(k) \subseteq VA
      BY Addresses
    <2>2. ~x.pt.leaf[a].v BY <1>2, <2>1 DEF SameBut
    <2> HIDE DEF a, S
    <2>3. Accounted(r, tf, X) /\ r.panic = x.panic /\ Paged(x, r, a, TRUE, w)
      <3>1. r = UserPage(x, a, TRUE, w) BY DEF a
      <3>2. Accounted(x, tf, X) /\ TRUE \in BOOLEAN BY <1>2
      <3> DEFINE q == UserPage(x, a, TRUE, w)
      <3>3. Accounted(q, tf, X) /\ q.panic = x.panic /\ Paged(x, q, a, TRUE, w)
        BY <2>1, <2>2, <3>2, UserPageSpec
      <3> HIDE DEF q, step
      <3> QED BY <3>1, <3>3 DEF q
    <2> HIDE DEF step
    <2>4. SameBut(m.pt.leaf, r.pt.leaf, S(k)) BY <1>2, <2>1, <2>3 DEF SameBut, Paged
    <2>5. r.ok => m.ok /\ AllMapped(r.pt.leaf, S(k))
      BY <1>2, <2>1, <2>3 DEF SameBut, Paged, AllMapped
    <2> QED BY <1>2, <2>3, <2>4, <2>5 DEF Accounted
  <1>3. m \in MemRec /\ Q(0, m) BY DEF Accounted, SameBut, AllMapped
  <1> HIDE DEF step, Q, c
  <1>4. \E f : P(f)
    <2>1. \A k \in 0 .. n : T[k] \subseteq MemRec OBVIOUS
    <2>2. m \in T[0]
      <3>1. 0 \in 0 .. n OBVIOUS
      <3> QED BY <1>3, <3>1
    <2>3. \A k \in 1 .. n : k \in 0 .. n /\ k - 1 \in 0 .. n /\ k # 0 OBVIOUS
    <2>4. ASSUME NEW k \in 1 .. n, NEW x \in T[k - 1] PROVE G[<<k, x>>] \in T[k]
      <3>1. x \in MemRec /\ Q(k - 1, x) BY <2>3
      <3>2. G[<<k, x>>] = step(k, x) BY <3>1
      <3> QED BY <1>2, <2>3, <3>1, <3>2
    <2>5. \A k \in 1 .. n : \A x \in MemRec : G[<<k, x>>] = step(k, x) OBVIOUS
    <2> HIDE DEF T, G
    <2>6. Staged(n, MemRec, T, m, G) BY <2>1, <2>2, <2>4 DEF Staged
    <2>7. PICK f : Runs(f, n, MemRec, T, m, G) BY <2>6, Loop
    <2>8. \A k \in 0 .. n : f[k] = IF k = 0 THEN m ELSE step(k, f[k - 1])
      <3>1. \A k \in 0 .. n : k = 0 \/ k \in 1 .. n OBVIOUS
      <3> QED BY <2>3, <2>5, <2>7, <3>1 DEF Runs
    <2>9. P(f)
      <3>1. f = [k \in 0 .. n |-> f[k]] BY <2>7 DEF Runs
      <3> QED BY <2>8, <3>1
    <2> QED BY <2>9
  <1>5. P(c)
    <2> HIDE DEF P
    <2> QED BY <1>1, <1>4
  <1> DEFINE U == {k \in 0 .. n : c[k] \in MemRec /\ Q(k, c[k])}
  <1>6. 0 \in U
    <2>1. 0 \in 0 .. n OBVIOUS
    <2> QED BY <1>3, <1>5, <2>1
  <1>7. ASSUME NEW k \in 1 .. n, k - 1 \in U PROVE k \in U
    <2>1. k \in 0 .. n /\ k # 0 OBVIOUS
    <2>2. c[k] = step(k, c[k - 1]) BY <1>5, <2>1
    <2> QED BY <1>2, <1>7, <2>1, <2>2
  <1>8. n \in U
    <2>1. n \in 0 .. n OBVIOUS
    <2> HIDE DEF U
    <2> QED BY <1>6, <1>7, <2>1, UpTo
  <1>9. Q(n, c[n]) BY <1>8
  <1> QED BY <1>9 DEF Q, c

----------------------------------------------------------------------------
(* Memory that grows and shrinks                                           *)

\* The two entries above user memory of a process with trapframe tf.
Top(leaf, tf) == leaf[TRAMPOLINE] = TopLeaf(0, FALSE) /\ leaf[TRAPFRAME] = TopLeaf(tf, TRUE)

\* The table of a process of this size.
Image(pt, sz, tf) == Fitting(sz) /\ Below(pt, sz) /\ Top(pt.leaf, tf)

\* Leaves that differ at most in user pages below the size.
Within(old, new, sz) ==
    \A a \in VA : new[a] = old[a] \/ (a \in UserVA /\ a < PGROUNDUP(sz))

\* The sizes that sbrk() lets a process have are those whose pages are user memory.
LEMMA FittingSize ==
    ASSUME NEW sz
    PROVE  Fitting(sz) <=> sz \in 0 .. TRAPFRAME * PGSIZE
  <1>1. TRAPFRAME \in Nat /\ TRAPFRAME * PGSIZE \in Nat /\ PGROUNDUP(TRAPFRAME * PGSIZE) = TRAPFRAME
    BY Addresses, RoundWhole
  <1>2. ASSUME Fitting(sz) PROVE sz \in 0 .. TRAPFRAME * PGSIZE
    <2> SUFFICES ASSUME TRAPFRAME * PGSIZE < sz PROVE FALSE BY <1>1, <1>2 DEF Fitting
    <2>1. sz \in Nat /\ PGROUNDUP(sz) \in Nat /\ PGROUNDUP(sz) <= TRAPFRAME
      BY <1>2, RoundUp DEF Fitting
    <2>2. TRAPFRAME < PGROUNDUP(sz) BY <1>1, <2>1, RoundUp
    <2> QED BY <1>1, <2>1, <2>2
  <1>3. ASSUME sz \in 0 .. TRAPFRAME * PGSIZE PROVE Fitting(sz)
    <2>1. sz \in Nat /\ sz <= TRAPFRAME * PGSIZE BY <1>1, <1>3
    <2> QED BY <1>1, <2>1, RoundUp DEF Fitting
  <1> QED BY <1>2, <1>3

\* What is mapped below the size leaves an image an image.
LEMMA WithinImage ==
    ASSUME NEW pt, NEW q, NEW tf, NEW sz, NEW sz2, Image(pt, sz, tf), Fitting(sz2),
           PGROUNDUP(sz) <= PGROUNDUP(sz2), Within(pt.leaf, q.leaf, sz2)
    PROVE  Image(q, sz2, tf)
  <1>1. TRAMPOLINE \in VA /\ TRAPFRAME \in VA /\ TRAMPOLINE \notin UserVA /\ TRAPFRAME \notin UserVA
    BY Addresses
  <1>2. Top(q.leaf, tf) BY <1>1 DEF Within, Image, Top
  <1>3. Below(q, sz2)
    <2>1. PGROUNDUP(sz) \in Nat /\ PGROUNDUP(sz2) \in Nat BY RoundUp DEF Image, Fitting
    <2>2. \A a \in UserVA : a \in VA /\ a \in Nat BY Addresses
    <2>3. ASSUME NEW a \in UserVA, q.leaf[a].v PROVE a < PGROUNDUP(sz2)
      <3>1. CASE q.leaf[a] = pt.leaf[a]
        <4>1. a < PGROUNDUP(sz) BY <2>3, <3>1 DEF Image, Below
        <4> QED BY <2>1, <2>2, <4>1
      <3>2. CASE q.leaf[a] # pt.leaf[a] BY <2>2, <3>2 DEF Within
      <3> QED BY <3>1, <3>2
    <2> QED BY <2>3 DEF Below
  <1> QED BY <1>2, <1>3 DEF Image

\* vmfault() maps at most a page that the size promises.
LEMMA VmfaultSpec ==
    ASSUME NEW m, NEW tf, NEW X, Accounted(m, tf, X), NEW a \in UserVA, NEW sz \in Nat
    PROVE  LET r == Vmfault(m, a, sz) IN
           Accounted(r, tf, X) /\ r.panic = m.panic /\ Within(m.pt.leaf, r.pt.leaf, sz)
  <1> DEFINE r == Vmfault(m, a, sz)
             q == UserPage(m, a, TRUE, TRUE)
  <1>1. CASE a * PGSIZE >= sz \/ m.pt.leaf[a].v
    <2> DEFINE e == [m EXCEPT !.ok = FALSE]
    <2>1. r = e BY <1>1 DEF Vmfault
    <2>2. Accounted(e, tf, X) /\ e.panic = m.panic /\ e.pt = m.pt
      <3>1. FALSE \in BOOLEAN OBVIOUS
      <3> QED BY <3>1, OkSpec
    <2> HIDE DEF e, r
    <2>3. Within(m.pt.leaf, e.pt.leaf, sz) BY <2>2 DEF Within
    <2> QED BY <2>1, <2>2, <2>3 DEF r
  <1>2. CASE a * PGSIZE < sz /\ ~m.pt.leaf[a].v
    <2>1. a \in Nat /\ a \in VA /\ a * PGSIZE \in Nat BY Addresses, RoundWhole
    <2>2. r = q
      <3>1. ~(a * PGSIZE >= sz) BY <1>2, <2>1
      <3> HIDE DEF q
      <3> QED BY <1>2, <3>1 DEF Vmfault, q
    <2>3. Accounted(q, tf, X) /\ q.panic = m.panic /\ Paged(m, q, a, TRUE, TRUE)
      BY <1>2, UserPageSpec
    <2>4. a < PGROUNDUP(sz) BY <1>2, <2>1, RoundUp
    <2> HIDE DEF q, r
    <2>5. Within(m.pt.leaf, q.pt.leaf, sz) BY <2>1, <2>3, <2>4 DEF Paged, SameBut, Within
    <2> QED BY <2>2, <2>3, <2>5 DEF r
  <1>3. a * PGSIZE \in Nat
    <2>1. a \in Nat BY Addresses
    <2> QED BY <2>1, RoundWhole
  <1> QED BY <1>1, <1>2, <1>3

\* uvmdealloc() frees the pages above the new size.
LEMMA UvmdeallocSpec ==
    ASSUME NEW m, NEW tf, NEW X, Accounted(m, tf, X), NEW oldsz, Fitting(oldsz), NEW newsz \in Nat
    PROVE  LET r == Uvmdealloc(m, oldsz, newsz) IN
           /\ Accounted(r, tf, X) /\ r.panic = m.panic /\ r.ok = m.ok
           /\ Cleared(m.pt.leaf, r.pt.leaf, PGROUNDUP(newsz) .. PGROUNDUP(oldsz) - 1)
  <1> DEFINE as == PGROUNDUP(newsz) .. PGROUNDUP(oldsz) - 1
             r == Uvmunmap(m, as, TRUE)
  <1>1. as \subseteq UserVA
    <2>1. PGROUNDUP(newsz) \in Nat /\ PGROUNDUP(oldsz) \in Nat /\ PGROUNDUP(oldsz) <= TRAPFRAME
      BY RoundUp DEF Fitting
    <2> QED BY <2>1, Addresses
  <1> HIDE DEF as
  <1>2. Accounted(r, tf, X) /\ r.panic = m.panic /\ r.ok = m.ok /\ Cleared(m.pt.leaf, r.pt.leaf, as)
    BY <1>1, UnmapUserSpec
  <1> HIDE DEF r
  <1> QED BY <1>2 DEF Uvmdealloc, r, as

\* What uvmalloc() leaves: the memory grown and mapped, or as it was and no new size.
Alloc(m, r, oldsz, newsz) ==
    /\ r.m.ok
    /\ r.sz = 0 => SameBut(m.pt.leaf, r.m.pt.leaf, {})
    /\ r.sz # 0 => /\ r.sz = IF newsz < oldsz THEN oldsz ELSE newsz
                   /\ SameBut(m.pt.leaf, r.m.pt.leaf, PGROUNDUP(oldsz) .. PGROUNDUP(newsz) - 1)
                   /\ oldsz <= newsz =>
                        AllMapped(r.m.pt.leaf, PGROUNDUP(oldsz) .. PGROUNDUP(newsz) - 1)

\* uvmalloc(): the pages are there, or the table is as it was.
LEMMA UvmallocSpec ==
    ASSUME NEW m, NEW tf, NEW X, Accounted(m, tf, X), m.ok, NEW oldsz \in Nat, NEW newsz,
           Fitting(newsz), Below(m.pt, oldsz), NEW w \in BOOLEAN
    PROVE  LET r == Uvmalloc(m, oldsz, newsz, w) IN
           Accounted(r.m, tf, X) /\ r.m.panic = m.panic /\ Alloc(m, r, oldsz, newsz)
  <1> DEFINE first == PGROUNDUP(oldsz)
             last == PGROUNDUP(newsz)
             n == last - first
             as == first .. last - 1
             g == Growing(m, first, n, w)[n]
             r == Uvmalloc(m, oldsz, newsz, w)
  <1>0. newsz \in Nat /\ last <= TRAPFRAME /\ first \in Nat /\ last \in Nat /\ TRAPFRAME \in Nat
    BY RoundUp, Addresses DEF Fitting
  <1>1. CASE newsz < oldsz
    <2>1. r = [m |-> m, sz |-> oldsz] BY <1>1 DEF Uvmalloc
    <2>2. r.m = m /\ r.sz = oldsz BY <2>1
    <2> HIDE DEF r
    <2>3. Alloc(m, r, oldsz, newsz) BY <1>0, <1>1, <2>2 DEF Alloc, SameBut
    <2> QED BY <2>2, <2>3 DEF r
  <1>2. CASE oldsz <= newsz
    <2>1. n \in Nat /\ first + n = last
      <3>1. first <= last BY <1>0, <1>2, RoundOrder
      <3> QED BY <1>0, <3>1
    <2>2. r = Grown(g, oldsz, newsz)
      <3>1. ~(newsz < oldsz) BY <1>0, <1>2
      <3> QED BY <3>1 DEF Uvmalloc
    <2>3. as \subseteq UserVA /\ as \subseteq VA /\ as = first .. first + n - 1
      BY <1>0, <2>1, Addresses
    <2>4. \A a \in as : ~m.pt.leaf[a].v
      <3>1. \A a \in as : a \in UserVA /\ ~(a < first) BY <1>0, <2>3
      <3> QED BY <3>1 DEF Below
    <2>5. /\ Accounted(g, tf, X) /\ g.panic = m.panic /\ SameBut(m.pt.leaf, g.pt.leaf, as)
          /\ g.ok => m.ok /\ AllMapped(g.pt.leaf, as)
      <3>1. first + n <= TRAPFRAME /\ \A a \in first .. first + n - 1 : ~m.pt.leaf[a].v
        BY <1>0, <2>1, <2>3, <2>4
      <3> HIDE DEF first, n, as
      <3>2. /\ Accounted(g, tf, X) /\ g.panic = m.panic
            /\ SameBut(m.pt.leaf, g.pt.leaf, first .. first + n - 1)
            /\ g.ok => m.ok /\ AllMapped(g.pt.leaf, first .. first + n - 1)
        BY <1>0, <2>1, <3>1, GrowingSpec
      <3> QED BY <2>3, <3>2
    <2> HIDE DEF g, r
    <2>6. CASE g.ok
      <3>1. r = [m |-> g, sz |-> newsz] BY <2>2, <2>6 DEF Grown
      <3>2. r.m = g /\ r.sz = newsz BY <3>1
      <3>3. newsz = 0 => SameBut(m.pt.leaf, g.pt.leaf, {})
        <4> SUFFICES ASSUME newsz = 0 PROVE SameBut(m.pt.leaf, g.pt.leaf, {}) OBVIOUS
        <4>1. last = 0
          <5>1. 0 * PGSIZE = 0 BY MemoryAssumption
          <5> QED BY <5>1, RoundWhole
        <4>2. as = {} BY <1>0, <4>1
        <4> QED BY <2>5, <4>2
      <3>4. ~(newsz < oldsz) BY <1>0, <1>2
      <3>5. Alloc(m, r, oldsz, newsz) BY <2>5, <2>6, <3>2, <3>3, <3>4 DEF Alloc
      <3> QED BY <2>5, <3>2, <3>5 DEF r
    <2>7. CASE ~g.ok
      <3> DEFINE d == Uvmdealloc(g, newsz, oldsz)
                 e == [d EXCEPT !.ok = TRUE]
      <3>1. r = [m |-> e, sz |-> 0] BY <2>2, <2>7 DEF Grown
      <3>2. r.m = e /\ r.sz = 0 BY <3>1
      <3>3. Accounted(d, tf, X) /\ d.panic = g.panic /\ Cleared(g.pt.leaf, d.pt.leaf, as)
        BY <2>5, UvmdeallocSpec
      <3> HIDE DEF d
      <3>4. Accounted(e, tf, X) /\ e.panic = d.panic /\ e.pt = d.pt /\ e.ok
        BY <3>3, OkSpec
      <3> HIDE DEF e, as
      <3>5. SameBut(m.pt.leaf, e.pt.leaf, {})
        <4>1. \A a \in VA : ~m.pt.leaf[a].v => m.pt.leaf[a] = NoLeaf
          BY DEF Accounted, TableOK
        <4>2. ASSUME NEW a \in VA PROVE d.pt.leaf[a] = m.pt.leaf[a]
          <5>1. CASE a \in as BY <2>4, <3>3, <4>1, <5>1 DEF Cleared
          <5>2. CASE a \notin as BY <2>5, <3>3, <5>2 DEF Cleared, SameBut
          <5> QED BY <5>1, <5>2
        <4> QED BY <3>4, <4>2 DEF SameBut
      <3>6. Alloc(m, r, oldsz, newsz) BY <3>2, <3>4, <3>5 DEF Alloc
      <3> QED BY <2>5, <3>2, <3>3, <3>4, <3>6 DEF r
    <2> QED BY <2>6, <2>7
  <1> QED BY <1>0, <1>1, <1>2

\* Where the new size is, the table is that of a process of this size.
LEMMA AllocImage ==
    ASSUME NEW m, NEW tf, NEW r, NEW oldsz, NEW newsz, Image(m.pt, oldsz, tf), Fitting(newsz),
           Alloc(m, r, oldsz, newsz)
    PROVE  /\ r.sz # 0 => Image(r.m.pt, r.sz, tf)
           /\ r.sz = 0 => Image(r.m.pt, oldsz, tf)
  <1>1. /\ oldsz \in Nat /\ newsz \in Nat /\ PGROUNDUP(oldsz) \in Nat /\ PGROUNDUP(newsz) \in Nat
        /\ PGROUNDUP(oldsz) <= TRAPFRAME /\ PGROUNDUP(newsz) <= TRAPFRAME /\ TRAPFRAME \in Nat
    BY RoundUp, Addresses DEF Image, Fitting
  <1>2. CASE r.sz = 0
    <2>1. Within(m.pt.leaf, r.m.pt.leaf, oldsz) BY <1>2 DEF Alloc, SameBut, Within
    <2>2. Fitting(oldsz) /\ PGROUNDUP(oldsz) <= PGROUNDUP(oldsz) BY <1>1 DEF Image
    <2> QED BY <1>2, <2>1, <2>2, WithinImage
  <1>3. CASE r.sz # 0
    <2> DEFINE as == PGROUNDUP(oldsz) .. PGROUNDUP(newsz) - 1
    <2>1. SameBut(m.pt.leaf, r.m.pt.leaf, as) /\ r.sz = IF newsz < oldsz THEN oldsz ELSE newsz
      BY <1>3 DEF Alloc
    <2>2. /\ PGROUNDUP(newsz) <= PGROUNDUP(r.sz) /\ PGROUNDUP(oldsz) <= PGROUNDUP(r.sz)
          /\ Fitting(r.sz)
      <3>1. CASE newsz < oldsz
        <4>1. PGROUNDUP(newsz) <= PGROUNDUP(oldsz) BY <1>1, <3>1, RoundOrder
        <4> QED BY <1>1, <2>1, <3>1, <4>1 DEF Image
      <3>2. CASE oldsz <= newsz
        <4>1. PGROUNDUP(oldsz) <= PGROUNDUP(newsz) BY <1>1, <3>2, RoundOrder
        <4>2. r.sz = newsz BY <1>1, <2>1, <3>2
        <4> QED BY <1>1, <4>1, <4>2
      <3> QED BY <1>1, <3>1, <3>2
    <2>3. PGROUNDUP(r.sz) \in Nat BY <2>2, RoundUp DEF Fitting
    <2>4. \A a \in as : a \in UserVA /\ a < PGROUNDUP(r.sz) BY <1>1, <2>2, <2>3, Addresses
    <2> HIDE DEF as
    <2>5. Within(m.pt.leaf, r.m.pt.leaf, r.sz) BY <2>1, <2>4 DEF SameBut, Within
    <2> QED BY <1>3, <2>2, <2>5, WithinImage
  <1> QED BY <1>2, <1>3


----------------------------------------------------------------------------
(* Memory that is copied                                                   *)

\* Pages with the same permissions.
Like(leaf, old, S) ==
    \A a \in S : leaf[a].v = old[a].v /\ leaf[a].u = old[a].u /\ leaf[a].w = old[a].w

\* The loop of uvmcopy(): a page for each page, or it stops where there is no memory.
LEMMA CopyingSpec ==
    ASSUME NEW m, NEW tf, NEW X, Accounted(m, tf, X), NEW old, TableOK(old), NEW n \in Nat,
           n <= TRAPFRAME, \A a \in 0 .. n - 1 : ~m.pt.leaf[a].v
    PROVE  LET r == Copying(old, m, n)[n] IN
           /\ Accounted(r, tf, X) /\ r.panic = m.panic
           /\ SameBut(m.pt.leaf, r.pt.leaf, 0 .. n - 1)
           /\ r.ok => m.ok /\ Like(r.pt.leaf, old.leaf, 0 .. n - 1)
  <1> DEFINE step(k, x) == CopyLeaf(x, k - 1, old.leaf[k - 1])
             P(f) == f = [k \in 0 .. n |-> IF k = 0 THEN m ELSE step(k, f[k - 1])]
             S(k) == 0 .. k - 1
             Q(k, r) == /\ Accounted(r, tf, X) /\ r.panic = m.panic
                        /\ SameBut(m.pt.leaf, r.pt.leaf, S(k))
                        /\ r.ok => m.ok /\ Like(r.pt.leaf, old.leaf, S(k))
             T == [k \in 0 .. n |-> {r \in MemRec : Q(k, r)}]
             G == [q \in (1 .. n) \X MemRec |-> step(q[1], q[2])]
             c == Copying(old, m, n)
  <1>1. c = CHOOSE f : P(f) BY DEF Copying
  <1>2. ASSUME NEW k \in 1 .. n, NEW x \in MemRec, Q(k - 1, x)
        PROVE  step(k, x) \in MemRec /\ Q(k, step(k, x))
    <2> DEFINE a == k - 1
               l == old.leaf[a]
               r == step(k, x)
    <2>1. /\ a \in S(n) /\ a \notin S(k - 1) /\ a \in UserVA /\ a \in VA /\ a \in S(k)
          /\ \A y \in S(k) : y = a \/ y \in S(k - 1)
          /\ S(k - 1) \subseteq S(k) /\ S(k) \subseteq VA
      BY Addresses
    <2>2. x.pt.leaf[a] = m.pt.leaf[a] /\ ~m.pt.leaf[a].v BY <1>2, <2>1 DEF SameBut
    <2>3. l.u \in BOOLEAN /\ l.w \in BOOLEAN /\ (~l.v => l = NoLeaf)
      BY <2>1 DEF TableOK, Table, Leaf
    <2>4. m.pt.leaf[a] = NoLeaf BY <2>1, <2>2 DEF Accounted, TableOK
    <2>5. r = CopyLeaf(x, a, l) OBVIOUS
    <2>6. l = old.leaf[a] OBVIOUS
    <2> HIDE DEF a, S, l, step
    <2>7. CASE l.v
      <3> DEFINE q == UserPage(x, a, l.u, l.w)
      <3>1. Accounted(q, tf, X) /\ q.panic = x.panic /\ Paged(x, q, a, l.u, l.w)
        BY <1>2, <2>1, <2>2, <2>3, UserPageSpec
      <3>2. r = q BY <2>5, <2>7 DEF CopyLeaf
      <3> HIDE DEF q
      <3>3. SameBut(m.pt.leaf, q.pt.leaf, S(k)) BY <1>2, <2>1, <3>1 DEF SameBut, Paged
      <3>4. ASSUME q.ok PROVE m.ok /\ Like(q.pt.leaf, old.leaf, S(k))
        <4>1. x.ok /\ q.pt.leaf[a].v /\ q.pt.leaf[a].u = l.u /\ q.pt.leaf[a].w = l.w
          BY <3>1, <3>4 DEF Paged
        <4>2. q.pt.leaf[a].v = l.v
          <5>1. q.pt.leaf[a].v \in BOOLEAN /\ l.v \in BOOLEAN
            BY <2>1, <2>6, <3>1 DEF Accounted, TableOK, Table, Leaf
          <5> QED BY <2>7, <4>1, <5>1
        <4>3. \A y \in S(k - 1) : q.pt.leaf[y] = x.pt.leaf[y] BY <2>1, <3>1 DEF Paged, SameBut
        <4>4. m.ok /\ Like(x.pt.leaf, old.leaf, S(k - 1)) BY <1>2, <4>1
        <4>5. ASSUME NEW y \in S(k)
              PROVE  /\ q.pt.leaf[y].v = old.leaf[y].v /\ q.pt.leaf[y].u = old.leaf[y].u
                     /\ q.pt.leaf[y].w = old.leaf[y].w
          <5>1. CASE y = a BY <2>6, <4>1, <4>2, <5>1
          <5>2. CASE y \in S(k - 1) BY <4>3, <4>4, <5>2 DEF Like
          <5> QED BY <2>1, <5>1, <5>2
        <4> QED BY <4>4, <4>5 DEF Like
      <3>5. q.panic = m.panic /\ q \in MemRec BY <1>2, <3>1 DEF Accounted
      <3> QED BY <3>1, <3>2, <3>3, <3>4, <3>5
    <2>8. CASE ~l.v
      <3>1. r = x BY <2>5, <2>8 DEF CopyLeaf
      <3>2. SameBut(m.pt.leaf, x.pt.leaf, S(k)) BY <1>2, <2>1 DEF SameBut
      <3>3. x.ok => m.ok /\ Like(x.pt.leaf, old.leaf, S(k))
        BY <1>2, <2>1, <2>2, <2>3, <2>4, <2>6, <2>8 DEF Like
      <3> QED BY <1>2, <3>1, <3>2, <3>3
    <2> QED BY <2>7, <2>8
  <1>3. m \in MemRec /\ Q(0, m) BY DEF Accounted, SameBut, Like
  <1> HIDE DEF step, Q, c
  <1>4. \E f : P(f)
    <2>1. \A k \in 0 .. n : T[k] \subseteq MemRec OBVIOUS
    <2>2. m \in T[0]
      <3>1. 0 \in 0 .. n OBVIOUS
      <3> QED BY <1>3, <3>1
    <2>3. \A k \in 1 .. n : k \in 0 .. n /\ k - 1 \in 0 .. n /\ k # 0 OBVIOUS
    <2>4. ASSUME NEW k \in 1 .. n, NEW x \in T[k - 1] PROVE G[<<k, x>>] \in T[k]
      <3>1. x \in MemRec /\ Q(k - 1, x) BY <2>3
      <3>2. G[<<k, x>>] = step(k, x) BY <3>1
      <3> QED BY <1>2, <2>3, <3>1, <3>2
    <2>5. \A k \in 1 .. n : \A x \in MemRec : G[<<k, x>>] = step(k, x) OBVIOUS
    <2> HIDE DEF T, G
    <2>6. Staged(n, MemRec, T, m, G) BY <2>1, <2>2, <2>4 DEF Staged
    <2>7. PICK f : Runs(f, n, MemRec, T, m, G) BY <2>6, Loop
    <2>8. \A k \in 0 .. n : f[k] = IF k = 0 THEN m ELSE step(k, f[k - 1])
      <3>1. \A k \in 0 .. n : k = 0 \/ k \in 1 .. n OBVIOUS
      <3> QED BY <2>3, <2>5, <2>7, <3>1 DEF Runs
    <2>9. P(f)
      <3>1. f = [k \in 0 .. n |-> f[k]] BY <2>7 DEF Runs
      <3> QED BY <2>8, <3>1
    <2> QED BY <2>9
  <1>5. P(c)
    <2> HIDE DEF P
    <2> QED BY <1>1, <1>4
  <1> DEFINE U == {k \in 0 .. n : c[k] \in MemRec /\ Q(k, c[k])}
  <1>6. 0 \in U
    <2>1. 0 \in 0 .. n OBVIOUS
    <2> QED BY <1>3, <1>5, <2>1
  <1>7. ASSUME NEW k \in 1 .. n, k - 1 \in U PROVE k \in U
    <2>1. k \in 0 .. n /\ k # 0 OBVIOUS
    <2>2. c[k] = step(k, c[k - 1]) BY <1>5, <2>1
    <2> QED BY <1>2, <1>7, <2>1, <2>2
  <1>8. n \in U
    <2>1. n \in 0 .. n OBVIOUS
    <2> HIDE DEF U
    <2> QED BY <1>6, <1>7, <2>1, UpTo
  <1>9. Q(n, c[n]) BY <1>8
  <1> QED BY <1>9 DEF Q, c

\* uvmcopy() into a new table: all pages, or none.
LEMMA UvmcopySpec ==
    ASSUME NEW m, NEW tf, NEW X, Accounted(m, tf, X), NEW old, TableOK(old), NEW sz,
           Fitting(sz), Below(old, sz), \A a \in UserVA : m.pt.leaf[a] = NoLeaf
    PROVE  LET r == Uvmcopy(old, m, sz) IN
           /\ Accounted(r, tf, X) /\ r.panic = m.panic
           /\ SameBut(m.pt.leaf, r.pt.leaf, 0 .. PGROUNDUP(sz) - 1)
           /\ r.ok => m.ok /\ Like(r.pt.leaf, old.leaf, UserVA)
           /\ ~r.ok => SameBut(m.pt.leaf, r.pt.leaf, {})
  <1> DEFINE n == PGROUNDUP(sz)
             as == 0 .. n - 1
             c == Copying(old, m, n)[n]
             r == OrUnmap(c, as)
             d == Uvmunmap(c, as, TRUE)
  <1>1. n \in Nat /\ n <= TRAPFRAME /\ TRAPFRAME \in Nat BY RoundUp, Addresses DEF Fitting
  <1>2. as \subseteq UserVA /\ as \subseteq VA /\ \A a \in UserVA : a \in as \/ ~(a < n)
    BY <1>1, Addresses
  <1>3. \A a \in as : m.pt.leaf[a] = NoLeaf BY <1>2
  <1>4. ~NoLeaf.v BY DEF NoLeaf
  <1>5. Uvmcopy(old, m, sz) = r BY DEF Uvmcopy, UserPages
  <1>6. /\ Accounted(c, tf, X) /\ c.panic = m.panic /\ SameBut(m.pt.leaf, c.pt.leaf, as)
        /\ c.ok => m.ok /\ Like(c.pt.leaf, old.leaf, as)
    <2>1. \A a \in 0 .. n - 1 : ~m.pt.leaf[a].v BY <1>3, <1>4
    <2> HIDE DEF n
    <2> QED BY <1>1, <2>1, CopyingSpec
  <1>7. \A a \in UserVA : a \notin as => old.leaf[a] = NoLeaf
    <2>1. \A a \in UserVA : a \notin as => ~old.leaf[a].v BY <1>2 DEF Below
    <2>2. UserVA \subseteq VA BY Addresses
    <2> QED BY <2>1, <2>2 DEF TableOK
  <1> HIDE DEF c, as
  <1>8. CASE c.ok
    <2>1. r = c BY <1>8 DEF OrUnmap
    <2>2. \A a \in UserVA : a \in VA BY Addresses
    <2>3. \A a \in UserVA : a \notin as => c.pt.leaf[a] = NoLeaf BY <1>6, <2>2 DEF SameBut
    <2>4. Like(c.pt.leaf, old.leaf, UserVA)
      <3>1. ASSUME NEW a \in UserVA
            PROVE  /\ c.pt.leaf[a].v = old.leaf[a].v /\ c.pt.leaf[a].u = old.leaf[a].u
                   /\ c.pt.leaf[a].w = old.leaf[a].w
        <4>1. CASE a \in as BY <1>6, <1>8, <4>1 DEF Like
        <4>2. CASE a \notin as BY <1>7, <2>3, <4>2
        <4> QED BY <4>1, <4>2
      <3> QED BY <3>1 DEF Like
    <2> QED BY <1>5, <1>6, <1>8, <2>1, <2>4 DEF as, n
  <1>9. CASE ~c.ok
    <2>1. r = d BY <1>9 DEF OrUnmap
    <2>2. /\ Accounted(d, tf, X) /\ d.panic = c.panic /\ d.ok = c.ok
          /\ Cleared(c.pt.leaf, d.pt.leaf, as)
      BY <1>2, <1>6, UnmapUserSpec
    <2> HIDE DEF d, r
    <2>3. SameBut(m.pt.leaf, d.pt.leaf, {})
      <3>1. ASSUME NEW a \in VA PROVE d.pt.leaf[a] = m.pt.leaf[a]
        <4>1. CASE a \in as BY <1>3, <2>2, <4>1 DEF Cleared
        <4>2. CASE a \notin as BY <1>6, <2>2, <4>2 DEF Cleared, SameBut
        <4> QED BY <4>1, <4>2
      <3> QED BY <3>1 DEF SameBut
    <2>4. SameBut(m.pt.leaf, d.pt.leaf, as) BY <2>3 DEF SameBut
    <2> QED BY <1>5, <1>6, <1>9, <2>1, <2>2, <2>3, <2>4 DEF as, n
  <1> QED BY <1>8, <1>9

\* copyout(), copyin() and copyinstr().
Kinds == {"out", "in", "str"}

\* Each of them, of one page.
LEMMA PassedSpec ==
    ASSUME NEW m, NEW tf, NEW X, Accounted(m, tf, X), NEW kind \in Kinds,
           NEW a \in UserVA, NEW sz \in Nat
    PROVE  LET r == Passed(m, kind, a, sz) IN
           Accounted(r, tf, X) /\ r.panic = m.panic /\ Within(m.pt.leaf, r.pt.leaf, sz)
  <1> DEFINE r == Passed(m, kind, a, sz)
             t == Touch(m, a, sz)
             v == Vmfault(m, a, sz)
             l == m.pt.leaf[a]
  <1>1. l \in Leaf /\ m.ok \in BOOLEAN BY Addresses DEF Accounted, MemRec, Table
  <1>2. l.v \in BOOLEAN /\ l.u \in BOOLEAN /\ l.w \in BOOLEAN BY <1>1 DEF Leaf
  <1>3. Accounted(v, tf, X) /\ v.panic = m.panic /\ Within(m.pt.leaf, v.pt.leaf, sz)
    BY VmfaultSpec
  <1>4. Within(m.pt.leaf, m.pt.leaf, sz) BY DEF Within
  <1>5. Accounted(t, tf, X) /\ t.panic = m.panic /\ Within(m.pt.leaf, t.pt.leaf, sz)
    <2> HIDE DEF v
    <2>1. t = m \/ t = v BY DEF Touch, v
    <2> HIDE DEF t
    <2> QED BY <1>3, <1>4, <2>1
  <1> HIDE DEF t, v
  <1>6. CASE ~m.ok
    <2>1. r = m BY <1>6 DEF Passed
    <2> QED BY <1>4, <2>1
  <1>7. CASE m.ok /\ kind = "str"
    <2> DEFINE o == m.ok /\ l.v /\ l.u
               e == [m EXCEPT !.ok = o]
    <2>1. r = e BY <1>7 DEF Passed, CopyPage
    <2>2. o \in BOOLEAN BY <1>1, <1>2
    <2> HIDE DEF o
    <2>3. Accounted(e, tf, X) /\ e.panic = m.panic /\ e.pt = m.pt BY <2>2, OkSpec
    <2> HIDE DEF e, r
    <2> QED BY <1>4, <2>1, <2>3 DEF r
  <1>8. CASE m.ok /\ kind = "in"
    <2>1. r = t BY <1>8 DEF Passed, CopyPage, t
    <2> HIDE DEF r
    <2> QED BY <1>5, <2>1 DEF r
  <1>9. CASE m.ok /\ kind = "out"
    <2> DEFINE o == t.ok /\ (l.v => l.w)
               e == [t EXCEPT !.ok = o]
    <2>1. r = e BY <1>9 DEF Passed, CopyPage, t
    <2>2. o \in BOOLEAN BY <1>2
    <2> HIDE DEF o
    <2>3. Accounted(e, tf, X) /\ e.panic = t.panic /\ e.pt = t.pt BY <1>5, <2>2, OkSpec
    <2> HIDE DEF e, r
    <2> QED BY <1>5, <2>1, <2>3 DEF r
  <1> QED BY <1>6, <1>7, <1>8, <1>9 DEF Kinds

\* Their loop.
LEMMA PassingSpec ==
    ASSUME NEW m, NEW tf, NEW X, Accounted(m, tf, X), NEW kind \in Kinds,
           NEW first \in Nat, NEW n \in Nat, first + n <= TRAPFRAME, NEW sz \in Nat
    PROVE  LET r == Passing(m, kind, first, n, sz)[n] IN
           Accounted(r, tf, X) /\ r.panic = m.panic /\ Within(m.pt.leaf, r.pt.leaf, sz)
  <1> DEFINE step(k, x) == Passed(x, kind, first + k - 1, sz)
             P(f) == f = [k \in 0 .. n |-> IF k = 0 THEN m ELSE step(k, f[k - 1])]
             Q(k, r) == /\ Accounted(r, tf, X) /\ r.panic = m.panic
                        /\ Within(m.pt.leaf, r.pt.leaf, sz)
             T == [k \in 0 .. n |-> {r \in MemRec : Q(k, r)}]
             G == [q \in (1 .. n) \X MemRec |-> step(q[1], q[2])]
             c == Passing(m, kind, first, n, sz)
  <1>1. c = CHOOSE f : P(f) BY DEF Passing
  <1>2. ASSUME NEW k \in 1 .. n, NEW x \in MemRec, Q(k - 1, x)
        PROVE  step(k, x) \in MemRec /\ Q(k, step(k, x))
    <2> DEFINE a == first + k - 1
               r == Passed(x, kind, a, sz)
    <2>1. a \in UserVA BY Addresses
    <2>2. step(k, x) = r OBVIOUS
    <2> HIDE DEF a, step
    <2>3. Accounted(r, tf, X) /\ r.panic = x.panic /\ Within(x.pt.leaf, r.pt.leaf, sz)
      BY <1>2, <2>1, PassedSpec
    <2> HIDE DEF r
    <2>4. Within(m.pt.leaf, r.pt.leaf, sz) BY <1>2, <2>3 DEF Within
    <2> QED BY <1>2, <2>2, <2>3, <2>4 DEF Accounted
  <1>3. m \in MemRec /\ Q(0, m) BY DEF Accounted, Within
  <1> HIDE DEF step, Q, c
  <1>4. \E f : P(f)
    <2>1. \A k \in 0 .. n : T[k] \subseteq MemRec OBVIOUS
    <2>2. m \in T[0]
      <3>1. 0 \in 0 .. n OBVIOUS
      <3> QED BY <1>3, <3>1
    <2>3. \A k \in 1 .. n : k \in 0 .. n /\ k - 1 \in 0 .. n /\ k # 0 OBVIOUS
    <2>4. ASSUME NEW k \in 1 .. n, NEW x \in T[k - 1] PROVE G[<<k, x>>] \in T[k]
      <3>1. x \in MemRec /\ Q(k - 1, x) BY <2>3
      <3>2. G[<<k, x>>] = step(k, x) BY <3>1
      <3> QED BY <1>2, <2>3, <3>1, <3>2
    <2>5. \A k \in 1 .. n : \A x \in MemRec : G[<<k, x>>] = step(k, x) OBVIOUS
    <2> HIDE DEF T, G
    <2>6. Staged(n, MemRec, T, m, G) BY <2>1, <2>2, <2>4 DEF Staged
    <2>7. PICK f : Runs(f, n, MemRec, T, m, G) BY <2>6, Loop
    <2>8. \A k \in 0 .. n : f[k] = IF k = 0 THEN m ELSE step(k, f[k - 1])
      <3>1. \A k \in 0 .. n : k = 0 \/ k \in 1 .. n OBVIOUS
      <3> QED BY <2>3, <2>5, <2>7, <3>1 DEF Runs
    <2>9. P(f)
      <3>1. f = [k \in 0 .. n |-> f[k]] BY <2>7 DEF Runs
      <3> QED BY <2>8, <3>1
    <2> QED BY <2>9
  <1>5. P(c)
    <2> HIDE DEF P
    <2> QED BY <1>1, <1>4
  <1> DEFINE U == {k \in 0 .. n : c[k] \in MemRec /\ Q(k, c[k])}
  <1>6. 0 \in U
    <2>1. 0 \in 0 .. n OBVIOUS
    <2> QED BY <1>3, <1>5, <2>1
  <1>7. ASSUME NEW k \in 1 .. n, k - 1 \in U PROVE k \in U
    <2>1. k \in 0 .. n /\ k # 0 OBVIOUS
    <2>2. c[k] = step(k, c[k - 1]) BY <1>5, <2>1
    <2> QED BY <1>2, <1>7, <2>1, <2>2
  <1>8. n \in U
    <2>1. n \in 0 .. n OBVIOUS
    <2> HIDE DEF U
    <2> QED BY <1>6, <1>7, <2>1, UpTo
  <1>9. Q(n, c[n]) BY <1>8
  <1> QED BY <1>9 DEF Q, c

----------------------------------------------------------------------------
(* The image of a program                                                  *)

\* uvmclear() of a mapped page only takes it away from the user.
LEMMA UvmclearSpec ==
    ASSUME NEW m, NEW tf, NEW X, Accounted(m, tf, X), NEW a \in UserVA, m.pt.leaf[a].v
    PROVE  LET r == Uvmclear(m, a) IN
           /\ Accounted(r, tf, X) /\ r.panic = m.panic /\ r.ok = m.ok
           /\ SameBut(m.pt.leaf, r.pt.leaf, {a})
  <1> DEFINE r == Uvmclear(m, a)
             l == [m.pt.leaf[a] EXCEPT !.u = FALSE]
             pt == [m.pt EXCEPT !.leaf[a] = l]
             h == Held(tf, m.pt)
  <1>1. /\ m \in MemRec /\ m.pt \in Table /\ TableOK(m.pt) /\ tf \in 0 .. NPAGE
        /\ m.pt.leaf \in [VA -> Leaf] /\ a \in VA /\ m.pt.leaf[a] \in Leaf
    BY Addresses DEF Accounted, MemRec, Table
  <1>2. l \in Leaf /\ l.v = m.pt.leaf[a].v /\ l.pa = m.pt.leaf[a].pa BY <1>1 DEF Leaf
  <1>3. r = [m EXCEPT !.pt = pt]
    <2>1. m.pt.node[<<0, a \div FAN>>] # 0 BY <1>1 DEF TableOK, Hung
    <2> QED BY <1>1, <2>1 DEF Uvmclear, Table
  <1> HIDE DEF l
  <1>4. /\ pt \in Table /\ pt.root = m.pt.root /\ pt.node = m.pt.node
        /\ pt.leaf = [m.pt.leaf EXCEPT ![a] = l]
    BY <1>1, <1>2 DEF Table
  <1> HIDE DEF pt
  <1>5. r \in MemRec /\ r.pt = pt /\ r.free = m.free /\ r.panic = m.panic /\ r.ok = m.ok
    BY <1>1, <1>3, <1>4 DEF MemRec
  <1> HIDE DEF r
  <1>6. pt.leaf[a] = l /\ \A x \in VA : x # a => pt.leaf[x] = m.pt.leaf[x] BY <1>1, <1>4
  <1>7. TableOK(pt)
    <2>1. \A x \in VA : Hung(pt, x) <=> Hung(m.pt, x) BY <1>4 DEF Hung
    <2>2. \A x \in VA : ~pt.leaf[x].v => pt.leaf[x] = NoLeaf
      BY <1>1, <1>2, <1>6 DEF TableOK
    <2>3. \A x \in VA : pt.leaf[x].v = m.pt.leaf[x].v /\ pt.leaf[x].pa = m.pt.leaf[x].pa
      BY <1>2, <1>6
    <2>4. UserVA \subseteq VA BY Addresses
    <2> QED BY <1>1, <1>4, <2>1, <2>2, <2>3, <2>4 DEF TableOK
  <1>8. h \in [Cell -> 0 .. NPAGE] /\ Split(m.free, h, X) BY DEF Accounted, Split
  <1>9. /\ h[<<"tf", 0>>] = tf /\ h[<<"root", 0>>] = m.pt.root
        /\ \A n \in Nodes : h[<<"node", n>>] = m.pt.node[n]
        /\ \A x \in UserVA : h[<<"leaf", x>>] = m.pt.leaf[x].pa
    BY HeldAt
  <1> HIDE DEF h
  <1>10. Held(tf, pt) = h
    <2>1. UserVA \subseteq VA BY Addresses
    <2>2. \A x \in UserVA : h[<<"leaf", x>>] = pt.leaf[x].pa BY <1>2, <1>6, <1>9, <2>1
    <2>3. h[<<"root", 0>>] = pt.root /\ \A n \in Nodes : h[<<"node", n>>] = pt.node[n]
      BY <1>4, <1>9
    <2> QED BY <1>8, <1>9, <2>2, <2>3, HeldIs
  <1>11. Accounted(r, tf, X) BY <1>1, <1>5, <1>7, <1>8, <1>10 DEF Accounted
  <1>12. SameBut(m.pt.leaf, r.pt.leaf, {a}) BY <1>5, <1>6 DEF SameBut
  <1> QED BY <1>5, <1>11, <1>12 DEF r

\* What leaves room for a stack fits.
LEMMA RoomyFits ==
    ASSUME NEW sz, Roomy(sz)
    PROVE  Fitting(sz)
  <1>1. PGROUNDUP(sz) \in Nat /\ USERSTACK \in Nat /\ TRAPFRAME \in Nat
    BY RoundUp, Addresses, MemoryAssumption DEF Roomy
  <1> QED BY <1>1 DEF Roomy, Fitting

Loads == [m : MemRec, sz : Nat, ok : BOOLEAN]

\* An image being loaded into the table that m began with, if there is one.
Image0(m, s, c, X, tf) ==
    /\ s \in Loads /\ Accounted(s.m, c, X) /\ s.m.panic = m.panic
    /\ s.m.ok = m.ok /\ (s.ok => m.ok)
    /\ m.ok => Image(s.m.pt, s.sz, tf)
    /\ ~m.ok => s.m.pt = NoTable

\* A segment.
LEMMA SegmentSpec ==
    ASSUME NEW m, NEW s, NEW c, NEW X, NEW tf, Image0(m, s, c, X, tf), Roomy(s.sz),
           NEW seg, Roomy(seg.end), seg.w \in BOOLEAN
    PROVE  LET r == Segment(s, seg) IN Image0(m, r, c, X, tf) /\ Roomy(r.sz)
  <1> DEFINE u == Uvmalloc(s.m, s.sz, seg.end, seg.w)
             r == Segment(s, seg)
             e == seg.end
             w == seg.w
  <1>1. CASE ~s.ok
    <2>1. r = s BY <1>1 DEF Segment
    <2> QED BY <2>1
  <1>2. CASE s.ok
    <2>1. /\ m.ok /\ s.m.ok /\ s.sz \in Nat /\ Image(s.m.pt, s.sz, tf) /\ Accounted(s.m, c, X)
          /\ s.m \in MemRec
      <3>1. s.sz \in Nat /\ m.ok BY <1>2 DEF Image0, Loads
      <3>2. s.m.ok BY <3>1 DEF Image0
      <3> QED BY <3>1, <3>2 DEF Image0, Accounted
    <2>2. Fitting(e) /\ Below(s.m.pt, s.sz) BY <2>1, RoomyFits DEF Image
    <2>3. r = LoadedSegment(s.sz, u) BY <1>2 DEF Segment
    <2>4. Accounted(u.m, c, X) /\ u.m.panic = s.m.panic /\ Alloc(s.m, u, s.sz, e)
      <3>1. w \in BOOLEAN OBVIOUS
      <3> HIDE DEF e, w
      <3>2. u = Uvmalloc(s.m, s.sz, e, w) BY DEF e, w
      <3> HIDE DEF u
      <3> DEFINE q == Uvmalloc(s.m, s.sz, e, w)
      <3>3. Accounted(q.m, c, X) /\ q.m.panic = s.m.panic /\ Alloc(s.m, q, s.sz, e)
        BY <2>1, <2>2, <3>1, UvmallocSpec
      <3> HIDE DEF q
      <3> QED BY <3>2, <3>3 DEF q
    <2>5. /\ u.sz # 0 => Image(u.m.pt, u.sz, tf)
          /\ u.sz = 0 => Image(u.m.pt, s.sz, tf)
      <3> HIDE DEF u, e
      <3> QED BY <2>1, <2>2, <2>4, AllocImage
    <2>6. u.sz # 0 => Roomy(u.sz) /\ u.sz \in Nat BY <2>4 DEF Alloc, Roomy
    <2>7. u.m.ok /\ u.m \in MemRec BY <2>4 DEF Alloc, Accounted
    <2> HIDE DEF u
    <2>8. r.m = u.m /\ r.sz = (IF u.sz = 0 THEN s.sz ELSE u.sz) /\ r.ok = (u.sz # 0)
      BY <2>3 DEF LoadedSegment
    <2>9. r \in Loads
      <3>1. r = [m |-> u.m, sz |-> IF u.sz = 0 THEN s.sz ELSE u.sz, ok |-> u.sz # 0]
        BY <2>3 DEF LoadedSegment
      <3> HIDE DEF r
      <3> QED BY <2>1, <2>6, <2>7, <3>1 DEF Loads
    <2> HIDE DEF r
    <2>10. Image(r.m.pt, r.sz, tf) /\ Roomy(r.sz) BY <2>5, <2>6, <2>8
    <2>11. u.m.panic = m.panic /\ r.m.ok = m.ok
      <3>1. m.ok = s.m.ok /\ s.m.ok \in BOOLEAN /\ u.m.ok \in BOOLEAN
        BY <2>1, <2>7 DEF Image0, MemRec
      <3> QED BY <2>1, <2>4, <2>7, <2>8, <3>1 DEF Image0
    <2> QED BY <2>1, <2>4, <2>8, <2>9, <2>10, <2>11 DEF Image0, r
  <1>3. s.ok \in BOOLEAN BY DEF Image0, Loads
  <1> QED BY <1>1, <1>2

\* All segments.
LEMMA LoadingSpec ==
    ASSUME NEW m, NEW c0, NEW X, NEW tf, Accounted(m, c0, X), m.ok => Fresh(m.pt.leaf, tf),
           ~m.ok => m.pt = NoTable, NEW prog \in Programs
    PROVE  LET s == Loading(m, prog)[Len(prog)] IN Image0(m, s, c0, X, tf) /\ Roomy(s.sz)
  <1> DEFINE n == Len(prog)
             s0 == [m |-> m, sz |-> 0, ok |-> m.ok]
             step(k, x) == Segment(x, prog[k])
             P(f) == f = [k \in 0 .. n |-> IF k = 0 THEN s0 ELSE step(k, f[k - 1])]
             Q(k, s) == Image0(m, s, c0, X, tf) /\ Roomy(s.sz)
             T == [k \in 0 .. n |-> {s \in Loads : Q(k, s)}]
             G == [q \in (1 .. n) \X Loads |-> step(q[1], q[2])]
             c == Loading(m, prog)
  <1>0. /\ n \in Nat
        /\ \A k \in 1 .. n : Roomy(prog[k].end) /\ prog[k].w \in BOOLEAN
    <2> DEFINE R == [end : Nat, w : BOOLEAN]
    <2>1. prog \in Seq(R) BY MemoryAssumption
    <2>2. n \in Nat /\ \A k \in 1 .. n : prog[k] \in R
      <3> HIDE DEF R
      <3> QED BY <2>1
    <2>3. \A k \in 1 .. n : prog[k].w \in BOOLEAN BY <2>2
    <2>4. \A k \in 1 .. n : Roomy(prog[k].end) BY ImagesFit
    <2> QED BY <2>2, <2>3, <2>4
  <1>1. c = CHOOSE f : P(f) BY DEF Loading
  <1>2. ASSUME NEW k \in 1 .. n, NEW x \in Loads, Q(k - 1, x)
        PROVE  step(k, x) \in Loads /\ Q(k, step(k, x))
    <2> DEFINE seg == prog[k]
               r == Segment(x, seg)
    <2>1. Roomy(seg.end) /\ seg.w \in BOOLEAN BY <1>0
    <2>2. step(k, x) = r OBVIOUS
    <2> HIDE DEF seg, step, n
    <2>3. Image0(m, r, c0, X, tf) /\ Roomy(r.sz) BY <1>2, <2>1, SegmentSpec
    <2> HIDE DEF r
    <2> QED BY <2>2, <2>3 DEF Image0
  <1>3. s0 \in Loads /\ Q(0, s0)
    <2>1. s0.m = m /\ s0.sz = 0 /\ s0.ok = m.ok OBVIOUS
    <2>2. m \in MemRec /\ m.ok \in BOOLEAN BY DEF Accounted, MemRec
    <2>3. s0 \in Loads BY <2>2 DEF Loads
    <2> HIDE DEF s0
    <2>4. Roomy(0) BY ImagesFit
    <2>5. ASSUME m.ok PROVE Image(m.pt, 0, tf)
      <3>1. Fresh(m.pt.leaf, tf) BY <2>5
      <3>2. ~NoLeaf.v BY DEF NoLeaf
      <3>3. Below(m.pt, 0) BY <3>1, <3>2 DEF Fresh, Below
      <3> QED BY <2>4, <3>1, <3>3, RoomyFits DEF Fresh, Image, Top
    <2> QED BY <2>1, <2>2, <2>3, <2>4, <2>5 DEF Image0
  <1> HIDE DEF step, Q, c, n, s0
  <1>4. \E f : P(f)
    <2>1. \A k \in 0 .. n : T[k] \subseteq Loads OBVIOUS
    <2>2. s0 \in T[0]
      <3>1. 0 \in 0 .. n BY <1>0
      <3> QED BY <1>3, <3>1
    <2>3. \A k \in 1 .. n : k \in 0 .. n /\ k - 1 \in 0 .. n /\ k # 0 BY <1>0
    <2>4. ASSUME NEW k \in 1 .. n, NEW x \in T[k - 1] PROVE G[<<k, x>>] \in T[k]
      <3>1. x \in Loads /\ Q(k - 1, x) BY <2>3
      <3>2. G[<<k, x>>] = step(k, x) BY <3>1
      <3> QED BY <1>2, <2>3, <3>1, <3>2
    <2>5. \A k \in 1 .. n : \A x \in Loads : G[<<k, x>>] = step(k, x) OBVIOUS
    <2> HIDE DEF T, G
    <2>6. Staged(n, Loads, T, s0, G) BY <1>0, <2>1, <2>2, <2>4 DEF Staged
    <2>7. PICK f : Runs(f, n, Loads, T, s0, G) BY <2>6, Loop
    <2>8. \A k \in 0 .. n : f[k] = IF k = 0 THEN s0 ELSE step(k, f[k - 1])
      <3>1. \A k \in 0 .. n : k = 0 \/ k \in 1 .. n BY <1>0
      <3> QED BY <2>3, <2>5, <2>7, <3>1 DEF Runs
    <2>9. P(f)
      <3>1. f = [k \in 0 .. n |-> f[k]] BY <2>7 DEF Runs
      <3> QED BY <2>8, <3>1
    <2> QED BY <2>9
  <1>5. P(c)
    <2> HIDE DEF P
    <2> QED BY <1>1, <1>4
  <1> DEFINE U == {k \in 0 .. n : c[k] \in Loads /\ Q(k, c[k])}
  <1>6. 0 \in U
    <2>1. 0 \in 0 .. n BY <1>0
    <2> QED BY <1>3, <1>5, <2>1
  <1>7. ASSUME NEW k \in 1 .. n, k - 1 \in U PROVE k \in U
    <2>1. k \in 0 .. n /\ k # 0 BY <1>0
    <2>2. c[k] = step(k, c[k - 1]) BY <1>5, <2>1
    <2> QED BY <1>2, <1>7, <2>1, <2>2
  <1>8. n \in U
    <2>1. n \in 0 .. n BY <1>0
    <2> HIDE DEF U
    <2> QED BY <1>0, <1>6, <1>7, <2>1, UpTo
  <1>9. Q(n, c[n]) BY <1>8
  <1> QED BY <1>9 DEF Q, c, n

\* The whole program, if its file can be read.
LEMMA LoadSegmentsSpec ==
    ASSUME NEW m, NEW c, NEW X, NEW tf, Accounted(m, c, X), m.ok => Fresh(m.pt.leaf, tf),
           ~m.ok => m.pt = NoTable, NEW prog \in Programs, NEW fails
    PROVE  LET s == LoadSegments(m, prog, fails) IN Image0(m, s, c, X, tf) /\ Roomy(s.sz)
  <1> DEFINE l == Loading(m, prog)[Len(prog)]
             s == LoadSegments(m, prog, fails)
             o == l.ok /\ Loadseg(fails)
  <1>1. Image0(m, l, c, X, tf) /\ Roomy(l.sz) BY LoadingSpec
  <1>2. s = [l EXCEPT !.ok = o] BY DEF LoadSegments
  <1> HIDE DEF l
  <1>3. l \in Loads /\ l.ok \in BOOLEAN BY <1>1 DEF Image0, Loads
  <1>4. o \in BOOLEAN /\ (o => l.ok) BY <1>3
  <1> HIDE DEF o
  <1>5. s \in Loads /\ s.m = l.m /\ s.sz = l.sz /\ s.ok = o BY <1>2, <1>3, <1>4 DEF Loads
  <1> HIDE DEF s
  <1>6. Image0(m, s, c, X, tf)
    <2>1. s.ok => m.ok BY <1>1, <1>4, <1>5 DEF Image0
    <2> QED BY <1>1, <1>5, <2>1 DEF Image0
  <1> QED BY <1>1, <1>5, <1>6 DEF s

\* The stack: its guard page is there for uvmclear().
LEMMA StackSpec ==
    ASSUME NEW m, NEW s, NEW c, NEW X, NEW tf, Image0(m, s, c, X, tf), Roomy(s.sz), NEW fails
    PROVE  LET r == Stack(s, fails) IN Image0(m, r, c, X, tf)
  <1> DEFINE a == PGROUNDUP(s.sz)
             base == a * PGSIZE
             top == base + (USERSTACK + 1) * PGSIZE
             u == Uvmalloc(s.m, base, top, TRUE)
             k == Uvmclear(u.m, PGROUNDUP(base))
             r == Stack(s, fails)
  <1>1. CASE ~s.ok
    <2>1. r = s BY <1>1 DEF Stack
    <2> QED BY <2>1
  <1>2. CASE s.ok
    <2>1. /\ m.ok /\ s.m.ok /\ s.sz \in Nat /\ Image(s.m.pt, s.sz, tf) /\ Accounted(s.m, c, X)
          /\ s.m.panic = m.panic /\ s.m \in MemRec /\ m.ok \in BOOLEAN
      <3>1. s.sz \in Nat /\ m.ok BY <1>2 DEF Image0, Loads
      <3>2. s.m.ok /\ s.m.ok = m.ok BY <3>1 DEF Image0
      <3>3. s.m \in MemRec BY DEF Image0, Accounted
      <3>4. m.ok \in BOOLEAN BY <3>2, <3>3 DEF MemRec
      <3> QED BY <3>1, <3>2, <3>3, <3>4 DEF Image0
    <2>2. /\ a \in Nat /\ a + USERSTACK + 1 <= TRAPFRAME /\ USERSTACK \in Nat /\ USERSTACK > 0
          /\ TRAPFRAME \in Nat /\ PGSIZE \in Nat /\ PGSIZE > 0
      <3>1. Roomy(s.sz) OBVIOUS
      <3>2. a + USERSTACK + 1 <= TRAPFRAME BY <3>1 DEF Roomy
      <3>3. a \in Nat BY <2>1, RoundUp
      <3>4. TRAPFRAME \in Nat BY Addresses
      <3>5. USERSTACK \in Nat /\ USERSTACK > 0 /\ PGSIZE \in Nat /\ PGSIZE > 0 BY MemoryAssumption
      <3> QED BY <3>2, <3>3, <3>4, <3>5
    <2>3. base \in Nat /\ PGROUNDUP(base) = a BY <2>2, RoundWhole
    <2>4. /\ top = (a + USERSTACK + 1) * PGSIZE /\ top \in Nat
          /\ PGROUNDUP(top) = a + USERSTACK + 1 /\ base < top /\ top # 0
      <3>1. top = (a + (USERSTACK + 1)) * PGSIZE
        <4> DEFINE d == USERSTACK + 1
        <4>1. d \in Nat BY <2>2
        <4> HIDE DEF d, a
        <4>2. a * PGSIZE + d * PGSIZE = (a + d) * PGSIZE BY <2>2, <4>1
        <4> QED BY <4>2 DEF d
      <3>2. a + (USERSTACK + 1) = a + USERSTACK + 1 /\ a + USERSTACK + 1 \in Nat BY <2>2
      <3>3. top = (a + USERSTACK + 1) * PGSIZE BY <3>1, <3>2
      <3>4. PGROUNDUP(top) = a + USERSTACK + 1 /\ top \in Nat BY <3>2, <3>3, RoundWhole
      <3>5. ~(top <= base)
        <4> SUFFICES ASSUME top <= base PROVE FALSE OBVIOUS
        <4>1. PGROUNDUP(top) <= PGROUNDUP(base) BY <2>3, <3>4, RoundOrder
        <4> HIDE DEF a, base, top
        <4> QED BY <2>2, <2>3, <3>4, <4>1
      <3> HIDE DEF a, base, top
      <3> QED BY <2>3, <3>3, <3>4, <3>5
    <2> HIDE DEF top
    <2>5. Fitting(base) /\ Fitting(top) BY <2>2, <2>3, <2>4 DEF Fitting
    <2>6. Image(s.m.pt, base, tf) /\ Below(s.m.pt, base)
      BY <2>1, <2>3, <2>5 DEF Image, Below
    <2>7. r = Stacked(base, u, fails) BY <1>2 DEF Stack, top
    <2> HIDE DEF base
    <2>8. Accounted(u.m, c, X) /\ u.m.panic = s.m.panic /\ Alloc(s.m, u, base, top)
      <3>1. TRUE \in BOOLEAN OBVIOUS
      <3> QED BY <2>1, <2>3, <2>5, <2>6, <3>1, UvmallocSpec
    <2> HIDE DEF u, r
    <2>9. /\ u.sz # 0 => Image(u.m.pt, u.sz, tf)
          /\ u.sz = 0 => Image(u.m.pt, base, tf)
      BY <2>5, <2>6, <2>8, AllocImage
    <2>10. u.m.ok /\ u.m.ok \in BOOLEAN /\ u.m \in MemRec
      BY <2>8 DEF Alloc, Accounted, MemRec
    <2>11. CASE u.sz = 0
      <3>1. r = [m |-> u.m, sz |-> base, ok |-> FALSE] BY <2>7, <2>11 DEF Stacked
      <3>2. r \in Loads /\ r.m = u.m /\ r.sz = base /\ ~r.ok BY <2>3, <2>10, <3>1 DEF Loads
      <3>3. r.m.ok = m.ok BY <2>1, <2>10, <3>2
      <3> QED BY <2>1, <2>8, <2>9, <2>11, <3>2, <3>3 DEF Image0, r
    <2>12. CASE u.sz # 0
      <3>0. u.sz = top
        <4>1. u.sz = IF top < base THEN base ELSE top BY <2>8, <2>12 DEF Alloc
        <4> QED BY <2>3, <2>4, <4>1
      <3>1. a \in UserVA /\ u.m.pt.leaf[a].v /\ a < PGROUNDUP(top)
        <4>1. AllMapped(u.m.pt.leaf, PGROUNDUP(base) .. PGROUNDUP(top) - 1)
          <5>1. base <= top BY <2>3, <2>4
          <5> QED BY <2>8, <2>12, <5>1 DEF Alloc
        <4> HIDE DEF a
        <4>2. a \in PGROUNDUP(base) .. PGROUNDUP(top) - 1 BY <2>2, <2>3, <2>4
        <4> QED BY <2>2, <2>4, <4>1, <4>2, Addresses DEF AllMapped
      <3>2. Accounted(k, c, X) /\ k.panic = u.m.panic /\ k.ok = u.m.ok
            /\ SameBut(u.m.pt.leaf, k.pt.leaf, {a})
        <4> DEFINE q == Uvmclear(u.m, a)
        <4>1. Accounted(q, c, X) /\ q.panic = u.m.panic /\ q.ok = u.m.ok
              /\ SameBut(u.m.pt.leaf, q.pt.leaf, {a})
          <5> HIDE DEF a
          <5> QED BY <2>8, <3>1, UvmclearSpec
        <4>2. k = q BY <2>3
        <4> HIDE DEF q, k, a
        <4> QED BY <4>1, <4>2
      <3>3. r = [m |-> k, sz |-> u.sz, ok |-> fails # "args"] BY <2>7, <2>12 DEF Stacked
      <3> HIDE DEF k
      <3>4. r \in Loads /\ r.m = k /\ r.sz = top
        BY <2>4, <3>0, <3>2, <3>3 DEF Loads, Accounted
      <3>5. Image(k.pt, top, tf)
        <4>1. Within(u.m.pt.leaf, k.pt.leaf, top)
          <5> HIDE DEF a
          <5> QED BY <3>1, <3>2 DEF SameBut, Within
        <4>2. Image(u.m.pt, top, tf) BY <2>9, <2>12, <3>0
        <4>3. PGROUNDUP(top) <= PGROUNDUP(top) BY <2>2, <2>4
        <4> QED BY <2>5, <4>1, <4>2, <4>3, WithinImage
      <3>6. k.ok = m.ok /\ k.panic = m.panic BY <2>1, <2>8, <2>10, <3>2
      <3> QED BY <2>1, <3>2, <3>4, <3>5, <3>6 DEF Image0, r
    <2> QED BY <2>11, <2>12
  <1>3. s.ok \in BOOLEAN BY DEF Image0, Loads
  <1> QED BY <1>1, <1>2, <1>3

\* A trapframe page that becomes a process's, and one that is freed.
LEMMA TrapframeTaken ==
    ASSUME NEW m, NEW X, NEW b \in Page, b \notin X, Accounted(m, 0, X \cup {b})
    PROVE  Split(m.free, Held(b, m.pt), X)
  <1> DEFINE h == Held(0, m.pt)
             g == [h EXCEPT ![<<"tf", 0>>] = b]
  <1>1. Split(m.free, h, X \cup {b}) /\ h \in [Cell -> 0 .. NPAGE] BY DEF Accounted, Split
  <1>2. /\ h[<<"tf", 0>>] = 0 /\ h[<<"root", 0>>] = m.pt.root
        /\ \A n \in Nodes : h[<<"node", n>>] = m.pt.node[n]
        /\ \A a \in UserVA : h[<<"leaf", a>>] = m.pt.leaf[a].pa
    BY HeldAt
  <1> HIDE DEF h
  <1>3. <<"tf", 0>> \in Cell BY CellCases
  <1>4. Split(m.free, g, X) BY <1>1, <1>2, <1>3, SplitPlace
  <1>5. g \in [Cell -> 0 .. NPAGE] BY <1>4 DEF Split
  <1>6. g[<<"tf", 0>>] = b /\ \A c \in Cell : c # <<"tf", 0>> => g[c] = h[c] BY <1>1, <1>3
  <1> HIDE DEF g
  <1>7. g[<<"root", 0>>] = m.pt.root BY <1>2, <1>6, CellCases
  <1>8. \A n \in Nodes : g[<<"node", n>>] = m.pt.node[n]
    <2>1. \A n \in Nodes : <<"node", n>> # <<"tf", 0>> OBVIOUS
    <2> QED BY <1>2, <1>6, <2>1, CellCases
  <1>9. \A a \in UserVA : g[<<"leaf", a>>] = m.pt.leaf[a].pa
    <2>1. \A a \in UserVA : <<"leaf", a>> # <<"tf", 0>> OBVIOUS
    <2> QED BY <1>2, <1>6, <2>1, CellCases
  <1>10. Held(b, m.pt) = g BY <1>5, <1>6, <1>7, <1>8, <1>9, HeldIs
  <1> QED BY <1>4, <1>10

\* The trapframe, freed before the table.
LEMMA TrapframeFreed ==
    ASSUME NEW m, NEW X, NEW tf, tf # 0, Accounted(m, tf, X)
    PROVE  LET r == Kfree(m, {tf}) IN Accounted(r, 0, X) /\ r.panic = m.panic /\ r.pt = m.pt
  <1> DEFINE r == Kfree(m, {tf})
             h == Held(tf, m.pt)
             C == {<<"tf", 0>>}
             g == [c \in Cell |-> IF c \in C THEN 0 ELSE h[c]]
  <1>0. m \in MemRec /\ tf \in Page BY PageRange DEF Accounted
  <1>1. Split(m.free, h, X) BY DEF Accounted
  <1>2. /\ h[<<"tf", 0>>] = tf /\ h[<<"root", 0>>] = m.pt.root
        /\ \A n \in Nodes : h[<<"node", n>>] = m.pt.node[n]
        /\ \A a \in UserVA : h[<<"leaf", a>>] = m.pt.leaf[a].pa
    BY HeldAt
  <1> HIDE DEF h
  <1>3. Split(m.free \cup ({h[c] : c \in C} \ {0}), g, X)
    <2>1. C \subseteq Cell BY CellCases
    <2> HIDE DEF C
    <2> QED BY <1>1, <2>1, SplitDrop
  <1>4. {h[c] : c \in C} \ {0} = {tf} BY <1>2
  <1>5. Held(0, m.pt) = g
    <2>1. g \in [Cell -> 0 .. NPAGE] BY <1>3 DEF Split
    <2>2. \A c \in Cell : g[c] = IF c = <<"tf", 0>> THEN 0 ELSE h[c] OBVIOUS
    <2> HIDE DEF g
    <2>3. g[<<"tf", 0>>] = 0 /\ g[<<"root", 0>>] = m.pt.root BY <1>2, <2>2, CellCases
    <2>4. \A n \in Nodes : g[<<"node", n>>] = m.pt.node[n]
      <3>1. \A n \in Nodes : <<"node", n>> # <<"tf", 0>> OBVIOUS
      <3> QED BY <1>2, <2>2, <3>1, CellCases
    <2>5. \A a \in UserVA : g[<<"leaf", a>>] = m.pt.leaf[a].pa
      <3>1. \A a \in UserVA : <<"leaf", a>> # <<"tf", 0>> OBVIOUS
      <3> QED BY <1>2, <2>2, <3>1, CellCases
    <2> QED BY <2>1, <2>3, <2>4, <2>5, HeldIs
  <1> HIDE DEF g, C
  <1>6. r \in MemRec /\ r.free = m.free \cup {tf} /\ r.pt = m.pt /\ r.panic = m.panic
    BY <1>0 DEF Kfree, MemRec
  <1> HIDE DEF r
  <1>7. Split(r.free, Held(0, r.pt), X) BY <1>3, <1>4, <1>5, <1>6
  <1> QED BY <1>6, <1>7, PageRange DEF Accounted, r

----------------------------------------------------------------------------
(* All processes                                                           *)

\* The pages of process q, and those that process p does not have.
Own(pr, q) == Held(pr[q].tf, pr[q].pt)
Rest(pr, gr, p) == gr \cup UNION {PagesOf(Own(pr, q)) : q \in Proc \ {p}}

\* A slot of the process table.
ProcRec == [sz : 0 .. TRAPFRAME * PGSIZE, tf : 0 .. NPAGE, pt : Table]
SlotOK(r) ==
    /\ r \in ProcRec /\ TableOK(r.pt)
    /\ r.tf = 0 => r = Unused
    /\ r.tf # 0 => Image(r.pt, r.sz, r.tf)

\* Free pages, process table and grabbed pages as they are between operations.
MemGood(F, pr, gr) ==
    /\ pr \in [Proc -> ProcRec]
    /\ \A p \in Proc : SlotOK(pr[p]) /\ Split(F, Own(pr, p), Rest(pr, gr, p))

\* The inductive invariant.
MemInv == MemGood(free, proc, grabbed) /\ panicked = FALSE

\* What is in the rest.
LEMMA InRest ==
    ASSUME NEW pr, NEW gr, NEW p, NEW b
    PROVE  b \in Rest(pr, gr, p) <=>
             b \in gr \/ \E q \in Proc \ {p} : b \in PagesOf(Own(pr, q))
  BY DEF Rest

\* A free slot is a good one.
LEMMA UnusedOK == SlotOK(Unused) /\ Unused.tf = 0 /\ Unused.pt = NoTable
  <1>1. 0 \in 0 .. TRAPFRAME * PGSIZE /\ 0 \in 0 .. NPAGE
    BY Addresses, MemoryAssumption, FittingSize, RoundUp DEF Fitting
  <1> QED BY <1>1, NoTableOK DEF SlotOK, Unused, ProcRec

\* An operation on process p begins with its table and the free list.
LEMMA Enter ==
    ASSUME NEW F, NEW pr, NEW gr, MemGood(F, pr, gr), NEW p \in Proc
    PROVE  LET m == Mem(F, pr[p].pt) IN
           /\ Accounted(m, pr[p].tf, Rest(pr, gr, p)) /\ m.ok /\ ~m.panic
           /\ m.free = F /\ m.pt = pr[p].pt
  <1> DEFINE m == Mem(F, pr[p].pt)
  <1>1. /\ pr[p].tf \in 0 .. NPAGE /\ TableOK(pr[p].pt) /\ pr[p].pt \in Table
        /\ Split(F, Held(pr[p].tf, pr[p].pt), Rest(pr, gr, p))
    BY DEF MemGood, SlotOK, ProcRec, Own
  <1>2. F \subseteq Page BY <1>1 DEF Split
  <1>3. m.ok /\ ~m.panic /\ m.free = F /\ m.pt = pr[p].pt /\ m \in MemRec
    BY <1>1, <1>2, PageRange DEF Mem, MemRec
  <1> HIDE DEF m
  <1> QED BY <1>1, <1>3 DEF Accounted, m

\* A slot that changes with the free list leaves the others' pages alone.
LEMMA SlotReplaced ==
    ASSUME NEW F, NEW pr, NEW gr, MemGood(F, pr, gr), NEW p \in Proc, NEW r, SlotOK(r),
           NEW F2, Split(F2, Held(r.tf, r.pt), Rest(pr, gr, p))
    PROVE  MemGood(F2, [pr EXCEPT ![p] = r], gr)
  <1> DEFINE pr2 == [pr EXCEPT ![p] = r]
             h == Held(r.tf, r.pt)
  <1>1. pr \in [Proc -> ProcRec] BY DEF MemGood
  <1>2. /\ pr2 \in [Proc -> ProcRec] /\ pr2[p] = r
        /\ \A q \in Proc : q # p => pr2[q] = pr[q]
    BY <1>1 DEF SlotOK
  <1> HIDE DEF pr2
  <1>3. Own(pr2, p) = h /\ \A q \in Proc : q # p => Own(pr2, q) = Own(pr, q) BY <1>2 DEF Own
  <1> HIDE DEF h
  <1>4. Rest(pr2, gr, p) = Rest(pr, gr, p)
    <2>1. \A b : b \in Rest(pr2, gr, p) <=> b \in Rest(pr, gr, p) BY <1>3, InRest
    <2> QED BY <2>1
  <1>5. ASSUME NEW q \in Proc, q # p
        PROVE  Split(F2, Own(pr2, q), Rest(pr2, gr, q))
    <2> DEFINE Y == gr \cup UNION {PagesOf(Own(pr, s)) : s \in Proc \ {p, q}}
               g == Own(pr, q)
    <2>1. \A b : b \in Y <=> b \in gr \/ \E s \in Proc \ {p, q} : b \in PagesOf(Own(pr, s))
      OBVIOUS
    <2> HIDE DEF Y
    <2>2. Rest(pr, gr, p) = Y \cup PagesOf(g)
      <3>1. \A b : b \in Rest(pr, gr, p) <=> b \in Y \cup PagesOf(g) BY <1>5, <2>1, InRest
      <3> QED BY <3>1
    <2>3. Rest(pr2, gr, q) = Y \cup PagesOf(h)
      <3>1. \A b : b \in Rest(pr2, gr, q) <=> b \in Y \cup PagesOf(h)
        BY <1>3, <1>5, <2>1, InRest
      <3> QED BY <3>1
    <2>4. Y \subseteq Rest(pr, gr, q) BY <2>1, InRest
    <2>5. Split(F, g, Rest(pr, gr, q)) BY DEF MemGood
    <2> HIDE DEF g
    <2>6. Split(F2, h, Y \cup PagesOf(g)) BY <2>2 DEF h
    <2>7. Split(F2, g, Y \cup PagesOf(h)) BY <2>4, <2>5, <2>6, SplitSwap
    <2> QED BY <1>3, <1>5, <2>3, <2>7 DEF g
  <1>6. Split(F2, Own(pr2, p), Rest(pr2, gr, p)) BY <1>3, <1>4 DEF h
  <1>7. \A q \in Proc : SlotOK(pr2[q]) BY <1>2 DEF MemGood
  <1> QED BY <1>2, <1>5, <1>6, <1>7 DEF MemGood, pr2

\* What an operation on process p leaves.
LEMMA CommitGood ==
    ASSUME MemInv, NEW p \in Proc, proc[p].tf # 0, NEW m,
           Accounted(m, proc[p].tf, Rest(proc, grabbed, p)), ~m.panic, NEW sz,
           Image(m.pt, sz, proc[p].tf), Commit(p, m, sz)
    PROVE  MemInv'
  <1> DEFINE r == [sz |-> sz, tf |-> proc[p].tf, pt |-> m.pt]
  <1>1. MemGood(free, proc, grabbed) /\ proc \in [Proc -> ProcRec] BY DEF MemInv, MemGood
  <1>2. proc[p] \in ProcRec BY <1>1
  <1>3. m.pt \in Table /\ TableOK(m.pt) /\ m.panic \in BOOLEAN BY DEF Accounted, MemRec
  <1>4. sz \in 0 .. TRAPFRAME * PGSIZE BY FittingSize DEF Image
  <1>5. r.sz = sz /\ r.tf = proc[p].tf /\ r.pt = m.pt /\ r \in ProcRec
    BY <1>2, <1>3, <1>4 DEF ProcRec
  <1>6. SlotOK(r) BY <1>3, <1>5 DEF SlotOK
  <1>7. proc' = [proc EXCEPT ![p] = r]
    <2>1. proc' = [proc EXCEPT ![p].pt = m.pt, ![p].sz = sz] BY DEF Commit
    <2>2. /\ proc' \in [Proc -> ProcRec] /\ proc'[p] = r
          /\ \A q \in Proc : q # p => proc'[q] = proc[q]
      BY <1>1, <1>2, <1>3, <1>4, <2>1 DEF ProcRec
    <2>3. /\ [proc EXCEPT ![p] = r] \in [Proc -> ProcRec] /\ [proc EXCEPT ![p] = r][p] = r
          /\ \A q \in Proc : q # p => [proc EXCEPT ![p] = r][q] = proc[q]
      BY <1>1, <1>5
    <2> HIDE DEF r
    <2> DEFINE a == [proc EXCEPT ![p] = r]
    <2> HIDE DEF a
    <2>4. \A q \in Proc : proc'[q] = a[q] BY <2>2, <2>3 DEF a
    <2>5. a \in [Proc -> ProcRec] BY <2>3 DEF a
    <2>6. proc' = a BY <2>2, <2>4, <2>5
    <2> QED BY <2>6 DEF a
  <1>8. free' = m.free /\ panicked' = FALSE /\ grabbed' = grabbed BY <1>3 DEF Commit
  <1> HIDE DEF r
  <1>9. Split(m.free, Held(r.tf, r.pt), Rest(proc, grabbed, p)) BY <1>5 DEF Accounted
  <1>10. MemGood(m.free, [proc EXCEPT ![p] = r], grabbed)
    <2>1. MemGood(free, proc, grabbed) BY <1>1
    <2> QED BY <1>6, <1>9, <2>1, SlotReplaced
  <1> QED BY <1>7, <1>8, <1>10 DEF MemInv

----------------------------------------------------------------------------
(* One process: sbrk(), page faults and copying                            *)

\* What a running process begins with.
LEMMA RunningIs ==
    ASSUME MemInv, NEW p \in Proc, proc[p].tf # 0
    PROVE  LET m == With(proc[p].pt) IN
           /\ Accounted(m, proc[p].tf, Rest(proc, grabbed, p)) /\ m.ok /\ ~m.panic
           /\ m.free = free /\ m.pt = proc[p].pt
           /\ Image(proc[p].pt, proc[p].sz, proc[p].tf) /\ TableOK(proc[p].pt)
           /\ proc[p].sz \in Nat /\ Fitting(proc[p].sz) /\ Below(proc[p].pt, proc[p].sz)
           /\ PGROUNDUP(proc[p].sz) <= PGROUNDUP(proc[p].sz)
           /\ proc[p].tf \in Page /\ proc[p] \in ProcRec
  <1> DEFINE m == With(proc[p].pt)
  <1>1. MemGood(free, proc, grabbed) BY DEF MemInv
  <1>2. /\ Accounted(m, proc[p].tf, Rest(proc, grabbed, p)) /\ m.ok /\ ~m.panic
        /\ m.free = free /\ m.pt = proc[p].pt
    BY <1>1, Enter DEF With
  <1> HIDE DEF m
  <1>3. SlotOK(proc[p]) BY <1>1 DEF MemGood
  <1>4. Image(proc[p].pt, proc[p].sz, proc[p].tf) /\ TableOK(proc[p].pt) BY <1>3 DEF SlotOK
  <1>5. proc[p].sz \in Nat /\ Fitting(proc[p].sz) /\ Below(proc[p].pt, proc[p].sz)
    BY <1>4 DEF Image, Fitting
  <1>6. PGROUNDUP(proc[p].sz) <= PGROUNDUP(proc[p].sz)
    <2>1. PGROUNDUP(proc[p].sz) \in Nat BY <1>5, RoundUp
    <2> QED BY <2>1
  <1>7. proc[p].tf \in Page /\ proc[p] \in ProcRec BY <1>3, PageRange DEF SlotOK, ProcRec
  <1> QED BY <1>2, <1>4, <1>5, <1>6, <1>7 DEF m

\* A table whose pages from the new size on are gone.
LEMMA ShrunkImage ==
    ASSUME NEW pt, NEW q, NEW tf, NEW oldsz, NEW newsz, Image(pt, oldsz, tf), Fitting(newsz),
           Cleared(pt.leaf, q.leaf, PGROUNDUP(newsz) .. PGROUNDUP(oldsz) - 1)
    PROVE  Image(q, newsz, tf)
  <1> DEFINE lo == PGROUNDUP(newsz)
             hi == PGROUNDUP(oldsz)
  <1>1. lo \in Nat /\ hi \in Nat /\ hi <= TRAPFRAME
    BY RoundUp DEF Image, Fitting
  <1>2. \A a \in UserVA : pt.leaf[a].v => a < hi BY DEF Image, Below
  <1>3. /\ \A a \in VA : a \in lo .. hi - 1 => q.leaf[a] = NoLeaf
        /\ \A a \in VA : a \notin lo .. hi - 1 => q.leaf[a] = pt.leaf[a]
    BY DEF Cleared
  <1>4. ASSUME NEW a \in UserVA, q.leaf[a].v PROVE a < lo
    <2>1. a \in VA /\ a \in Nat BY Addresses
    <2>2. CASE a \in lo .. hi - 1 BY <1>3, <1>4, <2>1, <2>2 DEF NoLeaf
    <2>3. CASE a \notin lo .. hi - 1
      <3>1. q.leaf[a] = pt.leaf[a] BY <1>3, <2>1, <2>3
      <3>2. a < hi BY <1>2, <1>4, <3>1
      <3> HIDE DEF lo, hi
      <3> QED BY <1>1, <2>1, <2>3, <3>2
    <2> QED BY <2>2, <2>3
  <1>5. TRAPFRAME \notin lo .. hi - 1 /\ TRAMPOLINE \notin lo .. hi - 1
    <2> HIDE DEF lo, hi
    <2> QED BY <1>1, Addresses
  <1>6. Top(q.leaf, tf) BY <1>3, <1>5, Addresses DEF Image, Top
  <1> QED BY <1>4, <1>6 DEF Image, Below

\* sbrk() that allocates or frees.
LEMMA SbrkKeeps ==
    ASSUME MemInv, NEW p \in Proc, NEW n \in Growth, Sbrk(p, n)
    PROVE  MemInv'
  <1> DEFINE sz == proc[p].sz
             tf == proc[p].tf
             m == With(proc[p].pt)
             X == Rest(proc, grabbed, p)
  <1>1. proc[p].tf # 0 /\ n \in Int BY MemoryAssumption DEF Sbrk, Running
  <1>2. /\ Accounted(m, tf, X) /\ m.ok /\ ~m.panic /\ m.pt = proc[p].pt
        /\ Image(m.pt, sz, tf) /\ sz \in Nat /\ Fitting(sz) /\ Below(m.pt, sz)
    BY <1>1, RunningIs
  <1>3. CASE n > 0 /\ sz + n <= TRAPFRAME * PGSIZE /\ Grow(p, Uvmalloc(m, sz, sz + n, TRUE))
    <2> DEFINE big == sz + n
               r == Uvmalloc(m, sz, big, TRUE)
               new == IF r.sz = 0 THEN sz ELSE r.sz
    <2>1. big \in 0 .. TRAPFRAME * PGSIZE
      BY <1>1, <1>2, <1>3, MemoryAssumption, Addresses
    <2>2. Fitting(big)
      <3> HIDE DEF big
      <3> QED BY <2>1, FittingSize
    <2>3. Commit(p, r.m, new) BY <1>3 DEF Grow
    <2> HIDE DEF big
    <2>4. Accounted(r.m, tf, X) /\ r.m.panic = m.panic /\ Alloc(m, r, sz, big)
      <3>1. TRUE \in BOOLEAN OBVIOUS
      <3> HIDE DEF sz, tf, m, X
      <3> QED BY <1>2, <2>2, <3>1, UvmallocSpec
    <2> HIDE DEF r, m
    <2>5. Image(r.m.pt, new, tf)
      <3>1. /\ r.sz # 0 => Image(r.m.pt, r.sz, tf)
            /\ r.sz = 0 => Image(r.m.pt, sz, tf)
        BY <1>2, <2>2, <2>4, AllocImage
      <3> QED BY <3>1
    <2>6. ~r.m.panic BY <1>2, <2>4
    <2> HIDE DEF new
    <2> QED BY <1>1, <2>3, <2>4, <2>5, <2>6, CommitGood
  <1>4. CASE n < 0 /\ sz + n >= 0 /\ Commit(p, Uvmdealloc(m, sz, sz + n), sz + n)
    <2> DEFINE small == sz + n
               r == Uvmdealloc(m, sz, small)
    <2>1. small \in Nat /\ small <= sz BY <1>1, <1>2, <1>4
    <2>2. Fitting(small)
      <3>1. sz \in 0 .. TRAPFRAME * PGSIZE BY <1>2, FittingSize
      <3> HIDE DEF small
      <3>2. small \in 0 .. TRAPFRAME * PGSIZE BY <2>1, <3>1, MemoryAssumption, Addresses
      <3> QED BY <3>2, FittingSize
    <2>3. Commit(p, r, small) BY <1>4
    <2> HIDE DEF small
    <2>4. /\ Accounted(r, tf, X) /\ r.panic = m.panic
          /\ Cleared(m.pt.leaf, r.pt.leaf, PGROUNDUP(small) .. PGROUNDUP(sz) - 1)
      <3> HIDE DEF sz, tf, m, X
      <3> QED BY <1>2, <2>1, UvmdeallocSpec
    <2> HIDE DEF r, m
    <2>5. Image(r.pt, small, tf) BY <1>2, <2>2, <2>4, ShrunkImage
    <2>6. ~r.panic BY <1>2, <2>4
    <2> QED BY <1>1, <2>3, <2>4, <2>5, <2>6, CommitGood
  <1> QED BY <1>3, <1>4 DEF Sbrk

\* sbrk() that only raises the size.
LEMMA SbrkLazyKeeps ==
    ASSUME MemInv, NEW p \in Proc, NEW n \in Growth, SbrkLazy(p, n)
    PROVE  MemInv'
  <1> DEFINE sz == proc[p].sz + n
             r == [proc[p] EXCEPT !.sz = sz]
  <1>1. proc[p].tf # 0 /\ n \in Int /\ n > 0 /\ sz <= TRAPFRAME * PGSIZE
    BY MemoryAssumption DEF SbrkLazy, Running
  <1>2. /\ Image(proc[p].pt, proc[p].sz, proc[p].tf) /\ TableOK(proc[p].pt)
        /\ proc[p].sz \in Nat /\ proc[p] \in ProcRec
    BY <1>1, RunningIs
  <1>3. sz \in 0 .. TRAPFRAME * PGSIZE /\ proc[p].sz <= sz
    BY <1>1, <1>2, MemoryAssumption, Addresses
  <1>4. MemGood(free, proc, grabbed) /\ proc \in [Proc -> ProcRec] BY DEF MemInv, MemGood
  <1>5. proc' = [proc EXCEPT ![p] = r] BY <1>4 DEF SbrkLazy
  <1> HIDE DEF sz
  <1>6. /\ r \in ProcRec /\ r.sz = sz /\ r.tf = proc[p].tf /\ r.pt = proc[p].pt
    BY <1>2, <1>3 DEF ProcRec
  <1> HIDE DEF r
  <1>7. SlotOK(r)
    <2>1. Fitting(sz) BY <1>3, FittingSize
    <2>2. PGROUNDUP(proc[p].sz) <= PGROUNDUP(sz) /\ PGROUNDUP(sz) \in Nat
      <3>1. sz \in Nat BY <2>1 DEF Fitting
      <3> QED BY <1>2, <1>3, <3>1, RoundOrder, RoundUp
    <2>3. Within(proc[p].pt.leaf, r.pt.leaf, sz) BY <1>6 DEF Within
    <2>4. Image(r.pt, sz, proc[p].tf) BY <1>2, <2>1, <2>2, <2>3, WithinImage
    <2> QED BY <1>1, <1>2, <1>6, <2>4 DEF SlotOK
  <1>8. Split(free, Held(r.tf, r.pt), Rest(proc, grabbed, p)) BY <1>4, <1>6 DEF MemGood, Own
  <1>9. MemGood(free, [proc EXCEPT ![p] = r], grabbed) BY <1>4, <1>7, <1>8, SlotReplaced
  <1>10. free' = free /\ grabbed' = grabbed /\ panicked' = FALSE BY DEF SbrkLazy, MemInv
  <1> QED BY <1>5, <1>9, <1>10 DEF MemInv

\* A page fault of the program.
LEMMA PageFaultKeeps ==
    ASSUME MemInv, NEW p \in Proc, NEW a \in 0 .. TRAPFRAME - 1, PageFault(p, a)
    PROVE  MemInv'
  <1> DEFINE sz == proc[p].sz
             tf == proc[p].tf
             m == With(proc[p].pt)
             X == Rest(proc, grabbed, p)
             r == Vmfault(m, a, sz)
  <1>1. proc[p].tf # 0 /\ Commit(p, r, sz) /\ a \in UserVA BY DEF PageFault, Running, UserVA
  <1>2. /\ Accounted(m, tf, X) /\ ~m.panic /\ Image(m.pt, sz, tf) /\ sz \in Nat
        /\ Fitting(sz) /\ PGROUNDUP(sz) <= PGROUNDUP(sz)
    BY <1>1, RunningIs
  <1> HIDE DEF m
  <1>3. Accounted(r, tf, X) /\ r.panic = m.panic /\ Within(m.pt.leaf, r.pt.leaf, sz)
    BY <1>1, <1>2, VmfaultSpec
  <1> HIDE DEF r
  <1>4. Image(r.pt, sz, tf) BY <1>2, <1>3, WithinImage
  <1> QED BY <1>1, <1>2, <1>3, <1>4, CommitGood

\* copyout(), copyin() and copyinstr() over two pages.
LEMMA CopyKeeps ==
    ASSUME MemInv, NEW p \in Proc, NEW kind \in {"out", "in", "str"},
           NEW a \in 0 .. TRAPFRAME - 2, Copy(p, kind, a, a + 1)
    PROVE  MemInv'
  <1> DEFINE sz == proc[p].sz
             tf == proc[p].tf
             m == With(proc[p].pt)
             X == Rest(proc, grabbed, p)
             n == (a + 1) - a + 1
             r == Passing(m, kind, a, n, sz)[n]
  <1>1. proc[p].tf # 0 /\ Commit(p, r, sz) BY DEF Copy, Running
  <1>2. n \in Nat /\ a \in Nat /\ a + n <= TRAPFRAME BY Addresses
  <1>3. /\ Accounted(m, tf, X) /\ ~m.panic /\ Image(m.pt, sz, tf) /\ sz \in Nat
        /\ Fitting(sz) /\ PGROUNDUP(sz) <= PGROUNDUP(sz)
    BY <1>1, RunningIs
  <1> HIDE DEF m, n
  <1>4. Accounted(r, tf, X) /\ r.panic = m.panic /\ Within(m.pt.leaf, r.pt.leaf, sz)
    <2>1. kind \in Kinds BY DEF Kinds
    <2> HIDE DEF sz, tf, X
    <2> QED BY <1>2, <1>3, <2>1, PassingSpec
  <1> HIDE DEF r
  <1>5. Image(r.pt, sz, tf) BY <1>3, <1>4, WithinImage
  <1> QED BY <1>1, <1>3, <1>4, <1>5, CommitGood

----------------------------------------------------------------------------
(* Processes that come and go                                              *)

\* What is not a process has a slot, and the free list.
LEMMA VacantIs ==
    ASSUME MemInv, NEW p \in Proc, proc[p].tf = 0
    PROVE  LET m == With(NoTable) IN
           /\ Accounted(m, 0, Rest(proc, grabbed, p)) /\ m.ok /\ ~m.panic /\ m.pt = NoTable
           /\ m.free = free /\ proc = [proc EXCEPT ![p] = Unused]
  <1> DEFINE m == With(NoTable)
  <1>1. MemGood(free, proc, grabbed) /\ proc \in [Proc -> ProcRec] BY DEF MemInv, MemGood
  <1>2. proc[p] = Unused BY <1>1 DEF MemGood, SlotOK
  <1>3. proc[p].pt = NoTable BY <1>2, UnusedOK
  <1>4. /\ Accounted(m, 0, Rest(proc, grabbed, p)) /\ m.ok /\ ~m.panic /\ m.pt = NoTable
        /\ m.free = free
    <2> DEFINE n == Mem(free, proc[p].pt)
    <2>1. /\ Accounted(n, proc[p].tf, Rest(proc, grabbed, p)) /\ n.ok /\ ~n.panic
          /\ n.free = free /\ n.pt = proc[p].pt
      BY <1>1, Enter
    <2>2. m = n BY <1>3 DEF With
    <2> HIDE DEF m, n
    <2> QED BY <1>3, <2>1, <2>2
  <1> HIDE DEF m
  <1>5. proc = [proc EXCEPT ![p] = Unused] BY <1>1, <1>2
  <1> QED BY <1>4, <1>5 DEF m

\* What freeproc() leaves, by the slot that changes.
LEMMA SlotGood ==
    ASSUME MemInv, NEW p \in Proc, NEW r, SlotOK(r), NEW m, m \in MemRec, ~m.panic,
           Split(m.free, Held(r.tf, r.pt), Rest(proc, grabbed, p)),
           free' = m.free, proc' = [proc EXCEPT ![p] = r], panicked' = m.panic,
           grabbed' = grabbed
    PROVE  MemInv'
  <1>1. MemGood(free, proc, grabbed) BY DEF MemInv
  <1>2. MemGood(m.free, [proc EXCEPT ![p] = r], grabbed) BY <1>1, SlotReplaced
  <1>3. panicked' = FALSE BY DEF MemRec
  <1> QED BY <1>2, <1>3 DEF MemInv

\* A process that is gone has nothing.
LEMMA FreeprocKeeps ==
    ASSUME MemInv, NEW p \in Proc, Freeproc(p)
    PROVE  MemInv'
  <1> DEFINE sz == proc[p].sz
             tf == proc[p].tf
             X == Rest(proc, grabbed, p)
             m == With(proc[p].pt)
             k == Kfree(m, {tf})
             f == ProcFreepagetable(k, sz)
  <1>1. /\ proc[p].tf # 0 /\ free' = f.free /\ proc' = [proc EXCEPT ![p] = Unused]
        /\ panicked' = f.panic /\ grabbed' = grabbed
    BY DEF Freeproc, Running
  <1>2. Accounted(m, tf, X) /\ ~m.panic /\ m.pt = proc[p].pt /\ Fitting(sz) /\ Below(m.pt, sz)
    BY <1>1, RunningIs
  <1> HIDE DEF m
  <1>3. Accounted(k, 0, X) /\ k.panic = m.panic /\ k.pt = m.pt
    BY <1>1, <1>2, TrapframeFreed
  <1> HIDE DEF k
  <1>4. Accounted(f, 0, X) /\ f.panic = k.panic /\ f.pt = NoTable
    BY <1>2, <1>3, ProcFreeSpec
  <1> HIDE DEF f
  <1>5. f \in MemRec /\ ~f.panic BY <1>2, <1>3, <1>4 DEF Accounted
  <1>6. Split(f.free, Held(Unused.tf, Unused.pt), X) BY <1>4, UnusedOK DEF Accounted
  <1> QED BY <1>1, <1>5, <1>6, UnusedOK, SlotGood

\* A new process with the memory of an old one, or nothing.
Newborn(r, X, pt, sz) ==
    /\ ~r.ok => r.pt = NoTable /\ Accounted(r, 0, X)
    /\ r.ok => /\ r.got \in Page /\ r.got \notin X /\ Accounted(r, 0, X \cup {r.got})
               /\ Image(r.pt, sz, r.got) /\ Like(r.pt.leaf, pt.leaf, UserVA)

\* uvmcopy() into a new page table; freeproc() if there is no memory for it.
LEMMA CopyMemorySpec ==
    ASSUME NEW t, NEW X, NEW tf \in Page, tf \notin X, Accounted(t, 0, X \cup {tf}),
           t.ok => Fresh(t.pt.leaf, tf), ~t.ok => t.pt = NoTable,
           NEW p \in Proc, TableOK(proc[p].pt), Fitting(proc[p].sz),
           Below(proc[p].pt, proc[p].sz)
    PROVE  LET r == CopyMemory(t, p, tf) IN
           Newborn(r, X, proc[p].pt, proc[p].sz) /\ r.panic = t.panic
  <1> DEFINE sz == proc[p].sz
             old == proc[p].pt
             r == CopyMemory(t, p, tf)
             Y == X \cup {tf}
  <1>0. Y \ {tf} = X /\ {tf} \subseteq Y /\ Accounted(t, 0, Y) OBVIOUS
  <1>1. CASE ~t.ok
    <2> DEFINE q == Kfree(t, {tf})
    <2>1. r = q BY <1>1 DEF CopyMemory
    <2> HIDE DEF r
    <2>2. q.pt = t.pt /\ q.panic = t.panic /\ q.ok = t.ok /\ Accounted(q, 0, Y \ {tf})
      <3> HIDE DEF Y
      <3> QED BY <1>0, KfreeSpec
    <2> HIDE DEF q, Y
    <2> QED BY <1>0, <1>1, <2>1, <2>2 DEF Newborn, r
  <1>2. CASE t.ok
    <2> DEFINE c == Uvmcopy(old, t, sz)
    <2>0. \A a \in UserVA : t.pt.leaf[a] = NoLeaf BY <1>2 DEF Fresh
    <2>1. /\ Accounted(c, 0, Y) /\ c.panic = t.panic
          /\ SameBut(t.pt.leaf, c.pt.leaf, 0 .. PGROUNDUP(sz) - 1)
          /\ c.ok => Like(c.pt.leaf, old.leaf, UserVA)
          /\ ~c.ok => SameBut(t.pt.leaf, c.pt.leaf, {})
      <3> HIDE DEF Y, old, sz
      <3> QED BY <1>0, <2>0, UvmcopySpec DEF old, sz
    <2>2. r = OrFreeproc(c, tf) BY <1>2 DEF CopyMemory
    <2> HIDE DEF c, r
    <2>3. CASE c.ok
      <3>1. r = [c EXCEPT !.got = tf] BY <2>2, <2>3 DEF OrFreeproc
      <3>2. c \in MemRec /\ tf \in 0 .. NPAGE BY <2>1, PageRange DEF Accounted
      <3>3. /\ r \in MemRec /\ r.got = tf /\ r.pt = c.pt /\ r.free = c.free /\ r.ok
            /\ r.panic = t.panic
        BY <2>1, <2>3, <3>1, <3>2 DEF MemRec
      <3>4. Accounted(r, 0, Y) BY <2>1, <3>3 DEF Accounted
      <3>5. Image(c.pt, sz, tf)
        <4>1. Below(c.pt, sz) BY <2>1, <2>3 DEF Below, Like
        <4>2. TRAMPOLINE \notin 0 .. PGROUNDUP(sz) - 1 /\ TRAPFRAME \notin 0 .. PGROUNDUP(sz) - 1
          <5>1. PGROUNDUP(sz) \in Nat /\ PGROUNDUP(sz) <= TRAPFRAME BY RoundUp DEF Fitting
          <5> QED BY <5>1, Addresses
        <4>3. Top(c.pt.leaf, tf)
          BY <1>2, <2>1, <4>2, Addresses DEF SameBut, Fresh, Top
        <4> QED BY <4>1, <4>3 DEF Image
      <3> QED BY <2>1, <2>3, <3>3, <3>4, <3>5 DEF Newborn, r
    <2>4. CASE ~c.ok
      <3> DEFINE k == Kfree(c, {tf})
                 f == ProcFreepagetable(k, 0)
      <3>1. r = f BY <2>2, <2>4 DEF OrFreeproc
      <3>2. k.pt = c.pt /\ k.panic = c.panic /\ k.ok = c.ok /\ Accounted(k, 0, Y \ {tf})
        <4> HIDE DEF Y
        <4> QED BY <1>0, <2>1, KfreeSpec
      <3> HIDE DEF k, Y
      <3>3. Fitting(0)
        <4>1. 0 \in 0 .. TRAPFRAME * PGSIZE BY UnusedOK DEF SlotOK, ProcRec, Unused
        <4> QED BY <4>1, FittingSize
      <3>4. Below(k.pt, 0)
        <4>1. \A a \in UserVA : k.pt.leaf[a] = NoLeaf
          BY <2>0, <2>1, <2>4, <3>2, Addresses DEF SameBut
        <4> QED BY <4>1 DEF Below, NoLeaf
      <3>5. Accounted(f, 0, X) /\ f.panic = k.panic /\ f.ok = k.ok /\ f.pt = NoTable
        BY <1>0, <3>2, <3>3, <3>4, ProcFreeSpec
      <3> HIDE DEF f
      <3> QED BY <2>1, <2>4, <3>1, <3>2, <3>5 DEF Newborn, r
    <2> QED BY <2>3, <2>4 DEF r
  <1> QED BY <1>1, <1>2

\* kfork(), from the free list on.
LEMMA NewProcessSpec ==
    ASSUME NEW m, NEW X, Accounted(m, 0, X), m.ok, m.pt = NoTable,
           NEW p \in Proc, TableOK(proc[p].pt), Fitting(proc[p].sz),
           Below(proc[p].pt, proc[p].sz)
    PROVE  LET r == NewProcess(Kalloc(m), p) IN
           Newborn(r, X, proc[p].pt, proc[p].sz) /\ r.panic = m.panic
  <1> DEFINE k == Kalloc(m)
             r == NewProcess(k, p)
  <1>1. /\ k.pt = NoTable /\ k.panic = m.panic
        /\ ~k.ok => Accounted(k, 0, X)
        /\ k.ok => k.got \in Page /\ k.got \notin X /\ Accounted(k, 0, X \cup {k.got})
    BY KallocSpec
  <1> HIDE DEF k
  <1>2. CASE ~k.ok
    <2>1. r = k BY <1>2 DEF NewProcess
    <2> HIDE DEF r
    <2> QED BY <1>1, <1>2, <2>1 DEF Newborn, k, r
  <1>3. CASE k.ok
    <2> DEFINE tf == k.got
               t == ProcPagetable(k, tf)
               c == CopyMemory(t, p, tf)
    <2>1. r = c BY <1>3 DEF NewProcess
    <2>2. tf \in Page /\ tf \in 0 .. NPAGE /\ tf \notin X /\ Accounted(k, 0, X \cup {tf})
      BY <1>1, <1>3, PageRange
    <2> HIDE DEF tf
    <2>3. /\ Accounted(t, 0, X \cup {tf}) /\ t.panic = k.panic
          /\ t.ok => Fresh(t.pt.leaf, tf)
          /\ ~t.ok => t.pt = NoTable
      BY <1>1, <1>3, <2>2, ProcPagetableSpec
    <2> HIDE DEF t
    <2>4. Newborn(c, X, proc[p].pt, proc[p].sz) /\ c.panic = t.panic
      BY <2>2, <2>3, CopyMemorySpec
    <2> HIDE DEF c, r
    <2> QED BY <1>1, <2>1, <2>3, <2>4 DEF k, r
  <1> QED BY <1>2, <1>3

\* fork(): its child, if there is memory for it, has the parent's pages.
LEMMA ForkKeeps ==
    ASSUME MemInv, NEW p \in Proc, NEW np \in Proc, Fork(p, np)
    PROVE  /\ MemInv' /\ p # np
           /\ \A q \in Proc : q # np => proc'[q] = proc[q]
           /\ proc'[np].tf # 0 => /\ proc'[np].sz = proc[p].sz
                                  /\ Like(proc'[np].pt.leaf, proc[p].pt.leaf, UserVA)
  <1> DEFINE sz == proc[p].sz
             X == Rest(proc, grabbed, np)
             m == With(NoTable)
             r == NewProcess(Kalloc(m), p)
             new == [sz |-> sz, tf |-> r.got, pt |-> r.pt]
  <1>1. proc[p].tf # 0 /\ proc[np].tf = 0 /\ Forked(p, np, r) BY DEF Fork, Running
  <1>2. /\ Accounted(m, 0, X) /\ m.ok /\ ~m.panic /\ m.pt = NoTable
        /\ proc = [proc EXCEPT ![np] = Unused]
    BY <1>1, VacantIs
  <1>3. /\ TableOK(proc[p].pt) /\ Fitting(sz) /\ Below(proc[p].pt, sz) /\ proc[p] \in ProcRec
    BY <1>1, RunningIs
  <1> HIDE DEF m
  <1>4. Newborn(r, X, proc[p].pt, sz) /\ r.panic = m.panic
    BY <1>2, <1>3, NewProcessSpec
  <1>5. free' = r.free /\ panicked' = r.panic /\ grabbed' = grabbed /\ ~r.panic
    BY <1>1, <1>2, <1>4 DEF Forked
  <1>6. proc' = IF r.ok THEN [proc EXCEPT ![np] = new] ELSE proc BY <1>1 DEF Forked
  <1>7. proc \in [Proc -> ProcRec] BY DEF MemInv, MemGood
  <1> HIDE DEF r
  <1>8. CASE ~r.ok
    <2>1. proc' = [proc EXCEPT ![np] = Unused] /\ proc' = proc BY <1>2, <1>6, <1>8
    <2>2. r.pt = NoTable /\ Accounted(r, 0, X) BY <1>4, <1>8 DEF Newborn
    <2>3. r \in MemRec /\ Split(r.free, Held(Unused.tf, Unused.pt), X)
      BY <2>2, UnusedOK DEF Accounted
    <2>4. MemInv' BY <1>5, <2>1, <2>3, UnusedOK, SlotGood
    <2> QED BY <1>1, <2>1, <2>4
  <1>9. CASE r.ok
    <2>1. /\ r.got \in Page /\ r.got \notin X /\ Accounted(r, 0, X \cup {r.got})
          /\ Image(r.pt, sz, r.got) /\ Like(r.pt.leaf, proc[p].pt.leaf, UserVA)
      BY <1>4, <1>9 DEF Newborn
    <2>2. r \in MemRec /\ TableOK(r.pt) /\ r.pt \in Table /\ r.got \in 0 .. NPAGE /\ r.got # 0
      BY <2>1, PageRange DEF Accounted, MemRec
    <2>3. sz \in 0 .. TRAPFRAME * PGSIZE BY <1>3, FittingSize
    <2>4. new \in ProcRec /\ new.sz = sz /\ new.tf = r.got /\ new.pt = r.pt
      BY <2>2, <2>3 DEF ProcRec
    <2>5. proc' = [proc EXCEPT ![np] = new] BY <1>6, <1>9
    <2> HIDE DEF new
    <2>6. SlotOK(new) BY <2>1, <2>2, <2>4 DEF SlotOK
    <2>7. Split(r.free, Held(new.tf, new.pt), X) BY <2>1, <2>4, TrapframeTaken
    <2>8. MemInv' BY <1>5, <2>2, <2>5, <2>6, <2>7, SlotGood
    <2>9. proc'[np] = new /\ \A q \in Proc : q # np => proc'[q] = proc[q]
      BY <1>7, <2>4, <2>5
    <2> QED BY <1>1, <2>1, <2>4, <2>8, <2>9
  <1> QED BY <1>8, <1>9

----------------------------------------------------------------------------
(* exec()                                                                  *)

\* An empty table has at most the trapframe with it.
LEMMA PagesOfTop ==
    /\ PagesOf(Held(0, NoTable)) = {}
    /\ \A tf \in Page : PagesOf(Held(tf, NoTable)) = {tf}
  <1>1. PagesOf(Held(0, NoTable)) = {} BY NoTableOK DEF PagesOf
  <1>2. ASSUME NEW tf \in Page PROVE PagesOf(Held(tf, NoTable)) = {tf}
    <2> DEFINE h == Held(tf, NoTable)
    <2>1. /\ h[<<"tf", 0>>] = tf /\ h[<<"root", 0>>] = NoTable.root
          /\ \A n \in Nodes : h[<<"node", n>>] = NoTable.node[n]
          /\ \A a \in UserVA : h[<<"leaf", a>>] = NoTable.leaf[a].pa
      BY HeldAt
    <2>2. NoTable.root = 0 /\ \A n \in Nodes : NoTable.node[n] = 0 BY DEF NoTable
    <2>3. \A a \in UserVA : NoTable.leaf[a].pa = 0 BY NoTableOK, Addresses DEF NoLeaf
    <2> HIDE DEF h
    <2>4. \A c \in Cell : h[c] = tf \/ h[c] = 0 BY <2>1, <2>2, <2>3, CellCases
    <2>5. <<"tf", 0>> \in Cell BY CellCases
    <2>6. \A x : x \in PagesOf(h) <=> x = tf
      BY <2>1, <2>4, <2>5, PageRange DEF PagesOf
    <2> QED BY <2>6 DEF h
  <1> QED BY <1>1, <1>2

\* A new image begins with no table: the old one's pages and the arguments are elsewhere.
LEMMA SplitAside ==
    ASSUME NEW F, NEW h, NEW X, Split(F, h, X), NEW B, B \subseteq F
    PROVE  Split(F \ B, Held(0, NoTable), X \cup B \cup PagesOf(h))
  <1> DEFINE g == Held(0, NoTable)
  <1>1. g \in [Cell -> 0 .. NPAGE] /\ \A c \in Cell : g[c] = 0
    BY NoTableOK, PageRange, HeldType
  <1>2. PagesOf(h) \subseteq Page /\ \A b \in PagesOf(h) : \E c \in Cell : h[c] = b
    BY PageRange DEF Split, PagesOf
  <1>3. \A c \in Cell : h[c] # 0 => h[c] \in PagesOf(h) BY DEF PagesOf
  <1> HIDE DEF g
  <1>4. X \cup B \cup PagesOf(h) \subseteq Page /\ F \ B \subseteq Page BY <1>2 DEF Split
  <1>5. (F \ B) \cap (X \cup B \cup PagesOf(h)) = {} BY <1>2 DEF Split
  <1>6. \A c \in Cell : g[c] \notin F \ B /\ g[c] \notin X \cup B \cup PagesOf(h)
    BY <1>1, <1>4, PageRange
  <1>7. \A b \in Page : b \in F \ B \/ b \in X \cup B \cup PagesOf(h)
    BY <1>3, PageRange DEF Split
  <1> QED BY <1>1, <1>4, <1>5, <1>6, <1>7 DEF Split, g

\* The arguments given back, and the old image seen again.
LEMMA SplitBack ==
    ASSUME NEW F, NEW h, NEW X, Split(F, h, X), NEW B, B \subseteq F,
           NEW G, NEW g, Split(G, g, X \cup B \cup PagesOf(h))
    PROVE  Split(G \cup B, h, X \cup PagesOf(g))
  <1> DEFINE W == X \cup B \cup PagesOf(h)
  <1>1. B \cap X = {} /\ B \cap PagesOf(h) = {} BY DEF Split, PagesOf
  <1>2. W \ B = X \cup PagesOf(h) BY <1>1
  <1>3. B \subseteq W /\ Split(G, g, W) OBVIOUS
  <1> HIDE DEF W
  <1>4. Split(G \cup B, g, W \ B) BY <1>3, SplitFree
  <1>5. X \subseteq X OBVIOUS
  <1> QED BY <1>2, <1>4, <1>5, SplitSwap

\* The image that could not be made is gone: the old one stays.
Kept(n, B, pt) == [n EXCEPT !.free = @ \cup B, !.pt = pt]

\* A failed exec() leaves the process's own table.
LEMMA OldImage ==
    ASSUME NEW F, NEW tf \in 0 .. NPAGE, NEW pt, TableOK(pt), NEW X, Split(F, Held(tf, pt), X),
           NEW B, B \subseteq F, NEW n, n.pt = NoTable,
           Accounted(n, 0, X \cup B \cup PagesOf(Held(tf, pt)))
    PROVE  LET q == Kept(n, B, pt) IN
           Accounted(q, tf, X) /\ q.panic = n.panic /\ q.pt = pt
  <1> DEFINE q == Kept(n, B, pt)
             h == Held(tf, pt)
             G == n.free
  <1>1. n \in MemRec /\ pt \in Table /\ B \subseteq Page BY DEF Accounted, TableOK, Split
  <1>2. q \in MemRec /\ q.free = G \cup B /\ q.panic = n.panic /\ q.pt = pt
    BY <1>1 DEF MemRec, Kept
  <1> HIDE DEF q
  <1>3. Split(G, Held(0, NoTable), X \cup B \cup PagesOf(h)) BY DEF Accounted
  <1> HIDE DEF h, G
  <1>4. Split(G \cup B, h, X \cup PagesOf(Held(0, NoTable)))
    <2>1. Split(F, h, X) BY DEF h
    <2> QED BY <1>3, <2>1, SplitBack
  <1>5. X \cup PagesOf(Held(0, NoTable)) = X BY PagesOfTop
  <1>6. Split(q.free, Held(tf, q.pt), X) BY <1>2, <1>4, <1>5 DEF h
  <1> QED BY <1>2, <1>6 DEF Accounted, q

\* The new image in the old one's place, the old one's pages freed.
Changed(n, B, pt, sz) ==
    LET old == ProcFreepagetable(Mem(n.free \cup B, pt), sz)
    IN [n EXCEPT !.free = old.free, !.panic = @ \/ old.panic]

\* A successful exec() leaves the new table, and each of the old one's pages is free.
LEMMA NewImage ==
    ASSUME NEW F, NEW tf \in Page, NEW pt, TableOK(pt), NEW X, Split(F, Held(tf, pt), X),
           NEW B, B \subseteq F, NEW n, Accounted(n, 0, X \cup B \cup PagesOf(Held(tf, pt))),
           NEW sz, Fitting(sz), Below(pt, sz)
    PROVE  LET q == Changed(n, B, pt, sz) IN
           Accounted(q, tf, X) /\ q.panic = n.panic /\ q.pt = n.pt
  <1> DEFINE h == Held(tf, pt)
             g == Held(0, n.pt)
             G == n.free
             W == X \cup B \cup PagesOf(h)
             m == Mem(G \cup B, pt)
             old == ProcFreepagetable(m, sz)
             q == Changed(n, B, pt, sz)
             Y == X \cup PagesOf(g)
             e == Held(tf, NoTable)
  <1>1. n \in MemRec /\ pt \in Table /\ B \subseteq Page BY DEF Accounted, TableOK, Split
  <1>2. tf \in 0 .. NPAGE /\ tf # 0 BY PageRange
  <1>3. Split(G, g, W) BY DEF Accounted
  <1>4. Split(G \cup B, h, Y)
    <2> HIDE DEF g, h, G
    <2>1. Split(F, h, X) BY DEF h
    <2> QED BY <1>3, <2>1, SplitBack
  <1>5. Accounted(m, tf, Y) /\ ~m.panic
    <2>1. G \cup B \subseteq Page BY <1>1 DEF MemRec
    <2>2. m \in MemRec /\ m.free = G \cup B /\ m.pt = pt /\ ~m.panic
      BY <1>1, <2>1, PageRange DEF Mem, MemRec
    <2> HIDE DEF m, G, Y
    <2> QED BY <1>2, <1>4, <2>2 DEF Accounted, h
  <1>6. m.pt = pt BY DEF Mem
  <1> HIDE DEF m
  <1>7. Accounted(old, tf, Y) /\ old.panic = m.panic /\ old.pt = NoTable
    <2>1. Below(m.pt, sz) BY <1>6
    <2> HIDE DEF Y
    <2> QED BY <1>5, <2>1, ProcFreeSpec
  <1>0. q = [n EXCEPT !.free = old.free, !.panic = @ \/ old.panic] BY DEF Changed, m
  <1> HIDE DEF old
  <1>8. old.free \subseteq Page /\ ~old.panic /\ Split(old.free, e, Y)
    BY <1>5, <1>7 DEF Accounted, MemRec
  <1>9. q \in MemRec /\ q.free = old.free /\ q.pt = n.pt /\ q.panic = n.panic
    BY <1>0, <1>1, <1>8 DEF MemRec
  <1> HIDE DEF q
  <1>10. Split(old.free, g, X \cup {tf})
    <2>1. X \subseteq W OBVIOUS
    <2> HIDE DEF e, g, W, G
    <2>2. Split(old.free, g, X \cup PagesOf(e)) BY <1>3, <1>8, <2>1, SplitSwap
    <2>3. PagesOf(e) = {tf} BY PagesOfTop DEF e
    <2> QED BY <2>2, <2>3
  <1>11. Accounted(q, 0, X \cup {tf}) BY <1>9, <1>10, PageRange DEF Accounted, g
  <1>12. tf \notin X
    <2>1. h[<<"tf", 0>>] = tf /\ <<"tf", 0>> \in Cell BY HeldAt, CellCases
    <2> HIDE DEF h
    <2> QED BY <2>1 DEF Split, h
  <1>13. Split(q.free, Held(tf, q.pt), X) BY <1>11, <1>12, TrapframeTaken
  <1>14. Accounted(q, tf, X) BY <1>2, <1>9, <1>11, <1>13 DEF Accounted
  <1> QED BY <1>9, <1>14 DEF q, old, m, G

\* The new image, as far as it came.
LEMMA ImageMade ==
    ASSUME NEW m, NEW X, Accounted(m, 0, X), m.ok, m.pt = NoTable, NEW tf \in 0 .. NPAGE,
           NEW prog \in Programs, NEW fails
    PROVE  LET t == ProcPagetable(m, tf)
               s == Stack(LoadSegments(t, prog, fails), fails)
           IN Image0(t, s, 0, X, tf) /\ t.panic = m.panic
  <1> DEFINE t == ProcPagetable(m, tf)
             l == LoadSegments(t, prog, fails)
             s == Stack(l, fails)
  <1>1. /\ Accounted(t, 0, X) /\ t.panic = m.panic
        /\ t.ok => Fresh(t.pt.leaf, tf)
        /\ ~t.ok => t.pt = NoTable
    BY ProcPagetableSpec
  <1> HIDE DEF t
  <1>2. Image0(t, l, 0, X, tf) /\ Roomy(l.sz) BY <1>1, LoadSegmentsSpec
  <1> HIDE DEF l
  <1>3. Image0(t, s, 0, X, tf) BY <1>2, StackSpec
  <1> QED BY <1>1, <1>3 DEF t, l

\* exec(): the new image, or the old one as it was.
LEMMA ExecKeeps ==
    ASSUME MemInv, NEW p \in Proc, NEW n \in 0 .. MaxArgs, NEW prog \in Programs,
           NEW fails \in {"no", "read", "args"}, Exec(p, n, prog, fails)
    PROVE  MemInv'
  <1> DEFINE args == {b \in free : Cardinality({c \in free : c < b}) < n}
             sz == proc[p].sz
             tf == proc[p].tf
             pt == proc[p].pt
             X == Rest(proc, grabbed, p)
             h == Held(tf, pt)
             W == X \cup args \cup PagesOf(h)
             m == Mem(free \ args, NoTable)
             t == ProcPagetable(m, tf)
             s == Stack(LoadSegments(t, prog, fails), fails)
             new == ProcFreepagetable(s.m, s.sz)
             q == Changed(s.m, args, pt, sz)
             undo == Kept(new, args, pt)
             none == Kept(s.m, args, pt)
  <1>1. /\ proc[p].tf # 0
        /\ \/ s.ok /\ Commit(p, q, s.sz)
           \/ ~s.ok /\ s.m.ok /\ Commit(p, undo, sz)
           \/ ~s.m.ok /\ Commit(p, none, sz)
    BY DEF Exec, Kexec, Committed, Running, Changed, Kept
  <1>2. args \subseteq free OBVIOUS
  <1> HIDE DEF args
  <1>3. /\ Image(pt, sz, tf) /\ TableOK(pt) /\ Fitting(sz) /\ Below(pt, sz) /\ tf \in Page
        /\ tf \in 0 .. NPAGE
    BY <1>1, RunningIs, PageRange
  <1>4. Split(free, h, X) BY DEF MemInv, MemGood, Own
  <1>5. Accounted(m, 0, W) /\ m.ok /\ ~m.panic /\ m.pt = NoTable
    <2>1. free \ args \subseteq Page BY <1>4 DEF Split
    <2>2. m \in MemRec /\ m.free = free \ args /\ m.ok /\ ~m.panic /\ m.pt = NoTable
      BY <2>1, NoTableOK, PageRange DEF Mem, MemRec
    <2>3. Split(free \ args, Held(0, NoTable), W)
      <3> HIDE DEF h, X
      <3> QED BY <1>2, <1>4, SplitAside
    <2> HIDE DEF m, W
    <2> QED BY <2>2, <2>3, NoTableOK, PageRange DEF Accounted
  <1> HIDE DEF m
  <1>6. Image0(t, s, 0, W, tf) /\ t.panic = m.panic
    <2> HIDE DEF W, tf
    <2> QED BY <1>3, <1>5, ImageMade
  <1> HIDE DEF t, s
  <1>7. /\ Accounted(s.m, 0, W) /\ ~s.m.panic /\ s.m.ok = t.ok /\ (s.ok => t.ok)
        /\ t.ok => Image(s.m.pt, s.sz, tf)
        /\ ~t.ok => s.m.pt = NoTable
    BY <1>5, <1>6 DEF Image0
  <1>8. CASE s.ok /\ Commit(p, q, s.sz)
    <2>1. Accounted(q, tf, X) /\ q.panic = s.m.panic /\ q.pt = s.m.pt
      <3> DEFINE k == s.m
      <3>1. Accounted(k, 0, X \cup args \cup PagesOf(Held(tf, pt))) BY <1>7
      <3>2. Split(free, Held(tf, pt), X) BY <1>4
      <3> HIDE DEF k, X, tf, pt, sz
      <3>3. LET r == Changed(k, args, pt, sz) IN
            Accounted(r, tf, X) /\ r.panic = k.panic /\ r.pt = k.pt
        BY <1>2, <1>3, <3>1, <3>2, NewImage
      <3> QED BY <3>3 DEF k
    <2> HIDE DEF q
    <2>2. Image(q.pt, s.sz, tf) BY <1>7, <1>8, <2>1
    <2>3. ~q.panic BY <1>7, <2>1
    <2> QED BY <1>1, <1>8, <2>1, <2>2, <2>3, CommitGood
  <1>9. CASE ~s.ok /\ s.m.ok /\ Commit(p, undo, sz)
    <2>1. Accounted(new, 0, W) /\ new.panic = s.m.panic /\ new.pt = NoTable
      <3>1. Fitting(s.sz) /\ Below(s.m.pt, s.sz) BY <1>7, <1>9 DEF Image
      <3> HIDE DEF W
      <3> QED BY <1>7, <3>1, ProcFreeSpec
    <2> HIDE DEF new
    <2>2. Accounted(undo, tf, X) /\ undo.panic = new.panic /\ undo.pt = pt
      <3>1. Accounted(new, 0, X \cup args \cup PagesOf(Held(tf, pt))) BY <2>1
      <3>2. Split(free, Held(tf, pt), X) BY <1>4
      <3> HIDE DEF X, tf, pt
      <3> QED BY <1>2, <1>3, <2>1, <3>1, <3>2, OldImage
    <2> HIDE DEF undo
    <2>3. ~undo.panic /\ Image(undo.pt, sz, tf) BY <1>3, <1>7, <2>1, <2>2
    <2> QED BY <1>1, <1>9, <2>2, <2>3, CommitGood
  <1>10. CASE ~s.m.ok /\ Commit(p, none, sz)
    <2>1. Accounted(none, tf, X) /\ none.panic = s.m.panic /\ none.pt = pt
      <3> DEFINE k == s.m
      <3>1. Accounted(k, 0, X \cup args \cup PagesOf(Held(tf, pt))) /\ k.pt = NoTable
        BY <1>7, <1>10
      <3>2. Split(free, Held(tf, pt), X) BY <1>4
      <3> HIDE DEF k, X, tf, pt
      <3>3. LET r == Kept(k, args, pt) IN Accounted(r, tf, X) /\ r.panic = k.panic /\ r.pt = pt
        BY <1>2, <1>3, <3>1, <3>2, OldImage
      <3> QED BY <3>3 DEF k
    <2> HIDE DEF none
    <2>2. ~none.panic /\ Image(none.pt, sz, tf) BY <1>3, <1>7, <2>1
    <2> QED BY <1>1, <1>10, <2>1, <2>2, CommitGood
  <1> QED BY <1>1, <1>8, <1>9, <1>10

----------------------------------------------------------------------------
(* Pages of others                                                         *)

\* kalloc() gives some free page, if there is one.
LEMMA KallocIs ==
    ASSUME NEW m, m \in MemRec
    PROVE  LET k == Kalloc(m) IN
           /\ m.free = {} => ~k.ok /\ k.free = m.free
           /\ m.free # {} => k.got \in m.free /\ k.free = m.free \ {k.got} /\ k.ok = m.ok
           /\ \A i \in m.free : (\A b \in m.free : i <= b) => k.got = i
  <1> DEFINE k == Kalloc(m)
             pa == CHOOSE b \in m.free : \A c \in m.free : b <= c
  <1>1. m.free \subseteq Page /\ m.free \subseteq Nat BY DEF MemRec, Page
  <1>2. CASE m.free = {}
    <2>1. k = [m EXCEPT !.ok = FALSE] BY <1>2 DEF Kalloc
    <2>2. ~k.ok /\ k.free = m.free BY <2>1 DEF MemRec
    <2> QED BY <1>2, <2>2
  <1>3. CASE m.free # {}
    <2>1. \E b \in m.free : \A c \in m.free : b <= c BY <1>1, <1>3, LeastNatural
    <2>2. pa \in m.free /\ \A c \in m.free : pa <= c BY <2>1
    <2>3. k = [m EXCEPT !.free = @ \ {pa}, !.got = pa] BY <1>3 DEF Kalloc
    <2> HIDE DEF pa
    <2>4. k.got = pa /\ k.free = m.free \ {pa} /\ k.ok = m.ok BY <2>3 DEF MemRec
    <2> HIDE DEF k
    <2>5. ASSUME NEW i \in m.free, \A b \in m.free : i <= b PROVE k.got = i
      <3>1. i <= pa /\ pa <= i /\ i \in Nat /\ pa \in Nat BY <1>1, <2>2, <2>5
      <3> QED BY <2>4, <3>1
    <2> QED BY <1>3, <2>2, <2>4, <2>5 DEF k
  <1> QED BY <1>2, <1>3

\* A pipe's page.
LEMMA GrabKeeps ==
    ASSUME MemInv, Grab
    PROVE  MemInv'
  <1> DEFINE m == With(NoTable)
             k == Kalloc(m)
             b == k.got
             gr == grabbed \cup {b}
  <1>1. k.ok /\ free' = k.free /\ grabbed' = gr /\ proc' = proc /\ panicked' = panicked
    BY DEF Grab
  <1>2. free \subseteq Page BY MemoryAssumption DEF MemInv, MemGood, Split
  <1>3. m \in MemRec /\ m.free = free
    BY <1>2, NoTableOK, PageRange DEF With, Mem, MemRec
  <1> HIDE DEF m
  <1>4. b \in free /\ k.free = free \ {b} BY <1>1, <1>3, KallocIs
  <1> HIDE DEF k, b
  <1>5. ASSUME NEW p \in Proc
        PROVE  Split(free \ {b}, Own(proc, p), Rest(proc, gr, p))
    <2>1. Split(free, Own(proc, p), Rest(proc, grabbed, p)) BY DEF MemInv, MemGood
    <2>2. {b} \subseteq free BY <1>4
    <2>3. Split(free \ {b}, Own(proc, p), Rest(proc, grabbed, p) \cup {b})
      BY <2>1, <2>2, SplitAlloc
    <2>4. Rest(proc, gr, p) = Rest(proc, grabbed, p) \cup {b} BY DEF Rest
    <2> QED BY <2>3, <2>4
  <1>6. MemGood(free \ {b}, proc, gr) BY <1>5 DEF MemInv, MemGood
  <1> QED BY <1>1, <1>4, <1>6 DEF MemInv

\* A pipe's page, given back.
LEMMA GiveKeeps ==
    ASSUME MemInv, NEW b \in grabbed, Give(b)
    PROVE  MemInv'
  <1> DEFINE gr == grabbed \ {b}
  <1>1. free' = free \cup {b} /\ grabbed' = gr /\ proc' = proc /\ panicked' = panicked
    BY DEF Give
  <1>2. ASSUME NEW p \in Proc
        PROVE  Split(free \cup {b}, Own(proc, p), Rest(proc, gr, p))
    <2>1. \A q \in Proc : Split(free, Own(proc, q), Rest(proc, grabbed, q))
      BY DEF MemInv, MemGood
    <2>2. b \in Rest(proc, grabbed, p) BY InRest
    <2>3. \A q \in Proc : b \notin PagesOf(Own(proc, q))
      <3>1. \A q \in Proc : b \in Rest(proc, grabbed, q) BY InRest
      <3> QED BY <2>1, <3>1 DEF Split, PagesOf
    <2>4. Split(free \cup {b}, Own(proc, p), Rest(proc, grabbed, p) \ {b})
      <3>1. {b} \subseteq Rest(proc, grabbed, p) BY <2>2
      <3> QED BY <2>1, <3>1, SplitFree
    <2>5. Rest(proc, gr, p) = Rest(proc, grabbed, p) \ {b}
      <3>1. \A x : x \in Rest(proc, gr, p) <=> x \in Rest(proc, grabbed, p) \ {b}
        BY <2>3, InRest
      <3> QED BY <3>1
    <2> QED BY <2>4, <2>5
  <1>3. MemGood(free \cup {b}, proc, gr) BY <1>2 DEF MemInv, MemGood
  <1> QED BY <1>1, <1>3 DEF MemInv

----------------------------------------------------------------------------
(* The first process                                                       *)

\* Nothing has failed, and the pages from i on are free.
Spare(m, i) == m \in MemRec /\ m.ok /\ m.free = i .. NPAGE

\* kalloc() takes the first of them.
LEMMA KallocSpare ==
    ASSUME NEW m, NEW i \in 1 .. NPAGE, Spare(m, i)
    PROVE  LET k == Kalloc(m) IN k.ok /\ k.free = (i + 1) .. NPAGE
  <1> DEFINE k == Kalloc(m)
  <1>1. NPAGE \in Nat BY MemoryAssumption
  <1>2. i \in m.free /\ \A b \in m.free : i <= b BY <1>1 DEF Spare
  <1>3. k.got = i /\ k.free = m.free \ {i} /\ k.ok
    <2> HIDE DEF k
    <2>1. /\ m.free # {} => k.got \in m.free /\ k.free = m.free \ {k.got} /\ k.ok = m.ok
          /\ \A j \in m.free : (\A b \in m.free : j <= b) => k.got = j
      BY KallocIs DEF Spare, k
    <2> QED BY <1>2, <2>1 DEF Spare
  <1> HIDE DEF k
  <1>4. (i .. NPAGE) \ {i} = (i + 1) .. NPAGE BY <1>1
  <1> QED BY <1>3, <1>4 DEF Spare, k

\* A level of walk() needs at most one of them.
LEMMA LevelSpare ==
    ASSUME NEW m, NEW tf, NEW X, Accounted(m, tf, X), NEW n \in Nodes, NEW i \in 1 .. NPAGE,
           Spare(m, i)
    PROVE  LET r == Level(m, n) IN
           /\ Spare(r, i) \/ Spare(r, i + 1)
           /\ m.pt.node[n] # 0 => r = m
  <1> DEFINE k == Kalloc(m)
             r == Level(m, n)
             a == Attach(k, n)
  <1>1. CASE m.pt.node[n] # 0
    <2>1. r = m BY <1>1 DEF Level
    <2> HIDE DEF r
    <2> QED BY <2>1 DEF r
  <1>2. CASE m.pt.node[n] = 0
    <2>1. r = a BY <1>2 DEF Level, Spare
    <2>2. k.ok /\ k.free = (i + 1) .. NPAGE BY KallocSpare
    <2>3. k \in MemRec BY KallocSpec DEF Spare
    <2> HIDE DEF k
    <2>4. a = [k EXCEPT !.pt.node[n] = k.got] BY <2>2 DEF Attach
    <2>5. a.ok /\ a.free = k.free BY <2>2, <2>3, <2>4 DEF MemRec
    <2>6. r \in MemRec
      <3>1. Accounted(r, tf, X)
        <4> HIDE DEF r
        <4> QED BY LevelSpec DEF r
      <3> QED BY <3>1 DEF Accounted
    <2>7. Spare(r, i + 1) BY <2>1, <2>2, <2>5, <2>6 DEF Spare
    <2> HIDE DEF r
    <2> QED BY <1>2, <2>7 DEF r
  <1> QED BY <1>1, <1>2

\* The entries on the way to page a.
Way(pt, a) == pt.node[<<1, a \div (FAN * FAN)>>] # 0 /\ pt.node[<<0, a \div FAN>>] # 0

\* walk() needs at most two of them.
LEMMA WalkSpare ==
    ASSUME NEW m, NEW tf, NEW X, Accounted(m, tf, X), NEW a \in VA, NEW i \in 1 .. NPAGE,
           i + 1 <= NPAGE, Spare(m, i)
    PROVE  LET r == Walk(m, a) IN r.ok /\ Way(r.pt, a)
  <1> DEFINE n == <<1, a \div (FAN * FAN)>>
             l == <<0, a \div FAN>>
             k == Level(m, n)
             r == Level(k, l)
  <1>1. n \in Nodes /\ l \in Nodes BY WayNodes
  <1>2. NPAGE \in Nat /\ i + 1 \in 1 .. NPAGE BY MemoryAssumption
  <1> HIDE DEF n, l
  <1>3. Accounted(k, tf, X) /\ (k.ok => k.pt.node[n] # 0) BY <1>1, LevelSpec
  <1>4. Spare(k, i) \/ Spare(k, i + 1) BY <1>1, LevelSpare
  <1> HIDE DEF k
  <1>5. \E j \in 1 .. NPAGE : Spare(k, j) BY <1>2, <1>4
  <1>6. PICK j \in 1 .. NPAGE : Spare(k, j) BY <1>5
  <1>7. Spare(r, j) \/ Spare(r, j + 1) BY <1>1, <1>3, <1>6, LevelSpare
  <1>8. (r.ok => r.pt.node[l] # 0) /\ (k.pt.node[n] # 0 => r.pt.node[n] # 0)
    BY <1>1, <1>3, LevelSpec
  <1> HIDE DEF r
  <1>9. r.ok /\ k.ok BY <1>6, <1>7 DEF Spare
  <1>10. r.ok /\ Way(r.pt, a) BY <1>3, <1>8, <1>9 DEF Way, n, l
  <1> QED BY <1>10 DEF Walk, r, k, n, l

\* With four pages there is memory for the first process.
LEMMA FirstTable ==
    LET k == Kalloc(Mem(Page, NoTable))
        t == ProcPagetable(k, k.got)
    IN /\ k.got \in Page /\ Accounted(t, 0, {k.got}) /\ t.ok /\ Fresh(t.pt.leaf, k.got)
  <1> DEFINE m == Mem(Page, NoTable)
             k == Kalloc(m)
             b == k.got
             g == Kalloc(k)
             r == Root(g)
             w == Walk(r, TRAMPOLINE)
             l == [pa |-> 0, v |-> TRUE, u |-> FALSE, w |-> FALSE]
             q == SetLeaf(w, TRAMPOLINE, l)
             lf == [pa |-> b, v |-> TRUE, u |-> FALSE, w |-> TRUE]
             v == SetLeaf(q, TRAPFRAME, lf)
             t == ProcPagetable(k, b)
  <1>0. NPAGE \in Nat /\ NPAGE >= 4 /\ Page = 1 .. NPAGE BY MemoryAssumption DEF Page
  <1>1. Accounted(m, 0, {}) /\ Spare(m, 1) /\ m.pt = NoTable
    <2>1. /\ m \in MemRec /\ m.ok /\ m.free = Page /\ m.pt = NoTable
      BY NoTableOK, PageRange DEF Mem, MemRec
    <2> HIDE DEF m
    <2> QED BY <1>0, <2>1, NoTableOK, EmptySplit, PageRange DEF Accounted, Spare
  <1> HIDE DEF m
  <1>2. k.ok /\ k.free = 2 .. NPAGE
    <2>1. 1 \in 1 .. NPAGE /\ 1 + 1 = 2 BY <1>0
    <2> QED BY <1>1, <2>1, KallocSpare
  <1>3. b \in Page /\ Accounted(k, 0, {b}) /\ k.pt = NoTable /\ k \in MemRec
    <2>1. m.ok BY <1>1 DEF Spare
    <2>2. k.pt = m.pt /\ (k.ok => k.got \in Page /\ Accounted(k, 0, {} \cup {k.got}))
      BY <1>1, <2>1, KallocSpec
    <2>3. {} \cup {k.got} = {b} OBVIOUS
    <2> QED BY <1>1, <1>2, <2>2, <2>3 DEF Accounted
  <1> HIDE DEF k, b
  <1>4. g.ok /\ g.free = 3 .. NPAGE
    <2>1. 2 \in 1 .. NPAGE /\ 2 + 1 = 3 BY <1>0
    <2>2. Spare(k, 2) BY <1>2, <1>3 DEF Spare
    <2> QED BY <2>1, <2>2, KallocSpare
  <1>5. /\ g.got \in Page /\ g.got \notin {b} /\ Accounted(g, 0, {b} \cup {g.got})
        /\ g.pt = NoTable /\ g \in MemRec
    <2>1. /\ g.pt = k.pt /\ g \in MemRec
          /\ g.ok => g.got \in Page /\ g.got \notin {b} /\ Accounted(g, 0, {b} \cup {g.got})
      BY <1>2, <1>3, KallocSpec
    <2> QED BY <1>3, <1>4, <2>1
  <1> HIDE DEF g
  <1>6. Accounted(r, 0, {b}) /\ r.ok /\ r.pt.leaf = NoTable.leaf
    <2> DEFINE c == g.got
               X == {b}
    <2>1. c \in Page /\ c \notin X /\ Accounted(g, 0, X \cup {c}) /\ g.got = c BY <1>5
    <2> HIDE DEF X, c
    <2>2. Accounted(r, 0, X) /\ r.ok /\ r.pt.leaf = NoTable.leaf
      BY <1>4, <1>5, <2>1, RootSpec
    <2> QED BY <2>2 DEF X
  <1>7. Spare(r, 3)
    <2>1. r = [g EXCEPT !.pt.root = g.got] BY <1>4 DEF Root
    <2>2. r.free = g.free BY <1>5, <2>1 DEF MemRec
    <2> QED BY <1>4, <1>6, <2>2 DEF Spare, Accounted
  <1> HIDE DEF r
  <1>8. w.ok /\ Way(w.pt, TRAMPOLINE) /\ Accounted(w, 0, {b})
    <2>1. 3 \in 1 .. NPAGE /\ 3 + 1 <= NPAGE BY <1>0
    <2>2. w.ok /\ Way(w.pt, TRAMPOLINE) BY <1>6, <1>7, <2>1, Addresses, WalkSpare
    <2>3. Accounted(w, 0, {b}) BY <1>6, Addresses, WalkSpec
    <2> QED BY <2>2, <2>3
  <1> HIDE DEF w
  <1>9. q.ok /\ Way(q.pt, TRAMPOLINE)
    <2>1. q = [w EXCEPT !.pt.leaf[TRAMPOLINE] = l, !.panic = @ \/ w.pt.leaf[TRAMPOLINE].v]
      BY <1>8 DEF SetLeaf
    <2>2. w \in MemRec /\ w.pt \in Table BY <1>8 DEF Accounted, MemRec
    <2>3. q.ok = w.ok /\ q.pt.node = w.pt.node BY <2>1, <2>2 DEF MemRec, Table
    <2> QED BY <1>8, <2>3 DEF Way
  <1>10. AddPage(r, TRAMPOLINE, 0, FALSE) = q
    BY <1>7, <1>9 DEF AddPage, Mappages, OrUvmfree, Spare, w
  <1> HIDE DEF q
  <1>11. Walk(q, TRAPFRAME) = q
    <2>1. Way(q.pt, TRAPFRAME) BY <1>9, TopNodes DEF Way
    <2> QED BY <1>9, <2>1 DEF Way, Walk, Level
  <1>12. v.ok
    <2>1. v = [q EXCEPT !.pt.leaf[TRAPFRAME] = lf, !.panic = @ \/ q.pt.leaf[TRAPFRAME].v]
      BY <1>9 DEF SetLeaf
    <2>2. q = [w EXCEPT !.pt.leaf[TRAMPOLINE] = l, !.panic = @ \/ w.pt.leaf[TRAMPOLINE].v]
      BY <1>8 DEF SetLeaf, q
    <2>3. w \in MemRec BY <1>8 DEF Accounted
    <2>4. v.ok = q.ok BY <2>1, <2>2, <2>3 DEF MemRec
    <2> QED BY <1>9, <2>4
  <1>13. t = v
    <2>1. AddPage(q, TRAPFRAME, b, TRUE) = v
      BY <1>9, <1>11, <1>12 DEF AddPage, Mappages, OrUvmfree
    <2> QED BY <1>10, <2>1 DEF ProcPagetable, r, g
  <1>14. Accounted(t, 0, {b}) /\ (t.ok => Fresh(t.pt.leaf, b))
    <2>1. b \in 0 .. NPAGE BY <1>3, PageRange
    <2> QED BY <1>2, <1>3, <2>1, ProcPagetableSpec
  <1> HIDE DEF t, v
  <1> QED BY <1>3, <1>12, <1>13, <1>14 DEF t, k, m, b

\* The system begins with every page in one place.
LEMMA MemInitGood ==
    ASSUME MemInit
    PROVE  MemInv
  <1> DEFINE k == Kalloc(Mem(Page, NoTable))
             b == k.got
             t == ProcPagetable(k, b)
             r == [sz |-> 0, tf |-> b, pt |-> t.pt]
             pr == [p \in Proc |-> Unused]
  <1>1. /\ free = t.free /\ grabbed = {} /\ panicked = FALSE
        /\ proc = [p \in Proc |-> IF p = initproc THEN r ELSE Unused]
    BY DEF MemInit
  <1>2. b \in Page /\ Accounted(t, 0, {b}) /\ t.ok /\ Fresh(t.pt.leaf, b) BY FirstTable
  <1> HIDE DEF k, t, b
  <1>3. initproc \in Proc BY MemoryAssumption DEF initproc
  <1>4. MemGood(Page, pr, {})
    <2>1. pr \in [Proc -> ProcRec] BY UnusedOK DEF SlotOK
    <2>2. \A p \in Proc : pr[p] = Unused OBVIOUS
    <2> HIDE DEF pr
    <2>3. \A p \in Proc : Own(pr, p) = Held(0, NoTable) BY <2>2, UnusedOK DEF Own
    <2>4. \A p \in Proc : Rest(pr, {}, p) = {}
      <3>1. \A p \in Proc : PagesOf(Own(pr, p)) = {} BY <2>3, PagesOfTop
      <3>2. \A p \in Proc : \A x : x \notin Rest(pr, {}, p) BY <3>1, InRest
      <3> QED BY <3>2
    <2> QED BY <2>1, <2>2, <2>3, <2>4, EmptySplit, UnusedOK DEF MemGood
  <1>5. SlotOK(r)
    <2>1. 0 \in 0 .. TRAPFRAME * PGSIZE BY UnusedOK DEF SlotOK, ProcRec, Unused
    <2>2. Fitting(0) BY <2>1, FittingSize
    <2>3. TableOK(t.pt) /\ t.pt \in Table BY <1>2 DEF Accounted, TableOK
    <2>4. Image(t.pt, 0, b) BY <1>2, <2>2 DEF Image, Below, Top, Fresh, NoLeaf
    <2>5. b \in 0 .. NPAGE /\ b # 0 BY <1>2, PageRange
    <2> QED BY <2>1, <2>3, <2>4, <2>5 DEF SlotOK, ProcRec
  <1>6. r.tf = b /\ r.pt = t.pt OBVIOUS
  <1> HIDE DEF r
  <1>7. Rest(pr, {}, initproc) = {}
    <2>1. \A x : x \notin Rest(pr, {}, initproc)
      <3>1. \A p \in Proc : Own(pr, p) = Held(0, NoTable) BY UnusedOK DEF Own
      <3> HIDE DEF pr
      <3>2. \A p \in Proc : PagesOf(Own(pr, p)) = {} BY <3>1, PagesOfTop
      <3> QED BY <3>2, InRest
    <2> HIDE DEF pr
    <2> QED BY <2>1
  <1>8. Split(t.free, Held(r.tf, r.pt), {})
    <2>1. {} \cup {b} = {b} /\ b \notin {} OBVIOUS
    <2>2. Accounted(t, 0, {} \cup {b}) BY <1>2, <2>1
    <2> QED BY <1>2, <1>6, <2>1, <2>2, TrapframeTaken
  <1>9. MemGood(t.free, [pr EXCEPT ![initproc] = r], {})
    <2> HIDE DEF pr
    <2> QED BY <1>3, <1>4, <1>5, <1>7, <1>8, SlotReplaced
  <1>10. proc = [pr EXCEPT ![initproc] = r] BY <1>1, <1>3
  <1> QED BY <1>1, <1>9, <1>10 DEF MemInv

----------------------------------------------------------------------------
(* The theorems                                                            *)

\* Every operation keeps the invariant.
LEMMA MemStep ==
    ASSUME MemInv, [MemNext]_mem_vars
    PROVE  MemInv'
  <1>1. ASSUME NEW p \in Proc, NEW n \in Growth, Sbrk(p, n) PROVE MemInv'
    BY <1>1, SbrkKeeps
  <1>2. ASSUME NEW p \in Proc, NEW n \in Growth, SbrkLazy(p, n) PROVE MemInv'
    BY <1>2, SbrkLazyKeeps
  <1>3. ASSUME NEW p \in Proc, NEW a \in 0 .. TRAPFRAME - 1, PageFault(p, a) PROVE MemInv'
    BY <1>3, PageFaultKeeps
  <1>4. ASSUME NEW p \in Proc, NEW kind \in {"out", "in", "str"}, NEW a \in 0 .. TRAPFRAME - 2,
               Copy(p, kind, a, a + 1)
        PROVE  MemInv'
    BY <1>4, CopyKeeps
  <1>5. ASSUME NEW p \in Proc, NEW np \in Proc, Fork(p, np) PROVE MemInv'
    BY <1>5, ForkKeeps
  <1>6. ASSUME NEW p \in Proc, Freeproc(p) PROVE MemInv'
    BY <1>6, FreeprocKeeps
  <1>7. ASSUME NEW p \in Proc, NEW n \in 0 .. MaxArgs, NEW prog \in Programs,
               NEW fails \in {"no", "read", "args"}, Exec(p, n, prog, fails)
        PROVE  MemInv'
    BY <1>7, ExecKeeps
  <1>8. CASE Grab BY <1>8, GrabKeeps
  <1>9. ASSUME NEW b \in grabbed, Give(b) PROVE MemInv'
    BY <1>9, GiveKeeps
  <1>10. CASE UNCHANGED mem_vars
    BY <1>10 DEF mem_vars, MemInv, MemGood, Split, Own, Rest
  <1> QED BY <1>1, <1>2, <1>3, <1>4, <1>5, <1>6, <1>7, <1>8, <1>9, <1>10 DEF MemNext

\* So it always holds.
LEMMA MemAlways == MemSpec => []MemInv
  <1>1. MemInit => MemInv BY MemInitGood
  <1>2. MemInv /\ [MemNext]_mem_vars => MemInv' BY MemStep
  <1> QED BY <1>1, <1>2, PTL DEF MemSpec

\* A page is where exactly one process has it.
LEMMA MemExact ==
    ASSUME MemInv
    PROVE  PagesExact
  <1>1. /\ proc \in [Proc -> ProcRec]
        /\ \A p \in Proc : SlotOK(proc[p]) /\ Split(free, Own(proc, p), Rest(proc, grabbed, p))
    BY DEF MemInv, MemGood
  <1>2. grabbed \subseteq Page /\ free \subseteq Page
    <2>1. PICK p \in Proc : TRUE BY MemoryAssumption
    <2>2. Rest(proc, grabbed, p) \subseteq Page /\ free \subseteq Page BY <1>1 DEF Split
    <2> QED BY <2>2, InRest
  <1>3. MemTypeOK
    <2>1. \A p \in Proc : /\ proc[p].sz \in 0 .. TRAPFRAME * PGSIZE
                          /\ proc[p].tf \in 0 .. NPAGE
                          /\ proc[p].pt \in Table
      BY <1>1 DEF ProcRec
    <2> QED BY <1>2, <2>1 DEF MemTypeOK, MemInv
  <1>4. \A p \in Proc : \A a \in UserVA : proc[p].pt.leaf[a].v <=> proc[p].pt.leaf[a].pa # 0
    <2>1. \A p \in Proc : TableOK(proc[p].pt) BY <1>1 DEF SlotOK
    <2> QED BY <2>1, Addresses DEF TableOK, NoLeaf
  <1>5. \A p \in Proc : \A c \in Cell : PageIn(p, c) = Own(proc, p)[c]
    <2>1. ASSUME NEW p \in Proc, NEW c \in Cell PROVE PageIn(p, c) = Own(proc, p)[c]
      <3> DEFINE tf == proc[p].tf
                 pt == proc[p].pt
      <3>1. /\ Held(tf, pt)[<<"tf", 0>>] = tf /\ Held(tf, pt)[<<"root", 0>>] = pt.root
            /\ \A n \in Nodes : Held(tf, pt)[<<"node", n>>] = pt.node[n]
            /\ \A a \in UserVA : Held(tf, pt)[<<"leaf", a>>] = pt.leaf[a].pa
        BY HeldAt
      <3>2. CASE c = <<"tf", 0>> BY <3>1, <3>2 DEF PageIn, Own
      <3>3. CASE c = <<"root", 0>> BY <3>1, <3>3 DEF PageIn, Own
      <3>4. ASSUME NEW n \in Nodes, c = <<"node", n>> PROVE PageIn(p, c) = Own(proc, p)[c]
        BY <3>1, <3>4 DEF PageIn, Own
      <3>5. ASSUME NEW a \in UserVA, c = <<"leaf", a>> PROVE PageIn(p, c) = Own(proc, p)[c]
        BY <3>1, <3>5 DEF PageIn, Own
      <3> QED BY <3>2, <3>3, <3>4, <3>5, CellCases
    <2> QED BY <2>1
  <1>6. ASSUME NEW b \in Page
        PROVE  LET holders == {x \in Proc \X Cell : PageIn(x[1], x[2]) = b} IN
               \/ b \in free /\ b \notin grabbed /\ holders = {}
               \/ b \notin free /\ b \in grabbed /\ holders = {}
               \/ b \notin free /\ b \notin grabbed /\ \E x \in holders : holders = {x}
    <2> DEFINE holders == {x \in Proc \X Cell : PageIn(x[1], x[2]) = b}
    <2>1. \A x : x \in holders <=>
                   x \in Proc \X Cell /\ Own(proc, x[1])[x[2]] = b
      BY <1>5
    <2> HIDE DEF holders
    <2>2. \A p \in Proc : /\ free \cap Rest(proc, grabbed, p) = {}
                          /\ \A c \in Cell : /\ Own(proc, p)[c] \notin free
                                             /\ Own(proc, p)[c] \notin Rest(proc, grabbed, p)
      BY <1>1 DEF Split
    <2>3. \A p \in Proc : b \in grabbed => b \in Rest(proc, grabbed, p) BY InRest
    <2>4. CASE b \in free
      <3>1. b \notin grabbed
        <4>1. PICK p \in Proc : TRUE BY MemoryAssumption
        <4> QED BY <2>2, <2>3, <2>4
      <3>2. \A x : x \notin holders BY <2>1, <2>2, <2>4
      <3>3. holders = {} BY <3>2
      <3> QED BY <2>4, <3>1, <3>3 DEF holders
    <2>5. CASE b \notin free /\ b \in grabbed
      <3>1. \A x : x \notin holders BY <2>1, <2>2, <2>3, <2>5
      <3>2. holders = {} BY <3>1
      <3> QED BY <2>5, <3>2 DEF holders
    <2>6. CASE b \notin free /\ b \notin grabbed
      <3>0. b # 0 BY PageRange
      <3>1. \E p \in Proc, c \in Cell : Own(proc, p)[c] = b
        <4>1. PICK p \in Proc : TRUE BY MemoryAssumption
        <4>2. CASE b \in Rest(proc, grabbed, p)
          <5>1. PICK q \in Proc : b \in PagesOf(Own(proc, q)) BY <2>6, <4>2, InRest
          <5> QED BY <5>1 DEF PagesOf
        <4>3. CASE b \notin Rest(proc, grabbed, p) BY <1>1, <2>6, <4>3 DEF Split
        <4> QED BY <4>2, <4>3
      <3>2. PICK p \in Proc, c \in Cell : Own(proc, p)[c] = b BY <3>1
      <3> DEFINE x == <<p, c>>
      <3>3. x \in holders BY <2>1, <3>2
      <3>4. ASSUME NEW y \in holders PROVE y = x
        <4>1. y \in Proc \X Cell /\ Own(proc, y[1])[y[2]] = b BY <2>1
        <4>2. CASE y[1] = p
          <5>1. y[2] = c BY <1>1, <3>0, <3>2, <4>1, <4>2 DEF Split
          <5> QED BY <4>1, <4>2, <5>1
        <4>3. CASE y[1] # p
          <5>1. b \in PagesOf(Own(proc, y[1])) BY <3>0, <4>1 DEF PagesOf
          <5>2. b \in Rest(proc, grabbed, p) BY <4>1, <4>3, <5>1, InRest
          <5> QED BY <2>2, <3>2, <5>2
        <4> QED BY <4>2, <4>3
      <3>5. holders = {x} BY <3>3, <3>4
      <3> HIDE DEF x
      <3> QED BY <2>6, <3>3, <3>5 DEF holders
    <2> QED BY <2>4, <2>5, <2>6
  <1> QED BY <1>3, <1>4, <1>6 DEF PagesExact

\* The table of a process is an image, so nothing is where it should not be.
LEMMA MemQuiet ==
    ASSUME MemInv
    PROVE  NoPanic
  <1>1. ASSUME NEW p \in Proc, proc[p].tf # 0
        PROVE  LET pt == proc[p].pt IN
               /\ \A a \in VA : pt.leaf[a].v =>
                    a < PGROUNDUP(proc[p].sz) \/ a \in {TRAMPOLINE, TRAPFRAME}
               /\ pt.leaf[TRAMPOLINE].v /\ ~pt.leaf[TRAMPOLINE].u
               /\ pt.leaf[TRAPFRAME].pa = proc[p].tf /\ ~pt.leaf[TRAPFRAME].u
    <2>1. Image(proc[p].pt, proc[p].sz, proc[p].tf) BY <1>1, RunningIs
    <2> QED BY <2>1, Addresses DEF Image, Below, Top, TopLeaf
  <1> QED BY <1>1 DEF NoPanic, MappedBelowSize, MemInv

\* What a fork leaves; every other step leaves a slot its trapframe, or empties it.
LEMMA BornByFork ==
    ASSUME MemInv, [MemNext]_mem_vars, NEW np \in Proc, proc[np].tf = 0, proc'[np].tf # 0
    PROVE  \E p \in Proc : Fork(p, np)
  <1>1. proc \in [Proc -> ProcRec] BY DEF MemInv, MemGood
  <1>2. ASSUME NEW p \in Proc, NEW m, NEW sz, Commit(p, m, sz) PROVE FALSE
    <2>1. proc' = [proc EXCEPT ![p].pt = m.pt, ![p].sz = sz] BY <1>2 DEF Commit
    <2>2. proc'[np].tf = proc[np].tf BY <1>1, <2>1 DEF ProcRec
    <2> QED BY <2>2
  <1>3. ASSUME NEW p \in Proc, NEW n \in Growth, Sbrk(p, n) PROVE FALSE
    BY <1>2, <1>3 DEF Sbrk, Grow
  <1>4. ASSUME NEW p \in Proc, NEW n \in Growth, SbrkLazy(p, n) PROVE FALSE
    <2>1. proc' = [proc EXCEPT ![p].sz = @ + n] BY <1>4 DEF SbrkLazy
    <2>2. proc'[np].tf = proc[np].tf BY <1>1, <2>1 DEF ProcRec
    <2> QED BY <2>2
  <1>5. ASSUME NEW p \in Proc, NEW a \in 0 .. TRAPFRAME - 1, PageFault(p, a) PROVE FALSE
    BY <1>2, <1>5 DEF PageFault
  <1>6. ASSUME NEW p \in Proc, NEW kind \in {"out", "in", "str"}, NEW a \in 0 .. TRAPFRAME - 2,
               Copy(p, kind, a, a + 1)
        PROVE  FALSE
    BY <1>2, <1>6 DEF Copy
  <1>7. ASSUME NEW p \in Proc, NEW q \in Proc, Fork(p, q) PROVE Fork(p, np)
    <2>1. \A s \in Proc : s # q => proc'[s] = proc[s] BY <1>7, ForkKeeps
    <2> QED BY <1>7, <2>1
  <1>8. ASSUME NEW p \in Proc, Freeproc(p) PROVE FALSE
    <2>1. proc' = [proc EXCEPT ![p] = Unused] BY <1>8 DEF Freeproc
    <2>2. proc'[np] = Unused \/ proc'[np] = proc[np] BY <1>1, <2>1
    <2> QED BY <2>2, UnusedOK
  <1>9. ASSUME NEW p \in Proc, NEW n \in 0 .. MaxArgs, NEW prog \in Programs,
               NEW fails \in {"no", "read", "args"}, Exec(p, n, prog, fails)
        PROVE  FALSE
    BY <1>2, <1>9 DEF Exec, Kexec, Committed
  <1>10. ~Grab BY DEF Grab
  <1>11. ASSUME NEW b \in grabbed, Give(b) PROVE FALSE BY <1>11 DEF Give
  <1>12. ~UNCHANGED mem_vars BY DEF mem_vars
  <1> QED
    BY <1>3, <1>4, <1>5, <1>6, <1>7, <1>8, <1>9, <1>10, <1>11, <1>12 DEF MemNext

\* A process that a step makes has a copy of its parent's memory.
LEMMA CopiesMade ==
    ASSUME MemInv, MemInv', [MemNext]_mem_vars, NEW np \in Proc, proc[np].tf = 0,
           proc'[np].tf # 0
    PROVE  \E p \in Proc \ {np} :
              /\ proc'[np].sz = proc[p].sz
              /\ \A a \in UserVA : [proc'[np].pt.leaf[a] EXCEPT !.pa = 0] =
                                   [proc[p].pt.leaf[a] EXCEPT !.pa = 0]
  <1>1. PICK p \in Proc : Fork(p, np) BY BornByFork
  <1>2. /\ p # np /\ proc'[np].sz = proc[p].sz
        /\ Like(proc'[np].pt.leaf, proc[p].pt.leaf, UserVA)
    BY <1>1, ForkKeeps
  <1>3. proc[p].pt \in Table /\ proc'[np].pt \in Table
    BY DEF MemInv, MemGood, SlotOK, ProcRec
  <1>4. ASSUME NEW a \in UserVA
        PROVE  [proc'[np].pt.leaf[a] EXCEPT !.pa = 0] = [proc[p].pt.leaf[a] EXCEPT !.pa = 0]
    <2> DEFINE x == proc'[np].pt.leaf[a]
               y == proc[p].pt.leaf[a]
    <2>1. x \in Leaf /\ y \in Leaf BY <1>3, Addresses DEF Table
    <2>2. x.v = y.v /\ x.u = y.u /\ x.w = y.w BY <1>2 DEF Like
    <2> HIDE DEF x, y
    <2>3. [x EXCEPT !.pa = 0] = [y EXCEPT !.pa = 0] BY <2>1, <2>2 DEF Leaf
    <2> QED BY <2>3 DEF x, y
  <1> QED BY <1>2, <1>4

\* Every page is on the free list, or with others, or in one place of one process, whatever
\* allocation of fork(), exec(), sbrk() or a page fault fails.
THEOREM PagesExactHolds == MemSpec => []PagesExact
  <1>1. MemInv => PagesExact BY MemExact
  <1> QED BY <1>1, MemAlways, PTL

\* mappages(), freewalk() and uvmclear() meet none of their panics, and a process's table
\* has just what freeing it will look for.
THEOREM NoPanicHolds == MemSpec => []NoPanic
  <1>1. MemInv => NoPanic BY MemQuiet
  <1> QED BY <1>1, MemAlways, PTL

\* A new process has its parent's size and a copy of just the pages the parent has.
THEOREM ForkCopiesHolds == MemSpec => ForkCopies
  <1>1. MemInv /\ MemInv' /\ [MemNext]_mem_vars =>
          [\A np \in Proc : proc[np].tf = 0 /\ proc'[np].tf # 0 =>
              \E p \in Proc \ {np} :
              /\ proc'[np].sz = proc[p].sz
              /\ \A a \in UserVA : [proc'[np].pt.leaf[a] EXCEPT !.pa = 0] =
                                   [proc[p].pt.leaf[a] EXCEPT !.pa = 0]]_mem_vars
    BY CopiesMade
  <1> QED BY <1>1, MemAlways, PTL DEF MemSpec, ForkCopies
=============================================================================
