----------------------------- MODULE Scheduler -----------------------------
(***************************************************************************)
(* The lottery scheduler of the xv6 kernel (scheduler() and settickets()   *)
(* in xv6-riscv/kernel/proc.c).  Each hart adds up the tickets of the      *)
(* runnable processes, draws a winning ticket and walks proc[] again until *)
(* the running sum exceeds it.  Both walks take one slot's lock at a time, *)
(* so other harts, wakeups and settickets() change the table between and   *)
(* during them.  The sums are C ints, from -MAXINT - 1 to MAXINT.          *)
(*                                                                         *)
(* A process is seen only as far as the scheduler sees it: runnable,       *)
(* running, or blocked (sleeping, a zombie, or no process at all).         *)
(***************************************************************************)
EXTENDS Integers, FiniteSets

CONSTANTS
    NPROC,          \* slots of proc[]
    Harts,
    MAXINT,         \* largest int: 2^31 - 1, or 2^(w-1) - 1 for narrow ints
    Tickets,        \* arguments given to settickets(); sys_settickets() rejects <= 0
    InitTicket      \* tickets from allocproc(), or inherited

Slots == 1 .. NPROC

ASSUME NPROCAssumption == NPROC \in Nat \ {0}
ASSUME TicketAssumption ==
    /\ MAXINT \in Nat
    /\ Tickets \subseteq 1 .. MAXINT
    /\ InitTicket \in 1 .. MAXINT

VARIABLES
    state,          \* p->state
    ticket,         \* p->ticket
    cur,            \* c->proc, 0 when the hart is in scheduler()
    spc,            \* where the hart's scheduler() is
    at,             \* slot its loop is at
    total,          \* total_tickets
    winner,
    counter,
    stable,         \* history: the table has not changed since the first walk began
    seen            \* history: runnable processes met in the first walk

table == <<state, ticket>>
vars  == <<state, ticket, cur, spc, at, total, winner, counter, stable, seen>>

TypeOK ==
    /\ state \in [Slots -> {"BLOCKED", "RUNNABLE", "RUNNING"}]
    /\ ticket \in [Slots -> 1 .. MAXINT]
    /\ cur \in [Harts -> 0 .. NPROC]
    /\ spc \in [Harts -> {"count", "draw", "pick", "wfi", "run"}]
    /\ at \in [Harts -> Slots]
    /\ total \in [Harts -> -MAXINT - 1 .. MAXINT]
    /\ winner \in [Harts -> 0 .. MAXINT]
    /\ counter \in [Harts -> -MAXINT - 1 .. MAXINT]
    /\ stable \in [Harts -> BOOLEAN]
    /\ seen \in [Harts -> SUBSET Slots]

\* int addition as the build performs it.
AddInt(x, y) ==
    ((x + y + MAXINT + 1) % (2 * MAXINT + 2)) - (MAXINT + 1)

\* (rand_int() & 0x7FFFFFFF) % n: the C remainder takes the dividend's sign.
Draws(n) == {r % (IF n < 0 THEN -n ELSE n) : r \in 0 .. MAXINT}

\* Any change of the table makes the sums of all harts old.
Disturb == stable' = [c \in Harts |-> FALSE]

----------------------------------------------------------------------------
(* scheduler() on hart c                                                   *)

\* Start the outer loop again.
Again(c) ==
    /\ spc' = [spc EXCEPT ![c] = "count"]
    /\ at' = [at EXCEPT ![c] = 1]
    /\ total' = [total EXCEPT ![c] = 0]
    /\ winner' = [winner EXCEPT ![c] = 0]
    /\ counter' = [counter EXCEPT ![c] = 0]
    /\ seen' = [seen EXCEPT ![c] = {}]

\* Mutant of Count: total_tickets is reset in every iteration.
CountResets(c) ==
    LET p == at[c]
        runnable == state[p] = "RUNNABLE"
    IN
    /\ spc[c] = "count"
    /\ total' = [total EXCEPT ![c] = IF runnable THEN ticket[p] ELSE 0]
    /\ seen' = [seen EXCEPT ![c] = IF runnable THEN @ \cup {p} ELSE @]
    /\ stable' = [stable EXCEPT ![c] = @ \/ p = 1]
    /\ \/ p < NPROC /\ at' = [at EXCEPT ![c] = p + 1] /\ UNCHANGED spc
       \/ p = NPROC /\ at' = [at EXCEPT ![c] = 1] /\ spc' = [spc EXCEPT ![c] = "draw"]
    /\ UNCHANGED <<table, cur, winner, counter>>

\* First walk: add the slot's tickets if it is runnable.
Count(c) ==
    LET p == at[c]
        runnable == state[p] = "RUNNABLE"
    IN
    /\ spc[c] = "count"
    /\ total' = [total EXCEPT ![c] = IF runnable THEN AddInt(@, ticket[p]) ELSE @]
    /\ seen' = [seen EXCEPT ![c] = IF runnable THEN @ \cup {p} ELSE @]
    /\ stable' = [stable EXCEPT ![c] = @ \/ p = 1]
    /\ \/ p < NPROC /\ at' = [at EXCEPT ![c] = p + 1] /\ UNCHANGED spc
       \/ p = NPROC /\ at' = [at EXCEPT ![c] = 1] /\ spc' = [spc EXCEPT ![c] = "draw"]
    /\ UNCHANGED <<table, cur, winner, counter>>

\* total_tickets == 0: nothing to run.
Idle(c) ==
    /\ spc[c] = "draw"
    /\ total[c] = 0
    /\ spc' = [spc EXCEPT ![c] = "wfi"]
    /\ UNCHANGED <<table, cur, at, total, winner, counter, stable, seen>>

\* An interrupt ends wfi; continue.
Interrupt(c) ==
    /\ spc[c] = "wfi"
    /\ Again(c)
    /\ UNCHANGED <<table, cur, stable>>

DrawTicket(c, w) ==
    /\ spc[c] = "draw"
    /\ total[c] # 0
    /\ w \in Draws(total[c])
    /\ winner' = [winner EXCEPT ![c] = w]
    /\ spc' = [spc EXCEPT ![c] = "pick"]
    /\ UNCHANGED <<table, cur, at, total, counter, stable, seen>>

\* The sum after the slot of the second walk.
NewCounter(c) ==
    IF state[at[c]] = "RUNNABLE" THEN AddInt(counter[c], ticket[at[c]]) ELSE counter[c]

\* Mutants of Wins: counter >= winner; a process that another hart has taken in
\* the meantime still takes part.
WinsEarly(c) == state[at[c]] = "RUNNABLE" /\ NewCounter(c) >= winner[c]

WinsTaken(c) == state[at[c]] # "BLOCKED" /\ AddInt(counter[c], ticket[at[c]]) > winner[c]

Wins(c) == state[at[c]] = "RUNNABLE" /\ NewCounter(c) > winner[c]

\* Second walk: this process wins the lottery, and the hart runs it.
Dispatch(c) ==
    /\ spc[c] = "pick"
    /\ Wins(c)
    /\ state' = [state EXCEPT ![at[c]] = "RUNNING"]
    /\ cur' = [cur EXCEPT ![c] = at[c]]
    /\ spc' = [spc EXCEPT ![c] = "run"]
    /\ counter' = [counter EXCEPT ![c] = NewCounter(c)]
    /\ Disturb
    /\ UNCHANGED <<ticket, at, total, winner, seen>>

Skip(c) ==
    /\ spc[c] = "pick"
    /\ ~Wins(c)
    /\ at[c] < NPROC
    /\ counter' = [counter EXCEPT ![c] = NewCounter(c)]
    /\ at' = [at EXCEPT ![c] = @ + 1]
    /\ UNCHANGED <<table, cur, spc, total, winner, stable, seen>>

\* The walk ends without a winner.
NoWinner(c) ==
    /\ spc[c] = "pick"
    /\ ~Wins(c)
    /\ at[c] = NPROC
    /\ Again(c)
    /\ UNCHANGED <<table, cur, stable>>

----------------------------------------------------------------------------
(* What happens to the processes                                           *)

\* The process on hart c yields or blocks; sched() returns to scheduler().
SwitchBack(c, s) ==
    /\ spc[c] = "run"
    /\ state' = [state EXCEPT ![cur[c]] = s]
    /\ cur' = [cur EXCEPT ![c] = 0]
    /\ Again(c)
    /\ Disturb
    /\ UNCHANGED ticket

\* wakeup(), kkill() or kfork() makes a process runnable: in a process some
\* hart runs, or in an interrupt, which a hart that is in scheduler() takes at
\* the head of the loop only.
Wakeup(p) ==
    /\ state[p] = "BLOCKED"
    /\ \E c \in Harts : spc[c] = "run" \/ (spc[c] = "count" /\ at[c] = 1)
    /\ state' = [state EXCEPT ![p] = "RUNNABLE"]
    /\ Disturb
    /\ UNCHANGED <<ticket, cur, spc, at, total, winner, counter, seen>>

\* sys_settickets() refuses other numbers.
ValidTickets(n) == n > 0

\* A process on some hart calls settickets() for p.
SetTickets(p, n) ==
    /\ ValidTickets(n)
    /\ \E c \in Harts : spc[c] = "run"
    /\ ticket[p] # n
    /\ ticket' = [ticket EXCEPT ![p] = n]
    /\ Disturb
    /\ UNCHANGED <<state, cur, spc, at, total, winner, counter, seen>>

----------------------------------------------------------------------------
(* The specification                                                       *)

Init ==
    /\ state = [p \in Slots |-> "BLOCKED"]
    /\ ticket = [p \in Slots |-> InitTicket]
    /\ cur = [c \in Harts |-> 0]
    /\ spc = [c \in Harts |-> "count"]
    /\ at = [c \in Harts |-> 1]
    /\ total = [c \in Harts |-> 0]
    /\ winner = [c \in Harts |-> 0]
    /\ counter = [c \in Harts |-> 0]
    /\ stable = [c \in Harts |-> FALSE]
    /\ seen = [c \in Harts |-> {}]

SchedStep(c) ==
    \/ Count(c) \/ Idle(c) \/ Interrupt(c) \/ Dispatch(c) \/ Skip(c) \/ NoWinner(c)

Next ==
    \/ \E c \in Harts :
        \/ SchedStep(c)
        \/ \E w \in 0 .. MAXINT : DrawTicket(c, w)
        \/ \E s \in {"RUNNABLE", "BLOCKED"} : SwitchBack(c, s)
    \/ \E p \in Slots : Wakeup(p) \/ \E n \in Tickets : SetTickets(p, n)

Spec == Init /\ [][Next]_vars

\* The tickets each slot takes part with.
Weight == [p \in Slots |-> IF state[p] = "RUNNABLE" THEN ticket[p] ELSE 0]

\* The sum of w over the slots before n.
SumBefore(w, n) ==
    LET sum[i \in 1 .. NPROC + 1] == IF i = 1 THEN 0 ELSE sum[i - 1] + w[i - 1]
    IN sum[n]

\* The tickets of the runnable processes in the slots before n.
TicketsBefore(n) == SumBefore(Weight, n)

\* The draw gives one of p's tickets.
DrawFor(c, p) ==
    \E w \in TicketsBefore(p) .. TicketsBefore(p + 1) - 1 : DrawTicket(c, w)

\* Harts keep executing, the timer ends every wfi and every time slice, and a
\* process that takes part in infinitely many draws is drawn at some time (the
\* generator is random: with probability one nobody loses for ever).  User code
\* may call settickets() for ever, and nothing needs to be woken up.
FairSpec ==
    /\ Spec
    /\ \A c \in Harts :
        /\ WF_vars(SchedStep(c) \/ SwitchBack(c, "RUNNABLE"))
        /\ \A p \in Slots : SF_vars(DrawFor(c, p))

----------------------------------------------------------------------------
(* Properties                                                              *)

\* Two harts never run the same process, and a process is RUNNING exactly when
\* a hart runs it, however their walks interleave.
OneHart ==
    \A p \in Slots :
        /\ state[p] = "RUNNING" <=> \E c \in Harts : cur[c] = p
        /\ \A c, d \in Harts : cur[c] = p /\ cur[d] = p => c = d

\* Each runnable process wins with its own tickets: while the table is as the
\* first walk found it, the process that is run owns the ticket drawn, and the
\* walk does not end without a winner.
HonestDraw ==
    [][\A c \in Harts : stable[c] =>
        /\ Dispatch(c) =>
            winner[c] \in TicketsBefore(at[c]) .. TicketsBefore(at[c] + 1) - 1
        /\ ~NoWinner(c)]_vars

\* "nothing to run; stop running on this core until an interrupt": a hart stops
\* only if it met no runnable process.
IdleOnlyWhenEmpty == \A c \in Harts : spc[c] = "wfi" => seen[c] = {}

\* Every runnable process is run, whatever the tickets of the others.
EventuallyRuns ==
    \A p \in Slots : (state[p] = "RUNNABLE") ~> (state[p] = "RUNNING")
=============================================================================
