----------------------------- MODULE AtomicDisk -----------------------------
(***************************************************************************)
(* What the xv6 logging layer promises (the comment at the head of         *)
(* kernel/log.c): the updates of a group of file-system calls reach the    *)
(* disk all together or, after a crash, not at all, and never while one of *)
(* the calls is still going on.                                            *)
(***************************************************************************)
CONSTANTS
    Proc,       \* processes that make file-system calls
    Block,      \* disk blocks outside the log
    Val         \* block contents

VARIABLES
    mem,        \* the blocks as running calls read them
    durable,    \* the blocks as they would be after a crash and a restart
    active      \* the processes between begin_op() and end_op()

dvars == <<mem, durable, active>>

\* A call starts; a new group only once the previous one is durable.
Begin(p) ==
    /\ p \notin active
    /\ active = {} => durable = mem
    /\ active' = active \cup {p}
    /\ UNCHANGED <<mem, durable>>

Write(p) ==
    /\ p \in active
    /\ \E b \in Block, v \in Val : mem' = [mem EXCEPT ![b] = v]
    /\ UNCHANGED <<durable, active>>

End(p) ==
    /\ p \in active
    /\ active' = active \ {p}
    /\ UNCHANGED <<mem, durable>>

\* All updates of the group become durable in one step.
Commit ==
    /\ active = {}
    /\ durable' = mem
    /\ UNCHANGED <<mem, active>>

\* Everything since the last commit is gone, and nothing else.
Crash ==
    /\ mem' = durable
    /\ active' = {}
    /\ UNCHANGED durable

Init ==
    /\ mem \in [Block -> Val]
    /\ durable = mem
    /\ active = {}

Next ==
    \/ \E p \in Proc : Begin(p) \/ Write(p) \/ End(p)
    \/ Commit
    \/ Crash

Spec == Init /\ [][Next]_dvars
=============================================================================
