------------------------------ MODULE BytePipe ------------------------------
(***************************************************************************)
(* What pipes promise: a bounded queue of bytes with two ends.  Bytes come *)
(* out in the order in which they went in, none is lost or doubled, and    *)
(* nothing goes in once no reader is left.                                 *)
(***************************************************************************)
EXTENDS Naturals, Sequences

CONSTANTS Pages, Bytes, PIPESIZE

VARIABLES queue, readopen, writeopen

vars == <<queue, readopen, writeopen>>

Init ==
    /\ queue = [i \in Pages |-> <<>>]
    /\ readopen = [i \in Pages |-> FALSE]
    /\ writeopen = [i \in Pages |-> FALSE]

Create(i) ==
    /\ ~readopen[i] /\ ~writeopen[i]
    /\ queue' = [queue EXCEPT ![i] = <<>>]
    /\ readopen' = [readopen EXCEPT ![i] = TRUE]
    /\ writeopen' = [writeopen EXCEPT ![i] = TRUE]

Put(i, b) ==
    /\ writeopen[i]
    /\ Len(queue[i]) < PIPESIZE
    /\ queue' = [queue EXCEPT ![i] = Append(@, b)]
    /\ UNCHANGED <<readopen, writeopen>>

Get(i) ==
    /\ readopen[i]
    /\ queue[i] # <<>>
    /\ queue' = [queue EXCEPT ![i] = Tail(@)]
    /\ UNCHANGED <<readopen, writeopen>>

\* The bytes of a pipe are gone with its second end.
CloseRead(i) ==
    /\ readopen[i]
    /\ readopen' = [readopen EXCEPT ![i] = FALSE]
    /\ queue' = IF writeopen[i] THEN queue ELSE [queue EXCEPT ![i] = <<>>]
    /\ UNCHANGED writeopen

CloseWrite(i) ==
    /\ writeopen[i]
    /\ writeopen' = [writeopen EXCEPT ![i] = FALSE]
    /\ queue' = IF readopen[i] THEN queue ELSE [queue EXCEPT ![i] = <<>>]
    /\ UNCHANGED readopen

Next ==
    \E i \in Pages :
        \/ Create(i) \/ Get(i) \/ CloseRead(i) \/ CloseWrite(i)
        \/ \E b \in Bytes : Put(i, b)

Spec == Init /\ [][Next]_vars
=============================================================================
