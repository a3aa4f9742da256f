----------------------------- MODULE MCConsole ------------------------------
EXTENDS Console, TLC

Sym == Permutations(Hart)

\* A state without what nothing will read again: free places of the buffer, intena outside
\* push_off(), a handled character, and that a process was killed where no one asks.
Live ==
    <<[i \in 1 .. Minus(e, r) |-> buf[Slot(r + i - 1)]], r, w, e, tx_busy, lock, intr, noff,
      [h \in Hart |-> noff[h] > 0 /\ intena[h]],
      [h \in Hart |-> [pr[h] EXCEPT !.killed = @ /\ pr[h].target > 0]],
      [h \in Hart |-> IF irq[h].pc \in {"none", "ack", "tx", "rx"} THEN irq[h].pc ELSE irq[h]],
      uart, service>>
=============================================================================
