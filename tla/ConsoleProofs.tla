--------------------------- MODULE ConsoleProofs ----------------------------
(***************************************************************************)
(* Theorems about the console and the UART.                                *)
(*                                                                         *)
(* The inductive invariant Inv says, of each hart, what push_off() has     *)
(* done to its interrupts at each point (HartInv) and which locks it holds *)
(* there (HoldInv); then how the transmitter's interrupt, the sleepers and *)
(* the indices of the input buffer go together (TxInv, RxInv), and how     *)
(* many bytes may still be put without another look at the UART (OutInv).  *)
(***************************************************************************)
EXTENDS Console, SequenceTheorems, TLAPS

\* Where a process holds no lock and waits for none.
Off == {"user", "rsleep", "rwoken", "wsleep", "wwoken"}
\* Where the handler is in consoleintr().
InCons == {"edit", "echo", "put", "store"}

\* The interrupt flag and the depth of push_off() where the hart is.
HartOK(h) ==
    /\ irq[h].pc = "none" /\ pr[h].pc \in Off => intr[h] = TRUE /\ noff[h] = 0
    /\ irq[h].pc = "none" /\ pr[h].pc \notin Off =>
           intr[h] = FALSE /\ noff[h] = 1 /\ intena[h] = TRUE
    /\ irq[h].pc # "none" => pr[h].pc \in Off /\ intr[h] = FALSE
    /\ irq[h].pc \in {"ack", "tx", "rx"} => noff[h] = 0
    /\ irq[h].pc \in InCons => noff[h] = 1 /\ intena[h] = FALSE

\* Interrupts are off on a hart while it has a lock or is in the handler.
HartInv == \A h \in Hart : HartOK(h)

\* Each lock is held by the hart whose process or handler is in its section.
HoldInv ==
    \A h \in Hart :
        /\ lock["cons"] = h <=> (pr[h].pc = "read" \/ irq[h].pc \in InCons)
        /\ lock["tx"] = h <=> pr[h].pc = "write"
        /\ lock["pr"] = h <=> pr[h].pc \in {"pwait", "pput"}

\* While a writer sleeps, an interrupt that will wake it is still to come.
TxInv == WriterWakes

\* Characters are only stored where there is room, and handed over when there is none left.
RxInv ==
    /\ ReaderWakes
    /\ Minus(w, r) <= Minus(e, r)
    /\ Minus(e, r) <= INPUT_BUF_SIZE
    /\ \A h \in Hart :
           /\ irq[h].pc \in {"echo", "put", "store"} /\ irq[h].c \notin {"^H", "^U"} =>
                  Minus(e, r) < INPUT_BUF_SIZE
           /\ irq[h].pc = "store" => irq[h].c \notin {"^H", "^U"}

\* One byte may come from printf(), one from an echo and one from uartwrite().
May(b) == IF b THEN 1 ELSE 0
Printing == \E h \in Hart : pr[h].pc = "pput"
Echoing  == \E h \in Hart : irq[h].pc = "put"

\* The bytes in the UART and those on their way are three at most.
OutInv == fifo + May(Printing) + May(Echoing) + May(~tx_busy) <= 3

Inv == TypeOK /\ HartInv /\ HoldInv /\ TxInv /\ RxInv /\ OutInv

----------------------------------------------------------------------------
(* What the parts of an action do to the state of each hart                *)

\* The parts of TypeOK, for steps that need only one of them.
LEMMA Types ==
    ASSUME TypeOK
    PROVE  /\ buf \in [0 .. INPUT_BUF_SIZE - 1 -> {"x", "nl", "^D"}]
           /\ r \in 0 .. UINT - 1 /\ w \in 0 .. UINT - 1 /\ e \in 0 .. UINT - 1
           /\ tx_busy \in BOOLEAN
           /\ lock \in [{"cons", "tx", "pr"} -> Hart \cup {0}]
           /\ intr \in [Hart -> BOOLEAN] /\ noff \in [Hart -> 0 .. 2]
           /\ intena \in [Hart -> BOOLEAN]
           /\ pr \in [Hart -> ProcessState] /\ irq \in [Hart -> HandlerState]
           /\ rx \in 0 .. RXMAX
           /\ fifo \in Nat /\ thre \in BOOLEAN /\ service \in Hart \cup {0}
BY DEF TypeOK

\* The assumptions on the constants, in a form without subtraction.
LEMMA Consts ==
    /\ INPUT_BUF_SIZE \in Nat /\ INPUT_BUF_SIZE > 0
    /\ UINT \in Nat /\ UINT > INPUT_BUF_SIZE
    /\ RXMAX \in Nat /\ 0 \notin Hart
BY ConsoleAssumption

\* To(): the process of one hart gets to another point.
LEMMA ToDoes ==
    ASSUME TypeOK, NEW h \in Hart, NEW x, To(h, x)
    PROVE  /\ pr'[h].pc = x /\ pr'[h].n = pr[h].n /\ pr'[h].killed = pr[h].killed
           /\ \A q \in Hart \ {h} : pr'[q] = pr[q]
           /\ x \in {"user", "racq", "read", "rsleep", "rwoken", "wacq", "write", "wsleep",
                     "wwoken", "pacq", "pwait", "pput"} => pr' \in [Hart -> ProcessState]
<1>. pr \in [Hart -> ProcessState] BY Types
<1>. QED BY DEF To, ProcessState

\* HTo(): the handler of one hart gets to another point.
LEMMA HToDoes ==
    ASSUME TypeOK, NEW h \in Hart, NEW x, HTo(h, x)
    PROVE  /\ irq'[h].pc = x /\ irq'[h].c = irq[h].c
           /\ \A q \in Hart \ {h} : irq'[q] = irq[q]
           /\ x \in {"none", "ack", "tx", "rx", "edit", "echo", "put", "store"} =>
                  irq' \in [Hart -> HandlerState]
<1>. irq \in [Hart -> HandlerState] BY Types
<1>. QED BY DEF HTo, HandlerState

\* push_off() on one hart.
LEMMA PushOffDoes ==
    ASSUME TypeOK, NEW h \in Hart, PushOff(h), noff[h] = 0
    PROVE  /\ intr'[h] = FALSE /\ noff'[h] = 1 /\ intena'[h] = intr[h]
           /\ \A q \in Hart \ {h} :
                  intr'[q] = intr[q] /\ noff'[q] = noff[q] /\ intena'[q] = intena[q]
           /\ intr' \in [Hart -> BOOLEAN] /\ noff' \in [Hart -> 0 .. 2]
           /\ intena' \in [Hart -> BOOLEAN]
<1>. intr \in [Hart -> BOOLEAN] /\ noff \in [Hart -> 0 .. 2] /\ intena \in [Hart -> BOOLEAN]
  BY Types
<1>. QED BY DEF PushOff

\* The last pop_off() on one hart: interrupts are what they were.
LEMMA PopOffDoes ==
    ASSUME TypeOK, NEW h \in Hart, PopOff(h), noff[h] = 1
    PROVE  /\ noff'[h] = 0 /\ intena'[h] = intena[h]
           /\ intena[h] = TRUE => intr'[h] = TRUE
           /\ intena[h] = FALSE => intr'[h] = intr[h]
           /\ \A q \in Hart \ {h} :
                  intr'[q] = intr[q] /\ noff'[q] = noff[q] /\ intena'[q] = intena[q]
           /\ intr' \in [Hart -> BOOLEAN] /\ noff' \in [Hart -> 0 .. 2]
           /\ intena' \in [Hart -> BOOLEAN]
<1>. intr \in [Hart -> BOOLEAN] /\ noff \in [Hart -> 0 .. 2] /\ intena \in [Hart -> BOOLEAN]
  BY Types
<1>1. noff' = [noff EXCEPT ![h] = 0] /\ intena' = intena
  BY DEF PopOff
<1>2. CASE intena[h] = TRUE
  <2>1. intr' = [intr EXCEPT ![h] = TRUE]
    BY <1>2 DEF PopOff
  <2>. QED BY <1>1, <1>2, <2>1
<1>3. CASE intena[h] = FALSE
  <2>1. intr' = intr
    BY <1>3 DEF PopOff
  <2>. QED BY <1>1, <1>3, <2>1
<1>. QED BY <1>2, <1>3

\* A lock gets or loses its holder.
LEMMA LockDoes ==
    ASSUME TypeOK, NEW lk \in {"cons", "tx", "pr"}, NEW o \in Hart \cup {0},
           lock' = [lock EXCEPT ![lk] = o]
    PROVE  /\ lock'[lk] = o
           /\ \A l \in {"cons", "tx", "pr"} \ {lk} : lock'[l] = lock[l]
           /\ lock' \in [{"cons", "tx", "pr"} -> Hart \cup {0}]
<1>. lock \in [{"cons", "tx", "pr"} -> Hart \cup {0}] BY Types
<1>. QED OBVIOUS

\* The process of one hart is back in user space.
LEMMA UserDoes ==
    ASSUME TypeOK, NEW h \in Hart, pr' = [pr EXCEPT ![h] = InUser]
    PROVE  /\ pr'[h].pc = "user"
           /\ \A q \in Hart \ {h} : pr'[q] = pr[q]
           /\ pr' \in [Hart -> ProcessState]
<1>. pr \in [Hart -> ProcessState] BY Types
<1>. QED BY DEF InUser, ProcessState

\* One byte less to read or to write.
LEMMA CountDoes ==
    ASSUME TypeOK, NEW h \in Hart, pr[h].n > 0, pr' = [pr EXCEPT ![h].n = @ - 1]
    PROVE  /\ \A q \in Hart : pr'[q].pc = pr[q].pc
           /\ pr' \in [Hart -> ProcessState]
<1>1. pr \in [Hart -> ProcessState] BY Types
<1>2. pr[h].n - 1 \in Nat BY <1>1 DEF ProcessState
<1>3. pr'[h] = [pr[h] EXCEPT !.n = pr[h].n - 1] /\ \A q \in Hart \ {h} : pr'[q] = pr[q]
  BY <1>1
<1>4. pr'[h] \in ProcessState /\ pr'[h].pc = pr[h].pc
  BY <1>1, <1>2, <1>3 DEF ProcessState
<1>. QED BY <1>1, <1>3, <1>4

\* wakeup(): every sleeper of one kind, and nobody else, is awake.
LEMMA WakeupDoes ==
    ASSUME TypeOK, NEW a \in {"rsleep", "wsleep"}, NEW b \in {"rwoken", "wwoken"}, Wakeup(a, b)
    PROVE  /\ \A q \in Hart : pr'[q].pc = IF pr[q].pc = a THEN b ELSE pr[q].pc
           /\ pr' \in [Hart -> ProcessState]
<1>1. pr \in [Hart -> ProcessState] BY Types
<1>2. ASSUME NEW q \in Hart
      PROVE  /\ pr'[q] \in ProcessState
             /\ pr'[q].pc = IF pr[q].pc = a THEN b ELSE pr[q].pc
  <2>1. pr'[q] = IF pr[q].pc = a THEN [pr[q] EXCEPT !.pc = b] ELSE pr[q]
    BY DEF Wakeup
  <2>2. CASE pr[q].pc = a
    BY <1>1, <2>1, <2>2 DEF ProcessState
  <2>3. CASE pr[q].pc # a
    BY <1>1, <2>1, <2>3 DEF ProcessState
  <2>. QED BY <2>2, <2>3
<1>3. pr' = [q \in Hart |-> pr'[q]]
  BY DEF Wakeup
<1>. QED BY <1>2, <1>3

----------------------------------------------------------------------------
(* Steps that do not touch a part of the invariant                         *)

\* No new sleeper, and no less to come from the transmitter.
LEMMA TxSame ==
    ASSUME TypeOK, TxInv, tx_busy' = tx_busy,
           \A q \in Hart : pr'[q].pc = "wsleep" => pr[q].pc = "wsleep",
           fifo > 0 \/ thre = TRUE => fifo' > 0 \/ thre' = TRUE,
           \A q \in Hart : irq[q].pc \in {"ack", "tx"} => irq'[q].pc \in {"ack", "tx"}
    PROVE  TxInv'
<1>. thre \in BOOLEAN BY Types
<1>. QED BY DEF TxInv, WriterWakes

\* The indices stay, nobody new sleeps, and a handler that was let in is still let in.
LEMMA RxSame ==
    ASSUME RxInv, r' = r, w' = w, e' = e,
           \A q \in Hart : pr'[q].pc = "rsleep" => pr[q].pc = "rsleep",
           \A q \in Hart : irq'[q].pc \in {"echo", "put", "store"} =>
               irq[q].pc \in {"echo", "put", "store"} /\ irq'[q].c = irq[q].c,
           \A q \in Hart : irq'[q].pc = "store" => irq'[q].c \notin {"^H", "^U"}
    PROVE  RxInv'
BY DEF RxInv, ReaderWakes, Minus

\* No byte more to come, and none sent.
LEMMA OutSame ==
    ASSUME TypeOK, OutInv, fifo' \in Nat, fifo' <= fifo, tx_busy' = tx_busy,
           \A q \in Hart : pr'[q].pc = "pput" => pr[q].pc = "pput",
           \A q \in Hart : irq'[q].pc = "put" => irq[q].pc = "put"
    PROVE  OutInv'
<1>1. Printing' => Printing BY DEF Printing
<1>2. Echoing' => Echoing BY DEF Echoing
<1>3. May(Printing)' <= May(Printing) BY <1>1 DEF May
<1>4. May(Echoing)' <= May(Echoing) BY <1>2 DEF May
<1>5. May(~tx_busy)' = May(~tx_busy) BY DEF May
<1>6. /\ May(Printing) \in Nat /\ May(Printing)' \in Nat
      /\ May(Echoing) \in Nat /\ May(Echoing)' \in Nat /\ May(~tx_busy) \in Nat
  BY DEF May
<1>7. fifo \in Nat BY Types
<1>. QED BY <1>3, <1>4, <1>5, <1>6, <1>7 DEF OutInv

\* The transmitter was seen idle: whoever puts now, there is room for all three.
LEMMA OutEmpty ==
    ASSUME fifo' = 0
    PROVE  OutInv'
<1>1. /\ May(Printing)' \in 0 .. 1 /\ May(Echoing)' \in 0 .. 1 /\ May(~tx_busy)' \in 0 .. 1
  BY DEF May
<1>. QED BY <1>1 DEF OutInv

\* A step that leaves the handlers and the cpus alone, and does not move a process between
\* the points with and without a lock.
LEMMA HartSame ==
    ASSUME HartInv, irq' = irq, intr' = intr, noff' = noff, intena' = intena,
           \A q \in Hart : pr'[q].pc \in Off <=> pr[q].pc \in Off
    PROVE  HartInv'
BY DEF HartInv, HartOK

\* A step of one hart: what it leaves alone on the others still holds there.
LEMMA HartStep ==
    ASSUME HartInv, NEW h \in Hart,
           \A q \in Hart \ {h} :
               irq'[q] = irq[q] /\ (pr'[q].pc \in Off <=> pr[q].pc \in Off)
               /\ intr'[q] = intr[q] /\ noff'[q] = noff[q] /\ intena'[q] = intena[q],
           HartOK(h)'
    PROVE  HartInv'
<1>1. \A q \in Hart \ {h} : HartOK(q)' BY DEF HartInv, HartOK
<1>. QED BY <1>1 DEF HartInv

\* A step that keeps the holders where they were.
LEMMA HoldSame ==
    ASSUME HoldInv, lock' = lock,
           \A q \in Hart : /\ pr'[q].pc = "read" <=> pr[q].pc = "read"
                           /\ pr'[q].pc = "write" <=> pr[q].pc = "write"
                           /\ pr'[q].pc \in {"pwait", "pput"} <=> pr[q].pc \in {"pwait", "pput"}
                           /\ irq'[q].pc \in InCons <=> irq[q].pc \in InCons
    PROVE  HoldInv'
BY DEF HoldInv

----------------------------------------------------------------------------
(* The processes                                                           *)

\* The three calls: push_off() and on to acquire().
LEMMA Call_Inv ==
    ASSUME Inv, NEW h \in Hart, NEW x \in {"racq", "wacq", "pacq"}, NEW n \in Nat, Call(h, x, n)
    PROVE  Inv'
<1>1. TypeOK /\ HartInv /\ HoldInv /\ TxInv /\ RxInv /\ OutInv
  BY DEF Inv
<1>2. /\ irq[h].pc = "none" /\ pr[h].pc = "user" /\ irq' = irq
      /\ UNCHANGED <<buf, r, w, e, tx_busy, lock, rx, fifo, thre, service>>
  BY DEF Call, Runs, cons, uart
<1>3. intr[h] = TRUE /\ noff[h] = 0
  BY <1>1, <1>2 DEF HartInv, HartOK, Off
<1>4. PushOff(h) BY DEF Call
<1>5. /\ pr'[h].pc = x /\ \A q \in Hart \ {h} : pr'[q] = pr[q]
      /\ pr' \in [Hart -> ProcessState]
  <2>. pr \in [Hart -> ProcessState] BY <1>1, Types
  <2>. QED BY DEF Call, ProcessState
<1>6. TypeOK'
  BY <1>1, <1>2, <1>3, <1>4, <1>5, Types, PushOffDoes DEF TypeOK
<1>7. HartInv'
  <2>1. HartOK(h)'
    BY <1>1, <1>2, <1>3, <1>4, <1>5, PushOffDoes DEF HartOK, Off, InCons
  <2>. QED BY <1>1, <1>2, <1>3, <1>4, <1>5, <2>1, PushOffDoes, HartStep
<1>8. HoldInv'
  BY <1>1, <1>2, <1>5, HoldSame
<1>9. TxInv'
  BY <1>1, <1>2, <1>5, TxSame
<1>10. RxInv'
  BY <1>1, <1>2, <1>5, RxSame DEF RxInv
<1>11. OutInv'
  <2>. fifo' \in Nat /\ fifo' <= fifo BY <1>1, <1>2, Types
  <2>. QED BY <1>1, <1>2, <1>5, OutSame
<1>. QED BY <1>6, <1>7, <1>8, <1>9, <1>10, <1>11 DEF Inv

\* A sleeper that was woken takes its lock again.
LEMMA Resume_Inv ==
    ASSUME Inv, NEW h \in Hart, NEW x \in {"rwoken", "wwoken"}, NEW y \in {"racq", "wacq"},
           Resume(h, x, y)
    PROVE  Inv'
<1>1. TypeOK /\ HartInv /\ HoldInv /\ TxInv /\ RxInv /\ OutInv
  BY DEF Inv
<1>2. /\ irq[h].pc = "none" /\ pr[h].pc = x /\ irq' = irq
      /\ UNCHANGED <<buf, r, w, e, tx_busy, lock, rx, fifo, thre, service>>
  BY DEF Resume, Runs, cons, uart
<1>3. intr[h] = TRUE /\ noff[h] = 0
  BY <1>1, <1>2 DEF HartInv, HartOK, Off
<1>4. PushOff(h) BY DEF Resume
<1>5. /\ pr'[h].pc = y /\ \A q \in Hart \ {h} : pr'[q] = pr[q]
      /\ pr' \in [Hart -> ProcessState]
  <2>. To(h, y) BY DEF Resume
  <2>. QED BY <1>1, ToDoes
<1>6. TypeOK'
  BY <1>1, <1>2, <1>3, <1>4, <1>5, Types, PushOffDoes DEF TypeOK
<1>7. HartInv'
  <2>1. HartOK(h)'
    BY <1>1, <1>2, <1>3, <1>4, <1>5, PushOffDoes DEF HartOK, Off, InCons
  <2>. QED BY <1>1, <1>2, <1>3, <1>4, <1>5, <2>1, PushOffDoes, HartStep
<1>8. HoldInv'
  BY <1>1, <1>2, <1>5, HoldSame
<1>9. TxInv'
  BY <1>1, <1>2, <1>5, TxSame
<1>10. RxInv'
  BY <1>1, <1>2, <1>5, RxSame DEF RxInv
<1>11. OutInv'
  <2>. fifo' \in Nat /\ fifo' <= fifo BY <1>1, <1>2, Types
  <2>. QED BY <1>1, <1>2, <1>5, OutSame
<1>. QED BY <1>6, <1>7, <1>8, <1>9, <1>10, <1>11 DEF Inv

\* A free lock is taken: cons.lock to read, tx_lock to write, pr.lock to print.
LEMMA Take_Inv ==
    ASSUME Inv, NEW h \in Hart, NEW x, NEW lk, NEW y, Take(h, x, lk, y),
           \/ x = "racq" /\ lk = "cons" /\ y = "read"
           \/ x = "wacq" /\ lk = "tx" /\ y = "write"
           \/ x = "pacq" /\ lk = "pr" /\ y = "pwait"
    PROVE  Inv'
<1>1. TypeOK /\ HartInv /\ HoldInv /\ TxInv /\ RxInv /\ OutInv
  BY DEF Inv
<1>2. /\ irq[h].pc = "none" /\ pr[h].pc = x /\ irq' = irq /\ lock[lk] = 0
      /\ UNCHANGED <<buf, r, w, e, tx_busy, intr, noff, intena, rx, fifo, thre, service>>
  BY DEF Take, Runs, cons, uart, cpu
<1>3. lk \in {"cons", "tx", "pr"} OBVIOUS
<1>4. /\ lock'[lk] = h /\ \A l \in {"cons", "tx", "pr"} \ {lk} : lock'[l] = lock[l]
      /\ lock' \in [{"cons", "tx", "pr"} -> Hart \cup {0}]
  BY <1>1, <1>3, LockDoes DEF Take
<1>5. /\ pr'[h].pc = y /\ \A q \in Hart \ {h} : pr'[q] = pr[q]
      /\ pr' \in [Hart -> ProcessState]
  <2>. To(h, y) BY DEF Take
  <2>. QED BY <1>1, ToDoes
<1>6. TypeOK'
  BY <1>1, <1>2, <1>4, <1>5, Types DEF TypeOK
<1>7. HartInv'
  <2>. \A q \in Hart : pr'[q].pc \in Off <=> pr[q].pc \in Off BY <1>2, <1>5 DEF Off
  <2>. QED BY <1>1, <1>2, HartSame
<1>8. HoldInv'
  <2>1. \A q \in Hart : lock[lk] # q BY <1>2, Consts
  <2>. QED BY <1>1, <1>2, <1>4, <1>5, <2>1 DEF HoldInv, InCons
<1>9. TxInv'
  BY <1>1, <1>2, <1>5, TxSame
<1>10. RxInv'
  BY <1>1, <1>2, <1>5, RxSame DEF RxInv
<1>11. OutInv'
  <2>. fifo' \in Nat /\ fifo' <= fifo BY <1>1, <1>2, Types
  <2>. QED BY <1>1, <1>2, <1>5, OutSame
<1>. QED BY <1>6, <1>7, <1>8, <1>9, <1>10, <1>11 DEF Inv

\* pop_off() at the end of a call, or in sleep(): interrupts are on again.
LEMMA ExitHart ==
    ASSUME TypeOK, HartInv, NEW h \in Hart, irq[h].pc = "none", pr[h].pc \notin Off,
           PopOff(h), irq' = irq, pr'[h].pc \in Off, \A q \in Hart \ {h} : pr'[q] = pr[q]
    PROVE  /\ HartInv'
           /\ intr' \in [Hart -> BOOLEAN] /\ noff' \in [Hart -> 0 .. 2]
           /\ intena' \in [Hart -> BOOLEAN]
<1>1. noff[h] = 1 /\ intena[h] = TRUE BY DEF HartInv, HartOK
<1>2. HartOK(h)' BY <1>1, PopOffDoes DEF HartOK, InCons
<1>. QED BY <1>1, <1>2, PopOffDoes, HartStep

\* release() at the end of a call, or in sleep().
LEMMA ExitHold ==
    ASSUME TypeOK, HoldInv, NEW h \in Hart, irq[h].pc = "none", irq' = irq,
           pr'[h].pc \in Off, \A q \in Hart \ {h} : pr'[q] = pr[q], NEW lk,
           \/ pr[h].pc = "read" /\ lk = "cons"
           \/ pr[h].pc = "write" /\ lk = "tx"
           \/ pr[h].pc = "pput" /\ lk = "pr",
           lock' = [lock EXCEPT ![lk] = 0]
    PROVE  HoldInv' /\ lock' \in [{"cons", "tx", "pr"} -> Hart \cup {0}]
<1>1. lk \in {"cons", "tx", "pr"} OBVIOUS
<1>2. /\ lock'[lk] = 0 /\ \A l \in {"cons", "tx", "pr"} \ {lk} : lock'[l] = lock[l]
      /\ lock' \in [{"cons", "tx", "pr"} -> Hart \cup {0}]
  BY <1>1, LockDoes
<1>3. lock[lk] = h BY DEF HoldInv
<1>4. \A q \in Hart : 0 # q BY Consts
<1>. QED BY <1>2, <1>3, <1>4 DEF HoldInv, InCons, Off

\* No input: the reader leaves, killed, or sleeps while cons.r = cons.w.
LEMMA ReadWait_Inv ==
    ASSUME Inv, NEW h \in Hart, ReadWait(h)
    PROVE  Inv'
<1>1. TypeOK /\ HartInv /\ HoldInv /\ TxInv /\ RxInv /\ OutInv
  BY DEF Inv
<1>2. /\ irq[h].pc = "none" /\ pr[h].pc = "read" /\ irq' = irq /\ r = w
      /\ UNCHANGED <<buf, r, w, e, tx_busy, rx, fifo, thre, service>>
  BY DEF ReadWait, Runs, cons, uart, MustWait
<1>3. PopOff(h) /\ lock' = [lock EXCEPT !["cons"] = 0]
  BY DEF ReadWait, Leave, Sleep
<1>4. /\ pr'[h].pc \in {"user", "rsleep"} /\ \A q \in Hart \ {h} : pr'[q] = pr[q]
      /\ pr' \in [Hart -> ProcessState]
  BY <1>1, UserDoes, ToDoes DEF ReadWait, Leave, Sleep
<1>5. pr[h].pc \notin Off /\ pr'[h].pc \in Off BY <1>2, <1>4 DEF Off
<1>6. /\ HartInv'
      /\ intr' \in [Hart -> BOOLEAN] /\ noff' \in [Hart -> 0 .. 2]
      /\ intena' \in [Hart -> BOOLEAN]
  BY <1>1, <1>2, <1>3, <1>4, <1>5, ExitHart
<1>7. HoldInv' /\ lock' \in [{"cons", "tx", "pr"} -> Hart \cup {0}]
  BY <1>1, <1>2, <1>3, <1>4, <1>5, ExitHold
<1>8. TypeOK'
  BY <1>1, <1>2, <1>4, <1>6, <1>7, Types DEF TypeOK
<1>9. TxInv'
  BY <1>1, <1>2, <1>4, TxSame
<1>10. RxInv'
  BY <1>1, <1>2 DEF RxInv, ReaderWakes, Minus
<1>11. OutInv'
  <2>. fifo' \in Nat /\ fifo' <= fifo BY <1>1, <1>2, Types
  <2>. QED BY <1>1, <1>2, <1>4, OutSame
<1>. QED BY <1>6, <1>7, <1>8, <1>9, <1>10, <1>11 DEF Inv

\* The tail of consoleread() and of uartwrite(): release() and back.
LEMMA End_Inv ==
    ASSUME Inv, NEW h \in Hart, NEW lk \in {"cons", "tx"},
           (pr[h].pc = "read" /\ lk = "cons") \/ (pr[h].pc = "write" /\ lk = "tx"),
           irq[h].pc = "none", Leave(h, lk),
           UNCHANGED <<cons, tx_busy, irq, uart, service>>
    PROVE  Inv'
<1>1. TypeOK /\ HartInv /\ HoldInv /\ TxInv /\ RxInv /\ OutInv
  BY DEF Inv
<1>2. irq' = irq /\ UNCHANGED <<buf, r, w, e, tx_busy, rx, fifo, thre, service>>
  BY DEF cons, uart
<1>3. PopOff(h) /\ lock' = [lock EXCEPT ![lk] = 0]
  BY <1>2 DEF Leave
<1>4. /\ pr'[h].pc = "user" /\ \A q \in Hart \ {h} : pr'[q] = pr[q]
      /\ pr' \in [Hart -> ProcessState]
  BY <1>1, <1>2, UserDoes DEF Leave
<1>5. pr[h].pc \notin Off /\ pr'[h].pc \in Off BY <1>2, <1>4 DEF Off
<1>6. /\ HartInv'
      /\ intr' \in [Hart -> BOOLEAN] /\ noff' \in [Hart -> 0 .. 2]
      /\ intena' \in [Hart -> BOOLEAN]
  BY <1>1, <1>2, <1>3, <1>4, <1>5, ExitHart
<1>7. HoldInv' /\ lock' \in [{"cons", "tx", "pr"} -> Hart \cup {0}]
  BY <1>1, <1>2, <1>3, <1>4, <1>5, ExitHold
<1>8. TypeOK'
  BY <1>1, <1>2, <1>4, <1>6, <1>7, Types DEF TypeOK
<1>9. TxInv'
  BY <1>1, <1>2, <1>4, TxSame
<1>10. RxInv'
  BY <1>1, <1>2, <1>4, RxSame DEF RxInv
<1>11. OutInv'
  <2>. fifo' \in Nat /\ fifo' <= fifo BY <1>1, <1>2, Types
  <2>. QED BY <1>1, <1>2, <1>4, OutSame
<1>. QED BY <1>6, <1>7, <1>8, <1>9, <1>10, <1>11 DEF Inv

\* The transmitter is busy: the writer sleeps while tx_busy is set.
LEMMA WriteWait_Inv ==
    ASSUME Inv, NEW h \in Hart, WriteWait(h)
    PROVE  Inv'
<1>1. TypeOK /\ HartInv /\ HoldInv /\ TxInv /\ RxInv /\ OutInv
  BY DEF Inv
<1>2. /\ irq[h].pc = "none" /\ pr[h].pc = "write" /\ irq' = irq /\ tx_busy
      /\ UNCHANGED <<buf, r, w, e, tx_busy, rx, fifo, thre, service>>
  BY DEF WriteWait, Runs, cons, uart, UartBusy
<1>3. PopOff(h) /\ lock' = [lock EXCEPT !["tx"] = 0]
  BY DEF WriteWait, Sleep
<1>4. /\ pr'[h].pc = "wsleep" /\ \A q \in Hart \ {h} : pr'[q] = pr[q]
      /\ pr' \in [Hart -> ProcessState]
  BY <1>1, ToDoes DEF WriteWait, Sleep
<1>5. pr[h].pc \notin Off /\ pr'[h].pc \in Off BY <1>2, <1>4 DEF Off
<1>6. /\ HartInv'
      /\ intr' \in [Hart -> BOOLEAN] /\ noff' \in [Hart -> 0 .. 2]
      /\ intena' \in [Hart -> BOOLEAN]
  BY <1>1, <1>2, <1>3, <1>4, <1>5, ExitHart
<1>7. HoldInv' /\ lock' \in [{"cons", "tx", "pr"} -> Hart \cup {0}]
  BY <1>1, <1>2, <1>3, <1>4, <1>5, ExitHold
<1>8. TypeOK'
  BY <1>1, <1>2, <1>4, <1>6, <1>7, Types DEF TypeOK
<1>9. TxInv'
  BY <1>1, <1>2 DEF TxInv, WriterWakes
<1>10. RxInv'
  BY <1>1, <1>2, <1>4, RxSame DEF RxInv
<1>11. OutInv'
  <2>. fifo' \in Nat /\ fifo' <= fifo BY <1>1, <1>2, Types
  <2>. QED BY <1>1, <1>2, <1>4, OutSame
<1>. QED BY <1>6, <1>7, <1>8, <1>9, <1>10, <1>11 DEF Inv

\* A byte from uartwrite(): the one that tx_busy = 0 allowed.
LEMMA WriteChar_Inv ==
    ASSUME Inv, NEW h \in Hart, WriteChar(h)
    PROVE  Inv'
<1>1. TypeOK /\ HartInv /\ HoldInv /\ TxInv /\ RxInv /\ OutInv
  BY DEF Inv
<1>2. /\ irq' = irq /\ tx_busy = FALSE /\ tx_busy' = TRUE /\ fifo' = fifo + 1 /\ thre' = FALSE
      /\ UNCHANGED <<buf, r, w, e, lock, intr, noff, intena, rx, service>>
  <2>. tx_busy \in BOOLEAN BY <1>1, Types
  <2>. QED BY DEF WriteChar, cons, cpu, WriteTHR, UartBusy
<1>3. pr' \in [Hart -> ProcessState] /\ \A q \in Hart : pr'[q].pc = pr[q].pc
  BY <1>1, CountDoes DEF WriteChar
<1>4. /\ fifo \in Nat /\ fifo' \in Nat /\ fifo' > 0
      /\ thre' \in BOOLEAN /\ tx_busy' \in BOOLEAN
  <2>1. fifo \in Nat BY <1>1, Types
  <2>2. thre' \in BOOLEAN /\ tx_busy' \in BOOLEAN BY <1>2
  <2>. QED BY <1>2, <2>1, <2>2
<1>5. TypeOK'
  BY <1>1, <1>2, <1>3, <1>4, Types DEF TypeOK
<1>6. HartInv'
  BY <1>1, <1>2, <1>3, HartSame
<1>7. HoldInv'
  BY <1>1, <1>2, <1>3, HoldSame
<1>8. TxInv'
  BY <1>2, <1>4 DEF TxInv, WriterWakes
<1>9. RxInv'
  BY <1>1, <1>2, <1>3, RxSame DEF RxInv
<1>10. OutInv'
  <2>1. Printing' <=> Printing BY <1>3 DEF Printing
  <2>2. Echoing' <=> Echoing BY <1>2 DEF Echoing
  <2>3. May(~tx_busy) = 1 /\ May(~tx_busy)' = 0 BY <1>2 DEF May
  <2>4. May(Printing)' = May(Printing) /\ May(Printing) \in Nat BY <2>1 DEF May
  <2>5. May(Echoing)' = May(Echoing) /\ May(Echoing) \in Nat BY <2>2 DEF May
  <2>. QED BY <1>1, <1>2, <1>4, <2>3, <2>4, <2>5 DEF OutInv
<1>. QED BY <1>5, <1>6, <1>7, <1>8, <1>9, <1>10 DEF Inv

\* printf() has seen the transmitter idle.
LEMMA PrintWait_Inv ==
    ASSUME Inv, NEW h \in Hart, PrintWait(h)
    PROVE  Inv'
<1>1. TypeOK /\ HartInv /\ HoldInv /\ TxInv /\ RxInv /\ OutInv
  BY DEF Inv
<1>2. /\ irq' = irq /\ pr[h].pc = "pwait" /\ fifo = 0
      /\ UNCHANGED <<buf, r, w, e, tx_busy, lock, intr, noff, intena, rx, fifo, thre, service>>
  BY DEF PrintWait, cons, cpu, uart, Runs
<1>3. /\ pr'[h].pc = "pput" /\ \A q \in Hart \ {h} : pr'[q] = pr[q]
      /\ pr' \in [Hart -> ProcessState]
  BY <1>1, ToDoes DEF PrintWait
<1>4. TypeOK'
  BY <1>1, <1>2, <1>3, Types DEF TypeOK
<1>5. HartInv'
  <2>. \A q \in Hart : pr'[q].pc \in Off <=> pr[q].pc \in Off BY <1>2, <1>3 DEF Off
  <2>. QED BY <1>1, <1>2, HartSame
<1>6. HoldInv'
  BY <1>1, <1>2, <1>3, HoldSame
<1>7. TxInv'
  BY <1>1, <1>2, <1>3, TxSame
<1>8. RxInv'
  BY <1>1, <1>2, <1>3, RxSame DEF RxInv
<1>9. OutInv'
  BY <1>2, OutEmpty
<1>. QED BY <1>4, <1>5, <1>6, <1>7, <1>8, <1>9 DEF Inv

\* The byte of printf(); no other process is between the look and the byte.
LEMMA PrintPut_Inv ==
    ASSUME Inv, NEW h \in Hart, PrintPut(h)
    PROVE  Inv'
<1>1. TypeOK /\ HartInv /\ HoldInv /\ TxInv /\ RxInv /\ OutInv
  BY DEF Inv
<1>2. /\ irq[h].pc = "none" /\ pr[h].pc = "pput" /\ irq' = irq
      /\ fifo' = fifo + 1 /\ thre' = FALSE
      /\ UNCHANGED <<buf, r, w, e, tx_busy, rx, service>>
  BY DEF PrintPut, Runs, cons, WriteTHR
<1>3. PopOff(h) /\ lock' = [lock EXCEPT !["pr"] = 0]
  BY DEF PrintPut, Leave
<1>4. /\ pr'[h].pc = "user" /\ \A q \in Hart \ {h} : pr'[q] = pr[q]
      /\ pr' \in [Hart -> ProcessState]
  BY <1>1, UserDoes DEF PrintPut, Leave
<1>5. pr[h].pc \notin Off /\ pr'[h].pc \in Off BY <1>2, <1>4 DEF Off
<1>6. /\ HartInv'
      /\ intr' \in [Hart -> BOOLEAN] /\ noff' \in [Hart -> 0 .. 2]
      /\ intena' \in [Hart -> BOOLEAN]
  BY <1>1, <1>2, <1>3, <1>4, <1>5, ExitHart
<1>7. HoldInv' /\ lock' \in [{"cons", "tx", "pr"} -> Hart \cup {0}]
  BY <1>1, <1>2, <1>3, <1>4, <1>5, ExitHold
<1>8. fifo \in Nat /\ fifo' \in Nat /\ fifo' > 0 /\ thre' \in BOOLEAN
  <2>1. fifo \in Nat BY <1>1, Types
  <2>2. thre' \in BOOLEAN BY <1>2
  <2>. QED BY <1>2, <2>1, <2>2
<1>9. TypeOK'
  BY <1>1, <1>2, <1>4, <1>6, <1>7, <1>8, Types DEF TypeOK
<1>10. TxInv'
  BY <1>1, <1>2, <1>4, <1>8, TxSame
<1>11. RxInv'
  BY <1>1, <1>2, <1>4, RxSame DEF RxInv
<1>12. OutInv'
  <2>1. Printing /\ ~Printing'
    BY <1>1, <1>2, <1>4 DEF Printing, HoldInv
  <2>2. Echoing' <=> Echoing BY <1>2 DEF Echoing
  <2>3. May(Printing) = 1 /\ May(Printing)' = 0 BY <2>1 DEF May
  <2>4. May(~tx_busy)' = May(~tx_busy) /\ May(~tx_busy) \in Nat BY <1>2 DEF May
  <2>5. May(Echoing)' = May(Echoing) /\ May(Echoing) \in Nat BY <2>2 DEF May
  <2>. QED BY <1>1, <1>2, <1>8, <2>3, <2>4, <2>5 DEF OutInv
<1>. QED BY <1>6, <1>7, <1>9, <1>10, <1>11, <1>12 DEF Inv

\* kkill() wakes a sleeper, and does nothing else to where a process is.
LEMMA Kill_Inv ==
    ASSUME Inv, NEW h \in Hart, Kill(h)
    PROVE  Inv'
<1>1. TypeOK /\ HartInv /\ HoldInv /\ TxInv /\ RxInv /\ OutInv
  BY DEF Inv
<1>2. /\ irq' = irq
      /\ UNCHANGED <<buf, r, w, e, tx_busy, lock, intr, noff, intena, rx, fifo, thre, service>>
  BY DEF Kill, cons, cpu, uart
<1>3. /\ pr' \in [Hart -> ProcessState] /\ \A q \in Hart \ {h} : pr'[q] = pr[q]
      /\ \/ pr[h].pc = "rsleep" /\ pr'[h].pc = "rwoken"
         \/ pr[h].pc = "wsleep" /\ pr'[h].pc = "wwoken"
         \/ pr'[h].pc = pr[h].pc
  <2>1. pr \in [Hart -> ProcessState] BY <1>1, Types
  <2>2. PICK x \in {"user", "racq", "read", "rsleep", "rwoken", "wacq", "write", "wsleep",
                    "wwoken", "pacq", "pwait", "pput"} :
            /\ \/ pr[h].pc = "rsleep" /\ x = "rwoken"
               \/ pr[h].pc = "wsleep" /\ x = "wwoken"
               \/ pr[h].pc \notin {"rsleep", "wsleep"} /\ x = pr[h].pc
    BY <2>1 DEF ProcessState
  <2>3. pr' = [pr EXCEPT ![h].killed = TRUE, ![h].pc = x]
    BY <2>2 DEF Kill
  <2>. QED BY <2>1, <2>2, <2>3 DEF ProcessState
<1>4. TypeOK'
  BY <1>1, <1>2, <1>3, Types DEF TypeOK
<1>5. HartInv'
  <2>. \A q \in Hart : pr'[q].pc \in Off <=> pr[q].pc \in Off BY <1>3 DEF Off
  <2>. QED BY <1>1, <1>2, HartSame
<1>6. HoldInv'
  BY <1>1, <1>2, <1>3, HoldSame
<1>7. TxInv'
  BY <1>1, <1>2, <1>3, TxSame
<1>8. RxInv'
  BY <1>1, <1>2, <1>3, RxSame DEF RxInv
<1>9. OutInv'
  <2>. fifo' \in Nat /\ fifo' <= fifo BY <1>1, <1>2, Types
  <2>. QED BY <1>1, <1>2, <1>3, OutSame
<1>. QED BY <1>4, <1>5, <1>6, <1>7, <1>8, <1>9 DEF Inv

----------------------------------------------------------------------------
(* The indices of the input buffer, which are modulo UINT                  *)

\* A difference of two indices, without %.
LEMMA MinusIs ==
    ASSUME NEW i \in 0 .. UINT - 1, NEW j \in 0 .. UINT - 1
    PROVE  /\ Minus(i, j) = IF i >= j THEN i - j ELSE i - j + UINT
           /\ Minus(i, j) \in 0 .. UINT - 1
<1>1. UINT \in Nat BY Consts
<1>2. CASE i >= j
  <2>1. i - j \in 0 .. UINT - 1 BY <1>1, <1>2
  <2>2. (i - j) % UINT = i - j BY <1>1, <2>1
  <2>. QED BY <1>2, <2>1, <2>2 DEF Minus
<1>3. CASE i < j
  <2>1. i - j + UINT \in 0 .. UINT - 1 BY <1>1, <1>3
  <2>2. \A x \in 0 .. UINT - 1 : (x - UINT) % UINT = x BY <1>1
  <2>3. (i - j + UINT) - UINT = i - j BY <1>1
  <2>4. (i - j) % UINT = i - j + UINT BY <2>1, <2>2, <2>3
  <2>. QED BY <1>1, <1>3, <2>1, <2>4 DEF Minus
<1>. QED BY <1>2, <1>3

\* The distances of the three indices are integers.
LEMMA IndexInts ==
    ASSUME TypeOK
    PROVE  Minus(w, r) \in Int /\ Minus(e, r) \in Int /\ INPUT_BUF_SIZE \in Int
<1>1. r \in 0 .. UINT - 1 /\ w \in 0 .. UINT - 1 /\ e \in 0 .. UINT - 1 BY Types
<1>2. Minus(w, r) \in 0 .. UINT - 1 /\ Minus(e, r) \in 0 .. UINT - 1 BY <1>1, MinusIs
<1>. QED BY <1>2, Consts

\* The next index.
LEMMA SuccIs ==
    ASSUME NEW i \in 0 .. UINT - 1
    PROVE  /\ (i + 1) % UINT = IF i + 1 = UINT THEN 0 ELSE i + 1
           /\ (i + 1) % UINT \in 0 .. UINT - 1
<1>1. UINT \in Nat BY Consts
<1>2. CASE i + 1 = UINT
  <2>1. \A x \in 0 .. UINT - 1 : (x + UINT) % UINT = x BY <1>1
  <2>2. (0 + UINT) % UINT = 0 BY <1>1, <2>1
  <2>. QED BY <1>1, <1>2, <2>2
<1>3. CASE i + 1 # UINT
  BY <1>1, <1>3
<1>. QED BY <1>2, <1>3

\* The index before.
LEMMA PredIs ==
    ASSUME NEW i \in 0 .. UINT - 1
    PROVE  /\ (i - 1) % UINT = IF i = 0 THEN UINT - 1 ELSE i - 1
           /\ (i - 1) % UINT \in 0 .. UINT - 1
<1>1. UINT \in Nat BY Consts
<1>2. CASE i = 0
  <2>1. \A x \in 0 .. UINT - 1 : (x - UINT) % UINT = x BY <1>1
  <2>2. UINT - 1 \in 0 .. UINT - 1 /\ (UINT - 1) - UINT = i - 1 BY <1>1, <1>2
  <2>. QED BY <1>1, <1>2, <2>1, <2>2
<1>3. CASE i # 0
  BY <1>1, <1>3
<1>. QED BY <1>2, <1>3

\* A place of the buffer.
LEMMA SlotIn ==
    ASSUME NEW i \in Int
    PROVE  Slot(i) \in 0 .. INPUT_BUF_SIZE - 1
BY Consts DEF Slot

\* cons.r moves on: one character less is stored, one less is there to be read.
LEMMA ReadMoves ==
    ASSUME TypeOK, RxInv, r # w, r' = (r + 1) % UINT, w' = w, e' = e
    PROVE  /\ r' \in 0 .. UINT - 1
           /\ Minus(w, r)' = Minus(w, r) - 1
           /\ Minus(e, r)' = Minus(e, r) - 1
<1>1. r \in 0 .. UINT - 1 /\ w \in 0 .. UINT - 1 /\ e \in 0 .. UINT - 1 /\ UINT \in Nat
  BY Types, Consts
<1>2. r' = (IF r + 1 = UINT THEN 0 ELSE r + 1) /\ r' \in 0 .. UINT - 1
  BY <1>1, SuccIs
<1>3. Minus(w, r) <= Minus(e, r) BY DEF RxInv
<1>4. /\ Minus(w, r) = IF w >= r THEN w - r ELSE w - r + UINT
      /\ Minus(e, r) = IF e >= r THEN e - r ELSE e - r + UINT
  BY <1>1, MinusIs
<1>5. /\ Minus(w, r') = IF w >= r' THEN w - r' ELSE w - r' + UINT
      /\ Minus(e, r') = IF e >= r' THEN e - r' ELSE e - r' + UINT
  BY <1>1, <1>2, MinusIs
<1>6. Minus(w, r)' = Minus(w, r') /\ Minus(e, r)' = Minus(e, r')
  BY DEF Minus
<1>. QED BY <1>1, <1>2, <1>3, <1>4, <1>5, <1>6

\* A reader takes a character, or a ^D, or puts the ^D back for the next read().
LEMMA ReadChar_Inv ==
    ASSUME Inv, NEW h \in Hart, ReadChar(h)
    PROVE  Inv'
<1>1. TypeOK /\ HartInv /\ HoldInv /\ TxInv /\ RxInv /\ OutInv
  BY DEF Inv
<1>2. /\ irq[h].pc = "none" /\ pr[h].pc = "read" /\ pr[h].n > 0 /\ irq' = irq /\ r # w
      /\ UNCHANGED <<buf, w, e, tx_busy, rx, fifo, thre, service>>
      /\ r' = r \/ r' = (r + 1) % UINT
      /\ \/ Leave(h, "cons")
         \/ pr' = [pr EXCEPT ![h].n = @ - 1] /\ UNCHANGED <<lock, intr, noff, intena>>
  BY DEF ReadChar, Runs, uart, cpu, MustWait, Eof
<1>3. r' \in 0 .. UINT - 1
  BY <1>1, <1>2, ReadMoves, Types
<1>4. /\ pr' \in [Hart -> ProcessState] /\ HartInv' /\ HoldInv'
      /\ lock' \in [{"cons", "tx", "pr"} -> Hart \cup {0}]
      /\ intr' \in [Hart -> BOOLEAN] /\ noff' \in [Hart -> 0 .. 2]
      /\ intena' \in [Hart -> BOOLEAN]
      /\ \A q \in Hart : pr'[q].pc = pr[q].pc \/ pr'[q].pc = "user"
  <2>1. CASE Leave(h, "cons")
    <3>1. PopOff(h) /\ lock' = [lock EXCEPT !["cons"] = 0]
      BY <2>1 DEF Leave
    <3>2. /\ pr'[h].pc = "user" /\ \A q \in Hart \ {h} : pr'[q] = pr[q]
          /\ pr' \in [Hart -> ProcessState]
      BY <1>1, <2>1, UserDoes DEF Leave
    <3>3. pr[h].pc \notin Off /\ pr'[h].pc \in Off BY <1>2, <3>2 DEF Off
    <3>4. /\ HartInv'
          /\ intr' \in [Hart -> BOOLEAN] /\ noff' \in [Hart -> 0 .. 2]
          /\ intena' \in [Hart -> BOOLEAN]
      BY <1>1, <1>2, <3>1, <3>2, <3>3, ExitHart
    <3>5. HoldInv' /\ lock' \in [{"cons", "tx", "pr"} -> Hart \cup {0}]
      BY <1>1, <1>2, <3>1, <3>2, <3>3, ExitHold
    <3>. QED BY <3>2, <3>4, <3>5
  <2>2. CASE pr' = [pr EXCEPT ![h].n = @ - 1] /\ UNCHANGED <<lock, intr, noff, intena>>
    <3>1. pr' \in [Hart -> ProcessState] /\ \A q \in Hart : pr'[q].pc = pr[q].pc
      BY <1>1, <1>2, <2>2, CountDoes
    <3>2. HartInv'
      BY <1>1, <1>2, <2>2, <3>1, HartSame
    <3>3. HoldInv'
      BY <1>1, <1>2, <2>2, <3>1, HoldSame
    <3>. QED BY <1>1, <2>2, <3>1, <3>2, <3>3, Types
  <2>. QED BY <1>2, <2>1, <2>2
<1>5. TypeOK'
  BY <1>1, <1>2, <1>3, <1>4, Types DEF TypeOK
<1>6. TxInv'
  BY <1>1, <1>2, <1>4, TxSame
<1>7. RxInv'
  <2>1. CASE r' = r
    BY <1>1, <1>2, <1>4, <2>1, RxSame DEF RxInv
  <2>2. CASE r' = (r + 1) % UINT
    <3>1. Minus(w, r)' = Minus(w, r) - 1 /\ Minus(e, r)' = Minus(e, r) - 1
      BY <1>1, <1>2, <2>2, ReadMoves
    <3>2. Minus(w, r) \in Int /\ Minus(e, r) \in Int /\ INPUT_BUF_SIZE \in Int
      BY <1>1, IndexInts
    <3>3. ~\E q \in Hart : pr'[q].pc = "rsleep"
      BY <1>1, <1>2, <1>4 DEF RxInv, ReaderWakes
    <3>. QED BY <1>1, <1>2, <3>1, <3>2, <3>3 DEF RxInv, ReaderWakes
  <2>. QED BY <1>2, <2>1, <2>2
<1>8. OutInv'
  <2>. fifo' \in Nat /\ fifo' <= fifo BY <1>1, <1>2, Types
  <2>. QED BY <1>1, <1>2, <1>4, OutSame
<1>. QED BY <1>4, <1>5, <1>6, <1>7, <1>8 DEF Inv

----------------------------------------------------------------------------
(* The interrupt handler                                                   *)

\* The handler gets to another point, with a number of bytes to echo.
LEMMA EchoDoes ==
    ASSUME TypeOK, NEW h \in Hart,
           NEW x \in {"none", "ack", "tx", "rx", "edit", "echo", "put", "store"},
           NEW k \in 0 .. 3, irq' = [irq EXCEPT ![h].pc = x, ![h].echo = k]
    PROVE  /\ irq'[h].pc = x /\ irq'[h].c = irq[h].c
           /\ \A q \in Hart \ {h} : irq'[q] = irq[q]
           /\ irq' \in [Hart -> HandlerState]
<1>. irq \in [Hart -> HandlerState] BY Types
<1>. QED BY DEF HandlerState

\* The trap is only taken with interrupts on, so the process holds no lock.
LEMMA Trap_Inv ==
    ASSUME Inv, NEW h \in Hart, Trap(h)
    PROVE  Inv'
<1>1. TypeOK /\ HartInv /\ HoldInv /\ TxInv /\ RxInv /\ OutInv
  BY DEF Inv
<1>2. /\ irq[h].pc = "none" /\ intr[h] /\ pr' = pr /\ service' = h
      /\ intr' = [intr EXCEPT ![h] = FALSE]
      /\ UNCHANGED <<buf, r, w, e, tx_busy, lock, noff, intena, rx, fifo, thre>>
  BY DEF Trap, Handles, cons, uart
<1>3. /\ irq'[h].pc = "ack" /\ \A q \in Hart \ {h} : irq'[q] = irq[q]
      /\ irq' \in [Hart -> HandlerState]
  BY <1>1, HToDoes DEF Trap
<1>4. /\ intr' \in [Hart -> BOOLEAN] /\ intr'[h] = FALSE
      /\ \A q \in Hart \ {h} : intr'[q] = intr[q]
  BY <1>1, <1>2, Types
<1>5. pr[h].pc \in Off /\ noff[h] = 0
  BY <1>1, <1>2 DEF HartInv, HartOK
<1>6. TypeOK'
  BY <1>1, <1>2, <1>3, <1>4, Types DEF TypeOK
<1>7. HartInv'
  <2>1. HartOK(h)' BY <1>2, <1>3, <1>4, <1>5 DEF HartOK, InCons
  <2>. QED BY <1>1, <1>2, <1>3, <1>4, <2>1, HartStep
<1>8. HoldInv'
  BY <1>1, <1>2, <1>3, HoldSame DEF InCons
<1>9. TxInv'
  BY <1>1, <1>2, <1>3, TxSame
<1>10. RxInv'
  BY <1>1, <1>2, <1>3, RxSame DEF RxInv
<1>11. OutInv'
  <2>. fifo' \in Nat /\ fifo' <= fifo BY <1>1, <1>2, Types
  <2>. QED BY <1>1, <1>2, <1>3, OutSame
<1>. QED BY <1>6, <1>7, <1>8, <1>9, <1>10, <1>11 DEF Inv

\* Reading ISR: this handler will look at the transmitter.
LEMMA Ack_Inv ==
    ASSUME Inv, NEW h \in Hart, Ack(h)
    PROVE  Inv'
<1>1. TypeOK /\ HartInv /\ HoldInv /\ TxInv /\ RxInv /\ OutInv
  BY DEF Inv
<1>2. /\ irq[h].pc = "ack" /\ pr' = pr /\ thre' \in BOOLEAN
      /\ UNCHANGED <<buf, r, w, e, tx_busy, lock, intr, noff, intena, rx, fifo, service>>
  BY DEF Ack, Handles, cons, cpu
<1>3. /\ irq'[h].pc = "tx" /\ \A q \in Hart \ {h} : irq'[q] = irq[q]
      /\ irq' \in [Hart -> HandlerState]
  BY <1>1, HToDoes DEF Ack
<1>4. TypeOK'
  BY <1>1, <1>2, <1>3, Types DEF TypeOK
<1>5. HartInv'
  <2>1. HartOK(h)' BY <1>1, <1>2, <1>3 DEF HartInv, HartOK, InCons
  <2>. QED BY <1>1, <1>2, <1>3, <2>1, HartStep
<1>6. HoldInv'
  BY <1>1, <1>2, <1>3, HoldSame DEF InCons
<1>7. TxInv'
  BY <1>1, <1>2, <1>3 DEF TxInv, WriterWakes
<1>8. RxInv'
  BY <1>1, <1>2, <1>3, RxSame DEF RxInv
<1>9. OutInv'
  <2>. fifo' \in Nat /\ fifo' <= fifo BY <1>1, <1>2, Types
  <2>. QED BY <1>1, <1>2, <1>3, OutSame
<1>. QED BY <1>4, <1>5, <1>6, <1>7, <1>8, <1>9 DEF Inv

\* Transmission is complete: nobody sleeps any more; or bytes are left, whose end will
\* interrupt again.
LEMMA UartIntr_Inv ==
    ASSUME Inv, NEW h \in Hart, UartIntr(h)
    PROVE  Inv'
<1>1. TypeOK /\ HartInv /\ HoldInv /\ TxInv /\ RxInv /\ OutInv
  BY DEF Inv
<1>2. /\ irq[h].pc = "tx" /\ TxDone(h)
      /\ UNCHANGED <<buf, r, w, e, lock, intr, noff, intena, rx, fifo, thre, service>>
  BY DEF UartIntr, Handles, cons, cpu, uart
<1>3. /\ irq'[h].pc = "rx" /\ \A q \in Hart \ {h} : irq'[q] = irq[q]
      /\ irq' \in [Hart -> HandlerState]
  BY <1>1, HToDoes DEF UartIntr
<1>4. /\ pr' \in [Hart -> ProcessState]
      /\ \A q \in Hart : \/ pr'[q].pc = pr[q].pc
                         \/ pr[q].pc = "wsleep" /\ pr'[q].pc = "wwoken"
      /\ fifo = 0 => \A q \in Hart : pr'[q].pc # "wsleep"
  <2>1. CASE fifo = 0
    <3>1. Wakeup("wsleep", "wwoken") BY <1>2, <2>1 DEF TxDone
    <3>2. /\ \A q \in Hart : pr'[q].pc = IF pr[q].pc = "wsleep" THEN "wwoken" ELSE pr[q].pc
          /\ pr' \in [Hart -> ProcessState]
      BY <1>1, <3>1, WakeupDoes
    <3>. QED BY <3>2
  <2>2. CASE fifo # 0
    <3>1. pr' = pr BY <1>2, <2>2 DEF TxDone
    <3>2. pr \in [Hart -> ProcessState] BY <1>1, Types
    <3>. QED BY <2>2, <3>1, <3>2
  <2>. QED BY <2>1, <2>2
<1>5. (fifo = 0 /\ tx_busy' = FALSE) \/ (fifo # 0 /\ tx_busy' = tx_busy)
  <2>1. CASE fifo = 0
    BY <1>2, <2>1 DEF TxDone
  <2>2. CASE fifo # 0
    BY <1>2, <2>2 DEF TxDone
  <2>. QED BY <2>1, <2>2
<1>6. TypeOK'
  <2>1. tx_busy' \in BOOLEAN BY <1>1, <1>5, Types
  <2>. QED BY <1>1, <1>2, <1>3, <1>4, <2>1, Types DEF TypeOK
<1>7. \A q \in Hart : pr'[q].pc \in Off <=> pr[q].pc \in Off
  BY <1>4 DEF Off
<1>8. HartInv'
  <2>1. HartOK(h)' BY <1>1, <1>2, <1>3, <1>7 DEF HartInv, HartOK, InCons
  <2>. QED BY <1>1, <1>2, <1>3, <1>7, <2>1, HartStep
<1>9. HoldInv'
  BY <1>1, <1>2, <1>3, <1>4, HoldSame DEF InCons
<1>10. TxInv'
  <2>1. CASE fifo = 0 /\ tx_busy' = FALSE
    BY <1>4, <2>1 DEF TxInv, WriterWakes
  <2>2. CASE fifo # 0 /\ tx_busy' = tx_busy
    <3>1. fifo' > 0 BY <1>1, <1>2, <2>2, Types
    <3>. QED BY <1>1, <1>4, <2>2, <3>1 DEF TxInv, WriterWakes
  <2>. QED BY <1>5, <2>1, <2>2
<1>11. RxInv'
  BY <1>1, <1>2, <1>3, <1>4, RxSame DEF RxInv
<1>12. OutInv'
  <2>1. CASE fifo = 0 /\ tx_busy' = FALSE
    BY <1>2, <2>1, OutEmpty
  <2>2. CASE fifo # 0 /\ tx_busy' = tx_busy
    <3>. fifo' \in Nat /\ fifo' <= fifo BY <1>1, <1>2, Types
    <3>. QED BY <1>1, <1>2, <1>3, <1>4, <2>2, OutSame
  <2>. QED BY <1>5, <2>1, <2>2
<1>. QED BY <1>6, <1>8, <1>9, <1>10, <1>11, <1>12 DEF Inv

\* consoleintr() takes cons.lock, which its own hart does not hold.
LEMMA Uartgetc_Inv ==
    ASSUME Inv, NEW h \in Hart, NEW c \in Keys, Uartgetc(h, c)
    PROVE  Inv'
<1>1. TypeOK /\ HartInv /\ HoldInv /\ TxInv /\ RxInv /\ OutInv
  BY DEF Inv
<1>2. /\ irq[h].pc = "rx" /\ rx > 0 /\ lock["cons"] = 0 /\ pr' = pr /\ rx' = rx - 1
      /\ UNCHANGED <<buf, r, w, e, tx_busy, fifo, thre, service>>
  BY DEF Uartgetc, Handles, cons
<1>3. /\ irq'[h].pc = "edit" /\ \A q \in Hart \ {h} : irq'[q] = irq[q]
      /\ irq' \in [Hart -> HandlerState]
  <2>1. irq \in [Hart -> HandlerState] BY <1>1, Types
  <2>2. irq' = [irq EXCEPT ![h].pc = "edit", ![h].c = c] BY DEF Uartgetc
  <2>3. PICK x : x = [irq[h] EXCEPT !.pc = "edit", !.c = c] OBVIOUS
  <2>4. x \in HandlerState /\ x.pc = "edit" BY <2>1, <2>3 DEF HandlerState
  <2>5. irq' = [irq EXCEPT ![h] = x] BY <2>1, <2>2, <2>3
  <2>. QED BY <2>1, <2>4, <2>5
<1>4. PushOff(h) /\ lock' = [lock EXCEPT !["cons"] = h]
  BY DEF Uartgetc
<1>5. noff[h] = 0 /\ intr[h] = FALSE /\ pr[h].pc \in Off
  BY <1>1, <1>2 DEF HartInv, HartOK
<1>6. /\ lock'["cons"] = h /\ lock'["tx"] = lock["tx"] /\ lock'["pr"] = lock["pr"]
      /\ lock' \in [{"cons", "tx", "pr"} -> Hart \cup {0}]
  BY <1>1, <1>4, LockDoes
<1>7. TypeOK'
  <2>1. rx' \in 0 .. RXMAX BY <1>1, <1>2, Types, Consts
  <2>. QED BY <1>1, <1>2, <1>3, <1>4, <1>5, <1>6, <2>1, Types, PushOffDoes DEF TypeOK
<1>8. HartInv'
  <2>1. HartOK(h)'
    BY <1>1, <1>2, <1>3, <1>4, <1>5, PushOffDoes DEF HartOK, InCons
  <2>. QED BY <1>1, <1>2, <1>3, <1>4, <1>5, <2>1, PushOffDoes, HartStep
<1>9. HoldInv'
  <2>1. \A q \in Hart : lock["cons"] # q BY <1>2, Consts
  <2>. QED BY <1>1, <1>2, <1>3, <1>6, <2>1 DEF HoldInv, InCons
<1>10. TxInv'
  BY <1>1, <1>2, <1>3, TxSame
<1>11. RxInv'
  BY <1>1, <1>2, <1>3, RxSame DEF RxInv
<1>12. OutInv'
  <2>. fifo' \in Nat /\ fifo' <= fifo BY <1>1, <1>2, Types
  <2>. QED BY <1>1, <1>2, <1>3, OutSame
<1>. QED BY <1>7, <1>8, <1>9, <1>10, <1>11, <1>12 DEF Inv

\* The return from the trap: the process had interrupts on.
LEMMA IrqEnd_Inv ==
    ASSUME Inv, NEW h \in Hart, IrqEnd(h)
    PROVE  Inv'
<1>1. TypeOK /\ HartInv /\ HoldInv /\ TxInv /\ RxInv /\ OutInv
  BY DEF Inv
<1>2. /\ irq[h].pc = "rx" /\ pr' = pr /\ service' = 0
      /\ intr' = [intr EXCEPT ![h] = TRUE]
      /\ UNCHANGED <<buf, r, w, e, tx_busy, lock, noff, intena, rx, fifo, thre>>
  BY DEF IrqEnd, Handles, cons, uart
<1>3. /\ irq'[h].pc = "none" /\ \A q \in Hart \ {h} : irq'[q] = irq[q]
      /\ irq' \in [Hart -> HandlerState]
  BY <1>1, HToDoes DEF IrqEnd
<1>4. /\ intr' \in [Hart -> BOOLEAN] /\ intr'[h] = TRUE
      /\ \A q \in Hart \ {h} : intr'[q] = intr[q]
  BY <1>1, <1>2, Types
<1>5. pr[h].pc \in Off /\ noff[h] = 0
  BY <1>1, <1>2 DEF HartInv, HartOK
<1>6. TypeOK'
  BY <1>1, <1>2, <1>3, <1>4, Types DEF TypeOK
<1>7. HartInv'
  <2>1. HartOK(h)' BY <1>2, <1>3, <1>4, <1>5 DEF HartOK, InCons
  <2>. QED BY <1>1, <1>2, <1>3, <1>4, <2>1, HartStep
<1>8. HoldInv'
  BY <1>1, <1>2, <1>3, HoldSame DEF InCons
<1>9. TxInv'
  BY <1>1, <1>2, <1>3, TxSame
<1>10. RxInv'
  BY <1>1, <1>2, <1>3, RxSame DEF RxInv
<1>11. OutInv'
  <2>. fifo' \in Nat /\ fifo' <= fifo BY <1>1, <1>2, Types
  <2>. QED BY <1>1, <1>2, <1>3, OutSame
<1>. QED BY <1>6, <1>7, <1>8, <1>9, <1>10, <1>11 DEF Inv

\* cons.lock: only one handler is in consoleintr().
LEMMA OneInCons ==
    ASSUME HoldInv, NEW h \in Hart, irq[h].pc \in InCons
    PROVE  \A q \in Hart \ {h} : irq[q].pc \notin InCons
BY DEF HoldInv

\* A step within consoleintr().
LEMMA ConsStay ==
    ASSUME HartInv, HoldInv, NEW h \in Hart, irq[h].pc \in InCons, irq'[h].pc \in InCons,
           \A q \in Hart \ {h} : irq'[q] = irq[q],
           UNCHANGED <<pr, lock, intr, noff, intena>>
    PROVE  HartInv' /\ HoldInv'
<1>1. HartOK(h)' BY DEF HartInv, HartOK, InCons
<1>2. HartInv' BY <1>1, HartStep
<1>3. HoldInv' BY HoldSame
<1>. QED BY <1>2, <1>3

\* The end of consoleintr(): its release() leaves interrupts off.
LEMMA ConsLeave ==
    ASSUME TypeOK, HartInv, HoldInv, NEW h \in Hart, irq[h].pc \in InCons, irq'[h].pc = "rx",
           \A q \in Hart \ {h} : irq'[q] = irq[q],
           \A q \in Hart : \/ pr'[q].pc = pr[q].pc
                           \/ pr[q].pc = "rsleep" /\ pr'[q].pc = "rwoken",
           PopOff(h), lock' = [lock EXCEPT !["cons"] = 0]
    PROVE  /\ HartInv' /\ HoldInv'
           /\ lock' \in [{"cons", "tx", "pr"} -> Hart \cup {0}]
           /\ intr' \in [Hart -> BOOLEAN] /\ noff' \in [Hart -> 0 .. 2]
           /\ intena' \in [Hart -> BOOLEAN]
<1>1. noff[h] = 1 /\ intena[h] = FALSE /\ intr[h] = FALSE /\ pr[h].pc \in Off
  BY DEF HartInv, HartOK, InCons
<1>2. \A q \in Hart : pr'[q].pc \in Off <=> pr[q].pc \in Off BY DEF Off
<1>3. HartOK(h)' BY <1>1, <1>2, PopOffDoes DEF HartOK, InCons
<1>4. HartInv' BY <1>1, <1>2, <1>3, PopOffDoes, HartStep
<1>5. /\ lock'["cons"] = 0 /\ lock'["tx"] = lock["tx"] /\ lock'["pr"] = lock["pr"]
      /\ lock' \in [{"cons", "tx", "pr"} -> Hart \cup {0}]
  BY LockDoes
<1>6. lock["cons"] = h /\ \A q \in Hart : 0 # q BY Consts DEF HoldInv
<1>7. HoldInv' BY <1>1, <1>5, <1>6 DEF HoldInv, InCons, Off
<1>. QED BY <1>1, <1>4, <1>5, <1>7, PopOffDoes

\* cons.e moves back: what was handed over stays.
LEMMA Erased ==
    ASSUME TypeOK, RxInv, e # w, e' = (e - 1) % UINT, w' = w, r' = r
    PROVE  /\ e' \in 0 .. UINT - 1
           /\ Minus(w, r)' = Minus(w, r)
           /\ Minus(e, r)' = Minus(e, r) - 1
           /\ Minus(w, r) <= Minus(e, r) - 1
<1>1. r \in 0 .. UINT - 1 /\ w \in 0 .. UINT - 1 /\ e \in 0 .. UINT - 1 /\ UINT \in Nat
  BY Types, Consts
<1>2. e' = (IF e = 0 THEN UINT - 1 ELSE e - 1) /\ e' \in 0 .. UINT - 1
  BY <1>1, PredIs
<1>3. Minus(w, r) <= Minus(e, r) BY DEF RxInv
<1>4. /\ Minus(w, r) = IF w >= r THEN w - r ELSE w - r + UINT
      /\ Minus(e, r) = IF e >= r THEN e - r ELSE e - r + UINT
  BY <1>1, MinusIs
<1>5. Minus(e', r) = IF e' >= r THEN e' - r ELSE e' - r + UINT
  BY <1>1, <1>2, MinusIs
<1>6. Minus(w, r)' = Minus(w, r) /\ Minus(e, r)' = Minus(e', r)
  BY DEF Minus
<1>. QED BY <1>1, <1>2, <1>3, <1>4, <1>5, <1>6

\* cons.e moves on, while there is room.
LEMMA StoreMoves ==
    ASSUME TypeOK, Minus(e, r) < INPUT_BUF_SIZE
    PROVE  /\ (e + 1) % UINT \in 0 .. UINT - 1
           /\ Minus((e + 1) % UINT, r) = Minus(e, r) + 1
<1>1. r \in 0 .. UINT - 1 /\ e \in 0 .. UINT - 1 /\ UINT \in Nat
  BY Types, Consts
<1>2. INPUT_BUF_SIZE \in Nat /\ UINT > INPUT_BUF_SIZE BY Consts
<1>. DEFINE e1 == (e + 1) % UINT
<1>3. e1 = (IF e + 1 = UINT THEN 0 ELSE e + 1) /\ e1 \in 0 .. UINT - 1
  BY <1>1, SuccIs
<1>4. Minus(e, r) = IF e >= r THEN e - r ELSE e - r + UINT
  BY <1>1, MinusIs
<1>. HIDE DEF e1
<1>5. Minus(e1, r) = IF e1 >= r THEN e1 - r ELSE e1 - r + UINT
  BY <1>1, <1>3, MinusIs
<1>6. Minus(e1, r) = Minus(e, r) + 1
  BY <1>1, <1>2, <1>3, <1>4, <1>5
<1>. QED BY <1>3, <1>6 DEF e1

\* consoleintr()'s switch: a character is taken back, or echoed if there is room, or dropped.
LEMMA Edit_Inv ==
    ASSUME Inv, NEW h \in Hart, Edit(h)
    PROVE  Inv'
<1>1. TypeOK /\ HartInv /\ HoldInv /\ TxInv /\ RxInv /\ OutInv
  BY DEF Inv
<1>2. /\ irq[h].pc = "edit" /\ pr' = pr
      /\ UNCHANGED <<buf, r, w, tx_busy, rx, fifo, thre, service>>
  BY DEF Edit, Handles, uart
<1>3. irq[h].pc \in InCons BY <1>2 DEF InCons
<1>4. \A q \in Hart \ {h} : irq[q].pc \notin InCons
  BY <1>1, <1>3, OneInCons
<1>5. fifo' \in Nat /\ fifo' <= fifo BY <1>1, <1>2, Types
<1>6. Minus(w, r) \in Int /\ Minus(e, r) \in Int /\ INPUT_BUF_SIZE \in Int
  BY <1>1, IndexInts
<1>7. CASE /\ irq[h].c \in {"^H", "^U"} /\ e # w
           /\ e' = (e - 1) % UINT
           /\ irq' = [irq EXCEPT ![h].pc = "echo", ![h].echo = 3]
           /\ UNCHANGED <<lock, intr, noff, intena>>
  <2>1. /\ irq'[h].pc = "echo" /\ irq'[h].c = irq[h].c
        /\ \A q \in Hart \ {h} : irq'[q] = irq[q]
        /\ irq' \in [Hart -> HandlerState]
    <3>1. PICK k \in 0 .. 3 : k = 3 OBVIOUS
    <3>2. irq' = [irq EXCEPT ![h].pc = "echo", ![h].echo = k] BY <1>7, <3>1
    <3>. QED BY <1>1, <3>2, EchoDoes
  <2>2. HartInv' /\ HoldInv'
    <3>. irq'[h].pc \in InCons BY <2>1 DEF InCons
    <3>. QED BY <1>1, <1>2, <1>3, <1>7, <2>1, ConsStay
  <2>3. /\ e' \in 0 .. UINT - 1
        /\ Minus(w, r)' = Minus(w, r)
        /\ Minus(e, r)' = Minus(e, r) - 1
        /\ Minus(w, r) <= Minus(e, r) - 1
    BY <1>1, <1>2, <1>7, Erased
  <2>4. TypeOK'
    BY <1>1, <1>2, <1>7, <2>1, <2>3, Types DEF TypeOK
  <2>5. TxInv'
    BY <1>1, <1>2, <2>1, TxSame
  <2>6. RxInv'
    <3>1. Minus(e, r)' < INPUT_BUF_SIZE
      BY <1>1, <1>6, <2>3 DEF RxInv
    <3>2. ReaderWakes'
      BY <1>1, <1>2, <1>6, <2>3, <3>1 DEF RxInv, ReaderWakes
    <3>3. \A q \in Hart : irq'[q].pc \in {"store"} => irq'[q].c \notin {"^H", "^U"}
      BY <1>1, <1>7, <2>1 DEF RxInv
    <3>. QED BY <1>6, <2>3, <3>1, <3>2, <3>3 DEF RxInv
  <2>7. OutInv'
    BY <1>1, <1>2, <1>5, <2>1, OutSame
  <2>. QED BY <2>2, <2>4, <2>5, <2>6, <2>7 DEF Inv
<1>8. CASE /\ irq[h].c \notin {"^H", "^U"} /\ Minus(e, r) < INPUT_BUF_SIZE
           /\ irq' = [irq EXCEPT ![h].pc = "echo", ![h].echo = 1]
           /\ UNCHANGED <<e, lock, intr, noff, intena>>
  <2>1. /\ irq'[h].pc = "echo" /\ irq'[h].c = irq[h].c
        /\ \A q \in Hart \ {h} : irq'[q] = irq[q]
        /\ irq' \in [Hart -> HandlerState]
    <3>1. PICK k \in 0 .. 3 : k = 1 OBVIOUS
    <3>2. irq' = [irq EXCEPT ![h].pc = "echo", ![h].echo = k] BY <1>8, <3>1
    <3>. QED BY <1>1, <3>2, EchoDoes
  <2>2. HartInv' /\ HoldInv'
    <3>. irq'[h].pc \in InCons BY <2>1 DEF InCons
    <3>. QED BY <1>1, <1>2, <1>3, <1>8, <2>1, ConsStay
  <2>3. TypeOK'
    BY <1>1, <1>2, <1>8, <2>1, Types DEF TypeOK
  <2>4. TxInv'
    BY <1>1, <1>2, <2>1, TxSame
  <2>5. RxInv'
    BY <1>1, <1>2, <1>8, <2>1 DEF RxInv, ReaderWakes, Minus
  <2>6. OutInv'
    BY <1>1, <1>2, <1>5, <2>1, OutSame
  <2>. QED BY <2>2, <2>3, <2>4, <2>5, <2>6 DEF Inv
<1>9. CASE /\ lock' = [lock EXCEPT !["cons"] = 0]
           /\ PopOff(h)
           /\ HTo(h, "rx")
           /\ e' = e
  <2>1. /\ irq'[h].pc = "rx" /\ irq'[h].c = irq[h].c
        /\ \A q \in Hart \ {h} : irq'[q] = irq[q]
        /\ irq' \in [Hart -> HandlerState]
    BY <1>1, <1>9, HToDoes
  <2>2. /\ HartInv' /\ HoldInv'
        /\ lock' \in [{"cons", "tx", "pr"} -> Hart \cup {0}]
        /\ intr' \in [Hart -> BOOLEAN] /\ noff' \in [Hart -> 0 .. 2]
        /\ intena' \in [Hart -> BOOLEAN]
    BY <1>1, <1>2, <1>3, <1>9, <2>1, ConsLeave
  <2>3. TypeOK'
    BY <1>1, <1>2, <1>9, <2>1, <2>2, Types DEF TypeOK
  <2>4. TxInv'
    BY <1>1, <1>2, <2>1, TxSame
  <2>5. RxInv'
    BY <1>1, <1>2, <1>9, <2>1, RxSame DEF RxInv
  <2>6. OutInv'
    BY <1>1, <1>2, <1>5, <2>1, OutSame
  <2>. QED BY <2>2, <2>3, <2>4, <2>5, <2>6 DEF Inv
<1>. QED BY <1>7, <1>8, <1>9 DEF Edit, Erasable, cpu

\* The echo has seen the transmitter idle.
LEMMA EchoWait_Inv ==
    ASSUME Inv, NEW h \in Hart, EchoWait(h)
    PROVE  Inv'
<1>1. TypeOK /\ HartInv /\ HoldInv /\ TxInv /\ RxInv /\ OutInv
  BY DEF Inv
<1>2. /\ irq[h].pc = "echo" /\ fifo = 0 /\ pr' = pr
      /\ UNCHANGED <<buf, r, w, e, tx_busy, lock, intr, noff, intena, rx, fifo, thre, service>>
  BY DEF EchoWait, Handles, cons, cpu, uart
<1>3. /\ irq'[h].pc = "put" /\ irq'[h].c = irq[h].c
      /\ \A q \in Hart \ {h} : irq'[q] = irq[q]
      /\ irq' \in [Hart -> HandlerState]
  BY <1>1, HToDoes DEF EchoWait
<1>4. HartInv' /\ HoldInv'
  <2>. irq[h].pc \in InCons /\ irq'[h].pc \in InCons BY <1>2, <1>3 DEF InCons
  <2>. QED BY <1>1, <1>2, <1>3, ConsStay
<1>5. TypeOK'
  BY <1>1, <1>2, <1>3, Types DEF TypeOK
<1>6. TxInv'
  BY <1>1, <1>2, <1>3, TxSame
<1>7. RxInv'
  BY <1>1, <1>2, <1>3, RxSame DEF RxInv
<1>8. OutInv'
  BY <1>2, OutEmpty
<1>. QED BY <1>4, <1>5, <1>6, <1>7, <1>8 DEF Inv

\* The byte of an echo; no other handler is between the look and the byte.
LEMMA EchoPut_Inv ==
    ASSUME Inv, NEW h \in Hart, EchoPut(h)
    PROVE  Inv'
<1>1. TypeOK /\ HartInv /\ HoldInv /\ TxInv /\ RxInv /\ OutInv
  BY DEF Inv
<1>2. /\ irq[h].pc = "put" /\ pr' = pr /\ fifo' = fifo + 1 /\ thre' = FALSE
      /\ UNCHANGED <<buf, r, w, e, tx_busy, rx, service>>
  BY DEF EchoPut, Handles, cons, WriteTHR
<1>3. irq[h].pc \in InCons BY <1>2 DEF InCons
<1>4. \A q \in Hart \ {h} : irq[q].pc \notin InCons
  BY <1>1, <1>3, OneInCons
<1>5. fifo \in Nat /\ fifo' \in Nat /\ fifo' > 0 /\ thre' \in BOOLEAN
  <2>1. fifo \in Nat BY <1>1, Types
  <2>2. thre' \in BOOLEAN BY <1>2
  <2>. QED BY <1>2, <2>1, <2>2
<1>6. irq[h].echo \in 0 .. 3
  <2>. irq \in [Hart -> HandlerState] BY <1>1, Types
  <2>. QED BY DEF HandlerState
<1>7. \E x \in {"echo", "edit", "store", "rx"}, k \in 0 .. 3 :
         /\ irq' = [irq EXCEPT ![h].pc = x, ![h].echo = k]
         /\ x = "store" => irq[h].c \notin {"^H", "^U"}
         /\ x # "rx" => UNCHANGED <<lock, intr, noff, intena>>
         /\ x = "rx" => PopOff(h) /\ lock' = [lock EXCEPT !["cons"] = 0]
  <2>1. CASE /\ irq[h].echo > 1
             /\ irq' = [irq EXCEPT ![h].pc = "echo", ![h].echo = @ - 1]
             /\ UNCHANGED <<lock, cpu>>
    <3>1. irq[h].echo - 1 \in 0 .. 3 BY <1>6, <2>1
    <3>2. irq' = [irq EXCEPT ![h].pc = "echo", ![h].echo = irq[h].echo - 1]
      <4>. irq \in [Hart -> HandlerState] BY <1>1, Types
      <4>. QED BY <2>1 DEF HandlerState
    <3>. QED BY <2>1, <3>1, <3>2 DEF cpu
  <2>2. CASE /\ irq[h].echo = 1 /\ irq[h].c \notin {"^H"}
             /\ irq' = [irq EXCEPT ![h].pc = IF irq[h].c = "^U" THEN "edit" ELSE "store",
                                   ![h].echo = 0]
             /\ UNCHANGED <<lock, cpu>>
    <3>1. PICK k \in 0 .. 3 : k = 0 OBVIOUS
    <3>2. PICK x \in {"edit", "store"} : x = IF irq[h].c = "^U" THEN "edit" ELSE "store"
      OBVIOUS
    <3>3. irq' = [irq EXCEPT ![h].pc = x, ![h].echo = k] BY <2>2, <3>1, <3>2
    <3>. QED BY <2>2, <3>2, <3>3 DEF cpu
  <2>3. CASE /\ irq[h].echo = 1 /\ irq[h].c = "^H"
             /\ irq' = [irq EXCEPT ![h].pc = "rx", ![h].echo = 0]
             /\ lock' = [lock EXCEPT !["cons"] = 0]
             /\ PopOff(h)
    <3>1. PICK k \in 0 .. 3 : k = 0 OBVIOUS
    <3>2. irq' = [irq EXCEPT ![h].pc = "rx", ![h].echo = k] BY <2>3, <3>1
    <3>. QED BY <2>3, <3>2
  <2>. QED BY <2>1, <2>2, <2>3 DEF EchoPut
<1>8. PICK x \in {"echo", "edit", "store", "rx"}, k \in 0 .. 3 :
         /\ irq' = [irq EXCEPT ![h].pc = x, ![h].echo = k]
         /\ x = "store" => irq[h].c \notin {"^H", "^U"}
         /\ x # "rx" => UNCHANGED <<lock, intr, noff, intena>>
         /\ x = "rx" => PopOff(h) /\ lock' = [lock EXCEPT !["cons"] = 0]
  BY <1>7
<1>9. /\ irq'[h].pc = x /\ irq'[h].c = irq[h].c
      /\ \A q \in Hart \ {h} : irq'[q] = irq[q]
      /\ irq' \in [Hart -> HandlerState]
  BY <1>1, <1>8, EchoDoes
<1>10. /\ HartInv' /\ HoldInv'
       /\ lock' \in [{"cons", "tx", "pr"} -> Hart \cup {0}]
       /\ intr' \in [Hart -> BOOLEAN] /\ noff' \in [Hart -> 0 .. 2]
       /\ intena' \in [Hart -> BOOLEAN]
  <2>1. CASE x = "rx"
    BY <1>1, <1>2, <1>3, <1>8, <1>9, <2>1, ConsLeave
  <2>2. CASE x # "rx"
    <3>1. irq'[h].pc \in InCons BY <1>8, <1>9, <2>2 DEF InCons
    <3>2. HartInv' /\ HoldInv'
      BY <1>1, <1>2, <1>3, <1>8, <1>9, <2>2, <3>1, ConsStay
    <3>. QED BY <1>1, <1>8, <2>2, <3>2, Types
  <2>. QED BY <2>1, <2>2
<1>11. TypeOK'
  BY <1>1, <1>2, <1>5, <1>9, <1>10, Types DEF TypeOK
<1>12. TxInv'
  BY <1>1, <1>2, <1>5, <1>8, <1>9, TxSame
<1>13. RxInv'
  BY <1>1, <1>2, <1>8, <1>9, RxSame DEF RxInv
<1>14. OutInv'
  <2>1. Echoing /\ ~Echoing'
    BY <1>2, <1>4, <1>8, <1>9 DEF Echoing, InCons
  <2>2. Printing' <=> Printing BY <1>2 DEF Printing
  <2>3. May(Echoing) = 1 /\ May(Echoing)' = 0 BY <2>1 DEF May
  <2>4. May(~tx_busy)' = May(~tx_busy) /\ May(~tx_busy) \in Nat BY <1>2 DEF May
  <2>5. May(Printing)' = May(Printing) /\ May(Printing) \in Nat BY <2>2 DEF May
  <2>. QED BY <1>1, <1>2, <1>5, <2>3, <2>4, <2>5 DEF OutInv
<1>. QED BY <1>10, <1>11, <1>12, <1>13, <1>14 DEF Inv

\* A character is stored where there is room; a whole line wakes the readers.
LEMMA Store_Inv ==
    ASSUME Inv, NEW h \in Hart, Store(h)
    PROVE  Inv'
<1>1. TypeOK /\ HartInv /\ HoldInv /\ TxInv /\ RxInv /\ OutInv
  BY DEF Inv
<1>. DEFINE e1 == (e + 1) % UINT
<1>2. /\ irq[h].pc = "store" /\ e' = e1
      /\ buf' = [buf EXCEPT ![Slot(e)] = irq[h].c]
      /\ PopOff(h) /\ lock' = [lock EXCEPT !["cons"] = 0]
      /\ UNCHANGED <<r, tx_busy, rx, fifo, thre, service>>
  BY DEF Store, Handles, uart
<1>3. \/ WholeLine(irq[h].c, e1) /\ w' = e1 /\ Wakeup("rsleep", "rwoken")
      \/ ~WholeLine(irq[h].c, e1) /\ w' = w /\ pr' = pr
  BY DEF Store
<1>4. irq[h].pc \in InCons BY <1>2 DEF InCons
<1>5. \A q \in Hart \ {h} : irq[q].pc \notin InCons
  BY <1>1, <1>4, OneInCons
<1>6. irq[h].c \notin {"^H", "^U"} /\ Minus(e, r) < INPUT_BUF_SIZE
  BY <1>1, <1>2 DEF RxInv
<1>7. e1 \in 0 .. UINT - 1 /\ Minus(e1, r) = Minus(e, r) + 1
  BY <1>1, <1>6, StoreMoves
<1>. HIDE DEF e1
<1>8. /\ irq'[h].pc = "rx" /\ irq'[h].c = irq[h].c
      /\ \A q \in Hart \ {h} : irq'[q] = irq[q]
      /\ irq' \in [Hart -> HandlerState]
  BY <1>1, HToDoes DEF Store
<1>9. /\ pr' \in [Hart -> ProcessState]
      /\ \A q \in Hart : \/ pr'[q].pc = pr[q].pc
                         \/ pr[q].pc = "rsleep" /\ pr'[q].pc = "rwoken"
      /\ w' = e1 => pr' = pr \/ \A q \in Hart : pr'[q].pc # "rsleep"
  <2>1. CASE Wakeup("rsleep", "rwoken")
    <3>1. /\ \A q \in Hart : pr'[q].pc = IF pr[q].pc = "rsleep" THEN "rwoken" ELSE pr[q].pc
          /\ pr' \in [Hart -> ProcessState]
      BY <1>1, <2>1, WakeupDoes
    <3>. QED BY <3>1
  <2>2. CASE pr' = pr
    <3>1. pr \in [Hart -> ProcessState] BY <1>1, Types
    <3>. QED BY <2>2, <3>1
  <2>. QED BY <1>3, <2>1, <2>2
<1>10. /\ HartInv' /\ HoldInv'
       /\ lock' \in [{"cons", "tx", "pr"} -> Hart \cup {0}]
       /\ intr' \in [Hart -> BOOLEAN] /\ noff' \in [Hart -> 0 .. 2]
       /\ intena' \in [Hart -> BOOLEAN]
  BY <1>1, <1>2, <1>4, <1>8, <1>9, ConsLeave
<1>11. TypeOK'
  <2>1. buf' \in [0 .. INPUT_BUF_SIZE - 1 -> {"x", "nl", "^D"}]
    <3>1. irq[h].c \in {"x", "nl", "^D"}
      <4>. irq \in [Hart -> HandlerState] BY <1>1, Types
      <4>. QED BY <1>6, ConsoleAssumption DEF HandlerState
    <3>. QED BY <1>1, <1>2, <3>1, Types
  <2>2. w' \in 0 .. UINT - 1 BY <1>1, <1>3, <1>7, Types
  <2>. QED BY <1>1, <1>2, <1>7, <1>8, <1>9, <1>10, <2>1, <2>2, Types DEF TypeOK
<1>12. TxInv'
  BY <1>1, <1>2, <1>8, <1>9, TxSame
<1>13. RxInv'
  <2>1. /\ Minus(w, r) \in Int /\ Minus(e, r) \in Int /\ Minus(w, r) <= Minus(e, r)
        /\ INPUT_BUF_SIZE \in Int
    <3>1. Minus(w, r) <= Minus(e, r) BY <1>1 DEF RxInv
    <3>. QED BY <1>1, <3>1, IndexInts
  <2>2. Minus(e, r)' = Minus(e, r) + 1
    <3>. Minus(e, r)' = Minus(e1, r) BY <1>2 DEF Minus
    <3>. QED BY <1>7
  <2>3. \A q \in Hart : irq'[q].pc \notin {"echo", "put", "store"}
    BY <1>5, <1>8 DEF InCons
  <2>4. CASE WholeLine(irq[h].c, e1) /\ w' = e1 /\ Wakeup("rsleep", "rwoken")
    <3>1. Minus(w, r)' = Minus(e, r)' BY <1>2, <2>4 DEF Minus
    <3>2. \A q \in Hart : pr'[q].pc # "rsleep"
      <4>. \A q \in Hart : pr'[q].pc = IF pr[q].pc = "rsleep" THEN "rwoken" ELSE pr[q].pc
        BY <1>1, <2>4, WakeupDoes
      <4>. QED OBVIOUS
    <3>. QED BY <1>2, <1>6, <2>1, <2>2, <2>3, <2>4, <3>1, <3>2 DEF RxInv, ReaderWakes
  <2>5. CASE ~WholeLine(irq[h].c, e1) /\ w' = w /\ pr' = pr
    <3>1. Minus(w, r)' = Minus(w, r) BY <1>2, <2>5 DEF Minus
    <3>2. Minus(e, r)' # INPUT_BUF_SIZE BY <1>7, <2>2, <2>5 DEF WholeLine
    <3>. QED BY <1>1, <1>2, <1>6, <2>1, <2>2, <2>3, <2>5, <3>1, <3>2 DEF RxInv, ReaderWakes
  <2>. QED BY <1>3, <2>4, <2>5
<1>14. OutInv'
  <2>. fifo' \in Nat /\ fifo' <= fifo BY <1>1, <1>2, Types
  <2>. QED BY <1>1, <1>2, <1>8, <1>9, OutSame
<1>. QED BY <1>10, <1>11, <1>12, <1>13, <1>14 DEF Inv

----------------------------------------------------------------------------
(* The UART, and the theorems                                              *)

\* A key is pressed.
LEMMA Key_Inv ==
    ASSUME Inv, Key
    PROVE  Inv'
<1>1. TypeOK /\ HartInv /\ HoldInv /\ TxInv /\ RxInv /\ OutInv
  BY DEF Inv
<1>2. /\ rx' = rx + 1 /\ rx < RXMAX
      /\ UNCHANGED <<buf, r, w, e, tx_busy, lock, intr, noff, intena, pr, irq, fifo, thre,
                     service>>
  BY DEF Key, cons, cpu
<1>3. TypeOK'
  <2>1. rx' \in 0 .. RXMAX BY <1>1, <1>2, Types, Consts
  <2>. QED BY <1>1, <1>2, <2>1, Types DEF TypeOK
<1>4. HartInv' BY <1>1, <1>2, HartSame
<1>5. HoldInv' BY <1>1, <1>2, HoldSame
<1>6. TxInv' BY <1>1, <1>2, TxSame
<1>7. RxInv' BY <1>1, <1>2, RxSame DEF RxInv
<1>8. OutInv'
  <2>. fifo' \in Nat /\ fifo' <= fifo BY <1>1, <1>2, Types
  <2>. QED BY <1>1, <1>2, OutSame
<1>. QED BY <1>3, <1>4, <1>5, <1>6, <1>7, <1>8 DEF Inv

\* A byte is sent; the last one latches the interrupt.
LEMMA Send_Inv ==
    ASSUME Inv, Send
    PROVE  Inv'
<1>1. TypeOK /\ HartInv /\ HoldInv /\ TxInv /\ RxInv /\ OutInv
  BY DEF Inv
<1>2. /\ fifo > 0 /\ fifo' = fifo - 1 /\ thre' \in BOOLEAN /\ (fifo = 1 => thre' = TRUE)
      /\ UNCHANGED <<buf, r, w, e, tx_busy, lock, intr, noff, intena, pr, irq, rx, service>>
  BY DEF Send, cons, cpu
<1>3. fifo \in Nat /\ fifo' \in Nat /\ fifo' <= fifo /\ (fifo # 1 => fifo' > 0)
  <2>. fifo \in Nat BY <1>1, Types
  <2>. QED BY <1>2
<1>4. TypeOK' BY <1>1, <1>2, <1>3, Types DEF TypeOK
<1>5. HartInv' BY <1>1, <1>2, HartSame
<1>6. HoldInv' BY <1>1, <1>2, HoldSame
<1>7. TxInv'
  <2>. fifo' > 0 \/ thre' = TRUE BY <1>2, <1>3
  <2>. QED BY <1>1, <1>2, TxSame
<1>8. RxInv' BY <1>1, <1>2, RxSame DEF RxInv
<1>9. OutInv' BY <1>1, <1>2, <1>3, OutSame
<1>. QED BY <1>4, <1>5, <1>6, <1>7, <1>8, <1>9 DEF Inv

\* All is idle at the start.
LEMMA Init_Inv ==
    ASSUME Init
    PROVE  Inv
<1>1. TypeOK
  <2>1. buf \in [0 .. INPUT_BUF_SIZE - 1 -> {"x", "nl", "^D"}] /\ r = 0 /\ w = 0 /\ e = 0
    BY DEF Init, ConsoleInit
  <2>2. 0 \in 0 .. UINT - 1 /\ 0 \in 0 .. RXMAX BY Consts
  <2>3. pr \in [Hart -> ProcessState] /\ irq \in [Hart -> HandlerState]
    BY DEF Init, InUser, NoIrq, ProcessState, HandlerState
  <2>4. /\ intr \in [Hart -> BOOLEAN] /\ noff \in [Hart -> 0 .. 2]
        /\ intena \in [Hart -> BOOLEAN]
    BY DEF Init
  <2>5. /\ lock \in [{"cons", "tx", "pr"} -> Hart \cup {0}] /\ service \in Hart \cup {0}
    BY DEF Init
  <2>6. tx_busy \in BOOLEAN /\ thre \in BOOLEAN BY DEF Init
  <2>7. fifo \in Nat /\ rx \in 0 .. RXMAX BY <2>2 DEF Init
  <2>. QED BY <2>1, <2>2, <2>3, <2>4, <2>5, <2>6, <2>7 DEF TypeOK
<1>2. \A h \in Hart : pr[h].pc = "user" /\ irq[h].pc = "none"
  BY DEF Init, InUser, NoIrq
<1>3. HartInv BY <1>2 DEF Init, HartInv, HartOK, Off, InCons
<1>4. HoldInv
  <2>1. /\ lock["cons"] = 0 /\ lock["tx"] = 0 /\ lock["pr"] = 0
        /\ \A h \in Hart : h # 0
    BY Consts DEF Init
  <2>. QED BY <1>2, <2>1 DEF HoldInv, InCons
<1>5. TxInv
  <2>. tx_busy = FALSE BY DEF Init
  <2>. QED BY <1>2 DEF TxInv, WriterWakes
<1>6. RxInv
  <2>1. r = 0 /\ w = 0 /\ e = 0 BY DEF Init, ConsoleInit
  <2>2. 0 \in 0 .. UINT - 1 /\ INPUT_BUF_SIZE \in Nat /\ INPUT_BUF_SIZE > 0 BY Consts
  <2>3. Minus(0, 0) = 0
    <3>1. Minus(0, 0) = 0 - 0 BY <2>2, MinusIs
    <3>. QED BY <3>1
  <2>. QED BY <1>2, <2>1, <2>2, <2>3 DEF RxInv, ReaderWakes
<1>7. OutInv
  <2>1. fifo = 0 BY DEF Init
  <2>2. May(Printing) \in 0 .. 1 /\ May(Echoing) \in 0 .. 1 /\ May(~tx_busy) \in 0 .. 1
    BY DEF May
  <2>. QED BY <2>1, <2>2 DEF OutInv
<1>. QED BY <1>1, <1>3, <1>4, <1>5, <1>6, <1>7 DEF Inv

\* Every step of a process or of a handler, of the UART, and no step at all.
LEMMA Next_Inv ==
    ASSUME Inv, [Next]_vars
    PROVE  Inv'
<1>1. ASSUME NEW h \in Hart, Process(h) PROVE Inv'
  <2>1. ASSUME NEW n \in Nat, Call(h, "racq", n) \/ Call(h, "wacq", n) \/ Call(h, "pacq", n)
        PROVE  Inv'
    BY <2>1, Call_Inv
  <2>2. CASE Resume(h, "rwoken", "racq") \/ Resume(h, "wwoken", "wacq")
    BY <2>2, Resume_Inv
  <2>3. CASE \/ Take(h, "racq", "cons", "read") \/ Take(h, "wacq", "tx", "write")
             \/ Take(h, "pacq", "pr", "pwait")
    BY <2>3, Take_Inv
  <2>4. CASE ReadWait(h) BY <2>4, ReadWait_Inv
  <2>5. CASE ReadChar(h) BY <2>5, ReadChar_Inv
  <2>6. CASE ReadEnd(h)
    BY <2>6, End_Inv DEF ReadEnd, Runs
  <2>7. CASE WriteWait(h) BY <2>7, WriteWait_Inv
  <2>8. CASE WriteChar(h) BY <2>8, WriteChar_Inv
  <2>9. CASE WriteEnd(h)
    BY <2>9, End_Inv DEF WriteEnd, Runs
  <2>10. CASE PrintWait(h) BY <2>10, PrintWait_Inv
  <2>11. CASE PrintPut(h) BY <2>11, PrintPut_Inv
  <2>12. 1 .. MaxRead \subseteq Nat /\ 1 .. MaxWrite \subseteq Nat /\ 1 \in Nat
    BY ConsoleAssumption
  <2>. QED BY <1>1, <2>1, <2>2, <2>3, <2>4, <2>5, <2>6, <2>7, <2>8, <2>9, <2>10, <2>11,
              <2>12 DEF Process
<1>2. ASSUME NEW h \in Hart, Handler(h) PROVE Inv'
  BY <1>2, Trap_Inv, Ack_Inv, UartIntr_Inv, IrqEnd_Inv, Uartgetc_Inv, Edit_Inv, EchoWait_Inv,
     EchoPut_Inv, Store_Inv DEF Handler
<1>3. ASSUME NEW h \in Hart, Kill(h) PROVE Inv'
  BY <1>3, Kill_Inv
<1>4. CASE UNCHANGED vars
  <2>1. UNCHANGED <<buf, r, w, e, tx_busy, lock, intr, noff, intena, pr, irq, rx, fifo, thre,
                    service>>
    BY <1>4 DEF vars, cons, cpu, uart
  <2>2. TypeOK /\ HartInv /\ HoldInv /\ TxInv /\ RxInv /\ OutInv
    BY DEF Inv
  <2>3. TypeOK' BY <2>1, <2>2, Types DEF TypeOK
  <2>4. HartInv' BY <2>1, <2>2, HartSame
  <2>5. HoldInv' BY <2>1, <2>2, HoldSame
  <2>6. TxInv' BY <2>1, <2>2, TxSame
  <2>7. RxInv' BY <2>1, <2>2, RxSame DEF RxInv
  <2>8. OutInv'
    <3>. fifo' \in Nat /\ fifo' <= fifo BY <2>1, <2>2, Types
    <3>. QED BY <2>1, <2>2, OutSame
  <2>. QED BY <2>3, <2>4, <2>5, <2>6, <2>7, <2>8 DEF Inv
<1>. QED BY <1>1, <1>2, <1>3, <1>4, Key_Inv, Send_Inv DEF Next

\* The inductive invariant holds in every state of the console.
THEOREM Invariance == Spec => []Inv
<1>1. Init => Inv BY Init_Inv
<1>2. Inv /\ [Next]_vars => Inv' BY Next_Inv
<1>. QED BY <1>1, <1>2, PTL DEF Spec

\* Every variable of the console, the locks and the UART keeps its type; the depth of
\* push_off() and the indices of the buffer keep their ranges.
THEOREM TypeCorrect == Spec => []TypeOK
<1>1. Inv => TypeOK BY DEF Inv
<1>. QED BY <1>1, Invariance, PTL

\* consoleread(), consoleintr(), uartwrite() and uartintr() lose no wakeup, with any number
\* of harts, any buffer and any input.
THEOREM NoLostWakeupHolds == Spec => []NoLostWakeup
<1>1. Inv => NoLostWakeup BY DEF Inv, NoLostWakeup, RxInv, TxInv
<1>. QED BY <1>1, Invariance, PTL

\* push_off() keeps the handler away from a lock that its own hart holds.
THEOREM NoSelfDeadlockHolds == Spec => []NoSelfDeadlock
<1>1. Inv => NoSelfDeadlock
  <2>. SUFFICES ASSUME Inv, NEW h \in Hart
                PROVE  /\ irq[h].pc = "tx" => lock["tx"] # h
                       /\ irq[h].pc = "rx" => lock["cons"] # h
                       /\ \A lk \in {"cons", "tx", "pr"} : lock[lk] = h => ~intr[h]
    <3>. Inv => DOMAIN lock = {"cons", "tx", "pr"} BY Types DEF Inv
    <3>. QED BY DEF NoSelfDeadlock
  <2>1. HartOK(h) /\ HoldInv BY DEF Inv, HartInv
  <2>2. /\ lock["cons"] = h => pr[h].pc = "read" \/ irq[h].pc \in InCons
        /\ lock["tx"] = h => pr[h].pc = "write"
        /\ lock["pr"] = h => pr[h].pc \in {"pwait", "pput"}
    BY <2>1 DEF HoldInv
  <2>. QED BY <2>1, <2>2 DEF HartOK, Off, InCons
<1>. QED BY <1>1, Invariance, PTL

\* Three places in the UART are enough for any number of harts: one byte each of printf(),
\* of an echo and of uartwrite() may be under way at the same time, and no more.
THEOREM OutputFitsHolds ==
    ASSUME FIFO >= 3
    PROVE  Spec => []OutputFits
<1>1. Inv => OutputFits
  <2>. SUFFICES ASSUME Inv PROVE fifo <= FIFO BY DEF OutputFits
  <2>1. May(Printing) \in Nat /\ May(Echoing) \in Nat /\ May(~tx_busy) \in Nat
    BY DEF May
  <2>2. fifo \in Nat /\ FIFO \in Nat BY Types, ConsoleAssumption DEF Inv
  <2>. QED BY <2>1, <2>2 DEF Inv, OutInv
<1>. QED BY <1>1, Invariance, PTL

----------------------------------------------------------------------------
(* What the readers have been given                                        *)

\* Quotient and remainder.
LEMMA DivMod ==
    ASSUME NEW n \in Nat, n > 0, NEW x \in Int
    PROVE  /\ x \div n \in Int /\ x % n \in 0 .. n - 1
           /\ x = n * (x \div n) + (x % n)
<1>1. x % n \in 0 .. n - 1 OBVIOUS
<1>2. x \div n \in Int OBVIOUS
<1>3. x = n * (x \div n) + (x % n) BY SMTT(20)
<1>. QED BY <1>1, <1>2, <1>3

\* They are the only ones.
LEMMA ModIs ==
    ASSUME NEW n \in Nat, n > 0, NEW q \in Int, NEW m \in 0 .. n - 1
    PROVE  (n * q + m) % n = m
OBVIOUS

\* Multiplication distributes, said once for the solver.
LEMMA Factor ==
    ASSUME NEW n \in Int, NEW q \in Int, NEW p \in Int
    PROVE  n * (q + p) = n * q + n * p
OBVIOUS

\* Indices that differ by UINT are the same place, as UINT is a multiple of the size.
LEMMA SlotWraps ==
    ASSUME NEW i \in Int
    PROVE  Slot(i + UINT) = Slot(i)
<1>. DEFINE N == INPUT_BUF_SIZE
<1>1. N \in Nat /\ N > 0 /\ UINT \in Nat BY Consts
<1>2. PICK p \in Int : UINT = N * p
  <2>1. UINT % N = 0 BY ConsoleAssumption
  <2>2. UINT \div N \in Int /\ UINT = N * (UINT \div N) + (UINT % N)
    BY <1>1, DivMod
  <2>3. N * (UINT \div N) \in Int BY <1>1, <2>2
  <2>4. UINT = N * (UINT \div N) BY <2>1, <2>2, <2>3
  <2>. QED BY <2>2, <2>4
<1>3. PICK q \in Int, m \in 0 .. N - 1 : i = N * q + m /\ i % N = m
  BY <1>1, DivMod
<1>. HIDE DEF N
<1>4. i + UINT = N * (q + p) + m
  <2>1. N * (q + p) = N * q + N * p BY <1>1, Factor
  <2>2. N * q \in Int /\ N * p \in Int /\ m \in Int BY <1>1
  <2>. QED BY <1>2, <1>3, <2>1, <2>2
<1>5. (N * (q + p) + m) % N = m
  <2>. q + p \in Int OBVIOUS
  <2>. QED BY <1>1, ModIs
<1>. QED BY <1>3, <1>4, <1>5 DEF Slot, N

\* Indices less than the size apart are different places.
LEMMA SlotsApart ==
    ASSUME NEW i \in Int, NEW k \in 1 .. INPUT_BUF_SIZE - 1
    PROVE  Slot(i + k) # Slot(i)
<1>. DEFINE N == INPUT_BUF_SIZE
<1>1. N \in Nat /\ N > 0 BY Consts
<1>2. PICK q \in Int, m \in 0 .. N - 1 : i = N * q + m /\ i % N = m
  BY <1>1, DivMod
<1>3. k \in 1 .. N - 1 OBVIOUS
<1>. HIDE DEF N
<1>4. N * q \in Int BY <1>1
<1>5. CASE m + k < N
  <2>1. m + k \in 0 .. N - 1 BY <1>1, <1>3, <1>5
  <2>2. i + k = N * q + (m + k) BY <1>2, <1>3, <1>4
  <2>3. (N * q + (m + k)) % N = m + k BY <1>1, <2>1, ModIs
  <2>4. (i + k) % N = m + k BY <2>2, <2>3
  <2>. QED BY <1>2, <1>3, <2>4 DEF Slot, N
<1>6. CASE m + k >= N
  <2>1. m + k - N \in 0 .. N - 1 BY <1>1, <1>3, <1>6
  <2>2. N * (q + 1) = N * q + N BY <1>1
  <2>3. i + k = N * (q + 1) + (m + k - N) BY <1>1, <1>2, <1>3, <1>4, <2>2
  <2>4. (N * (q + 1) + (m + k - N)) % N = m + k - N
    <3>. q + 1 \in Int OBVIOUS
    <3>. QED BY <1>1, <2>1, ModIs
  <2>5. (i + k) % N = m + k - N BY <2>3, <2>4
  <2>6. m + k - N # m BY <1>1, <1>3
  <2>. QED BY <1>2, <2>5, <2>6 DEF Slot, N
<1>. QED BY <1>1, <1>3, <1>5, <1>6

\* What may happen to the characters that were handed over.
Kept ==
    \/ Committed' = Committed
    \/ Committed # <<>> /\ Committed' = Tail(Committed)
    \/ /\ Len(Committed') > Len(Committed)
       /\ SubSeq(Committed', 1, Len(Committed)) = Committed

\* The characters of a buffer between two indices are a sequence, of the length that the
\* indices say.
LEMMA BetweenIs ==
    ASSUME NEW b \in [0 .. INPUT_BUF_SIZE - 1 -> {"x", "nl", "^D"}],
           NEW x \in 0 .. UINT - 1, NEW y \in 0 .. UINT - 1,
           NEW s, s = [i \in 1 .. Minus(y, x) |-> b[Slot(x + i - 1)]]
    PROVE  /\ Minus(y, x) \in Nat
           /\ s \in Seq({"x", "nl", "^D"}) /\ Len(s) = Minus(y, x)
           /\ \A i \in 1 .. Minus(y, x) : s[i] = b[Slot(x + i - 1)]
<1>1. UINT \in Nat BY Consts
<1>2. Minus(y, x) \in Nat BY <1>1, MinusIs
<1>3. \A i \in 1 .. Minus(y, x) : b[Slot(x + i - 1)] \in {"x", "nl", "^D"}
  <2>1. \A i \in 1 .. Minus(y, x) : x + i - 1 \in Int BY <1>1, <1>2
  <2>2. \A i \in 1 .. Minus(y, x) : Slot(x + i - 1) \in 0 .. INPUT_BUF_SIZE - 1
    BY <2>1, SlotIn
  <2>. QED BY <2>2
<1>. QED BY <1>2, <1>3

\* So it is with what was handed over, before a step
LEMMA CommittedIs ==
    ASSUME TypeOK
    PROVE  /\ Minus(w, r) \in Nat
           /\ Committed \in Seq({"x", "nl", "^D"}) /\ Len(Committed) = Minus(w, r)
           /\ \A i \in 1 .. Minus(w, r) : Committed[i] = buf[Slot(r + i - 1)]
BY Types, BetweenIs DEF Committed

\* and after it.
LEMMA CommittedNext ==
    ASSUME TypeOK'
    PROVE  /\ Minus(w', r') \in Nat
           /\ Committed' \in Seq({"x", "nl", "^D"}) /\ Len(Committed') = Minus(w', r')
           /\ \A i \in 1 .. Minus(w', r') : Committed'[i] = buf'[Slot(r' + i - 1)]
<1>1. /\ buf' \in [0 .. INPUT_BUF_SIZE - 1 -> {"x", "nl", "^D"}]
      /\ r' \in 0 .. UINT - 1 /\ w' \in 0 .. UINT - 1
  BY DEF TypeOK
<1>2. Committed' = [i \in 1 .. Minus(w', r') |-> buf'[Slot(r' + i - 1)]]
  BY DEF Committed, Minus, Slot
<1>. QED BY <1>1, <1>2, BetweenIs

\* Steps that leave the buffer and the ends of what was handed over alone.
LEMMA KeptSame ==
    ASSUME UNCHANGED <<buf, r, w>>
    PROVE  Kept
BY DEF Kept, Committed, Minus, Slot

\* A reader takes the first character.
LEMMA KeptRead ==
    ASSUME Inv, r # w, r' = (r + 1) % UINT, UNCHANGED <<buf, w, e>>, TypeOK'
    PROVE  Kept
<1>1. TypeOK /\ RxInv BY DEF Inv
<1>2. r \in 0 .. UINT - 1 /\ w \in 0 .. UINT - 1 /\ UINT \in Nat
  BY <1>1, Types, Consts
<1>. DEFINE n == Minus(w, r)
<1>3. n \in Nat /\ n > 0 /\ Minus(w, r)' = n - 1
  <2>1. Minus(w, r) = IF w >= r THEN w - r ELSE w - r + UINT BY <1>2, MinusIs
  <2>2. Minus(w, r)' = n - 1 BY <1>1, ReadMoves
  <2>. QED BY <1>2, <2>1, <2>2
<1>4. /\ Committed \in Seq({"x", "nl", "^D"}) /\ Len(Committed) = n
      /\ \A i \in 1 .. n : Committed[i] = buf[Slot(r + i - 1)]
  BY <1>1, CommittedIs
<1>5. /\ Committed' \in Seq({"x", "nl", "^D"}) /\ Len(Committed') = n - 1
      /\ \A i \in 1 .. n - 1 : Committed'[i] = buf[Slot(r' + i - 1)]
  <2>1. Minus(w', r') = n - 1 BY <1>3 DEF Minus
  <2>. QED BY <2>1, CommittedNext
<1>. HIDE DEF n
<1>6. ASSUME NEW i \in 1 .. n - 1 PROVE Committed'[i] = Committed[i + 1]
  <2>1. i + 1 \in 1 .. n /\ r + (i + 1) - 1 = r + i BY <1>2, <1>3
  <2>2. Committed[i + 1] = buf[Slot(r + i)] BY <1>4, <2>1
  <2>3. Slot(r' + i - 1) = Slot(r + i)
    <3>1. r' = IF r + 1 = UINT THEN 0 ELSE r + 1 BY <1>2, SuccIs
    <3>2. CASE r + 1 = UINT
      <4>1. i - 1 \in Int /\ r' + i - 1 = i - 1 /\ r + i = (i - 1) + UINT
        BY <1>2, <1>3, <3>1, <3>2
      <4>. QED BY <4>1, SlotWraps
    <3>3. CASE r + 1 # UINT
      <4>1. r' + i - 1 = r + i BY <1>2, <1>3, <3>1, <3>3
      <4>. QED BY <4>1
    <3>. QED BY <3>2, <3>3
  <2>. QED BY <1>5, <2>2, <2>3
<1>7. Committed # <<>> BY <1>3, <1>4
<1>8. /\ Tail(Committed) \in Seq({"x", "nl", "^D"}) /\ Len(Tail(Committed)) = n - 1
      /\ \A i \in 1 .. n - 1 : Tail(Committed)[i] = Committed[i + 1]
  BY <1>3, <1>4, <1>7, HeadTailProperties
<1>9. Committed' = Tail(Committed)
  BY <1>3, <1>5, <1>6, <1>8, SeqEqual
<1>. QED BY <1>7, <1>9 DEF Kept

\* A character is stored behind what was handed over.
LEMMA KeptStore ==
    ASSUME Inv, NEW h \in Hart, Store(h), TypeOK'
    PROVE  Kept
<1>1. TypeOK /\ RxInv BY DEF Inv
<1>2. r \in 0 .. UINT - 1 /\ w \in 0 .. UINT - 1 /\ e \in 0 .. UINT - 1 /\ UINT \in Nat
  BY <1>1, Types, Consts
<1>3. /\ irq[h].pc = "store" /\ e' = (e + 1) % UINT /\ r' = r
      /\ buf' = [buf EXCEPT ![Slot(e)] = irq[h].c]
      /\ w' = w \/ w' = (e + 1) % UINT
  BY DEF Store, Handles
<1>4. Minus(e, r) < INPUT_BUF_SIZE
  BY <1>1, <1>3 DEF RxInv
<1>. DEFINE n == Minus(w, r)
            d == Minus(e, r)
<1>5. n \in Nat /\ d \in Nat /\ n <= d /\ d < INPUT_BUF_SIZE /\ INPUT_BUF_SIZE \in Nat
  <2>1. n \in 0 .. UINT - 1 /\ d \in 0 .. UINT - 1 BY <1>2, MinusIs
  <2>. QED BY <1>1, <1>4, <2>1, Consts DEF RxInv
<1>6. Slot(e) = Slot(r + d)
  <2>1. d = IF e >= r THEN e - r ELSE e - r + UINT BY <1>2, MinusIs
  <2>2. CASE e >= r
    <3>1. r + d = e BY <1>2, <2>1, <2>2
    <3>. QED BY <3>1
  <2>3. CASE e < r
    <3>1. r + d = e + UINT BY <1>2, <2>1, <2>3
    <3>2. e \in Int BY <1>2
    <3>. QED BY <3>1, <3>2, SlotWraps
  <2>. QED BY <1>2, <2>2, <2>3
<1>7. /\ Committed \in Seq({"x", "nl", "^D"}) /\ Len(Committed) = n
      /\ \A i \in 1 .. n : Committed[i] = buf[Slot(r + i - 1)]
  BY <1>1, CommittedIs
<1>8. \A i \in 1 .. n : buf'[Slot(r + i - 1)] = buf[Slot(r + i - 1)]
  <2>. SUFFICES ASSUME NEW i \in 1 .. n
                PROVE  buf'[Slot(r + i - 1)] = buf[Slot(r + i - 1)]
    OBVIOUS
  <2>1. PICK k \in 1 .. INPUT_BUF_SIZE - 1 : k = d - i + 1
    BY <1>5
  <2>2. r + i - 1 \in Int /\ (r + i - 1) + k = r + d
    BY <1>2, <1>5, <2>1
  <2>3. Slot(r + d) # Slot(r + i - 1)
    BY <2>2, SlotsApart
  <2>4. Slot(r + i - 1) \in 0 .. INPUT_BUF_SIZE - 1
    BY <2>2, SlotIn
  <2>. QED BY <1>1, <1>3, <1>6, <2>3, <2>4, Types
<1>9. /\ Committed' \in Seq({"x", "nl", "^D"}) /\ Len(Committed') = Minus(w, r)'
      /\ Minus(w, r)' \in Nat
      /\ \A i \in 1 .. Minus(w, r)' : Committed'[i] = buf'[Slot(r + i - 1)]
  <2>1. Minus(w', r') = Minus(w, r)' BY DEF Minus
  <2>. QED BY <1>3, <2>1, CommittedNext
<1>10. CASE w' = w
  <2>1. Minus(w, r)' = n BY <1>3, <1>10 DEF Minus
  <2>. HIDE DEF n, d
  <2>2. \A i \in 1 .. n : Committed'[i] = Committed[i] BY <1>7, <1>8, <1>9, <2>1
  <2>3. Committed' = Committed BY <1>5, <1>7, <1>9, <2>1, <2>2, SeqEqual
  <2>. QED BY <2>3 DEF Kept
<1>11. CASE w' = (e + 1) % UINT
  <2>1. Minus(w, r)' = Minus((e + 1) % UINT, r) BY <1>3, <1>11 DEF Minus
  <2>2. Minus(w, r)' = d + 1 BY <1>1, <1>4, <2>1, StoreMoves
  <2>. HIDE DEF n, d
  <2>3. Len(Committed') > Len(Committed) BY <1>5, <1>7, <1>9, <2>2
  <2>4. /\ SubSeq(Committed', 1, n) \in Seq({"x", "nl", "^D"})
        /\ Len(SubSeq(Committed', 1, n)) = n
        /\ \A i \in 1 .. n : SubSeq(Committed', 1, n)[i] = Committed'[i]
    BY <1>5, <1>9, <2>2
  <2>5. \A i \in 1 .. n : Committed'[i] = Committed[i]
    <3>1. \A i \in 1 .. n : i \in 1 .. Minus(w, r)' BY <1>5, <2>2
    <3>. QED BY <1>7, <1>8, <1>9, <3>1
  <2>6. SubSeq(Committed', 1, n) = Committed
    BY <1>5, <1>7, <2>4, <2>5, SeqEqual
  <2>. QED BY <1>7, <2>3, <2>6 DEF Kept
<1>. QED BY <1>3, <1>10, <1>11

\* Every step keeps what was handed over, or takes the first of it, or adds to it.
LEMMA Next_Kept ==
    ASSUME Inv, [Next]_vars
    PROVE  Kept
<1>1. TypeOK'
  BY Next_Inv DEF Inv
<1>2. ASSUME NEW h \in Hart, ReadChar(h) PROVE Kept
  <2>1. /\ r # w /\ UNCHANGED <<buf, w, e>>
        /\ r' = r \/ r' = (r + 1) % UINT
    BY <1>2 DEF ReadChar, MustWait, Eof
  <2>. QED BY <1>1, <2>1, KeptRead, KeptSame
<1>3. ASSUME NEW h \in Hart, Process(h) PROVE Kept
  <2>1. CASE ReadChar(h) BY <1>2, <2>1
  <2>2. CASE ~ReadChar(h)
    <3>. UNCHANGED <<buf, r, w>>
      BY <1>3, <2>2 DEF Process, Call, Resume, Take, ReadWait, ReadEnd, WriteWait, WriteChar,
                        WriteEnd, PrintWait, PrintPut, cons
    <3>. QED BY KeptSame
  <2>. QED BY <2>1, <2>2
<1>4. ASSUME NEW h \in Hart, Handler(h) PROVE Kept
  <2>1. CASE Store(h) BY <1>1, <2>1, KeptStore
  <2>2. CASE ~Store(h)
    <3>. UNCHANGED <<buf, r, w>>
      BY <1>4, <2>2 DEF Handler, Trap, Ack, UartIntr, IrqEnd, Uartgetc, Edit, EchoWait, EchoPut,
                        cons
    <3>. QED BY KeptSame
  <2>. QED BY <2>1, <2>2
<1>5. ASSUME NEW h \in Hart, Kill(h) PROVE Kept
  BY <1>5, KeptSame DEF Kill, cons
<1>6. CASE Key \/ Send
  BY <1>6, KeptSame DEF Key, Send, cons
<1>7. CASE UNCHANGED vars
  BY <1>7, KeptSame DEF vars, cons
<1>. QED BY <1>3, <1>4, <1>5, <1>6, <1>7 DEF Next

\* Characters that consoleintr() has handed over reach the readers unchanged and in order,
\* though the buffer is a ring, its indices wrap around and erasing moves cons.e back.
THEOREM CommittedKeptHolds == Spec => CommittedKept
<1>1. Inv /\ [Next]_vars =>
         [\/ Committed' = Committed
          \/ Committed # <<>> /\ Committed' = Tail(Committed)
          \/ /\ Len(Committed') > Len(Committed)
             /\ SubSeq(Committed', 1, Len(Committed)) = Committed]_vars
  BY Next_Kept DEF Kept
<1>. QED BY <1>1, Invariance, PTL DEF Spec, CommittedKept
=============================================================================
