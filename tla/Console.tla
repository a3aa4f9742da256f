------------------------------ MODULE Console -------------------------------
(***************************************************************************)
(* The console and the UART of the xv6 kernel (kernel/console.c, uart.c),  *)
(* with the locks and interrupts they depend on (spinlock.c, devintr() of  *)
(* trap.c, plic.c).                                                        *)
(*                                                                         *)
(* Each hart runs one process, that reads or writes the console or prints  *)
(* from the kernel; an interrupt is handled on top of it, on any hart with *)
(* interrupts on.  A sleeping process leaves its hart idle.  While a lock  *)
(* is held, each wait for the UART and each character is a step of its     *)
(* own; a critical section that waits for nothing is one step.  Acquiring  *)
(* is two: push_off(), then the swap once the lock is free.                *)
(***************************************************************************)
EXTENDS Integers, Sequences

CONSTANTS
    Hart,
    Keys,               \* what is typed, of those below
    INPUT_BUF_SIZE,
    UINT,               \* indices are modulo UINT (2^32), a multiple of INPUT_BUF_SIZE
    MaxRead, MaxWrite,  \* most bytes of a read() and of a write()
    RXMAX,              \* characters the UART holds until they are read
    FIFO                \* characters it holds until they are sent

ASSUME ConsoleAssumption ==
    /\ 0 \notin Hart
    /\ Keys \subseteq {"x", "nl", "^D", "^U", "^H"}
    /\ INPUT_BUF_SIZE \in Nat \ {0} /\ UINT \in Nat /\ UINT > INPUT_BUF_SIZE
    /\ UINT % INPUT_BUF_SIZE = 0
    /\ MaxRead \in Nat /\ MaxWrite \in Nat /\ RXMAX \in Nat /\ FIFO \in Nat

VARIABLES
    buf, r, w, e,       \* cons
    tx_busy,
    lock,               \* holder of each lock, 0 if it is free
    intr, noff, intena, \* of a hart: interrupts on, push_off() depth, what they were
    pr,                 \* the process on a hart
    irq,                \* the interrupt handler on a hart
    rx, fifo, thre,     \* the UART: bytes received, to send, "transmitter empty" latched
    service             \* the hart that has claimed the UART's interrupt, or 0

cons == <<buf, r, w, e>>
cpu  == <<intr, noff, intena>>
uart == <<rx, fifo, thre>>
vars == <<cons, tx_busy, lock, cpu, pr, irq, uart, service>>

InUser == [pc |-> "user", n |-> 0, target |-> 0, killed |-> FALSE]
NoIrq  == [pc |-> "none", c |-> "nl", echo |-> 0]

ProcessState ==
    [pc : {"user", "racq", "read", "rsleep", "rwoken", "wacq", "write", "wsleep", "wwoken",
           "pacq", "pwait", "pput"},
     n : Nat, target : Nat, killed : BOOLEAN]

HandlerState ==
    [pc : {"none", "ack", "tx", "rx", "edit", "echo", "put", "store"},
     c : Keys \cup {"nl"}, echo : 0 .. 3]

TypeOK ==
    /\ buf \in [0 .. INPUT_BUF_SIZE - 1 -> {"x", "nl", "^D"}]
    /\ r \in 0 .. UINT - 1 /\ w \in 0 .. UINT - 1 /\ e \in 0 .. UINT - 1
    /\ tx_busy \in BOOLEAN
    /\ lock \in [{"cons", "tx", "pr"} -> Hart \cup {0}]
    /\ intr \in [Hart -> BOOLEAN] /\ noff \in [Hart -> 0 .. 2] /\ intena \in [Hart -> BOOLEAN]
    /\ pr \in [Hart -> ProcessState] /\ irq \in [Hart -> HandlerState]
    /\ rx \in 0 .. RXMAX
    /\ fifo \in Nat /\ thre \in BOOLEAN /\ service \in Hart \cup {0}

----------------------------------------------------------------------------
(* spinlock.c                                                              *)

\* Mutant of PushOff: interrupts stay on.
PushOffOn(h) ==
    /\ noff' = [noff EXCEPT ![h] = @ + 1]
    /\ intena' = IF noff[h] = 0 THEN [intena EXCEPT ![h] = intr[h]] ELSE intena
    /\ UNCHANGED intr

PushOff(h) ==
    /\ intr' = [intr EXCEPT ![h] = FALSE]
    /\ intena' = IF noff[h] = 0 THEN [intena EXCEPT ![h] = intr[h]] ELSE intena
    /\ noff' = [noff EXCEPT ![h] = @ + 1]

PopOff(h) ==
    /\ noff' = [noff EXCEPT ![h] = @ - 1]
    /\ intr' = IF noff[h] = 1 /\ intena[h] THEN [intr EXCEPT ![h] = TRUE] ELSE intr
    /\ UNCHANGED intena

\* A process runs when no interrupt is handled on its hart.
Runs(h, pc) == irq[h].pc = "none" /\ pr[h].pc = pc
To(h, pc) == pr' = [pr EXCEPT ![h].pc = pc]

\* The start of a system call or of printf(): acquire()'s push_off().
Call(h, pc, n) ==
    /\ Runs(h, "user")
    /\ PushOff(h)
    /\ pr' = [pr EXCEPT ![h] = [pc |-> pc, n |-> n, target |-> IF pc = "racq" THEN n ELSE 0,
                                killed |-> FALSE]]
    /\ UNCHANGED <<cons, tx_busy, lock, irq, uart, service>>

\* acquire() again at the end of sleep().
Resume(h, from, to) ==
    /\ Runs(h, from)
    /\ PushOff(h)
    /\ To(h, to)
    /\ UNCHANGED <<cons, tx_busy, lock, irq, uart, service>>

Take(h, from, lk, to) ==
    /\ Runs(h, from)
    /\ lock[lk] = 0
    /\ lock' = [lock EXCEPT ![lk] = h]
    /\ To(h, to)
    /\ UNCHANGED <<cons, tx_busy, cpu, irq, uart, service>>

\* release() and the end of the call; a killed process exits and another one starts.
Leave(h, lk) ==
    /\ lock' = [lock EXCEPT ![lk] = 0]
    /\ PopOff(h)
    /\ pr' = [pr EXCEPT ![h] = InUser]

\* sleep() gives up the lock and the hart.
Sleep(h, lk, pc) ==
    /\ lock' = [lock EXCEPT ![lk] = 0]
    /\ PopOff(h)
    /\ To(h, pc)

Wakeup(asleep, awake) ==
    pr' = [h \in Hart |-> IF pr[h].pc = asleep THEN [pr[h] EXCEPT !.pc = awake] ELSE pr[h]]

\* kkill() of a process in the kernel.
Kill(h) ==
    /\ pr[h].pc # "user" /\ ~pr[h].killed
    /\ pr' = [pr EXCEPT ![h].killed = TRUE,
                        ![h].pc = CASE @ = "rsleep" -> "rwoken"
                                    [] @ = "wsleep" -> "wwoken"
                                    [] OTHER -> @]
    /\ UNCHANGED <<cons, tx_busy, lock, cpu, irq, uart, service>>

----------------------------------------------------------------------------
(* consoleread()                                                           *)

Slot(i) == i % INPUT_BUF_SIZE
Minus(i, j) == (i - j) % UINT

MustWait == r = w

\* No input: killed, or to sleep.
ReadWait(h) ==
    /\ Runs(h, "read") /\ pr[h].n > 0
    /\ MustWait
    /\ \/ pr[h].killed /\ Leave(h, "cons")
       \/ ~pr[h].killed /\ Sleep(h, "cons", "rsleep")
    /\ UNCHANGED <<cons, tx_busy, intena, irq, uart, service>>

\* ^D ends the read(); after other input it is left for the next one.
Eof(h) == r' = IF pr[h].n < pr[h].target THEN r ELSE (r + 1) % UINT

ReadChar(h) ==
    LET c == buf[Slot(r)] IN
    /\ Runs(h, "read") /\ pr[h].n > 0
    /\ ~MustWait
    /\ \/ /\ c = "^D"
          /\ Eof(h)
          /\ Leave(h, "cons")
       \/ /\ c # "^D"                   \* copied, or the user's address is bad
          /\ r' = (r + 1) % UINT
          /\ \/ /\ c # "nl"
                /\ pr' = [pr EXCEPT ![h].n = @ - 1]
                /\ UNCHANGED <<lock, cpu>>
             \/ Leave(h, "cons")
    /\ UNCHANGED <<buf, w, e, tx_busy, irq, uart, service>>

ReadEnd(h) ==
    /\ Runs(h, "read") /\ pr[h].n = 0
    /\ Leave(h, "cons")
    /\ UNCHANGED <<cons, tx_busy, irq, uart, service>>

----------------------------------------------------------------------------
(* consolewrite() and uartwrite(), printf() and uartputc_sync()            *)

\* A byte for the UART clears its interrupt.
WriteTHR == fifo' = fifo + 1 /\ thre' = FALSE /\ UNCHANGED rx

\* Mutant of UartBusy: no wait for the last byte.
UartBusyNever == FALSE

UartBusy == tx_busy

WriteWait(h) ==
    /\ Runs(h, "write") /\ pr[h].n > 0
    /\ UartBusy
    /\ Sleep(h, "tx", "wsleep")
    /\ UNCHANGED <<cons, tx_busy, irq, uart, service>>

WriteChar(h) ==
    /\ Runs(h, "write") /\ pr[h].n > 0
    /\ ~UartBusy
    /\ WriteTHR
    /\ tx_busy' = TRUE
    /\ pr' = [pr EXCEPT ![h].n = @ - 1]
    /\ UNCHANGED <<cons, lock, cpu, irq, service>>

WriteEnd(h) ==
    /\ Runs(h, "write") /\ pr[h].n = 0
    /\ Leave(h, "tx")
    /\ UNCHANGED <<cons, tx_busy, irq, uart, service>>

\* uartputc_sync(), under pr.lock: wait for LSR_TX_IDLE, then write.
PrintWait(h) ==
    /\ Runs(h, "pwait")
    /\ fifo = 0
    /\ To(h, "pput")
    /\ UNCHANGED <<cons, tx_busy, lock, cpu, irq, uart, service>>

PrintPut(h) ==
    /\ Runs(h, "pput")
    /\ WriteTHR
    /\ Leave(h, "pr")
    /\ UNCHANGED <<cons, tx_busy, irq, service>>

----------------------------------------------------------------------------
(* uartintr() and consoleintr()                                            *)

Handles(h, pc) == irq[h].pc = pc
HTo(h, pc) == irq' = [irq EXCEPT ![h].pc = pc]

\* The UART's line, which the PLIC passes on while nobody serves it.
Pending == service = 0 /\ (thre \/ rx > 0)

\* The trap turns interrupts off; plic_claim().
Trap(h) ==
    /\ intr[h] /\ Handles(h, "none")
    /\ Pending
    /\ intr' = [intr EXCEPT ![h] = FALSE]
    /\ service' = h
    /\ HTo(h, "ack")
    /\ UNCHANGED <<cons, tx_busy, lock, noff, intena, pr, uart>>

\* Reading ISR clears the transmitter's interrupt unless it reports input.
Ack(h) ==
    /\ Handles(h, "ack")
    /\ thre' = (thre /\ rx > 0)
    /\ HTo(h, "tx")
    /\ UNCHANGED <<cons, tx_busy, lock, cpu, pr, rx, fifo, service>>

\* Mutant of TxDone: tx_busy is only cleared while somebody sleeps.
TxDoneAsleep(h) ==
    IF fifo = 0 /\ \E q \in Hart : pr[q].pc = "wsleep"
    THEN tx_busy' = FALSE /\ Wakeup("wsleep", "wwoken") ELSE UNCHANGED <<tx_busy, pr>>

TxDone(h) ==
    IF fifo = 0 THEN tx_busy' = FALSE /\ Wakeup("wsleep", "wwoken") ELSE UNCHANGED <<tx_busy, pr>>

UartIntr(h) ==
    /\ Handles(h, "tx")
    /\ lock["tx"] = 0
    /\ TxDone(h)
    /\ HTo(h, "rx")
    /\ UNCHANGED <<cons, lock, cpu, uart, service>>

\* uartgetc() and consoleintr()'s acquire(); what was typed is seen here.
Uartgetc(h, c) ==
    /\ Handles(h, "rx") /\ rx > 0
    /\ lock["cons"] = 0
    /\ lock' = [lock EXCEPT !["cons"] = h]
    /\ rx' = rx - 1
    /\ PushOff(h)
    /\ irq' = [irq EXCEPT ![h].pc = "edit", ![h].c = c]
    /\ UNCHANGED <<cons, tx_busy, pr, fifo, thre, service>>

\* No more input: plic_complete() and the return from the trap.
IrqEnd(h) ==
    /\ Handles(h, "rx") /\ rx = 0
    /\ service' = 0
    /\ intr' = [intr EXCEPT ![h] = TRUE]
    /\ HTo(h, "none")
    /\ UNCHANGED <<cons, tx_busy, lock, noff, intena, pr, uart>>

\* Mutant of Erasable: a line that has been handed over can be erased.
Erasable1 == e # r

Erasable == e # w

\* The character: ^U and ^H take characters back, ^U until the line is empty; others are
\* echoed and stored if there is room.
Edit(h) ==
    LET c == irq[h].c
        room == Minus(e, r) < INPUT_BUF_SIZE
        erase == \/ c = "^H" /\ Erasable
                 \/ c = "^U" /\ Erasable /\ buf[Slot(e - 1)] # "nl"
    IN
    /\ Handles(h, "edit")
    /\ \/ /\ erase
          /\ e' = (e - 1) % UINT
          /\ irq' = [irq EXCEPT ![h].pc = "echo", ![h].echo = 3]
          /\ UNCHANGED <<lock, cpu>>
       \/ /\ c \notin {"^H", "^U"} /\ room
          /\ irq' = [irq EXCEPT ![h].pc = "echo", ![h].echo = 1]
          /\ UNCHANGED <<e, lock, cpu>>
       \/ /\ ~erase /\ ~(c \notin {"^H", "^U"} /\ room)
          /\ lock' = [lock EXCEPT !["cons"] = 0]
          /\ PopOff(h)
          /\ HTo(h, "rx")
          /\ UNCHANGED e
    /\ UNCHANGED <<buf, r, w, tx_busy, pr, uart, service>>

\* consputc(): uartputc_sync() of each byte.
EchoWait(h) ==
    /\ Handles(h, "echo")
    /\ fifo = 0
    /\ HTo(h, "put")
    /\ UNCHANGED <<cons, tx_busy, lock, cpu, pr, uart, service>>

EchoPut(h) ==
    /\ Handles(h, "put")
    /\ WriteTHR
    /\ \/ /\ irq[h].echo > 1
          /\ irq' = [irq EXCEPT ![h].pc = "echo", ![h].echo = @ - 1]
          /\ UNCHANGED <<lock, cpu>>
       \/ /\ irq[h].echo = 1 /\ irq[h].c \notin {"^H"}
          /\ irq' = [irq EXCEPT ![h].pc = IF irq[h].c = "^U" THEN "edit" ELSE "store",
                                ![h].echo = 0]
          /\ UNCHANGED <<lock, cpu>>
       \/ /\ irq[h].echo = 1 /\ irq[h].c = "^H"
          /\ irq' = [irq EXCEPT ![h].pc = "rx", ![h].echo = 0]
          /\ lock' = [lock EXCEPT !["cons"] = 0]
          /\ PopOff(h)
    /\ UNCHANGED <<cons, tx_busy, pr, service>>

\* A line, an end of file or a full buffer.
WholeLine(c, e1) == c \in {"nl", "^D"} \/ Minus(e1, r) = INPUT_BUF_SIZE

\* Store the character; a whole line is handed over to the readers.
Store(h) ==
    LET c == irq[h].c
        e1 == (e + 1) % UINT
    IN
    /\ Handles(h, "store")
    /\ buf' = [buf EXCEPT ![Slot(e)] = c]
    /\ e' = e1
    /\ IF WholeLine(c, e1) THEN w' = e1 /\ Wakeup("rsleep", "rwoken") ELSE UNCHANGED <<w, pr>>
    /\ lock' = [lock EXCEPT !["cons"] = 0]
    /\ PopOff(h)
    /\ HTo(h, "rx")
    /\ UNCHANGED <<r, tx_busy, uart, service>>

----------------------------------------------------------------------------
(* The UART, and the system                                                *)

Key ==
    /\ rx < RXMAX
    /\ rx' = rx + 1
    /\ UNCHANGED <<cons, tx_busy, lock, cpu, pr, irq, fifo, thre, service>>

Send ==
    /\ fifo > 0
    /\ fifo' = fifo - 1
    /\ thre' = (fifo = 1)
    /\ UNCHANGED <<cons, tx_busy, lock, cpu, pr, irq, rx, service>>

\* An empty input buffer.
ConsoleInit == buf = [i \in 0 .. INPUT_BUF_SIZE - 1 |-> "x"] /\ r = 0 /\ w = 0 /\ e = 0

\* The UART is idle and no lock is held.
Init ==
    /\ ConsoleInit
    /\ tx_busy = FALSE
    /\ lock = [lk \in {"cons", "tx", "pr"} |-> 0]
    /\ intr = [h \in Hart |-> TRUE] /\ noff = [h \in Hart |-> 0]
    /\ intena = [h \in Hart |-> FALSE]
    /\ pr = [h \in Hart |-> InUser] /\ irq = [h \in Hart |-> NoIrq]
    /\ rx = 0 /\ fifo = 0 /\ thre = FALSE /\ service = 0

Process(h) ==
    \/ \E n \in 1 .. MaxRead : Call(h, "racq", n)
    \/ \E n \in 1 .. MaxWrite : Call(h, "wacq", n)
    \/ Call(h, "pacq", 1)
    \/ Resume(h, "rwoken", "racq") \/ Resume(h, "wwoken", "wacq")
    \/ Take(h, "racq", "cons", "read") \/ Take(h, "wacq", "tx", "write")
    \/ Take(h, "pacq", "pr", "pwait")
    \/ ReadWait(h) \/ ReadChar(h) \/ ReadEnd(h)
    \/ WriteWait(h) \/ WriteChar(h) \/ WriteEnd(h)
    \/ PrintWait(h) \/ PrintPut(h)

Handler(h) ==
    \/ Trap(h) \/ Ack(h) \/ UartIntr(h) \/ IrqEnd(h)
    \/ \E c \in Keys : Uartgetc(h, c)
    \/ Edit(h) \/ EchoWait(h) \/ EchoPut(h) \/ Store(h)

Next ==
    \/ \E h \in Hart : Process(h) \/ Handler(h) \/ Kill(h)
    \/ Key
    \/ Send

Spec == Init /\ [][Next]_vars

----------------------------------------------------------------------------
(* Properties                                                              *)

\* What readers may take: the characters from cons.r to cons.w.
Committed == [i \in 1 .. Minus(w, r) |-> buf[Slot(r + i - 1)]]

\* A reader only sleeps while there is nothing to read, though lines come in by interrupts
\* on other harts, other readers take them, and a ^D is put back with cons.r--; and a full
\* buffer is there to be read, because nothing more can be typed.
ReaderWakes ==
    /\ (\E h \in Hart : pr[h].pc = "rsleep") => r = w
    /\ Minus(e, r) = INPUT_BUF_SIZE => w = e

\* A writer only sleeps while an interrupt is still to come that will clear tx_busy, though
\* echoes and printf() use the transmitter without tx_lock and clear its interrupt.
WriterWakes ==
    /\ (\E h \in Hart : pr[h].pc = "wsleep") => tx_busy
    /\ tx_busy => \/ fifo > 0 \/ thre
                  \/ \E h \in Hart : irq[h].pc \in {"ack", "tx"}

\* No wakeup is lost between the processes and the interrupt handler.
NoLostWakeup == ReaderWakes /\ WriterWakes

\* No hart waits for a lock that it holds itself, in the process and the interrupt handler
\* on top of it: push_off() keeps the handler away.
NoSelfDeadlock ==
    \A h \in Hart :
        /\ irq[h].pc = "tx" => lock["tx"] # h
        /\ irq[h].pc = "rx" => lock["cons"] # h
        /\ \A lk \in DOMAIN lock : lock[lk] = h => ~intr[h]

\* Bytes for the UART never exceed what it holds, though uartwrite() does not look whether
\* the transmitter is idle and uartputc_sync() looks without a lock.
OutputFits == fifo <= FIFO

\* Characters that have been handed over to readers stay as they are until they are read,
\* in order: typing, erasing and a full buffer only add behind them.
CommittedKept ==
    [][\/ Committed' = Committed
       \/ Committed # <<>> /\ Committed' = Tail(Committed)
       \/ /\ Len(Committed') > Len(Committed)
          /\ SubSeq(Committed', 1, Len(Committed)) = Committed]_vars
=============================================================================
