------------------------------- MODULE Files -------------------------------
(***************************************************************************)
(* Open files and pipes of the xv6 kernel (kernel/file.c, kernel/pipe.c    *)
(* and the descriptor calls of kernel/sysfile.c).  Processes share the     *)
(* file table through fork() and dup(); a pipe is a page with a ring of    *)
(* PIPESIZE bytes and two counters of UINT values.                         *)
(*                                                                         *)
(* A step is what one thread does under ftable.lock, or one turn of a loop *)
(* under pi->lock.  The killed test and the sleep() that follows it are    *)
(* two steps, since kkill() can come between.                              *)
(***************************************************************************)
EXTENDS Integers, Sequences, FiniteSets

CONSTANTS
    Proc,           \* slots of proc[]
    initproc,       \* the process that never exits
    NFILE,          \* files per system
    NOFILE,         \* descriptors per process
    Pages,          \* pages kalloc() may return for a pipe
    PIPESIZE,
    UINT,           \* number of values of a uint
    Bytes,          \* values of a byte
    JUNK,           \* the byte kalloc() and kfree() fill pages with
    Counts          \* byte counts given to read() and write()

ASSUME FilesAssumption ==
    /\ IsFiniteSet(Proc) /\ initproc \in Proc /\ 0 \notin Proc
    /\ NFILE \in Nat \ {0} /\ NOFILE \in Nat \ {0}
    /\ PIPESIZE \in Nat \ {0} /\ UINT \in Nat /\ PIPESIZE < UINT
    /\ UINT % PIPESIZE = 0
    /\ JUNK \in Bytes
    /\ Counts \subseteq Nat

File == 1 .. NFILE
FD   == 1 .. NOFILE
None == <<>>

VARIABLES
    ofile,          \* p->ofile, 0 where no file is open
    ref,            \* f->ref
    end,            \* f->pipe and f->writable, None while f->type is not FD_PIPE
    pipe,           \* the pipe in a page
    plock,          \* holder of pi->lock, 0 if it is free
    pc,             \* what the process is doing
    file,           \* file of the read() or write() in progress, or 0
    left,           \* n - i of that call
    begun,          \* i > 0 in that call
    closing,        \* files the process has still to give to fileclose(), in order
    ff,             \* fileclose()'s copy of a file it has freed, None if that was no pipe
    killed,
    quiet           \* history: bytes were written to the pipe and no reader told

ftable == <<ref, end>>
call   == <<file, left, begun>>
closes == <<closing, ff>>
vars   == <<ofile, ftable, pipe, plock, pc, call, closes, killed, quiet>>

Reading == {"racq", "rloop", "rgo", "rsleep"}
Writing == {"wacq", "wloop", "wgo", "wsleep"}

\* A file that is an end of a pipe: its page, and whether it is the end to write to.
End == Pages \X BOOLEAN

TypeOK ==
    /\ ofile \in [Proc -> [FD -> 0 .. NFILE]]
    /\ ref \in [File -> Nat]
    /\ end \in [File -> End \cup {None}]
    /\ pipe \in [Pages -> [nread : 0 .. UINT - 1, nwrite : 0 .. UINT - 1,
                           data : [0 .. PIPESIZE - 1 -> Bytes],
                           readopen : BOOLEAN, writeopen : BOOLEAN]]
    /\ plock \in [Pages -> Proc \cup {0}]
    /\ pc \in [Proc -> {"none", "user", "exit", "pipe", "close"} \cup Reading \cup Writing]
    /\ file \in [Proc -> 0 .. NFILE]
    /\ left \in [Proc -> Nat]
    /\ begun \in [Proc -> BOOLEAN]
    /\ closing \in [Proc -> Seq(File)]
    /\ ff \in [Proc -> End \cup {None}]
    /\ killed \in [Proc -> BOOLEAN]
    /\ quiet \in [Pages -> BOOLEAN]

\* The pipe a process reads or writes.
Pipe(p) == end[file[p]][1]

\* The first free slot of the file table, and of p's descriptors.
FirstFree(f) == ref[f] = 0 /\ \A g \in File : ref[g] = 0 => f <= g
FirstFd(p, fd) == ofile[p][fd] = 0 /\ \A e \in FD : ofile[p][e] = 0 => fd <= e
FreeFds(p) == {fd \in FD : ofile[p][fd] = 0}

\* A page holds a pipe until both ends are closed.
Used(i) == pipe[i].readopen \/ pipe[i].writeopen

\* A pipe with the given ends in a page that kalloc() or kfree() has filled.
NewPage(r, w) ==
    [nread |-> 0, nwrite |-> 0, readopen |-> r, writeopen |-> w,
     data |-> [k \in 0 .. PIPESIZE - 1 |-> JUNK]]

Inc(x) == (x + 1) % UINT

Empty(i) == pipe[i].nread = pipe[i].nwrite

\* Mutant of Full: one byte too late.
FullLate(i) == pipe[i].nwrite = (pipe[i].nread + PIPESIZE + 1) % UINT

Full(i) == pipe[i].nwrite = (pipe[i].nread + PIPESIZE) % UINT

\* pc with process p at s and the processes that sleep on the channel made runnable.
Woken(p, s, i, asleep, awake) ==
    [q \in Proc |-> CASE q = p -> s
                      [] q # p /\ pc[q] = asleep /\ Pipe(q) = i -> awake
                      [] OTHER -> pc[q]]

\* wakeup(&pi->nread) and wakeup(&pi->nwrite), process p going on at s.
WakeReaders(p, s, i) ==
    pc' = Woken(p, s, i, "rsleep", "racq") /\ quiet' = [quiet EXCEPT ![i] = FALSE]

WakeWriters(p, s, i) == pc' = Woken(p, s, i, "wsleep", "wacq") /\ UNCHANGED quiet

Goto(p, s) == pc' = [pc EXCEPT ![p] = s]

Release(i) == plock' = [plock EXCEPT ![i] = 0]

Return(p) ==
    /\ file' = [file EXCEPT ![p] = 0]
    /\ left' = [left EXCEPT ![p] = 0]
    /\ begun' = [begun EXCEPT ![p] = FALSE]

----------------------------------------------------------------------------
(* Descriptors                                                             *)

\* usertrap() lets a killed process start no system call.
InUser(p) == pc[p] = "user" /\ ~killed[p]

\* argfd(): the descriptor is open.
Argfd(p, fd) == ofile[p][fd] # 0

\* filedup().
Filedup(f) == ref' = [ref EXCEPT ![f] = @ + 1]

Dup(p, fd) ==
    /\ InUser(p)
    /\ Argfd(p, fd)
    /\ \E e \in FD : FirstFd(p, e) /\ ofile' = [ofile EXCEPT ![p][e] = ofile[p][fd]]
    /\ Filedup(ofile[p][fd])
    /\ UNCHANGED <<end, pipe, plock, pc, call, closes, killed, quiet>>

Close(p, fd) ==
    /\ InUser(p)
    /\ Argfd(p, fd)
    /\ closing' = [closing EXCEPT ![p] = <<ofile[p][fd]>>]
    /\ ofile' = [ofile EXCEPT ![p][fd] = 0]
    /\ Goto(p, "close")
    /\ UNCHANGED <<ftable, pipe, plock, call, ff, killed, quiet>>

\* kfork(): the child shares every open file.
Fork(p, q) ==
    /\ InUser(p)
    /\ pc[q] = "none"
    /\ ofile' = [ofile EXCEPT ![q] = ofile[p]]
    /\ ref' = [f \in File |-> ref[f] + Cardinality({fd \in FD : ofile[p][fd] = f})]
    /\ Goto(q, "user")
    /\ UNCHANGED <<end, pipe, plock, call, closes, killed, quiet>>

\* kexit(): a killed process comes here at its next trap, and the mark is not looked
\* at again before freeproc() clears it.
Exit(p) ==
    /\ p # initproc
    /\ pc[p] = "user"
    /\ Goto(p, "exit")
    /\ killed' = [killed EXCEPT ![p] = FALSE]
    /\ UNCHANGED <<ofile, ftable, pipe, plock, call, closes, quiet>>

\* The loop of kexit() over the descriptors.
ExitClose(p, fd) ==
    /\ pc[p] = "exit" /\ closing[p] = <<>> /\ ff[p] = None
    /\ Argfd(p, fd) /\ \A e \in FD : Argfd(p, e) => fd <= e
    /\ closing' = [closing EXCEPT ![p] = <<ofile[p][fd]>>]
    /\ ofile' = [ofile EXCEPT ![p][fd] = 0]
    /\ UNCHANGED <<ftable, pipe, plock, pc, call, ff, killed, quiet>>

\* It is over; kwait() will free the slot.
ExitDone(p) ==
    /\ pc[p] = "exit" /\ closing[p] = <<>> /\ ff[p] = None
    /\ FreeFds(p) = FD
    /\ Goto(p, "none")
    /\ UNCHANGED <<ofile, ftable, pipe, plock, call, closes, killed, quiet>>

\* kkill(): a sleeping process is made runnable.
Kill(p) ==
    /\ p # initproc
    /\ pc[p] \notin {"none", "exit"} /\ ~killed[p]
    /\ killed' = [killed EXCEPT ![p] = TRUE]
    /\ Goto(p, CASE pc[p] = "rsleep" -> "racq" [] pc[p] = "wsleep" -> "wacq" [] OTHER -> pc[p])
    /\ UNCHANGED <<ofile, ftable, pipe, plock, call, closes, quiet>>

----------------------------------------------------------------------------
(* fileclose() and pipeclose()                                             *)

\* Where a process goes when it has files rest, and perhaps an end, to close.
AfterClose(p, rest, e) ==
    IF pc[p] = "close" /\ rest = <<>> /\ e = None THEN "user" ELSE pc[p]

\* Under ftable.lock: drop one reference; the last one leaves a copy of the
\* file to finish with.
FileClose(p) ==
    LET f == Head(closing[p])
        copy == IF ref[f] = 1 THEN end[f] ELSE None
    IN
    /\ pc[p] \in {"close", "exit"}
    /\ closing[p] # <<>> /\ ff[p] = None
    /\ ref' = [ref EXCEPT ![f] = @ - 1]
    /\ end' = IF ref[f] = 1 THEN [end EXCEPT ![f] = None] ELSE end
    /\ ff' = [ff EXCEPT ![p] = copy]
    /\ closing' = [closing EXCEPT ![p] = Tail(@)]
    /\ Goto(p, AfterClose(p, Tail(closing[p]), copy))
    /\ UNCHANGED <<ofile, pipe, plock, call, killed, quiet>>

\* One end closed; the page goes to kfree() with the second.
Closed(i, w) ==
    IF IF w THEN pipe[i].readopen ELSE pipe[i].writeopen
    THEN [pipe[i] EXCEPT !.readopen = @ /\ w, !.writeopen = @ /\ ~w]
    ELSE NewPage(FALSE, FALSE)

\* Mutant of PipeClose: it frees the page at the first close.
PipeCloseFrees(p) ==
    LET i == ff[p][1] IN
    /\ pc[p] \in {"close", "exit"}
    /\ ff[p] # None
    /\ plock[i] = 0
    /\ WakeReaders(p, AfterClose(p, closing[p], None), i)
    /\ pipe' = [pipe EXCEPT ![i] = NewPage(FALSE, FALSE)]
    /\ ff' = [ff EXCEPT ![p] = None]
    /\ UNCHANGED <<ofile, ftable, plock, call, closing, killed>>

\* Under pi->lock: close one end and wake the other; kfree() after both.
PipeClose(p) ==
    LET i == ff[p][1]
        w == ff[p][2]
        s == AfterClose(p, closing[p], None)
    IN
    /\ pc[p] \in {"close", "exit"}
    /\ ff[p] # None
    /\ plock[i] = 0
    /\ IF w THEN WakeReaders(p, s, i) ELSE WakeWriters(p, s, i)
    /\ pipe' = [pipe EXCEPT ![i] = Closed(i, w)]
    /\ ff' = [ff EXCEPT ![p] = None]
    /\ UNCHANGED <<ofile, ftable, plock, call, closing, killed>>

----------------------------------------------------------------------------
(* sys_pipe()                                                              *)

\* pipealloc(): the first file.
PipeFile0(p, f) ==
    /\ InUser(p)
    /\ FirstFree(f)
    /\ ref' = [ref EXCEPT ![f] = 1]
    /\ closing' = [closing EXCEPT ![p] = <<f>>]
    /\ Goto(p, "pipe")
    /\ UNCHANGED <<ofile, end, pipe, plock, call, ff, killed, quiet>>

\* No second file: close the first one.
PipeNoFile(p) ==
    /\ pc[p] = "pipe"
    /\ \A f \in File : ref[f] # 0
    /\ Goto(p, "close")
    /\ UNCHANGED <<ofile, ftable, pipe, plock, call, closes, killed, quiet>>

\* The second file, but no page.
PipeNoPage(p, f) ==
    /\ pc[p] = "pipe"
    /\ FirstFree(f)
    /\ ref' = [ref EXCEPT ![f] = 1]
    /\ closing' = [closing EXCEPT ![p] = Append(@, f)]
    /\ Goto(p, "close")
    /\ UNCHANGED <<ofile, end, pipe, plock, call, ff, killed, quiet>>

\* The second file f and the page i: the two files become the ends of a new pipe.
NewPipe(p, f, i) ==
    LET rf == Head(closing[p]) IN
    /\ pc[p] = "pipe"
    /\ FirstFree(f)
    /\ ~Used(i)
    /\ ref' = [ref EXCEPT ![f] = 1]
    /\ end' = [end EXCEPT ![rf] = <<i, FALSE>>, ![f] = <<i, TRUE>>]
    /\ pipe' = [pipe EXCEPT ![i] = NewPage(TRUE, TRUE)]
    /\ quiet' = [quiet EXCEPT ![i] = FALSE]
    /\ UNCHANGED <<plock, call, ff, killed>>

\* Both descriptors are allocated and copied out.
PipeOpened(p, f, i) ==
    LET rf == Head(closing[p]) IN
    /\ NewPipe(p, f, i)
    /\ \E fd0, fd1 \in FD :
        /\ FirstFd(p, fd0)
        /\ fd1 # fd0 /\ ofile[p][fd1] = 0
        /\ \A e \in FreeFds(p) \ {fd0} : fd1 <= e
        /\ ofile' = [ofile EXCEPT ![p][fd0] = rf, ![p][fd1] = f]
    /\ closing' = [closing EXCEPT ![p] = <<>>]
    /\ Goto(p, "user")

\* Mutant of PipeUndone: only the read end is closed again.
PipeUndoneHalf(p, f, i) ==
    /\ NewPipe(p, f, i)
    /\ UNCHANGED <<ofile, closing>>
    /\ Goto(p, "close")

\* No two free descriptors, or copyout() fails: the descriptors that were set
\* are cleared and both files closed.
PipeUndone(p, f, i) ==
    /\ NewPipe(p, f, i)
    /\ closing' = [closing EXCEPT ![p] = Append(@, f)]
    /\ Goto(p, "close")
    /\ UNCHANGED ofile

----------------------------------------------------------------------------
(* pipewrite()                                                             *)

\* filewrite() and fileread() of a pipe; the wrong end is refused.
Write(p, fd, n) ==
    /\ InUser(p)
    /\ Argfd(p, fd) /\ end[ofile[p][fd]][2]
    /\ file' = [file EXCEPT ![p] = ofile[p][fd]]
    /\ left' = [left EXCEPT ![p] = n]
    /\ Goto(p, "wacq")
    /\ UNCHANGED <<ofile, ftable, pipe, plock, begun, closes, killed, quiet>>

\* acquire(&pi->lock), at the start or when sleep() returns.
Acquire(p) ==
    /\ pc[p] \in {"wacq", "racq"}
    /\ plock[Pipe(p)] = 0
    /\ plock' = [plock EXCEPT ![Pipe(p)] = p]
    /\ Goto(p, IF pc[p] = "wacq" THEN "wloop" ELSE "rloop")
    /\ UNCHANGED <<ofile, ftable, pipe, call, closes, killed, quiet>>

Broken(p) == ~pipe[Pipe(p)].readopen \/ killed[p]

\* return -1, without a wakeup() for the bytes written so far.
WAbort(p) ==
    /\ pc[p] = "wloop"
    /\ left[p] > 0 /\ Broken(p)
    /\ quiet' = [quiet EXCEPT ![Pipe(p)] = @ \/ begun[p]]
    /\ Release(Pipe(p)) /\ Return(p) /\ Goto(p, "user")
    /\ UNCHANGED <<ofile, ftable, pipe, closes, killed>>

WPut(p, b) ==
    LET i == Pipe(p) IN
    /\ pc[p] = "wloop"
    /\ left[p] > 0 /\ ~Broken(p) /\ ~Full(i)
    /\ pipe' = [pipe EXCEPT ![i].data[pipe[i].nwrite % PIPESIZE] = b,
                            ![i].nwrite = Inc(@)]
    /\ left' = [left EXCEPT ![p] = @ - 1]
    /\ begun' = [begun EXCEPT ![p] = TRUE]
    /\ UNCHANGED <<ofile, ftable, plock, pc, file, closes, killed, quiet>>

\* The pipe is full and the process not killed: it is going to sleep ...
WFull(p) ==
    /\ pc[p] = "wloop"
    /\ left[p] > 0 /\ ~Broken(p) /\ Full(Pipe(p))
    /\ WakeReaders(p, "wgo", Pipe(p))
    /\ UNCHANGED <<ofile, ftable, pipe, plock, call, closes, killed>>

\* Mutant of WEnd: no wakeup().
WEndSilent(p) ==
    /\ pc[p] = "wloop"
    /\ left[p] > 0 => ~Broken(p) /\ ~Full(Pipe(p))
    /\ Goto(p, "user")
    /\ Release(Pipe(p)) /\ Return(p)
    /\ UNCHANGED <<ofile, ftable, pipe, closes, killed, quiet>>

\* All bytes are written, or copyin() fails.
WEnd(p) ==
    /\ pc[p] = "wloop"
    /\ left[p] > 0 => ~Broken(p) /\ ~Full(Pipe(p))
    /\ WakeReaders(p, "user", Pipe(p))
    /\ Release(Pipe(p)) /\ Return(p)
    /\ UNCHANGED <<ofile, ftable, pipe, closes, killed>>

\* ... and sleeps, whether or not it has been killed in the meantime.
Sleep(p) ==
    /\ pc[p] \in {"wgo", "rgo"}
    /\ Release(Pipe(p))
    /\ Goto(p, IF pc[p] = "wgo" THEN "wsleep" ELSE "rsleep")
    /\ UNCHANGED <<ofile, ftable, pipe, call, closes, killed, quiet>>

----------------------------------------------------------------------------
(* piperead()                                                              *)

Read(p, fd, n) ==
    /\ InUser(p)
    /\ Argfd(p, fd) /\ ~end[ofile[p][fd]][2]
    /\ file' = [file EXCEPT ![p] = ofile[p][fd]]
    /\ left' = [left EXCEPT ![p] = n]
    /\ Goto(p, "racq")
    /\ UNCHANGED <<ofile, ftable, pipe, plock, begun, closes, killed, quiet>>

\* The while loop, which is over once the first byte is copied.
MustWait(p) == ~begun[p] /\ Empty(Pipe(p)) /\ pipe[Pipe(p)].writeopen

RAbort(p) ==
    /\ pc[p] = "rloop"
    /\ MustWait(p) /\ killed[p]
    /\ Release(Pipe(p)) /\ Return(p) /\ Goto(p, "user")
    /\ UNCHANGED <<ofile, ftable, pipe, closes, killed, quiet>>

REmpty(p) ==
    /\ pc[p] = "rloop"
    /\ MustWait(p) /\ ~killed[p]
    /\ Goto(p, "rgo")
    /\ UNCHANGED <<ofile, ftable, pipe, plock, call, closes, killed, quiet>>

RGet(p) ==
    LET i == Pipe(p) IN
    /\ pc[p] = "rloop"
    /\ left[p] > 0 /\ ~Empty(i)
    /\ pipe' = [pipe EXCEPT ![i].nread = Inc(@)]
    /\ left' = [left EXCEPT ![p] = @ - 1]
    /\ begun' = [begun EXCEPT ![p] = TRUE]
    /\ UNCHANGED <<ofile, ftable, plock, pc, file, closes, killed, quiet>>

\* Nothing left to read or to ask for, or copyout() fails.
REnd(p) ==
    /\ pc[p] = "rloop"
    /\ ~MustWait(p)
    /\ WakeWriters(p, "user", Pipe(p))
    /\ Release(Pipe(p)) /\ Return(p)
    /\ UNCHANGED <<ofile, ftable, pipe, closes, killed>>

----------------------------------------------------------------------------
(* The specification                                                       *)

\* The first process runs and nothing is open.
Init ==
    /\ ofile = [p \in Proc |-> [fd \in FD |-> 0]]
    /\ ref = [f \in File |-> 0]
    /\ end = [f \in File |-> None]
    /\ pipe = [i \in Pages |-> NewPage(FALSE, FALSE)]
    /\ plock = [i \in Pages |-> 0]
    /\ pc = [p \in Proc |-> IF p = initproc THEN "user" ELSE "none"]
    /\ file = [p \in Proc |-> 0]
    /\ left = [p \in Proc |-> 0]
    /\ begun = [p \in Proc |-> FALSE]
    /\ closing = [p \in Proc |-> <<>>]
    /\ ff = [p \in Proc |-> None]
    /\ killed = [p \in Proc |-> FALSE]
    /\ quiet = [i \in Pages |-> FALSE]

Kernel(p) ==
    \/ FileClose(p) \/ PipeClose(p)
    \/ ExitDone(p) \/ \E fd \in FD : ExitClose(p, fd)
    \/ PipeNoFile(p)
    \/ \E f \in File, i \in Pages : PipeOpened(p, f, i) \/ PipeUndone(p, f, i)
    \/ \E f \in File : PipeNoPage(p, f)
    \/ WAbort(p) \/ WFull(p) \/ WEnd(p) \/ \E b \in Bytes : WPut(p, b)
    \/ RAbort(p) \/ REmpty(p) \/ RGet(p) \/ REnd(p)
    \/ Sleep(p) \/ Acquire(p)

User(p) ==
    \/ Exit(p)
    \/ \E q \in Proc : Fork(p, q)
    \/ \E f \in File : PipeFile0(p, f)
    \/ \E fd \in FD :
        \/ Dup(p, fd) \/ Close(p, fd)
        \/ \E n \in Counts : Read(p, fd, n) \/ Write(p, fd, n)

Next == \E p \in Proc : Kernel(p) \/ User(p) \/ Kill(p)

Spec == Init /\ [][Next]_vars

----------------------------------------------------------------------------
(* Properties                                                              *)

\* The files p has still to close.
Closing(p) == {closing[p][k] : k \in DOMAIN closing[p]}

\* f->ref counts the descriptors of all processes and the references that are
\* about to be closed, however pipe(), dup(), fork(), close() and exit() of
\* several processes interleave and wherever pipe() fails.
RefCounts ==
    \A f \in File :
        ref[f] = Cardinality({x \in Proc \X FD : ofile[x[1]][x[2]] = f})
                 + Cardinality({p \in Proc : f \in Closing(p)})

\* An end of a pipe is open exactly while one file, or one pipeclose() that has
\* not yet run, refers to it: no page is freed under a reader or a writer, none
\* is leaked or freed twice.
OneOwner ==
    \A i \in Pages, w \in BOOLEAN :
        LET open == IF w THEN pipe[i].writeopen ELSE pipe[i].readopen
            files == {f \in File : ref[f] > 0 /\ end[f] = <<i, w>>}
            closers == {p \in Proc : ff[p] = <<i, w>>}
        IN Cardinality(files) + Cardinality(closers) = IF open THEN 1 ELSE 0

\* No lost wakeup: once the lock is free, nobody sleeps on a pipe that it could
\* go on with.  The code has one exception: a writer that is killed in the
\* middle of its write returns without waking the readers.
NoSleepBesideData ==
    \A p \in Proc :
        /\ pc[p] = "rsleep" /\ plock[Pipe(p)] = 0 =>
            pipe[Pipe(p)].writeopen /\ (Empty(Pipe(p)) \/ quiet[Pipe(p)])
        /\ pc[p] = "wsleep" /\ plock[Pipe(p)] = 0 =>
            pipe[Pipe(p)].readopen /\ Full(Pipe(p))

\* The bytes between the counters, oldest first.
Contents(i) ==
    IF ~Used(i) THEN <<>>
    ELSE [k \in 1 .. (pipe[i].nwrite - pipe[i].nread) % UINT |->
            pipe[i].data[(pipe[i].nread + k - 1) % PIPESIZE]]

Abstract == INSTANCE BytePipe WITH
    queue <- [i \in Pages |-> Contents(i)],
    readopen <- [i \in Pages |-> pipe[i].readopen],
    writeopen <- [i \in Pages |-> pipe[i].writeopen]

\* Rings and wrapping counters implement queues of at most PIPESIZE bytes.
BytePipeSpec == Abstract!Spec
=============================================================================
