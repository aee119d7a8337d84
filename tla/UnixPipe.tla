------------------------------ MODULE UnixPipe ------------------------------
(***************************************************************************)
(* A Unix pipe (kernel/vfs/unixpipe.c) on its ring buffer                   *)
(* (kernel/misc/ringbuffer.c): blocking reads and writes, select, and the   *)
(* closing of either end.                                                   *)
(*                                                                          *)
(* Kernel code is not preempted, so at most Cores processes are inside it   *)
(* at a time; each action is a step of one of them up to its next access to *)
(* shared state.  What the ring's spin lock covers is one step only where   *)
(* nothing outside the lock looks at it.                                    *)
(***************************************************************************)
EXTENDS Ring, Sequences, FiniteSets, Functions, SequencesExt

CONSTANTS
    Reader,     \* processes that hold the read end
    Writer,     \* processes that hold the write end
    Byte,       \* byte values
    ReadSizes,  \* sizes given to read()
    Messages,   \* byte sequences given to write()
    Cores,      \* number of processors
    Signalled,  \* processes that may be sent a signal while asleep
    None

Proc == Reader \cup Writer

ASSUME PipeAssumption ==
    /\ Reader \cap Writer = {}
    /\ ReadSizes \subseteq Nat
    /\ Byte # {}
    /\ Messages \subseteq Seq(Byte)
    /\ Cores \in Nat \ {0}
    /\ Signalled \subseteq Proc
    /\ None \notin Proc

VARIABLES
    rp, wp, buf,       \* ring_buffer->read_ptr, write_ptr, buffer
    lock,              \* holder of ring_buffer->lock, or None
    readers, writers,  \* wait_queue_readers, wait_queue_writers
    alerts,            \* alert_waiters: processes in fswait on the pipe
    stop,              \* internal_stop
    rclosed, wclosed,  \* read_closed, write_closed
    refs,              \* processes whose descriptor is still open
    intr,              \* PROC_FLAG_SLEEP_INT
    pc,
    size,              \* the reader's size argument
    data,              \* a reader's bytes so far; a writer's bytes left
    ret                \* the outcome of the last call, "none" during a call

vars == <<rp, wp, buf, lock, readers, writers, alerts, stop, rclosed, wclosed,
          refs, intr, pc, size, data, ret>>

ring == <<rp, wp, buf>>
queues == <<readers, writers, alerts>>
ends == <<rclosed, wclosed, refs>>
call == <<size, data, ret>>

ReadPcs == {"rlock", "rwake", "rjoin", "rdrop", "rsleep", "rstop", "rend"}
WritePcs == {"wlock", "wwake", "wjoin", "wdrop", "wsleep", "wstop", "wend"}
PollPcs == {"pjoin", "psleep"}
ClosePcs == {"cstop", "creaders", "cwriters", "calert"}
AsleepPcs == {"rsleep", "wsleep", "psleep"}
PcVals == ReadPcs \cup WritePcs \cup PollPcs \cup ClosePcs \cup {"user", "gone"}

InKernel(p) == pc[p] \notin AsleepPcs \cup {"user", "gone"}

\* A process can enter the kernel, or be resumed in it, when a core is free.
CoreFree == Cardinality({p \in Proc : InKernel(p)}) < Cores

Init ==
    /\ rp = 0 /\ wp = 0
    /\ buf = [i \in Slot |-> CHOOSE b \in Byte : TRUE]
    /\ lock = None
    /\ readers = <<>> /\ writers = <<>> /\ alerts = {}
    /\ stop = FALSE
    /\ rclosed = FALSE /\ wclosed = FALSE
    /\ refs = Proc
    /\ intr = {}
    /\ pc = [p \in Proc |-> "user"]
    /\ size = [p \in Reader |-> 0]
    /\ data = [p \in Proc |-> <<>>]
    /\ ret = [p \in Proc |-> "none"]

Goto(p, where) == pc' = [pc EXCEPT ![p] = where]
Return(p, result) == Goto(p, "user") /\ ret' = [ret EXCEPT ![p] = result]

unread == Unread(rp, wp)
available == Available(rp, wp)

----------------------------------------------------------------------------
(* read_unixpipe and ring_buffer_read *)

\* The test for end of file is made once, without the lock.
Read(p, n) ==
    /\ pc[p] = "user" /\ p \in refs /\ CoreFree
    /\ IF wclosed /\ unread = 0
       THEN Return(p, "eof") /\ UNCHANGED <<size, data>>
       ELSE /\ Goto(p, "rlock")
            /\ size' = [size EXCEPT ![p] = n]
            /\ ret' = [ret EXCEPT ![p] = "none"]
            /\ UNCHANGED data
    /\ UNCHANGED <<ring, lock, queues, stop, ends, intr>>

\* Lock, and copy out what there is.  A read of 0 bytes collects nothing from
\* any ring, and goes on like one that found it empty.
CopyOut(p) ==
    LET k == Least(unread, size[p]) IN
    /\ pc[p] = "rlock" /\ lock = None
    /\ lock' = p
    /\ data' = [data EXCEPT ![p] = [i \in 1..k |-> buf[Advance(rp, i - 1)]]]
    /\ rp' = Advance(rp, k)
    /\ Goto(p, "rwake")
    /\ UNCHANGED <<wp, buf, queues, stop, ends, intr, size, ret>>

\* Mutant: a read that got data returns without waking the writers.
MutReturnWithoutWake(p) ==
    /\ pc[p] = "rwake"
    /\ IF data[p] = <<>>
       THEN Goto(p, "rjoin") /\ UNCHANGED <<lock, call>>
       ELSE /\ Return(p, "data") /\ lock' = None
            /\ data' = [data EXCEPT ![p] = <<>>]
            /\ UNCHANGED size
    /\ UNCHANGED <<ring, queues, stop, ends, intr>>

\* wakeup_queue(wait_queue_writers), then unlock if anything was read.
WakeWriters(p) ==
    /\ pc[p] = "rwake"
    /\ writers' = <<>>
    /\ IF data[p] = <<>>
       THEN Goto(p, "rjoin") /\ UNCHANGED lock
       ELSE Goto(p, "rend") /\ lock' = None
    /\ UNCHANGED <<ring, readers, alerts, stop, ends, intr, call>>

\* sleep_on_unlocking(wait_queue_readers): link first, ...
JoinReaders(p) ==
    /\ pc[p] = "rjoin"
    /\ intr' = intr \ {p}
    /\ readers' = Append(readers, p)
    /\ Goto(p, "rdrop")
    /\ UNCHANGED <<ring, lock, writers, alerts, stop, ends, call>>

\* ... then unlock and switch away.
DropRead(p) ==
    /\ pc[p] = "rdrop"
    /\ lock' = None
    /\ Goto(p, "rsleep")
    /\ UNCHANGED <<ring, queues, stop, ends, intr, call>>

\* Mutant: any interruption ends a read.
MutSignalEndsRead(p) ==
    /\ pc[p] = "rsleep" /\ p \notin Range(readers) /\ CoreFree
    /\ Goto(p, IF p \in intr THEN "rstop" ELSE "rlock")
    /\ UNCHANGED <<ring, lock, queues, stop, ends, intr, call>>

\* Off the queue: give up if interrupted and stopped, else try again.
ResumeRead(p) ==
    /\ pc[p] = "rsleep" /\ p \notin Range(readers) /\ CoreFree
    /\ Goto(p, IF p \in intr /\ stop THEN "rstop" ELSE "rlock")
    /\ UNCHANGED <<ring, lock, queues, stop, ends, intr, call>>

StopRead(p) ==
    /\ pc[p] = "rstop"
    /\ stop' = FALSE
    /\ Goto(p, "rend")
    /\ UNCHANGED <<ring, lock, queues, ends, intr, call>>

\* The last wakeup_queue(wait_queue_writers) and the return to the caller.
EndRead(p) ==
    /\ pc[p] = "rend"
    /\ writers' = <<>>
    /\ Return(p, IF data[p] = <<>> THEN "eof" ELSE "data")
    /\ data' = [data EXCEPT ![p] = <<>>]
    /\ size' = [size EXCEPT ![p] = 0]
    /\ UNCHANGED <<ring, lock, readers, alerts, stop, ends, intr>>

----------------------------------------------------------------------------
(* write_unixpipe and ring_buffer_write *)

\* SIGPIPE is taken to be handled or ignored; a writer it ends closes its end.
\* The loop is not entered for a write of nothing.
Write(p, msg) ==
    /\ pc[p] = "user" /\ p \in refs /\ CoreFree
    /\ IF rclosed
       THEN Return(p, "epipe") /\ UNCHANGED data
       ELSE /\ Goto(p, IF msg = <<>> THEN "wend" ELSE "wlock")
            /\ data' = [data EXCEPT ![p] = msg]
            /\ ret' = [ret EXCEPT ![p] = "none"]
    /\ UNCHANGED <<ring, lock, queues, stop, ends, intr, size>>

\* Lock, and copy in what fits.
CopyIn(p) ==
    LET k == Least(available, Len(data[p])) IN
    /\ pc[p] = "wlock" /\ lock = None
    /\ lock' = p
    /\ buf' = [i \in Slot |->
                 IF \E j \in 1..k : i = Advance(wp, j - 1)
                 THEN data[p][CHOOSE j \in 1..k : i = Advance(wp, j - 1)]
                 ELSE buf[i]]
    /\ wp' = Advance(wp, k)
    /\ data' = [data EXCEPT ![p] = SubSeq(@, k + 1, Len(@))]
    /\ Goto(p, "wwake")
    /\ UNCHANGED <<rp, queues, stop, ends, intr, size, ret>>

\* Mutant: a write wakes pollers but not readers.
MutWakeNoReaders(p) ==
    /\ pc[p] = "wwake"
    /\ alerts' = {}
    /\ IF data[p] # <<>>
       THEN Goto(p, "wjoin") /\ UNCHANGED lock
       ELSE Goto(p, "wend") /\ lock' = None
    /\ UNCHANGED <<ring, readers, writers, stop, ends, intr, call>>

\* wakeup_queue(wait_queue_readers) and ring_buffer_alert_waiters, then unlock
\* if everything was written.
WakeReaders(p) ==
    /\ pc[p] = "wwake"
    /\ readers' = <<>> /\ alerts' = {}
    /\ IF data[p] # <<>>
       THEN Goto(p, "wjoin") /\ UNCHANGED lock
       ELSE Goto(p, "wend") /\ lock' = None
    /\ UNCHANGED <<ring, writers, stop, ends, intr, call>>

\* sleep_on_unlocking(wait_queue_writers)
JoinWriters(p) ==
    /\ pc[p] = "wjoin"
    /\ intr' = intr \ {p}
    /\ writers' = Append(writers, p)
    /\ Goto(p, "wdrop")
    /\ UNCHANGED <<ring, lock, readers, alerts, stop, ends, call>>

DropWrite(p) ==
    /\ pc[p] = "wdrop"
    /\ lock' = None
    /\ Goto(p, "wsleep")
    /\ UNCHANGED <<ring, queues, stop, ends, intr, call>>

\* Mutant: any interruption ends a write.
MutSignalEndsWrite(p) ==
    /\ pc[p] = "wsleep" /\ p \notin Range(writers) /\ CoreFree
    /\ Goto(p, IF p \in intr THEN "wstop" ELSE "wlock")
    /\ UNCHANGED <<ring, lock, queues, stop, ends, intr, call>>

ResumeWrite(p) ==
    /\ pc[p] = "wsleep" /\ p \notin Range(writers) /\ CoreFree
    /\ Goto(p, IF p \in intr /\ stop THEN "wstop" ELSE "wlock")
    /\ UNCHANGED <<ring, lock, queues, stop, ends, intr, call>>

StopWrite(p) ==
    /\ pc[p] = "wstop"
    /\ stop' = FALSE
    /\ Goto(p, "wend")
    /\ UNCHANGED <<ring, lock, queues, ends, intr, call>>

EndWrite(p) ==
    /\ pc[p] = "wend"
    /\ readers' = <<>> /\ alerts' = {}
    /\ Return(p, IF data[p] = <<>> THEN "written" ELSE "short")
    /\ data' = [data EXCEPT ![p] = <<>>]
    /\ UNCHANGED <<ring, lock, writers, stop, ends, intr, size>>

----------------------------------------------------------------------------
(* fswait on the read end, without a timeout *)

\* process_wait_nodes asks check_pipe first, ...
Poll(p) ==
    /\ pc[p] = "user" /\ p \in refs /\ CoreFree
    /\ IF unread > 0 \/ wclosed
       THEN Return(p, "ready")
       ELSE Goto(p, "pjoin") /\ ret' = [ret EXCEPT ![p] = "none"]
    /\ UNCHANGED <<ring, lock, queues, stop, ends, intr, size, data>>

\* ... and then registers with ring_buffer_select_wait and switches away.
JoinAlerts(p) ==
    /\ pc[p] = "pjoin"
    /\ alerts' = alerts \cup {p}
    /\ Goto(p, "psleep")
    /\ UNCHANGED <<ring, lock, readers, writers, stop, ends, intr, call>>

ResumePoll(p) ==
    /\ pc[p] = "psleep" /\ p \notin alerts /\ CoreFree
    /\ Return(p, "ready")
    /\ UNCHANGED <<ring, lock, queues, stop, ends, intr, size, data>>

----------------------------------------------------------------------------
(* close_read_pipe, close_write_pipe and ring_buffer_interrupt *)

\* close_fs: only the last reference to an end runs the pipe's close handler,
\* which does nothing more if the other end is closed already.
Close(p) ==
    LET last == refs \cap (IF p \in Reader THEN Reader ELSE Writer) = {p} IN
    /\ pc[p] = "user" /\ p \in refs /\ CoreFree
    /\ refs' = refs \ {p}
    /\ rclosed' = (rclosed \/ (last /\ p \in Reader))
    /\ wclosed' = (wclosed \/ (last /\ p \in Writer))
    /\ Goto(p, IF last /\ ~(IF p \in Reader THEN wclosed ELSE rclosed)
               THEN "cstop" ELSE "gone")
    /\ UNCHANGED <<ring, lock, queues, stop, intr, call>>

RaiseStop(p) ==
    /\ pc[p] = "cstop"
    /\ stop' = TRUE
    /\ Goto(p, "creaders")
    /\ UNCHANGED <<ring, lock, queues, ends, intr, call>>

\* Mutant: closing wakes the readers without marking them interrupted.
MutWakeReadersQuietly(p) ==
    /\ pc[p] = "creaders"
    /\ readers' = <<>>
    /\ Goto(p, "cwriters")
    /\ UNCHANGED <<ring, lock, writers, alerts, stop, ends, intr, call>>

\* wakeup_queue_interrupted(wait_queue_readers)
InterruptReaders(p) ==
    /\ pc[p] = "creaders"
    /\ intr' = intr \cup Range(readers)
    /\ readers' = <<>>
    /\ Goto(p, "cwriters")
    /\ UNCHANGED <<ring, lock, writers, alerts, stop, ends, call>>

\* wakeup_queue_interrupted(wait_queue_writers)
InterruptWriters(p) ==
    /\ pc[p] = "cwriters"
    /\ intr' = intr \cup Range(writers)
    /\ writers' = <<>>
    /\ Goto(p, IF p \in Writer THEN "calert" ELSE "gone")
    /\ UNCHANGED <<ring, lock, readers, alerts, stop, ends, call>>

\* Mutant: closing the write end does not alert the pollers.
MutNoAlertOnClose(p) ==
    /\ pc[p] = "calert"
    /\ Goto(p, "gone")
    /\ UNCHANGED <<ring, lock, queues, stop, ends, intr, call>>

\* The write end's closing alerts the waiters of an empty pipe.
AlertOnClose(p) ==
    /\ pc[p] = "calert"
    /\ alerts' = IF unread = 0 THEN {} ELSE alerts
    /\ Goto(p, "gone")
    /\ UNCHANGED <<ring, lock, readers, writers, stop, ends, intr, call>>

----------------------------------------------------------------------------

\* list_delete of p from a wait queue, if it is in it.
Unlink(queue, p, rest) ==
    \/ p \notin Range(queue) /\ rest = queue
    \/ \E i \in DOMAIN queue : queue[i] = p /\ rest = RemoveAt(queue, i)

\* make_process_ready from send_signal takes a sleeper off its queue.
Signal(p) ==
    /\ p \in Signalled
    /\ p \in Range(readers) \cup Range(writers)
    /\ Unlink(readers, p, readers') /\ Unlink(writers, p, writers')
    /\ intr' = intr \cup {p}
    /\ UNCHANGED <<ring, lock, alerts, stop, ends, pc, call>>

Resume(p) == ResumeRead(p) \/ ResumeWrite(p) \/ ResumePoll(p)

Kernel(p) ==
    \/ CopyOut(p) \/ WakeWriters(p) \/ JoinReaders(p) \/ DropRead(p)
    \/ StopRead(p) \/ EndRead(p)
    \/ CopyIn(p) \/ WakeReaders(p) \/ JoinWriters(p) \/ DropWrite(p)
    \/ StopWrite(p) \/ EndWrite(p)
    \/ JoinAlerts(p)
    \/ RaiseStop(p) \/ InterruptReaders(p) \/ InterruptWriters(p) \/ AlertOnClose(p)

Call(p) ==
    \/ p \in Reader /\ (Poll(p) \/ \E n \in ReadSizes : Read(p, n))
    \/ p \in Writer /\ \E msg \in Messages : Write(p, msg)
    \/ Close(p)

Next == \E p \in Proc : Call(p) \/ Kernel(p) \/ Resume(p) \/ Signal(p)

Spec == Init /\ [][Next]_vars

\* Kernel code runs on, and the scheduler runs every ready process in the end.
FairSpec == Spec /\ \A p \in Proc : WF_vars(Kernel(p)) /\ SF_vars(Resume(p))

----------------------------------------------------------------------------
(* Properties *)

TypeOK ==
    /\ rp \in Slot /\ wp \in Slot
    /\ buf \in [Slot -> Byte]
    /\ lock \in Proc \cup {None}
    /\ readers \in Seq(Reader) /\ writers \in Seq(Writer)
    /\ alerts \subseteq Reader
    /\ stop \in BOOLEAN /\ rclosed \in BOOLEAN /\ wclosed \in BOOLEAN
    /\ refs \subseteq Proc /\ intr \subseteq Proc
    /\ pc \in [Proc -> PcVals]
    /\ size \in [Reader -> Nat]
    /\ data \in [Proc -> Seq(Byte)]
    /\ ret \in [Proc -> {"none", "eof", "data", "ready", "epipe", "written", "short"}]

\* A reader that asked for something never sleeps on data, nor a writer on room:
\* whoever makes some is still about to wake the sleepers (the ring lock covers
\* test and link).  A read of 0 bytes does sleep on data in the code.
NoLostWakeup ==
    /\ unread > 0 /\ (\E p \in Range(readers) : size[p] > 0)
          => \E p \in Writer : pc[p] = "wwake"
    /\ available > 0 /\ writers # <<>> => \E p \in Reader : pc[p] = "rwake"

\* read() returns 0 only once the write end is closed: a signal, or the other
\* reader's close, is never taken for the end of the file.
EofMeansClosed == \A p \in Reader : ret[p] = "eof" => wclosed

\* write() gives up early only once the read end is closed.
ShortMeansClosed == \A p \in Writer : ret[p] \in {"short", "epipe"} => rclosed

\* The bytes in the ring, oldest first.
Contents == [i \in 1..unread |-> buf[Advance(rp, i - 1)]]

F == INSTANCE ByteChannel WITH
        Capacity <- Size - 1,
        chan <- Contents,
        taken <- [p \in Reader |-> data[p]],
        left <- [p \in Writer |-> data[p]]

\* The ring buffer is a bounded FIFO: bytes come out once, in the order in
\* which they went in, whatever the wrapping of the pointers.
ImplementsChannel == F!Spec

\* With one reader and one processor: data ends a read of at least one byte, and
\* the close of the write end ends every read it finds on the queue.  A read that
\* a write of 0 bytes has just woken is not on it, and no close ends that one.
ReadReturns ==
    \A p \in Reader :
        /\ pc[p] \in ReadPcs /\ size[p] > 0 /\ unread > 0 ~> pc[p] = "user"
        /\ p \in Range(readers) /\ (\E q \in Writer : pc[q] = "cstop") ~> pc[p] = "user"

\* A writer asleep on a full pipe gets its turn when a reader makes room, however
\* many writers compete for it.
WriterWakes ==
    \A p \in Writer : pc[p] = "wsleep" /\ available > 0 ~> pc[p] # "wsleep"

\* signal_defs.h on SIGPIPE: "Attempted to read or write from a broken pipe".  A
\* write that is blocked when the read end closes comes back to its caller
\* instead of waiting for a reader that no longer exists.
WriteReturns ==
    \A p \in Writer : pc[p] \in WritePcs /\ rclosed ~> pc[p] = "user"

\* A process in fswait on the pipe is woken by data and by the end of the file.
PollReturns ==
    \A p \in Reader : pc[p] = "psleep" /\ (unread > 0 \/ wclosed) ~> pc[p] = "user"
=============================================================================
