# ToaruOS in TLA+

A verification project for ToaruOS: its Misaka kernel (`src/kernel/`) and its
window system. The modules model the parts in which processors, processes,
interrupts and messages meet: the scheduler, the sleeping mutex, Unix pipes on
their ring buffer, timed sleep and fswait, the process tree with its signals, the
TCP client, and the protocol between window clients and the compositor. TLC checks
the models on small instances; TLAPS proves every safety invariant and refinement that
the runs check, for every value of the constants.

`PROJECT.json` has, in machine-readable form, the components, the runs, the map
from definitions to source lines, the hazards the properties are for, and the
theorems.

    tlc -config MCScheduler.cfg MCScheduler        # a run
    tlapm SchedulerProofs.tla                      # a proof

## Inventory

ToaruOS is a kernel, a C library, a dynamic linker, a window compositor and many
applications. The kernel carries the shared state and the concurrency; in user
space only the window system keeps state that many processes share.

| component | state | operations | what is hard |
|---|---|---|---|
| scheduler (`sys/process.c`, `arch/x86_64/irq.S`) | ready queue, wait queues, `RUNNING`/`FINISHED`/`SLEEP_INT`, `owner`, saved contexts, each core's current and previous process | `switch_task`, `switch_next`, `next_ready_process`, `make_process_ready`, `sleep_on*`, `wakeup_queue*`, `fork`, `task_exit`, `waitpid`, `process_delete` | a process is queued before its core has left it; flags are changed outside the lock; a process is freed while other cores still name it |
| sleeping mutex (`sys/mutex.c`) | status, owner, waiters, inner spin lock | acquire, release | lost wakeups, barging, killed waiters |
| ring buffer (`misc/ringbuffer.c`) | two pointers, two wait queues, select waiters, `internal_stop` | read, write, select, interrupt | lost wakeups, one stop flag for all sleepers, wrap-around |
| Unix pipe (`vfs/unixpipe.c`) | ring buffer, closed flags, reference counts | read, write, close, select | close against a blocked or just woken peer |
| signals (`sys/signal.c`) | signal queues, saved kernel stacks | `send_signal`, `handle_signal`, return from a handler | make running processes ready; copy over kernel stacks |
| timed sleep and fswait (`sys/process.c`) | `sleep_queue`, `node_waits`, timeouts | `sleep_until`, `wakeup_sleepers`, `process_wait_nodes`, `process_alert_node` | timeout against alert, check before registration, lock order |
| process lifecycle (`sys/process.c`) | process tree, `wait_lock`, reap queue | `fork`, `task_exit`, `waitpid` | exit of parent and child at once |
| legacy pipe, packet exchange (`vfs/pipe.c`, `vfs/packetfs.c`) | two locks and a pointer lock, client list | read, write, close, broadcast | close races, full client queues |
| descriptors and VFS nodes (`sys/process.c`, `vfs/vfs.c`) | tables shared by threads, reference counts | append, move, clone, close | results read after the unlock |
| shared memory (`sys/shm.c`) | chunks with reference counts | obtain, release | last release against a new obtain |
| terminal (`vfs/tty.c`) | canonical buffer, two rings | input, output, ioctl | limits of the line buffer, end of file through `internal_stop` |
| network (`net/`) | sockets, queues, TCP numbers | send, receive, connect | loss, duplication, late answers |
| window system (`apps/compositor.c`, `lib/yutani.c`) | windows, their stacks, focus, buffers by name, what clients have put aside | create, flip, stack, focus, resize handshake, close, disconnect | replies between events, full pipes, buffers swapped in several messages, clients that die |
| list (`misc/list.c`) | doubly linked nodes | append, delete, pop | intrusive nodes used under different locks |

How they interact: everything that blocks calls `sleep_on` or
`sleep_on_unlocking`, everything that unblocks calls `wakeup_queue*` or
`process_alert_node`, and all of these end in `make_process_ready` and
`switch_next`. Interrupts enter through `isr_handler`, and the timer through
`switch_task(1)`. Kernel code runs with interrupts off; a process in the kernel
gives up its core only where it calls `switch_task` or `switch_next`. `recv` and
`connect` wait in `process_wait_nodes`; the compositor and its clients exchange
packets over `packetfs` and pixels over `shm`.

The properties that make each part correct: a process runs on one core at a time
and is resumed from its latest saved context; a live process is never lost; a
freed process is unreachable; no sleeper misses its wakeup; a pipe delivers bytes
once and in order, and says "end of file" or "broken pipe" exactly when the other
end is gone; a wait ends once, for the reason it reports; no parent misses the exit
of its child and no zombie stays; a TCP stream is what was sent, up to some point;
a client and the compositor draw in the same memory, and both survive the other
side's mistakes of timing.

## Modules

| module | models | abstract counterpart | proofs |
|---|---|---|---|
| `Scheduler` | the scheduler | `Machine` | `SchedulerProofs` |
| `SleepMutex` | the mutex | `AbstractLock` | `SleepMutexProofs` |
| `Ring` | ring pointer arithmetic | | in `UnixPipeProofs` |
| `UnixPipe` (extends `Ring`) | pipe and ring buffer | `ByteChannel` | `UnixPipeProofs` |
| `FsWait` | `sleep_queue`, `fswait`, alerts, timeouts | | `FsWaitProofs` |
| `Lifecycle` | process tree, `waitpid`, stop, continue, kill | | `LifecycleProofs` |
| `Tcp` | TCP client and a lossy network | | `TcpProofs` |
| `Yutani` | window clients, compositor, packet exchange, named buffers | | `YutaniProofs` |
| `ListLemmas` | | | lemmas on sequences, and the least number of a set |

The `MC*` modules and `.cfg` files are the instances for TLC.

### Scheduler

A step is what one core does up to its next access to state another core sees;
`pc[c]` is the place in the kernel code. What `process_queue_lock` covers is one
step, since every access to the ready queue is made under it. `wait_lock_tmp` is
a variable, because the wakeup functions hold it while they call
`make_process_ready`.

* `saved` is the set of processes whose `thread.context` can be resumed:
  `arch_save_context` adds a process, `arch_restore_context` takes it out, and a
  new process starts with an entry context.
* `Stack(c)`: `switch_next` still executes on the stack of the process it leaves,
  until `arch_restore_context`.
* `NextReady`, `MarkRunning` and `TakeOwnership` are three steps because
  `next_ready_process` sets `RUNNING` and `owner` after it has dropped the lock.
* `Restore` clears `RUNNING` of the process that is left, as
  `arch_restore_context` does in assembly.
* `PopSleeper` takes the newest sleeper: `list_pop` removes the tail.
* `Delete`, `DeleteParent`, `Reap` and `ReapLater` are `waitpid`'s call of
  `process_delete`, in the steps that other cores can observe. Slots of `Proc` are
  reused, as `free` and `calloc` reuse memory, so a dangling pointer would be
  seen.

Left out: signals, ptrace, timed sleeps and fswait. Without them a process can
only be in the one wait queue it joined, so the early return of `sleep_on` for a
process that is already queued is never taken, and `make_process_ready` never
has to unlink. The process tree is abstracted: any process but init may be the
child of any other, and a wakeup of "the parent" wakes any queue.

### SleepMutex

Processes interleave freely, which stands for any number of cores. `Interrupt` is
a signal with a handler, `Kill` a fatal one, which takes effect when the process
next resumes in `switch_task`. A killed holder keeps the mutex, as in the code.

### UnixPipe

At most `Cores` processes are in the kernel at a time (`CoreFree`); with
`Cores = 1` kernel code is atomic between sleeps. The ring's spin lock is a
variable. A wakeup of a whole queue is one step (`Scheduler` has its inner steps;
here only its result matters). Copying loops move `Least(...)` bytes at once under
the lock; `UnixPipeProofs` shows that the one-step `Advance` is the iteration of the
code's increments. SIGPIPE is taken to be handled or ignored; a writer that it
ends closes its end, which is `Close`.

Reads and writes may have any size, 0 included, since `sys_read` and `sys_write` let
it through. A read of 0 bytes collects nothing and sleeps even when the ring holds
data, and no data ends it. A write of 0 bytes skips the loop and still wakes the
readers. `NoLostWakeup` and the first half of `ReadReturns` therefore speak of reads
of at least one byte.

Left out: the `discard` flag, which only terminals set, and
`ring_buffer_destroy`, which the pipe never reaches (`close_complete` has no
caller).

### FsWait

A process polls a list of nodes, with or without a timeout, or sleeps for a time.
`Check` asks one node per step, as no lock is held; `Join` is the registration under
`sleep_lock`; a node's writer dequeues its waiters (`NextWaiter`) and alerts them
(`Alert`) in separate steps, so a waiter may have left, or wait for something else,
in between. `Tick` is `wakeup_sleepers` for everything that has expired. A
`sleeper_t` has an `id` that stands for its address, which the allocator may use
again. Times are relative to now, and a call's time starts to run when it registers,
as `process_timeout_sleep` computes the end time. The constant `CoreCounts` gives the numbers of
processors; signals to others come only on one, because on two `send_signal` can
make a process ready that is about to sleep (a hazard listed for the scheduler).

### Lifecycle

`Scan` is `waitpid` under `wait_lock`, `Link` its sleep; `WakeParent` takes the same
lock (its guard excludes a parent at "link"), `WakeOnStop` and `Delete` do not. A
stopped process is in `switch_task(0)` inside `handle_signal`; every signal makes it
ready, and those left in its queue are handled only when it runs again. That includes
the SIGCHLD of `WakeParent`, for a stopped parent that has a handler for it. Kernel
threads, thread groups, process groups as arguments of `waitpid`, and ptrace are left
out.

### Tcp

`priv[1]`, `priv32[0]` and `priv32[1]` are `st`, `seq` and `ack`. The network is the
set of segments the peer may have sent so far: any of them may arrive, in any order,
again and again, or never. The peer (external) sends its stream in segments of any
size. Out-of-order FINs are there too: `EofMeansAll` is stated for peers that send
the FIN when all data is acknowledged, because the code ends the stream for the
others as well. `NoRoute` is the `connect` that fails with -ENONET after the port is
taken. Segments carry no TCP options: `recv` strips a header of fixed size, the
acknowledgement uses the length in the header. A stream whose expected number becomes 0, which the code takes for
"unknown", and a second `connect` on one socket are left out.

### Yutani

The compositor is one process, so each packet is handled in one step; its functions
keep their names and take the compositor's state, a record, to the next (`Handled`).
`stack` has the three lists of windows, `slot` the single windows at the bottom and at
the top. `Put` and `Del` are the hash map's set and remove, and `CloseAll` is the loop
that closes the windows of a client that has gone, each in the state the one before
left behind. A client
either runs, waits in `yutani_wait_for`, or draws between `yutani_window_resize_accept`
and `yutani_window_resize_done`. Events (keys, mouse, focus) are represented only by
what matters here: they can fill a client's pipe at any time, so any reply may be
dropped (`full`). `maps` says who has mapped which buffer. A window's `z` that is set
to -1 becomes the order of the top window, as in the code.
A window that is closed in the middle of a resize releases its buffer but not the
new one, which stays mapped in the compositor, as in `compositor.c:1259`.

## Runs

| run | instance | shows |
|---|---|---|
| `scheduler` | 2 cores, 3 process slots, 1 wait queue, `wakeup_queue` and `wakeup_queue_one`; symmetry of the two processes that are not init | `TypeOK`, `StackExclusive`, `RestoresSavedContext`, `OnePlace`, `ReadyPrecondition`, `NoDanglingProcess`, and that `Scheduler` implements `Machine` (`Refines`) |
| `scheduler_live` | 2 cores, 2 slots, all wakeup functions | `FreshSleep`, `EventuallyRuns` |
| `mutex` | 3 processes, all interruptible, 2 killable | `TypeOK`, `MutualExclusion`, `NoLostWakeup`, `ImplementsLock`, `SomeoneEnters` |
| `pipe` | ring of 3 slots, 2 readers, 1 writer, 3 cores, reads of 0 to 2 bytes, writes of 0, 1 and 3, signals to one reader and the writer | `TypeOK`, `NoLostWakeup`, `EofMeansClosed`, `ShortMeansClosed`, `ImplementsChannel` |
| `pipe_live` | 1 reader, 2 writers, 1 core, the same sizes, signals to the reader | `ReadReturns`, `WriterWakes`, `PollReturns` |
| `pipe_writer_stuck` | 1 reader, 1 writer, 1 core | a violation of `WriteReturns`: see Findings |
| `fswait` | 2 processes, 2 nodes and one that cannot be polled, timeouts 0, 2 and none, sleeps of 1, on 1 and 2 processors | `WokenOnce`, `TimersMatch`, `HonestReason`, `SleepsForData`, `TimeoutReturns`, `AlertReturns` |
| `lifecycle` | init and 3 processes, one of them stopped and killed, two with a handler for SIGCHLD, on 1 and 2 processors | `ExitSeen`, `StopSeen`, `OrphansReaped`, `KillEnds` |
| `tcp` | a stream of 3 bytes, numbers modulo 8, buffers of 1 and 2 bytes, 3 retries | `StreamInOrder`, `EofMeansAll`, `ConnectReturns`, `RecvReturns` |
| `tcp_eof` | the same | a violation of `EofReported`: see Findings |
| `yutani` | 2 clients (symmetric), 2 windows, 3 buffers, 2 packets in the server's pipe | `BuffersShared`, `FocusAlive`, `AnswerOnTheWay`, `OrphansClose` |
| `yutani_crash` | the same | a violation of `NeverCrashes`: see Findings |

Why the bounds are enough to see the interesting cases: two cores and three
processes let one core leave a process while the other pulls it, reaps it and
reuses its slot while a third is queued behind it; one queue suffices because
queues do not interact except through the process. Three mutex users give a
holder, a sleeper and one that barges in. A ring of three slots holds two bytes,
and a message of three does not fit, so writers block, pointers wrap, reads of
one and two bytes make room partially, and reads and writes of nothing meet a ring
with and without data. Two pollers and two nodes let a process be
alerted by one node while another still lists it, and a timer of one fire between the
registration and the alert of the other; a timeout of 2 and a sleep of 1 make the
order of `sleep_queue` matter. Four processes give init, a parent, a child and a
grandchild that is orphaned as a zombie or alive. Three bytes in segments of any size
can overlap, be skipped and repeat; more of them add no new case, since the code
keeps a single number. Two windows are enough for one to displace the other and to
inherit its focus, and the third buffer is for a resize. Bounded for TLC: signals
queued (`MaxPending`), processes created (`MaxPid`), windows, buffers and offers on
their way (`MaxWid`, `MaxBuf`, `MaxOffers`), and calls of `send` (`MaxSend`).
`ZOrders` has only the bottom, where windows are displaced; menus behave as the
middle, except for `Unfocus`. `CHECK_DEADLOCK FALSE` is set where everyone may be
dead, have closed, or have used up a bound.

Each property of a passing run has a mutant: an operator named `Mut...` next to
the definition it replaces, a plausible mistake in that code, under which TLC
finds the property violated.

### Fairness

* `Scheduler`: weak fairness of a core's kernel steps, since kernel code is not
  preempted, and strong fairness of `Preempt`: a timer interrupt that arrives
  while interrupts are off stays pending until the core returns to user code.
* `SleepMutex`: weak fairness of each process's steps, including `Release`: a
  holder that is not killed releases. No fairness of `Acquire` or of signals.
* `UnixPipe`: weak fairness of kernel steps, and strong fairness of `Resume`: a
  process that is ready gets a core again and again, which `EventuallyRuns` shows
  of the scheduler. No fairness of calls: nobody has to read, write or close.
* `FsWait` and `Lifecycle`: the same, with weak fairness of a node's alert loop, which
  is kernel code, and strong fairness of the clock interrupt and of init's call of
  `waitpid`, which it makes in a loop.
* `Tcp`: waits end. Of a connected peer, the segment at its first unacknowledged byte
  arrives in the end, and so does the client's current acknowledgement, since each is
  repeated until the other side has it. Nothing is assumed of the SYN, nor of the ACK
  that ends the handshake: it is sent once, and a repeated SYN ACK is ignored
  (`ipv4.c:429-440`). If it is lost the peer never gets to send, so `RecvReturns`
  speaks of peers that have got it.
* `Yutani` has safety properties only: the compositor may exit, and packets are
  dropped.

### Findings

`pipe_writer_stuck`: a writer blocks on a full pipe; the reader reads (and wakes
the writer, taking it off the queue) and closes before the writer has run.
`ring_buffer_interrupt` marks only sleepers that are still queued. The writer
resumes as after a normal wakeup, fills the ring again and sleeps; `read_closed`
is looked at only on entry to `write`. It gets no SIGPIPE and no EPIPE, and never
returns.

`tcp_eof`: `recv` tests for end of file before it waits and never again. A FIN without
data sets the state but neither queues a packet nor alerts anyone, so a `recv` that is
already waiting does not return when the peer closes.

`yutani_crash`: a client puts a window at the bottom (as the wallpaper does), another
client does the same (as a terminal with `-F` does), and the first window is then
moved in the stack or closed. It still has `z = -1`, which as an unsigned short is the
order of the top window; it is not the top window, and is looked for in a list that
is NULL.

More claims were not made because they fail in the same family; all are recorded as
hazards:

* With two blocked readers the single `internal_stop` flag ends only one of the reads
  when the writer closes, and on two cores a writer can close between a reader's
  unlocked end-of-file test and its sleep. That is why `ReadReturns` and `PollReturns`
  are checked with one reader on one core.
* A reader that a write of 0 bytes has just woken is not queued, so a close that comes
  before it runs misses it, and it sleeps again for good: `ReadReturns` promises the
  end only of reads that the close finds on the queue.
* A read of 0 bytes sleeps although there is data.
* `recv` waits for ever when the ACK of the handshake is lost.

## Proofs

All theorems hold for any number of cores, processes, queues, readers, writers,
nodes, messages, windows and buffers, any ring size, stream and timeouts, from the named assumptions of
the modules (`ConstAssumption`, `MutexAssumption`, `SizeAssumption`,
`PipeAssumption`, `FsWaitAssumption`, `LifecycleAssumption`, `TcpAssumption`,
`YutaniAssumption`), which TLC evaluates in every run. They say that the sets of processes are finite, that the
values of different kinds (a process, a node, a client and the compositor, `None`) differ, and, for `Tcp`, that the
numbers of one stream do not wrap: `Modulus` is larger than the stream, and the peer's
first number leaves room for it.

**Scheduler** (`SchedulerProofs`). `IInv` is the inductive invariant; each
conjunct is there for a reason:

* `TokenUnique` and `TokenExists`: each live process has exactly one token: a core
  executing or about to resume it, the hand of a waker, or a place in one queue.
  `OnePlace` and `ReadyPrecondition` follow.
* `StackOwned`: a process whose stack a core is on is `RUNNING` and owned by that
  core. This is why the test in `next_ready_process` suffices, and answers the
  question in the comment of `switch_task`: a process may be queued early, but
  cannot be taken early.
* `SavedShape`: a queued process is saved unless its core is still at the save
  point ("block"), and then `StackOwned` keeps others away.
* `FinishedShape` and `VictimShape`: a finished process is in no queue, and a core
  that still names it as current is on its stack, so `waitpid`'s wait for
  `RUNNING` to drop makes deletion safe. (Dropping either that wait or
  `process_delete`'s own look at the other cores leaves `NoDanglingProcess` true in
  the model: each covers for the other. What deletion does rest on is that only
  the parent waits for a child, see the `#if 0` in `waitpid`: `MutGroupWaits`.)
* `Allocated`: everything reachable exists (`NoDanglingProcess`).
* `CoreShape`, `LockShape`, `QueueShape`: local facts at each program point, and
  that the queues are lists without repetition, with `ListLemmas`.

One lemma per action (`SaveYieldStep`, ...) states the action's effect on `Ready`
and `Asleep` once and proves each conjunct from it.

`SleepsFresh` adds the flag: between the first step of `sleep_on` and the sleep
`PROC_FLAG_SLEEP_INT` is down, because only a sleeper that has left its queue is
marked interrupted. `SchedulerIsMachine` is the refinement of `Machine`. `ProcState` is
a chain of tests; `StateSeen` replaces it by the four facts that decide it (allocated,
finished, executing, readied), so that each of the lemmas `...Seen` shows its action to
be one step of `Machine` or none. The interesting ones are `RestoreSeen` (the core
leaves one stack for another: `StackOwned` says nobody else is on it) and
`NextReadySeen`, where the process that is taken is still seen as ready.

**SleepMutex** (`SleepMutexProofs`). `MInv` relates `status`, `owner`, the inner
lock and each program point; `MutexTyped`, `MutexExcludes`, `MutexWakes` and the refinement
`MutexIsLock` follow, the last one action by action.

**Ring** (in `UnixPipeProofs`). Unread and available bytes always add up to `Size - 1`,
a read or write of one byte changes them by one, and `Advance` commutes with
`Increment`. Fewer than `Size` increments never lead to the same slot.

**UnixPipe** (`UnixPipeProofs`). `PInv` says who holds the ring lock at each
program point, that queued processes are at a sleeping point of the call that queued
them, that a reader about to sleep has found nothing unless it asked for nothing
(sizes of 0 are among the instances), and that `internal_stop` is raised only by a
close; `PipeTyped`, `PipeWakes`, `PipeEof` and `PipeShort`
follow. `PipeIsChannel` is the refinement of `ByteChannel`: the write pointer is
`unread` increments ahead of the read pointer, so the slots that `CopyIn` fills are
none of those that hold unread bytes, and the stream grows exactly at its end. It
needs one more invariant, that a writer outside of a call has no bytes left.

**FsWait** (`FsWaitProofs`). `FInv` is about what four places say of one waiting
process, and the four checked invariants are conjuncts of it. The ones that make it
inductive:

* `WaitShape`: `node_waits` are the nodes of the call, with the timer behind them if
  there is one. So a node's index is below the timer's, and the index of the timeout is
  the number of nodes, which is what `HonestReason` needs.
* `TimerOwned`: `timeout_node` is the process's own record, so `list_delete` at a
  wakeup takes out that record and no other, and an expired record always finds its
  call (`FiresIs`).
* `Registered`: whoever waits for a node is in its list or in its writer's hand; so
  when the writer finds the list empty, nobody waits, which gives `SleepsForData`.
* `AnswersHold`: on one processor, what a node has answered is still true when the
  process registers, since nothing else runs between (`CoreFreeAlone`).

The insertion into `sleep_queue` and the expired prefix are searches for a first
record: `InsertedElems`, `WithoutElems`, `ExpiredIs` and `TickElems` say what they do
to an ordered queue. They rest on `MinIs` of `ListLemmas`.

**Lifecycle** (`LifecycleProofs`). `ExitIsSeen` and `StopIsSeen`. `LInv` follows the
exit through its steps: the parent that `task_exit` has found is the parent it wakes,
unless the child was handed to init (`WakerIsParent`); from the scan of `waitpid` to
its sleep no child becomes a zombie, as both are under `wait_lock` (`LinkFresh`); on
one processor no child stops in between either (`LinkStop`), because kernel code runs
to its end (`KernelOne`).

**Tcp** (`TcpProofs`). `StreamArrivesInOrder` and `EndOfFileMeansAll`. The invariant
is that there is a number r of received bytes (`Pieces`): the pieces that `recv` has
returned, has kept, and that are queued cut the stream in order and end at r, and `ack`
names byte r + 1 while the port is open. A segment that overlaps, repeats or skips does
not match `ack` and is not queued. For a polite peer no acknowledgement on its way
claims more than r bytes, so the FIN comes when r is the length of the stream.

**Yutani** (`YutaniProofs`). `BuffersAlwaysShared`, `FocusAlwaysAlive`,
`AnswersComeBack` and `OrphansAlwaysClose`. All speak of a compositor that is up: when
it has exited or crashed there is nobody to keep the promise. `YInv` has these parts:

* `Desk`: a list holds exactly the windows of its order, once each, and a slot names a
  window of its order. This is `FocusAlive`, and the part that concerns the
  compositor alone.
* `Buffers`: the compositor has the buffers of each window mapped, no two windows share
  one, and none is newer than `bufs`. So what a close or the end of a resize releases
  belongs to no other window.
* `Belongs`: the list of a client's windows are those that do not fade out; else
  `Disconnected` would miss one, or close one twice.
* `Queue`: the packets on their way to the compositor, in order. A client writes nothing
  behind a request until it is answered, except that it exits; nothing comes behind
  `GONE`; a packet about a window comes from its owner. Without the order, a `CLOSE` or
  a `DONE` could overtake what it is about.
* `ClientOk`: at most one reply is on its way to a client, and it fits what the client
  waits for (`Fits`). This decides `Answered`, and shows that the case in `Reply` of an
  answer for another window is never met. For each window a client holds, `Resize` says
  where its resize stands: from the answer until the compositor reads `DONE` the client
  has the window's new buffer, otherwise its buffer. At no time is a `CLOSE` for it on
  its way, so no packet of the client closes it under the client's hands.
* `Orphans`: as `OrphansClose`, with the owner of each window connected once, so that
  it cannot connect as if it were new.

The compositor's functions take a record to a record, so the proof has three layers.
First, facts about the functions alone (`UnorderDesk`, `ReorderDesk`, `CloseDesk`): the
order of the windows survives, and `Closes(s, t, X)` says that only windows of `X` were
told to close. `CloseAllDesk` is an induction over the turns of the loop, made by hand
since the library's induction theorems cannot be used here: the least turn after which
the claim fails (`MinIs`) has a turn before it. `LoopExists` shows in the same way that
the recursive function is defined. Second, the steps of the compositor: what it does to the sender of the packet it reads
(`SenderServed`) and to everybody else (`OthersServed`). Third, the steps of the
clients, which change one client and append at most one packet.

Proving it showed where `FocusAlive` was weaker than what the code keeps: it now says
that a list has *exactly* the windows of its order, and the two slots became a variable
of their own.

Only model-checked: the liveness properties, `EventuallyRuns`, `SomeoneEnters`,
`ReadReturns`, `WriterWakes`, `PollReturns`, `TimeoutReturns`, `AlertReturns`,
`OrphansReaped`, `KillEnds`, `ConnectReturns` and `RecvReturns`. Fairness and `ENABLED`
are outside the prover's reach. The violations under Findings are TLC's as well.

## Plan

1. Done: all modules of the table, model-checked; every safety invariant that a passing
   run checks, and the refinements of `Machine`, `AbstractLock` and `ByteChannel`,
   proved.
2. Would follow if the code's signal delivery between processors is settled: signals
   on top of `Scheduler`. As it is, `send_signal` can queue a running process.
3. Would follow if more of user space is to be covered: the terminal's line discipline
   and the descriptor tables, which threads share.

## Not modelled

* Signal handlers' saved kernel stacks (`fix_signal_stacks`): a stack is copied while
  a core may be on it, which is a question of memory and not of states.
* The locks and pointers of the legacy pipe, descriptor tables and node reference
  counts, the terminal's line editing, UDP, ICMP and raw sockets, ptrace: see the
  components in `PROJECT.json`.
* Memory management and the allocator (machine words and hardware state; allocation
  is taken to succeed), SMP start-up and drivers (hardware registers), file systems
  and the linker (data formats), the C library.
* The applications: shell, terminal, editor, file browser and the other programs of
  `src/apps/` are by far the larger part of the repository's lines. They are
  sequential user interfaces and tools that share no state but through the kernel and
  the window system, whose side of that sharing is modelled. Of the compositor,
  rendering and geometry are left out.
