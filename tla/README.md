# Verification of the gapso-rbf-pid queue discipline

The repository implements an active queue management algorithm for Linux as a
queueing discipline, `rbfgrad`: packets are marked or dropped with a
probability that a PID controller computes from the error of the queue length,
the gains of the controller being tuned by a radial-basis-function network
which a particle swarm fits to samples of the queue. Around the kernel module
there is a patched `tc` to configure it, a `/proc` file to read the samples,
tracepoint probes, and scripts that run an experiment.

This directory holds TLA+ models of the parts that run concurrently, the TLC
configurations that check them, and proofs for TLAPS. It is about the
correctness of the control structure: who writes what, in which order, under
which lock. Floating-point numerics are not modelled.

## 1. Inventory

| Component | State | Operations | Interaction |
|---|---|---|---|
| qdisc, `modules/sch_rbfgrad.c`, `include/rbfgrad.h` | `struct Qdisc` counters, the child qdisc, `q->stats`, `q->parms` | enqueue, dequeue, drop, reset, init, change, graft, dump, destroy | called by the kernel under the root lock and/or RTNL; shares `q->parms` with the controller thread, the log with the reader |
| PID controller, `rbfgrad_thread_func`, `rbfgrad_mark_probability` | PID gains, `p_k`, `p_k_1` | one iteration: read errors, learn, compute, clamp | a kernel thread that takes no lock |
| threads and module, `rbfgrad_init`, `rbfgrad_destroy`, `rbfgrad_stop_prob_thread_func` | global `tsk_prob`, two threads for each installation | start, stop after `PROB_TIME`, rmmod | nothing but time orders the end of a thread and the end of what it uses |
| log reader, `queuedata/` | `queue_array_count`, `count`, seq_file position | `l_start`, `l_next`, `l_show`; `read.sh` | reads the log while enqueue writes it |
| particle swarm in the controller, lines 517-675 of `rbfgrad_mark_probability` | `pos`, `vel`, `pbest`, `gbest` | initial evaluation, `MAX_EPOCH` rounds | evaluates against `queue_len[0]`, which enqueue changes |
| `include/pso.h` | `task_run_count`, a wait queue, one work item for each particle | parallel swarm | workers on a workqueue meet `pso_learn` at a hand-made barrier; included by no compiled file |
| `include/rbf.h` | - | gradient learning | its include is commented out |
| `include/exp.h`, `include/fabs.h` | none | numerics | pure |
| tracepoint probe, `modules/tracepoint-probe-rbfgrad.c` | a kfifo, `ctl_temp` | probe, seq_file functions of `/proc/rbfgrad`, init, exit | takes no lock: probe, readers and loading run beside each other; the trace call is commented out in the qdisc |
| `modules/tracepoint-probe-rbfgrad-vars.c` | as above | as above, the body of the probe commented out | its fifo stays empty |
| `iproute2-3.1.0/tc/q_rbfgrad.c` | none | parse, print | netlink to change and dump |
| what runs it: `tc/tc.c`, `tc/tc_qdisc.c`, `lib/libnetlink.c`, `lib/ll_map.c` | the request number, the cache of interface names, `filter_ifindex` | batch loop, qdisc commands, requests and dumps | one socket for all commands of a batch |
| converters, `read_proc_*`, `test/transfer.c` | none | text to text | after the experiment |
| scripts in `test/` | none | run an experiment | decide how long a qdisc stays installed |
| the rest of iproute2 | - | - | vendored |

What is hard here: the controller reads and writes `q->parms` without a lock;
`dump` writes a counter without the root lock; threads outlive the objects they
use; one operation throws packets away and must correct several counters; a
log with a moving end is read in batches through an interface that has a page
limit of its own; a fifo without framing carries records that may not fit; a
barrier is rebuilt while its last user may still be leaving it; and a batch of
commands shares a socket in which earlier answers may still lie. `PROJECT.json`
lists these hazards at their lines.

What makes each component correct:

* qdisc: every packet is in one place and counted once, the length is that of
  the child, the sampled windows and the log describe the same samples;
* controller: what it leaves behind is within the limits in force, what it
  shares with others is nothing but `p_k`, `p_k_1` and the gains;
* threads: none outlives its qdisc or the code of the module, each is stopped,
  by its own stopper;
* reader: no duplicate, no hole, no disorder, nothing beyond the array, and no
  record lost;
* probe: records arrive whole and in order, and what is lost is lost for a
  reason one can name;
* parallel swarm: nobody passes the barrier early and nobody waits at it forever;
* tc: what it reports is what the kernel did for that command.

At this commit `rbfgrad_mark_probability` contains a table of variables
(lines 461-471) that has lost its comment delimiters; it is read as a comment.
In `tc/tc.c` a Python function stands in the middle of two C functions; it is
read as if it were not there.

## 2. Modules

| Module | Models | Composes |
|---|---|---|
| `RbfgradQdisc` | the qdisc; the controller appears as two actions that store any value of `Probs` into `p_k` and `p_k_1` | - |
| `LossyQueue` | the abstract specification: a queue that loses packets and counts them; no order is promised | implemented by `RbfgradQdisc` |
| `RbfgradAqm` | the qdisc with its controller thread, every access a step | extends `RbfgradQdisc` and is shown to implement it |
| `RbfgradSwarm` | the particle swarm of an iteration, with its target moving and the swarm being redrawn | - |
| `RbfgradThreads` | life of the threads, the qdiscs and the module, with time | - |
| `QueueData` | writer, `/proc` reader and `read.sh` | - |
| `TraceFifo` | probe, kfifo, readers of `/proc/rbfgrad`, loading and unloading | - |
| `PsoWorkqueue` | `pso_learn` and its workers | - |
| `TcBatch` | a batch of tc commands, its socket and the kernel's side of it | - |
| `RbfgradQdiscProofs` | theorems about `RbfgradQdisc`, and that it implements `LossyQueue` | extends `RbfgradQdisc` |
| `RbfgradAqmProofs` | theorems about `RbfgradAqm`, and that it implements `RbfgradQdisc` | extends `RbfgradAqm` and `RbfgradQdiscProofs` |
| `RbfgradSwarmProofs`, `RbfgradThreadsProofs`, `QueueDataProofs`, `TraceFifoProofs`, `PsoWorkqueueProofs`, `TcBatchProofs` | theorems about these modules | each extends its module |
| `MCRbfgradQdisc`, `MCRbfgradAqm`, `MCRbfgradSwarm`, `MCTcBatch` | option sets, children, initial swarms and words for TLC | extend the above |

### RbfgradQdisc

The variables are those of the code: `qlen`, `backlog`, `drops`, `overlimits`
of `struct Qdisc`; the child as its kind and byte limit (`child`), the lengths
of its packets (`queue`) and its own backlog; `q->stats`; the part of
`q->parms` that enqueue touches; the log with its index; `pkg_number`. Of a
record of the log only `length` and `e_k` are kept, the two that tie a record
to its neighbour.

Two others look on without the root lock: `rbfgrad_dump`, which reads the
child's backlog and stores it into the parent's, and the controller thread. An
operation that holds the lock is cut where they can tell, and `op` is how far
its holder has come; `RootLockFree` guards what needs the lock.

* `rbfgrad_enqueue` is `RbfgradEnqueue`, which reads `p_k` and decides,
  `RbfgradEnqueueTail` up to the return of the child, and, if the child has
  accepted, `CountQueued`, which adds to the parent's length and backlog.
* `rbfgrad_dequeue` and `rbfgrad_drop` are the child's part (`RbfgradDequeue`,
  `RbfgradDrop`) and the parent's (`CountTaken`, `CountDropped`).
* `rbfgrad_change` is `RbfgradChange` (the child and the options, the limits of
  `p_k` among them), `ChangeP`, `ChangeErrors` and `ChangeWindows`, in the order
  in which `rbfgrad_set_parms` stores.
* `rbfgrad_dump` is `RbfgradDumpRead` and `RbfgradDumpStore`; either may fall
  between any two of the above, except that RTNL (`RtnlFree`) keeps it out of a
  change. `Dumps` says whether anybody asks for dumps.

The branches of the `switch` repeat the same 40 lines; `Sample` is both.

Probabilities are integers in units of 1/`RAND_MAX`. The decision keeps the
edges of the C code: a product that no `int` can hold converts to the smallest
`int`, and `abs` of the smallest `int` is negative. `Shift` is the loop over
the window of `SAM_NUM` samples.

External parts, modelled from how they are called: the children (`bfifo`
accepts while the bytes fit and is first in, first out; `noop` refuses; a
classful child, `prio`, may accept, refuse or steal, and gives or drops whichever
of its packets its bands say), `qdisc_tree_decrease_qlen`, and `qdisc_destroy`,
which resets first.

Early returns of `rbfgrad_change` leave the qdisc as it was and are stutters;
its failure inside `rbfgrad_init` is in `RbfgradThreads`. `rbfgrad_restart` is
empty in the code. `peek`, `leaf`, `get`, `put`, `walk` and `dump_class` change
nothing. History variables: `departed`, the packets that left by dequeue, by a
purge or into a stealing child; `disturbed`, that a swapped child or a dump has
spoilt `qstats.backlog`.

`ImplementsLossyQueue` instantiates `LossyQueue` with the child's packets for
the queue, `q.qlen` for its length and `qstats.drops` for the losses, each
corrected for the packet an operation has in hand. A packet that is judged,
sampled, marked or measured by a dump is a stutter there; a change or a graft
that replaces the child is a purge.

### RbfgradAqm

One iteration of `rbfgrad_mark_probability` is a walk of `pc`: read the three
errors in any order, decide whether to learn (`gbestval < E0` is left open),
copy the gains, store new ones, floor them at 0, store `p_k_1`, then the new
probability. The code stores the PID output into `p_k` and clamps it in place.
A build may really do that (`StoreRaw`, `TestMax`, `PutMax`, `TestMin`,
`PutMin`, each limit loaded before it is stored), or keep the value in a
register until it is in range (`ClampMax`, `ClampMin`, `StoreClamped`); both are
allowed.
The gain update keeps the structure of the formula: a sign for the jacobian,
the copies, and the three PID terms of the errors the thread has read.
`SaneConfigs` assumes options as `tc` asks for them: `p_init` within
`p_min..p_max` and no negative gain. `tc` does not enforce this.

A change begins with `Change`, which marks an iteration that is under way as
`overtaken`, and goes on with `ChangeGoesOn`; the thread takes no lock and may
take any number of steps in between. `Stopped` is the stopper's `kthread_stop`
arriving: it may end the thread between any two iterations and leaves the qdisc
installed. When that happens, and that the qdisc may be destroyed, is
`RbfgradThreads`.

What is coarser than the code: enqueue shifts the three errors in one step, but
since the thread reads them one at a time and in any order, every mixture of
old and new values is still read; the three gains are copied, stored and
floored together by the thread, and set together with the windows by a change;
the PID output is computed and stored in one step.

### RbfgradSwarm

The swarm that fits the network in each iteration: `pbest` is copied and its
errors computed, then there are `MAX_EPOCH` rounds of evaluating every particle,
updating `gbest` and moving every particle, then the weights and the comparison
with `E0`. For each particle the evaluation (`Evaluate`, line 607) and what is
kept of it (`KeepBetter`, 609-612) are two steps, and so are the limited
velocity (`Accelerate`, 640-649) and its use (`MoveParticle`, 654), because
nothing protects the swarm: a sample may replace `queue_len[0]`, the target, at
any time, and `rbfgrad_change` redraws the swarm at any time as well. It does so
in steps too: `ResetNet` (the weights drawn, `queue_len` and `SamIn` zeroed),
`RedrawParticle` for one particle after the other, `ZeroGbestval`. So a particle
may be redrawn between its evaluation and the copy, or between the limit of its
velocity and its use. The root lock keeps samples out of a change.

The network multiplies a weight with `hidden`, what the hidden layer makes of
`SamIn`; random factors come from small sets. `tried` records what was evaluated
with which `hidden` against which target, `overtaken` that a step of a change
fell into this iteration.

What is coarser than the code: the weights of a particle are one integer, an
evaluation reads the weight, `hidden` and the target at once, and `gbest` is
updated in one step. A change that fell into one of them would make the
iteration overtaken all the same.

### RbfgradThreads

Installation `i` is the `i`-th qdisc; it has a controller and a stopper. Time is
a `Tick` that may pass only while no runnable thread has waited for `LATENCY`
ticks. A stopper sleeps `PROB_TIME`, reads the global `tsk_prob`, and waits for
that task. `RunTime` is how long a qdisc stays installed at least, which is up
to the experiment, not to the code. `kthread_stop` on a task that has exited or
never ran crashes the stopper. With `Disorder` installations may overlap and
`rbfgrad_change` and `kthread_run` may fail; the history variable `orderly` tells
whether any of this has happened, and the properties that need an orderly
experiment say so.

### QueueData

The writer is the log part of `rbfgrad_enqueue` in its two effects, the record
first and the index after it; `ZeroElement` is the effect of reset and change.
The reader is `read.sh`, the three seq_file functions and, external, `seq_read`
and `cat`: rows are printed into one page, the row that no longer fits is
dropped although `l_next` has moved on, and the next read starts at a non-zero
index, for which `l_start` returns nothing. A record is the number of the
sample it holds.

### TraceFifo

A byte is a pair of record and offset, so that a record stored in part can be
told from a whole one. `kfifo_in` and `kfifo_out` are two steps each, the copy
and the move of the index, because nothing serialises them with the other side.
A zeroed fifo claims one free place (its mask is 0) and copies elements of no
size, which is how a record that arrives between `register_trace_rbfgrad_output`
and `kfifo_alloc` is taken and lost. `kfifo_alloc` itself is two steps: the
fields (`KfifoReset`), then the pointer to the ring and its size (`KfifoAlloc`).
A probe or a reader that copies in between goes through a null pointer:
`ProbeFault` and `NextFault`. Coarser than the code: pointer and size are stored
in one step. The tracepoint is one that nothing fires at this commit, the call
in `sch_rbfgrad.c` being commented out; the model lets it fire at any time.
A reader is a process with the file open; `seq_read`
calls start, show and next, and takes a row back that does not fit its page
(`cut`), after the fifo has given the record away. `remove_proc_entry` waits for
calls inside the file. History: `torn`, `refused` and `cut` name the records that
were lost and why; `misaligned` holds from a torn record until the fifo is
empty; `raced` is set when two readers, or a reader and `kfifo_alloc`, are at
work together, or a copy has met a fifo half allocated, after which nothing is
claimed about the fifo.

### PsoWorkqueue

The control of `pso_learn`: set the count, queue the items, wait, collect, move,
test. `wait_event` is two steps, getting on the wait queue and testing the
count; `wake_up` is two as well, so that the last worker of a round may still be
in it when the next round starts. An error is the number of the round that
computed it. `cnt2` and one element of `tr` are read uninitialised: `cnt2` starts
with any value, and whether an epoch counts as converged is left open. The
variable `i` is the one the code uses for epochs and for particles, so that
`MaxEpoch` does not bound the epochs as line 448 of `pso.h` means it to.

`PsoAssumption` contains a hypothesis about a caller that does not exist: there
are as many particles as `THREAD_NUM`. The barrier starts its count at
`THREAD_NUM` (`pso.h`, lines 22 and 332) and one item is queued for each
particle. The only number of particles in the repository is `PARTICLE_NUM`, 90,
of the serial swarm, and no file of the build includes `pso.h`. With more or
fewer particles the barrier would open early or never.

### TcBatch

The loop of `batch()` with `-force` or without it, over lines that add, change,
replace, link, delete or list, for any interface or none, and over lines tc
complains about or exits at (`usage` of `tc_qdisc.c` returns, so a line with
`help` is among the former). A device is looked up as `ll_name_to_index` does
it: the last answer, the remembered names, the kernel, and the number in a word
`if<n>`. The kernel's side is external: it executes a request inside `sendmsg`,
it may have no memory for the acknowledgement or for the next piece of a dump
(the next `recvmsg` then fails), it goes on with a dump in each `recvmsg` until
it is finished, and it refuses a second dump on the socket meanwhile. Options
are a record of numbers: `limit`, `q_ref` and `p_max` stand for the members that
survive the way to the kernel and back, `p_min` and `ecn` for the three that
`rbfgrad_dump` leaves out, `p_init` being the third. Listings are as with
`-details`. That `delete` is typed without a kind is an assumption about the
user: with `rbfgrad` named, the option parser would refuse it for want of a
`q_ref`. An option that is not typed reaches the kernel as 0, not as the default
that `rbfgrad_parse_opt` keeps in a variable of its own.

## 3. Runs

| Run | Checks | Shows |
|---|---|---|
| `accounting` | `PacketsConserved`, `CountersAgree`, `BacklogExact`, `ImplementsLossyQueue` | counters and packets agree whatever interleaves; `qstats.backlog` is exact unless a child was swapped with packets in it or a dump met or overlapped a packet operation; to the outside the qdisc is a queue that loses and counts packets |
| `sampling` | `TypeOK`, `ErrorsMatchWindow`, `LogErrorLag` | windows, errors and log describe the same samples, also when the log is full and across resets and changes |
| `controller` | `SettledInRange`, `GainsFloored`, `SamplesNeverRaw`, `RangeRestored`, `QdiscImplemented` | between iterations `p_k` is in range unless a change overtook the iteration; unclamped values never become samples; an out-of-range `p_k` is repaired unless the thread is stopped right after an overtaken iteration; the composition implements `RbfgradQdisc!Spec` |
| `raw_probability` (violated) | `PacketsJudgedInRange` | a packet can be judged by the unclamped output |
| `swarm` | `DecidesOnBestTried`, `GbestvalFalls` | the fit is judged by the error of the weights that are used, and they are the best tried, though the target moves; a change spoils no iteration but the ones its steps fall into |
| `scripted` | `NoUseAfterFree`, `CodeOutlivesThreads`, `StopsOwnController`, `ControllerStopped`, `StopHonoured` | with a long enough and orderly experiment all is well; with failures and overlapping qdiscs too, what was asked to stop stops |
| `use_after_free` (violated) | `NoUseAfterFree` | a qdisc deleted early leaves its controller in freed memory |
| `read_log` | `RowsInArray`, `RowsInPlace`, `RowsInTimeOrder`, `CompleteUnlessCut` | what `read.sh` collects is ordered, without duplicates, and complete where the page sufficed |
| `read_log_page` (violated) | `BatchComplete` | a batch longer than a page loses its end |
| `trace_fifo` | `FifoBounded`, `StreamInOrder`, `RowsRealign`, `RecordsAccounted`, `FreedUntouched`, `ReadEnds` | the ways in which a record gets lost or torn, and that without a race there are no others; the order of unloading is safe |
| `pso_barrier` | `RoundComplete`, `BarrierOpens` | the barrier holds and opens, through rounds that reuse it |
| `tc_batch` | `SuccessIsReal`, `ExitZeroMeansDone`, `ListingExact`, `ShownAsTyped`, `OnceNamed`, `AnswerComes` | what tc reports is what the kernel did for that command, and it never waits in vain |

`sampling` checks the type invariant of the qdisc, which says that the log index
stays in the log. The type invariants of the other modules say no more than
their name and are stated for the proofs. `QlenMatchesChild` is part of
`ImplementsLossyQueue`, and `LogHeadCurrent` of the proof of `SamplesCorrect`.

Some results deserve words. `scripted` is sharp: with `RunTime` at least
`PROB_TIME + 4 * LATENCY + 1` all properties hold, and one tick less breaks one
(the stopper's wake-up, the controller's round and its test, and the stopper's
return each take up to `LATENCY`). `RowsInTimeOrder` has an exception in its
statement, the second row of a batch: `l_next` skips its checks when `*pos` is
0, so that row may be one that was never recorded. It stays inside the array
only because `array_element` stops one short of the end.

`DecidesOnBestTried` excludes an iteration into which a step of `rbfgrad_change`
falls. Wherever it falls it can do harm: between the copy of `pbest` and its
evaluation, between an evaluation and the copy of the position it is kept with,
between the last `gbest` and the comparison with `E0`, where the zeroed
`gbestval` lets any network pass. What the property says is that the next
iteration has recovered, whatever was left of the swarm, although `pbest`,
`pbestval` and `gbest` are never reset.

The same is not true of the probability. `RangeRestored` says that the thread
brings an out-of-range `p_k` back, but an iteration overtaken by a change may
leave `p_k` in the limits of the old options, and if the stopper ends the thread
then, nothing repairs it while the qdisc stays: the property names that outcome,
and TLC refutes it without the exception. `SamplesNeverRaw` speaks of two
configurations, since a change may come between the two tests of the clamp.

`SuccessIsReal` has no converse: a request whose acknowledgement is lost was
executed and is reported as failed. It takes two lost replies for an
acknowledgement to be left behind in the socket (a dump given up, and its
remains met by a later request that then fails as well), after which only the
request number keeps the next command from taking it for its own; that is why
the run has four lines and two mishaps. `ListingExact` says what a sticky
`filter_ifindex` leaves true: after one listing for a device, every later
listing of the batch shows only that device. `ShownAsTyped` is about
options that were typed and that `rbfgrad_dump` answers with. Of the others
nothing is claimed: the defaults and the range checks of `rbfgrad_parse_opt`
have no effect on what is sent, and `p_min`, `p_init` and `ecn` are missing from
the answer; `PROJECT.json` lists this among the hazards. `OnceNamed` allows tc
to act on an interface that has meanwhile taken over a name.
The liveness property of `PsoWorkqueue` makes no claim once
`init_waitqueue_head` has run while the waker of the round before held the lock
(`relocked`), which the code does not exclude.

`qstats.backlog` is not always the size of the queue. A change or a graft leaves
the bytes of the discarded packets in it. A dump stores the child's backlog over
it without the root lock: if it stores between the child's part of a packet
operation and the parent's, or if packets came or went since it read, or if the
child is a classful one, which keeps no backlog of its own, the count is wrong
afterwards, and stays so until a reset or a dump that meets nobody.
`BacklogExact` says that nothing else makes it wrong.

Every property has a mutant in `PROJECT.json`: a change of one mapped
definition, as a plausible slip in the code would be, under which TLC finds the
property violated. The mutated definitions stand before the originals and are
marked as such.

### Bounds

* `accounting`: three packets of one or two bytes into a 3-byte `bfifo`, so
  that it overflows; three kinds of children; two option sets, with and without
  ECN and with and without a new child; one sample in two packets; dumps at any
  time.
* `sampling`: a sample for each packet, three slots, so that the log fills and
  overwrites its last slot; the smallest window that holds all three errors;
  two references, so that samples of different configurations differ. No dumps,
  which do not touch the samples.
* `controller`: two option sets with overlapping ranges, so that a value may be
  legal in one and not in the other; the negative sign of the jacobian, with
  which a gain may fall below 0; gains up to `MaxGain`, `GainsAtBound` being the
  step that leaves a larger one unstored; two packets, so that the error changes
  while it is being read. No ECN, no dumps and no grafts: they touch nothing the
  thread uses, and their interleavings are those of `accounting`.
* `swarm`: two particles, two rounds, two iterations, two targets and two hidden
  layers, so that the same weight has several errors; the steps of one change at
  any points, across the end of an iteration too; initial velocities beyond the
  limit.
* `scripted`, `use_after_free`: two installations, as many as it takes for the
  global pointer to be replaced.
* `read_log`: batches of three in five slots: a full batch, and a batch that
  starts on the last slot but one; eight samples, so that the log saturates and
  is refilled after a reset; rows of two sizes, so that a batch may and may not
  fit.
* `trace_fifo`: a ring of 8 bytes (the kfifo's sizes are powers of two) and
  records of 3, so that the third record
  fits in part and copies wrap; three records and two openings in each loading,
  by two readers that may meet; two rows for an opening.
* `pso_barrier`: three particles, seven rounds, any initial `cnt2`.
* `tc_batch`: two interfaces and three names, so that a name may be taken over;
  four lines; two mishaps, renames and lost replies counted together. Which
  interface starts with which name is fixed, names being interchangeable.

`CHECK_DEADLOCK FALSE` everywhere: the packet bounds, the end of `read.sh`, the
end of the last installation, of the learning and of the batch stop the system.

### Fairness

* `FairAqmSpec`: weak fairness of the controller while it runs, and of a change
  that has begun. The thread takes no lock, and `schedule_timeout` without a
  task state returns at once, so nothing blocks it; a change under the root lock
  waits for nothing. The stopper may end the thread after any iteration, and
  nothing is assumed about whether or when it does.
* `FairSpec` of `RbfgradThreads`: weak fairness of each thread and of time.
* `FairSpec` of `TraceFifo`: weak fairness of each reader that has the file open;
  it takes no lock, and no call it makes waits for another process.
* `Spec` of `PsoWorkqueue`: weak fairness of `pso_learn` and of each work item,
  which the scheduler and the workqueue give to every runnable thread.

No fairness is assumed of packets, of the user or of the scripts.

## 4. Proofs

Eight modules of proofs, one for each specification. A theorem holds for every
value of the constants that the named assumptions of its module allow: any
number of particles, threads, installations, readers, interfaces or slots, any
length of a record, of a page or of a batch. The assumptions are what the
`#define`s of the code satisfy (positive sizes, `SAM_NUM >= 3`, `REC >= 2`,
`BUF_SIZE >= REC`, `BATCH >= 2`) and the types of the rest; the ones that say
more are named below. Every theorem is an invariant or an action property and
comes from an inductive invariant, which TLC checked on the small instance
before it was proved. The proofs have one lemma for each part of the invariant,
and in it one step for each action.

### RbfgradQdiscProofs

* `TypeCorrect`. Inductive by itself; its content is that `cyc_count` never
  skips `CYC_MAX` and `array_element` never leaves the log.
* `AccountsCorrect` (`QlenMatchesChild`, `PacketsConserved`) and `TotalsCorrect`
  (`CountersAgree`). They need each other: `PacketsConserved` speaks of `qlen`,
  and the operations that purge the child count `Len(queue)`. Both are up to the
  packet an operation has in hand (`Uncounted`). `IdleWhenFreed`
  adds that no packet is being enqueued while the qdisc is not live.
* `RefinesLossyQueue`: `Spec` implements the abstract queue, `ImplementsLossyQueue`.
  Every action is an acceptance, a loss, a departure, a drop, a purge or a
  renewal, or leaves the abstract queue alone, for every child, one that
  reorders included: the abstract queue gives its packets in any order. The
  swap of a child subtracts the old child's length from `qlen`, and is a purge
  only by `QlenMatchesChild`.
* `SamplesCorrect` (`ErrorsMatchWindow`) and `LogCorrect` (`LogErrorLag`). The
  second compares neighbouring records and a new record takes its error from
  `e_k`, so the inductive invariant adds `LogHeadCurrent`: the youngest record is
  the one `e_k` was computed from.

### RbfgradAqmProofs

Assumes `SaneConfigs` (`p_min <= p_init <= p_max`, gains not negative). The option
parser asks this of the user without insisting, and the kernel does not test it;
without it no clamp can meet both limits.

* `GainsCorrect` (`GainsFloored`), from the types and `Installed`: the thread
  works on a configuration that user space sent.
* `RangeCorrect` (`SettledInRange`). The inductive part, `ClampProgress`, is what
  an iteration that no change overtook knows at each place of the clamp: the
  limit it loaded is still in force, and past the first test `p_k` is not above
  the upper limit.
* `SamplesClean` (`SamplesNeverRaw`). Here iterations that were overtaken count
  too, so `RawOnlyInClamp` speaks of an upper and a lower limit of some
  configurations instead of those in force.
* `RefinesQdisc` and `AqmRefinesLossyQueue`: the composition implements
  `RbfgradQdisc!Spec`, and through it the lossy queue. Hypothesis: `Probs = Int`.
  `RbfgradQdisc` lets its controller store any member of `Probs`; the thread
  stores what the PID sum gives, which is any integer.

### RbfgradSwarmProofs

* `BestCorrect` (`DecidesOnBestTried`), `BestFalls` (`GbestvalFalls`), both for
  iterations that no step of a change fell into. `PbestTried` and `TriedCovered` are the two
  halves of "best": each `pbestval` is the error of a position that was tried,
  and whatever was tried, some `pbestval` is as good. `GbestCurrent` ties
  `gbest`, `gbestval` and `index` together; while the particles are evaluated
  again it is weaker, since `pbestval` may have fallen and `gbestval` not yet.
  The error is the squared distance to the target, as in the model; the number
  of particles, rounds and changes is any.

### RbfgradThreadsProofs

Under the hypothesis `LongRun`, `RunTime > PROB_TIME + 4 * LATENCY`:
`UsesLiveQdisc` (`NoUseAfterFree`), `CodeOutlives` (`CodeOutlivesThreads`),
`StopperFindsItsOwn` (`StopsOwnController`). The invariant gives every
installation of an orderly history one of four stages (`Fresh`, `Sleeping`,
`Stopping`, `Stopped`), with bounds on its age in each, and says that no thread
owes a step for longer than `LATENCY` and that one qdisc at most is installed.
The bound is the best: TLC finds a violation with one tick less.

### QueueDataProofs

* `ReadsInArray` (`RowsInArray`) and `FileInPlace` (`RowsInPlace`), from
  `PlaceInv`: `i` is a multiple of `BATCH`, and in a batch `l`,
  `queue_array_count` and `count` all follow from `i` and `*pos`. It is the
  conjunct `pos = 0 => l + 1 \in Slots` that makes the unchecked first call of
  `l_next` harmless.
* `FileInTimeOrder` (`RowsInTimeOrder`), from `TimeInv`. The slots written since
  the last reset hold newer samples than the others (`LogOrdered`), rows read are
  older than what stands behind their slot (`RowsOlder`), and a row that passed
  the test of `l_next` is new even if the log was reset after the test
  (`NextRowNew`).
* `BatchDelivers` (`CompleteUnlessCut`).

### TraceFifoProofs

Three invariants, each on top of the first:

* `CtlInv` gives `FifoCorrect` (`FifoBounded`) and `FreeCorrect`
  (`FreedUntouched`). Without a race the probe never overfills the
  ring, what it has copied and not yet published included (`NeverOverfull`), and
  there is something to take; and no reader is in the middle of a copy between
  the two steps of `kfifo_alloc` (`NoneInAlloc`).
* `StoreInv` gives `RealignCorrect` (`RowsRealign`) and `AccountCorrect`
  (`RecordsAccounted`). It lays the stream of all bytes ever stored over the ring
  (`Stream[p]` is the ring at `p % BUF_SIZE`) and says that between `out` and
  `in` there are whole records (`Aligned`), behind them what the probe is about
  to publish (`Pending`), and that the first part of a record was noted as torn
  before it was published (`TornKnown`).
* `OrderInv` gives `OrderCorrect` (`StreamInOrder`): the stream is in order and
  all of it comes after the last byte a reader took.

The lemmas on `%` say that positions less than `BUF_SIZE` apart have different
places in the ring, hence that a copy disturbs nothing between `out` and `in`.

### PsoWorkqueueProofs

* `BarrierCorrect` (`RoundComplete`), from `CountMatches`: `task_run_count` is the
  number of items that have still to count down, among them those queued again
  while their worker is still waking and those the loop has not queued yet
  (`Todo`). So it reaches zero once, and not early. The hypothesis on the number of
  particles is `PsoAssumption`, see section 2.

### TcBatchProofs

Assumes that interfaces start with different names, as in the kernel.

* `SuccessCorrect` (`SuccessIsReal`) and `ExitCorrect` (`ExitZeroMeansDone`). They
  rest on `AckInv`: the acknowledgement of the last request is in the socket,
  unless a reply was lost, and says truly whether the request was executed;
  older messages have older numbers.
* `AnswerCorrect` (`AnswerComes`), from `AckInv` and, for dumps, `EndInv`: a dump
  that is not over has a part in the socket whose receipt makes the kernel go on.
* `ListingCorrect` (`ListingExact`), from `DumpInv` (every interface was shown, is
  in the queue, or is still to come; the end comes last), `RowInv` and `ShownInv`
  (rows are in the order of their indices, with what the kernel has).
* `NamesCorrect` (`OnceNamed`) from `NameInv`, `OptionsCorrect` (`ShownAsTyped`)
  from `OptionInv`.

### Only model-checked

* Liveness: `RangeRestored`, `ControllerStopped`, `StopHonoured`, `ReadEnds`,
  `BarrierOpens`. The prover has no rules for fairness.
* `BacklogExact`: it sums the lengths of the packets in a sequence, and what a
  recursive sum gives after a packet is appended takes an induction over data.
* That the three violated properties are violated: a counterexample is its own
  proof.

## 5. Not modelled

* Floating-point arithmetic, `exp.h`, `fabs.h`, and the FPU sections of the
  kernel code.
* What the network computes: the controller model leaves the result of the
  swarm open, and the swarm model has the identity for a network. `rbf.h` is
  dead code.
* Two rbfgrad qdiscs at a time share the log and the sampling counter, which are
  globals; `RbfgradQdisc` has one at a time, `RbfgradThreads` several.
* The numbers of `pso.h`, and with them the update of `Center` and `SP` that each
  worker makes without a lock; its memory management.
* The second tracepoint module and its converter, whose probe has no body, and
  the conversion of numbers in the converters.
* `test/transfer.c`, a sequential copy of the collected file that skips a fixed
  number of lines: it goes wrong only on a file of another shape.
* Tearing of a single double or of one record of the log: a load or a store of
  one variable is atomic, a record is written in one step.
* A failing `kfifo_alloc`, `proc_create` or `rtnl_open`.
* Most of the repository is a copy of iproute2 3.1.0 (about 48000 of its 52000
  lines of C): `ip`, `ss`, `netem`, the other queue disciplines, classifiers and
  actions. None of it runs when rbfgrad is configured or used, and none of it is
  the work of this project. Modelled of it is the way an rbfgrad command takes.
  Of the project's own code the map covers half of the lines; the rest is
  numerics, comments, dead code and include lines.

## 6. Plan

Modelled, in this order: `RbfgradQdisc` with its proofs, `RbfgradAqm`,
`RbfgradThreads`, `QueueData`, `RbfgradSwarm`, `LossyQueue`, `TraceFifo`,
`PsoWorkqueue`, `TcBatch`. Nothing that runs concurrently or keeps state is left
among the components that are built.

Proved: every safety invariant and action property that a passing run checks,
`BacklogExact` excepted, and both refinements. Left:

1. `BacklogExact`, if the sum can be had from a history of the bytes that came
   and went, which TLC would have to tie to the queue.
2. Shorter proofs where a step was split further than a reader needs.
