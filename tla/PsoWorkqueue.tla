---------------------------- MODULE PsoWorkqueue ----------------------------
(***************************************************************************)
(* include/pso.h, the parallel version of the particle swarm: pso_learn     *)
(* puts one work item per particle on a workqueue, waits until              *)
(* task_run_count has come down to zero and uses the errors the workers     *)
(* left in SSE.  No file of the build includes it any more; the serial loop *)
(* of module RbfgradSwarm has taken its place.                              *)
(*                                                                         *)
(* An error is the number of the round that computed it.  What the numbers  *)
(* are, and how the swarm moves, is left open: what it decides is whether   *)
(* an epoch counts as converged, and tr[ParticleNum] and cnt2, which the    *)
(* test reads, are not initialised.  pso_learn runs in a kernel thread, so  *)
(* no signal ends wait_event_interruptible early.  External: the workqueue, *)
(* which runs queued items in any order and beside each other, and          *)
(* wait_event and wake_up, whose wait queue has a lock of its own.          *)
(***************************************************************************)
EXTENDS Integers

CONSTANTS
    THREAD_NUM,   \* where task_run_count starts
    ParticleNum,  \* work items
    MaxEpoch,
    ergrdep,      \* converged epochs in a row that end the learning
    MaxRounds     \* bound: rounds of the swarm

(* A hypothesis on the caller, which no file of the repository contains:    *)
(* THREAD_NUM is a macro and ParticleNum a field of struct pso.  rbf_work   *)
(* has THREAD_NUM elements; with fewer particles nobody would count down to *)
(* zero, and with more the barrier would open early.                        *)
ASSUME PsoAssumption ==
    /\ THREAD_NUM \in Nat \ {0} /\ ParticleNum = THREAD_NUM
    /\ MaxEpoch \in Nat /\ ergrdep \in Nat \ {0} /\ MaxRounds \in Nat

Works == 0..ParticleNum-1

VARIABLES
    pc,              \* of pso_learn
    i,               \* its loop variable
    round,           \* rounds started, the one before the main loop included
    cnt2,            \* converged epochs in a row
    task_run_count,
    enlisted,        \* pso_learn is on the wait queue
    work,            \* each item: idle, queued, run, count, wake, unlock
    again,           \* the items queued while they were still running
    SSE,             \* the round that computed each error, 0 for none
    relocked         \* history: the wait queue was initialised under a waker

mainVars  == <<pc, i, round, cnt2>>
queueVars == <<task_run_count, enlisted, relocked>>
workVars  == <<work, again, SSE>>
vars == <<mainVars, queueVars, workVars>>

(* cnt2 starts with whatever is on the stack.                               *)
Init ==
    /\ pc = "set" /\ i = 0 /\ round = 0
    /\ cnt2 \in -1..ergrdep
    /\ task_run_count = 0 /\ enlisted = FALSE /\ relocked = FALSE
    /\ work = [w \in Works |-> "idle"] /\ again = {}
    /\ SSE = [w \in Works |-> 0]

-----------------------------------------------------------------------------
(* pso_learn *)

(* Mutant: the count leaves out the last thread.                            *)
StartCount_OneLess == THREAD_NUM - 1

StartCount == THREAD_NUM

(* atomic_set and init_waitqueue_head.                                      *)
SetBarrier ==
    /\ pc = "set" /\ round < MaxRounds
    /\ round' = round + 1
    /\ task_run_count' = StartCount
    /\ relocked' = (relocked \/ \E w \in Works : work[w] = "unlock")
    /\ i' = 0
    /\ pc' = "queue"
    /\ UNCHANGED <<cnt2, enlisted, workVars>>

(* queue_work: nothing happens to an item that is pending already.          *)
QueueWork ==
    /\ pc = "queue" /\ i \in Works
    /\ IF work[i] = "idle"
       THEN work' = [work EXCEPT ![i] = "queued"] /\ UNCHANGED again
       ELSE /\ again' = IF work[i] = "queued" THEN again ELSE again \cup {i}
            /\ UNCHANGED work
    /\ i' = i + 1
    /\ UNCHANGED <<pc, round, cnt2, queueVars, SSE>>

AllQueued ==
    /\ pc = "queue" /\ i \notin Works
    /\ pc' = "enlist"
    /\ UNCHANGED <<i, round, cnt2, queueVars, workVars>>

(* Mutant: the thread never gets on the wait queue.                         *)
PrepareToWait_Missing ==
    /\ pc = "enlist"
    /\ pc' = "test"
    /\ UNCHANGED <<i, round, cnt2, queueVars, workVars>>

(* wait_event_interruptible: on the queue first ...                         *)
PrepareToWait ==
    /\ pc = "enlist"
    /\ enlisted' = TRUE
    /\ pc' = "test"
    /\ UNCHANGED <<i, round, cnt2, task_run_count, relocked, workVars>>

(* ... and then the test, so that no wake-up is missed in between.          *)
TestCount ==
    /\ pc = "test"
    /\ IF task_run_count = 0
       THEN pc' = "collect" /\ enlisted' = FALSE
       ELSE pc' = "asleep" /\ UNCHANGED enlisted
    /\ UNCHANGED <<i, round, cnt2, task_run_count, relocked, workVars>>

(* The loop that queues the items uses the loop variable of the epochs and  *)
(* leaves it at ParticleNum, so MaxEpoch does not count epochs.             *)
AfterInner == ParticleNum

(* The errors become pbestval and gbest.  The first round has no epoch.     *)
FirstCollect ==
    /\ pc = "collect" /\ round = 1
    /\ pc' = IF 0 < MaxEpoch THEN "set" ELSE "done"
    /\ UNCHANGED <<i, round, cnt2, queueVars, workVars>>

(* An epoch of the main loop: gbest, the move of the swarm, the test for    *)
(* convergence, and the loop's own test.                                    *)
Epoch ==
    /\ pc = "collect" /\ round > 1
    /\ i' = AfterInner + 1
    /\ \E near \in BOOLEAN :
         /\ cnt2' = IF near THEN cnt2 + 1 ELSE 0
         /\ pc' = IF near /\ cnt2' >= ergrdep THEN "done"
                  ELSE IF i' < MaxEpoch THEN "set" ELSE "done"
    /\ UNCHANGED <<round, queueVars, workVars>>

-----------------------------------------------------------------------------
(* get_rbf_SSE_work_callback_func on item w.                                *)

At(w, here, there) == work[w] = here /\ work' = [work EXCEPT ![w] = there]

Run(w) ==
    /\ At(w, "queued", "run")
    /\ UNCHANGED <<mainVars, queueVars, again, SSE>>

Evaluate(w) ==
    /\ At(w, "run", "count")
    /\ SSE' = [SSE EXCEPT ![w] = round]
    /\ UNCHANGED <<mainVars, queueVars, again>>

(* An item that was queued again meanwhile runs again.                      *)
Finished(w) == IF w \in again THEN "queued" ELSE "idle"

CountDown(w) ==
    /\ work[w] = "count"
    /\ task_run_count' = task_run_count - 1
    /\ IF task_run_count' = 0
       THEN work' = [work EXCEPT ![w] = "wake"] /\ UNCHANGED again
       ELSE /\ work' = [work EXCEPT ![w] = Finished(w)]
            /\ again' = again \ {w}
    /\ UNCHANGED <<mainVars, enlisted, relocked, SSE>>

(* wake_up_interruptible: lock the queue and wake who is on it ...          *)
WakeUp(w) ==
    /\ At(w, "wake", "unlock")
    /\ pc' = IF enlisted /\ pc = "asleep" THEN "enlist" ELSE pc
    /\ UNCHANGED <<i, round, cnt2, queueVars, again, SSE>>

(* ... and unlock it.                                                       *)
Unlock(w) ==
    /\ At(w, "unlock", Finished(w))
    /\ again' = again \ {w}
    /\ UNCHANGED <<mainVars, queueVars, SSE>>

PsoLearn == \/ SetBarrier \/ QueueWork \/ AllQueued
            \/ PrepareToWait \/ TestCount \/ FirstCollect \/ Epoch
Callback(w) == \/ Run(w) \/ Evaluate(w) \/ CountDown(w)
               \/ WakeUp(w) \/ Unlock(w)

Next == PsoLearn \/ \E w \in Works : Callback(w)

(* The kernel schedules the thread and the workers.                         *)
Spec == /\ Init /\ [][Next]_vars
        /\ WF_vars(PsoLearn) /\ \A w \in Works : WF_vars(Callback(w))

-----------------------------------------------------------------------------
(* Type correctness; the count never falls below zero.                     *)
TypeOK ==
    /\ pc \in {"set", "queue", "enlist", "test", "asleep", "collect", "done"}
    /\ i \in Nat /\ round \in Nat /\ cnt2 \in -1..ergrdep+1
    /\ task_run_count \in 0..THREAD_NUM
    /\ enlisted \in BOOLEAN /\ relocked \in BOOLEAN
    /\ work \in [Works -> {"idle", "queued", "run", "count", "wake", "unlock"}]
    /\ again \subseteq Works
    /\ SSE \in [Works -> 0..round]

(* Behind the barrier every error is of the round just waited for, and no   *)
(* worker reads the positions that are about to move, or writes an error    *)
(* that is about to be freed.                                               *)
RoundComplete ==
    pc \in {"collect", "set", "done"} =>
      \A w \in Works : /\ SSE[w] = round
                       /\ work[w] \in {"idle", "wake", "unlock"}

(* The barrier opens: a wake-up is neither missed by the thread on its way  *)
(* to sleep nor taken from it by the waker of the round before, who may     *)
(* still be in wake_up when the next barrier is set.  Nothing is claimed    *)
(* once a wait queue has been initialised while its lock was held.          *)
BarrierOpens == pc = "queue" ~> pc = "collect" \/ relocked
=============================================================================
