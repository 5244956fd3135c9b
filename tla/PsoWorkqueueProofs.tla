------------------------- MODULE PsoWorkqueueProofs -------------------------
(***************************************************************************)
(* What TLAPS proves of PsoWorkqueue for every number of particles and      *)
(* workers, every MaxEpoch and every ergrdep.                               *)
(***************************************************************************)
EXTENDS PsoWorkqueue, FiniteSetTheorems, TLAPS

(* The items that have yet to count down in this round: queued, running,    *)
(* queued again behind a worker that is still waking pso_learn up for the   *)
(* round before, or not reached by the loop that queues them.               *)
Busy == {"queued", "run", "count"}
Todo == {w \in Works : \/ work[w] \in Busy
                       \/ w \in again
                       \/ pc = "queue" /\ w >= i}

(* An item is queued again only while its worker is still waking; and items *)
(* the loop has not reached are those the last round is done with.          *)
QueueOrder ==
    /\ \A w \in again : work[w] \in {"wake", "unlock"}
    /\ pc = "queue" =>
         /\ i \in 0..ParticleNum
         /\ \A w \in Works : w >= i => work[w] \notin Busy /\ w \notin again

(* The count is that of the items still to do, so that it reaches zero      *)
(* neither early nor twice.                                                 *)
CountMatches == task_run_count = Cardinality(Todo)

(* Outside Todo, and once evaluated, an error is of this round.             *)
ErrorsCurrent ==
    \A w \in Works : (w \notin Todo \/ work[w] = "count") => SSE[w] = round

NothingLeft == pc \in {"set", "collect", "done"} => Todo = {}

(* The converged epochs, where the loop goes on.                            *)
Unconverged == pc # "done" => cnt2 <= ergrdep

BarrierInv ==
    /\ TypeOK /\ QueueOrder /\ CountMatches /\ ErrorsCurrent /\ NothingLeft
    /\ Unconverged

-----------------------------------------------------------------------------
(* There are THREAD_NUM items, and their number is finite.                  *)
LEMMA WorksFinite == IsFiniteSet(Works) /\ Cardinality(Works) = THREAD_NUM
<1>1. 0 \in Int /\ ParticleNum - 1 \in Int /\ ~(0 > ParticleNum - 1)
  BY PsoAssumption
<1> QED BY <1>1, FS_Interval, PsoAssumption DEF Works

(* A set of items is finite and no larger than THREAD_NUM.                  *)
LEMMA ItemsFinite ==
    ASSUME NEW T \in SUBSET Works
    PROVE  /\ IsFiniteSet(T) /\ Cardinality(T) \in 0..THREAD_NUM
           /\ Cardinality(T) = 0 <=> T = {}
<1>1. IsFiniteSet(T) /\ Cardinality(T) <= THREAD_NUM
  BY WorksFinite, FS_Subset
<1>2. Cardinality(T) \in Nat
  BY <1>1, FS_CardinalityType
<1> QED BY <1>1, <1>2, FS_EmptySet, PsoAssumption

(* Before the first round nothing is queued and every error is of round 0.  *)
LEMMA InitBarrier == Init => BarrierInv
<1> SUFFICES ASSUME Init PROVE BarrierInv
  OBVIOUS
<1>1. TypeOK
  <2>1. enlisted \in BOOLEAN /\ relocked \in BOOLEAN
    BY DEF Init
  <2>2. cnt2 \in -1..ergrdep+1 /\ task_run_count \in 0..THREAD_NUM
    BY PsoAssumption DEF Init
  <2>3. /\ work \in [Works -> {"idle", "queued", "run", "count", "wake", "unlock"}]
        /\ SSE \in [Works -> 0..round]
    BY DEF Init
  <2> QED BY <2>1, <2>2, <2>3 DEF Init, TypeOK
<1>2. Todo = {}
  BY DEF Init, Todo, Busy
<1>3. CountMatches
  BY <1>2, FS_EmptySet DEF Init, CountMatches
<1>4. QueueOrder /\ ErrorsCurrent /\ NothingLeft /\ Unconverged
  BY <1>2, PsoAssumption DEF Init, QueueOrder, ErrorsCurrent, NothingLeft, Unconverged
<1> QED BY <1>1, <1>3, <1>4 DEF BarrierInv

(* The next round makes every item one that is still to do: the count is    *)
(* THREAD_NUM because there are as many items.                              *)
LEMMA SetBarrierKeeps == BarrierInv /\ SetBarrier => BarrierInv'
<1> SUFFICES ASSUME BarrierInv, SetBarrier PROVE BarrierInv'
  OBVIOUS
<1> USE DEF BarrierInv, SetBarrier, workVars
<1>1. Todo = {}
  BY DEF NothingLeft
<1>2. Todo' = Works
  BY PsoAssumption DEF Todo, Works
<1>3. CountMatches'
  BY <1>2, WorksFinite DEF CountMatches, StartCount
<1>4. QueueOrder'
  BY <1>1, PsoAssumption DEF QueueOrder, Todo, TypeOK
<1>5. ErrorsCurrent'
  BY <1>1, <1>2 DEF ErrorsCurrent, Todo, Busy
<1>6. relocked' \in BOOLEAN
  BY DEF TypeOK
<1>7. SSE' \in [Works -> 0..round']
  BY DEF TypeOK
<1>8. TypeOK'
  BY <1>6, <1>7, PsoAssumption DEF TypeOK, StartCount
<1> QED BY <1>3, <1>4, <1>5, <1>8 DEF NothingLeft, Unconverged

(* Queueing item i changes who has it, not whether it is still to do.       *)
LEMMA QueueWorkKeeps == BarrierInv /\ QueueWork => BarrierInv'
<1> SUFFICES ASSUME BarrierInv, QueueWork PROVE BarrierInv'
  OBVIOUS
<1> USE DEF BarrierInv, QueueWork, queueVars
<1>0. i \in Works /\ i \in Nat /\ pc = "queue" /\ pc' = "queue" /\ i' = i + 1
  BY DEF TypeOK
<1>1. work[i] \in {"idle", "wake", "unlock"} /\ i \notin again
  BY <1>0 DEF QueueOrder, TypeOK, Busy
<1>2. /\ \A w \in Works : w # i => work'[w] = work[w]
      /\ again' = again \/ again' = again \cup {i}
      /\ work[i] = "idle" => work'[i] = "queued" /\ again' = again
      /\ work[i] # "idle" => work'[i] = work[i] /\ again' = again \cup {i}
  BY <1>0, <1>1 DEF TypeOK
<1>3. TypeOK'
  <2>1. /\ work' \in [Works -> {"idle", "queued", "run", "count", "wake", "unlock"}]
        /\ again' \subseteq Works
    BY <1>0 DEF TypeOK
  <2> QED BY <1>0, <2>1 DEF TypeOK
<1>4. \A w \in Works : w >= i' <=> (w >= i /\ w # i)
  BY <1>0 DEF Works
<1>5. Todo' = Todo
  <2>1. ASSUME NEW w \in Works PROVE w \in Todo' <=> w \in Todo
    <3>1. CASE w = i
      BY <1>0, <1>1, <1>2, <3>1 DEF Todo, Busy
    <3>2. CASE w # i
      BY <1>0, <1>2, <1>4, <3>2 DEF Todo
    <3> QED BY <3>1, <3>2
  <2> QED BY <2>1 DEF Todo
<1>6. CountMatches' /\ NothingLeft' /\ Unconverged'
  BY <1>0, <1>5 DEF CountMatches, NothingLeft, Unconverged
<1>7. ErrorsCurrent'
  BY <1>1, <1>2, <1>5 DEF ErrorsCurrent
<1>8. QueueOrder'
  <2>1. i' \in 0..ParticleNum
    BY <1>0, PsoAssumption DEF Works
  <2>2. \A w \in again' : work'[w] \in {"wake", "unlock"}
    BY <1>0, <1>1, <1>2 DEF QueueOrder, TypeOK
  <2>3. \A w \in Works : w >= i' => work'[w] \notin Busy /\ w \notin again'
    BY <1>0, <1>2, <1>4 DEF QueueOrder
  <2> QED BY <2>1, <2>2, <2>3 DEF QueueOrder
<1> QED BY <1>3, <1>6, <1>7, <1>8

(* The steps of pso_learn behind the loop that queues the items do not      *)
(* touch them, and the test lets it pass only when none is left to do.      *)
LEMMA MainKeeps ==
    BarrierInv /\ (AllQueued \/ PrepareToWait \/ TestCount \/ FirstCollect \/ Epoch)
      => BarrierInv'
<1> SUFFICES ASSUME BarrierInv,
                    AllQueued \/ PrepareToWait \/ TestCount \/ FirstCollect \/ Epoch
             PROVE  BarrierInv'
  OBVIOUS
<1> USE DEF BarrierInv, workVars, queueVars
<1>1. /\ UNCHANGED <<work, again, SSE, round, task_run_count, relocked>>
      /\ pc' # "queue"
      /\ pc = "queue" => \A w \in Works : ~(w >= i)
  <2>1. CASE AllQueued
    BY <2>1, PsoAssumption DEF AllQueued, QueueOrder, Works
  <2>2. CASE PrepareToWait \/ TestCount \/ FirstCollect \/ Epoch
    BY <2>2 DEF PrepareToWait, TestCount, FirstCollect, Epoch
  <2> QED BY <2>1, <2>2
<1>2. Todo' = Todo
  BY <1>1 DEF Todo
<1>3. CountMatches' /\ ErrorsCurrent' /\ QueueOrder'
  BY <1>1, <1>2 DEF CountMatches, ErrorsCurrent, QueueOrder
<1>4. NothingLeft'
  <2>1. CASE TestCount
    <3>1. pc' \in {"set", "collect", "done"} => Cardinality(Todo) = 0
      BY <2>1 DEF TestCount, CountMatches
    <3>2. Todo \subseteq Works
      BY DEF Todo
    <3> QED BY <1>2, <3>1, <3>2, ItemsFinite DEF NothingLeft
  <2>2. CASE AllQueued \/ PrepareToWait \/ FirstCollect \/ Epoch
    BY <1>2, <2>2 DEF NothingLeft, AllQueued, PrepareToWait, FirstCollect, Epoch
  <2> QED BY <2>1, <2>2
<1>5. Unconverged' /\ cnt2' \in -1..ergrdep+1 /\ i' \in Nat
  <2>1. CASE Epoch
    BY <2>1, PsoAssumption DEF Epoch, AfterInner, Unconverged, TypeOK
  <2>2. CASE AllQueued \/ PrepareToWait \/ TestCount \/ FirstCollect
    BY <2>2 DEF AllQueued, PrepareToWait, TestCount, FirstCollect, Unconverged, TypeOK
  <2> QED BY <2>1, <2>2
<1>6. enlisted' \in BOOLEAN
  BY DEF AllQueued, PrepareToWait, TestCount, FirstCollect, Epoch, TypeOK
<1>7. pc' \in {"set", "queue", "enlist", "test", "asleep", "collect", "done"}
  BY DEF AllQueued, PrepareToWait, TestCount, FirstCollect, Epoch
<1>8. TypeOK'
  BY <1>1, <1>5, <1>6, <1>7 DEF TypeOK
<1> QED BY <1>3, <1>4, <1>5, <1>8

(* The last thing a worker does to the round is to count down, by one and   *)
(* once: after it the item is no longer to do.                              *)
LEMMA CountDownKeeps ==
    ASSUME BarrierInv, NEW w \in Works, CountDown(w)
    PROVE  BarrierInv'
<1> USE DEF BarrierInv, CountDown, mainVars
<1>1. w \in Todo /\ w \notin again /\ SSE[w] = round /\ (pc = "queue" => ~(w >= i))
  BY DEF Todo, Busy, QueueOrder, ErrorsCurrent
<1>2. /\ \A v \in Works : v # w => work'[v] = work[v]
      /\ work'[w] \in {"wake", "idle"}
      /\ again' = again
      /\ work' \in [Works -> {"idle", "queued", "run", "count", "wake", "unlock"}]
  BY <1>1 DEF TypeOK, Finished
<1>3. Todo' = Todo \ {w}
  BY <1>1, <1>2 DEF Todo, Busy
<1>4. Todo \subseteq Works /\ Todo' \subseteq Works
  BY DEF Todo
<1>5. CountMatches' /\ task_run_count' \in 0..THREAD_NUM
  BY <1>1, <1>3, <1>4, ItemsFinite, FS_RemoveElement DEF CountMatches
<1>6. TypeOK'
  BY <1>2, <1>5 DEF TypeOK
<1>7. ErrorsCurrent'
  BY <1>1, <1>2, <1>3 DEF ErrorsCurrent
<1>8. QueueOrder'
  BY <1>1, <1>2 DEF QueueOrder, Busy, TypeOK
<1>9. NothingLeft' /\ Unconverged'
  BY <1>3 DEF NothingLeft, Unconverged
<1> QED BY <1>5, <1>6, <1>7, <1>8, <1>9

(* The other steps of a worker leave the set of items to do as it is.       *)
LEMMA WorkerKeeps ==
    ASSUME BarrierInv, NEW w \in Works,
           Run(w) \/ Evaluate(w) \/ WakeUp(w) \/ Unlock(w)
    PROVE  BarrierInv'
<1> USE DEF BarrierInv, mainVars, queueVars, At
<1>1. /\ \A v \in Works : v # w => work'[v] = work[v]
      /\ work' \in [Works -> {"idle", "queued", "run", "count", "wake", "unlock"}]
      /\ again' \subseteq again
      /\ UNCHANGED <<i, round, cnt2, task_run_count, enlisted, relocked>>
      /\ pc' = pc \/ (pc = "asleep" /\ pc' = "enlist")
  BY DEF Run, Evaluate, WakeUp, Unlock, Finished, TypeOK
<1>2. /\ (work'[w] \in Busy \/ w \in again') <=> (work[w] \in Busy \/ w \in again)
      /\ \A v \in Works : v # w => (v \in again' <=> v \in again)
      /\ w \in again' => work'[w] \in {"wake", "unlock"}
  BY DEF Run, Evaluate, WakeUp, Unlock, Finished, Busy, QueueOrder, TypeOK
<1>3. Todo' = Todo
  <2>1. ASSUME NEW v \in Works PROVE v \in Todo' <=> v \in Todo
    <3>1. CASE v = w
      BY <1>1, <1>2, <3>1 DEF Todo
    <3>2. CASE v # w
      BY <1>1, <1>2, <3>2 DEF Todo
    <3> QED BY <3>1, <3>2
  <2> QED BY <2>1 DEF Todo
<1>4. CountMatches' /\ NothingLeft' /\ Unconverged'
  BY <1>1, <1>3 DEF CountMatches, NothingLeft, Unconverged
<1>5. /\ SSE' \in [Works -> 0..round]
      /\ \A v \in Works : SSE'[v] = SSE[v] \/ (v = w /\ SSE'[v] = round)
      /\ work'[w] = "count" => SSE'[w] = round
  BY DEF Run, Evaluate, WakeUp, Unlock, Finished, TypeOK
<1>6. TypeOK'
  BY <1>1, <1>5 DEF TypeOK
<1>7. ErrorsCurrent'
  BY <1>1, <1>3, <1>5 DEF ErrorsCurrent
<1>8. QueueOrder'
  <2>1. \A v \in again' : work'[v] \in {"wake", "unlock"}
    BY <1>1, <1>2 DEF QueueOrder, TypeOK
  <2>2. ASSUME pc' = "queue", NEW v \in Works, v >= i'
        PROVE  work'[v] \notin Busy /\ v \notin again'
    <3>1. work[v] \notin Busy /\ v \notin again
      BY <1>1, <2>2 DEF QueueOrder
    <3> QED BY <1>1, <1>2, <3>1
  <2> QED BY <1>1, <2>1, <2>2 DEF QueueOrder
<1> QED BY <1>4, <1>6, <1>7, <1>8

(* The barrier's book-keeping holds for any number of workers, however      *)
(* their steps fall between those of pso_learn.                             *)
THEOREM BarrierInvariant == Spec => []BarrierInv
<1>1. BarrierInv /\ [Next]_vars => BarrierInv'
  <2> SUFFICES ASSUME BarrierInv, [Next]_vars PROVE BarrierInv'
    OBVIOUS
  <2>1. CASE PsoLearn
    BY <2>1, SetBarrierKeeps, QueueWorkKeeps, MainKeeps DEF PsoLearn
  <2>2. CASE \E w \in Works : Callback(w)
    BY <2>2, CountDownKeeps, WorkerKeeps DEF Callback
  <2>3. CASE UNCHANGED vars
    <3>1. UNCHANGED <<pc, i, round, cnt2, task_run_count, enlisted, relocked,
                      work, again, SSE>>
      BY <2>3 DEF vars, mainVars, queueVars, workVars
    <3>2. Todo' = Todo
      BY <3>1 DEF Todo
    <3>3. TypeOK' /\ QueueOrder' /\ Unconverged'
      BY <3>1 DEF BarrierInv, TypeOK, QueueOrder, Unconverged
    <3> QED BY <3>1, <3>2, <3>3 DEF BarrierInv, CountMatches, ErrorsCurrent, NothingLeft
  <2> QED BY <2>1, <2>2, <2>3 DEF Next
<1> QED BY <1>1, InitBarrier, PTL DEF Spec

(* Type correctness; in particular task_run_count never falls below zero    *)
(* nor rises above THREAD_NUM.                                              *)
THEOREM PsoTypeCorrect == Spec => []TypeOK
BY BarrierInvariant, PTL DEF BarrierInv

(* Behind the barrier every error is of the round just waited for and no    *)
(* worker is still computing, although the waker of one round may be at     *)
(* work in the next and its item queued again behind it.                    *)
THEOREM BarrierCorrect == Spec => []RoundComplete
<1>1. BarrierInv => RoundComplete
  BY DEF BarrierInv, RoundComplete, NothingLeft, ErrorsCurrent, Todo, Busy, TypeOK
<1> QED BY <1>1, BarrierInvariant, PTL
=============================================================================
