------------------------ MODULE RbfgradThreadsProofs ------------------------
(***************************************************************************)
(* What TLAPS proves of RbfgradThreads for any number of installations and  *)
(* any latency of the scheduler: how long a qdisc has to stay installed for *)
(* its two threads to be gone before it.                                    *)
(***************************************************************************)
EXTENDS RbfgradThreads, TLAPS

(* The hypothesis of the theorems.  A stopper may be LATENCY late, its      *)
(* controller may take two steps more, each LATENCY late, before it sees    *)
(* that it was asked to stop, and the stopper another one to return.        *)
LongRun == RunTime > PROB_TIME + 4 * LATENCY

(* The life of installation i in an orderly history.                        *)
Fresh(i) ==
    /\ qdisc[i] = "none" /\ ctl[i] = "none" /\ stp[i] = "none"
    /\ i \notin asked
    /\ age[i] = 0 /\ ctl_lag[i] = 0 /\ stp_lag[i] = 0

(* The stopper sleeps, and tsk_prob still names this controller.            *)
Sleeping(i) ==
    /\ qdisc[i] = "live" /\ CtlRunning(i) /\ stp[i] = "asleep"
    /\ i \notin asked /\ tsk_prob = i
    /\ age[i] <= PROB_TIME + stp_lag[i]

(* kthread_stop has been called; each state of the controller it waits for  *)
(* may last LATENCY.                                                        *)
Stopping(i) ==
    /\ qdisc[i] = "live" /\ stp[i] = "waiting" /\ target[i] = i
    /\ i \in asked
    /\ \/ ctl[i] = "marking" /\ stp_lag[i] = 0
                             /\ age[i] <= PROB_TIME + LATENCY + ctl_lag[i]
       \/ ctl[i] = "testing" /\ stp_lag[i] = 0
                             /\ age[i] <= PROB_TIME + 2 * LATENCY + ctl_lag[i]
       \/ ctl[i] = "exited"  /\ age[i] <= PROB_TIME + 3 * LATENCY + stp_lag[i]

(* Both threads are gone.                                                   *)
Stopped(i) ==
    /\ qdisc[i] \in {"live", "freed"}
    /\ stp[i] = "exited" /\ target[i] = i /\ ctl[i] = "exited"

Life(i) == Fresh(i) \/ Sleeping(i) \/ Stopping(i) \/ Stopped(i)

(* No thread owes a step for longer than LATENCY.                           *)
Punctual(i) == ctl_lag[i] <= LATENCY /\ stp_lag[i] <= LATENCY

TypeInv ==
    /\ loaded \in BOOLEAN /\ orderly \in BOOLEAN
    /\ qdisc \in [Inst -> {"none", "live", "freed"}]
    /\ tsk_prob \in Int
    /\ ctl \in [Inst -> {"none", "marking", "testing", "exited"}]
    /\ asked \subseteq Inst
    /\ stp \in [Inst -> {"none", "asleep", "waiting", "exited", "crashed"}]
    /\ target \in [Inst -> Int]
    /\ age \in [Inst -> Nat]
    /\ ctl_lag \in [Inst -> Nat] /\ stp_lag \in [Inst -> Nat]

(* Every installation lives through the four stages, one of them at most is *)
(* installed, and an installed one keeps the module loaded.                 *)
OrderlyLife ==
    orderly =>
      /\ \A i \in Inst : Life(i) /\ Punctual(i)
      /\ \A i \in Inst : qdisc[i] = "live" => loaded
      /\ \A i, j \in Inst : qdisc[i] = "live" /\ qdisc[j] = "live" => i = j

LifeInv == TypeInv /\ OrderlyLife

-----------------------------------------------------------------------------
(* Every history starts with nothing installed.                             *)
LEMMA InitLife == Init => LifeInv
<1> SUFFICES ASSUME Init PROVE LifeInv
  OBVIOUS
<1>1. loaded \in BOOLEAN /\ orderly \in BOOLEAN
  BY DEF Init
<1>2. TypeInv
  BY <1>1 DEF Init, TypeInv, NULL
<1>3. OrderlyLife
  BY ThreadsAssumption DEF Init, OrderlyLife, Life, Fresh, Punctual
<1> QED BY <1>2, <1>3 DEF LifeInv

(* Each step keeps the types, orderly or not.                               *)
LEMMA NextTypeInv == TypeInv /\ [Next]_vars => TypeInv'
<1> SUFFICES ASSUME TypeInv, [Next]_vars PROVE TypeInv'
  OBVIOUS
<1> USE DEF TypeInv, timeVars
<1>1. CASE ModuleInit
  <2>1. loaded' \in BOOLEAN
    BY <1>1 DEF ModuleInit
  <2> QED BY <1>1, <2>1 DEF ModuleInit, NULL
<1>2. CASE ModuleExit
  <2>1. loaded' \in BOOLEAN
    BY <1>2 DEF ModuleExit
  <2> QED BY <1>2, <2>1 DEF ModuleExit
<1>3. ASSUME NEW i \in Inst, RbfgradInit(i) PROVE TypeInv'
  <2>1. orderly' \in BOOLEAN
    BY <1>3 DEF RbfgradInit
  <2>2. tsk_prob' \in Int
    BY <1>3, ThreadsAssumption DEF RbfgradInit, Inst, ERR
  <2>3. /\ qdisc' \in [Inst -> {"none", "live", "freed"}]
        /\ ctl' \in [Inst -> {"none", "marking", "testing", "exited"}]
        /\ stp' \in [Inst -> {"none", "asleep", "waiting", "exited", "crashed"}]
    BY <1>3 DEF RbfgradInit
  <2> QED BY <1>3, <2>1, <2>2, <2>3 DEF RbfgradInit
<1>4. ASSUME NEW i \in Inst, RbfgradDestroy(i) \/ ControllerStep(i) PROVE TypeInv'
  BY <1>4 DEF RbfgradDestroy, ControllerStep, MarkProbability, ShouldStop
<1>5. ASSUME NEW i \in Inst, StopperStep(i) PROVE TypeInv'
  <2>1. asked' \subseteq Inst
    BY <1>5 DEF StopperStep, KthreadStop, StopperReturns
  <2>2. target' \in [Inst -> Int]
    BY <1>5 DEF StopperStep, KthreadStop, StopperReturns
  <2>3. /\ stp' \in [Inst -> {"none", "asleep", "waiting", "exited", "crashed"}]
        /\ stp_lag' \in [Inst -> Nat]
    BY <1>5 DEF StopperStep, KthreadStop, StopperReturns
  <2> QED BY <1>5, <2>1, <2>2, <2>3 DEF StopperStep, KthreadStop, StopperReturns
<1>6. CASE Tick
  BY <1>6 DEF Tick
<1>7. CASE UNCHANGED vars
  BY <1>7 DEF vars
<1> QED BY <1>1, <1>2, <1>3, <1>4, <1>5, <1>6, <1>7 DEF Next

(* A thread that runs has its qdisc, and is within its time.                *)
LEMMA RunningFacts ==
    ASSUME TypeInv, OrderlyLife, orderly, NEW i \in Inst
    PROVE  /\ CtlRunning(i) \/ StpRunning(i) =>
                qdisc[i] = "live" /\ age[i] <= PROB_TIME + 4 * LATENCY
           /\ qdisc[i] = "none" => Fresh(i)
           /\ qdisc[i] = "freed" => Stopped(i)
           /\ stp[i] = "asleep" => Sleeping(i)
           /\ stp[i] = "waiting" => Stopping(i)
<1>1. Life(i) /\ Punctual(i)
  BY DEF OrderlyLife
<1>2. age[i] \in Nat /\ ctl_lag[i] \in Nat /\ stp_lag[i] \in Nat
      /\ PROB_TIME \in Nat /\ LATENCY \in Nat
  BY ThreadsAssumption DEF TypeInv
<1> QED BY <1>1, <1>2 DEF Life, Fresh, Sleeping, Stopping, Stopped, Punctual,
        CtlRunning, StpRunning

(* Loading the module zeroes tsk_prob, which no sleeping stopper needs any  *)
(* more; unloading it waits for the installed qdisc.                        *)
LEMMA ModuleKeeps ==
    ASSUME TypeInv, OrderlyLife, ModuleInit \/ ModuleExit
    PROVE  OrderlyLife'
<1> SUFFICES ASSUME orderly PROVE OrderlyLife'
  BY DEF OrderlyLife, ModuleInit, ModuleExit
<1>1. /\ UNCHANGED <<orderly, qdisc, ctl, asked, stp, target, age, ctl_lag, stp_lag>>
      /\ \A i \in Inst : qdisc[i] # "live"
  BY DEF ModuleInit, ModuleExit, timeVars, OrderlyLife
<1>2. \A i \in Inst : Life(i)' /\ Punctual(i)'
  BY <1>1 DEF OrderlyLife, Life, Fresh, Sleeping, Stopping, Stopped, Punctual
<1> QED BY <1>1, <1>2 DEF OrderlyLife

(* In an orderly history rbfgrad_init finds no other qdisc installed, so    *)
(* that no stopper is asleep whose tsk_prob it overwrites.                  *)
LEMMA InitKeeps ==
    ASSUME TypeInv, OrderlyLife, NEW i \in Inst, RbfgradInit(i)
    PROVE  OrderlyLife'
<1> SUFFICES ASSUME orderly' PROVE OrderlyLife'
  BY DEF OrderlyLife
<1>1. /\ orderly /\ loaded /\ qdisc[i] = "none"
      /\ \A j \in Inst : qdisc[j] # "live"
      /\ qdisc' = [qdisc EXCEPT ![i] = "live"]
      /\ tsk_prob' = i
      /\ ctl' = [ctl EXCEPT ![i] = "marking"]
      /\ stp' = [stp EXCEPT ![i] = "asleep"]
      /\ UNCHANGED <<loaded, asked, target, age, ctl_lag, stp_lag>>
  BY DEF RbfgradInit, timeVars
<1>2. Fresh(i)
  BY <1>1, RunningFacts
<1>3. Sleeping(i)'
  BY <1>1, <1>2, ThreadsAssumption DEF Sleeping, Fresh, TypeInv, CtlRunning
<1>4. ASSUME NEW j \in Inst, j # i PROVE Life(j)'
  <2>1. Fresh(j) \/ Stopped(j)
    BY <1>1 DEF OrderlyLife, Life, Sleeping, Stopping
  <2>2. qdisc'[j] = qdisc[j] /\ ctl'[j] = ctl[j] /\ stp'[j] = stp[j]
    BY <1>1, <1>4 DEF TypeInv
  <2> QED BY <1>1, <2>1, <2>2 DEF Life, Fresh, Stopped
<1>5. \A j \in Inst : Life(j)'
  BY <1>3, <1>4 DEF Life
<1>6. \A j \in Inst : Punctual(j)'
  BY <1>1 DEF OrderlyLife, Punctual
<1>7. \A j \in Inst : qdisc'[j] = "live" => j = i
  BY <1>1 DEF TypeInv
<1> QED BY <1>1, <1>5, <1>6, <1>7 DEF OrderlyLife

(* rbfgrad_destroy comes RunTime after rbfgrad_init at the earliest, when   *)
(* both threads are gone.                                                   *)
LEMMA DestroyKeeps ==
    ASSUME LongRun, TypeInv, OrderlyLife, NEW i \in Inst, RbfgradDestroy(i)
    PROVE  OrderlyLife'
<1> SUFFICES ASSUME orderly PROVE OrderlyLife'
  BY DEF OrderlyLife, RbfgradDestroy
<1>1. /\ qdisc[i] = "live" /\ age[i] >= RunTime
      /\ qdisc' = [qdisc EXCEPT ![i] = "freed"]
      /\ UNCHANGED <<orderly, loaded, tsk_prob, ctl, asked, stp, target, age,
                     ctl_lag, stp_lag>>
  BY DEF RbfgradDestroy, timeVars
<1>2. ~(age[i] <= PROB_TIME + 4 * LATENCY)
  BY <1>1, ThreadsAssumption DEF LongRun, TypeInv
<1>3. ~CtlRunning(i) /\ ~StpRunning(i)
  BY <1>2, RunningFacts
<1>4. Stopped(i)
  BY <1>1, <1>3 DEF OrderlyLife, Life, Fresh, Sleeping, Stopping, StpRunning
<1>5. Stopped(i)'
  BY <1>1, <1>4 DEF Stopped, TypeInv
<1>6. ASSUME NEW j \in Inst, j # i PROVE Life(j)'
  <2>1. qdisc'[j] = qdisc[j] /\ Life(j)
    BY <1>1, <1>6 DEF TypeInv, OrderlyLife
  <2> QED BY <1>1, <2>1 DEF Life, Fresh, Sleeping, Stopping, Stopped, CtlRunning
<1>7. \A j \in Inst : Life(j)'
  BY <1>5, <1>6 DEF Life
<1>8. \A j \in Inst : qdisc'[j] = "live" => qdisc[j] = "live"
  BY <1>1 DEF TypeInv
<1> QED BY <1>1, <1>7, <1>8 DEF OrderlyLife, Punctual

(* What a step of a thread of installation i does not concern.              *)
LEMMA OthersKeep ==
    ASSUME TypeInv, OrderlyLife, orderly, NEW i \in Inst,
           UNCHANGED <<orderly, loaded, qdisc, tsk_prob, age>>,
           Life(i)', Punctual(i)',
           \A j \in Inst : j # i =>
             /\ ctl'[j] = ctl[j] /\ stp'[j] = stp[j] /\ target'[j] = target[j]
             /\ (j \in asked' <=> j \in asked)
             /\ ctl_lag'[j] = ctl_lag[j] /\ stp_lag'[j] = stp_lag[j]
    PROVE  OrderlyLife'
<1>1. ASSUME NEW j \in Inst, j # i PROVE Life(j)' /\ Punctual(j)'
  <2>1. Life(j) /\ Punctual(j)
    BY DEF OrderlyLife
  <2>2. Punctual(j)'
    BY <1>1, <2>1 DEF Punctual
  <2>3. Life(j)'
    BY <1>1, <2>1 DEF Life, Fresh, Sleeping, Stopping, Stopped, CtlRunning
  <2> QED BY <2>2, <2>3
<1>2. \A j \in Inst : Life(j)' /\ Punctual(j)'
  BY <1>1
<1> QED BY <1>2 DEF OrderlyLife

(* A step of the controller pays off what it owed.                          *)
LEMMA ControllerKeeps ==
    ASSUME TypeInv, OrderlyLife, NEW i \in Inst, ControllerStep(i)
    PROVE  OrderlyLife'
<1> SUFFICES ASSUME orderly PROVE OrderlyLife'
  BY DEF OrderlyLife, ControllerStep, MarkProbability, ShouldStop
<1>0. /\ age[i] \in Nat /\ ctl_lag[i] \in Nat /\ stp_lag[i] \in Nat
      /\ PROB_TIME \in Nat /\ LATENCY \in Nat
  BY ThreadsAssumption DEF TypeInv
<1>1. /\ UNCHANGED <<orderly, loaded, qdisc, tsk_prob, asked, stp, target, age, stp_lag>>
      /\ CtlRunning(i)
      /\ ctl[i] = "marking" => ctl'[i] = "testing"
      /\ ctl[i] = "testing" => ctl'[i] = IF i \in asked THEN "exited" ELSE "marking"
      /\ ctl_lag'[i] = 0
      /\ \A j \in Inst : j # i => ctl'[j] = ctl[j] /\ ctl_lag'[j] = ctl_lag[j]
  BY DEF ControllerStep, MarkProbability, ShouldStop, CtlRunning, TypeInv
<1>2. Life(i) /\ Punctual(i)
  BY DEF OrderlyLife
<1>3. Punctual(i)'
  BY <1>0, <1>1, <1>2 DEF Punctual
<1>4. Life(i)'
  <2>1. CASE Sleeping(i)
    BY <1>1, <2>1 DEF Life, Sleeping, CtlRunning
  <2>2. CASE Stopping(i)
    BY <1>0, <1>1, <1>2, <2>2 DEF Life, Stopping, CtlRunning, Punctual
  <2> QED BY <1>1, <1>2, <2>1, <2>2 DEF Life, Fresh, Stopped, CtlRunning
<1> QED BY <1>1, <1>3, <1>4, OthersKeep

(* A stopper finds its own controller running, and asks only that one.      *)
LEMMA StopperKeeps ==
    ASSUME TypeInv, OrderlyLife, NEW i \in Inst, StopperStep(i)
    PROVE  OrderlyLife'
<1> SUFFICES ASSUME orderly PROVE OrderlyLife'
  BY DEF OrderlyLife, StopperStep, KthreadStop, StopperReturns
<1>0. /\ age[i] \in Nat /\ ctl_lag[i] \in Nat /\ stp_lag[i] \in Nat
      /\ PROB_TIME \in Nat /\ LATENCY \in Nat
  BY ThreadsAssumption DEF TypeInv
<1>1. Life(i) /\ Punctual(i)
  BY DEF OrderlyLife
<1>2. CASE KthreadStop(i)
  <2>1. Sleeping(i)
    BY <1>2, RunningFacts DEF KthreadStop
  <2>2. /\ UNCHANGED <<orderly, loaded, qdisc, tsk_prob, ctl, age, ctl_lag>>
        /\ stp' = [stp EXCEPT ![i] = "waiting"]
        /\ target' = [target EXCEPT ![i] = i]
        /\ asked' = asked \cup {i}
        /\ stp_lag' = [stp_lag EXCEPT ![i] = 0]
    BY <1>2, <2>1 DEF KthreadStop, Sleeping
  <2>3. /\ stp'[i] = "waiting" /\ target'[i] = i /\ i \in asked' /\ stp_lag'[i] = 0
        /\ \A j \in Inst : j # i =>
             /\ stp'[j] = stp[j] /\ target'[j] = target[j]
             /\ (j \in asked' <=> j \in asked) /\ stp_lag'[j] = stp_lag[j]
    BY <2>2 DEF TypeInv
  <2>4. Stopping(i)'
    BY <1>0, <1>1, <2>1, <2>2, <2>3 DEF Stopping, Sleeping, CtlRunning, Punctual
  <2>5. Punctual(i)'
    BY <1>0, <1>1, <2>2, <2>3 DEF Punctual
  <2> QED BY <2>2, <2>3, <2>4, <2>5, OthersKeep DEF Life
<1>3. CASE StopperReturns(i)
  <2>1. Stopping(i)
    BY <1>3, RunningFacts DEF StopperReturns
  <2>2. /\ UNCHANGED <<orderly, loaded, qdisc, tsk_prob, ctl, asked, target, age, ctl_lag>>
        /\ stp' = [stp EXCEPT ![i] = "exited"]
        /\ stp_lag' = [stp_lag EXCEPT ![i] = 0]
        /\ ctl[i] = "exited"
    BY <1>3, <2>1 DEF StopperReturns, StopperDue, Stopping
  <2>3. /\ stp'[i] = "exited" /\ stp_lag'[i] = 0
        /\ \A j \in Inst : j # i => stp'[j] = stp[j] /\ stp_lag'[j] = stp_lag[j]
    BY <2>2 DEF TypeInv
  <2>4. Stopped(i)'
    BY <2>1, <2>2, <2>3 DEF Stopping, Stopped
  <2>5. Punctual(i)'
    BY <1>0, <1>1, <2>2, <2>3 DEF Punctual
  <2> QED BY <2>2, <2>3, <2>4, <2>5, OthersKeep DEF Life
<1> QED BY <1>2, <1>3 DEF StopperStep

(* When time passes, an age grows only together with the lag that bounds    *)
(* it.                                                                      *)
LEMMA TickKeeps ==
    ASSUME TypeInv, OrderlyLife, Tick
    PROVE  OrderlyLife'
<1> SUFFICES ASSUME orderly PROVE OrderlyLife'
  BY DEF OrderlyLife, Tick
<1>1. UNCHANGED <<orderly, loaded, qdisc, tsk_prob, ctl, asked, stp, target>>
  BY DEF Tick
<1>2. ASSUME NEW i \in Inst PROVE Life(i)' /\ Punctual(i)'
  <2>0. /\ age[i] \in Nat /\ ctl_lag[i] \in Nat /\ stp_lag[i] \in Nat
        /\ PROB_TIME \in Nat /\ LATENCY \in Nat /\ Horizon \in Nat
    BY ThreadsAssumption DEF TypeInv, Horizon
  <2>1. Life(i) /\ Punctual(i)
    BY DEF OrderlyLife
  <2>2. /\ age'[i] = IF qdisc[i] # "none" /\ age[i] < Horizon
                     THEN age[i] + 1 ELSE age[i]
        /\ ctl_lag'[i] = IF CtlRunning(i) THEN ctl_lag[i] + 1 ELSE 0
        /\ stp_lag'[i] = IF StopperDue(i) THEN stp_lag[i] + 1 ELSE 0
        /\ CtlRunning(i) => ctl_lag[i] < LATENCY
        /\ StopperDue(i) => stp_lag[i] < LATENCY
    BY DEF Tick
  <2>3. Punctual(i)'
    BY <2>0, <2>2 DEF Punctual
  <2>4. CASE Fresh(i)
    <3>1. ~CtlRunning(i) /\ ~StopperDue(i)
      BY <2>4 DEF Fresh, CtlRunning, StopperDue
    <3> QED BY <1>1, <2>2, <2>3, <2>4, <3>1 DEF Life, Fresh
  <2>5. CASE Sleeping(i)
    <3>1. StopperDue(i) <=> age[i] >= PROB_TIME
      BY <2>5 DEF Sleeping, StopperDue
    <3>2. age'[i] <= PROB_TIME + stp_lag'[i]
      BY <2>0, <2>2, <2>5, <3>1 DEF Sleeping
    <3> QED BY <1>1, <2>3, <2>5, <3>2 DEF Life, Sleeping, CtlRunning
  <2>6. CASE Stopping(i)
    <3>1. StopperDue(i) <=> ctl[i] = "exited"
      BY <2>6 DEF Stopping, StopperDue
    <3>2. CtlRunning(i) <=> ctl[i] \in {"marking", "testing"}
      BY DEF CtlRunning
    <3>3. Stopping(i)'
      BY <1>1, <2>0, <2>2, <2>6, <3>1, <3>2 DEF Stopping
    <3> QED BY <2>3, <3>3 DEF Life
  <2>7. CASE Stopped(i)
    BY <1>1, <2>3, <2>7 DEF Life, Stopped
  <2> QED BY <2>1, <2>4, <2>5, <2>6, <2>7 DEF Life
<1> QED BY <1>1, <1>2 DEF OrderlyLife

(* An installation that lasts long enough goes through its four stages in   *)
(* order, whatever the scheduler does within LATENCY.                       *)
THEOREM LifeInvariant == ASSUME LongRun PROVE Spec => []LifeInv
<1>1. LifeInv /\ [Next]_vars => LifeInv'
  <2> SUFFICES ASSUME TypeInv, OrderlyLife, [Next]_vars
               PROVE  TypeInv' /\ OrderlyLife'
    BY DEF LifeInv
  <2>1. TypeInv'
    BY NextTypeInv
  <2>2. CASE Next
    <3>1. CASE ModuleInit \/ ModuleExit \/ Tick
      BY <2>1, <3>1, ModuleKeeps, TickKeeps
    <3>2. ASSUME NEW i \in Inst,
                 \/ RbfgradInit(i) \/ RbfgradDestroy(i)
                 \/ ControllerStep(i) \/ StopperStep(i)
          PROVE  OrderlyLife'
      BY <3>2, InitKeeps, DestroyKeeps, ControllerKeeps, StopperKeeps
    <3> QED BY <2>1, <2>2, <3>1, <3>2 DEF Next
  <2>3. CASE UNCHANGED vars
    <3>1. UNCHANGED <<loaded, qdisc, tsk_prob, ctl, asked, stp, target, orderly,
                      age, ctl_lag, stp_lag>>
      BY <2>3 DEF vars, timeVars
    <3>2. ASSUME orderly PROVE \A i \in Inst : Life(i)' /\ Punctual(i)'
      BY <3>1, <3>2 DEF OrderlyLife, Life, Fresh, Sleeping, Stopping, Stopped,
         Punctual, CtlRunning
    <3> QED BY <2>1, <3>1, <3>2 DEF OrderlyLife
  <2> QED BY <2>1, <2>2, <2>3
<1> QED BY <1>1, InitLife, PTL DEF Spec

(* A controller computes probabilities only in a qdisc that exists, if each *)
(* qdisc stays installed for more than PROB_TIME and four latencies.        *)
THEOREM UsesLiveQdisc == ASSUME LongRun PROVE Spec => []NoUseAfterFree
<1>1. LifeInv => NoUseAfterFree
  BY RunningFacts DEF LifeInv, NoUseAfterFree, CtlRunning
<1> QED BY <1>1, LifeInvariant, PTL

(* rmmod finds no thread of the module running, although the threads hold   *)
(* no reference on it.                                                      *)
THEOREM CodeOutlives == ASSUME LongRun PROVE Spec => []CodeOutlivesThreads
<1>1. LifeInv => CodeOutlivesThreads
  BY RunningFacts DEF LifeInv, CodeOutlivesThreads, OrderlyLife
<1> QED BY <1>1, LifeInvariant, PTL

(* The stopper of an installation stops that installation's controller and  *)
(* no other, and never calls kthread_stop on a task that is gone.           *)
THEOREM StopperFindsItsOwn == ASSUME LongRun PROVE Spec => []StopsOwnController
<1>1. LifeInv => StopsOwnController
  BY DEF LifeInv, StopsOwnController, OrderlyLife, Life, Fresh, Sleeping,
     Stopping, Stopped
<1> QED BY <1>1, LifeInvariant, PTL
=============================================================================
