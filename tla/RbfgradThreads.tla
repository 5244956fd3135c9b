--------------------------- MODULE RbfgradThreads ---------------------------
(***************************************************************************)
(* The life of the two kernel threads rbfgrad_init starts and of what they  *)
(* use: the qdisc, the module's code and the global task pointer.           *)
(*                                                                         *)
(* Install i is the i-th time a qdisc is created.  Its controller           *)
(* (rbfgrad_thread_func) runs rbfgrad_mark_probability on that qdisc until  *)
(* kthread_should_stop; its stopper (rbfgrad_stop_prob_thread_func) waits   *)
(* PROB_TIME and then stops whatever task tsk_prob names by then.  Nothing  *)
(* else ever stops a thread: the calls in rbfgrad_destroy are commented out *)
(* and the module's threads hold no reference on it.  So what keeps a       *)
(* thread from outliving what it uses is time alone, and time is explicit   *)
(* here: a thread that can take its next step takes it within LATENCY.      *)
(***************************************************************************)
EXTENDS Integers

CONSTANTS
    PROB_TIME,  \* ticks a stopper sleeps
    LATENCY,    \* ticks within which a runnable thread takes its step
    RunTime,    \* ticks for which a qdisc is left installed, at least
    Disorder,   \* rbfgrad_change and kthread_run may fail in rbfgrad_init,
                \* and a qdisc may be created while another is installed
    MaxInst     \* bound: qdiscs created

ASSUME ThreadsAssumption ==
    /\ PROB_TIME \in Nat /\ LATENCY \in Nat /\ RunTime \in Nat
    /\ Disorder \in BOOLEAN
    /\ MaxInst \in Nat \ {0}

VARIABLES
    loaded,     \* the module's code is in the kernel
    qdisc,      \* each qdisc: "none", "live" or "freed"
    tsk_prob,   \* the global: the install whose controller it names
    ctl,        \* each controller: none, marking, testing, exited
    asked,      \* the controllers kthread_stop has asked to stop
    stp,        \* each stopper: none, asleep, waiting, exited, crashed
    target,     \* the controller each stopper waits for
    orderly,    \* history: no rbfgrad_init failed, none overlapped another
    age,        \* ticks since each installation, up to Horizon
    ctl_lag,    \* ticks each controller has owed its next step
    stp_lag     \* ticks each stopper has owed its next step

timeVars == <<age, ctl_lag, stp_lag>>
vars == <<loaded, qdisc, tsk_prob, ctl, asked, stp, target, orderly, timeVars>>

Inst == 1..MaxInst
NULL == 0
ERR  == -1      \* ERR_PTR: kthread_run failed, and nobody looks

Horizon == IF RunTime > PROB_TIME THEN RunTime ELSE PROB_TIME

Init ==
    /\ loaded = FALSE
    /\ qdisc = [i \in Inst |-> "none"]
    /\ tsk_prob = NULL
    /\ ctl = [i \in Inst |-> "none"]
    /\ asked = {}
    /\ stp = [i \in Inst |-> "none"]
    /\ target = [i \in Inst |-> NULL]
    /\ orderly = TRUE
    /\ age = [i \in Inst |-> 0]
    /\ ctl_lag = [i \in Inst |-> 0]
    /\ stp_lag = [i \in Inst |-> 0]

CtlRunning(i) == ctl[i] \in {"marking", "testing"}
StpRunning(i) == stp[i] \in {"asleep", "waiting"}

(* Mutant: the stopper sleeps for as long as the experiment runs.           *)
StopperDue_Late(i) ==
    \/ stp[i] = "asleep" /\ age[i] >= RunTime
    \/ stp[i] = "waiting" /\ ctl[target[i]] = "exited"

(* SLEEP_MILLI_SEC(PROB_TIME) is over, or the controller it waits for is.   *)
StopperDue(i) ==
    \/ stp[i] = "asleep" /\ age[i] >= PROB_TIME
    \/ stp[i] = "waiting" /\ ctl[target[i]] = "exited"

-----------------------------------------------------------------------------
(* A loaded module starts with its globals zeroed.                          *)
ModuleInit ==
    /\ ~loaded
    /\ loaded' = TRUE
    /\ tsk_prob' = NULL
    /\ UNCHANGED <<orderly, qdisc, ctl, asked, stp, target, timeVars>>

(* Mutant: the qdiscs hold no reference either.                             *)
ModuleExit_NoRef ==
    /\ loaded
    /\ loaded' = FALSE
    /\ UNCHANGED <<orderly, qdisc, tsk_prob, ctl, asked, stp, target, timeVars>>

(* Each live qdisc holds a reference on the module; its threads hold none.  *)
ModuleExit ==
    /\ loaded
    /\ \A i \in Inst : qdisc[i] # "live"
    /\ loaded' = FALSE
    /\ UNCHANGED <<orderly, qdisc, tsk_prob, ctl, asked, stp, target, timeVars>>

(* rbfgrad_init starts both threads even if rbfgrad_change failed; the      *)
(* kernel then frees the qdisc without calling rbfgrad_destroy.             *)
RbfgradInit(i) ==
    /\ loaded
    /\ qdisc[i] = "none"
    /\ \A j \in Inst : j < i => qdisc[j] # "none"
    /\ \E changed \in BOOLEAN, ran \in BOOLEAN, stopper_ran \in BOOLEAN :
         /\ orderly' = (/\ orderly /\ changed /\ ran /\ stopper_ran
                        /\ \A j \in Inst : qdisc[j] # "live")
         /\ Disorder \/ orderly'
         /\ qdisc' = [qdisc EXCEPT ![i] = IF changed THEN "live" ELSE "freed"]
         /\ tsk_prob' = IF ran THEN i ELSE ERR
         /\ ctl' = [ctl EXCEPT ![i] = IF ran THEN "marking" ELSE "none"]
         /\ stp' = [stp EXCEPT ![i] = IF stopper_ran THEN "asleep" ELSE "none"]
    /\ UNCHANGED <<loaded, asked, target, timeVars>>

(* rbfgrad_destroy leaves both threads running.                             *)
RbfgradDestroy(i) ==
    /\ qdisc[i] = "live"
    /\ age[i] >= RunTime
    /\ qdisc' = [qdisc EXCEPT ![i] = "freed"]
    /\ UNCHANGED <<orderly, loaded, tsk_prob, ctl, asked, stp, target, timeVars>>

-----------------------------------------------------------------------------
(* rbfgrad_thread_func: a round of rbfgrad_mark_probability ...             *)
MarkProbability(i) ==
    /\ ctl[i] = "marking"
    /\ ctl' = [ctl EXCEPT ![i] = "testing"]
    /\ ctl_lag' = [ctl_lag EXCEPT ![i] = 0]
    /\ UNCHANGED <<orderly, loaded, qdisc, tsk_prob, asked, stp, target, age, stp_lag>>

(* Mutant: the loop never tests kthread_should_stop.                        *)
ShouldStop_Never(i) ==
    /\ ctl[i] = "testing"
    /\ ctl' = [ctl EXCEPT ![i] = "marking"]
    /\ ctl_lag' = [ctl_lag EXCEPT ![i] = 0]
    /\ UNCHANGED <<orderly, loaded, qdisc, tsk_prob, asked, stp, target, age, stp_lag>>

(* ... and the test of kthread_should_stop after it.                        *)
ShouldStop(i) ==
    /\ ctl[i] = "testing"
    /\ ctl' = [ctl EXCEPT ![i] = IF i \in asked THEN "exited" ELSE "marking"]
    /\ ctl_lag' = [ctl_lag EXCEPT ![i] = 0]
    /\ UNCHANGED <<orderly, loaded, qdisc, tsk_prob, asked, stp, target, age, stp_lag>>

(* Mutant: the stopper returns without calling kthread_stop.                *)
KthreadStop_Forgotten(i) ==
    /\ stp[i] = "asleep" /\ StopperDue(i)
    /\ stp' = [stp EXCEPT ![i] = "exited"]
    /\ target' = [target EXCEPT ![i] = i]
    /\ stp_lag' = [stp_lag EXCEPT ![i] = 0]
    /\ UNCHANGED <<orderly, loaded, qdisc, tsk_prob, ctl, asked, age, ctl_lag>>

(* kthread_stop(tsk_prob).  On a task that is no more, or that never was,   *)
(* it crashes.                                                              *)
KthreadStop(i) ==
    /\ stp[i] = "asleep" /\ StopperDue(i)
    /\ IF tsk_prob \in Inst /\ CtlRunning(tsk_prob)
       THEN /\ stp' = [stp EXCEPT ![i] = "waiting"]
            /\ target' = [target EXCEPT ![i] = tsk_prob]
            /\ asked' = asked \cup {tsk_prob}
       ELSE /\ stp' = [stp EXCEPT ![i] = "crashed"]
            /\ UNCHANGED <<target, asked>>
    /\ stp_lag' = [stp_lag EXCEPT ![i] = 0]
    /\ UNCHANGED <<orderly, loaded, qdisc, tsk_prob, ctl, age, ctl_lag>>

StopperReturns(i) ==
    /\ stp[i] = "waiting" /\ StopperDue(i)
    /\ stp' = [stp EXCEPT ![i] = "exited"]
    /\ stp_lag' = [stp_lag EXCEPT ![i] = 0]
    /\ UNCHANGED <<orderly, loaded, qdisc, tsk_prob, ctl, asked, target, age, ctl_lag>>

ControllerStep(i) == MarkProbability(i) \/ ShouldStop(i)
StopperStep(i)    == KthreadStop(i) \/ StopperReturns(i)

(* Time passes unless a thread is due.                                      *)
Tick ==
    /\ \A i \in Inst : /\ CtlRunning(i) => ctl_lag[i] < LATENCY
                       /\ StopperDue(i) => stp_lag[i] < LATENCY
    /\ age' = [i \in Inst |-> IF qdisc[i] # "none" /\ age[i] < Horizon
                              THEN age[i] + 1 ELSE age[i]]
    /\ ctl_lag' = [i \in Inst |-> IF CtlRunning(i) THEN ctl_lag[i] + 1 ELSE 0]
    /\ stp_lag' = [i \in Inst |-> IF StopperDue(i) THEN stp_lag[i] + 1 ELSE 0]
    /\ UNCHANGED <<orderly, loaded, qdisc, tsk_prob, ctl, asked, stp, target>>

Next ==
    \/ ModuleInit \/ ModuleExit
    \/ \E i \in Inst : \/ RbfgradInit(i) \/ RbfgradDestroy(i)
                       \/ ControllerStep(i) \/ StopperStep(i)
    \/ Tick

Spec == Init /\ [][Next]_vars

(* Runnable kernel threads are scheduled, and time passes.                  *)
FairSpec == /\ Spec
            /\ WF_vars(Tick)
            /\ \A i \in Inst : /\ WF_vars(ControllerStep(i))
                               /\ WF_vars(StopperStep(i))

-----------------------------------------------------------------------------
(* The first four are claimed for as long as no initialisation failed and   *)
(* no qdisc was created beside another one.                                 *)

(* The controller computes probabilities only in a qdisc that exists.       *)
NoUseAfterFree ==
    orderly => \A i \in Inst : ctl[i] = "marking" => qdisc[i] = "live"

(* The module's code outlives every thread that runs it.                    *)
CodeOutlivesThreads ==
    orderly => \A i \in Inst : CtlRunning(i) \/ StpRunning(i) => loaded

(* The stopper of an installation stops the controller of that same         *)
(* installation, although it finds it through a global pointer.             *)
StopsOwnController ==
    orderly => \A i \in Inst :
                 /\ stp[i] # "crashed"
                 /\ stp[i] \in {"waiting", "exited"} => target[i] = i

(* Every controller is stopped in the end: none computes probabilities      *)
(* forever.                                                                 *)
ControllerStopped ==
    \A i \in Inst : CtlRunning(i) ~> ctl[i] = "exited" \/ ~orderly

(* Whatever fails and however many qdiscs share the global pointer, a       *)
(* controller that was asked to stop does, and no stopper waits forever.    *)
StopHonoured ==
    \A i \in Inst : /\ i \in asked ~> ctl[i] = "exited"
                    /\ StpRunning(i) ~> ~StpRunning(i)
=============================================================================
