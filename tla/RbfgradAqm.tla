----------------------------- MODULE RbfgradAqm -----------------------------
(***************************************************************************)
(* One installed rbfgrad qdisc together with its controller thread:         *)
(* rbfgrad_thread_func calls rbfgrad_mark_probability again and again,      *)
(* without any lock, while packets are enqueued and the configuration is    *)
(* changed under it, until the stopper ends it.  Every read of an error and *)
(* every load and store of p_k and p_k_1 is a step of its own; the three    *)
(* gains, which only change writes beside the thread, are copied, stored    *)
(* and floored together.                                                    *)
(*                                                                         *)
(* The particle swarm that fits the network is internal to the thread; what *)
(* leaves it is whether the fit is good enough (gbestval < E0) and the sign *)
(* of the jacobian, and both are left open.  A local copy is zeroed once    *)
(* the iteration has used it for the last time.                             *)
(***************************************************************************)
EXTENDS RbfgradQdisc

CONSTANTS
    Jacobians,   \* values of the jacobian, in units of the learning rate
    MaxGain      \* bound on each PID gain

ASSUME JacobianAssumption == Jacobians \subseteq Int
ASSUME GainAssumption     == MaxGain \in Nat

(* What tc asks for when it is given the options, without insisting on it.  *)
ASSUME SaneConfigs ==
    \A c \in Configs : /\ c.p_min <= c.p_init /\ c.p_init <= c.p_max
                       /\ c.kp >= 0 /\ c.ki >= 0 /\ c.kd >= 0

VARIABLES
    kp_k, ki_k, kd_k,   \* the PID gains in q->parms
    pc,                 \* where the controller thread is
    unread,             \* the errors it has yet to read
    err,                \* its copies of e_k, e_k_1 and e_k_2
    gain_1,             \* its copies kp_k_1, ki_k_1, kd_k_1 of the gains
    p_last,             \* the p_k it took as p_k_1, or the new one in a register
    bound,              \* the limit it is about to store into p_k
    overtaken           \* history: a change began during this iteration

gainVars == <<kp_k, ki_k, kd_k>>
ctlVars  == <<gainVars, pc, unread, err, gain_1, p_last, bound, overtaken>>
aqmVars  == <<vars, ctlVars>>

Errors == {"e_k", "e_k_1", "e_k_2"}

NoErr  == [x \in Errors |-> 0]
NoGain == [kp |-> 0, ki |-> 0, kd |-> 0]

AqmInit ==
    /\ Init
    /\ kp_k = 0 /\ ki_k = 0 /\ kd_k = 0
    /\ pc = "rest"
    /\ unread = {}
    /\ err = NoErr
    /\ gain_1 = NoGain
    /\ p_last = 0
    /\ bound = 0
    /\ overtaken = FALSE

-----------------------------------------------------------------------------
(* The operations of the qdisc.  The ones that set the gains are change and *)
(* init, through rbfgrad_set_parms; init also starts the thread.            *)

SetGains(c) == kp_k' = c.kp /\ ki_k' = c.ki /\ kd_k' = c.kd

Install(c) ==
    /\ RbfgradInit(c)
    /\ SetGains(c)
    /\ UNCHANGED <<pc, unread, err, gain_1, p_last, bound, overtaken>>

(* A change begins with the limits, and an iteration that is under way may  *)
(* have seen the old ones ...                                               *)
Change(c) ==
    /\ RbfgradChange(c)
    /\ overtaken' = (pc \notin {"rest", "ended"})
    /\ UNCHANGED <<gainVars, pc, unread, err, gain_1, p_last, bound>>

(* ... and goes on with p_k, the errors, and the gains and windows.         *)
ChangeGoesOn ==
    \/ (ChangeP \/ ChangeErrors) /\ UNCHANGED ctlVars
    \/ /\ ChangeWindows
       /\ SetGains(cfg)
       /\ UNCHANGED <<pc, unread, err, gain_1, p_last, bound, overtaken>>

QdiscStep ==
    /\ \/ DataPath
       \/ RbfgradReset
       \/ \E n \in Children : RbfgradGraft(n)
       \/ RbfgradDumpRead \/ RbfgradDumpStore
    /\ UNCHANGED ctlVars

-----------------------------------------------------------------------------
(* One iteration of the thread.                                             *)

At(here, there) == live /\ pc = here /\ pc' = there

SharedE(x) == CASE x = "e_k"   -> e_k
                [] x = "e_k_1" -> e_k_1
                [] x = "e_k_2" -> e_k_2

StartIteration ==
    /\ At("rest", "read")
    /\ unread' = Errors
    /\ overtaken' = FALSE
    /\ UNCHANGED <<vars, gainVars, err, gain_1, p_last, bound>>

(* The three loads are independent, so the build may order them at will.    *)
ReadError ==
    /\ live /\ pc = "read"
    /\ \E x \in unread :
         /\ err' = [err EXCEPT ![x] = SharedE(x)]
         /\ unread' = unread \ {x}
    /\ UNCHANGED <<vars, gainVars, pc, gain_1, p_last, bound, overtaken>>

(* gbestval >= E0: the gains stay.                                          *)
SkipLearning ==
    /\ At("read", "last") /\ unread = {}
    /\ UNCHANGED <<vars, gainVars, unread, err, gain_1, p_last, bound, overtaken>>

CopyGains ==
    /\ At("read", "learn") /\ unread = {}
    /\ gain_1' = [kp |-> kp_k, ki |-> ki_k, kd |-> kd_k]
    /\ UNCHANGED <<vars, gainVars, unread, err, p_last, bound, overtaken>>

(* The inputs of the three PID terms.                                       *)
PTerm == err.e_k - err.e_k_1
ITerm == err.e_k
DTerm == err.e_k - 2 * err.e_k_1 + err.e_k_2

StoreGains ==
    /\ At("learn", "floor")
    /\ \E j \in Jacobians :
         /\ kp_k' = gain_1.kp + err.e_k * j * PTerm
         /\ ki_k' = gain_1.ki + err.e_k * j * ITerm
         /\ kd_k' = gain_1.kd + err.e_k * j * DTerm
    /\ kp_k' <= MaxGain /\ ki_k' <= MaxGain /\ kd_k' <= MaxGain
    /\ gain_1' = NoGain
    /\ UNCHANGED <<vars, unread, err, p_last, bound, overtaken>>

(* The bound on the gains: a larger one is not stored.                      *)
GainsAtBound ==
    /\ At("learn", "last")
    /\ \E j \in Jacobians :
         \/ gain_1.kp + err.e_k * j * PTerm > MaxGain
         \/ gain_1.ki + err.e_k * j * ITerm > MaxGain
         \/ gain_1.kd + err.e_k * j * DTerm > MaxGain
    /\ gain_1' = NoGain
    /\ UNCHANGED <<vars, gainVars, unread, err, p_last, bound, overtaken>>

(* Mutant: negative gains are kept.                                         *)
Floor_None(k) == k

Floor(k) == IF k < 0 THEN 0 ELSE k

FloorGains ==
    /\ At("floor", "last")
    /\ kp_k' = Floor(kp_k) /\ ki_k' = Floor(ki_k) /\ kd_k' = Floor(kd_k)
    /\ UNCHANGED <<vars, unread, err, gain_1, p_last, bound, overtaken>>

(* Mutant: the thread shifts the window too.                                *)
StoreLast_Shifts ==
    /\ At("last", "raw")
    /\ p_last' = p_k
    /\ p_k_1' = p_k
    /\ proba' = Shift(proba, p_k)
    /\ UNCHANGED <<live, cfg, schVars, childVars, statVars, p_k, e_k, e_k_1, e_k_2,
                   queue_len, logVars, pkg_number, opVars, dumpVars, departed, disturbed,
                   gainVars, unread, err, gain_1, bound, overtaken>>

(* p_k_1 = p_k                                                              *)
StoreLast ==
    /\ At("last", "raw")
    /\ p_last' = p_k
    /\ p_k_1' = p_k
    /\ UNCHANGED <<live, cfg, schVars, childVars, statVars, p_k, histVars,
                   logVars, pkg_number, opVars, dumpVars, departed, disturbed,
                   gainVars, unread, err, gain_1, bound, overtaken>>

Output == p_last + kp_k * PTerm + ki_k * ITerm + kd_k * DTerm

PutP(p) ==
    /\ p_k' = p
    /\ UNCHANGED <<live, cfg, schVars, childVars, statVars, p_k_1, histVars,
                   logVars, pkg_number, opVars, dumpVars, departed, disturbed,
                   gainVars, unread, gain_1, overtaken>>

(* The new probability is stored first and brought into range afterwards,   *)
(* each limit being loaded before it is stored ...                          *)
StoreRaw ==
    /\ At("raw", "max")
    /\ PutP(Output)
    /\ err' = NoErr /\ p_last' = 0
    /\ UNCHANGED bound

(* Mutant: the upper limit is forgotten.                                    *)
TestMax_Dropped ==
    /\ At("max", "min")
    /\ UNCHANGED <<vars, gainVars, unread, err, gain_1, p_last, bound, overtaken>>

TestMax ==
    /\ live /\ pc = "max"
    /\ IF p_k > cfg.p_max THEN pc' = "put_max" /\ bound' = cfg.p_max
                          ELSE pc' = "min" /\ UNCHANGED bound
    /\ UNCHANGED <<vars, gainVars, unread, err, gain_1, p_last, overtaken>>

PutMax ==
    /\ At("put_max", "min")
    /\ PutP(bound)
    /\ bound' = 0
    /\ UNCHANGED <<err, p_last>>

(* Mutant: an out-of-range p_k is waited on instead of being corrected.     *)
TestMin_NoStore ==
    /\ live /\ pc = "min"
    /\ p_k >= cfg.p_min
    /\ pc' = "rest"
    /\ UNCHANGED <<vars, gainVars, unread, err, gain_1, p_last, bound, overtaken>>

TestMin ==
    /\ live /\ pc = "min"
    /\ IF p_k < cfg.p_min THEN pc' = "put_min" /\ bound' = cfg.p_min
                          ELSE pc' = "rest" /\ UNCHANGED bound
    /\ UNCHANGED <<vars, gainVars, unread, err, gain_1, p_last, overtaken>>

PutMin ==
    /\ At("put_min", "rest")
    /\ PutP(bound)
    /\ bound' = 0
    /\ UNCHANGED <<err, p_last>>

(* ... unless the build keeps p_k in a register until it is in range.       *)
NotAbove(limit, p) == IF p > limit THEN limit ELSE p
NotBelow(limit, p) == IF p < limit THEN limit ELSE p

ClampMax ==
    /\ At("raw", "clamp")
    /\ p_last' = NotAbove(cfg.p_max, Output)
    /\ err' = NoErr
    /\ UNCHANGED <<vars, gainVars, unread, gain_1, bound, overtaken>>

(* Mutant: the lower limit is forgotten.                                    *)
ClampMin_Dropped ==
    /\ At("clamp", "store")
    /\ UNCHANGED <<vars, gainVars, unread, err, gain_1, p_last, bound, overtaken>>

ClampMin ==
    /\ At("clamp", "store")
    /\ p_last' = NotBelow(cfg.p_min, p_last)
    /\ UNCHANGED <<vars, gainVars, unread, err, gain_1, bound, overtaken>>

StoreClamped ==
    /\ At("store", "rest")
    /\ PutP(p_last)
    /\ p_last' = 0
    /\ UNCHANGED <<err, bound>>

(* After PROB_TIME the stopper's kthread_stop makes the test between two    *)
(* iterations end the loop; the qdisc stays.                                *)
Stopped ==
    /\ At("rest", "ended")
    /\ UNCHANGED <<vars, gainVars, unread, err, gain_1, p_last, bound, overtaken>>

Controller ==
    \/ StartIteration \/ ReadError
    \/ SkipLearning \/ CopyGains \/ StoreGains \/ GainsAtBound \/ FloorGains
    \/ StoreLast
    \/ ClampMax \/ ClampMin \/ StoreClamped
    \/ StoreRaw \/ TestMax \/ PutMax \/ TestMin \/ PutMin

AqmNext ==
    \/ QdiscStep
    \/ \E c \in Configs : Install(c) \/ Change(c)
    \/ ChangeGoesOn
    \/ Controller
    \/ Stopped

AqmSpec == AqmInit /\ [][AqmNext]_aqmVars

(* The thread is never blocked while it runs: schedule_timeout without a    *)
(* task state returns at once, and it takes no lock.  A change that has     *)
(* begun does not wait for anything either.                                 *)
FairAqmSpec ==
    /\ AqmSpec
    /\ WF_aqmVars(Controller)
    /\ WF_aqmVars(ChangeGoesOn)

-----------------------------------------------------------------------------
InRange(p) == cfg.p_min <= p /\ p <= cfg.p_max

(* Between two iterations, and after the last, p_k is within the limits of  *)
(* the configuration in force, whatever the PID terms computed; only an     *)
(* iteration that a change overtook may leave the limits of the old one,    *)
(* and a change that has stored its limits has yet to store its p_k.        *)
SettledInRange ==
    live /\ pc \in {"rest", "ended"} /\ ~overtaken /\ op # "set_p_k" => InRange(p_k)

(* The gains an iteration works with are never negative, although negative  *)
(* ones pass through the shared variables while it learns.                  *)
GainsFloored == pc # "floor" => kp_k >= 0 /\ ki_k >= 0 /\ kd_k >= 0

(* An unclamped value never becomes a sample: what p_k_1, and through it    *)
(* proba, records has passed a lower and an upper limit, of two different   *)
(* configurations when a change comes between the two tests.                *)
Clamped(p) == p = 0 \/ \E c, d \in Configs : c.p_min <= p /\ p <= d.p_max
SamplesNeverRaw ==
    live => Clamped(p_k_1) /\ \A i \in Window : Clamped(proba[i])

(* However often the configuration changes under it, the thread brings an   *)
(* out-of-range p_k back, unless it is stopped right after an iteration     *)
(* that a change overtook: nothing repairs what that one has left.          *)
RangeRestored ==
    (live /\ ~InRange(p_k)) ~> (InRange(p_k) \/ (pc = "ended" /\ overtaken))

(* All the thread does to the qdisc is store p_k and p_k_1, so everything   *)
(* shown of RbfgradQdisc holds with this controller.                        *)
QdiscImplemented == Spec

(* "Ensure that p_k is between p_min and p_max", says the comment at the    *)
(* clamp: no packet is judged by another probability.                       *)
PacketsJudgedInRange == [][RbfgradEnqueue => InRange(p_k)]_aqmVars
=============================================================================
