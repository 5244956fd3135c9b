-------------------------- MODULE RbfgradAqmProofs --------------------------
(***************************************************************************)
(* What TLAPS proves of RbfgradAqm, the qdisc with its controller thread,   *)
(* for every value of its constants: any set of sane configurations, any    *)
(* jacobians, any window.                                                   *)
(***************************************************************************)
EXTENDS RbfgradAqm, RbfgradQdiscProofs

Places == {"rest", "read", "learn", "floor", "last", "raw",
           "max", "put_max", "min", "put_min", "clamp", "store", "ended"}

(* Types of the gains and of the thread's own variables.                    *)
CtlTypeOK ==
    /\ kp_k \in Int /\ ki_k \in Int /\ kd_k \in Int
    /\ pc \in Places
    /\ unread \in SUBSET Errors
    /\ err \in [Errors -> Int]
    /\ gain_1 \in [kp : Int, ki : Int, kd : Int]
    /\ p_last \in Int /\ bound \in Int
    /\ overtaken \in BOOLEAN

(* The thread runs on an installed qdisc, whose configuration user space    *)
(* sent; before that it rests and no operation is under way.                *)
Installed ==
    /\ live => cfg \in Configs
    /\ ~live => pc = "rest" /\ ~overtaken /\ op = "none"

AqmTypeInv == TypeOK /\ CtlTypeOK /\ Installed

-----------------------------------------------------------------------------
(* A configuration's numbers, and its limits.                               *)
LEMMA ConfigFacts ==
    ASSUME NEW c \in Configs
    PROVE  /\ c \in CfgType
           /\ c.p_min \in Int /\ c.p_init \in Int /\ c.p_max \in Int
           /\ c.p_min <= c.p_init /\ c.p_init <= c.p_max /\ c.p_min <= c.p_max
           /\ c.kp \in Int /\ c.ki \in Int /\ c.kd \in Int
           /\ c.kp >= 0 /\ c.ki >= 0 /\ c.kd >= 0
<1>1. c \in CfgType
  BY CfgAssumption
<1> QED BY <1>1, SaneConfigs DEF CfgType

(* What the thread leaves alone: all of the qdisc but p_k and p_k_1.        *)
LEMMA ControllerFrame ==
    ASSUME Controller
    PROVE  /\ live
           /\ UNCHANGED <<live, cfg, schVars, childVars, statVars, histVars,
                          logVars, pkg_number, opVars, dumpVars, departed,
                          disturbed>>
BY DEF Controller, StartIteration, ReadError, SkipLearning, CopyGains,
       StoreGains, GainsAtBound, FloorGains, StoreLast, ClampMax, ClampMin,
       StoreClamped, StoreRaw, TestMax, PutMax, TestMin, PutMin, PutP, At,
       vars, parmVars

(* What the stopper leaves alone: all of the qdisc.                         *)
LEMMA StoppedFrame ==
    ASSUME Stopped
    PROVE  /\ live /\ pc = "rest" /\ pc' = "ended"
           /\ UNCHANGED <<vars, gainVars, unread, err, gain_1, p_last, bound,
                          overtaken>>
BY DEF Stopped, At

(* What a change that goes on leaves alone.                                 *)
LEMMA ChangeFrame ==
    ASSUME ChangeGoesOn
    PROVE  /\ Next
           /\ op \in Changing
           /\ UNCHANGED <<live, cfg, p_k_1, pc, unread, err, gain_1, p_last,
                          bound, overtaken>>
           /\ \/ op = "set_p_k" /\ p_k' = cfg.p_init /\ UNCHANGED <<proba, gainVars>>
              \/ op # "set_p_k" /\ p_k' = p_k
                 /\ \/ UNCHANGED <<proba, gainVars>>
                    \/ SetGains(cfg) /\ proba' = [i \in Window |-> cfg.p_init]
<1> USE DEF ctlVars, Next, Control, Changing
<1>1. CASE ChangeP /\ UNCHANGED ctlVars
  BY <1>1 DEF ChangeP, histVars
<1>2. CASE ChangeErrors /\ UNCHANGED ctlVars
  BY <1>2 DEF ChangeErrors
<1>3. CASE /\ ChangeWindows /\ SetGains(cfg)
           /\ UNCHANGED <<pc, unread, err, gain_1, p_last, bound, overtaken>>
  BY <1>3 DEF ChangeWindows, SetWindows
<1> QED BY <1>1, <1>2, <1>3 DEF ChangeGoesOn

(* What the other operations leave alone, and how proba moves under them.   *)
LEMMA QdiscStepFrame ==
    ASSUME QdiscStep
    PROVE  /\ Next
           /\ UNCHANGED <<live, cfg, p_k, p_k_1, ctlVars>>
           /\ proba' = proba \/ proba' = Shift(proba, p_k_1)
           /\ op' = op \/ op \in Judged \cup HalfWay \/ (op = "none" /\ live)
<1> USE DEF QdiscStep, parmVars, histVars, opVars, RootLockFree
<1>1. CASE RbfgradEnqueueTail
  <2>1. proba' = proba \/ proba' = Shift(proba, p_k_1)
    BY <1>1 DEF RbfgradEnqueueTail, Sample, UpdateHistory
  <2> QED BY <1>1, <2>1 DEF RbfgradEnqueueTail, Next, DataPath
<1>2. CASE RbfgradEnqueue \/ RbfgradReset
  BY <1>2 DEF RbfgradEnqueue, RbfgradReset, Next, DataPath, Control
<1>3. CASE RbfgradDequeue \/ RbfgradDrop
  BY <1>3 DEF RbfgradDequeue, RbfgradDrop, TakePacket, Next, DataPath
<1>4. CASE CountQueued \/ CountTaken \/ CountDropped
  BY <1>4 DEF CountQueued, CountTaken, CountDropped, HalfWay, Next, DataPath
<1>5. CASE (\E n \in Children : RbfgradGraft(n)) \/ RbfgradDumpRead \/ RbfgradDumpStore
  BY <1>5 DEF RbfgradGraft, RbfgradDumpRead, RbfgradDumpStore, Next, Control
<1> QED BY <1>1, <1>2, <1>3, <1>4, <1>5 DEF DataPath

(* The PID terms and the sum the thread stores are integers.                *)
LEMMA PidType ==
    ASSUME CtlTypeOK
    PROVE  /\ PTerm \in Int /\ ITerm \in Int /\ DTerm \in Int
           /\ err.e_k \in Int
           /\ Output \in Int
<1>1. err.e_k \in Int /\ err.e_k_1 \in Int /\ err.e_k_2 \in Int
  BY DEF CtlTypeOK, Errors
<1>2. PTerm \in Int /\ ITerm \in Int /\ DTerm \in Int
  BY <1>1 DEF PTerm, ITerm, DTerm
<1>3. kp_k * PTerm \in Int /\ ki_k * ITerm \in Int /\ kd_k * DTerm \in Int
  BY <1>2 DEF CtlTypeOK
<1>4. Output \in Int
  BY <1>3 DEF Output, CtlTypeOK
<1> QED BY <1>1, <1>2, <1>4

(* Each step of the thread keeps the types.                                 *)
LEMMA ControllerType ==
    ASSUME TypeOK, CtlTypeOK, Controller
    PROVE  /\ CtlTypeOK'
           /\ p_k' \in Int /\ p_k_1' \in Int
<1> USE DEF vars, parmVars, gainVars, At, Places
<1>0. /\ p_k \in Int /\ p_k_1 \in Int /\ cfg.p_max \in Int /\ cfg.p_min \in Int
  BY DEF TypeOK, CfgType
<1>1. CASE StartIteration \/ SkipLearning
  BY <1>0, <1>1 DEF StartIteration, SkipLearning, CtlTypeOK
<1>2. CASE ReadError
  <2> PICK x \in unread : err' = [err EXCEPT ![x] = SharedE(x)] /\ unread' = unread \ {x}
    BY <1>2 DEF ReadError
  <2>1. x \in Errors
    BY DEF CtlTypeOK
  <2>2. SharedE(x) \in Int
    BY <2>1 DEF SharedE, Errors, TypeOK
  <2>3. err' \in [Errors -> Int] /\ unread' \in SUBSET Errors
    BY <2>1, <2>2 DEF CtlTypeOK
  <2> QED BY <1>0, <1>2, <2>3 DEF ReadError, CtlTypeOK
<1>3. CASE CopyGains
  BY <1>0, <1>3 DEF CopyGains, CtlTypeOK
<1>4. CASE StoreGains
  <2> PICK j \in Jacobians :
         /\ kp_k' = gain_1.kp + err.e_k * j * PTerm
         /\ ki_k' = gain_1.ki + err.e_k * j * ITerm
         /\ kd_k' = gain_1.kd + err.e_k * j * DTerm
    BY <1>4 DEF StoreGains
  <2>1. j \in Int /\ err.e_k * j \in Int
    BY PidType, JacobianAssumption
  <2>2. err.e_k * j * PTerm \in Int /\ err.e_k * j * ITerm \in Int
        /\ err.e_k * j * DTerm \in Int
    BY <2>1, PidType
  <2>3. kp_k' \in Int /\ ki_k' \in Int /\ kd_k' \in Int
    BY <2>2 DEF CtlTypeOK
  <2> QED BY <1>0, <1>4, <2>3 DEF StoreGains, NoGain, CtlTypeOK
<1>5. CASE GainsAtBound
  BY <1>0, <1>5 DEF GainsAtBound, NoGain, CtlTypeOK
<1>6. CASE FloorGains
  BY <1>0, <1>6 DEF FloorGains, Floor, CtlTypeOK
<1>7. CASE StoreLast
  BY <1>0, <1>7 DEF StoreLast, CtlTypeOK
<1>8. CASE StoreRaw
  <2>1. err' \in [Errors -> Int] /\ p_last' \in Int /\ UNCHANGED <<bound, p_k_1>>
    BY <1>8 DEF StoreRaw, NoErr, PutP
  <2>2. p_k' \in Int /\ pc' \in Places /\ UNCHANGED <<gainVars, unread, gain_1, overtaken>>
    BY <1>8, PidType DEF StoreRaw, PutP
  <2> QED BY <1>0, <2>1, <2>2 DEF CtlTypeOK
<1>9. CASE TestMax \/ TestMin
  BY <1>0, <1>9 DEF TestMax, TestMin, CtlTypeOK
<1>10. CASE PutMax \/ PutMin
  BY <1>0, <1>10 DEF PutMax, PutMin, PutP, CtlTypeOK
<1>11. CASE ClampMax
  <2>1. err' \in [Errors -> Int] /\ p_last' \in Int
    BY <1>0, <1>11, PidType DEF ClampMax, NotAbove, NoErr
  <2> QED BY <1>0, <1>11, <2>1 DEF ClampMax, CtlTypeOK
<1>12. CASE ClampMin
  BY <1>0, <1>12 DEF ClampMin, NotBelow, CtlTypeOK
<1>13. CASE StoreClamped
  BY <1>0, <1>13 DEF StoreClamped, PutP, CtlTypeOK
<1> QED BY <1>1, <1>2, <1>3, <1>4, <1>5, <1>6, <1>7, <1>8, <1>9, <1>10,
           <1>11, <1>12, <1>13 DEF Controller

(* No interleaving of packets, changes and controller steps leaves the      *)
(* state ill-typed, and the thread works on a configuration user space sent.*)
THEOREM AqmTypeCorrect == AqmSpec => []AqmTypeInv
<1>1. AqmInit => AqmTypeInv
  <2> SUFFICES ASSUME AqmInit PROVE AqmTypeInv
    OBVIOUS
  <2>1. TypeOK /\ Installed
    BY InitType DEF AqmInit, Init, Installed
  <2>2. err \in [Errors -> Int] /\ gain_1 \in [kp : Int, ki : Int, kd : Int]
    BY DEF AqmInit, NoErr, NoGain
  <2>3. overtaken \in BOOLEAN
    BY DEF AqmInit
  <2>4. CtlTypeOK
    BY <2>2, <2>3 DEF AqmInit, CtlTypeOK, Places
  <2> QED BY <2>1, <2>4 DEF AqmTypeInv
<1>2. AqmTypeInv /\ [AqmNext]_aqmVars => AqmTypeInv'
  <2> SUFFICES ASSUME TypeOK, CtlTypeOK, Installed, [AqmNext]_aqmVars
               PROVE  TypeOK' /\ CtlTypeOK' /\ Installed'
    BY DEF AqmTypeInv
  <2>1. CASE QdiscStep
    <3>1. TypeOK'
      BY <2>1, QdiscStepFrame, NextType
    <3>2. UNCHANGED <<live, cfg, ctlVars>> /\ (live \/ op' = op)
      BY <2>1, QdiscStepFrame DEF Installed, Judged, HalfWay
    <3> QED BY <3>1, <3>2 DEF CtlTypeOK, Installed, ctlVars, gainVars
  <2>2. CASE \E c \in Configs : Install(c) \/ Change(c)
    <3> PICK c \in Configs : Install(c) \/ Change(c)
      BY <2>2
    <3>1. TypeOK'
      BY NextType DEF Install, Change, Next, Control
    <3>2. overtaken' \in BOOLEAN
      BY DEF Install, Change, CtlTypeOK
    <3>3. CtlTypeOK'
      BY <3>2, ConfigFacts DEF Install, Change, SetGains, gainVars, CtlTypeOK
    <3>4. live' /\ cfg' = c
      BY DEF Install, Change, RbfgradInit, RbfgradChange, RootLockFree
    <3> QED BY <3>1, <3>3, <3>4 DEF Installed
  <2>3. CASE Controller
    <3>1. CtlTypeOK' /\ p_k' \in Int /\ p_k_1' \in Int
      BY <2>3, ControllerType
    <3>2. TypeOK'
      BY <2>3, <3>1, ControllerFrame DEF TypeOK, schVars, childVars, statVars,
         histVars, logVars, opVars, dumpVars
    <3>3. Installed'
      BY <2>3, ControllerFrame DEF Installed
    <3> QED BY <3>1, <3>2, <3>3
  <2>4. CASE UNCHANGED aqmVars
    <3>1. UNCHANGED vars /\ UNCHANGED <<live, cfg, op, ctlVars>>
      BY <2>4 DEF aqmVars, vars, opVars
    <3>2. TypeOK'
      BY <3>1, NextType
    <3> QED BY <3>1, <3>2 DEF CtlTypeOK, Installed, ctlVars, gainVars
  <2>5. CASE ChangeGoesOn
    <3>1. TypeOK'
      BY <2>5, ChangeFrame, NextType
    <3>2. kp_k' \in Int /\ ki_k' \in Int /\ kd_k' \in Int
      BY <2>5, ChangeFrame DEF SetGains, TypeOK, CfgType, CtlTypeOK, gainVars
    <3>3. CtlTypeOK'
      BY <2>5, <3>2, ChangeFrame DEF CtlTypeOK
    <3>4. Installed'
      BY <2>5, ChangeFrame DEF Installed, Changing
    <3> QED BY <3>1, <3>3, <3>4
  <2>6. CASE Stopped
    <3>1. TypeOK' /\ UNCHANGED <<live, cfg>>
      BY <2>6, StoppedFrame, NextType DEF vars
    <3> QED BY <2>6, <3>1, StoppedFrame DEF CtlTypeOK, Installed, gainVars, Places
  <2> QED BY <2>1, <2>2, <2>3, <2>4, <2>5, <2>6 DEF AqmNext
<1> QED BY <1>1, <1>2, PTL DEF AqmSpec

-----------------------------------------------------------------------------
(* Gains.  Between StoreGains and FloorGains a gain may be negative; a      *)
(* change that comes in between only replaces it by a configured one.       *)
(* No iteration computes with a negative gain, whatever the jacobian and    *)
(* the errors it learnt from.                                               *)
THEOREM GainsCorrect == AqmSpec => []GainsFloored
<1>1. AqmInit => GainsFloored
  BY DEF AqmInit, GainsFloored
<1>2. AqmTypeInv /\ GainsFloored /\ [AqmNext]_aqmVars => GainsFloored'
  <2> SUFFICES ASSUME CtlTypeOK, Installed, GainsFloored, [AqmNext]_aqmVars
               PROVE  GainsFloored'
    BY DEF AqmTypeInv
  <2> USE DEF GainsFloored, gainVars
  <2>1. CASE QdiscStep \/ UNCHANGED aqmVars
    BY <2>1 DEF QdiscStep, aqmVars, ctlVars
  <2>2. CASE \E c \in Configs : Install(c) \/ Change(c)
    BY <2>2, ConfigFacts DEF Install, Change, SetGains
  <2>3. CASE FloorGains
    BY <2>3 DEF FloorGains, Floor, CtlTypeOK
  <2>4. CASE StoreGains
    BY <2>4 DEF StoreGains, At
  <2>5. CASE Controller /\ ~FloorGains /\ ~StoreGains
    BY <2>5 DEF Controller, StartIteration, ReadError, SkipLearning, CopyGains,
       GainsAtBound, StoreLast, ClampMax, ClampMin, StoreClamped, StoreRaw,
       TestMax, PutMax, TestMin, PutMin, PutP, At
  <2>6. CASE ChangeGoesOn
    <3>1. cfg \in Configs
      BY <2>6, ChangeFrame DEF Installed, Changing
    <3> QED BY <2>6, <3>1, ChangeFrame, ConfigFacts DEF SetGains
  <2>7. CASE Stopped
    BY <2>7, StoppedFrame
  <2> QED BY <2>1, <2>2, <2>3, <2>4, <2>5, <2>6, <2>7 DEF AqmNext
<1> QED BY <1>1, <1>2, AqmTypeCorrect, PTL DEF AqmSpec

-----------------------------------------------------------------------------
(* Range.  What an iteration that no change overtook knows at each place of *)
(* the clamp: the limits it loaded are still the ones in force, and past    *)
(* the first test p_k is not above the upper one.                           *)
ClampProgress ==
    live /\ ~overtaken =>
      /\ pc = "put_max" => bound = cfg.p_max
      /\ pc = "min"     => p_k <= cfg.p_max
      /\ pc = "put_min" => bound = cfg.p_min
      /\ pc = "clamp"   => p_last <= cfg.p_max
      /\ pc = "store"   => InRange(p_last)

RangeInv == SettledInRange /\ ClampProgress

(* Between two iterations that no change overtook, p_k is within the limits *)
(* of the configuration in force, for every sum the PID terms can give and  *)
(* in both builds (stored raw and corrected, or clamped in a register).     *)
THEOREM RangeCorrect == AqmSpec => []SettledInRange
<1>1. AqmInit => RangeInv
  BY DEF AqmInit, Init, RangeInv, SettledInRange, ClampProgress
<1>2. AqmTypeInv /\ RangeInv /\ [AqmNext]_aqmVars => RangeInv'
  <2> SUFFICES ASSUME TypeOK, CtlTypeOK, Installed, RangeInv, [AqmNext]_aqmVars
               PROVE  RangeInv'
    BY DEF AqmTypeInv
  <2> USE DEF RangeInv, SettledInRange, ClampProgress, InRange
  <2>1. CASE QdiscStep \/ UNCHANGED aqmVars
    <3>1. /\ UNCHANGED <<live, cfg, p_k, pc, p_last, bound, overtaken>>
          /\ op = "set_p_k" => op' = "set_p_k"
      BY <2>1, QdiscStepFrame DEF aqmVars, ctlVars, vars, parmVars, opVars,
         Judged, HalfWay
    <3> QED BY <3>1
  <2>2. CASE \E c \in Configs : Install(c) \/ Change(c)
    <3> PICK c \in Configs : Install(c) \/ Change(c)
      BY <2>2
    <3>1. /\ cfg' = c /\ pc' = pc
          /\ overtaken' \/ pc \in {"rest", "ended"}
          /\ p_k' = c.p_init \/ op' = "set_p_k"
      BY DEF Install, Change, RbfgradInit, RbfgradChange, Installed
    <3> QED BY <3>1, ConfigFacts
  <2>3. CASE Controller
    <3>1. live /\ UNCHANGED <<live, cfg, op>> /\ cfg \in Configs
      BY <2>3, ControllerFrame DEF Installed, opVars
    <3>2. /\ p_last \in Int /\ cfg.p_min \in Int /\ cfg.p_max \in Int /\ p_k \in Int
          /\ cfg.p_min <= cfg.p_max
      BY <3>1, ConfigFacts DEF TypeOK, CtlTypeOK
    <3> USE DEF At
    <3>3. CASE \/ StartIteration \/ ReadError \/ SkipLearning \/ CopyGains
               \/ StoreGains \/ GainsAtBound \/ FloorGains \/ StoreLast
               \/ StoreRaw
      <4>1. pc' \notin {"rest", "put_max", "min", "put_min", "clamp", "store", "ended"}
        BY <3>3 DEF StartIteration, ReadError, SkipLearning, CopyGains,
           StoreGains, GainsAtBound, FloorGains, StoreLast, StoreRaw
      <4> QED BY <4>1
    <3>4. CASE StoreClamped
      BY <3>1, <3>4 DEF StoreClamped, PutP
    <3>5. CASE TestMax
      BY <3>1, <3>2, <3>5 DEF TestMax, vars, parmVars
    <3>6. CASE PutMax
      BY <3>1, <3>2, <3>6 DEF PutMax, PutP
    <3>7. CASE TestMin
      BY <3>1, <3>2, <3>7 DEF TestMin, vars, parmVars
    <3>8. CASE PutMin
      BY <3>1, <3>2, <3>8 DEF PutMin, PutP
    <3>9. CASE ClampMax
      BY <3>1, <3>2, <3>9, PidType DEF ClampMax, NotAbove
    <3>10. CASE ClampMin
      BY <3>1, <3>2, <3>10 DEF ClampMin, NotBelow
    <3> QED BY <2>3, <3>3, <3>4, <3>5, <3>6, <3>7, <3>8, <3>9, <3>10 DEF Controller
  <2>4. CASE ChangeGoesOn
    <3>1. cfg \in Configs
      BY <2>4, ChangeFrame DEF Installed, Changing
    <3> QED BY <2>4, <3>1, ChangeFrame, ConfigFacts
  <2>5. CASE Stopped
    BY <2>5, StoppedFrame DEF vars, parmVars, opVars
  <2> QED BY <2>1, <2>2, <2>3, <2>4, <2>5 DEF AqmNext
<1> QED BY <1>1, <1>2, AqmTypeCorrect, PTL DEF AqmSpec, RangeInv

-----------------------------------------------------------------------------
(* Samples.  p_k is raw only between StoreRaw and the end of the clamp.     *)
(* Past the first test it is not above the upper limit of some              *)
(* configuration, the one then in force: a change that comes in between     *)
(* has other limits, but a limit that was loaded before is a limit still.   *)
NotAboveAll(p) == \E d \in Configs : p <= d.p_max

RawOnlyInClamp ==
    live =>
      /\ pc \notin {"max", "put_max", "min", "put_min"} => Clamped(p_k)
      /\ pc = "min" => Clamped(p_k) \/ NotAboveAll(p_k)
      /\ pc \in {"put_max", "put_min"} => Clamped(bound)
      /\ pc = "clamp" => NotAboveAll(p_last)
      /\ pc = "store" => Clamped(p_last)

RawInv == SamplesNeverRaw /\ RawOnlyInClamp

(* A lower and an upper limit passed, of whatever configurations.           *)
LEMMA RangeIsSome ==
    ASSUME NEW c \in Configs, NEW d \in Configs, NEW p, c.p_min <= p, p <= d.p_max
    PROVE  Clamped(p)
BY DEF Clamped

(* The second test completes the first.                                     *)
LEMMA SecondTest ==
    ASSUME NEW c \in Configs, NEW p, c.p_min <= p, NotAboveAll(p)
    PROVE  Clamped(p)
BY RangeIsSome DEF NotAboveAll

(* Shifting a clean value into a clean window gives a clean window.         *)
LEMMA ShiftClean ==
    ASSUME TypeOK, Clamped(p_k_1), \A i \in Window : Clamped(proba[i]),
           proba' = Shift(proba, p_k_1)
    PROVE  \A i \in Window : Clamped(proba'[i])
<1> TAKE i \in Window
<1>1. CASE i = 0
  BY <1>1 DEF Shift
<1>2. CASE i # 0
  <2>1. i - 1 \in Window /\ proba'[i] = proba[i-1]
    BY <1>2, SamAssumption DEF Shift, Window
  <2> QED BY <2>1
<1> QED BY <1>1, <1>2

(* A step of the thread keeps a raw p_k inside the clamp.                   *)
LEMMA ControllerClean ==
    ASSUME TypeOK, CtlTypeOK, Installed, RawInv, Controller
    PROVE  RawInv'
<1> USE DEF RawInv, SamplesNeverRaw, RawOnlyInClamp, At
<1>1. /\ live /\ UNCHANGED <<live, cfg, proba>> /\ cfg \in Configs
  BY ControllerFrame DEF Installed, histVars
<1>2. /\ cfg.p_min \in Int /\ cfg.p_max \in Int /\ p_k \in Int /\ p_last \in Int
      /\ cfg.p_min <= cfg.p_max
  BY <1>1, ConfigFacts DEF TypeOK, CtlTypeOK
<1>3. Clamped(cfg.p_min) /\ Clamped(cfg.p_max)
  BY <1>1, <1>2, RangeIsSome
<1>4. CASE StartIteration \/ ReadError \/ SkipLearning \/ CopyGains
           \/ StoreGains \/ GainsAtBound \/ FloorGains
  <2>1. /\ UNCHANGED <<p_k, p_k_1>>
        /\ {pc, pc'} \subseteq {"rest", "read", "learn", "floor", "last"}
    BY <1>4 DEF StartIteration, ReadError, SkipLearning, CopyGains, StoreGains,
       GainsAtBound, FloorGains, vars, parmVars
  <2> QED BY <1>1, <2>1 DEF Clamped
<1>5. CASE StoreLast
  BY <1>1, <1>5 DEF StoreLast, Clamped
<1>6. CASE StoreClamped
  BY <1>1, <1>6 DEF StoreClamped, PutP, Clamped
<1>7. CASE StoreRaw
  BY <1>1, <1>7 DEF StoreRaw, PutP, Clamped
<1>8. CASE TestMax
  <2>1. UNCHANGED <<p_k, p_k_1>>
    BY <1>8 DEF TestMax, vars, parmVars
  <2>2. CASE p_k > cfg.p_max
    BY <1>1, <1>3, <1>8, <2>1, <2>2 DEF TestMax, Clamped
  <2>3. CASE ~(p_k > cfg.p_max)
    <3>1. NotAboveAll(p_k)
      BY <1>1, <1>2, <2>3 DEF NotAboveAll
    <3> QED BY <1>1, <1>8, <2>1, <2>3, <3>1 DEF TestMax, Clamped, NotAboveAll
  <2> QED BY <2>2, <2>3
<1>9. CASE PutMax \/ PutMin
  BY <1>1, <1>9 DEF PutMax, PutMin, PutP, Clamped
<1>10. CASE TestMin
  <2>1. UNCHANGED <<p_k, p_k_1>>
    BY <1>10 DEF TestMin, vars, parmVars
  <2>2. CASE p_k < cfg.p_min
    BY <1>1, <1>3, <1>10, <2>1, <2>2 DEF TestMin, Clamped
  <2>3. CASE ~(p_k < cfg.p_min)
    <3>1. Clamped(p_k)
      BY <1>1, <1>2, <1>10, <2>3, SecondTest DEF TestMin
    <3> QED BY <1>1, <1>10, <2>1, <2>3, <3>1 DEF TestMin, Clamped
  <2> QED BY <2>2, <2>3
<1>11. CASE ClampMax
  <2>1. NotAboveAll(NotAbove(cfg.p_max, Output))
    BY <1>1, <1>2, PidType DEF NotAbove, NotAboveAll
  <2> QED BY <1>1, <1>11, <2>1 DEF ClampMax, vars, parmVars, Clamped, NotAboveAll
<1>12. CASE ClampMin
  <2>1. NotAboveAll(p_last) /\ Clamped(p_k)
    BY <1>1, <1>12 DEF ClampMin
  <2>2. Clamped(NotBelow(cfg.p_min, p_last))
    BY <1>1, <1>2, <1>3, <2>1, SecondTest DEF NotBelow
  <2> QED BY <1>1, <1>12, <2>1, <2>2 DEF ClampMin, vars, parmVars, Clamped
<1> QED BY <1>4, <1>5, <1>6, <1>7, <1>8, <1>9, <1>10, <1>11, <1>12 DEF Controller

(* The unclamped probability never reaches p_k_1 and never becomes a sample *)
(* of the window the network is trained on, however packets, changes and    *)
(* the thread's loads and stores interleave.                                *)
THEOREM SamplesClean == AqmSpec => []SamplesNeverRaw
<1>1. AqmInit => RawInv
  BY DEF AqmInit, Init, RawInv, SamplesNeverRaw, RawOnlyInClamp
<1>2. AqmTypeInv /\ RawInv /\ [AqmNext]_aqmVars => RawInv'
  <2> SUFFICES ASSUME TypeOK, CtlTypeOK, Installed, RawInv, [AqmNext]_aqmVars
               PROVE  RawInv'
    BY DEF AqmTypeInv
  <2> USE DEF RawInv, SamplesNeverRaw, RawOnlyInClamp
  <2>1. CASE QdiscStep
    <3>1. /\ UNCHANGED <<live, cfg, p_k, p_k_1, pc, p_last, bound>>
          /\ proba' = proba \/ proba' = Shift(proba, p_k_1)
      BY <2>1, QdiscStepFrame DEF ctlVars
    <3>2. live => \A i \in Window : Clamped(proba'[i])
      BY <3>1, ShiftClean
    <3> QED BY <3>1, <3>2 DEF Clamped, NotAboveAll
  <2>2. CASE \E c \in Configs : Install(c) \/ Change(c)
    <3> PICK c \in Configs : Install(c) \/ Change(c)
      BY <2>2
    <3>1. /\ UNCHANGED <<pc, p_last, bound>>
          /\ \/ /\ ~live /\ pc = "rest" /\ p_k' = c.p_init /\ p_k_1' = 0
                /\ proba' = [i \in Window |-> c.p_init]
             \/ live /\ UNCHANGED <<p_k, p_k_1, proba>>
      BY DEF Install, Change, RbfgradInit, SetWindows, RbfgradChange, Installed,
         RootLockFree, parmVars, histVars
    <3>2. Clamped(c.p_init) /\ Clamped(0)
      BY ConfigFacts, RangeIsSome DEF Clamped
    <3> QED BY <3>1, <3>2 DEF Clamped, NotAboveAll
  <2>3. CASE Controller
    BY <2>3, ControllerClean
  <2>4. CASE UNCHANGED aqmVars
    BY <2>4 DEF aqmVars, ctlVars, vars, parmVars, histVars, Clamped, NotAboveAll
  <2>5. CASE ChangeGoesOn
    <3>1. live /\ cfg \in Configs
      BY <2>5, ChangeFrame DEF Installed, Changing
    <3>2. Clamped(cfg.p_init)
      BY <3>1, ConfigFacts, RangeIsSome
    <3>3. /\ UNCHANGED <<live, p_k_1, pc, p_last, bound>>
          /\ p_k' = p_k \/ p_k' = cfg.p_init
          /\ proba' = proba \/ proba' = [i \in Window |-> cfg.p_init]
      BY <2>5, ChangeFrame
    <3> QED BY <3>1, <3>2, <3>3 DEF Clamped, NotAboveAll
  <2>6. CASE Stopped
    BY <2>6, StoppedFrame DEF vars, parmVars, histVars, Clamped, NotAboveAll
  <2> QED BY <2>1, <2>2, <2>3, <2>4, <2>5, <2>6 DEF AqmNext
<1> QED BY <1>1, <1>2, AqmTypeCorrect, PTL DEF AqmSpec, RawInv

-----------------------------------------------------------------------------
(* Refinement.  Probs is the interface between the two specifications: the  *)
(* values the thread may store.  The sum it stores before the clamp can be  *)
(* any integer, so Int is the set that promises nothing about it.           *)

(* Every step of the thread is a store of p_k, a store of p_k_1, or no step *)
(* of the qdisc.                                                            *)
LEMMA ControllerRefines ==
    ASSUME Probs = Int, TypeOK, CtlTypeOK, Controller
    PROVE  [Next]_vars
<1>1. p_k' \in Probs /\ p_k_1' \in Probs /\ live
  BY ControllerType, ControllerFrame
<1>2. CASE StoreLast
  <2>1. StoreP1
    BY <1>1, <1>2 DEF StoreLast, StoreP1
  <2> QED BY <2>1 DEF Next
<1>3. CASE StoreRaw \/ PutMax \/ PutMin \/ StoreClamped
  <2>1. StoreP
    BY <1>1, <1>3 DEF StoreRaw, PutMax, PutMin, StoreClamped, PutP, StoreP
  <2> QED BY <2>1 DEF Next
<1>4. CASE \/ StartIteration \/ ReadError \/ SkipLearning \/ CopyGains
           \/ StoreGains \/ GainsAtBound \/ FloorGains
           \/ TestMax \/ TestMin \/ ClampMax \/ ClampMin
  BY <1>4 DEF StartIteration, ReadError, SkipLearning, CopyGains, StoreGains,
     GainsAtBound, FloorGains, TestMax, TestMin, ClampMax, ClampMin
<1> QED BY <1>2, <1>3, <1>4 DEF Controller

(* The qdisc with its real controller implements the qdisc with a           *)
(* controller that may store anything at any time, so that the accounts,    *)
(* the samples and the log proved of RbfgradQdisc hold beside the running   *)
(* thread.                                                                  *)
THEOREM RefinesQdisc == ASSUME Probs = Int PROVE AqmSpec => QdiscImplemented
<1>1. AqmInit => Init
  BY DEF AqmInit
<1>2. AqmTypeInv /\ [AqmNext]_aqmVars => [Next]_vars
  <2> SUFFICES ASSUME TypeOK, CtlTypeOK, [AqmNext]_aqmVars
               PROVE  [Next]_vars
    BY DEF AqmTypeInv
  <2>1. CASE QdiscStep
    BY <2>1, QdiscStepFrame
  <2>2. CASE \E c \in Configs : Install(c) \/ Change(c)
    BY <2>2 DEF Install, Change, Next, Control
  <2>3. CASE Controller
    BY <2>3, ControllerRefines
  <2>4. CASE UNCHANGED aqmVars
    BY <2>4 DEF aqmVars
  <2>5. CASE ChangeGoesOn
    BY <2>5, ChangeFrame
  <2>6. CASE Stopped
    BY <2>6, StoppedFrame
  <2> QED BY <2>1, <2>2, <2>3, <2>4, <2>5, <2>6 DEF AqmNext
<1> QED BY <1>1, <1>2, AqmTypeCorrect, PTL DEF AqmSpec, Spec, QdiscImplemented

(* So the qdisc beside its running controller thread still gives out what   *)
(* it accepted, once and unaltered, and counts each loss once.              *)
THEOREM AqmRefinesLossyQueue ==
    ASSUME Probs = Int PROVE AqmSpec => ImplementsLossyQueue
BY RefinesQdisc, RefinesLossyQueue, PTL DEF QdiscImplemented
=============================================================================
