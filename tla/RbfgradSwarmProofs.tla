-------------------------- MODULE RbfgradSwarmProofs --------------------------
(***************************************************************************)
(* What TLAPS proves of RbfgradSwarm for any number of particles, epochs,   *)
(* iterations and changes, and any targets, samples and draws.              *)
(***************************************************************************)
EXTENDS RbfgradSwarm, WellFoundedInduction, TLAPS

-----------------------------------------------------------------------------
(* The inductive invariant.                                                 *)

(* The particles whose pbestval belongs to this iteration.                  *)
Known == IF pc = "copy" THEN {}
         ELSE IF pc = "init" THEN {p \in Particles : p < j} ELSE Particles

ErrorOf(x) == SSE(x[1], x[2], x[3])

(* Before they are evaluated, the best positions are copies.                *)
PbestCopied ==
    ~overtaken => /\ pc = "copy" => \A p \in Particles : p < j => pbest[p] = pos[p]
                  /\ pc = "init" => \A p \in Particles : pbest[p] = pos[p]

(* A best value of a particle is the error of its best position when it was *)
(* tried in this iteration, and the value about to be kept is the error of  *)
(* the position about to be kept ...                                        *)
PbestTried ==
    pc # "rest" /\ ~overtaken =>
      /\ \A p \in Known : \E x \in tried : x[1] = pbest[p] /\ pbestval[p] = ErrorOf(x)
      /\ pc = "keep" => \E x \in tried : x[1] = pos[j] /\ sse = ErrorOf(x)

(* ... and whatever was tried, some particle has a best value as good, or   *)
(* will have it when the last value has been compared.                      *)
TriedCovered ==
    pc # "rest" => \A x \in tried : \/ \E p \in Known : pbestval[p] <= ErrorOf(x)
                                    \/ pc = "keep" /\ sse <= ErrorOf(x)

(* gbest and gbestval are those of particle index since they were updated;  *)
(* while the particles are evaluated again, pbestval can only fall below.   *)
GbestCurrent ==
    ~overtaken =>
      /\ pc \in {"move", "step", "store", "decide"} =>
           /\ gbest = pbest[index]
           /\ gbestval = pbestval[index]
           /\ \A p \in Particles : gbestval <= pbestval[p]
      /\ pc \in {"eval", "keep", "gbest"} => pbestval[index] <= gbestval
      /\ pc = "decide" => w_k = gbest

(* Outside the loops over the particles, j is ready for the next one.       *)
LoopFresh == pc \in {"rest", "first", "gbest", "store", "decide"} => j = 0

SwarmInv == /\ TypeOK /\ LoopFresh /\ PbestCopied /\ PbestTried
            /\ TriedCovered /\ GbestCurrent

-----------------------------------------------------------------------------
(* The operators of the model.                                              *)

LEMMA SSEInNat ==
  ASSUME NEW x \in Int, NEW h \in Int, NEW t \in Int
  PROVE  SSE(x, h, t) \in Nat
  <1>1. \A d \in Int : d >= 0 => d * d \in Nat
    OBVIOUS
  <1>2. \A d \in Int : d * d = (-d) * (-d)
    OBVIOUS
  <1>3. \A d \in Int : d * d \in Nat
    <2> TAKE d \in Int
    <2>1. d >= 0 \/ -d >= 0
      OBVIOUS
    <2>2. -d \in Int
      OBVIOUS
    <2> QED
      BY <1>1, <1>2, <2>1, <2>2
  <1>4. h * x \in Int
    OBVIOUS
  <1>5. t - h * x \in Int
    BY <1>4
  <1> QED
    BY <1>3, <1>5, Zenon DEF SSE

(* What has been tried has an error, and so has the particle in hand.       *)
LEMMA ErrorsInNat ==
  ASSUME TypeOK
  PROVE  /\ Error \in Nat
         /\ \A x \in tried : ErrorOf(x) \in Nat
  <1>1. pos[j] \in Int /\ hidden \in Int /\ target \in Int
    BY SwarmAssumption DEF TypeOK
  <1>2. Error \in Nat
    BY <1>1, SSEInNat DEF Error
  <1>3. ASSUME NEW x \in tried PROVE ErrorOf(x) \in Nat
    <2>1. x[1] \in Int /\ x[2] \in Int /\ x[3] \in Int
      BY SwarmAssumption DEF TypeOK
    <2> QED
      BY <2>1, SSEInNat DEF ErrorOf
  <1> QED
    BY <1>2, <1>3

(* A try is remembered with its error.                                      *)
LEMMA TryIs ==
  ASSUME TypeOK, Try
  PROVE  \E x \in tried' : /\ tried' = tried \cup {x}
                           /\ x[1] = pos[j] /\ ErrorOf(x) = Error
  <1> DEFINE x == <<pos[j], hidden, target>>
  <1>1. x[1] = pos[j] /\ x[2] = hidden /\ x[3] = target
    OBVIOUS
  <1>2. ErrorOf(x) = Error
    BY <1>1 DEF ErrorOf, Error
  <1>3. tried' = tried \cup {x}
    BY DEF Try
  <1> HIDE DEF x
  <1> QED
    BY <1>1, <1>2, <1>3

LEMMA LimitInRange ==
  ASSUME NEW v \in Int
  PROVE  Limit(v) \in Int
  BY SwarmAssumption DEF Limit

LEMMA NatHasLeast ==
  ASSUME NEW S, S \subseteq Nat, S # {}
  PROVE  \E x \in S : \A y \in S : x <= y
  <1>1. PICK x \in S : \A y \in S : ~(<<y, x>> \in OpToRel(<, Nat))
    BY NatLessThanWellFounded, WFMin, Zenon
  <1>2. \A y, z \in Nat : y < z => <<y, z>> \in OpToRel(<, Nat)
    BY Zenon DEF OpToRel
  <1>3. \A y \in S : ~(y < x)
    BY <1>1, <1>2, Zenon
  <1> QED
    BY <1>3

(* The loop over pbestval finds a particle, and none has a smaller value.   *)
LEMMA BestIs ==
  ASSUME pbestval \in [Particles -> Nat]
  PROVE  /\ Best \in Particles
         /\ \A p \in Particles : pbestval[Best] <= pbestval[p]
  <1> DEFINE V == {pbestval[p] : p \in Particles}
  <1>1. V \subseteq Nat /\ V # {}
    BY SwarmAssumption DEF Particles
  <1>2. PICK v \in V : \A y \in V : v <= y
    BY <1>1, NatHasLeast
  <1> DEFINE T == {p \in Particles : pbestval[p] = v}
  <1>3. T \subseteq Nat /\ T # {}
    BY SwarmAssumption DEF Particles
  <1>4. PICK b \in T : \A y \in T : b <= y
    BY <1>3, NatHasLeast
  <1>5. \A p \in Particles : \/ pbestval[b] < pbestval[p]
                             \/ pbestval[b] = pbestval[p] /\ b <= p
    <2> TAKE p \in Particles
    <2>1. pbestval[b] = v /\ b \in Particles
      OBVIOUS
    <2>2. v <= pbestval[p] /\ v \in Nat /\ pbestval[p] \in Nat
      BY <1>1, <1>2
    <2>3. pbestval[p] = v => b <= p
      BY <1>4
    <2> QED
      BY <2>1, <2>2, <2>3
  <1>6. /\ Best \in Particles
        /\ \A p \in Particles : \/ pbestval[Best] < pbestval[p]
                                \/ pbestval[Best] = pbestval[p] /\ Best <= p
    BY <1>5, Zenon DEF Best
  <1> HIDE DEF V, T
  <1> QED
    BY <1>6

LEMMA NextParticleIs ==
  ASSUME NEW here, NEW there, j \in Particles, NextParticle(here, there)
  PROVE  /\ j' \in Particles
         /\ \/ j < PARTICLE_NUM - 1 /\ j' = j + 1 /\ pc' = here
            \/ j = PARTICLE_NUM - 1 /\ j' = 0 /\ pc' = there
  BY SwarmAssumption DEF NextParticle, Particles

-----------------------------------------------------------------------------
(* What the steps leave alone.                                              *)

(* A change leaves the thread, its best positions and its tries alone, and  *)
(* an iteration it falls into is overtaken.                                 *)
LEMMA SetParmsFrame ==
  ASSUME SetParms
  PROVE  /\ overtaken' = (pc # "rest")
         /\ UNCHANGED <<pbest, pbestval, gbest, sse, pc, j, epoch, index, iter, tried>>
  BY DEF SetParms, ResetNet, RedrawParticle, ZeroGbestval, ctlVars

(* The steps that touch neither the best values nor the tries.              *)
LEMMA MoveFrame ==
  ASSUME Accelerate \/ MoveParticle, j \in Particles
  PROVE  /\ pc \in {"move", "step"} /\ pc' \in {"move", "step", "eval", "store"}
         /\ UNCHANGED <<pbest, pbestval, gbest, gbestval, w_k, index, tried, overtaken>>
  BY NextParticleIs DEF Accelerate, MoveParticle

-----------------------------------------------------------------------------
(* The invariant holds at the start ...                                     *)
LEMMA SwarmInit == Init => SwarmInv
  <1> SUFFICES ASSUME Init PROVE SwarmInv
    OBVIOUS
  <1>1. 0 \in Particles /\ 0 \in 0..MAX_EPOCH-1 /\ 0 \in Int /\ 0 \in Nat
    BY SwarmAssumption DEF Particles
  <1>2. PICK p \in [Particles -> Starts], v \in [Particles -> StartVels] :
          pos = p /\ vel = v /\ w_k = p[0]
    BY DEF Init
  <1>3. pos \in [Particles -> Int] /\ vel \in [Particles -> Int] /\ w_k \in Int
    BY <1>1, <1>2, SwarmAssumption
  <1>4. TypeOK
    BY <1>1, <1>3, SwarmAssumption DEF Init, TypeOK
  <1> QED
    BY <1>4 DEF Init, SwarmInv, LoopFresh, PbestCopied, PbestTried, TriedCovered,
       GbestCurrent

(* ... and a change keeps the types ...                                     *)
LEMMA SetParmsType == TypeOK /\ SetParms => TypeOK'
  <1> SUFFICES ASSUME TypeOK, SetParms PROVE TypeOK'
    OBVIOUS
  <1> USE DEF TypeOK, ctlVars, netVars
  <1>0. overtaken' \in BOOLEAN
    BY SetParmsFrame
  <1>1. CASE ResetNet
    <2>1. w_k' \in Int /\ target' \in Targets /\ hidden' \in Hiddens
      BY <1>1, SwarmAssumption DEF ResetNet
    <2>2. drawn' \in Particles /\ changes' \in Nat /\ change' \in {"none", "draw", "zero"}
      BY <1>1, SwarmAssumption DEF ResetNet, Particles
    <2> QED
      BY <1>0, <1>1, <2>1, <2>2 DEF ResetNet
  <1>2. CASE RedrawParticle
    <2>1. pos' \in [Particles -> Int] /\ vel' \in [Particles -> Int]
      <3>1. PICK x \in Starts, v \in StartVels :
              /\ pos' = [pos EXCEPT ![drawn] = IF drawn = 0 THEN w_k ELSE x]
              /\ vel' = [vel EXCEPT ![drawn] = v]
        BY <1>2 DEF RedrawParticle
      <3>2. x \in Int /\ v \in Int
        BY SwarmAssumption
      <3> QED
        BY <3>1, <3>2
    <2>2. drawn' \in Particles /\ change' \in {"none", "draw", "zero"}
      <3>1. CASE drawn < PARTICLE_NUM - 1
        <4>1. drawn' = drawn + 1 /\ change' = change
          BY <1>2, <3>1 DEF RedrawParticle
        <4> QED
          BY <3>1, <4>1, SwarmAssumption DEF Particles
      <3>2. CASE ~(drawn < PARTICLE_NUM - 1)
        <4>1. drawn' = 0 /\ change' = "zero"
          BY <1>2, <3>2 DEF RedrawParticle
        <4> QED
          BY <4>1, SwarmAssumption DEF Particles
      <3> QED
        BY <3>1, <3>2
    <2> QED
      BY <1>0, <1>2, <2>1, <2>2 DEF RedrawParticle
  <1>3. CASE ZeroGbestval
    BY <1>0, <1>3 DEF ZeroGbestval
  <1> QED
    BY <1>1, <1>2, <1>3 DEF SetParms

(* ... as does every other step ...                                         *)
LEMMA TypeNext == TypeOK /\ [Next]_vars => TypeOK'
  <1> SUFFICES ASSUME TypeOK, [Next]_vars PROVE TypeOK'
    OBVIOUS
  <1> USE DEF TypeOK, netVars, swarmVars, ctlVars, changeVars
  <1>0. pos[j] \in Int /\ vel[j] \in Int /\ pbest[j] \in Int
    BY SwarmAssumption
  <1>t. Try => tried' \subseteq Int \X Hiddens \X Targets
    BY <1>0 DEF Try
  <1>1. CASE MoveTarget
    BY <1>1 DEF MoveTarget
  <1>2. CASE SetParms
    BY <1>2, SetParmsType
  <1>3. CASE StartSwarm
    <2>1. hidden' \in Hiddens /\ tried' = {} /\ overtaken' = FALSE /\ pc' = "copy"
      BY <1>3 DEF StartSwarm
    <2>2. iter' \in Nat
      BY <1>3 DEF StartSwarm
    <2>3. tried' \subseteq Int \X Hiddens \X Targets /\ overtaken' \in BOOLEAN
      BY <2>1
    <2> QED
      BY <1>3, <2>1, <2>2, <2>3 DEF StartSwarm
  <1>4. CASE CopyPbest
    <2>1. pbest' \in [Particles -> Int]
      BY <1>0, <1>4 DEF CopyPbest
    <2>2. j' \in Particles /\ pc' \in {"copy", "init"}
      BY <1>4, NextParticleIs DEF CopyPbest
    <2> QED
      BY <1>4, <2>1, <2>2 DEF CopyPbest
  <1>5. CASE InitPbestval
    <2>1. pbestval' \in [Particles -> Nat]
      BY <1>5, ErrorsInNat DEF InitPbestval
    <2>2. j' \in Particles /\ pc' \in {"init", "first"}
      BY <1>5, NextParticleIs DEF InitPbestval
    <2> QED
      BY <1>5, <1>t, <2>1, <2>2 DEF InitPbestval
  <1>6. CASE UpdateGbest
    <2>1. Best \in Particles
      BY BestIs
    <2> HIDE DEF Best
    <2> QED
      BY <1>6, <2>1 DEF UpdateGbest
  <1>7. CASE Evaluate
    <2>1. sse' \in Nat
      BY <1>7, ErrorsInNat DEF Evaluate
    <2> QED
      BY <1>7, <1>t, <2>1 DEF Evaluate
  <1>8. CASE KeepBetter
    <2>1. pbestval' \in [Particles -> Nat] /\ pbest' \in [Particles -> Int]
      BY <1>0, <1>8 DEF KeepBetter
    <2>2. j' \in Particles /\ pc' \in {"eval", "gbest"}
      BY <1>8, NextParticleIs DEF KeepBetter
    <2> QED
      BY <1>8, <2>1, <2>2 DEF KeepBetter
  <1>9. CASE Accelerate
    <2>1. PICK w \in Inertias, a \in Pulls, b \in Pulls :
            vel' = [vel EXCEPT ![j] = Limit(w * vel[j] + a * (pbest[j] - pos[j])
                                                      + b * (gbest - pos[j]))]
      BY <1>9 DEF Accelerate
    <2>2. w * vel[j] + a * (pbest[j] - pos[j]) + b * (gbest - pos[j]) \in Int
      BY <1>0, SwarmAssumption
    <2>3. vel' \in [Particles -> Int]
      <3>1. Limit(w * vel[j] + a * (pbest[j] - pos[j]) + b * (gbest - pos[j])) \in Int
        BY <2>2, LimitInRange
      <3> QED
        BY <2>1, <3>1, Zenon
    <2> QED
      BY <1>9, <2>3 DEF Accelerate
  <1>10. CASE MoveParticle
    <2>1. pos' \in [Particles -> Int]
      BY <1>0, <1>10 DEF MoveParticle
    <2>2. j' \in Particles /\ pc' \in {"move", "eval", "store"}
      BY <1>10, NextParticleIs DEF MoveParticle
    <2>3. epoch' \in 0..MAX_EPOCH-1
      BY <1>10, SwarmAssumption DEF MoveParticle
    <2> QED
      BY <1>10, <2>1, <2>2, <2>3 DEF MoveParticle
  <1>11. CASE StoreWeights \/ Decide
    BY <1>11 DEF StoreWeights, Decide
  <1>12. CASE UNCHANGED vars
    BY <1>12 DEF vars
  <1> QED
    BY <1>1, <1>2, <1>3, <1>4, <1>5, <1>6, <1>7, <1>8, <1>9, <1>10, <1>11, <1>12
       DEF Next, Swarm

(* ... keeps the loops in step ...                                          *)
LEMMA FreshNext == TypeOK /\ LoopFresh /\ [Next]_vars => LoopFresh'
  <1> SUFFICES ASSUME TypeOK, LoopFresh, [Next]_vars PROVE LoopFresh'
    OBVIOUS
  <1>0. j \in Particles
    BY DEF TypeOK
  <1>1. CASE CopyPbest \/ InitPbestval
    BY <1>0, <1>1, NextParticleIs DEF CopyPbest, InitPbestval, LoopFresh
  <1>2. CASE KeepBetter
    BY <1>0, <1>2, NextParticleIs DEF KeepBetter, LoopFresh
  <1>3. CASE MoveParticle
    BY <1>0, <1>3, NextParticleIs DEF MoveParticle, LoopFresh
  <1>4. CASE SetParms
    BY <1>4, SetParmsFrame DEF LoopFresh
  <1> QED
    BY <1>1, <1>2, <1>3, <1>4 DEF Next, Swarm, MoveTarget, StartSwarm, Evaluate,
       UpdateGbest, Accelerate, StoreWeights, Decide, LoopFresh, vars, ctlVars

(* ... keeps the copies ...                                                 *)
LEMMA CopiedNext == SwarmInv /\ [Next]_vars => PbestCopied'
  <1> SUFFICES ASSUME SwarmInv, [Next]_vars PROVE PbestCopied'
    OBVIOUS
  <1> USE DEF SwarmInv, TypeOK
  <1>1. CASE StartSwarm
    <2>1. pc' = "copy" /\ j' = 0
      BY <1>1 DEF StartSwarm, LoopFresh
    <2> QED
      BY <2>1, SwarmAssumption DEF PbestCopied, Particles
  <1>2. CASE CopyPbest
    <2>1. \/ j < PARTICLE_NUM - 1 /\ j' = j + 1 /\ pc' = "copy"
          \/ j = PARTICLE_NUM - 1 /\ j' = 0 /\ pc' = "init"
      BY <1>2, NextParticleIs DEF CopyPbest
    <2>2. UNCHANGED <<pos, overtaken>> /\ pbest' = [pbest EXCEPT ![j] = pos[j]]
      BY <1>2 DEF CopyPbest
    <2>3. ~overtaken => \A p \in Particles : p < j => pbest[p] = pos[p]
      BY <1>2 DEF CopyPbest, PbestCopied
    <2>4. j \in Nat /\ Particles \subseteq Nat /\ PARTICLE_NUM \in Nat
      BY SwarmAssumption DEF Particles
    <2>5. ASSUME ~overtaken, NEW p \in Particles, p < j + 1
          PROVE  pbest'[p] = pos'[p]
      <3>1. CASE p = j
        BY <2>2, <3>1
      <3>2. CASE p # j
        <4>1. p < j
          BY <2>4, <2>5, <3>2
        <4>2. pbest'[p] = pbest[p]
          BY <2>2, <3>2
        <4> QED
          BY <2>2, <2>3, <2>5, <4>1, <4>2
      <3> QED
        BY <3>1, <3>2
    <2>6. CASE j' = j + 1 /\ pc' = "copy"
      BY <2>2, <2>5, <2>6 DEF PbestCopied
    <2>7. CASE j = PARTICLE_NUM - 1 /\ pc' = "init"
      <3>1. \A p \in Particles : p < j + 1
        BY <2>4, <2>7, SwarmAssumption DEF Particles
      <3> QED
        BY <2>2, <2>5, <2>7, <3>1 DEF PbestCopied
    <2> QED
      BY <2>1, <2>6, <2>7
  <1>3. CASE InitPbestval
    <2>1. pc' \in {"init", "first"} /\ pc = "init"
      BY <1>3, NextParticleIs DEF InitPbestval
    <2> QED
      BY <1>3, <2>1 DEF InitPbestval, PbestCopied
  <1>4. CASE SetParms
    BY <1>4, SetParmsFrame DEF PbestCopied
  <1>5. CASE KeepBetter
    BY <1>5, NextParticleIs DEF KeepBetter, PbestCopied
  <1>6. CASE Accelerate \/ MoveParticle
    BY <1>6, MoveFrame DEF PbestCopied
  <1> QED
    BY <1>1, <1>2, <1>3, <1>4, <1>5, <1>6 DEF Next, Swarm, MoveTarget, Evaluate,
       UpdateGbest, StoreWeights, Decide, PbestCopied, vars, swarmVars, ctlVars

(* Each evaluation of the first loop adds its particle to the known ones.   *)
LEMMA KnownGrows ==
  ASSUME TypeOK, InitPbestval
  PROVE  Known' = Known \cup {j} /\ j \notin Known /\ Known \subseteq Particles
  <1>0. j \in Particles /\ pc = "init"
    BY DEF TypeOK, InitPbestval
  <1>1. Known = {p \in Particles : p < j}
    BY <1>0 DEF Known
  <1>2. \/ j < PARTICLE_NUM - 1 /\ j' = j + 1 /\ pc' = "init"
        \/ j = PARTICLE_NUM - 1 /\ j' = 0 /\ pc' = "first"
    BY <1>0, NextParticleIs DEF InitPbestval
  <1>3. CASE j < PARTICLE_NUM - 1 /\ j' = j + 1 /\ pc' = "init"
    <2>1. Known' = {p \in Particles : p < j + 1}
      BY <1>3 DEF Known, Particles
    <2> QED
      BY <1>0, <1>1, <2>1, SwarmAssumption DEF Particles
  <1>4. CASE j = PARTICLE_NUM - 1 /\ j' = 0 /\ pc' = "first"
    <2>1. Known' = Particles
      BY <1>4 DEF Known, Particles
    <2> QED
      BY <1>0, <1>1, <1>4, <2>1, SwarmAssumption DEF Particles
  <1> QED
    BY <1>2, <1>3, <1>4

(* Nothing is known when the copies have been made.                         *)
LEMMA KnownStarts ==
  ASSUME TypeOK, CopyPbest
  PROVE  Known = {} /\ Known' = {} /\ pc' \in {"copy", "init"}
  <1>1. pc = "copy" /\ (pc' = "copy" \/ (pc' = "init" /\ j' = 0))
    BY NextParticleIs DEF CopyPbest, TypeOK
  <1> QED
    BY <1>1, SwarmAssumption DEF Known, Particles

(* ... keeps what is known of the best positions ...                        *)
LEMMA PbestNext == SwarmInv /\ [Next]_vars => PbestTried'
  <1> DEFINE Fits(S, p, v) == \E x \in S : x[1] = p /\ v = ErrorOf(x)
  <1> SUFFICES ASSUME SwarmInv, [Next]_vars, pc' # "rest", ~overtaken'
               PROVE  /\ \A p \in Known' : Fits(tried', pbest'[p], pbestval'[p])
                      /\ pc' = "keep" => Fits(tried', pos'[j'], sse')
    BY DEF PbestTried, ErrorOf, SSE
  <1>f. ASSUME NEW S, NEW p, NEW v, Fits(S, p, v), NEW T, S \subseteq T
        PROVE  Fits(T, p, v)
    BY <1>f
  <1>o. /\ pc # "rest" /\ ~overtaken => \A p \in Known : Fits(tried, pbest[p], pbestval[p])
        /\ pc = "keep" /\ ~overtaken => Fits(tried, pos[j], sse)
    BY DEF SwarmInv, PbestTried
  <1> HIDE DEF Fits
  <1> USE DEF SwarmInv, TypeOK, swarmVars, ctlVars
  <1>1. CASE MoveTarget
    BY <1>1, <1>o DEF MoveTarget, Known
  <1>2. CASE SetParms
    BY <1>2, SetParmsFrame
  <1>3. CASE StartSwarm
    BY <1>3 DEF StartSwarm, Known
  <1>4. CASE CopyPbest
    BY <1>4, KnownStarts
  <1>5. CASE InitPbestval
    <2>1. pc = "init" /\ pc' # "keep" /\ ~overtaken /\ pbest' = pbest /\ Try
      BY <1>5, NextParticleIs DEF InitPbestval
    <2>2. Known' = Known \cup {j} /\ j \notin Known /\ Known \subseteq Particles
      BY <1>5, KnownGrows
    <2>3. /\ \A p \in Known : pbestval'[p] = pbestval[p]
          /\ pbestval'[j] = Error /\ pbest[j] = pos[j]
      BY <1>5, <2>1, <2>2 DEF InitPbestval, PbestCopied
    <2>4. Fits(tried', pos[j], Error) /\ tried \subseteq tried'
      BY <2>1, TryIs DEF Fits
    <2> QED
      BY <1>f, <1>o, <2>1, <2>2, <2>3, <2>4
  <1>6. CASE UpdateGbest
    BY <1>6, <1>o DEF UpdateGbest, Known
  <1>7. CASE Evaluate
    <2>1. /\ pc = "eval" /\ pc' = "keep" /\ ~overtaken /\ Try /\ sse' = Error
          /\ UNCHANGED <<pbest, pbestval, pos, j>>
      BY <1>7 DEF Evaluate
    <2>2. Known' = Known
      BY <2>1 DEF Known, Particles
    <2>3. Fits(tried', pos[j], Error) /\ tried \subseteq tried'
      BY <2>1, TryIs DEF Fits
    <2> QED
      BY <1>f, <1>o, <2>1, <2>2, <2>3
  <1>8. CASE KeepBetter
    <2>1. pc = "keep" /\ pc' \in {"eval", "gbest"} /\ ~overtaken /\ tried' = tried
      BY <1>8, NextParticleIs DEF KeepBetter
    <2>2. Known' = Particles /\ Known = Particles
      BY <2>1 DEF Known, Particles
    <2>3. \A p \in Particles : \/ pbest'[p] = pbest[p] /\ pbestval'[p] = pbestval[p]
                               \/ pbest'[p] = pos[j] /\ pbestval'[p] = sse
      BY <1>8 DEF KeepBetter
    <2>4. ASSUME NEW p \in Particles PROVE Fits(tried', pbest'[p], pbestval'[p])
      <3>1. Fits(tried, pbest[p], pbestval[p]) /\ Fits(tried, pos[j], sse)
        BY <1>o, <2>1, <2>2
      <3> QED
        BY <2>1, <2>3, <3>1
    <2> QED
      BY <2>1, <2>2, <2>4
  <1>9. CASE Accelerate \/ MoveParticle
    <2>1. Known' = Known /\ pc' # "keep"
      BY <1>9, MoveFrame DEF Known, Particles
    <2> QED
      BY <1>9, <1>o, <2>1, MoveFrame
  <1>10. CASE StoreWeights
    BY <1>10, <1>o DEF StoreWeights, Known
  <1>11. CASE Decide
    BY <1>11 DEF Decide
  <1>12. CASE UNCHANGED vars
    BY <1>12, <1>o DEF vars, Known
  <1> QED
    BY <1>1, <1>2, <1>3, <1>4, <1>5, <1>6, <1>7, <1>8, <1>9, <1>10, <1>11, <1>12
       DEF Next, Swarm

(* ... keeps every try covered by a particle's best ...                     *)
LEMMA TriedNext == SwarmInv /\ [Next]_vars => TriedCovered'
  <1> SUFFICES ASSUME SwarmInv, [Next]_vars, pc' # "rest"
               PROVE  \A x \in tried' : \/ \E p \in Known' : pbestval'[p] <= ErrorOf(x)
                                        \/ pc' = "keep" /\ sse' <= ErrorOf(x)
    BY DEF TriedCovered, ErrorOf, SSE
  <1>o. pc # "rest" => \A x \in tried : \/ \E p \in Known : pbestval[p] <= ErrorOf(x)
                                        \/ pc = "keep" /\ sse <= ErrorOf(x)
    BY DEF SwarmInv, TriedCovered
  <1>n. Error \in Nat /\ \A x \in tried : ErrorOf(x) \in Nat
    BY ErrorsInNat DEF SwarmInv
  <1>c. UNCHANGED <<pc, j>> => Known' = Known
    BY DEF Known, Particles
  <1> USE DEF SwarmInv, TypeOK, swarmVars, ctlVars
  <1>1. CASE MoveTarget
    BY <1>1, <1>c, <1>o DEF MoveTarget
  <1>2. CASE SetParms
    BY <1>2, <1>c, <1>o, SetParmsFrame
  <1>3. CASE StartSwarm
    BY <1>3 DEF StartSwarm
  <1>4. CASE CopyPbest
    <2>1. tried' = tried /\ pc = "copy" /\ Known = {}
      BY <1>4, KnownStarts DEF CopyPbest
    <2> QED
      BY <1>o, <2>1
  <1>5. CASE InitPbestval
    <2>0. Known' = Known \cup {j} /\ j \notin Known /\ Known \subseteq Particles
      BY <1>5, KnownGrows
    <2>1. \A p \in Known : pbestval'[p] = pbestval[p]
      BY <1>5, <2>0 DEF InitPbestval
    <2>2. pbestval'[j] = Error /\ pc = "init" /\ Try
      BY <1>5 DEF InitPbestval
    <2>3. PICK y \in tried' : tried' = tried \cup {y} /\ ErrorOf(y) = Error
      BY <2>2, TryIs
    <2>4. ASSUME NEW x \in tried PROVE \E p \in Known' : pbestval'[p] <= ErrorOf(x)
      BY <1>o, <2>0, <2>1, <2>2
    <2>5. pbestval'[j] <= ErrorOf(y)
      BY <1>n, <2>2, <2>3
    <2> QED
      BY <2>0, <2>3, <2>4, <2>5
  <1>6. CASE UpdateGbest
    BY <1>6, <1>o DEF UpdateGbest, Known
  <1>7. CASE Evaluate
    <2>1. /\ pc = "eval" /\ pc' = "keep" /\ Try /\ sse' = Error
          /\ UNCHANGED <<pbestval, j>>
      BY <1>7 DEF Evaluate
    <2>2. Known' = Known
      BY <2>1 DEF Known, Particles
    <2>3. PICK y \in tried' : tried' = tried \cup {y} /\ ErrorOf(y) = Error
      BY <2>1, TryIs
    <2>4. sse' <= ErrorOf(y)
      BY <1>n, <2>1, <2>3
    <2> QED
      BY <1>o, <2>1, <2>2, <2>3, <2>4
  <1>8. CASE KeepBetter
    <2>0. pc = "keep" /\ pc' \in {"eval", "gbest"} /\ tried' = tried
      BY <1>8, NextParticleIs DEF KeepBetter
    <2>1. Known' = Particles /\ Known = Particles
      BY <2>0 DEF Known, Particles
    <2>2. \A p \in Particles : pbestval'[p] <= pbestval[p] /\ pbestval'[p] \in Nat
      BY <1>8 DEF KeepBetter
    <2>3. pbestval'[j] <= sse /\ sse \in Nat
      BY <1>8 DEF KeepBetter
    <2>4. ASSUME NEW x \in tried PROVE \E p \in Particles : pbestval'[p] <= ErrorOf(x)
      <3>0. ErrorOf(x) \in Nat
        BY <1>n
      <3>1. CASE \E p \in Particles : pbestval[p] <= ErrorOf(x)
        <4>1. PICK p \in Particles : pbestval[p] <= ErrorOf(x)
          BY <3>1
        <4>2. pbestval'[p] <= pbestval[p] /\ pbestval'[p] \in Nat /\ pbestval[p] \in Nat
          BY <2>2
        <4> QED
          BY <3>0, <4>1, <4>2
      <3>2. CASE sse <= ErrorOf(x)
        <4>1. pbestval'[j] <= ErrorOf(x)
          BY <2>2, <2>3, <3>0, <3>2
        <4> QED
          BY <4>1
      <3> QED
        BY <1>o, <2>0, <2>1, <3>1, <3>2
    <2> QED
      BY <2>0, <2>1, <2>4
  <1>9. CASE Accelerate \/ MoveParticle
    <2>1. Known' = Known /\ pc # "keep" /\ pc # "rest"
      BY <1>9, MoveFrame DEF Known, Particles
    <2> QED
      BY <1>9, <1>o, <2>1, MoveFrame
  <1>10. CASE StoreWeights
    BY <1>10, <1>o DEF StoreWeights, Known
  <1>11. CASE Decide
    BY <1>11 DEF Decide
  <1>12. CASE UNCHANGED vars
    BY <1>12, <1>c, <1>o DEF vars
  <1> QED
    BY <1>1, <1>2, <1>3, <1>4, <1>5, <1>6, <1>7, <1>8, <1>9, <1>10, <1>11, <1>12
       DEF Next, Swarm

(* ... and keeps gbest and gbestval those of the best particle.             *)
LEMMA GbestNext == SwarmInv /\ [Next]_vars => GbestCurrent'
  <1> SUFFICES ASSUME SwarmInv, [Next]_vars PROVE GbestCurrent'
    OBVIOUS
  <1> USE DEF SwarmInv, TypeOK, swarmVars, ctlVars
  <1>1. CASE MoveTarget
    BY <1>1 DEF MoveTarget, GbestCurrent
  <1>2. CASE SetParms
    BY <1>2, SetParmsFrame DEF GbestCurrent
  <1>3. CASE StartSwarm
    BY <1>3 DEF StartSwarm, GbestCurrent
  <1>4. CASE CopyPbest \/ InitPbestval
    <2>1. pc' \in {"copy", "init", "first"}
      BY <1>4, NextParticleIs DEF CopyPbest, InitPbestval
    <2> QED
      BY <2>1 DEF GbestCurrent
  <1>5. CASE UpdateGbest
    <2>1. /\ Best \in Particles
          /\ \A p \in Particles : pbestval[Best] <= pbestval[p]
      BY BestIs
    <2>2. /\ index' = Best /\ gbestval' = pbestval[Best] /\ gbest' = pbest[Best]
          /\ pbest' = pbest /\ pbestval' = pbestval /\ pc' \in {"eval", "move"}
      BY <1>5 DEF UpdateGbest
    <2>3. pbestval[Best] \in Nat
      BY <2>1
    <2> HIDE DEF Best
    <2> QED
      BY <2>1, <2>2, <2>3 DEF GbestCurrent, Particles
  <1>6. CASE Evaluate
    BY <1>6 DEF Evaluate, GbestCurrent
  <1>7. CASE KeepBetter
    <2>1. pc = "keep" /\ pc' \in {"eval", "gbest"}
      BY <1>7, NextParticleIs DEF KeepBetter
    <2>2. \A p \in Particles : pbestval'[p] <= pbestval[p] /\ pbestval'[p] \in Nat
      BY <1>7 DEF KeepBetter
    <2>3. index' = index /\ gbestval' = gbestval /\ overtaken' = overtaken
      BY <1>7 DEF KeepBetter
    <2>4. ~overtaken' => pbestval'[index'] <= gbestval'
      <3>1. ~overtaken => pbestval[index] <= gbestval
        BY <2>1 DEF GbestCurrent
      <3>2. /\ pbestval'[index] <= pbestval[index] /\ pbestval'[index] \in Nat
            /\ pbestval[index] \in Nat /\ gbestval \in Nat
        BY <2>2
      <3> QED
        BY <2>3, <3>1, <3>2
    <2> QED
      BY <2>1, <2>4 DEF GbestCurrent
  <1>8. CASE Accelerate \/ MoveParticle
    <2>1. pbestval[index] \in Nat
      OBVIOUS
    <2> QED
      BY <1>8, <2>1, MoveFrame DEF GbestCurrent, Particles
  <1>9. CASE StoreWeights
    BY <1>9 DEF StoreWeights, GbestCurrent
  <1>10. CASE Decide
    BY <1>10 DEF Decide, GbestCurrent
  <1>11. CASE UNCHANGED vars
    BY <1>11 DEF vars, GbestCurrent
  <1> QED
    BY <1>1, <1>2, <1>3, <1>4, <1>5, <1>6, <1>7, <1>8, <1>9, <1>10, <1>11
       DEF Next, Swarm

-----------------------------------------------------------------------------
(* rbfgrad_mark_probability keeps the invariant through every interleaving  *)
(* with rbfgrad_enqueue, which moves the target, and rbfgrad_change, which  *)
(* draws a new swarm particle by particle.                                  *)
THEOREM SwarmInvariant == Spec => []SwarmInv
  <1>1. SwarmInv /\ [Next]_vars => SwarmInv'
    BY TypeNext, FreshNext, CopiedNext, PbestNext, TriedNext, GbestNext, Zenon
       DEF SwarmInv
  <1> QED
    BY SwarmInit, <1>1, PTL DEF Spec

(* The loops over the particles and the epochs of rbfgrad_mark_probability  *)
(* stay inside the arrays, and no value leaves its type.                    *)
THEOREM SwarmTypeCorrect == Spec => []TypeOK
  <1>1. SwarmInv => TypeOK
    BY DEF SwarmInv
  <1> QED
    BY SwarmInvariant, <1>1, PTL

(* When rbfgrad_mark_probability compares gbestval with E0 in an iteration  *)
(* no change fell into, gbestval is the error of the weights w_k it goes on *)
(* with, and none tried did better, whatever the target did and whatever    *)
(* swarm earlier changes have left.                                         *)
THEOREM BestCorrect == Spec => []DecidesOnBestTried
  <1>1. SwarmInv => DecidesOnBestTried
    <2> SUFFICES ASSUME SwarmInv, pc = "decide", ~overtaken
                 PROVE  /\ \E x \in tried : x[1] = w_k /\ gbestval = ErrorOf(x)
                        /\ \A x \in tried : gbestval <= ErrorOf(x)
      BY DEF DecidesOnBestTried, ErrorOf
    <2> USE DEF SwarmInv, TypeOK
    <2>1. /\ w_k = pbest[index] /\ gbestval = pbestval[index] /\ index \in Particles
          /\ \A p \in Particles : gbestval <= pbestval[p]
      BY DEF GbestCurrent
    <2>2. \A p \in Particles : \E x \in tried : x[1] = pbest[p] /\ pbestval[p] = ErrorOf(x)
      BY DEF PbestTried, Known
    <2>3. ASSUME NEW x \in tried PROVE gbestval <= ErrorOf(x)
      <3>1. PICK p \in Particles : pbestval[p] <= ErrorOf(x)
        BY DEF TriedCovered, Known
      <3>2. ErrorOf(x) \in Nat
        BY ErrorsInNat
      <3>3. gbestval <= pbestval[p] /\ gbestval \in Nat /\ pbestval[p] \in Nat
        BY <2>1
      <3> QED
        BY <3>1, <3>2, <3>3
    <2>4. \E x \in tried : x[1] = w_k /\ gbestval = ErrorOf(x)
      BY <2>1, <2>2
    <2> QED
      BY <2>3, <2>4
  <1> QED
    BY SwarmInvariant, <1>1, PTL

(* The update of gbestval after an epoch of rbfgrad_mark_probability never  *)
(* raises it: the particle that was best can only have improved.            *)
THEOREM BestFalls == Spec => GbestvalFalls
  <1>1. SwarmInv /\ [Next]_vars =>
          [pc = "gbest" /\ ~overtaken => gbestval' <= gbestval]_vars
    <2> SUFFICES ASSUME SwarmInv, Next, pc = "gbest", ~overtaken
                 PROVE  gbestval' <= gbestval
      BY Zenon
    <2> USE DEF SwarmInv, TypeOK, swarmVars, ctlVars
    <2>0. gbestval \in Nat
      OBVIOUS
    <2>1. CASE UpdateGbest
      <3>1. /\ Best \in Particles
            /\ \A p \in Particles : pbestval[Best] <= pbestval[p]
        BY BestIs
      <3>2. gbestval' = pbestval[Best]
        BY <2>1 DEF UpdateGbest
      <3>3. pbestval[Best] <= pbestval[index] /\ pbestval[Best] \in Nat /\ pbestval[index] \in Nat
        BY <3>1
      <3>4. pbestval[index] <= gbestval
        BY DEF GbestCurrent
      <3> HIDE DEF Best
      <3> QED
        BY <2>0, <3>2, <3>3, <3>4
    <2>2. CASE MoveTarget
      BY <2>0, <2>2 DEF MoveTarget
    <2>3. CASE SetParms
      BY <2>0, <2>3 DEF SetParms, ResetNet, RedrawParticle, ZeroGbestval
    <2> QED
      BY <2>1, <2>2, <2>3 DEF Next, Swarm, StartSwarm, CopyPbest, InitPbestval,
         Evaluate, KeepBetter, Accelerate, MoveParticle, StoreWeights, Decide
  <1> QED
    BY SwarmInvariant, <1>1, PTL DEF Spec, GbestvalFalls
==============================================================================
