---------------------------- MODULE RbfgradSwarm ----------------------------
(***************************************************************************)
(* The particle swarm inside rbfgrad_mark_probability: each iteration of    *)
(* the controller fits the network to the youngest queue length, and learns *)
(* new PID gains only if the fit is good enough (gbestval < E0).            *)
(*                                                                         *)
(* The swarm lives in q->parms, which nothing protects.  Two things happen  *)
(* under it: rbfgrad_enqueue replaces queue_len[0], the target every        *)
(* evaluation compares with, and rbfgrad_change, which holds the root lock  *)
(* against rbfgrad_enqueue but not against the thread, draws a new swarm    *)
(* through rbfgrad_set_parms, one particle after the other.                 *)
(*                                                                         *)
(* The UNIT_NUM weights of a particle are one integer; the network          *)
(* multiplies it with hidden, what its hidden layer makes of the samples in *)
(* SamIn; the random factors of the velocity are small integers.            *)
(***************************************************************************)
EXTENDS Integers

CONSTANTS
    PARTICLE_NUM,
    MAX_EPOCH,
    Mv,          \* mv: the largest absolute velocity
    Starts,      \* what rand_my may draw as a weight
    StartVels,   \* what rand_my may draw as a velocity
    Inertias,    \* values of iwt[i]
    Pulls,       \* values of ac1*rannum1 and ac2*rannum2
    Targets,     \* queue lengths
    Hiddens,     \* outputs of the hidden layer
    ZeroHidden,  \* its output for samples that are all zero
    MaxIter,     \* bound: iterations of the controller
    MaxChange    \* bound: changes of the options

ASSUME SwarmAssumption ==
    /\ PARTICLE_NUM \in Nat \ {0} /\ MAX_EPOCH \in Nat \ {0}
    /\ Mv \in Nat
    /\ Starts \subseteq Int /\ StartVels \subseteq Int
    /\ Inertias \subseteq Int /\ Pulls \subseteq Int
    /\ Targets \subseteq Int /\ 0 \in Targets
    /\ Hiddens \subseteq Int /\ ZeroHidden \in Hiddens
    /\ MaxIter \in Nat /\ MaxChange \in Nat

VARIABLES
    target,                    \* parms->queue_len[0]
    hidden,                    \* of parms->SamIn
    pos, vel, pbest, pbestval, \* of each particle
    gbest, gbestval,
    w_k,                       \* the weights the jacobian is computed with
    sse,                       \* SSE[j]
    pc, j, epoch, index,       \* the controller thread
    change, drawn,             \* rbfgrad_set_parms: its stage, particles drawn
    iter, changes,             \* bounded counters
    tried,                     \* history: <<weight, hidden, target>> evaluated
    overtaken                  \* history: a change was at work in this iteration

netVars    == <<target, hidden>>
swarmVars  == <<pos, vel, pbest, pbestval, gbest, gbestval, w_k>>
ctlVars    == <<sse, pc, j, epoch, index, iter>>
changeVars == <<change, drawn, changes>>
vars       == <<netVars, swarmVars, ctlVars, changeVars, tried, overtaken>>

Particles == 0..PARTICLE_NUM-1

(* As rbfgrad_set_parms, called by rbfgrad_init, has left it.               *)
Init ==
    /\ target = 0 /\ hidden = ZeroHidden
    /\ \E p \in [Particles -> Starts], v \in [Particles -> StartVels] :
         pos = p /\ vel = v /\ w_k = p[0]
    /\ pbest = [p \in Particles |-> 0] /\ pbestval = [p \in Particles |-> 0]
    /\ gbest = 0 /\ gbestval = 0
    /\ sse = 0 /\ pc = "rest" /\ j = 0 /\ epoch = 0 /\ index = 0
    /\ change = "none" /\ drawn = 0
    /\ iter = 0 /\ changes = 0
    /\ tried = {} /\ overtaken = FALSE

-----------------------------------------------------------------------------
(* rbfgrad_enqueue takes a sample.                                          *)
MoveTarget ==
    /\ change = "none"
    /\ target' \in Targets \ {target}
    /\ UNCHANGED <<hidden, swarmVars, ctlVars, changeVars, tried, overtaken>>

(* rbfgrad_set_parms: the weights are drawn and the samples zeroed ...      *)
ResetNet ==
    /\ change = "none" /\ changes < MaxChange
    /\ changes' = changes + 1
    /\ w_k' \in Starts
    /\ target' = 0 /\ hidden' = ZeroHidden
    /\ change' = "draw" /\ drawn' = 0
    /\ overtaken' = (pc # "rest")
    /\ UNCHANGED <<pos, vel, pbest, pbestval, gbest, gbestval, ctlVars, tried>>

(* ... each particle is redrawn, the first one from w_k as it is now ...    *)
RedrawParticle ==
    /\ change = "draw"
    /\ \E x \in Starts, v \in StartVels :
         /\ pos' = [pos EXCEPT ![drawn] = IF drawn = 0 THEN w_k ELSE x]
         /\ vel' = [vel EXCEPT ![drawn] = v]
    /\ IF drawn < PARTICLE_NUM - 1 THEN drawn' = drawn + 1 /\ UNCHANGED change
                                   ELSE drawn' = 0 /\ change' = "zero"
    /\ overtaken' = (pc # "rest")
    /\ UNCHANGED <<netVars, pbest, pbestval, gbest, gbestval, w_k, ctlVars,
                   changes, tried>>

(* ... and gbestval is zeroed; pbest, pbestval and gbest stay.              *)
ZeroGbestval ==
    /\ change = "zero"
    /\ gbestval' = 0
    /\ change' = "none"
    /\ overtaken' = (pc # "rest")
    /\ UNCHANGED <<netVars, pos, vel, pbest, pbestval, gbest, w_k, ctlVars, drawn,
                   changes, tried>>

SetParms == ResetNet \/ RedrawParticle \/ ZeroGbestval

-----------------------------------------------------------------------------
(* get_rbf_SSE *)
SSE(x, h, t) == (t - h * x) * (t - h * x)

(* The next particle, or after the last one the next phase.                 *)
NextParticle(here, there) ==
    IF j < PARTICLE_NUM - 1 THEN j' = j + 1 /\ pc' = here
                            ELSE j' = 0 /\ pc' = there

StartSwarm ==
    /\ pc = "rest" /\ iter < MaxIter
    /\ iter' = iter + 1
    /\ hidden' \in Hiddens
    /\ tried' = {} /\ overtaken' = FALSE
    /\ pc' = "copy"
    /\ UNCHANGED <<target, swarmVars, sse, j, epoch, index, changeVars>>

CopyPbest ==
    /\ pc = "copy"
    /\ pbest' = [pbest EXCEPT ![j] = pos[j]]
    /\ NextParticle("copy", "init")
    /\ UNCHANGED <<netVars, pos, vel, pbestval, gbest, gbestval, w_k, sse, epoch,
                   index, iter, changeVars, tried, overtaken>>

Error == SSE(pos[j], hidden, target)
Try   == tried' = tried \cup {<<pos[j], hidden, target>>}

InitPbestval ==
    /\ pc = "init"
    /\ pbestval' = [pbestval EXCEPT ![j] = Error]
    /\ Try
    /\ NextParticle("init", "first")
    /\ UNCHANGED <<netVars, pos, vel, pbest, gbest, gbestval, w_k, sse, epoch,
                   index, iter, changeVars, overtaken>>

(* The first of the particles with the least pbestval.                      *)
Best == CHOOSE b \in Particles :
          \A p \in Particles : \/ pbestval[b] < pbestval[p]
                               \/ pbestval[b] = pbestval[p] /\ b <= p

UpdateGbest ==
    /\ pc \in {"first", "gbest"}
    /\ pc' = IF pc = "first" THEN "eval" ELSE "move"
    /\ index' = Best
    /\ gbestval' = pbestval[Best]
    /\ gbest' = pbest[Best]
    /\ UNCHANGED <<netVars, pos, vel, pbest, pbestval, w_k, sse, j, epoch, iter,
                   changeVars, tried, overtaken>>

Evaluate ==
    /\ pc = "eval" /\ pc' = "keep"
    /\ sse' = Error
    /\ Try
    /\ UNCHANGED <<netVars, swarmVars, j, epoch, index, iter, changeVars,
                   overtaken>>

(* Mutant: the better value is kept without its position.                   *)
KeepBetter_ValueOnly ==
    /\ pc = "keep"
    /\ pbestval' = [pbestval EXCEPT ![j] = IF @ > sse THEN sse ELSE @]
    /\ sse' = 0
    /\ NextParticle("eval", "gbest")
    /\ UNCHANGED <<netVars, pos, vel, pbest, gbest, gbestval, w_k, epoch, index,
                   iter, changeVars, tried, overtaken>>

(* Mutant: the last value is kept instead of the best.                      *)
KeepBetter_Last ==
    /\ pc = "keep"
    /\ pbestval' = [pbestval EXCEPT ![j] = sse]
    /\ pbest' = [pbest EXCEPT ![j] = pos[j]]
    /\ sse' = 0
    /\ NextParticle("eval", "gbest")
    /\ UNCHANGED <<netVars, pos, vel, gbest, gbestval, w_k, epoch, index, iter,
                   changeVars, tried, overtaken>>

KeepBetter ==
    /\ pc = "keep"
    /\ IF pbestval[j] > sse
       THEN /\ pbestval' = [pbestval EXCEPT ![j] = sse]
            /\ pbest' = [pbest EXCEPT ![j] = pos[j]]
       ELSE UNCHANGED <<pbestval, pbest>>
    /\ sse' = 0
    /\ NextParticle("eval", "gbest")
    /\ UNCHANGED <<netVars, pos, vel, gbest, gbestval, w_k, epoch, index, iter,
                   changeVars, tried, overtaken>>

Limit(v) == IF v > Mv THEN Mv ELSE IF v < -Mv THEN -Mv ELSE v

Accelerate ==
    /\ pc = "move" /\ pc' = "step"
    /\ \E w \in Inertias, a \in Pulls, b \in Pulls :
         vel' = [vel EXCEPT ![j] = Limit(w * vel[j] + a * (pbest[j] - pos[j])
                                                   + b * (gbest - pos[j]))]
    /\ UNCHANGED <<netVars, pos, pbest, pbestval, gbest, gbestval, w_k, sse, j,
                   epoch, index, iter, changeVars, tried, overtaken>>

MoveParticle ==
    /\ pc = "step"
    /\ pos' = [pos EXCEPT ![j] = pos[j] + vel[j]]
    /\ NextParticle("move", IF epoch < MAX_EPOCH - 1 THEN "eval" ELSE "store")
    /\ epoch' = IF j < PARTICLE_NUM - 1 THEN epoch
                ELSE (epoch + 1) % MAX_EPOCH
    /\ UNCHANGED <<netVars, vel, pbest, pbestval, gbest, gbestval, w_k, sse, index,
                   iter, changeVars, tried, overtaken>>

StoreWeights ==
    /\ pc = "store" /\ pc' = "decide"
    /\ w_k' = gbest
    /\ UNCHANGED <<netVars, pos, vel, pbest, pbestval, gbest, gbestval, sse, j,
                   epoch, index, iter, changeVars, tried, overtaken>>

(* gbestval < E0 or not: the gains are learned elsewhere.                   *)
Decide ==
    /\ pc = "decide" /\ pc' = "rest"
    /\ UNCHANGED <<netVars, swarmVars, sse, j, epoch, index, iter, changeVars,
                   tried, overtaken>>

Swarm == \/ StartSwarm \/ CopyPbest \/ InitPbestval \/ UpdateGbest
         \/ Evaluate \/ KeepBetter \/ Accelerate \/ MoveParticle
         \/ StoreWeights \/ Decide

Next == Swarm \/ MoveTarget \/ SetParms

Spec == Init /\ [][Next]_vars

-----------------------------------------------------------------------------
(* Type correctness; no loop over the particles leaves the swarm.          *)
TypeOK ==
    /\ target \in Targets /\ hidden \in Hiddens
    /\ pos \in [Particles -> Int] /\ vel \in [Particles -> Int]
    /\ pbest \in [Particles -> Int] /\ pbestval \in [Particles -> Nat]
    /\ gbest \in Int /\ gbestval \in Nat /\ w_k \in Int /\ sse \in Nat
    /\ pc \in {"rest", "copy", "init", "first", "eval", "keep", "gbest", "move",
               "step", "store", "decide"}
    /\ j \in Particles /\ epoch \in 0..MAX_EPOCH-1 /\ index \in Particles
    /\ change \in {"none", "draw", "zero"} /\ drawn \in Particles
    /\ iter \in Nat /\ changes \in Nat
    /\ tried \subseteq Int \X Hiddens \X Targets
    /\ overtaken \in BOOLEAN

(* When the controller compares gbestval with E0, gbestval is the error of  *)
(* the very weights it goes on with, against a target that was in force in  *)
(* this iteration, and no weight tried in this iteration did better.  This  *)
(* holds although the target moves between any two evaluations, and         *)
(* whatever changes before have left of the swarm, half-drawn ones that     *)
(* spoilt an earlier iteration included; only an iteration that a change    *)
(* itself falls into may decide on weights nobody tried.                    *)
DecidesOnBestTried ==
    pc = "decide" /\ ~overtaken =>
      /\ \E x \in tried : x[1] = w_k /\ gbestval = SSE(x[1], x[2], x[3])
      /\ \A x \in tried : gbestval <= SSE(x[1], x[2], x[3])

(* Within an iteration the best error never grows, whatever the target      *)
(* does.                                                                    *)
GbestvalFalls == [][pc = "gbest" /\ ~overtaken => gbestval' <= gbestval]_vars
=============================================================================
