---------------------------- MODULE MCRbfgradAqm ----------------------------
(* Instances of RbfgradAqm for TLC. *)
EXTENDS RbfgradAqm

AqmCfg(limit, q_ref, p_init, p_min, p_max, k) ==
    [limit |-> limit, ecn |-> FALSE, q_ref |-> q_ref,
     p_init |-> p_init, p_min |-> p_min, p_max |-> p_max,
     kp |-> k, ki |-> 1, kd |-> 0]

(* Two configurations with overlapping ranges.                              *)
MCConfigs == {AqmCfg(1, 1, 0, 0, 1, 1), AqmCfg(0, 0, 2, 1, 2, 1)}

(* One configuration: no range but its own is ever in force.                *)
MCOneConfig == {AqmCfg(1, 1, 0, 0, 1, 1)}

(* Holds every value the PID sum takes here.                                *)
MCProbs == -10..10

(* The queue gets shorter as the probability rises.  The gains still move   *)
(* both ways, with the signs of the errors.                                 *)
MCJacobians == {-1}
=============================================================================
