--------------------------- MODULE MCRbfgradQdisc ---------------------------
(* Instances of RbfgradQdisc for TLC. *)
EXTENDS RbfgradQdisc

Cfg(limit, ecn, q_ref, p_init) ==
    [limit |-> limit, ecn |-> ecn, q_ref |-> q_ref,
     p_init |-> p_init, p_min |-> 0, p_max |-> RAND_MAX,
     kp |-> 0, ki |-> 0, kd |-> 0]

(* A bounded queue with ECN, and one whose change keeps the old child.      *)
MCConfigs == {Cfg(3, TRUE, 1, 0), Cfg(0, FALSE, 2, 1)}

(* Two references for the same queue; early drops do not happen.            *)
MCSampling == {Cfg(2, TRUE, 1, 0), Cfg(0, TRUE, 2, 0)}

MCChildren == {NoopQdisc, [kind |-> "prio", limit |-> 0]}
=============================================================================
