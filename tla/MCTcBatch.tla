------------------------------ MODULE MCTcBatch ------------------------------
(***************************************************************************)
(* Values for model checking TcBatch: one word of the form "if<n>", and    *)
(* option lists with and without a limit and with a q_ref that is missing. *)
(***************************************************************************)
EXTENDS TcBatch

MCFirstName == [i \in {1, 2} |-> IF i = 1 THEN "eth0" ELSE "eth1"]

MCIfNumber == [w \in {"if2"} |-> 2]

MCTyped ==
  { [o \in {"q_ref"} |-> 5],
    [o \in {"limit", "q_ref", "p_min", "p_max"} |-> 7],
    [o \in {"limit"} |-> 9] }
==============================================================================
