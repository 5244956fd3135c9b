--------------------------- MODULE MCRbfgradSwarm ---------------------------
(* Instances of RbfgradSwarm for TLC.                                       *)
EXTENDS RbfgradSwarm

MCStarts == {-1, 2}
=============================================================================
