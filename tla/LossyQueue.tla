----------------------------- MODULE LossyQueue -----------------------------
(***************************************************************************)
(* What a queueing discipline promises to the layers around it, whatever    *)
(* decides about the packets: what leaves was accepted, none is invented,   *)
(* altered or given twice, the length reported is the length of the queue,  *)
(* and each packet that is lost is counted once.  Packets may be refused,   *)
(* dropped, or purged together.  No order is promised: a discipline with    *)
(* priorities lets packets overtake each other.                             *)
(***************************************************************************)
EXTENDS Integers, Sequences, SequencesExt

CONSTANT Packets

VARIABLES q, len, lost

lqVars == <<q, len, lost>>

Empty == q = <<>> /\ len = 0 /\ lost = 0

Accept == \E p \in Packets : q' = Append(q, p) /\ len' = len + 1 /\ UNCHANGED lost
Lose   == lost' = lost + 1 /\ UNCHANGED <<q, len>>
Leave  == \E i \in 1..Len(q) : q' = RemoveAt(q, i) /\ len' = len - 1
Give   == Leave /\ UNCHANGED lost
Drop   == Leave /\ lost' = lost + 1
Purge  == q' = <<>> /\ len' = 0 /\ UNCHANGED lost

(* The queue is replaced by a new one.                                      *)
Renew  == q' = <<>> /\ len' = 0 /\ lost' = 0

Step == Accept \/ Lose \/ Give \/ Drop \/ Purge \/ Renew

Spec == Empty /\ [][Step]_lqVars
=============================================================================
