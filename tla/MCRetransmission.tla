-------------------------- MODULE MCRetransmission --------------------------
(* An instance of Retransmission for TLC: a correct primary and two correct  *)
(* backups, all of which every quorum needs, and a replica that is silent.   *)
EXTENDS Retransmission, MCReplica

Silent == [i \in {r4} |-> Silence]
=============================================================================
