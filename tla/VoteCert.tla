------------------------------ MODULE VoteCert ------------------------------
(***************************************************************************)
(* The abstract specification of one Certificate<T> object: the votes it   *)
(* holds, changed only by the operators of VoteSet.                        *)
(***************************************************************************)
EXTENDS VoteSet

CONSTANTS
  Self,      \* the replica that owns the certificate
  Values,    \* what the messages may carry (a digest, or nothing: {"commit"})
  Complete   \* the number of matching messages that completes it

VARIABLE vs

VInit == vs = EmptyCert

VAdd(i, v) == i # Self /\ vs' = AddVote(vs, Complete, i, v)

VAddMine(v) == vs.votes[Self] = None /\ vs' = AddMyVote(vs, Self, v)

VMarkStale == vs' = MarkStale(vs, Complete, Self)

VClear == vs' = EmptyCert

VMakeComplete == vs.votes[Self] # None /\ vs' = MakeComplete(vs)

VNext ==
  \/ \E i \in Replicas, v \in Values : VAdd(i, v)
  \/ \E v \in Values : VAddMine(v)
  \/ VMarkStale
  \/ VClear
  \/ VMakeComplete

VSpec == VInit /\ [][VNext]_vs
=============================================================================
