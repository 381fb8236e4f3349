--------------------------- MODULE MCCertificate ---------------------------
(* A certificate of seven replicas, r1's, for TLC. *)
EXTENDS Certificate

CONSTANTS r1, r2, r3, r4, r5, r6, r7, va, vb, vc, vd

Seven == {r1, r2, r3, r4, r5, r6, r7}
FourValues == {va, vb, vc, vd}

(* Everyone says va but r6 and r7, which say anything. *)
Unanimous == [i \in Seven |-> IF i \in {r6, r7} THEN {va, vb, vc} ELSE {va}]

(* Four replicas of any opinion; nothing is heard of the others. *)
Free == [i \in Seven |-> IF i \in {r5, r6, r7} THEN {} ELSE {va, vb, vc}]

(* The primary r7 proposed a different batch to almost every backup, so that *)
(* the three slots for prepares run out.                                     *)
Equivocated ==
  [i \in Seven |-> CASE i = r7 -> {} [] i \in {r1, r2} -> {va} [] i = r3 -> {vb}
                     [] i = r4 -> {vc} [] OTHER -> {vd}]

Considered == {Unanimous, Free, Equivocated}
=============================================================================
