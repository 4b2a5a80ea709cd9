------------------------- MODULE MCIPOReceiveStream -------------------------
(* Instances of IPOReceiveStream for TLC. *)
EXTENDS IPOReceiveStream

\* The first path is prompt, the second one is late by up to Skew.
LateSecondPath == [p \in Paths |-> IF p = 1 THEN {0} ELSE 0..Skew]

\* The second path is always late by Skew.
ConstantSkew == [p \in Paths |-> IF p = 1 THEN {0} ELSE {Skew}]

\* Either path may be late, so that either may see a packet first.
AnySkew == [p \in Paths |-> {0, Skew}]
=============================================================================
