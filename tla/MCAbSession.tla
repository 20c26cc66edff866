---------------------------- MODULE MCAbSession ----------------------------
(* Instances of AbSession for TLC: two or three requests, of which the     *)
(* first may be larger than the others.                                    *)
EXTENDS AbSession

CONSTANTS r1, r2, r3

SmallSizes == [r \in Requests |-> 1]
MixedSizes == [r \in Requests |-> IF r = r1 THEN 3 ELSE 1]

=============================================================================
