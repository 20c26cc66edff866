---------------------------- MODULE MCTagEvents ----------------------------
(* Two tags whose callbacks call functions of each other.                  *)
EXTENDS TagEvents

CONSTANTS g1, g2
Mutual    == [t \in Tags |-> IF t = g1 THEN g2 ELSE g1]
OnlyReads == [t \in Tags |-> {"read"}]

=============================================================================
