------------------------------- MODULE Filter -------------------------------
(* What a loop that removes some elements leaves of a sequence: the same   *)
(* as SelectSeq, as a recursive function, about which one can prove more.  *)
EXTENDS Integers, Sequences

(* What is kept of the first n elements, for each n *)
Keeping(q, S) ==
  LET kept[n \in 0..Len(q)] ==
        IF n = 0 THEN <<>>
        ELSE IF q[n] \in S THEN kept[n - 1] ELSE Append(kept[n - 1], q[n])
  IN  kept

Without(q, S) == Keeping(q, S)[Len(q)]

=============================================================================
