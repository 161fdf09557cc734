----------------------------- MODULE Subsequence ----------------------------
(***************************************************************************)
(* Picking elements out of a sequence, as the range loops of the code do   *)
(* that append what passes a test to a new slice.  SelectSeq with a set in *)
(* place of the test, and written as a recursive function, so that proofs  *)
(* can unfold it.                                                          *)
(***************************************************************************)
EXTENDS Integers, Sequences

(* What the loop has appended after the first n elements. *)
Sifting(s, T) ==
  LET picked[n \in 0 .. Len(s)] ==
        IF n = 0 THEN <<>>
        ELSE IF s[n] \in T THEN Append(picked[n - 1], s[n]) ELSE picked[n - 1]
  IN  picked

(* The elements of s that are in T, in their order. *)
Sift(s, T) == Sifting(s, T)[Len(s)]
=============================================================================
