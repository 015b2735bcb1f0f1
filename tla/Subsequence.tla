---------------------------- MODULE Subsequence ----------------------------
(***************************************************************************)
(* The elements of a sequence that are in a set, in their order.  It is    *)
(* SelectSeq for a test by membership, written out as a recursive function *)
(* of the length of the prefix so that the proofs can unfold it.           *)
(***************************************************************************)
EXTENDS Integers, Sequences

Subsequence(s, T) ==
  LET upTo[n \in 0..Len(s)] ==
        IF n = 0 THEN <<>>
        ELSE IF s[n] \in T THEN Append(upTo[n - 1], s[n]) ELSE upTo[n - 1]
  IN  upTo[Len(s)]
=============================================================================
