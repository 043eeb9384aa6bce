---------------------------- MODULE Subsequences ----------------------------
(***************************************************************************)
(* What is left of a sequence when some of its elements go: SelectSeq with *)
(* the set of what stays instead of a test, so that proofs can speak of it. *)
(***************************************************************************)
EXTENDS Naturals, Sequences

\* What is kept of the first n elements, for each n.
KeptTo(s, keep) ==
  LET kept[n \in 0 .. Len(s)] ==
        IF n = 0 THEN <<>>
        ELSE IF s[n] \in keep THEN Append(kept[n - 1], s[n]) ELSE kept[n - 1]
  IN kept

\* The elements of s that are in keep, in their order.
Only(s, keep) == KeptTo(s, keep)[Len(s)]

=============================================================================
