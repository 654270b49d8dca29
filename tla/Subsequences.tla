---------------------------- MODULE Subsequences ----------------------------
(***************************************************************************)
(* Array.prototype.filter, as a recursive function, which can be reasoned  *)
(* about: the subsequence of what is in a set.                             *)
(***************************************************************************)
EXTENDS Naturals, Sequences

\* Filtered(s, S)[n]: what is kept of the first n elements of s.
Filtered(s, S) ==
  LET kept[n \in 0..Len(s)] ==
        IF n = 0 THEN <<>>
        ELSE IF s[n] \in S THEN Append(kept[n - 1], s[n]) ELSE kept[n - 1]
  IN kept

Keep(s, S) == Filtered(s, S)[Len(s)]
=============================================================================
