--------------------------- MODULE MCCloudDelivery ---------------------------
(* Small instances of CloudDelivery for TLC: two routine receipts of one   *)
(* window, one of them too large, and a notable one; and one routine       *)
(* receipt with two notable ones, too large, and ahead of its time with    *)
(* the action id of the routine one.                                       *)
EXTENDS CloudDelivery, TLC

CONSTANTS r1, r2, n1, n2

Symmetric == Permutations(Flushers)

MCIdOf == [r \in Receipts |-> IF r = n2 THEN r2 ELSE r]

OneWindow == [r \in Receipts |-> IF r \in {r1, r2} THEN "w1" ELSE None]

OneRoutine == [r \in Receipts |-> IF r = r2 THEN "w1" ELSE None]

MCFate ==
  [r \in Receipts |-> CASE r = r1 -> "large" [] r = n2 -> "early" [] OTHER -> "good"]

(* Bound: once a receipt came late to its window, the notable one does not *)
(* come as well.                                                           *)
LateOrNotable == reopened = {} \/ n1 \notin offered
=============================================================================
