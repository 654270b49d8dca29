----------------------------- MODULE SpendLedger -----------------------------
(***************************************************************************)
(* What the dispatch boundary promises of single-use items, whoever asks   *)
(* and however calls overlap: an action is let through together with the   *)
(* items it spends, in one step, and an item is spent once.  A refusal is  *)
(* a step that changes nothing.                                            *)
(***************************************************************************)
EXTENDS Sequences

CONSTANT Items

VARIABLES used,    \* the items spent so far
          grants   \* the items each action let through has spent, in order

vars == <<used, grants>>

Init == used = {} /\ grants = <<>>

Grant(S) == /\ S \cap used = {}
            /\ used' = used \cup S
            /\ grants' = Append(grants, S)

Next == \E S \in SUBSET Items : Grant(S)

Spec == Init /\ [][Next]_vars
=============================================================================
