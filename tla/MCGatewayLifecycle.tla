-------------------------- MODULE MCGatewayLifecycle --------------------------
(***************************************************************************)
(* Two requests compete for one approval and for a limit of one: the first *)
(* asks to act with the approval; the second to act without it, reports    *)
(* with it something already done, or is only observed.  Two gateways that *)
(* dispatch are alike; one may come back in another mode.                  *)
(***************************************************************************)
EXTENDS GatewayLifecycle, TLC

CONSTANTS r1, r2, a1

MCSigner == [r \in Requests |-> CHOOSE a \in Agents : TRUE]

MCSubmissions == {[req |-> r1, approval |-> a1, kind |-> "act"],
                  [req |-> r2, approval |-> None, kind |-> "act"],
                  [req |-> r2, approval |-> a1, kind |-> "after"],
                  [req |-> r2, approval |-> None, kind |-> "observe"]}

(* Bound: once an action was reconciled while its call ran, nothing else   *)
(* comes in between: no crash, stop or repair, nothing that expires.       *)
ContestedAlone ==
  contested = {} \/ /\ crashes = 0 /\ stops = {} /\ expired = {}
                    /\ \A p \in Repairers : At(p, "idle")

Symmetric == Permutations(Gateways)
=============================================================================
