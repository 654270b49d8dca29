------------------------------ MODULE MCDispatch ------------------------------
(* Both instances in one run.  Each behaviour is about one of them, chosen *)
(* at the start: what calls can spend, with no delegations; or what        *)
(* delegations allow, under budgets and a clock that stay as they are.     *)
(* Bound: where the clock was set back, no budget is withdrawn, and back.  *)
EXTENDS MCDispatchGuard

VARIABLE part

About(requests) == \A p \in Procs : call'[p].phase = "idle" \/ call'[p].req \in requests

PartsInit == Init /\ part \in {"spending", "delegation"}

PartsNext ==
  /\ Next /\ UNCHANGED part
  /\ \/ /\ part = "spending" /\ About(SpendRequests)
        /\ setBacks' = 0 \/ withdrawn' = {}
        /\ UNCHANGED <<delegations, revocations, granted>>
     \/ /\ part = "delegation" /\ About(DelegatedRequests)
        /\ UNCHANGED <<withdrawn, setBacks>>

PartsSpec == PartsInit /\ [][PartsNext]_<<vars, part>>
=============================================================================
