----------------------------- MODULE MCComputer -----------------------------
(***************************************************************************)
(* Five components of one computer in one run.  They share no state, so    *)
(* each behaviour takes the steps of one of them, chosen at the start: the *)
(* run checks each on its own, and the numbers of states add up.  Three of *)
(* them are taken in parts, each a bound of what is tried together.        *)
(***************************************************************************)
EXTENDS SessionBudget, PolicySync, McpProxy, Allowances, Observations, TLC

CONSTANTS
  m1, m2,               \* hook processes, rules checks, blocked actions: one pair for all
  g1, g2, g3,           \* tool calls under a session budget
  t1                    \* a tool call of the proxy, beside the pair

\* One limit of the current session id and one of the legacy one, each of a single tool call.
OneEach == ("writes" :> 1) @@ ("old" :> 1)
CurrentAndLegacy == ("writes" :> 1) @@ ("old" :> 2)
TwoLimited == (g1 :> {"writes", "old"}) @@ (g2 :> {"writes", "old"}) @@ (g3 :> {})
OneRetried == (g1 :> 2) @@ (g2 :> 1) @@ (g3 :> 1)

SameAction == [b \in BlockedCalls |-> "k1"]

Interchangeable == Permutations({m1, m2})

VARIABLE part  \* the component whose steps are taken, and how far

ObsParts == {"sessions", "uploads", "rotations"}

Init ==
  /\ part \in {"budgets", "rules", "history", "pin", "allowances", "confirmed"} \cup ObsParts
  /\ BudgetInit /\ RulesInit /\ ProxyInit /\ AllowInit /\ ObsInit
  /\ part # "rules" => ~workspace.signs     \* one initial state of the components that rest
  /\ (part = "confirmed") = (made # << >>)

\* Of the proxy: three calls under a list that stays as it is, or two under one that may change.
ProxyPart ==
  /\ ProxyNext
  /\ part = "history" => UNCHANGED toolList /\ ~pin'.listing
  /\ part = "pin" => call'[t1] = NewCall

\* Of the allowances: one change of the workspace's, after nothing or after a confirmed one.
AllowPart == AllowNext /\ (part = "allowances" => DocChanges' <= 1)

\* Of the observations: sessions; uploads of several processes; or uploads one after the other
\* while the installation is enrolled again.
ObsPart ==
  /\ \/ part # "uploads" /\ Enrol
     \/ WaitsEnd
     \/ \E p \in Openers : OpenNext(p)
     \/ part = "sessions" /\ \E p \in Openers : SessionNext(p)
     \/ part # "sessions" /\ \E p \in Openers : UploadNext(p)
  /\ part = "rotations" => \E q \in Openers : \A p \in Openers \ {q} : opener'[p].batch = << >>

Next ==
  /\ UNCHANGED part
  /\ \/ part = "budgets" /\ BudgetNext /\ UNCHANGED <<rulesVars, proxyVars, allowVars, obsVars>>
     \/ part = "rules" /\ RulesNext /\ UNCHANGED <<budgetVars, proxyVars, allowVars, obsVars>>
     \/ /\ part \in {"history", "pin"}
        /\ ProxyPart /\ UNCHANGED <<budgetVars, rulesVars, allowVars, obsVars>>
     \/ /\ part \in {"allowances", "confirmed"}
        /\ AllowPart /\ UNCHANGED <<budgetVars, rulesVars, proxyVars, obsVars>>
     \/ part \in ObsParts /\ ObsPart /\ UNCHANGED <<budgetVars, rulesVars, proxyVars, allowVars>>

\* No property says anything of what follows once a lock was taken from a process at work, or two
\* checks of the rules met without one: the run goes no further.  Bound: one of the two limits
\* expires.
Guarded == ~robbed /\ ~unguarded /\ Cardinality(ended) <= 1

computerVars == <<budgetVars, rulesVars, proxyVars, allowVars, obsVars, part>>

Spec == Init /\ [][Next]_computerVars
=============================================================================
