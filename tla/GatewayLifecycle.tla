--------------------------- MODULE GatewayLifecycle ---------------------------
(***************************************************************************)
(* The life of an action in the gateway: handleAction, observeAction and   *)
(* reconcileAction (packages/gateway/src/app.ts) over the lifecycle tables *)
(* of SqliteReceiptStore (node-stores.ts), with the repair pass that       *)
(* closes interrupted actions (packages/hook/src/delivery-repair.ts), the  *)
(* kill switch, crashes and the external service an executor calls.        *)
(*                                                                         *)
(* Gateways, operators and repairers are processes that share one store;   *)
(* each has one call in flight.  A step is one transaction of the store,   *)
(* one question to the outside, or one look at the stops: what lies        *)
(* between two awaits.  Requests are authenticated, so an action's id is   *)
(* its request id.  The policy allows an action while fewer than Cap       *)
(* counted actions precede it; what a policy is made of is left out.       *)
(***************************************************************************)
EXTENDS Integers, FiniteSets, Sequences, SequencesExt

CONSTANTS
  None,           \* a value outside every other constant
  Requests,       \* signed requests, one action id each
  Signer,         \* request -> the agent that signed it
  Approvals,      \* ids of signed approvals
  Submissions,    \* what clients send: [req, approval or None, kind of call]
  Agents,         \* signer key ids
  Targets,        \* what the kill switch is used on: agents or "global"
  Gateways,       \* processes that run handleAction and observeAction
  Operators,      \* processes that run reconcileAction
  Repairers,      \* processes that run the repair pass
  Modes,          \* executor modes a gateway is restarted in
  Cap,            \* the policy's limit on counted actions
  MaxCrashes      \* bound of a run

Procs == Gateways \cup Operators \cup Repairers
Held == {"reserved", "dispatching", "outcome_unknown"}
Final == {"denied", "simulated", "cooperative_allow", "executed", "failed",
          "outcome_unknown", "observed_after"}
Kinds == {"act", "check", "after", "observe"}

ASSUME ConstantAssumption ==
  /\ Signer \in [Requests -> Agents]
  /\ Submissions \subseteq [req: Requests, approval: Approvals \cup {None}, kind: Kinds]
  /\ None \notin Requests \cup Approvals \cup Held \cup Final \cup Kinds
  /\ IsFiniteSet(Requests) /\ Requests \cap Approvals = {}
  /\ Targets \subseteq Agents \cup {"global"} /\ "global" \notin Agents
  /\ Modes \subseteq {"dispatch", "recovery", "simulation"}
  /\ Cap \in Nat /\ MaxCrashes \in Nat

ASSUME ProcessAssumption ==
  /\ IsFiniteSet(Procs) /\ None \notin Procs
  /\ Gateways \cap (Operators \cup Repairers) = {}
  /\ Operators \cap Repairers = {}

VARIABLES
  rows,      \* authority_actions joined with authority_lifecycle, by action id
  consumed,  \* authority_consumptions: <<request or approval id, action id>>
  named,     \* authorization_ids: the ids stored receipts name
  receipts,  \* action id -> the receipts stored for it, oldest first
  stops,     \* gateway_stops
  mode,      \* gateway -> the executor's mode, given when it starts; "recovery"
             \* is dispatch with config.outboundExecution off
  calls,     \* process -> the call in flight
  expired,   \* requests and approvals out of date for longer than the retention
  effect,    \* the external service: request -> what became of it there
  sent,      \* history: request -> how often the executor was called for it
  taken,     \* history: approval -> how many actions were reserved with it
  guard,     \* history: request -> what the dispatch boundary said
  contested, \* history: actions an operator reconciled while their call ran
  crashes    \* bound: crashes so far

store == <<rows, consumed, named, receipts>>
outside == <<expired, effect>>
history == <<sent, taken, guard, contested>>
vars == <<store, stops, mode, calls, outside, history, crashes>>

-----------------------------------------------------------------------------
(* The store.                                                              *)

(* adapter: prepareDispatch named the adapter.  detail: the lifecycle row  *)
(* and the candidate are still kept.  counts: candidate.executed.  closed: *)
(* terminal_receipt_id is set.  approval: authorization_ids.approval_id.   *)
NoRow == [state |-> None, adapter |-> FALSE, detail |-> FALSE, counts |-> FALSE, closed |-> FALSE,
          approval |-> None]

Exists(r) == rows[r].state # None

SaysExecuted(outcome) == outcome \in {"executed", "observed_after"}

(* executed(): the receipts that say executed, and the held candidates.    *)
ExecutedReceipts ==
  UNION {{<<r, i>> : i \in {j \in DOMAIN receipts[r] : SaysExecuted(receipts[r][j])}} : r \in Requests}

(* Mutant: a dispatched action is no longer counted as held.               *)
HeldCandidates_Reserved == {r \in Requests : rows[r].state = "reserved" /\ rows[r].counts}

HeldCandidates == {r \in Requests : rows[r].state \in Held /\ rows[r].counts}

Counted == Cardinality(ExecutedReceipts) + Cardinality(HeldCandidates)

(* The ids a request consumes: its own and its approval's.                 *)
Ids(r, approval) == {r, approval} \ {None}

Spent(id) == \E r \in Requests : <<id, r>> \in consumed

(* authorizationUsed, before the reservation.                              *)
Used(id) == Spent(id) \/ id \in named

(* Mutant: a retried request is taken for a new one.                       *)
Duplicate_ApprovalOnly(r, approval) == \E id \in Ids(r, approval) \ {r} : Spent(id)

(* Mutant: the reservation looks at the action id only.                    *)
Duplicate_ActionOnly(r, approval) == Exists(r)

Duplicate(r, approval) == Exists(r) \/ \E id \in Ids(r, approval) : Spent(id)

(* The state finalizeAction is given for a receipt.                        *)
(* Mutant: the receipt's reference is taken for the state.                 *)
StateOf_Raw(outcome) == outcome

StateOf(outcome) == IF outcome = "not_started" THEN "failed" ELSE outcome

(* finalizeAction's transaction: it looks only whether the row is there.   *)
Finalized(r, outcome) ==
  [rows EXCEPT ![r].state = StateOf(outcome),
               ![r].closed = TRUE,
               ![r].detail = @ /\ rows[r].adapter,
               ![r].counts = @ /\ rows[r].adapter]

(* insertReceipt, with the trigger that indexes the ids it names.          *)
Store(r, approval, outcome) ==
  /\ receipts' = [receipts EXCEPT ![r] = Append(@, outcome)]
  /\ named' = named \cup Ids(r, approval)

(* interruptedActions and settleAction: never dispatched, no receipt.      *)
Open(r) == /\ rows[r].state \in {"reserved", "denied"}
           /\ rows[r].detail /\ ~rows[r].adapter /\ ~rows[r].closed

-----------------------------------------------------------------------------
(* Calls.                                                                  *)

Idle == [at |-> "idle", req |-> None, approval |-> None, kind |-> None,
         out |-> None]

Go(p, c) == calls' = [calls EXCEPT ![p] = c]

Return(p) == Go(p, Idle)

At(p, place) == calls[p].at = place

Step(p, place) == Go(p, [calls[p] EXCEPT !.at = place])

(* What a call will sign and store, once it gets to it.                    *)
Close(p, outcome) == Go(p, [calls[p] EXCEPT !.at = "closing", !.out = outcome])

CheckOnly(c) == c.kind \in {"check", "after"}

DeniedState(c) == IF c.kind = "after" THEN "observed_after" ELSE "denied"

IsStopped(r) == stops \cap {"global", Signer[r]} # {}

(* assertFresh: an authorization lives minutes, the retention is days.     *)
Fresh(id) == id \notin expired

(* handleAction or observeAction begins: authorize looks the ids up, and    *)
(* handleAction looks at the stops; a stopped call reserves only a denial. *)
(* The two reads, of tables nothing here writes, are one step.             *)
Submit(g, s) ==
  /\ At(g, "idle")
  /\ \A id \in Ids(s.req, s.approval) : Fresh(id) /\ ~Used(id)
  /\ Go(g, [Idle EXCEPT !.at = IF s.kind = "observe" THEN "observing"
                              ELSE IF IsStopped(s.req) THEN "refusing" ELSE "deciding",
                       !.req = s.req, !.approval = s.approval, !.kind = s.kind])
  /\ UNCHANGED <<store, stops, mode, outside, history, crashes>>

(* observeAction stores its receipt without a reservation.                 *)
Observe(g) ==
  /\ At(g, "observing")
  /\ Store(calls[g].req, calls[g].approval, "observed_not_evaluated")
  /\ Return(g)
  /\ UNCHANGED <<rows, consumed, stops, mode, outside, history, crashes>>

(* duplicateActionResult: the stored receipt, or an error; nothing changes.*)
ReserveDuplicate(g) ==
  /\ calls[g].at \in {"refusing", "deciding"}
  /\ Duplicate(calls[g].req, calls[g].approval)
  /\ Return(g)
  /\ UNCHANGED <<store, stops, mode, outside, history, crashes>>

(* reserveAction decides and records the decision in one transaction.      *)
ReserveAction(g) ==
  LET c == calls[g]
      allow == At(g, "deciding") /\ Counted < Cap
  IN /\ c.at \in {"refusing", "deciding"}
     /\ ~Duplicate(c.req, c.approval)
     /\ rows' = [rows EXCEPT ![c.req] =
                   [state |-> IF allow THEN "reserved" ELSE "denied", adapter |-> FALSE,
                    detail |-> TRUE, counts |-> ~CheckOnly(c), closed |-> FALSE,
                    approval |-> c.approval]]
     /\ consumed' = consumed \cup (Ids(c.req, c.approval) \X {c.req})
     /\ IF At(g, "refusing") THEN Close(g, DeniedState(c))
        ELSE Step(g, IF allow THEN "judged" ELSE "policy_denied")
     /\ taken' = [a \in Approvals |-> IF a = c.approval THEN taken[a] + 1 ELSE taken[a]]
     /\ UNCHANGED <<named, receipts, stops, mode, outside, sent, guard, contested, crashes>>

(* A person may override a policy denial, never while stopped.             *)
Override(g) ==
  LET c == calls[g] IN
  /\ At(g, "policy_denied")
  /\ c.kind # "after" /\ ~IsStopped(c.req)
  /\ Step(g, "judged")
  /\ UNCHANGED <<store, stops, mode, outside, history, crashes>>

NoOverride(g) ==
  /\ At(g, "policy_denied")
  /\ Close(g, DeniedState(calls[g]))
  /\ UNCHANGED <<store, stops, mode, outside, history, crashes>>

(* The dispatch boundary answers; an error there is a refusal.  It is not  *)
(* asked while the action is stopped: a later look is left to refuse it.   *)
GuardAnswers(g, verdict) ==
  /\ At(g, "judged") /\ ~IsStopped(calls[g].req)
  /\ guard' = [guard EXCEPT ![calls[g].req] = verdict]
  /\ UNCHANGED <<store, stops, mode, outside, sent, taken, contested, crashes>>

(* Mutant: an error at the boundary lets the action through.               *)
AskGuard_FailsOpen(g) ==
  \E verdict \in {"passed", "refused"} : GuardAnswers(g, verdict) /\ Step(g, "guarded")

AskGuard(g) ==
  \/ GuardAnswers(g, "passed") /\ Step(g, "guarded")
  \/ GuardAnswers(g, "refused") /\ Close(g, DeniedState(calls[g]))

SkipGuard(g) ==
  /\ At(g, "judged") /\ IsStopped(calls[g].req)
  /\ Step(g, "guarded")
  /\ UNCHANGED <<store, stops, mode, outside, history, crashes>>

(* The last look at the stops, and what an allowed action becomes.         *)
LastLook(g) ==
  LET c == calls[g]
      refused == mode[g] = "recovery" \/ IsStopped(c.req)
  IN /\ At(g, "guarded")
     /\ \/ refused /\ Close(g, DeniedState(c))
        \/ ~refused /\ CheckOnly(c) /\ Close(g, "cooperative_allow")
        \/ ~refused /\ ~CheckOnly(c) /\ mode[g] = "simulation" /\ Close(g, "simulated")
        \/ ~refused /\ ~CheckOnly(c) /\ mode[g] # "simulation" /\ Step(g, "cleared")
     /\ UNCHANGED <<store, stops, mode, outside, history, crashes>>

(* prepareDispatch: the durable dispatch marker.  It throws unless the row *)
(* is still reserved, and the call ends without a receipt.                 *)
(* Mutant: the marker is written whatever the row says.                    *)
MayDispatch_Always(r) == Exists(r)

MayDispatch(r) == rows[r].state = "reserved"

PrepareDispatch(g) ==
  LET c == calls[g] IN
  /\ At(g, "cleared")
  /\ IF MayDispatch(c.req)
     THEN /\ rows' = [rows EXCEPT ![c.req].state = "dispatching", ![c.req].adapter = TRUE]
          /\ Step(g, "dispatching")
     ELSE Return(g) /\ UNCHANGED rows
  /\ UNCHANGED <<consumed, named, receipts, stops, mode, outside, history, crashes>>

-----------------------------------------------------------------------------
(* The executor and the service behind it (external).  A request in flight *)
(* is applied or lost at any time; one the service has answered "failed"   *)
(* for is never applied afterwards, one it has not had yet may be.         *)

Execute(g) ==
  LET r == calls[g].req IN
  /\ At(g, "dispatching")
  /\ sent' = [sent EXCEPT ![r] = @ + 1]
  /\ effect' = [effect EXCEPT ![r] = IF @ = "none" THEN "in_flight" ELSE @]
  /\ Step(g, "waiting")
  /\ UNCHANGED <<store, stops, mode, expired, taken, guard, contested, crashes>>

(* ExecutorInputError: nothing was sent.                                   *)
ExecuteRefusesInput(g) ==
  /\ At(g, "dispatching")
  /\ Close(g, "failed")
  /\ UNCHANGED <<store, stops, mode, outside, history, crashes>>

ServiceApplies(r) ==
  /\ effect[r] = "in_flight"
  /\ effect' = [effect EXCEPT ![r] = "applied"]
  /\ UNCHANGED <<store, stops, mode, calls, expired, history, crashes>>

Answered(g) ==
  /\ At(g, "waiting") /\ effect[calls[g].req] = "applied"
  /\ Close(g, "executed")
  /\ UNCHANGED <<store, stops, mode, outside, history, crashes>>

(* query: what the service says of a key, and what that settles there.     *)
QuerySays(r, outcome) ==
  \/ outcome = "executed" /\ effect[r] = "applied" /\ UNCHANGED effect
  \/ outcome = "failed" /\ effect[r] # "applied"
     /\ effect' = [effect EXCEPT ![r] = IF @ = "none" THEN @ ELSE "refused"]
  \/ outcome = "outcome_unknown" /\ UNCHANGED effect

(* The call threw or timed out: queryAfterDispatchError.                   *)
AnswerLost(g) ==
  /\ At(g, "waiting")
  /\ \E outcome \in {"executed", "failed", "outcome_unknown"} :
       QuerySays(calls[g].req, outcome) /\ Close(g, outcome)
  /\ UNCHANGED <<store, stops, mode, expired, history, crashes>>

FinalizeAction(p) ==
  LET c == calls[p] IN
  /\ At(p, "closing")
  /\ IF Exists(c.req)
     THEN rows' = Finalized(c.req, c.out) /\ Store(c.req, rows[c.req].approval, c.out)
     ELSE UNCHANGED <<rows, named, receipts>>
  /\ Return(p)
  /\ UNCHANGED <<consumed, stops, mode, outside, history, crashes>>

-----------------------------------------------------------------------------
(* Reconciliation and repair.                                              *)

Running(r) == \E g \in Gateways : calls[g].req = r

(* Nobody looks whether the action's call still runs.                      *)
Reconciled(o, r, outcome) ==
  /\ Go(o, [Idle EXCEPT !.at = "closing", !.req = r, !.out = outcome])
  /\ contested' = IF Running(r) THEN contested \cup {r} ELSE contested

(* reconcileAction up to its finalizeAction: the record and the answer are *)
(* read, then the receipt is signed.                                       *)
ReconcileReserved(o, r) ==
  /\ At(o, "idle")
  /\ rows[r].state = "reserved"
  /\ Reconciled(o, r, "not_started")
  /\ UNCHANGED <<store, stops, mode, outside, sent, taken, guard, crashes>>

ReconcileDispatched(o, r, outcome) ==
  /\ At(o, "idle")
  /\ rows[r].state \in {"dispatching", "outcome_unknown"}
  /\ QuerySays(r, outcome)
  /\ Reconciled(o, r, outcome)
  /\ UNCHANGED <<store, stops, mode, expired, sent, taken, guard, crashes>>

(* settleInterruptedActions: one record of interruptedActions, read first. *)
(* An action counts as interrupted five minutes after it was reserved; a   *)
(* computer may sleep longer than that, so its call may still be running.  *)
FindInterrupted(p, r) ==
  /\ At(p, "idle")
  /\ Open(r)
  /\ Go(p, [Idle EXCEPT !.at = "settling", !.req = r,
                        !.out = IF rows[r].state = "denied" THEN "denied" ELSE "cooperative_allow"])
  /\ UNCHANGED <<store, stops, mode, outside, history, crashes>>

(* settleAction closes it only if it is still open.                        *)
SettleAction(p) ==
  LET c == calls[p] IN
  /\ At(p, "settling")
  /\ IF Open(c.req)
     THEN /\ Store(c.req, rows[c.req].approval, "interrupted")
          /\ rows' = [rows EXCEPT ![c.req] = [@ EXCEPT !.state = c.out, !.closed = TRUE,
                                                        !.counts = FALSE, !.detail = FALSE]]
     ELSE UNCHANGED <<rows, named, receipts>>
  /\ Return(p)
  /\ UNCHANGED <<consumed, stops, mode, outside, history, crashes>>

(* removeFinishedState and removeAuthorizationIds: what is older than the  *)
(* retention, but never a held action.                                     *)
Removable(r) == r \in expired /\ rows[r].state \notin Held \cup {None}

RemoveFinishedState ==
  /\ \E r \in Requests : Removable(r)
  /\ rows' = [r \in Requests |-> IF Removable(r) THEN NoRow ELSE rows[r]]
  /\ consumed' = {c \in consumed : ~Removable(c[2])}
  /\ UNCHANGED <<named, receipts, stops, mode, calls, outside, history, crashes>>

RemoveAuthorizationIds ==
  /\ named \cap expired # {}
  /\ named' = named \ expired
  /\ UNCHANGED <<rows, consumed, receipts, stops, mode, calls, outside, history, crashes>>

-----------------------------------------------------------------------------
(* The kill switch, crashes and time.                                      *)

Kill(t) ==
  /\ t \notin stops /\ stops' = stops \cup {t}
  /\ UNCHANGED <<store, mode, calls, outside, history, crashes>>

Resume(t) ==
  /\ t \in stops /\ stops' = stops \ {t}
  /\ UNCHANGED <<store, mode, calls, outside, history, crashes>>

(* A process dies; a gateway may come back in recovery mode, which sends   *)
(* nothing.  Everything else it knew is in the store.                      *)
Crash(p) ==
  /\ crashes < MaxCrashes /\ crashes' = crashes + 1
  /\ Return(p)
  /\ \/ p \in Gateways /\ \E m \in Modes : mode' = [mode EXCEPT ![p] = m]
     \/ p \notin Gateways /\ UNCHANGED mode
  /\ UNCHANGED <<store, stops, outside, history>>

(* Days pass: a finished action, with its authorization, gets older than   *)
(* the retention.  No call is taken to last that long.                     *)
Expire(r) ==
  /\ Exists(r) /\ rows[r].state \notin Held
  /\ ~(Ids(r, rows[r].approval) \subseteq expired)
  /\ \A p \in Procs : Ids(r, rows[r].approval) \cap {calls[p].req, calls[p].approval} = {}
  /\ expired' = expired \cup Ids(r, rows[r].approval)
  /\ UNCHANGED <<store, stops, mode, calls, effect, history, crashes>>

-----------------------------------------------------------------------------
Init ==
  /\ rows = [r \in Requests |-> NoRow]
  /\ consumed = {} /\ named = {}
  /\ receipts = [r \in Requests |-> <<>>]
  /\ stops = {}
  /\ mode = [g \in Gateways |-> "dispatch"]
  /\ calls = [p \in Procs |-> Idle]
  /\ expired = {}
  /\ effect = [r \in Requests |-> "none"]
  /\ sent = [r \in Requests |-> 0]
  /\ taken = [a \in Approvals |-> 0]
  /\ guard = [r \in Requests |-> "unasked"]
  /\ contested = {}
  /\ crashes = 0

handleAction(g) ==
  \/ \E s \in Submissions : Submit(g, s)
  \/ Observe(g) \/ ReserveDuplicate(g) \/ ReserveAction(g)
  \/ Override(g) \/ NoOverride(g) \/ AskGuard(g) \/ SkipGuard(g) \/ LastLook(g)
  \/ PrepareDispatch(g) \/ Execute(g) \/ ExecuteRefusesInput(g)
  \/ Answered(g) \/ AnswerLost(g)

reconcileAction(o) ==
  \/ \E r \in Requests : ReconcileReserved(o, r)
  \/ \E r \in Requests, outcome \in {"executed", "failed"} : ReconcileDispatched(o, r, outcome)

settleInterruptedActions(p) == (\E r \in Requests : FindInterrupted(p, r)) \/ SettleAction(p)

Next ==
  \/ \E g \in Gateways : handleAction(g)
  \/ \E o \in Operators : reconcileAction(o)
  \/ \E p \in Gateways \cup Operators : FinalizeAction(p)
  \/ \E p \in Repairers : settleInterruptedActions(p)
  \/ RemoveFinishedState \/ RemoveAuthorizationIds
  \/ \E r \in Requests : ServiceApplies(r) \/ Expire(r)
  \/ \E t \in Targets : Kill(t) \/ Resume(t)
  \/ \E p \in Procs : Crash(p)

Spec == Init /\ [][Next]_vars

-----------------------------------------------------------------------------
(* Properties.                                                             *)

Outcomes == Final \cup {"not_started", "interrupted", "observed_not_evaluated"}

Places == {"idle", "observing", "refusing", "deciding", "policy_denied", "judged", "guarded",
           "cleared", "dispatching", "waiting", "closing", "settling"}

(* Every table, call and history has the shape the code gives it.          *)
TypeOK ==
  /\ rows \in [Requests -> [state: Held \cup Final \cup {None}, adapter: BOOLEAN, detail: BOOLEAN,
                            counts: BOOLEAN, closed: BOOLEAN, approval: Approvals \cup {None}]]
  /\ consumed \subseteq (Requests \cup Approvals) \X Requests
  /\ named \subseteq Requests \cup Approvals
  /\ receipts \in [Requests -> Seq(Outcomes)]
  /\ stops \subseteq Targets
  /\ mode \in [Gateways -> Modes \cup {"dispatch"}]
  /\ calls \in [Procs -> [at: Places, req: Requests \cup {None}, approval: Approvals \cup {None},
                          kind: Kinds \cup {None}, out: Outcomes \cup {None}]]
  /\ expired \subseteq Requests \cup Approvals
  /\ effect \in [Requests -> {"none", "in_flight", "applied", "refused"}]
  /\ sent \in [Requests -> Nat]
  /\ taken \in [Approvals -> Nat]
  /\ guard \in [Requests -> {"unasked", "passed", "refused"}]
  /\ contested \subseteq Requests
  /\ crashes \in 0..MaxCrashes

Charged(r) == \/ rows[r].state \in Held /\ rows[r].counts
              \/ \E i \in DOMAIN receipts[r] : SaysExecuted(receipts[r][i])

(* Unknown outcomes remain charged (receipts.ts:810): an action that took  *)
(* effect outside is held by its row or counted by a receipt, through lost *)
(* answers, crashes and reconciliation, so the policy never loses sight of *)
(* it, unless it was reconciled while its call ran.                        *)
EffectsCharged ==
  \A r \in Requests \ contested : effect[r] \in {"in_flight", "applied"} => Charged(r)

(* What the charges are for: the effects outside never exceed the policy's *)
(* limit, whatever calls overlap or die (app.ts:374-377), those reconciled *)
(* while their call ran aside.                                             *)
EffectsWithinCap == Cardinality({r \in Requests \ contested : effect[r] = "applied"}) <= Cap

(* No retry, crash or reconciliation dispatches an action a second time    *)
(* (CHANGELOG.md:83), and one whose authorization is spent stays so after  *)
(* its records are removed.                                                *)
DispatchedOnce == \A r \in Requests : sent[r] <= 1

Acted(r) == \/ sent[r] > 0
            \/ \E i \in DOMAIN receipts[r] : receipts[r][i] \in {"simulated", "cooperative_allow"}

(* A signed approval is taken by one action, however the requests that     *)
(* carry it overlap, and still after its records are removed               *)
(* (node-stores.ts:401-410, 602-606).                                      *)
ApprovalTakenOnce == \A a \in Approvals : taken[a] <= 1

(* What the dispatch boundary refused, or could not answer, is never       *)
(* carried out or recorded as allowed (app.ts:391-409).                    *)
RefusalIsFinal == \A r \in Requests : guard[r] = "refused" => ~Acted(r)

(* The dispatch boundary runs before any executor (app.ts:391-392): an     *)
(* executor is called only for an action the boundary let through.         *)
GuardBeforeExecutor == \A r \in Requests : sent[r] > 0 => guard[r] = "passed"

(* A receipt that says the dispatch was not started (app.ts:525) is about  *)
(* an action the executor was never called for.                            *)
NotStartedMeansNotSent ==
  \A r \in Requests :
    (\E i \in DOMAIN receipts[r] : receipts[r][i] = "not_started") => sent[r] = 0
=============================================================================
