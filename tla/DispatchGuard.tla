---------------------------- MODULE DispatchGuard ----------------------------
(***************************************************************************)
(* The dispatch boundary: createDispatchGuard(...).authorize over the      *)
(* DispatchStore, one SQLite file shared by every hook process, MCP proxy  *)
(* and gateway of a machine (packages/gateway/src/dispatch-store.ts and    *)
(* dispatch.ts).                                                           *)
(*                                                                         *)
(* Each process runs one call of authorize at a time.  A step is what the  *)
(* process does between two points where another process or the workspace  *)
(* can act: one SQL statement outside a transaction, one BEGIN IMMEDIATE   *)
(* transaction, or one answer of the workspace.  The wall clock is shared  *)
(* and may be set back.  Reasons and observations of a decision are left   *)
(* out; what it spends and whether it allows are kept.                     *)
(***************************************************************************)
EXTENDS Integers, FiniteSets, Sequences, Functions

CONSTANTS
  None,            \* a value outside every other constant
  Procs,           \* processes that share the file
  Requests,        \* DispatchRequest: [actor, group, intents, delegation]
  Guarded,         \* action types config.requireApproval names
  Approvals,       \* ids of signed approvals
  ApprovalOf,      \* id -> [actor, intent, issued, expires, sound]
  CloudApprovals,  \* ids of approvals held in the workspace
  CloudFor,        \* id -> the intent a person approved there
  Delegations,     \* delegation and session ids
  Grants,          \* delegation records that are ever registered locally
  WorkspaceScope,  \* session id -> the intents its workspace grant covers
  Budgets,         \* budget ids
  PolicyOf,        \* id -> [actor, types, max, window, mode, shared, expires, acked]
  Covers,          \* <<p, t>>: target pattern p covers target or pattern t
  SharedGateway,   \* config.sharedGatewayConfigured
  HasCloud,        \* a workspace source is configured
  CacheTtl,        \* config.delegationCacheMs
  Tolerance,       \* CLOCK_TOLERANCE_MS
  Skew,            \* APPROVAL_MAX_SKEW_MS
  MaxDepth,        \* MAX_DELEGATION_DEPTH
  MaxTime, MaxCalls, MaxSetBacks   \* bounds of a run

ASSUME NoneAssumption ==
  /\ None \notin Delegations
  /\ None \notin Approvals
  /\ None \notin CloudApprovals
  /\ None \notin Nat

ASSUME ApprovalAssumption ==
  /\ ApprovalOf \in [Approvals -> [actor: STRING, intent: [type: STRING, target: STRING],
                                   issued: Nat, expires: Nat, sound: BOOLEAN]]
  /\ Approvals \cap CloudApprovals = {}

ASSUME RequestAssumption ==
  Requests \subseteq [actor: STRING, group: STRING, intents: Seq([type: STRING, target: STRING]),
                     delegation: Delegations \cup {None}]

ASSUME GrantAssumption ==
  \A g \in Grants : g.expires \in Nat /\ g.parent \in Delegations \cup {None}

ASSUME BudgetAssumption ==
  PolicyOf \in [Budgets -> [actor: STRING, types: SUBSET STRING, max: Nat \ {0}, window: Nat \ {0},
                            mode: {"monitor", "enforce"}, shared: BOOLEAN, expires: Nat,
                            acked: BOOLEAN]]

ASSUME NumberAssumption ==
  /\ {CacheTtl, Tolerance, Skew, MaxDepth, MaxTime, MaxCalls, MaxSetBacks} \subseteq Nat
  /\ {SharedGateway, HasCloud} \subseteq BOOLEAN

VARIABLES
  wall,          \* Date.now(), which an operator may set back
  high,          \* meta.high_water
  delegations,   \* table delegations: id -> record or None
  revocations,   \* table revocations
  cache,         \* table delegation_cache: session id -> fetched_at or None
  reservations,  \* table budget_reservations: [budget, group, at]
  consumptions,  \* table approval_consumptions
  withdrawn,     \* budget policies marked revoked in the reviewed file
  granted,       \* workspace: sessions whose grant is active now
  spent,         \* workspace: approvals consumed there
  call,          \* per process: the call of authorize in flight
  dispatched,    \* history: the allowed decisions in the order they were made
  refused,       \* history: approvals some decision refused as expired
  started, setBacks  \* bounds: calls begun, times the clock was set back

store == <<high, delegations, revocations, cache, reservations, consumptions>>
workspace == <<granted, spent>>
history == <<dispatched, refused>>
bounds == <<started, setBacks>>
vars == <<wall, store, withdrawn, workspace, call, history, bounds>>

-----------------------------------------------------------------------------
(* Approvals, scopes and delegation chains.                                *)

Requires(intent) == "*" \in Guarded \/ intent.type \in Guarded

NeedsApproval(req) == \E i \in DOMAIN req.intents : Requires(req.intents[i])

(* checkApproval; sound stands for the structure, the lifetime limits, the *)
(* approver's key and the signature.                                       *)
Binds(a, req, i) == /\ ApprovalOf[a].sound
                    /\ ApprovalOf[a].actor = req.actor
                    /\ ApprovalOf[a].intent = req.intents[i]

CheckApproval(a, req, i, now) == /\ Binds(a, req, i)
                                 /\ ApprovalOf[a].issued <= now + Skew
                                 /\ ApprovalOf[a].expires > now

(* A scope's targets is a set of patterns, or None for any target.         *)
TargetInScope(scope, target) ==
  scope.targets = None \/ \E t \in scope.targets : <<t, target>> \in Covers

ActionInScope(scope, intent) ==
  intent.type \in scope.types /\ TargetInScope(scope, intent.target)

IsSubScope(child, parent) ==
  /\ child.types # {} /\ child.types \subseteq parent.types
  /\ parent.targets # None =>
       /\ child.targets \notin {None, {}}
       /\ \A t \in child.targets : \E p \in parent.targets : <<p, t>> \in Covers

Known(id) == id \in Delegations /\ delegations[id] # None

(* Mutant: only the leaf of the chain is looked at.                        *)
Cursor_LeafOnly(id) == [k \in 0..(MaxDepth + 1) |-> IF k = 0 THEN id ELSE None]

(* The ids checkDelegation visits from id upwards, None past the root.     *)
Cursor(id) ==
  LET up[k \in 0..(MaxDepth + 1)] ==
        IF k = 0 THEN id
        ELSE IF Known(up[k - 1]) THEN delegations[up[k - 1]].parent ELSE None
  IN  up

CheckDelegation(id, req, now) ==
  LET up == Cursor(id)
  IN  /\ up[MaxDepth + 1] = None
      /\ \A k \in 0..MaxDepth : up[k] # None =>
           /\ Known(up[k])
           /\ up[k] \notin revocations
           /\ delegations[up[k]].expires > now
           /\ k = 0 => delegations[up[k]].actor = req.actor
           /\ \A i \in DOMAIN req.intents :
                ActionInScope(delegations[up[k]].scope, req.intents[i])

-----------------------------------------------------------------------------
(* Time.                                                                   *)

EffectiveNow == IF wall > high THEN wall ELSE high

RolledBack == wall < high - Tolerance

(* Outside a transaction effectiveNow reads and writes in two statements:  *)
(* the process remembers the mark it still has to write.                   *)
MarkToWrite == IF EffectiveNow > high THEN EffectiveNow ELSE None

-----------------------------------------------------------------------------
(* Budgets.                                                                *)

PoliciesFor(req) ==
  {b \in Budgets : /\ PolicyOf[b].actor = req.actor
                   /\ \E i \in DOMAIN req.intents : req.intents[i].type \in PolicyOf[b].types}

Enforcing(req) == \E b \in PoliciesFor(req) : PolicyOf[b].mode = "enforce"

(* Mutant: an unreadable counter means unlimited dispatch.                 *)
MustDeny_ForgetsBudgets(req) == NeedsApproval(req) \/ req.delegation # None

MustDeny(req) == Enforcing(req) \/ NeedsApproval(req) \/ req.delegation # None

Repeated(b, group) == \E r \in reservations : r.budget = b /\ r.group = group

InWindow(b, now) == {r \in reservations : r.budget = b /\ r.at > now - PolicyOf[b].window}

Unenforceable(b, c, now) == \/ PolicyOf[b].shared /\ ~SharedGateway
                            \/ b \in c.withdrawn
                            \/ PolicyOf[b].expires <= now
                            \/ ~PolicyOf[b].acked
                            \/ RolledBack

(* Mutant: one action too many.                                            *)
Over_OneMore(b, group, now) ==
  ~Repeated(b, group) /\ Cardinality(InWindow(b, now)) > PolicyOf[b].max

Over(b, group, now) ==
  ~Repeated(b, group) /\ Cardinality(InWindow(b, now)) >= PolicyOf[b].max

BudgetRefuses(b, c, now) ==
  PolicyOf[b].mode = "enforce" /\ (Unenforceable(b, c, now) \/ Over(b, c.req.group, now))

ToInsert(c, now) ==
  {b \in PoliciesFor(c.req) : ~Unenforceable(b, c, now) /\ ~Repeated(b, c.req.group)}

(* insertReservation: the new rows, and each budget's old rows dropped.    *)
Reserve(bs, group, now) ==
  {r \in reservations : r.budget \in bs => r.at > now - 2 * PolicyOf[r.budget].window}
    \cup {[budget |-> b, group |-> group, at |-> now] : b \in bs}

-----------------------------------------------------------------------------
(* The call in flight.  local and cloud hold the approval chosen for each  *)
(* intent; left holds the intents whose workspace approval is still to be  *)
(* consumed; at is when an answer of the workspace arrived.                *)

Phases == {"idle", "choosing", "lookup", "session", "asking", "answered", "caching", "checking",
           "consuming", "confirming", "deciding"}

NoApproval == [i \in {} |-> None]

NoCall == [phase |-> "idle", req |-> None, now |-> 0, mark |-> None, inbox |-> {}, withdrawn |-> {},
           local |-> NoApproval, cloud |-> NoApproval, ws |-> FALSE, active |-> FALSE, at |-> 0, left |-> {}]

(* Process p is at this point and has written any mark it read before it.  *)
In(p, phase) == call[p].phase = phase /\ call[p].mark = None

Deny(p) == call' = [call EXCEPT ![p] = NoCall]

Allow(p, c, now, counted) ==
  /\ call' = [call EXCEPT ![p] = NoCall]
  /\ dispatched' = Append(dispatched, [req |-> c.req, local |-> c.local, cloud |-> c.cloud,
                                       ws |-> c.ws, at |-> now, counted |-> counted])

With(f, i, a) == [j \in DOMAIN f \cup {i} |-> IF j = i THEN a ELSE f[j]]

(* Mutant: only the first intent of an action is checked.                  *)
Pending_FirstOnly(c) == {i \in {1} :
  Requires(c.req.intents[i]) /\ i \notin DOMAIN c.local \cup DOMAIN c.cloud}

(* The guarded intents still without an approval, and the next of them.    *)
Pending(c) == {i \in DOMAIN c.req.intents :
                 Requires(c.req.intents[i]) /\ i \notin DOMAIN c.local \cup DOMAIN c.cloud}

First(S) == CHOOSE i \in S : \A j \in S : i <= j

Candidates(c, i) ==
  {a \in c.inbox \cap Approvals : CheckApproval(a, c.req, i, c.now) /\ a \notin Range(c.local)}

(* Mutant: a signed approval is taken for a workspace reference.           *)
Refs_Mixed(c) == IF HasCloud THEN c.inbox \ Range(c.cloud) ELSE {}

Refs(c) == IF HasCloud THEN (c.inbox \cap CloudApprovals) \ Range(c.cloud) ELSE {}

ExpiredFor(c, i) ==
  {a \in c.inbox \cap Approvals : Binds(a, c.req, i) /\ ApprovalOf[a].expires <= c.now}

(* Mutant: what the workspace named is used without being consumed.        *)
AfterDelegation_NoConsume(c) == "deciding"

AfterDelegation(c) == IF DOMAIN c.cloud = {} THEN "deciding" ELSE "checking"

Fresh(id, now) == /\ cache[id] # None
                  /\ cache[id] <= now
                  /\ now - cache[id] <= CacheTtl

WorkspacePermits(c) ==
  LET g == WorkspaceScope[c.req.delegation]
  IN  /\ g.expires = None \/ g.expires > c.now
      /\ \A i \in DOMAIN c.req.intents : c.req.intents[i] \in g.intents

-----------------------------------------------------------------------------
(* authorize, from its first statement to its last.                        *)

NeedsState(req) == MustDeny(req) \/ PoliciesFor(req) # {}

Begin(p, req) == /\ call[p].phase = "idle"
                 /\ started < MaxCalls
                 /\ started' = started + 1

(* Nothing is asked of this action: it is allowed without the store.       *)
PassThrough(p) ==
  /\ \E req \in Requests : /\ Begin(p, req)
                           /\ ~NeedsState(req)
                           /\ Allow(p, [NoCall EXCEPT !.req = req], 0, {})
  /\ UNCHANGED <<wall, store, withdrawn, workspace, refused, setBacks>>

(* The policies, the clock and the inbox are read.                         *)
Start(p) ==
  /\ \E req \in Requests : \E inbox \in SUBSET (Approvals \cup CloudApprovals) :
       /\ Begin(p, req)
       /\ NeedsState(req)
       /\ NeedsApproval(req) \/ inbox = {}
       /\ call' = [call EXCEPT ![p] = [NoCall EXCEPT
                     !.phase = "choosing", !.req = req, !.now = EffectiveNow, !.mark = MarkToWrite,
                     !.inbox = inbox, !.withdrawn = withdrawn]]
  /\ UNCHANGED <<wall, store, withdrawn, workspace, history, setBacks>>

(* The second statement of effectiveNow, which overwrites what is there.   *)
WriteMark(p) ==
  /\ call[p].mark # None
  /\ high' = call[p].mark
  /\ call' = [call EXCEPT ![p].mark = None]
  /\ UNCHANGED <<wall, delegations, revocations, cache, reservations, consumptions, withdrawn,
                 workspace, history, bounds>>

(* A local approval valid for the next guarded intent, in inbox order.     *)
ChooseLocal(p) ==
  LET c == call[p]  i == First(Pending(c))
  IN  /\ In(p, "choosing") /\ Pending(c) # {}
      /\ \E a \in Candidates(c, i) : call' = [call EXCEPT ![p].local = With(c.local, i, a)]
      /\ UNCHANGED <<wall, store, withdrawn, workspace, history, bounds>>

(* None: a workspace reference left in the inbox.                          *)
ChooseRef(p) ==
  LET c == call[p]  i == First(Pending(c))
  IN  /\ In(p, "choosing") /\ Pending(c) # {}
      /\ Candidates(c, i) = {}
      /\ \E ref \in Refs(c) : call' = [call EXCEPT ![p].cloud = With(c.cloud, i, ref)]
      /\ refused' = refused \cup ExpiredFor(c, i)
      /\ UNCHANGED <<wall, store, withdrawn, workspace, dispatched, bounds>>

(* Neither: the workspace is asked for an active approval, if there is a   *)
(* workspace; otherwise the action is refused.                             *)
AskActive(p) ==
  LET c == call[p]  i == First(Pending(c))
  IN  /\ In(p, "choosing") /\ Pending(c) # {}
      /\ Candidates(c, i) = {} /\ Refs(c) = {}
      /\ IF HasCloud THEN call' = [call EXCEPT ![p].phase = "lookup"] ELSE Deny(p)
      /\ refused' = refused \cup ExpiredFor(c, i)
      /\ UNCHANGED <<wall, store, withdrawn, workspace, dispatched, bounds>>

(* The workspace names an approval active for exactly this intent.         *)
FoundActive(p) ==
  LET c == call[p]  i == First(Pending(c))
  IN  /\ In(p, "lookup") /\ Pending(c) # {}
      /\ \E ref \in CloudApprovals \ (spent \cup Range(c.cloud)) :
           /\ CloudFor[ref] = c.req.intents[i]
           /\ call' = [call EXCEPT ![p].cloud = With(c.cloud, i, ref), ![p].phase = "choosing"]
      /\ UNCHANGED <<wall, store, withdrawn, workspace, history, bounds>>

(* Every guarded intent has an approval.  A delegation the store does not  *)
(* know is the workspace's to answer for.                                  *)
AllChosen(p) ==
  LET c == call[p]
      ws == c.req.delegation # None /\ HasCloud /\ ~Known(c.req.delegation)
  IN  /\ In(p, "choosing") /\ Pending(c) = {}
      /\ call' = [call EXCEPT ![p] =
           IF ws THEN [c EXCEPT !.phase = "session", !.inbox = {}, !.ws = TRUE,
                                !.now = EffectiveNow, !.mark = MarkToWrite]
           ELSE [c EXCEPT !.phase = AfterDelegation(c), !.inbox = {}, !.now = 0]]
      /\ UNCHANGED <<wall, store, withdrawn, workspace, history, bounds>>

Permitted(p, c) == IF WorkspacePermits(c)
                   THEN call' = [call EXCEPT ![p] = [c EXCEPT !.phase = AfterDelegation(c),
                                                     !.active = FALSE, !.now = 0, !.at = 0]]
                   ELSE Deny(p)

UseCached(p) ==
  LET c == call[p]
  IN  /\ In(p, "session")
      /\ IF Fresh(c.req.delegation, c.now) THEN Permitted(p, c)
         ELSE call' = [call EXCEPT ![p].phase = "asking"]
      /\ UNCHANGED <<wall, store, withdrawn, workspace, history, bounds>>

(* The workspace resolves the delegation; its answer is now on the way.    *)
WorkspaceResolves(p) ==
  /\ In(p, "asking")
  /\ call' = [call EXCEPT ![p].phase = "answered", ![p].active = call[p].req.delegation \in granted]
  /\ UNCHANGED <<wall, store, withdrawn, workspace, history, bounds>>

(* The answer replaces what was cached; only an active grant is kept.      *)
ReceiveGrant(p) ==
  LET c == call[p]
  IN  /\ In(p, "answered")
      /\ cache' = [cache EXCEPT ![c.req.delegation] = None]
      /\ IF c.active
         THEN call' = [call EXCEPT ![p].phase = "caching", ![p].at = EffectiveNow,
                                   ![p].mark = MarkToWrite]
         ELSE Deny(p)
      /\ UNCHANGED <<wall, high, delegations, revocations, reservations, consumptions, withdrawn,
                     workspace, history, bounds>>

CacheGrant(p) ==
  LET c == call[p]
  IN  /\ In(p, "caching")
      /\ cache' = [cache EXCEPT ![c.req.delegation] = c.at]
      /\ Permitted(p, c)
      /\ UNCHANGED <<wall, high, delegations, revocations, reservations, consumptions, withdrawn,
                     workspace, history, bounds>>

(* decide: what one transaction checks before it spends anything.          *)
Permits(c, now) ==
  /\ c.req.delegation # None /\ ~c.ws => CheckDelegation(c.req.delegation, c.req, now)
  /\ \A a \in Range(c.local) : ApprovalOf[a].expires > now /\ a \notin consumptions
  /\ \A b \in PoliciesFor(c.req) : ~BudgetRefuses(b, c, now)

(* The approvals a refused decision found expired.                         *)
FoundExpired(c, now) == {a \in Range(c.local) : ApprovalOf[a].expires <= now}

(* Mutant: the look before spending commits.                               *)
LookFirst_Commits(p) ==
  LET c == call[p]  now == EffectiveNow
  IN  /\ In(p, "checking") /\ Permits(c, now)
      /\ reservations' = Reserve(ToInsert(c, now), c.req.group, now)
      /\ call' = [call EXCEPT ![p].phase = "consuming", ![p].left = DOMAIN c.cloud]
      /\ UNCHANGED <<wall, high, delegations, revocations, cache, consumptions, withdrawn,
                     workspace, history, bounds>>

(* Look before spending: a transaction that is always rolled back.         *)
LookFirst(p) ==
  LET c == call[p]  now == EffectiveNow
  IN  /\ In(p, "checking")
      /\ IF Permits(c, now)
         THEN call' = [call EXCEPT ![p].phase = "consuming", ![p].left = DOMAIN c.cloud]
         ELSE Deny(p)
      /\ refused' = refused \cup FoundExpired(c, now)
      /\ UNCHANGED <<wall, store, withdrawn, workspace, dispatched, bounds>>

(* The workspace consumes one approval, or refuses to.                     *)
ConsumeInWorkspace(p) ==
  LET c == call[p]  i == First(c.left)  ref == c.cloud[i]
  IN  /\ In(p, "consuming")
      /\ IF ref \in CloudApprovals \ spent /\ CloudFor[ref] = c.req.intents[i]
         THEN /\ spent' = spent \cup {ref}
              /\ call' = [call EXCEPT ![p].phase = "confirming"]
         ELSE Deny(p) /\ UNCHANGED spent
      /\ UNCHANGED <<wall, store, withdrawn, granted, history, bounds>>

Consumed(p) ==
  LET c == call[p]  rest == c.left \ {First(c.left)}
  IN  /\ In(p, "confirming")
      /\ call' = [call EXCEPT ![p].left = rest,
                              ![p].phase = IF rest = {} THEN "deciding" ELSE "consuming"]
      /\ UNCHANGED <<wall, store, withdrawn, workspace, history, bounds>>

(* Refused, unreachable, timed out or not understood: never an allow, and  *)
(* the workspace may already have acted on the request.                    *)
WorkspaceFails(p) ==
  /\ \E phase \in {"lookup", "asking", "answered", "consuming", "confirming"} : In(p, phase)
  /\ Deny(p)
  /\ UNCHANGED <<wall, store, withdrawn, workspace, history, bounds>>

(* Mutant: an approval is checked but its use is not recorded.             *)
consumeApproval_Forgets(c) == consumptions

consumeApproval(c) == consumptions \cup Range(c.local)

(* The transaction that decides: everything is spent, or it is rolled back *)
(* with the mark it wrote.                                                 *)
Decide(p) ==
  LET c == call[p]  now == EffectiveNow  counted == ToInsert(c, now)
  IN  /\ In(p, "deciding")
      /\ IF Permits(c, now)
         THEN /\ high' = now
              /\ reservations' = Reserve(counted, c.req.group, now)
              /\ consumptions' = consumeApproval(c)
              /\ Allow(p, c, now, counted)
              /\ UNCHANGED refused
         ELSE /\ Deny(p)
              /\ refused' = refused \cup FoundExpired(c, now)
              /\ UNCHANGED <<high, reservations, consumptions, dispatched>>
      /\ UNCHANGED <<wall, delegations, revocations, cache, withdrawn, workspace, bounds>>

(* The store cannot be read or written: unavailable().                     *)
StoreFails(p) ==
  /\ \E phase \in {"choosing", "checking", "deciding"} : In(p, phase)
  /\ IF MustDeny(call[p].req) THEN Deny(p) /\ UNCHANGED dispatched
     ELSE Allow(p, [NoCall EXCEPT !.req = call[p].req], 0, {})
  /\ UNCHANGED <<wall, store, withdrawn, workspace, refused, bounds>>

(* The process dies; an open transaction is rolled back.                   *)
Crash(p) ==
  /\ call[p].phase # "idle"
  /\ Deny(p)
  /\ UNCHANGED <<wall, store, withdrawn, workspace, history, bounds>>

-----------------------------------------------------------------------------
(* Everything else that touches the store, the policies, the workspace or  *)
(* the clock.                                                              *)

(* Mutant: a child may outlive its parent.                                 *)
MayRegister_Outlives(g) ==
  /\ g.expires > EffectiveNow
  /\ ~Known(g.id)
  /\ g.parent # None => /\ Known(g.parent)
                       /\ IsSubScope(g.scope, delegations[g.parent].scope)

MayRegister(g) ==
  /\ g.expires > EffectiveNow
  /\ ~Known(g.id)
  /\ g.parent # None =>
       /\ Known(g.parent)
       /\ g.parent \notin revocations
       /\ delegations[g.parent].expires > EffectiveNow
       /\ IsSubScope(g.scope, delegations[g.parent].scope)
       /\ g.expires <= delegations[g.parent].expires

(* A refused registration is rolled back and changes nothing.              *)
AddDelegation(g) ==
  /\ MayRegister(g)
  /\ delegations' = [delegations EXCEPT ![g.id] = g]
  /\ high' = EffectiveNow
  /\ UNCHANGED <<wall, revocations, cache, reservations, consumptions, withdrawn, workspace, call,
                 history, bounds>>

(* revoke and importRevocations; an id need not be known.                  *)
Revoke(ids) ==
  /\ ids # {} /\ ~(ids \subseteq revocations)
  /\ revocations' = revocations \cup ids
  /\ UNCHANGED <<wall, high, delegations, cache, reservations, consumptions, withdrawn, workspace,
                 call, history, bounds>>

WithdrawBudget(b) ==
  /\ b \notin withdrawn
  /\ withdrawn' = withdrawn \cup {b}
  /\ UNCHANGED <<wall, store, workspace, call, history, bounds>>

EndGrant(id) ==
  /\ id \in granted
  /\ granted' = granted \ {id}
  /\ UNCHANGED <<wall, store, withdrawn, spent, call, history, bounds>>

Tick ==
  /\ wall < MaxTime
  /\ wall' = wall + 1
  /\ UNCHANGED <<store, withdrawn, workspace, call, history, bounds>>

SetBack ==
  /\ setBacks < MaxSetBacks
  /\ \E t \in 0..(wall - 1) : wall' = t
  /\ setBacks' = setBacks + 1
  /\ UNCHANGED <<store, withdrawn, workspace, call, history, started>>

-----------------------------------------------------------------------------
Init ==
  /\ wall = 0
  /\ high = 0
  /\ delegations = [id \in Delegations |-> None]
  /\ revocations = {}
  /\ cache = [id \in Delegations |-> None]
  /\ reservations = {}
  /\ consumptions = {}
  /\ withdrawn = {}
  /\ granted = Delegations
  /\ spent = {}
  /\ call = [p \in Procs |-> NoCall]
  /\ dispatched = <<>>
  /\ refused = {}
  /\ started = 0
  /\ setBacks = 0

authorize(p) ==
  \/ PassThrough(p) \/ Start(p) \/ WriteMark(p)
  \/ ChooseLocal(p) \/ ChooseRef(p) \/ AskActive(p) \/ FoundActive(p) \/ AllChosen(p)
  \/ UseCached(p) \/ WorkspaceResolves(p) \/ ReceiveGrant(p) \/ CacheGrant(p)
  \/ LookFirst(p) \/ ConsumeInWorkspace(p) \/ Consumed(p) \/ WorkspaceFails(p)
  \/ Decide(p) \/ StoreFails(p) \/ Crash(p)

Next ==
  \/ \E p \in Procs : authorize(p)
  \/ \E g \in Grants : AddDelegation(g)
  \/ \E ids \in SUBSET Delegations : Revoke(ids)
  \/ \E b \in Budgets : WithdrawBudget(b)
  \/ \E id \in Delegations : EndGrant(id)
  \/ Tick \/ SetBack

Spec == Init /\ [][Next]_vars

-----------------------------------------------------------------------------
(* Properties.                                                             *)

(* The shape of the state: what each table of dispatch.db can hold, and    *)
(* what a call in flight carries.                                          *)
TypeOK ==
  /\ {wall, high, started, setBacks} \subseteq Nat
  /\ delegations \in [Delegations -> Grants \cup {None}]
  /\ revocations \subseteq Delegations /\ granted \subseteq Delegations
  /\ cache \in [Delegations -> Nat \cup {None}]
  /\ \A r \in reservations : r.budget \in Budgets /\ r.at \in Nat
  /\ consumptions \subseteq Approvals /\ refused \subseteq Approvals
  /\ spent \subseteq CloudApprovals
  /\ withdrawn \subseteq Budgets
  /\ DOMAIN call = Procs
  /\ \A p \in Procs : /\ call[p].phase \in Phases
                       /\ call[p].phase # "idle" => call[p].req \in Requests
                       /\ {call[p].now, call[p].at} \subseteq Nat
                       /\ call[p].mark \in Nat \cup {None}
                       /\ Range(call[p].local) \subseteq Approvals
                       /\ Range(call[p].cloud) \subseteq CloudApprovals

(* A signed approval lets one intent of one action through, however many   *)
(* calls found it valid at the same time and whichever of them died on the *)
(* way.                                                                    *)
ApprovalSingleUse ==
  \A j, k \in DOMAIN dispatched :
    \A i \in DOMAIN dispatched[j].local, l \in DOMAIN dispatched[k].local :
      dispatched[j].local[i] = dispatched[k].local[l] => j = k /\ i = l

(* So does an approval held in the workspace, which several processes find *)
(* active at the same time and whose consumption may be answered late or   *)
(* never.                                                                  *)
CloudApprovalSingleUse ==
  \A j, k \in DOMAIN dispatched :
    \A i \in DOMAIN dispatched[j].cloud, l \in DOMAIN dispatched[k].cloud :
      dispatched[j].cloud[i] = dispatched[k].cloud[l] => j = k /\ i = l

(* Nothing of the store is spent by a call that was refused, failed or     *)
(* died: every consumed approval and every held slot belongs to an action  *)
(* that was let through, and what such an action used is marked used.      *)
StoreSpendsOnlyForAllowed ==
  /\ consumptions = UNION {Range(dispatched[k].local) : k \in DOMAIN dispatched}
  /\ \A r \in reservations : \E k \in DOMAIN dispatched :
       /\ r.budget \in dispatched[k].counted
       /\ r.group = dispatched[k].req.group /\ r.at = dispatched[k].at

(* An action that passed has, for each intent the configuration guards, an *)
(* approval of its own for exactly that intent, given for its actor or     *)
(* consumed in the workspace; a store failure never replaces one.          *)
EveryIntentApproved ==
  \A k \in DOMAIN dispatched :
    LET d == dispatched[k]
    IN  \A i \in DOMAIN d.req.intents : Requires(d.req.intents[i]) =>
          \/ i \in DOMAIN d.local /\ Binds(d.local[i], d.req, i)
          \/ /\ i \in DOMAIN d.cloud /\ d.cloud[i] \in spent
             /\ CloudFor[d.cloud[i]] = d.req.intents[i]

(* An action under an enforcing budget never passes uncounted: it took a   *)
(* slot of that budget, or is a retry of an action that did.               *)
EnforcedActionsCounted ==
  \A k \in DOMAIN dispatched : \A b \in PoliciesFor(dispatched[k].req) :
    PolicyOf[b].mode = "enforce" =>
      \E j \in 1..k : /\ b \in dispatched[j].counted
                     /\ dispatched[j].req.group = dispatched[k].req.group

(* The actions counted against b before the k-th that were still inside    *)
(* its window when the k-th was decided.                                   *)
Before(b, k) == {j \in 1..(k - 1) : /\ b \in dispatched[j].counted
                                   /\ dispatched[j].at > dispatched[k].at - PolicyOf[b].window}

(* An enforcing budget lets through at most max actions in any window.     *)
(* This counts the actions themselves, not the rows, which are purged; and *)
(* it is claimed for an action decided at a time no earlier than the ones  *)
(* before it, which the high-water mark is there to ensure.                *)
BudgetHolds ==
  \A k \in DOMAIN dispatched : \A b \in dispatched[k].counted :
    /\ PolicyOf[b].mode = "enforce"
    /\ \A j \in 1..(k - 1) : dispatched[j].at <= dispatched[k].at
    => Cardinality(Before(b, k)) < PolicyOf[b].max

(* A delegation and its stored ancestors, as a closure and not as the walk *)
(* the code makes.                                                         *)
Lineage(id) ==
  {x \in Delegations : \A S \in SUBSET Delegations :
     /\ id \in S
     /\ \A y \in S : Known(y) /\ delegations[y].parent # None => delegations[y].parent \in S
     => x \in S}

(* However a chain was built up by registrations and whatever the clock    *)
(* did meanwhile, a delegation ends no later and allows no more action     *)
(* types than any of its ancestors, all of them stored.                    *)
ChainsNarrow ==
  \A id \in Delegations : Known(id) =>
    \A x \in Lineage(id) :
      /\ Known(x)
      /\ delegations[id].expires <= delegations[x].expires
      /\ delegations[id].scope.types \subseteq delegations[x].scope.types

(* A step that lets a delegated action through the local store finds its   *)
(* whole chain stored, unexpired and unrevoked, however long ago the call  *)
(* was begun and checked: revoking an ancestor stops every descendant.     *)
RevokedChainStops ==
  [][\A k \in DOMAIN dispatched' \ DOMAIN dispatched :
       LET d == dispatched'[k]
       IN  d.req.delegation # None /\ ~d.ws =>
             \A x \in Lineage(d.req.delegation) :
               Known(x) /\ x \notin revocations /\ delegations[x].expires > d.at]_vars

(* The boundary implements the ledger for signed approvals: checking an    *)
(* approval and spending it are one step, though choosing it, asking the   *)
(* workspace and deciding are many.                                        *)
Ledger == INSTANCE SpendLedger WITH
  Items <- Approvals, used <- consumptions,
  grants <- [k \in DOMAIN dispatched |-> Range(dispatched[k].local)]

SpendsInOneStep == Ledger!Spec

(* dispatch-store.ts:383: a refusal by the delegation, a replay or a       *)
(* budget must not burn a person's approval.                               *)
RefusalBurnsNoApproval ==
  \A p \in Procs : In(p, "deciding") /\ ~Permits(call[p], EffectiveNow) =>
    Range(call[p].cloud) \cap spent = {}

(* dispatch-store.ts:7: rolling the clock back cannot revive an expired    *)
(* approval: once a decision refused it as expired, none consumes it.      *)
ExpiredStaysRefused ==
  [][refused \cap (consumptions' \ consumptions) = {}]_vars
=============================================================================
