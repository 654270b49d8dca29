# Scopebond in TLA+

Specifications of the parts of Scopebond where a mistake would be an
interleaving, a crash, a lost answer or a clock, and not a line of code that a
unit test runs. Each module is translated from the TypeScript under
`src/packages/`; the line ranges are in `PROJECT.json` under `map`.

    tlc -workers 2 -config Dispatch.cfg MCDispatch
    tlc -workers 2 -config Computer.cfg MCComputer
    for m in *Proofs.tla; do tlapm $m; done

## The system

Scopebond checks what an AI agent is about to do, records it as a signed
receipt, and delivers the receipts to a workspace.

| component | state it keeps | operations | talks to |
|---|---|---|---|
| dispatch boundary (`gateway/src/dispatch*.ts`) | `dispatch.db`: high-water time, delegations, revocations, delegation cache, budget reservations, consumed approvals | `authorize`, `addDelegation`, `revoke`, `importRevocations` | every hook, proxy and gateway process of a machine (one SQLite file); the workspace over HTTP |
| gateway lifecycle (`gateway/src/app.ts`, `node-stores.ts`) | actions and their lifecycle, consumed ids, receipts, stops, anchors | `handleAction`, `observeAction`, `reconcileAction`, `kill`, `anchor`, retention | the boundary, the policy engine, an executor and the service behind it |
| cloud delivery (`gateway/src/cloud.ts`, `SqliteCloudOutbox`, `hook/src/delivery-repair.ts`) | outbox, gaps, acknowledgements, summary windows, notes of missed writes | `enqueue`, `flush`, `sendSummaries`, `backfillQueue`, `settleInterruptedActions` | the workspace's ingest and summary endpoints |
| policy evaluation (`verify/src/violates.ts`) | none | `violates`, `historyNeed`, `boundPrior` | called by every enforcing component |
| anchors, chains, summaries (`verify`) | none (chain heads in a file) | Merkle roots, proofs, chain and summary checks | offline verifiers |
| MCP proxy (`mcp/src`) | session history, tool-list pin | `handle` | client, upstream server, boundary |
| hook: rules (`hook/src/policy-*.ts`, `managed.ts`) | `policy.json`, `managed-rules.json`, `managed-answer.json`; `managed-meta.json`: version, etag, latch, replay mark, freshness | `syncPolicy`, `syncIfDue` | workspace |
| hook: allowances, overrides, requests | `allowances.json`, `overrides.json`, `blocked.json`, `requests.json`, no lock | match, merge, end, answer | agent, tray, workspace |
| hook: session budgets | `session-budgets.json` under a lock file | `reserve`, `release` | hook calls of one session |
| hook: observations (`obs-*.ts`) | `observations.db`: pending, terminal, sessions, leases | `enqueue`, `nextBatch`, `upload`, heartbeats | workspace |
| hook: runtime and deadline | none between calls | one decision per tool call, deny at the deadline | coding agent |
| agent (`agent/src`) | `agent.lock`, update and engine folders, prompts | resident loop, takeover, updates, questions | hook, tray, workspace |
| tray (Rust) | none | supervises the agent, shows state | agent |

Mappers and parsers of commands (`shell.ts`, `map.ts`, `typed-*.ts`), schemas,
the GitHub Action, the SDK and packaging keep no state and run sequentially.

**What is hard.** Processes share SQLite and JSON files without a server;
almost every operation reads, awaits the network and then writes. Processes are
short-lived and die at any point (a hook call has a deadline). Answers get lost
after the other side acted. The wall clock is under the user's control. The
list, each at its line, is `hazards` in `PROJECT.json`.

**What makes each part correct.**

- boundary: an approval lets one action through; a budget holds in every
  window; a refused call spends nothing; a revoked ancestor stops a chain; a
  broken store or workspace never turns into permission.
- lifecycle: what may have taken effect outside is charged to the policy until
  known; nothing is dispatched twice; a refusal is final.
- delivery: a receipt is never lost without a gap; what retention may delete is
  with the workspace; one bad record does not hold up the rest.
- session budgets: no more tool calls run under a limit than it allows, and a
  refused call costs nothing.
- rules sync: a computer that has latched takes only signed answers, never an
  older one; rules and record are never trusted unless one explains the other;
  an allowance the workspace took back stops within one freshness proof.
- MCP proxy: an allowed call was within the limit over all that ran or is on
  its way; a tool list that once differed from the pin is never trusted again.
- allowances: an action is let through only by what was made to cover it; what
  the workspace revoked, or the person stopped, stays so.
- observations: numbered without gaps, told in order, none gone without a count.

## Modules

| module | models | abstract specification |
|---|---|---|
| `DispatchGuard` | `createDispatchGuard().authorize` and the `DispatchStore` under it | refines `SpendLedger` |
| `SpendLedger` | the promise: unused items are spent together with the action they let through, in one step | |
| `GatewayLifecycle` | an action from submission to its last receipt, reconciliation, repair, retention | |
| `CloudOutbox` | the queue's tables and what one transaction does to them | |
| `CloudDelivery` | the flush, the summaries, the backfill and the workspace, over `CloudOutbox` | |
| `SessionBudget` | reserve and release of the session budgets, the count file and its lock, `evaluate` around them | |
| `PolicySync` | `syncPolicy`, `syncIfDue` and the files they keep, the workspace, a portal and a caching proxy | |
| `McpProxy` | `tools/call` and `tools/list` of the proxy, its history, bound and pin | |
| `Allowances` | the override handler, the tray's actions, the agent's sender and the workspace, over files without a lock | |
| `Observations` | the observation store, its upload, sessions and heartbeat helpers | |
| `Subsequences` | `Array.filter`, as a recursive function that can be reasoned about; used by `SessionBudget`, `McpProxy`, `CloudOutbox` and `Observations` | |
| `MC*` | constants of small instances; `MCComputer` puts the five components of a computer (`SessionBudget` to `Observations`) in one state space | |
| `DispatchGuardProofs`, `GatewayLifecycleProofs`, `CloudDeliveryProofs`, `SessionBudgetProofs`, `PolicySyncProofs`, `McpProxyProofs`, `SubsequencesProofs` | TLAPS proofs about the modules they are named for | |
| `HookStoresProofs` | TLAPS proofs about `Allowances` and `Observations` | |

### DispatchGuard

A step is one SQL statement outside a transaction, one transaction, or one
answer of the workspace; so two processes interleave exactly where the code lets
them. `call[p]` holds the locals of the call in flight: the phase names the
place in `authorize`, `local` and `cloud` the approval chosen for each intent.
`effectiveNow` outside a transaction is a read (`mark` is set) and a later
write (`WriteMark`); inside one it is part of the step. `Decide` and `LookFirst` share
`Permits`, as the code shares `decide`. `WorkspaceFails`, `StoreFails` and
`Crash` may strike between any two steps.

Abstractions: an approval's structure, lifetime limit, approver key and
signature are one flag, `sound`; a request's hash and the policy's digest
are part of the intent; target patterns are the relation `Covers`, so the pattern algebra
is not modelled; of a decision's observations only what it counted is kept; the
workspace's own consumption is atomic and exact; an inbox is read once. Time is
a small number of ticks; `MaxTime`, `MaxCalls` and `MaxSetBacks` bound a run.

### GatewayLifecycle

A step is one transaction, one question to the outside, or one look at the
stops. Gateways, operators (reconciling) and repairers are processes; each has
one call in flight, `calls[p]`. `rows` joins `authority_actions` and
`authority_lifecycle`; `receipts` are kept per action, in order.

Abstractions: the policy is "fewer than `Cap` counted actions", which is what the
crash, retry and reconciliation paths can break; the boundary's verdict is
arbitrary; `authorize`'s id lookup and the first look at the stops are one read
step; "interrupted for five minutes" is always possibly true; no call outlives the retention
period; `setPolicy`, anchors and the removal of receipts are left out. Operators
reconcile any open action, one whose call still runs among them, as
`reconcileAction` does; the history variable `contested` holds the actions it
happened to. Such an action's charge can be lost, and with it more than `Cap`
effects: `EffectsCharged` and `EffectsWithinCap` are of the others, and
`lifecycle_stale` shows what is behind it. `sent` counts the requests that went to
the executor, which is what `DispatchedOnce` and `GuardBeforeExecutor` are about. The
service behind an executor answers `failed` only for what it will never apply,
as `ExecutionQueryResult` says (the refund adapter's 404 is weaker: see the hazards).

### CloudOutbox and CloudDelivery

`queue`, `gaps`, `acked` and `windows` are the tables; `flush[f]` holds the locals of
`flushOnce` and `sendSummaries`. A request and what came of it is one step:
answered, lost before, or lost after the workspace acted. The workspace is
external: what it holds (`held`) and which receipts its summaries stand for
(`covered`). A process may die at any step, and `recordGap` may throw.

Two things the code can do lose a receipt, and each has a history variable, so that
the properties can be about everything else. `dropped`: a flush ended after it took
refused records out of the queue (`cloud.ts:800`) and before it recorded their gaps
(`:811`); they are gone against "a local receipt never disappears without evidence"
(`node-stores.ts:890`). `NeverWithoutEvidence` states that sentence without the
exception; it is not run, because TLC refutes it. `reopened`: a receipt was queued in
a window that was already over; the window's summary may not stand for it, which is
`AcknowledgedAtWorkspace` and the finding of `outbox_summary`.

Abstractions: limits in bytes, record numbers, gap counts and the pruning of
old gaps, and the kept totals are left out; a pass sees the whole queue; receipts age in two
steps; back-off only delays, so a flush may begin at any time; windows are never forgotten;
all summaries of a pass are one request; `discardNotSignedBy` has no caller in
`src/` and is not modelled; routine receipts are never ahead of the clock.

### SessionBudget

A hook process takes the lock by an exclusive create, reads the counts, writes
them by a rename and removes the lock: one action each, and it may die between
any two. `check[h]` holds the locals of `reserve` or `release`, `at` the guard
it is at (the current session id, then the legacy one). `spent` is a history
variable: which tool calls ran while a limit covered them. A tool call runs when
every hook process asked about it (two where the harness has two entries) has
answered and none refused.

Abstractions: one session; a budget's limits are named, and `Touches` says which
of them a call counts for; the rules' verdict and the boundary's are arbitrary.

A lock of any age is taken from whoever holds it: `LockAges` makes it old whether its
process is dead, suspended or at work, `FindStale` and `RemoveStale` are the `stat` and
the `rm` of `session-budgets.ts:101`, and the second takes away the lock that is there
by then; a lock that cannot be removed stays (`UnlockFails`). From the moment a process
at work lost its lock this way (`robbed`), two may count from the same copy and nothing
is claimed: `TakeoverKeepsLimits`, the limit without that exception, is defined and not
run, because TLC refutes it. `BudgetNotExceeded` is of limits still in force: of one that
has ended the file keeps nothing, and a call asked about twice, already counted at its
first question, may run under it uncounted.

### PolicySync

A rules check is a phase per await and per file written: `sync[c]` holds the copy
of the rules state read at the start, whether the files were intact and the
answer. The answer is the workspace's, or that of a portal (unsigned), of a proxy
(an old copy), or none. `OnGone`, `OnNoRules`, `OnSame` and `OnRules` are the
branches for 401, 204, 304 and 200. `EndsAt` names the phases in which the
process may end; the run has all of them but the final release. `grant` stands for
everything a document may change without a new version (allowances, switches).

Abstractions: versions are small numbers; an ETag identifies a version and its
grants; one key that is always trusted; proofs are for `FreshFor` ticks; time
moves before the workspace changes, so two answers of one time are equal; a file
is written in one step, by a rename.

A check takes the lock (`syncIfDue`) or does not (`agent.ts:119` and the CLI call
`syncPolicy` directly): `StartCheck(c, locked)`. A lock older than two minutes is removed,
whosever it is; a check that ends removes the lock, whosever it is; and a hook call that
finds a mismatch rewrites the rules state without it (`NoteMismatch`, `WriteNote`).
`unguarded` becomes true when two writers meet with no lock between them: a check
starts beside one at work and one of the two is unlocked, a check at work loses its
lock, or a check saves while a note is being written. From then on the five properties
claim nothing; `AcceptedForGood`, which does, is refuted by `rules_unlocked`.
`OnceVerifiedAlwaysSigned` is defined and not run: an answer that verified in a check
that ended before `finish` saved the latch is forgotten.

### McpProxy

`DecideCall` is one step, as in the code: prune, verdict, place in the history and
bound, before anything awaits. Then the tool list, the boundary and the receipt
are awaited, a step each, and `FinishCall` forwards or gives the place back. The
clock may step back by `Slack`, which is what the retention allows for.

Abstractions: the policy is one rate limit over one window; the bound is a number
of calls, not of bytes; the upstream shows one of two lists at a time; receipts are
stored or not. `ask`, typed adapters and stdio framing are left out.

### Allowances

A process reads `allowances.json`, works on its copy and writes it whole. The steps
are between a read and its write where the code awaits or another process can get
in: `TakeStanding` / `UseStanding`, `AskPerson` / `Answer*`, `Post*` / `Mark*`.
The rules document is read when the handler is created (`OpenHandler`) and kept in
`question[b].doc`: merging and matching use that copy, as `override.ts:328` and `:363`
do, while whether the workspace's grants have expired is looked up each time.
`made` is a history variable: every allowance as it was made, which is what a
merged or stale copy is compared with.

Abstractions: one rule, one person, one day; an action is its key, and "similar" covers
every key; ids are fresh. Left out: the workspace's quiet patterns
(`override.ts:417`), which only restrict; Claude Code's own prompt, where the
person answers elsewhere; what requests become in the workspace beyond an
approval. With a workspace that does not know the kind of a quiet block
(`KnowsKind` = FALSE) a lost quiet block comes back as an allowance, and TLC
finds `LetThroughExplained` violated.

### Observations

A step is one transaction of the store. `queued` is every observation ever queued,
in order, so that an index names one; `pending`, `terminal` and `due` are the
tables. A process first reads the connection file, then binds the store: between
the two another may have enrolled again. The upload takes a batch, sends it, and
applies the answer in up to four transactions.

Abstractions: one harness session; waits (leases, deferrals, back-offs) end at any
time; duplicates by observation id, limits in bytes, the counted calls and
throttled telemetry are left out. Two statements of the code are defined and not
run because the model refutes them: `LateAnswerSparesNew` (a late answer about an
old generation refuses and blocks the records of the new one bound meanwhile) and
`OneHelperPerSession` (`renewHeartbeat` does not look whether the claim was lost,
so a lapsed or freed claim can leave two loops; it takes three processes).

### MCComputer

The five modules share no variable. `part` chooses at the start whose steps a
behaviour takes, so the state space is the sum of the five and not their product;
nothing is claimed of their composition. Three components are taken in parts, because
what they would try together is too much for one run:

- the proxy: three calls under a tool list that stays as it is (`history`), two under one
  that changes (`pin`);
- the allowances: one change of the workspace's after nothing (`allowances`), or a second
  one after a confirmed allowance (`confirmed`);
- the observations: sessions and heartbeats (`sessions`), uploads of several processes
  (`uploads`), uploads one after the other while the installation is enrolled again
  (`rotations`).

The proofs are about the components' own next-state relations, without parts. One pair of
model values stands for the interchangeable processes, calls and allowances of all
five and is the symmetry set; no definition chooses among them.

## Runs

| run | instance | shows |
|---|---|---|
| `dispatch` | 2 processes, 2 calls, 3 ticks; in one part a signed and a workspace approval, a budget of one per tick and a monitoring one, one set-back of the clock; in the other a root and three possible leaves, the workspace and its cache | single use of both kinds of approval, no spending by refused calls, budgets, store failures, refinement of `SpendLedger`; chains narrow, and a revoked chain stops at the deciding step |
| `dispatch_burn` | as the first part of `dispatch` | finding: a refused call can have consumed a workspace approval |
| `dispatch_clock` | as the first part of `dispatch` | finding: an expired approval can be revived by setting the clock back |
| `lifecycle` | 2 gateways, operator, repairer, 2 requests and 4 submissions sharing an approval, cap 1, one crash | charges, cap, single dispatch, single use, final refusals |
| `lifecycle_guard` | same | finding: a request is sent to the executor and the boundary was never asked, by a stop that is lifted |
| `lifecycle_stale` | same | finding: "not started" recorded for a request that is sent |
| `outbox` | 2 flushers, 3 receipts, one of which may come late, a queue of 2, batches of 2, expiry, one fault at any step | nothing lost; acknowledged is held |
| `outbox_live` | 1 flusher, 3 receipts in 2 windows (one too large, one ahead of its time with another's id), two faults | every receipt is settled |
| `outbox_summary` | a window with a late receipt | finding: a summary's duplicate answer covers a receipt it never stood for |
| `computer` | two hook processes, three tool calls (one asked about twice, one that starts an agent), two limits of one, one death; two processes checking rules of two versions over three ticks, stopped once anywhere; three proxied calls, window, limit and bound of one; two blocked actions of one key and two allowances; two processes over an outbox of two, two enrolments, two activations | the five components named above, in the parts of `MCComputer` |
| `allowance_stop` | two blocked actions with different keys, two allowances | finding: a stopped allowance lets an action through again |
| `rules_unlocked` | two rules checks, locked or not, one version, two ticks, none stopped | finding: the latch to signed answers is put back |

**Why the bounds are enough to be interesting.** Every property takes at most
two calls, one shared item and one failure to break, and the mutants in
`PROJECT.json` (each a plausible bug in one definition) are all found within
them. A cap, budget or queue of one or two makes the limit reachable with two
actions. A third call, crash or approval repeats a choice the first two had.
`outbox_live` has two, so that a backfill of a failed write can itself fail. Symmetry is over interchangeable
processes, calls and allowances only, and not used with liveness.

In `computer` the groups a session remembers, the terminal table and the proxy's
history are bounded by one, so that forgetting happens. A clock of three rules
ticks lets a proof of one tick run out and be renewed.

The runs do not follow some behaviours further, each by a bound that is named in its
module. `Guarded` (`computer`): past a stolen lock or two rules checks that met unlocked,
where no property of the run claims anything; and one of the two limits expires.
`ContestedAlone` (`lifecycle`): where an action was reconciled while its call ran, the
crash, the stops, the repair and expiry do not come as well. `LateOrNotable` (`outbox`):
a receipt late to its window or the notable one, not both. `MCDispatch`: one part
spends and the other delegates, and no budget is withdrawn where the clock was set
back. The proofs are about the modules' own next-state relations and have none of
these bounds. `CHECK_DEADLOCK FALSE` is set because every run is bounded: calls,
requests, receipts, answers and time run out.

**Fairness.** Only `outbox_live` needs it: weak fairness of each process's
flush, of the backfill, of windows and leases ending and of receipts getting
older. The code justifies it by timers: the agent flushes every cycle, a hook call flushes
when one is due, and time passes. Faults are bounded, so the property reads "once failures stop". Expiry is off in that run: with it everything
would leave the queue by growing old and the property would be trivial.

## Findings

Seven disagreements between the code and what it says of itself, each with its
counterexample run: see `findings` in `PROJECT.json`. In short: (1) a workspace
approval is consumed before the decision that may refuse; (2) a refusal rolls
back the high-water mark it advanced; (3) a stop lifted between two looks skips the
dispatch boundary; (4) reconciling a reserved action does not check that it is
still reserved when it is settled; (5) a summary id is reused for a larger group
of receipts; (6) an answer to the override question writes back the allowances
read before it, so an allowance stopped meanwhile applies again; (7) a rules check
without the lock writes back the rules state it read, so the latch to signed answers
is lost.

Five statements are defined beside these and not run, since TLC refutes them too:
`NeverWithoutEvidence` (`CloudDelivery`), `TakeoverKeepsLimits` (`SessionBudget`),
`OnceVerifiedAlwaysSigned` (`PolicySync`), and the two of `Observations` named above.

## Proofs

Checked by TLAPS for every value of the constants that meets the named assumptions
of the modules, which TLC evaluates in every run: any number of processes, requests,
approvals, limits, ticks and crashes. Each proof has one
invariant that every step keeps, and the properties follow from it. No theorem but one
(`LetThroughIsExplained`) has a hypothesis of its own. Where the code has a step that
breaks a promise, the step is in the model, a history variable (`contested`, `reopened`,
`dropped`, `robbed`, `unguarded`) records that and to what it happened, and the theorem is
about all the rest: that the damage stays there is part of what is proved.

**The boundary** (`DispatchGuardProofs`; nothing is assumed of the clock or the workspace).

- `TypeCorrect`. `TypeOK` is not inductive: what a call carries depends on its
  phase. `TypeInv` adds the shape of every field of a call and of every decision.
- `SingleUse`, from `SpendInv`: `consumptions` is exactly the union of what the
  allowed decisions used, no two decisions share an approval, and the approvals a call
  in flight has chosen are distinct. The last is why one action cannot use
  an approval for two intents; the first is why `Permits` in the deciding transaction is
  enough against every other process.
- `CloudSingleUse` and `IntentsApproved`, from `CloudInv`: a workspace approval is held by
  at most one call in flight or used by one decision, never both (`HeldApart`,
  `CloudUsedOnce`), although several processes may have found it active.
- `WindowHolds`, `NoneUncounted` and `SpendsForAllowed`, from `SlotInv`. A row stands for
  an action let through; an action's row is there until the purge, two windows later; two
  actions of one group have a slot each only if the first was purged. So the rows in a
  window, which is what `Permits` counts, are the actions in it.
- `EveryChainNarrows` and `RevocationStops`, from `ChainInv`: each stored link narrows,
  and a stored delegation is never replaced; hence a chain narrows all the way up. The walk
  of the code (`Cursor`, by steps) is shown to have checked everything in the chain as the
  properties state it (`Lineage`, a closure). `GrantAssumption` is what `validateDelegation` has checked (`dispatch-store.ts:115`).
- `ImplementsLedger`, the refinement: `Decide`, when it allows, and the two ways past the
  store are grants; every other step is a stutter.

**The lifecycle** (`GatewayLifecycleProofs`).

- `LifecycleTypeCorrect`. `CallShape` adds what each kind of process may be doing.
- `ApprovalOnce`, from `OwnerInv`: `consumed` is exactly the ids of the rows there are, what
  is out of date is in no call's hands, and one call owns an action past its reservation.
  `TakenIsSpent`: an approval once taken is spent or out of date, so removing the records
  of its action frees it for nobody.
- `OneDispatch` (`SentOnce`: nothing was sent for an action that is still reserved, or whose owner is
  not at the adapter yet) and `RefusalFinal` (`RefusedStays`), live reconciliation included.
- `EffectsAreCharged` and `WithinCap`, of actions not reconciled while their call ran.
  `ChargeInv`: a marked action has an adapter and its candidate (`Marked`), an operator's
  answer about an action that is not contested is about one no gateway has in hand
  (`OperatorsAlone`), only what was sent has effects, and every effect is of an action
  held, told as executed or contested. For the cap, what an admission counted is shown to
  stay an upper bound of the effects of the uncontested ones, whatever a contested action
  beside them releases.

**Delivery** (`CloudDeliveryProofs`).

- `DeliveryTypesCorrect`, from `TypeInv`, which adds that the queue holds each receipt
  once and what each phase of a flush carries.
- `MarkedIsHeld`, from `WholeInv`: a window that is over and was not reopened waits, is kept
  back, is summed up or is sent in full as a whole, so the summary the workspace holds
  stands for all that waits of it (`CoveredWhole`). Marking a window is then right for each
  of its receipts, also when another flusher's summary was the one that arrived. A reopened
  window stays reopened, and its receipts are the only exception.
- `NoRecordLost`. What is about to leave the queue is `Excused`: it is with the workspace, has a
  gap in the flusher's hands, or another flusher has taken it out already. A flush that ends
  with gaps in hand puts exactly those records into `dropped`.

**Session budgets** (`SessionBudgetProofs`): `BudgetTypeCorrect`, `NotExceeded` and `CountedRan`,
the last two until a process at work is robbed of its lock. `CallsInv`: the lock file names the one
process between reading and unlocking, and what it is about to write was made of what
the file still holds. `CountInv` relates the number in the file to the calls: the
processes that may still give a count back and the calls whose count nobody will give
back are together no more than the count (`Covered`); the calls that ran or may still run are within
the limit (`Within`). The first is what keeps a release from
giving back a count twice, or that of a call which ran. The proof attempt corrected the
property: it failed for a limit that ends while a call is between its two questions, and
TLC then showed the behaviour, with two limits in one guard.
`CountedRan` is the other direction, and needs `ExplainedInv`: a number alone does not say
whose it is, so each limit's number is shown to be at most the size of a set of tool
calls, each of which is still owed for, ran, or is excused; and, until a group is forgotten,
the process that holds a guard's count is the only one of its tool call to do so
(`OnlyCounter`), so what it gives back was its own.

**Rules** (`PolicySyncProofs`): `RulesTypeCorrect`; and `AcceptedIsKept`, `LatchedMeansSigned`,
`TrustedIsExplained`, `GrantEndsInTime` and `CheckedIsCurrent`, until two writers of the rules
state meet without the lock (`unguarded`). In `RulesInv`, a check at work is then alone, with or
without the lock, and its locals are `Sound`: its early copy of the rules state
is no step behind the file, what it is installing was admitted by that copy, the
compiled policy is already that of the answer when the document is written, and it
drops files on an unsigned answer only while the file is not latched. `Explained` says
that a kept record names the policy of the signed answer in it. The last two need the
workspace's history, `GrantInv`: every document, in a file, an answer or the proxy's copy,
tells of the workspace at the time it was issued, and an allowance that is gone does not
come back (`DocSound`); a freshness proof beside a document with the allowance is no
younger than the allowance (`Fits`), which is why a 304 that renews the proof cannot prolong it;
and a check asks with its ETag only while its files are intact (`AtWork`), which is why "unchanged" is
enough to leave them.

**MCP proxy** (`McpProxyProofs`): `ProxyTypeCorrect`, `LiveCallsCount`,
`WholeHistoryDecides` and `MismatchStays`, from `ProxyInv`: what counts and is not in the
history is out of every window still to come or is no newer than what the
history remembers of its drops (`Remembered`), given that the clock is never further than `Slack`
behind its peak (`ClockInv`).

**Allowances** (`HookStoresProofs`, first part): `AllowancesTypeCorrect`, `LetThroughIsExplained` and
`WorkspaceDecides`, from `AllowInv`: whatever stale copies are merged and written back,
a copy of an allowance stays a copy of what was made, and what waited for an admin is
active only where the workspace gave it. The second **requires a workspace that knows
the kind of a quiet block** (`KnowsKind = TRUE`); without it TLC refutes the property. The
third is about the document the handler read when it was created.

**Observations** (`HookStoresProofs`, second part), without a hypothesis: `ObservationTypesCorrect`,
`NumbersLeaveNoGap`, `NoObservationLost` and `SessionsToldInOrder`, from `SessionInv`.
Its part about the tables (`OutboxInv`): the next number is one more than the rows of the bound generation
and no row is of a newer one (`OutboxFits`); what was counted as removed, what the terminal table holds
and what is pending are together no more than what was queued, so the counter
stays in its type (`TablesFit`); what an answer in a process' hands calls held is held by the workspace,
however the store was rebound since (`OpenerFits`). Its part about sessions
(`TellsOnce`): of each activation at most one process is about to tell of a start or of a stop, none
that is queued already, and a stop is told only of an activation that is over. The
transaction that changes the session's state picks the one who tells, and the row
follows in another one: that the two never disagree is what the invariant is for.

**Operators** (`SubsequencesProofs`): what `Keep` returns has the elements that are in
the set and no other, each once if each was there once, and is no longer than what it was
taken from; pieces and joins of sequences that hold each element once. `Keep` is
a function defined by recursion, so that it exists is shown first, by the least
counterexample.

**Only model-checked.** Every invariant and every action property of a passing run is a
theorem. `EventuallySettled` of `outbox_live` is not: liveness under fairness is beyond the
prover, as is `ENABLED`. What a violation run refutes is refuted on its instance. No module
uses RECURSIVE operators; recursive functions are used instead.

## Plan

1. Liveness of the upload under the heartbeat's fairness, as `outbox_live` has it for receipts.
2. Compositions: `GatewayLifecycle` with `DispatchGuard` in place of the arbitrary
   verdict, and with `CloudOutbox` at the seam between `finalizeAction` and
   `enqueue`, with the removal of receipts.
3. An abstract specification of the session budgets: a counter that only tool calls that
   ran advance; `Within` and `Explains` are most of its refinement mapping.
4. The answer that is late about an old generation (`LateAnswerSparesNew`) and the heartbeat
   claim (`OneHelperPerSession`) as runs of their own.

## Not modelled

The clauses of policy evaluation other than the rate limit, anchors, chains and
summaries as verifiers see them: pure functions with published vectors. The
agent's resident loop, updates, setup and prompts, and the tray: timers, child
processes and file moves around operations modelled elsewhere; what their actions
do to the shared files is in `Allowances`, `Observations` and `PolicySync`. Rule
packs and tool settings (files beside the rules check), key rotation, and the
renewal of credentials, whose outcome is the workspace's.

Parsers and classifiers of commands and their vectors (text in, text out, no
state); JSON schemas and canonical JSON; signatures and hashes (a flag, or
identity of a value); file permissions; wording; the edge KV store; the SDK,
framework adapters, the GitHub Action and packaging. `PROJECT.json` lists every component with its status.
