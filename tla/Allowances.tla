----------------------------- MODULE Allowances -----------------------------
(***************************************************************************)
(* Allowances (packages/hook/src/allowances.ts) as the override handler    *)
(* (override.ts), the agent's tray and the agent's sender                  *)
(* (packages/agent/src/allowance-sender.ts) share them: allowances.json is *)
(* read, worked on and written whole by several processes, with no lock.   *)
(*                                                                         *)
(* One rule whose blocks a person may override, one person.  A blocked     *)
(* action is known by its key; an allowance covers one key, or several     *)
(* ("Similar commands in this project").  The workspace confirms,          *)
(* approves and revokes allowances in its rules document.                  *)
(***************************************************************************)
EXTENDS Naturals, FiniteSets, Functions

CONSTANTS
  BlockedCalls,     \* actions the rule blocks, each asked about once
  Keys,             \* what an action is, whatever call it came from
  KeyOf,            \* the key of each
  AllowanceIds,     \* allowances that may come to be
  CoverFor,         \* how long an unblock covers the same action (terms.minutes)
  DailyLimit,       \* terms.daily_limit
  KeepExpired,      \* how long an expired allowance is kept in the file
  MaxAllowTime,     \* bound: the clock; all of it is one day
  MaxDocChanges,    \* bound: what the workspace delivers and revokes
  KnowsKind,        \* whether the workspace's copy of a quiet block says that it is one
  UseRaces          \* whether the file may change between a use's read and its write

ASSUME AllowancesAssumption ==
  /\ KeyOf \in [BlockedCalls -> Keys] /\ AllowanceIds \cap {"none", "person"} = {}
  /\ CoverFor \in Nat /\ DailyLimit \in Nat /\ KeepExpired \in Nat /\ MaxAllowTime \in Nat
  /\ MaxDocChanges \in Nat /\ KnowsKind \in BOOLEAN /\ UseRaces \in BOOLEAN

VARIABLES
  allowClock,
  rulesDoc,       \* managed-rules.json: allowances delivered, ids revoked; expired: no fresh proof
  allowances,     \* allowances.json: a function from the ids it holds
  unblocks,       \* overrides.json: today's unblocks
  requests,       \* requests.json: the keys an admin is asked about
  blocked,        \* blocked.json: the blocks a person may act on
  question,       \* question[b]: the locals of the hook process that handles b
  sender,         \* the agent's sender: where it is, and the ids the workspace answered for
  made,           \* every allowance as it was made
  told,           \* ids the workspace has
  stopped         \* ids the person was told are stopped

allowanceFiles == <<allowances, unblocks, requests, blocked>>
allowVars == <<allowClock, rulesDoc, allowanceFiles, question, sender, made, told, stopped>>

AllowTimes == 0..MaxAllowTime
Lengths == {"once", "fifteen", "always"}

Entries ==
  [covers : SUBSET Keys, quiet : BOOLEAN, once : BOOLEAN,
   state : {"active", "proposed", "revoked"}, by : {"person", "workspace"},
   born : AllowTimes, until : Nat, uses : Nat, ended : BOOLEAN, sent : BOOLEAN, endSent : BOOLEAN]

\* What an override handler keeps of the rules document it read.
NoRules == [delivered |-> << >>, revoked |-> {}]

Unasked == [stage |-> "new", doc |-> NoRules, at |-> 0, mine |-> << >>, read |-> << >>,
            entries |-> {}, by |-> "none"]

--------------------------------------------------------------------------
(* Making allowances.                                                     *)

\* Mutant: the time is rounded up.
Entry_Later(covers, length, state, at) ==
  [covers |-> covers, quiet |-> FALSE, once |-> length = "once", state |-> state, by |-> "person",
   born |-> at + 1, until |-> at + 1, uses |-> 0, ended |-> FALSE, sent |-> FALSE,
   endSent |-> FALSE]

Entry(covers, length, state, at) ==
  [covers |-> covers, quiet |-> FALSE, once |-> length = "once", state |-> state, by |-> "person",
   born |-> at, until |-> at + (IF length = "always" THEN MaxAllowTime + 1 ELSE 1),
   uses |-> 0, ended |-> FALSE, sent |-> FALSE, endSent |-> FALSE]

QuietBlock(k, at) == [Entry({k}, "always", "active", at) EXCEPT !.quiet = TRUE]

\* makeAllowance, similarAllowances: a long one waits for an admin, the key covered by another
\* meanwhile; free is what ids may be taken from.
NewAllowances(k, length, similar, at, free) ==
  LET covers == IF similar THEN Keys ELSE {k}
      first == Entry(covers, length, IF length = "always" THEN "proposed" ELSE "active", at)
      cover == Entry({k}, "fifteen", "active", at)
  IN IF length = "always"
     THEN {[i \in {p[1], p[2]} |-> IF i = p[1] THEN first ELSE cover] :
             p \in {pair \in free \X free : pair[1] # pair[2]}}
     ELSE {[i \in {new} |-> first] : new \in free}

Unused == AllowanceIds \ DOMAIN made

With(f, g) == [id \in DOMAIN f \cup DOMAIN g |-> IF id \in DOMAIN g THEN g[id] ELSE f[id]]

\* writeAllowances drops what expired long ago.
Kept(file, at) == Restrict(file, {id \in DOMAIN file : file[id].until + KeepExpired > at})

--------------------------------------------------------------------------
(* Reading them.                                                          *)

\* Mutant: the kind is not kept.
MergedEntry_Plain(given, mine) == [given EXCEPT !.quiet = FALSE]

\* mergeWorkspaceAllowances, from the handler's document: the workspace's copy decides, uses and
\* endings are this computer's.  Whether the workspace's grants have expired is read anew.
MergedEntry(given, mine) ==
  [given EXCEPT !.uses = IF mine.uses > @ THEN mine.uses ELSE @,
                !.sent = mine.sent, !.ended = mine.ended, !.endSent = mine.endSent,
                !.quiet = mine.quiet \/ @]

Merged(doc, file) ==
  LET delivered == IF rulesDoc.expired THEN << >> ELSE doc.delivered
      all == [id \in DOMAIN file \cup DOMAIN delivered |->
                IF id \notin DOMAIN delivered THEN file[id]
                ELSE IF id \in DOMAIN file THEN MergedEntry(delivered[id], file[id])
                ELSE delivered[id]]
  IN [id \in DOMAIN all |->
        IF id \in doc.revoked THEN [all[id] EXCEPT !.state = "revoked"] ELSE all[id]]

\* Mutant: the copies kept here outlive the workspace's grants.
Usable_KeepsCopies(doc, file) ==
  IF rulesDoc.expired THEN {id \in DOMAIN file : file[id].by = "person"} ELSE DOMAIN file

\* withoutWorkspaceAllowances, once the workspace's grants have expired.
Usable(doc, file) ==
  IF rulesDoc.expired
  THEN {id \in DOMAIN file : file[id].by = "person" /\ id \notin DOMAIN doc.delivered}
  ELSE DOMAIN file

InForceFor(e, k) == e.state = "active" /\ ~e.ended /\ k \in e.covers /\ e.until > allowClock

\* matchAllowance, matchPatternAllowance.
Matching(doc, file, k) ==
  {id \in Usable(doc, file) :
     /\ InForceFor(file[id], k) /\ ~file[id].quiet
     /\ ~(file[id].once /\ file[id].uses > 0)}

\* matchQuietBlock.
Quiet(doc, file, k) == {id \in Usable(doc, file) : InForceFor(file[id], k) /\ file[id].quiet}

\* Under a quiet block only what was made after it stands.
Standing(doc, file, k) ==
  IF Quiet(doc, file, k) = {} THEN Matching(doc, file, k)
  ELSE {id \in Matching(doc, file, k) :
          \E q \in Quiet(doc, file, k) : file[id].born > file[q].born}

\* stillCovers, underDailyLimit, and a retry of what was blocked just before.
Covered(b) == CoverFor # 0 /\ \E u \in unblocks : u.key = KeyOf[b] /\ allowClock - u.at <= CoverFor
UnderLimit == Cardinality(unblocks) < DailyLimit
Retried(b) == \E o \in BlockedCalls : /\ blocked[o].state = "open" /\ blocked[o].at = allowClock
                                      /\ KeyOf[o] = KeyOf[b]

--------------------------------------------------------------------------
(* The hook: the override handler.                                        *)

\* Nothing yet, or one long allowance of before, confirmed and merged into the file by a use.
AllowInit ==
  /\ allowClock = 0
  /\ \E ids \in {{}} \cup {{id} : id \in AllowanceIds}, k \in Keys :
       LET asked == [id \in ids |-> Entry({k}, "always", "proposed", 0)]
           given == [id \in ids |-> [asked[id] EXCEPT !.state = "active"]]
       IN /\ made = asked /\ told = ids
          /\ rulesDoc = [delivered |-> given, revoked |-> {}, expired |-> FALSE]
          /\ allowances = [id \in ids |-> [given[id] EXCEPT !.uses = 1, !.sent = TRUE]]
  /\ unblocks = {} /\ requests = {}
  /\ blocked = [b \in BlockedCalls |-> [state |-> "none", at |-> 0]]
  /\ question = [b \in BlockedCalls |-> Unasked]
  /\ sender = [stage |-> "idle", ids |-> {}]
  /\ stopped = {}

Answer(b, how) == question' = [question EXCEPT ![b] = [Unasked EXCEPT !.stage = "done", !.by = how]]
Block(b, state, at) == blocked' = [blocked EXCEPT ![b] = [state |-> state, at |-> at]]

\* createOverrideHandler, when the hook's runtime opens: the rules document is read, once, for
\* every action of the tool call.
OpenHandler(b) ==
  /\ question[b].stage = "new"
  /\ question' = [question EXCEPT ![b].stage = "open",
                                  ![b].doc = [delivered |-> rulesDoc.delivered,
                                              revoked |-> rulesDoc.revoked]]
  /\ UNCHANGED <<allowClock, rulesDoc, allowanceFiles, sender, made, told, stopped>>

\* The allowances as they are now, under the handler's document; what stands for b, and what
\* keeps it quiet.
Seen(b) == Merged(question[b].doc, allowances)
StandingFor(b) == Standing(question[b].doc, Seen(b), KeyOf[b])
QuietFor(b) == Quiet(question[b].doc, Seen(b), KeyOf[b])

\* A quiet block: denied at once.
KeepQuiet(b) ==
  /\ question[b].stage = "open"
  /\ QuietFor(b) # {} /\ StandingFor(b) = {}
  /\ Answer(b, "none") /\ Block(b, "acted", allowClock)
  /\ UNCHANGED <<allowClock, rulesDoc, allowances, unblocks, requests, sender, made, told, stopped>>

\* A standing allowance: its use is counted in the copy read here.
TakeStanding(b) ==
  /\ question[b].stage = "open"
  /\ \E id \in StandingFor(b) :
       question' = [question EXCEPT ![b] =
         [Unasked EXCEPT !.stage = "using", !.at = allowClock, !.read = allowances, !.by = id,
                         !.mine = [Seen(b) EXCEPT ![id].uses = @ + 1]]]
  /\ UNCHANGED <<allowClock, rulesDoc, allowanceFiles, sender, made, told, stopped>>

\* The copy is written, and the action let through.
UseStanding(b) ==
  /\ question[b].stage = "using"
  /\ UseRaces \/ allowances = question[b].read
  /\ allowances' = Kept(question[b].mine, question[b].at)
  /\ Answer(b, question[b].by)
  /\ UNCHANGED <<allowClock, rulesDoc, unblocks, requests, blocked, sender, made, told, stopped>>

NothingKept(b) == question[b].stage = "open" /\ QuietFor(b) = {} /\ StandingFor(b) = {}

\* An earlier unblock of the same action still covers it.
RepeatUnblock(b) ==
  /\ NothingKept(b) /\ Covered(b)
  /\ Answer(b, "person")
  /\ UNCHANGED <<allowClock, rulesDoc, allowanceFiles, sender, made, told, stopped>>

\* The daily limit is reached, or it is a retry: no question.
StayBlocked(b) ==
  /\ NothingKept(b) /\ ~Covered(b)
  /\ UnderLimit => Retried(b)
  /\ Answer(b, "none") /\ Block(b, "open", allowClock)
  /\ UNCHANGED <<allowClock, rulesDoc, allowances, unblocks, requests, sender, made, told, stopped>>

\* The person is asked, with the allowances and the unblocks as they are now.
AskPerson(b) ==
  /\ NothingKept(b) /\ ~Covered(b) /\ UnderLimit /\ ~Retried(b)
  /\ question' = [question EXCEPT ![b] =
       [Unasked EXCEPT !.stage = "asking", !.at = allowClock, !.mine = Seen(b),
                       !.entries = unblocks]]
  /\ UNCHANGED <<allowClock, rulesDoc, allowanceFiles, sender, made, told, stopped>>

\* Declined, or no answer in time; where a reason was asked for and is too short, no block is kept.
AnswerNo(b) ==
  /\ question[b].stage = "asking"
  /\ Answer(b, "none")
  /\ Block(b, "open", question[b].at) \/ UNCHANGED blocked
  /\ UNCHANGED <<allowClock, rulesDoc, allowances, unblocks, requests, sender, made, told, stopped>>

\* Keep blocking without asking me: added to the file as it is now.
AnswerQuiet(b) ==
  /\ question[b].stage = "asking"
  /\ \E id \in Unused :
       LET new == [i \in {id} |-> QuietBlock(KeyOf[b], question[b].at)]
       IN allowances' = Kept(With(allowances, new), question[b].at) /\ made' = With(made, new)
  /\ Answer(b, "none") /\ Block(b, "acted", question[b].at)
  /\ UNCHANGED <<allowClock, rulesDoc, unblocks, requests, sender, told, stopped>>

\* Ask an admin: the request is queued, the block stays.
AnswerAskAdmin(b) ==
  /\ question[b].stage = "asking"
  /\ requests' = requests \cup {KeyOf[b]}
  /\ Answer(b, "none") /\ Block(b, "open", question[b].at)
  /\ UNCHANGED <<allowClock, rulesDoc, allowances, unblocks, sender, made, told, stopped>>

\* Allow once.
AnswerOnce(b) ==
  /\ question[b].stage = "asking"
  /\ unblocks' = question[b].entries \cup {[call |-> b, key |-> KeyOf[b], at |-> question[b].at]}
  /\ Answer(b, "person")
  /\ UNCHANGED <<allowClock, rulesDoc, allowances, requests, blocked, sender, made, told, stopped>>

\* Allow for a while: the new allowance is added to the copy read before the question.
AnswerLasting(b) ==
  /\ question[b].stage = "asking"
  /\ \E length \in {"fifteen", "always"}, similar \in BOOLEAN :
       \E new \in NewAllowances(KeyOf[b], length, similar, question[b].at, Unused) :
         /\ allowances' = Kept(With(question[b].mine, new), question[b].at)
         /\ made' = With(made, new)
  /\ unblocks' = question[b].entries \cup {[call |-> b, key |-> KeyOf[b], at |-> question[b].at]}
  /\ Answer(b, "person")
  /\ UNCHANGED <<allowClock, rulesDoc, requests, blocked, sender, told, stopped>>

--------------------------------------------------------------------------
(* The agent: the tray, and the sender.                                   *)

\* actOnBlocked: an earlier block is allowed (once: the next try), if today's limit leaves room.
TrayAllows(b) ==
  /\ blocked[b].state = "open" /\ UnderLimit
  /\ \E length \in Lengths, similar \in BOOLEAN :
       /\ similar => length # "once"
       /\ \E new \in NewAllowances(KeyOf[b], length, similar, allowClock, Unused) :
            /\ allowances' = Kept(With(allowances, new), allowClock)
            /\ made' = With(made, new)
  /\ unblocks' = unblocks \cup {[call |-> b, key |-> KeyOf[b], at |-> allowClock]}
  /\ blocked' = [blocked EXCEPT ![b].state = "acted"]
  /\ UNCHANGED <<allowClock, rulesDoc, requests, question, sender, told, stopped>>

TrayKeepsQuiet(b) ==
  /\ blocked[b].state = "open"
  /\ \E id \in Unused :
       LET new == [i \in {id} |-> QuietBlock(KeyOf[b], allowClock)]
       IN allowances' = Kept(With(allowances, new), allowClock) /\ made' = With(made, new)
  /\ blocked' = [blocked EXCEPT ![b].state = "acted"]
  /\ UNCHANGED <<allowClock, rulesDoc, unblocks, requests, question, sender, told, stopped>>

TrayAsksAdmin(b) ==
  /\ blocked[b].state = "open"
  /\ requests' = requests \cup {KeyOf[b]}
  /\ blocked' = [blocked EXCEPT ![b].state = "acted"]
  /\ UNCHANGED <<allowClock, rulesDoc, allowances, unblocks, question, sender, made, told, stopped>>

\* endAllowance: "Stop allowing".
StopAllowing(id) ==
  /\ id \in DOMAIN allowances
  /\ LET e == allowances[id]
     IN e.by = "person" /\ ~e.ended /\ e.state # "revoked" /\ e.until > allowClock
  /\ allowances' = Kept([allowances EXCEPT ![id].ended = TRUE, ![id].endSent = FALSE], allowClock)
  /\ stopped' = stopped \cup {id}
  /\ UNCHANGED <<allowClock, rulesDoc, unblocks, requests, blocked, question, sender, made, told>>

\* The sender posts what is not sent yet; the workspace answers some.
PostAllowances ==
  /\ sender.stage = "idle"
  /\ \E ids \in SUBSET {i \in DOMAIN allowances :
          LET e == allowances[i] IN e.by = "person" /\ ~e.sent} \ {{}} :
       sender' = [stage |-> "posted", ids |-> ids] /\ told' = told \cup ids
  /\ UNCHANGED <<allowClock, rulesDoc, allowanceFiles, question, made, stopped>>

\* They are marked in the file as it is now.
MarkSent ==
  /\ sender.stage = "posted"
  /\ allowances' = Kept([i \in DOMAIN allowances |->
       [allowances[i] EXCEPT !.sent = @ \/ i \in sender.ids]], allowClock)
  /\ sender' = [stage |-> "idle", ids |-> {}]
  /\ UNCHANGED <<allowClock, rulesDoc, unblocks, requests, blocked, question, made, told, stopped>>

PostEnded ==
  /\ sender.stage = "idle"
  /\ \E ids \in SUBSET {i \in DOMAIN allowances :
          LET e == allowances[i] IN e.ended /\ ~e.endSent /\ e.sent /\ e.by = "person"} \ {{}} :
       sender' = [stage |-> "ended", ids |-> ids]
  /\ UNCHANGED <<allowClock, rulesDoc, allowanceFiles, question, made, told, stopped>>

MarkEndSent ==
  /\ sender.stage = "ended"
  /\ allowances' = Kept([i \in DOMAIN allowances |->
       [allowances[i] EXCEPT !.endSent = @ \/ i \in sender.ids]], allowClock)
  /\ sender' = [stage |-> "idle", ids |-> {}]
  /\ UNCHANGED <<allowClock, rulesDoc, unblocks, requests, blocked, question, made, told, stopped>>

--------------------------------------------------------------------------
(* The workspace and the time.                                            *)

\* How much the workspace has changed so far.
DocChanges ==
  Cardinality(DOMAIN rulesDoc.delivered) + Cardinality(rulesDoc.revoked)
    + (IF rulesDoc.expired THEN 1 ELSE 0)

\* Its copy, active; an older workspace does not know the kind.
Deliver(id, e) ==
  LET copy == [e EXCEPT !.state = "active", !.quiet = @ /\ KnowsKind]
  IN rulesDoc' = [rulesDoc EXCEPT !.delivered = With(@, [i \in {id} |-> copy])]

Confirms(id) ==
  /\ id \in told \ DOMAIN rulesDoc.delivered /\ DocChanges < MaxDocChanges
  /\ Deliver(id, made[id])
  /\ UNCHANGED <<allowClock, allowanceFiles, question, sender, made, told, stopped>>

\* An admin approves a request.
Approves(k) ==
  /\ k \in requests /\ DocChanges < MaxDocChanges
  /\ \E id \in Unused :
       LET e == [Entry({k}, "always", "active", allowClock)
                   EXCEPT !.by = "workspace", !.sent = TRUE]
       IN Deliver(id, e) /\ made' = With(made, [i \in {id} |-> e])
  /\ UNCHANGED <<allowClock, allowanceFiles, question, sender, told, stopped>>

Revokes(id) ==
  /\ id \in (told \cup DOMAIN rulesDoc.delivered) \ rulesDoc.revoked /\ DocChanges < MaxDocChanges
  /\ rulesDoc' = [rulesDoc EXCEPT !.revoked = @ \cup {id}]
  /\ UNCHANGED <<allowClock, allowanceFiles, question, sender, made, told, stopped>>

\* The last freshness proof runs out; a fresh answer ends that.
GrantsExpireOrRenew ==
  /\ ~rulesDoc.expired => DocChanges < MaxDocChanges
  /\ rulesDoc' = [rulesDoc EXCEPT !.expired = ~@]
  /\ UNCHANGED <<allowClock, allowanceFiles, question, sender, made, told, stopped>>

AllowTimePasses ==
  /\ allowClock < MaxAllowTime
  /\ allowClock' = allowClock + 1
  /\ UNCHANGED <<rulesDoc, allowanceFiles, question, sender, made, told, stopped>>

AllowNext ==
  \/ AllowTimePasses \/ GrantsExpireOrRenew
  \/ PostAllowances \/ MarkSent \/ PostEnded \/ MarkEndSent
  \/ \E id \in AllowanceIds : Confirms(id) \/ Revokes(id) \/ StopAllowing(id)
  \/ \E k \in Keys : Approves(k)
  \/ \E b \in BlockedCalls :
       \/ OpenHandler(b)
       \/ KeepQuiet(b) \/ TakeStanding(b) \/ UseStanding(b) \/ RepeatUnblock(b) \/ StayBlocked(b)
       \/ AskPerson(b) \/ AnswerNo(b) \/ AnswerQuiet(b) \/ AnswerAskAdmin(b) \/ AnswerOnce(b)
       \/ AnswerLasting(b) \/ TrayAllows(b) \/ TrayKeepsQuiet(b) \/ TrayAsksAdmin(b)

AllowSpec == AllowInit /\ [][AllowNext]_allowVars

--------------------------------------------------------------------------
(* Properties.                                                            *)

IsEntries(f) == DOMAIN f \subseteq AllowanceIds /\ Range(f) \subseteq Entries

AllowancesTypeOK ==
  /\ allowClock \in AllowTimes
  /\ IsEntries(allowances) /\ IsEntries(made) /\ IsEntries(rulesDoc.delivered)
  /\ rulesDoc.revoked \subseteq DOMAIN made /\ told \subseteq DOMAIN made
  /\ stopped \subseteq DOMAIN made /\ sender.ids \subseteq told
  /\ requests \subseteq Keys
  /\ unblocks \subseteq [call : BlockedCalls, key : Keys, at : AllowTimes]
  /\ blocked \in [BlockedCalls -> [state : {"none", "open", "acted"}, at : AllowTimes]]
  /\ \A b \in BlockedCalls :
       /\ question[b].stage \in {"new", "open", "using", "asking", "done"}
       /\ IsEntries(question[b].doc.delivered) /\ question[b].doc.revoked \subseteq DOMAIN made
       /\ IsEntries(question[b].mine) /\ IsEntries(question[b].read)
       /\ question[b].by \in DOMAIN made \cup {"none", "person"}

\* "Each is bound to one rule and one exact action", "a quiet block never lets anything through"
\* and "proposed: waiting for an admin (not in force)" (allowances.ts:3-4, :75-77, :52), through
\* every merge, stale copy and lost update: what lets an action through was made to cover it, as
\* an allowance, and where it waited for an admin the workspace confirmed it.
LetThroughExplained ==
  \A b \in BlockedCalls :
    question[b].by \in AllowanceIds =>
      LET e == made[question[b].by]
      IN /\ KeyOf[b] \in e.covers /\ ~e.quiet
         /\ e.state = "proposed" => question[b].by \in DOMAIN rulesDoc.delivered

\* The hook takes a standing allowance for b.
Takes(b) == question[b].stage = "open" /\ question'[b].stage = "using"

\* "What it revoked stays revoked", and once its grants are expired "what it allowed, and the
\* copies of it kept here, let nothing through" (override.ts:360-361), whatever copies of them the
\* file holds by then: what the workspace had revoked, or given or confirmed, in the rules document
\* the tool call began with.  (What it says while a call is open counts for the next one.)
WorkspaceHasTheLastWord ==
  [][\A b \in BlockedCalls : Takes(b) =>
       LET id == question'[b].by
       IN /\ id \notin question[b].doc.revoked
          /\ rulesDoc.expired =>
               /\ made[id].by = "person"
               /\ made[id].state = "active" \/ id \notin DOMAIN question[b].doc.delivered]_allowVars

\* "Stop allowing": "it stops applying at once" (allowances.ts:392), and "it stays stopped,
\* whatever the workspace's copy says" (allowances.ts:312).
StoppedStaysStopped ==
  [][\A b \in BlockedCalls : Takes(b) => question'[b].by \notin stopped]_allowVars
=============================================================================
