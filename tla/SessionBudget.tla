--------------------------- MODULE SessionBudget ---------------------------
(***************************************************************************)
(* Session budgets (packages/hook/src/session-budgets.ts) as the decision  *)
(* runtime uses them (packages/hook/src/runtime.ts, evaluate): short-lived *)
(* hook processes count one session's tool calls in a file, under a lock   *)
(* file, before a call runs, and give a count back when the call is        *)
(* refused afterwards.                                                     *)
(*                                                                         *)
(* A tool call is known by its group, which a retry repeats.  A session    *)
(* has up to two guards, the current session id and the legacy one, each   *)
(* with its own limits and its own list of groups.                         *)
(***************************************************************************)
EXTENDS Naturals, Sequences, FiniteSets, SequencesExt, Subsequences

CONSTANTS
  Hooks,          \* hook processes
  Groups,         \* tool calls
  Limits,         \* the limits of the budgets that name this session
  GuardOf,        \* 1 for a limit of the current session id, 2 for the legacy one
  MaxOf,          \* what each limit allows
  Enforced,       \* the limits of budgets in mode "enforce"; the rest are monitored
  Touches,        \* the limits each tool call counts for
  Launches,       \* tool calls that start another coding agent
  AfterFact,      \* tool calls reported only after they ran (postHoc)
  Twice,          \* tool calls asked about by two hook entries at once (duplicates.ts)
  MaxGroups,      \* how many groups a session remembers (MAX_GROUPS)
  MaxTries,       \* bound: how often each tool call is attempted
  MaxDeaths       \* bound: hook processes that die, count files or locks that cannot be used

ASSUME LimitsAssumption ==
  /\ IsFiniteSet(Hooks) /\ "none" \notin Hooks /\ IsFiniteSet(Groups)
  /\ GuardOf \in [Limits -> 1..2]
  /\ MaxOf \in [Limits -> Nat]
  /\ Enforced \subseteq Limits
  /\ Touches \in [Groups -> SUBSET Limits]
  /\ MaxGroups \in Nat \ {0}
  /\ MaxTries \in [Groups -> Nat] /\ MaxDeaths \in Nat

VARIABLES
  lockFile,    \* session-budgets.lock: who made it, and whether it is over 30 s old
  countFile,   \* session-budgets.json
  ended,       \* limits whose budget has expired
  check,       \* check[h]: the locals of hook process h
  attempt,     \* attempt[g]: the hook processes asked about g, and whether all agreed so far
  spent,       \* spent[l]: the tool calls that ran while l limited them
  unsettled,   \* tool calls one of whose hook processes died or could not give its count back
  forgotten,   \* whether a group was dropped from the last MaxGroups
  robbed,      \* history: a process lost its lock to another while it was at work
  deaths

budgetVars == <<lockFile, countFile, ended, check, attempt, spent, unsettled, forgotten, robbed,
                deaths>>

NoLock == [by |-> "none", old |-> FALSE]
Guards == 1..2
Counts == [counts : [Limits -> Nat], groups : [Guards -> Seq(Groups)]]
Phases == {"idle", "lock", "stale", "read", "write", "unlock", "rules"}
InLock == {"read", "write", "unlock"}

\* The locals of a process that is asked about no tool call.
Resting == [phase |-> "idle", group |-> "none", op |-> "reserve", at |-> 1, held |-> {},
            limits |-> {}, outcome |-> "allow", copy |-> "none", matched |-> {}]

--------------------------------------------------------------------------
(* What a reservation decides.                                            *)

\* The limits a tool call counts for under one guard, budgets that expired aside.
Matched(g, i) == {l \in Touches[g] \ ended : GuardOf[l] = i}

\* A tool call already among the session's last groups is not counted twice.
Repeated(file, g, i) == Contains(file.groups[i], g)

\* The count a limit would reach with this call.
CountWith(file, g, l) == file.counts[l] + (IF Repeated(file, g, GuardOf[l]) THEN 0 ELSE 1)

Over(file, g, ls) == \E l \in ls \cap Enforced : CountWith(file, g, l) > MaxOf[l]

\* While an enforce budget is in force, the session may not start another coding agent.
LaunchRefused(g, i) ==
  /\ g \in Launches \ AfterFact
  /\ \E l \in Enforced \ ended : GuardOf[l] = i

\* Mutant: a count that cannot be had lets every call through.
WhenUnavailable_Allows(c) == "allow"

\* What a count that cannot be had means: a limited call is denied, a monitored or past one is not.
WhenUnavailable(c) ==
  IF c.matched \cap Enforced # {} /\ c.group \notin AfterFact THEN "deny" ELSE "allow"

LastGroups(s) == IF Len(s) > MaxGroups THEN Tail(s) ELSE s

Reserved(file, g, i, ls) ==
  [counts |-> [l \in Limits |-> IF l \in ls THEN file.counts[l] + 1 ELSE file.counts[l]],
   groups |-> [file.groups EXCEPT ![i] = LastGroups(Append(@, g))]]

\* Mutant: every count is taken back, also one this call never reached, without a floor.
Released_All(file, g, i, ls) ==
  [counts |-> [l \in Limits |-> file.counts[l] - 1],
   groups |-> [file.groups EXCEPT ![i] = Keep(@, Groups \ {g})]]

Released(file, g, i, ls) ==
  [counts |-> [l \in Limits |-> IF l \in ls /\ file.counts[l] > 0 THEN file.counts[l] - 1
                                 ELSE file.counts[l]],
   groups |-> [file.groups EXCEPT ![i] = Keep(@, Groups \ {g})]]

--------------------------------------------------------------------------
(* How a call moves on.                                                   *)

\* Mutant: a refused call keeps what it counted.
Refuse_Keeps(c) == [c EXCEPT !.phase = "idle", !.outcome = "deny"]

\* Give back what the guards before counted, one after the other, or be done.
Refuse(c) ==
  IF c.held # {} /\ c.group \notin AfterFact
  THEN LET i == CHOOSE j \in c.held : \A k \in c.held : j <= k
       IN [c EXCEPT !.phase = "lock", !.op = "release", !.at = i, !.held = c.held \ {i},
                    !.matched = {l \in c.limits : GuardOf[l] = i}, !.outcome = "deny"]
  ELSE [c EXCEPT !.phase = "idle", !.outcome = "deny"]

\* Ask guard i, or the next one when no limit of this one applies, or go on to the rules.
AskGuard(c, i) ==
  LET concerned == {j \in i..2 : LaunchRefused(c.group, j) \/ Matched(c.group, j) # {}}
      next == CHOOSE j \in concerned : \A k \in concerned : j <= k
  IN IF concerned = {} THEN [c EXCEPT !.phase = "rules"]
     ELSE IF LaunchRefused(c.group, next) THEN Refuse(c)
     ELSE [c EXCEPT !.phase = "lock", !.op = "reserve", !.at = next, !.outcome = "allow",
                    !.matched = Matched(c.group, next)]

\* What a process does once it has given the lock up (or never got it).
AfterLock(c) ==
  CASE c.op = "release" -> Refuse(c)
    [] c.outcome = "deny" -> Refuse(c)
    [] OTHER -> AskGuard(c, c.at + 1)

\* A tool call runs when every process asked about it answered and none refused.
Answered(g, h, ok) ==
  LET left == [open |-> attempt[g].open \ {h}, ok |-> attempt[g].ok /\ ok,
               limits |-> attempt[g].limits \cup check[h].limits, tries |-> attempt[g].tries]
  IN /\ attempt' = [attempt EXCEPT ![g] = left]
     /\ spent' = IF left.open = {} /\ (left.ok \/ g \in AfterFact)
                 THEN [l \in Limits |-> IF l \in left.limits THEN spent[l] \cup {g} ELSE spent[l]]
                 ELSE spent

\* The process goes on with c; when c is done it has answered.
Continue(h, c) ==
  IF c.phase = "idle"
  THEN /\ check' = [check EXCEPT ![h] = Resting]
       /\ Answered(c.group, h, FALSE)
  ELSE /\ check' = [check EXCEPT ![h] = c]
       /\ UNCHANGED <<attempt, spent>>

--------------------------------------------------------------------------
(* Actions.                                                               *)

BudgetInit ==
  /\ lockFile = NoLock
  /\ countFile = [counts |-> [l \in Limits |-> 0], groups |-> [i \in Guards |-> <<>>]]
  /\ ended = {}
  /\ check = [h \in Hooks |-> Resting]
  /\ attempt = [g \in Groups |-> [open |-> {}, ok |-> TRUE, limits |-> {}, tries |-> 0]]
  /\ spent = [l \in Limits |-> {}]
  /\ unsettled = {}
  /\ forgotten = FALSE
  /\ robbed = FALSE
  /\ deaths = 0

\* The coding agent asks about a tool call: one hook process, or two where it has two entries.
Ask(g, hs) ==
  /\ attempt[g].open = {}
  /\ attempt[g].tries < MaxTries[g]
  /\ Cardinality(hs) = IF g \in Twice THEN 2 ELSE 1
  /\ \A h \in hs : check[h].phase = "idle"
  /\ LET c == AskGuard([Resting EXCEPT !.group = g], 1)
         begun(open, ok) ==
           [open |-> open, ok |-> ok, limits |-> {}, tries |-> attempt[g].tries + 1]
     IN IF c.phase = "idle"  \* a refused launch: nothing was counted
        THEN /\ attempt' = [attempt EXCEPT ![g] = begun({}, FALSE)]
             /\ UNCHANGED check
        ELSE /\ attempt' = [attempt EXCEPT ![g] = begun(hs, TRUE)]
             /\ check' = [h \in Hooks |-> IF h \in hs THEN c ELSE check[h]]
  /\ UNCHANGED <<lockFile, countFile, ended, spent, unsettled, forgotten, robbed, deaths>>

\* The exclusive create is the lock.
Open(h) ==
  /\ check[h].phase = "lock"
  /\ lockFile = NoLock
  /\ lockFile' = [by |-> h, old |-> FALSE]
  /\ check' = [check EXCEPT ![h].phase = "read"]
  /\ UNCHANGED <<countFile, ended, attempt, spent, unsettled, forgotten, robbed, deaths>>

\* The file exists and is older than 30 s.
FindStale(h) ==
  /\ check[h].phase = "lock"
  /\ lockFile # NoLock /\ lockFile.old
  /\ check' = [check EXCEPT ![h].phase = "stale"]
  /\ UNCHANGED <<lockFile, countFile, ended, attempt, spent, unsettled, forgotten, robbed, deaths>>

\* The lock of a process that is still counting.
Working(l) == l # NoLock /\ check[l.by].phase \in InLock

\* Remove it: a second call, which takes away whatever lock is there by then.
RemoveStale(h) ==
  /\ check[h].phase = "stale"
  /\ lockFile' = NoLock
  /\ check' = [check EXCEPT ![h].phase = "lock"]
  /\ robbed' = (robbed \/ Working(lockFile))
  /\ UNCHANGED <<countFile, ended, attempt, spent, unsettled, forgotten, deaths>>

\* Another process kept the lock for 1.5 s.
GiveUp(h) ==
  /\ check[h].phase = "lock"
  /\ lockFile # NoLock /\ ~lockFile.old
  /\ LET c == check[h]
     IN /\ Continue(h, AfterLock([c EXCEPT !.outcome = WhenUnavailable(c),
                                           !.limits = c.limits \cup c.matched]))
        /\ unsettled' = IF c.op = "release" THEN unsettled \cup {c.group} ELSE unsettled
  /\ UNCHANGED <<lockFile, countFile, ended, forgotten, robbed, deaths>>

\* Read the counts and decide.  A repeated call, or one beyond a limit, changes nothing.
Read(h) ==
  /\ check[h].phase = "read"
  /\ LET c == check[h]
         over == c.group \notin AfterFact /\ Over(countFile, c.group, c.matched)
         repeated == Repeated(countFile, c.group, c.at)
     IN check' = [check EXCEPT ![h] =
          CASE c.op = "release" ->
                 [c EXCEPT !.phase = "write",
                           !.copy = Released(countFile, c.group, c.at, c.matched)]
            [] c.op = "reserve" /\ over -> [c EXCEPT !.phase = "unlock", !.outcome = "deny"]
            [] c.op = "reserve" /\ ~over /\ repeated ->
                 [c EXCEPT !.phase = "unlock", !.limits = c.limits \cup c.matched]
            [] OTHER ->
                 [c EXCEPT !.phase = "write",
                           !.copy = Reserved(countFile, c.group, c.at, c.matched)]]
  /\ UNCHANGED <<lockFile, countFile, ended, attempt, spent, unsettled, forgotten, robbed, deaths>>

\* Replace the file by the copy, in one rename.
Write(h) ==
  /\ check[h].phase = "write"
  /\ LET c == check[h]
     IN /\ countFile' = c.copy
        /\ check' = [check EXCEPT ![h] =
             [c EXCEPT !.phase = "unlock", !.copy = "none",
                       !.limits = c.limits \cup (IF c.op = "reserve" THEN c.matched ELSE {}),
                       !.held = c.held \cup (IF c.op = "reserve" THEN {c.at} ELSE {})]]
        /\ forgotten' = (forgotten \/ \E i \in Guards :
             ToSet(countFile.groups[i]) \ (ToSet(c.copy.groups[i]) \cup {c.group}) # {})
  /\ UNCHANGED <<lockFile, ended, attempt, spent, unsettled, robbed, deaths>>

\* The file cannot be read or written: no count is to be had.
FileFails(h) ==
  /\ check[h].phase \in {"read", "write"}
  /\ deaths < MaxDeaths
  /\ deaths' = deaths + 1
  /\ LET c == check[h]
     IN /\ check' = [check EXCEPT ![h] =
             [c EXCEPT !.phase = "unlock", !.copy = "none", !.outcome = WhenUnavailable(c),
                       !.limits = c.limits \cup c.matched]]
        /\ unsettled' = IF c.op = "release" THEN unsettled \cup {c.group} ELSE unsettled
  /\ UNCHANGED <<lockFile, countFile, ended, attempt, spent, forgotten, robbed>>

\* Remove the lock file, whoever's it is by now.
Unlock(h) ==
  /\ check[h].phase = "unlock"
  /\ lockFile' = NoLock
  /\ Continue(h, AfterLock(check[h]))
  /\ UNCHANGED <<countFile, ended, unsettled, forgotten, robbed, deaths>>

\* The lock file cannot be removed: it is left for the stale check.
UnlockFails(h) ==
  /\ check[h].phase = "unlock"
  /\ deaths < MaxDeaths
  /\ deaths' = deaths + 1
  /\ Continue(h, AfterLock(check[h]))
  /\ UNCHANGED <<lockFile, countFile, ended, unsettled, forgotten, robbed>>

\* Every action was allowed by the rules, and the dispatch boundary let the call through.
RulesAllow(h) ==
  /\ check[h].phase = "rules"
  /\ check' = [check EXCEPT ![h] = Resting]
  /\ Answered(check[h].group, h, TRUE)
  /\ UNCHANGED <<lockFile, countFile, ended, unsettled, forgotten, robbed, deaths>>

\* A rule or the boundary refuses: the reservation is released, then the call is denied.
RulesRefuse(h) ==
  /\ check[h].phase = "rules"
  /\ Continue(h, Refuse(check[h]))
  /\ UNCHANGED <<lockFile, countFile, ended, unsettled, forgotten, robbed, deaths>>

\* The process dies (or its deadline passes): the call is blocked, its lock and count stay.
Die(h) ==
  /\ check[h].phase # "idle"
  /\ deaths < MaxDeaths
  /\ deaths' = deaths + 1
  /\ check' = [check EXCEPT ![h] = Resting]
  /\ Answered(check[h].group, h, FALSE)
  /\ unsettled' = unsettled \cup {check[h].group}
  /\ UNCHANGED <<lockFile, countFile, ended, forgotten, robbed>>

\* A lock grows older than 30 s: nobody removed it, its process is suspended, or the clock jumped.
LockAges ==
  /\ lockFile # NoLock /\ ~lockFile.old
  /\ lockFile' = [lockFile EXCEPT !.old = TRUE]
  /\ UNCHANGED <<countFile, ended, check, attempt, spent, unsettled, forgotten, robbed, deaths>>

\* A budget expires: from then on the rules alone decide.
Expire(l) ==
  /\ l \notin ended
  /\ ended' = ended \cup {l}
  /\ UNCHANGED <<lockFile, countFile, check, attempt, spent, unsettled, forgotten, robbed, deaths>>

BudgetNext ==
  \/ \E g \in Groups, hs \in SUBSET Hooks : Ask(g, hs)
  \/ \E h \in Hooks :
       \/ Open(h) \/ FindStale(h) \/ RemoveStale(h) \/ GiveUp(h)
       \/ Read(h) \/ Write(h) \/ FileFails(h) \/ Unlock(h) \/ UnlockFails(h)
       \/ RulesAllow(h) \/ RulesRefuse(h) \/ Die(h)
  \/ LockAges
  \/ \E l \in Limits : Expire(l)

BudgetSpec == BudgetInit /\ [][BudgetNext]_budgetVars

--------------------------------------------------------------------------
(* Properties.                                                            *)

BudgetTypeOK ==
  /\ lockFile \in [by : Hooks \cup {"none"}, old : BOOLEAN]
  /\ countFile \in Counts
  /\ ended \subseteq Limits
  /\ \A h \in Hooks : check[h].phase \in Phases /\ check[h].group \in Groups \cup {"none"}
  /\ \A g \in Groups : attempt[g].open \subseteq Hooks /\ attempt[g].tries \in 0..MaxTries[g]
  /\ spent \in [Limits -> SUBSET Groups]
  /\ unsettled \subseteq Groups /\ {forgotten, robbed} \subseteq BOOLEAN /\ deaths \in 0..MaxDeaths

\* "Under enforce, a tool call beyond a limit is denied" (session-budgets.ts:11), over every
\* interleaving of processes, retries, deaths and unusable files in which no process at work lost
\* its lock to another: as long as a limit is in force, no more tool calls have run under it than
\* it allows.  (Of two processes asked about one call, one may find it counted by the other without
\* a limit that has expired meanwhile: such a call runs under that limit uncounted, once the rules
\* alone decide.)
WithinLimits == \A l \in Enforced \ ended : Cardinality(spent[l] \ AfterFact) <= MaxOf[l]

BudgetNotExceeded == ~robbed => WithinLimits

\* The same of every interleaving: "an exclusive lock file; one left behind by a process that died
\* is taken over after 30 s" (session-budgets.ts:92), so a takeover does not let a call run beyond
\* its limit.
TakeoverKeepsLimits == WithinLimits

\* "A tool call a rule denies gives its count back" and "a retry of the same tool call is not
\* counted twice" (session-budgets.ts:18-19, :9): once every call is answered, and unless a process
\* at work lost its lock, the count is of calls that ran, of calls a process died over or could not
\* give back, and of calls that two processes answered, which may have differed, each once.
CountsOnlyWhatRan ==
  (\A h \in Hooks : check[h].phase = "idle") /\ ~forgotten /\ ~robbed =>
    \A l \in Limits : countFile.counts[l] <=
      Cardinality({g \in Groups :
        /\ l \in Touches[g]
        /\ g \in spent[l] \cup unsettled \cup {t \in Twice : attempt[t].tries > 0}})
==========================================================================
