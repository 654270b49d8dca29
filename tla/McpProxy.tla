------------------------------ MODULE McpProxy ------------------------------
(***************************************************************************)
(* The MCP proxy (packages/mcp/src/proxy.ts, createMcpProxy, with          *)
(* history-limit.ts, and historyNeed, boundPrior and the rate limit of     *)
(* packages/verify/src/violates.ts).                                       *)
(*                                                                         *)
(* A tool call is decided and takes its place in the session's history in  *)
(* one step; it then waits for the tool list, the dispatch boundary and    *)
(* its receipt while other calls are decided, and is forwarded or gives    *)
(* its place back.  The history is pruned by time and bounded in number.   *)
(***************************************************************************)
EXTENDS Integers, Sequences, FiniteSets, SequencesExt, Subsequences

CONSTANTS
  ToolCalls,     \* tools/call requests
  Window,        \* the policy's longest window
  MaxCount,      \* max_count of its rate limit over that window
  Slack,         \* how much longer than the window calls are kept: max(Window, five minutes)
  HistoryCap,    \* maxCalls of the history limit
  RecheckAfter,  \* manifestRecheckMs
  MaxProxyTime   \* bound: the clock

ASSUME ProxyAssumption ==
  /\ Window \in Nat \ {0} /\ Slack \in Nat /\ Slack >= Window
  /\ MaxCount \in Nat /\ HistoryCap \in Nat \ {0} /\ RecheckAfter \in Nat \ {0}
  /\ MaxProxyTime \in Nat

VARIABLES
  proxyClock, peakClock,  \* the wall clock, which may step back a little, and its highest value
  history,                \* the calls that count, oldest first
  droppedThrough,         \* the newest time among the calls dropped for the bound, -1 for none
  call,                   \* call[c]: where tool call c is
  toolList,               \* what the upstream shows: the pinned tool list or another one
  pin                     \* what the proxy knows of it

callVars == <<history, droppedThrough, call>>
proxyVars == <<proxyClock, peakClock, callVars, toolList, pin>>

ProxyTimes == 0..MaxProxyTime
Stages == {"new", "listing", "deciding", "boundary", "receipt", "forwarded", "refused"}

NewCall == [stage |-> "new", at |-> 0, held |-> FALSE, allowed |-> FALSE]

--------------------------------------------------------------------------
(* The history.                                                           *)

\* boundPrior: the calls a window that ends at `at` can still read (those of the future included).
BoundPrior(calls, span, at) == Keep(calls, {c \in ToolCalls : call[c].at > at - span})

InWindow(t, at) == t <= at /\ t > at - Window

\* violates: the rate limit over the history given, this call included.
RateViolated(calls, at) ==
  Len(Keep(BoundPrior(calls, Window, at), {c \in ToolCalls : InWindow(call[c].at, at)})) + 1
    > MaxCount

\* prune: what no decision can read any more, even after the clock steps back a little.
Pruned(at) == BoundPrior(history, Window + Slack, at)

\* Mutant: calls dropped for the bound are forgotten.
HistoryLost_Never(at) == FALSE

\* refusal: a dropped call may still be inside the window.
HistoryLost(at) == droppedThrough # -1 /\ droppedThrough > at - Window

\* trim: the oldest calls past the bound are dropped, and the newest time among them is kept.
Trimmed(calls) ==
  IF Len(calls) > HistoryCap THEN SubSeq(calls, Len(calls) - HistoryCap + 1, Len(calls)) ELSE calls

\* Mutant: the end of the dropped call's window is kept.
DroppedBy_WindowEnd(calls, times) == times[Last(calls)] + Window

DroppedBy(calls, times) ==
  LET dropped == {times[c] : c \in ToSet(calls) \ ToSet(Trimmed(calls))} \cup {droppedThrough}
  IN CHOOSE t \in dropped : \A u \in dropped : u <= t

--------------------------------------------------------------------------
(* The tool-list pin.                                                     *)

\* Mutant: the last list seen decides.
Learned_Last(list) ==
  [pin EXCEPT !.mismatchSeen = list # "pinned", !.verified = list = "pinned",
              !.verifiedAt = proxyClock]

\* learn: a full list that differs from the pin is remembered until restart.
Learned(list) ==
  LET seen == pin.mismatchSeen \/ list # "pinned"
  IN [pin EXCEPT !.mismatchSeen = seen, !.verified = ~seen, !.verifiedAt = proxyClock]

\* manifestVerified, where it needs no read: the answer it gives.
AnsweredAtOnce ==
  pin.mismatchSeen \/ pin.listing
    \/ (pin.verifiedAt # -1 /\ proxyClock - pin.verifiedAt < RecheckAfter)

KnownVerified == ~pin.mismatchSeen /\ ~pin.listing /\ pin.verified

--------------------------------------------------------------------------

ProxyInit ==
  /\ proxyClock = 0 /\ peakClock = 0
  /\ history = <<>> /\ droppedThrough = -1
  /\ call = [c \in ToolCalls |-> NewCall]
  /\ toolList = "pinned"
  /\ pin = [mismatchSeen |-> FALSE, verified |-> FALSE, verifiedAt |-> -1, listing |-> FALSE]

ClockMoves ==
  /\ proxyClock' \in {t \in ProxyTimes : t >= peakClock - Slack /\ t # proxyClock}
  /\ peakClock' = IF proxyClock' > peakClock THEN proxyClock' ELSE peakClock
  /\ UNCHANGED <<callVars, toolList, pin>>

\* The verdict and the place in the window, in one step, before anything awaits.
DecideCall(c) ==
  /\ call[c].stage = "new"
  /\ LET at == proxyClock
         kept == Pruned(at)
         held == ~RateViolated(kept, at)
         lost == HistoryLost(at)
         with == IF held THEN Append(kept, c) ELSE kept
         times == [k \in ToolCalls |-> IF k = c THEN at ELSE call[k].at]
     IN /\ history' = IF held /\ ~lost THEN Trimmed(with) ELSE with
        /\ droppedThrough' = IF held /\ ~lost THEN DroppedBy(with, times) ELSE droppedThrough
        /\ call' = [call EXCEPT ![c] =
             [stage |-> "listing", at |-> at, held |-> held, allowed |-> held /\ ~lost]]
  /\ UNCHANGED <<proxyClock, peakClock, toolList, pin>>

\* What the rest of handle goes by: the adapter binds a tool only under the pinned list.
Bound(c, verified) ==
  LET ok == call[c].allowed /\ verified
  IN [call EXCEPT ![c].stage = IF ok THEN "boundary" ELSE "receipt", ![c].allowed = ok]

\* manifestVerified answers from what is known, or starts to read the list.
CheckPin(c) ==
  /\ call[c].stage = "listing"
  /\ call' = IF AnsweredAtOnce THEN Bound(c, KnownVerified)
             ELSE [call EXCEPT ![c].stage = "deciding"]
  /\ UNCHANGED <<proxyClock, peakClock, history, droppedThrough, toolList, pin>>

\* The list arrives, as the upstream showed it to this read, or does not.
ListArrives(c) ==
  /\ call[c].stage = "deciding"
  /\ \E list \in {toolList, "none"} :
       /\ pin' = IF list = "none" THEN [pin EXCEPT !.verified = FALSE, !.verifiedAt = proxyClock]
                 ELSE Learned(list)
       /\ call' = Bound(c, pin'.verified)
  /\ UNCHANGED <<proxyClock, peakClock, history, droppedThrough, toolList>>

\* The dispatch boundary answers; one that throws refuses.
BoundaryAnswers(c) ==
  /\ call[c].stage = "boundary"
  /\ \E ok \in BOOLEAN : call' = [call EXCEPT ![c].stage = "receipt", ![c].allowed = ok]
  /\ UNCHANGED <<proxyClock, peakClock, history, droppedThrough, toolList, pin>>

\* Mutant: a refused call keeps its place.
GiveBack_Never(c) == history

\* A call that is not forwarded gives its place back.
GiveBack(c) == IF call[c].held THEN Keep(history, ToolCalls \ {c}) ELSE history

\* The receipt is signed and stored: an allowed call is forwarded, another is answered.
FinishCall(c) ==
  /\ call[c].stage = "receipt"
  /\ call' = [call EXCEPT ![c].stage = IF call[c].allowed THEN "forwarded" ELSE "refused"]
  /\ history' = IF call[c].allowed THEN history ELSE GiveBack(c)
  /\ UNCHANGED <<proxyClock, peakClock, droppedThrough, toolList, pin>>

\* The receipt cannot be built or stored: the request fails and is not forwarded.
ReceiptFails(c) ==
  /\ call[c].stage = "receipt"
  /\ call' = [call EXCEPT ![c].stage = "refused"]
  /\ history' = GiveBack(c)
  /\ UNCHANGED <<proxyClock, peakClock, droppedThrough, toolList, pin>>

\* The client lists the tools: the first page of more, or the last page, which completes the list.
ClientLists(last) ==
  /\ pin' = IF last THEN [Learned(toolList) EXCEPT !.listing = FALSE]
            ELSE [pin EXCEPT !.listing = TRUE]
  /\ pin' # pin
  /\ UNCHANGED <<proxyClock, peakClock, callVars, toolList>>

\* A list of too many pages, or a page that is no list: nothing is learned from it.
ClientListingFails ==
  /\ pin.listing
  /\ pin' \in {[pin EXCEPT !.listing = FALSE],
               [pin EXCEPT !.listing = FALSE, !.verified = FALSE, !.verifiedAt = proxyClock]}
  /\ UNCHANGED <<proxyClock, peakClock, callVars, toolList>>

UpstreamChanges ==
  /\ toolList' = IF toolList = "pinned" THEN "other" ELSE "pinned"
  /\ UNCHANGED <<proxyClock, peakClock, callVars, pin>>

ProxyNext ==
  \/ ClockMoves \/ UpstreamChanges \/ ClientListingFails
  \/ \E last \in BOOLEAN : ClientLists(last)
  \/ \E c \in ToolCalls :
       \/ DecideCall(c) \/ CheckPin(c) \/ ListArrives(c) \/ BoundaryAnswers(c)
       \/ FinishCall(c) \/ ReceiptFails(c)

ProxySpec == ProxyInit /\ [][ProxyNext]_proxyVars

--------------------------------------------------------------------------
(* Properties.                                                            *)

ProxyTypeOK ==
  /\ proxyClock \in ProxyTimes /\ peakClock \in ProxyTimes
  /\ history \in Seq(ToolCalls) /\ droppedThrough \in ProxyTimes \cup {-1}
  /\ call \in [ToolCalls -> [stage : Stages, at : ProxyTimes, held : BOOLEAN, allowed : BOOLEAN]]
  /\ toolList \in {"pinned", "other"}
  /\ pin \in [mismatchSeen : BOOLEAN, verified : BOOLEAN, verifiedAt : ProxyTimes \cup {-1},
              listing : BOOLEAN]

\* The calls that run, or may still: every call that took a place and was not refused.
Counting == {c \in ToolCalls : call[c].held /\ call[c].stage \notin {"new", "refused"}}

\* "The bound never lets through more than the policy allows" (history-limit.ts:5) and "a clock
\* that steps back a little does not lose calls a decision still counts" (proxy.ts:197-198): a call
\* that policy lets through is within the limit over every call that ran or is still in flight,
\* however much of the history was pruned or dropped.
DecidedOnWholeHistory ==
  [][\A c \in ToolCalls :
       call[c].stage = "new" /\ call'[c].stage # "new" /\ call'[c].allowed =>
         Cardinality({k \in Counting : InWindow(call[k].at, proxyClock)}) < MaxCount]_proxyVars

\* "A call that is then not forwarded gives its place back" (proxy.ts:293-294): what later calls
\* are counted against ran or is in flight, each once, whatever order the calls ended in.
OnlyLiveCallsCount ==
  /\ ToSet(history) \subseteq Counting
  /\ \A i, j \in DOMAIN history : history[i] = history[j] => i = j

\* "An upstream that has ever shown a different list cannot become verified again"
\* (proxy.ts:214-216): once one was learned, no check of the pin that is then made, or under way,
\* lets a call on.
MismatchIsFinal ==
  [][pin.mismatchSeen =>
       /\ pin'.mismatchSeen
       /\ \A c \in ToolCalls :
            call[c].stage \in {"listing", "deciding"} => call'[c].stage # "boundary"]_proxyVars
=============================================================================
