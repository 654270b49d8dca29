--------------------------- MODULE McpProxyProofs ---------------------------
(***************************************************************************)
(* Theorems about McpProxy, for any tool calls, window, limit, bound of    *)
(* the history and size of the clock's steps back.                         *)
(***************************************************************************)
EXTENDS McpProxy, SubsequencesProofs

(* The clock is never far behind its highest value, and no call was        *)
(* decided after it.                                                       *)
ClockInv ==
  /\ peakClock - Slack <= proxyClock /\ proxyClock <= peakClock
  /\ \A c \in ToolCalls : call[c].stage # "new" => call[c].at <= peakClock

(* What counts and is not in the history was pruned, and is then out of    *)
(* every window still to come, or was dropped, and is then no newer than   *)
(* what the history remembers of that.                                     *)
Remembered ==
  \A c \in Counting \ ToSet(history) :
    \/ call[c].at <= peakClock - Window - Slack
    \/ call[c].at <= droppedThrough

ProxyInv == ProxyTypeOK /\ OnlyLiveCallsCount /\ ClockInv /\ Remembered

-----------------------------------------------------------------------------
(* The operators of the history.                                           *)

LEMMA HistoryOnce == OnlyLiveCallsCount => IsInjective(history)
BY DEF OnlyLiveCallsCount, IsInjective

(* What a call that is not forwarded leaves behind.                        *)
LEMMA GivenBack ==
  ASSUME ProxyTypeOK, OnlyLiveCallsCount, NEW c \in ToolCalls
  PROVE  /\ GiveBack(c) \in Seq(ToolCalls) /\ IsInjective(GiveBack(c))
         /\ ToSet(GiveBack(c)) = ToSet(history) \ {c}
<1>1. history \in Seq(ToolCalls) /\ IsInjective(history)  BY HistoryOnce DEF ProxyTypeOK
<1>2. CASE ~call[c].held
  <2>1. c \notin ToSet(history)  BY <1>2 DEF OnlyLiveCallsCount, Counting
  <2> QED  BY <1>1, <1>2, <2>1 DEF GiveBack
<1>3. CASE call[c].held
  <2>1. GiveBack(c) = Keep(history, ToolCalls \ {c})  BY <1>3 DEF GiveBack
  <2>2. ToSet(history) \subseteq ToolCalls  BY <1>1 DEF ToSet
  <2> QED  BY <1>1, <2>1, <2>2, KeepCorrect
<1> QED  BY <1>2, <1>3

LEMMA TrimmedKeeps ==
  ASSUME NEW calls \in Seq(ToolCalls), IsInjective(calls)
  PROVE  /\ Trimmed(calls) \in Seq(ToolCalls) /\ IsInjective(Trimmed(calls))
         /\ ToSet(Trimmed(calls)) \subseteq ToSet(calls)
<1>1. CASE Len(calls) <= HistoryCap
  BY <1>1, ProxyAssumption DEF Trimmed
<1>2. CASE Len(calls) > HistoryCap
  <2> DEFINE d == Len(calls) - HistoryCap  t == SubSeq(calls, d + 1, Len(calls))
  <2>1. d \in Nat /\ d + 1 \in 1..Len(calls)  BY <1>2, ProxyAssumption
  <2>2. Trimmed(calls) = t  BY <1>2 DEF Trimmed
  <2>3. /\ t \in Seq(ToolCalls) /\ DOMAIN t = 1..(Len(calls) - d)
        /\ \A i \in 1..(Len(calls) - d) : t[i] = calls[d + i]
    BY <2>1, ProxyAssumption
  <2>4. \A i \in 1..(Len(calls) - d) : d + i \in DOMAIN calls  BY <2>1
  <2> HIDE DEF t
  <2>5. ToSet(t) \subseteq ToSet(calls)  BY <2>3, <2>4 DEF ToSet
  <2>6. ASSUME NEW i \in DOMAIN t, NEW j \in DOMAIN t, t[i] = t[j]  PROVE i = j
    <3>1. d + i = d + j  BY <2>3, <2>4, <2>6 DEF IsInjective
    <3> QED  BY <2>1, <2>3, <3>1
  <2>7. IsInjective(t)  BY <2>6 DEF IsInjective
  <2> QED  BY <2>2, <2>3, <2>5, <2>7
<1> QED  BY <1>1, <1>2, ProxyAssumption

(* DroppedBy is the newest time that was ever dropped.                     *)
LEMMA NewestDropped ==
  ASSUME ProxyTypeOK, NEW calls \in Seq(ToolCalls), NEW times \in [ToolCalls -> ProxyTimes]
  PROVE  /\ DroppedBy(calls, times) \in ProxyTimes \cup {-1}
         /\ droppedThrough <= DroppedBy(calls, times)
         /\ \A c \in ToSet(calls) \ ToSet(Trimmed(calls)) : times[c] <= DroppedBy(calls, times)
<1> DEFINE dropped == {times[c] : c \in ToSet(calls) \ ToSet(Trimmed(calls))}
                        \cup {droppedThrough}
<1>1. ToSet(calls) \subseteq ToolCalls  BY DEF ToSet
<1>2. dropped \in SUBSET (ProxyTimes \cup {-1})  BY <1>1 DEF ProxyTypeOK
<1>3. MaxProxyTime \in Nat  BY ProxyAssumption
<1>4. \E t \in dropped : \A u \in dropped : u <= t
  <2> DEFINE ago == {MaxProxyTime - t : t \in dropped}
  <2>1. ago \in SUBSET Nat
    <3> HIDE DEF dropped
    <3>1. \A t \in dropped : MaxProxyTime - t \in Nat  BY <1>2, <1>3 DEF ProxyTimes
    <3> QED  BY <3>1
  <2>2. PICK m \in ago : \A k \in ago : m <= k
    <3>1. ago # {}  OBVIOUS
    <3> HIDE DEF ago
    <3> QED  BY <2>1, <3>1, LeastNumber
  <2>3. PICK t \in dropped : m = MaxProxyTime - t
    <3>1. m \in {MaxProxyTime - t : t \in dropped}  OBVIOUS
    <3> HIDE DEF dropped
    <3> QED  BY <3>1
  <2>4. ASSUME NEW u \in dropped  PROVE u <= t
    <3>1. MaxProxyTime - u \in ago  OBVIOUS
    <3>2. MaxProxyTime - t <= MaxProxyTime - u  BY <2>2, <2>3, <3>1
    <3>3. t \in Int /\ u \in Int  BY <1>2 DEF ProxyTimes
    <3> QED  BY <1>3, <3>2, <3>3
  <2> QED  BY <2>4
<1>5. DroppedBy(calls, times) \in dropped
        /\ \A u \in dropped : u <= DroppedBy(calls, times)
  <2>1. DroppedBy(calls, times) = CHOOSE t \in dropped : \A u \in dropped : u <= t
    BY DEF DroppedBy
  <2> HIDE DEF dropped
  <2> QED  BY <1>4, <2>1
<1> QED  BY <1>2, <1>5

-----------------------------------------------------------------------------
(* What deciding a call does to the history.                               *)
LEMMA DecideShape ==
  ASSUME ProxyInv, NEW c \in ToolCalls, DecideCall(c)
  PROVE  \E held, lost \in BOOLEAN :
           /\ call' = [call EXCEPT ![c] = [stage |-> "listing", at |-> proxyClock,
                                           held |-> held, allowed |-> held /\ ~lost]]
           /\ held = ~RateViolated(Pruned(proxyClock), proxyClock)
           /\ lost = HistoryLost(proxyClock)
           /\ history' \in Seq(ToolCalls) /\ IsInjective(history')
           /\ droppedThrough' \in ProxyTimes \cup {-1} /\ droppedThrough <= droppedThrough'
           /\ ToSet(history') \subseteq (ToSet(history) \cup (IF held THEN {c} ELSE {}))
           /\ \A k \in ToSet(history) \ ToSet(history') :
                \/ call[k].at <= proxyClock - Window - Slack
                \/ call[k].at <= droppedThrough'
           /\ held /\ c \notin ToSet(history') => proxyClock <= droppedThrough'
<1> DEFINE at == proxyClock
           kept == Pruned(at)
           held == ~RateViolated(kept, at)
           lost == HistoryLost(at)
           with == IF held THEN Append(kept, c) ELSE kept
           times == [k \in ToolCalls |-> IF k = c THEN at ELSE call[k].at]
<1>1. /\ history' = IF held /\ ~lost THEN Trimmed(with) ELSE with
      /\ droppedThrough' = IF held /\ ~lost THEN DroppedBy(with, times) ELSE droppedThrough
      /\ call' = [call EXCEPT ![c] =
                    [stage |-> "listing", at |-> at, held |-> held, allowed |-> held /\ ~lost]]
      /\ call[c].stage = "new"
  BY DEF DecideCall
<1>2. history \in Seq(ToolCalls) /\ IsInjective(history)
  BY HistoryOnce DEF ProxyInv, ProxyTypeOK
<1>3. c \notin ToSet(history)  BY <1>1 DEF ProxyInv, OnlyLiveCallsCount, Counting
<1>4. ToSet(history) \subseteq ToolCalls  BY <1>2 DEF ToSet
<1>5. /\ kept \in Seq(ToolCalls) /\ IsInjective(kept)
      /\ ToSet(kept) = {k \in ToSet(history) : call[k].at > at - (Window + Slack)}
  BY <1>2, <1>4, KeepCorrect DEF Pruned, BoundPrior
<1>6. held \in BOOLEAN /\ lost \in BOOLEAN  BY DEF RateViolated, HistoryLost
<1>7. times \in [ToolCalls -> ProxyTimes]  BY DEF ProxyInv, ProxyTypeOK
<1> HIDE DEF kept, held, lost
<1>8. /\ with \in Seq(ToolCalls) /\ IsInjective(with)
      /\ ToSet(with) = ToSet(kept) \cup (IF held THEN {c} ELSE {})
  <2>1. CASE ~held  BY <1>5, <2>1
  <2>2. CASE held
    <3> DEFINE a == Append(kept, c)
    <3>1. with = a  BY <2>2
    <3>2. /\ a \in Seq(ToolCalls) /\ Len(kept) \in Nat /\ DOMAIN kept = 1..Len(kept)
          /\ DOMAIN a = 1..(Len(kept) + 1)
          /\ \A i \in 1..Len(kept) : a[i] = kept[i]
          /\ a[Len(kept) + 1] = c
      BY <1>5
    <3> HIDE DEF a, with
    <3>3. \A i \in DOMAIN a : i \in DOMAIN kept \/ i = Len(kept) + 1  BY <3>2
    <3>4. Len(kept) + 1 \in DOMAIN a /\ DOMAIN kept \subseteq DOMAIN a  BY <3>2
    <3>5. ToSet(a) = ToSet(kept) \cup {c}
      <4>1. \A x : x \in ToSet(a) <=> x \in ToSet(kept) \/ x = c
        BY <3>2, <3>3, <3>4 DEF ToSet
      <4> QED  BY <4>1
    <3>6. c \notin ToSet(kept)  BY <1>3, <1>5
    <3>7. \A i \in DOMAIN kept : kept[i] # c  BY <3>6 DEF ToSet
    <3>8. IsInjective(a)  BY <1>5, <3>2, <3>3, <3>7 DEF IsInjective
    <3> QED  BY <2>2, <3>1, <3>2, <3>5, <3>8
  <2> QED  BY <1>6, <2>1, <2>2
<1> HIDE DEF with, times
<1>9. droppedThrough \in ProxyTimes \cup {-1} /\ droppedThrough <= droppedThrough
  BY ProxyAssumption DEF ProxyInv, ProxyTypeOK, ProxyTimes
<1>10. /\ history' \in Seq(ToolCalls) /\ IsInjective(history')
       /\ ToSet(history') \subseteq ToSet(with)
       /\ droppedThrough' \in ProxyTimes \cup {-1} /\ droppedThrough <= droppedThrough'
       /\ \A k \in ToSet(with) \ ToSet(history') : times[k] <= droppedThrough'
  <2>1. CASE held /\ ~lost
    BY <1>1, <1>7, <1>8, <2>1, TrimmedKeeps, NewestDropped DEF ProxyInv
  <2>2. CASE ~(held /\ ~lost)
    BY <1>1, <1>8, <1>9, <2>2
  <2> QED  BY <2>1, <2>2
<1>11. ASSUME NEW k \in ToSet(history) \ ToSet(history')
       PROVE  \/ call[k].at <= proxyClock - Window - Slack
              \/ call[k].at <= droppedThrough'
  <2>1. k \in ToolCalls /\ k # c  BY <1>3, <1>4
  <2>2. call[k].at \in ProxyTimes /\ times[k] = call[k].at
    BY <2>1 DEF times, ProxyInv, ProxyTypeOK
  <2>3. CASE k \in ToSet(kept)  BY <1>8, <1>10, <2>2, <2>3
  <2>4. CASE k \notin ToSet(kept)
    <3>1. ~(call[k].at > at - (Window + Slack))  BY <1>5, <2>4
    <3>2. at \in Int /\ call[k].at \in Int /\ Window \in Int /\ Slack \in Int
      BY <2>2, ProxyAssumption DEF ProxyInv, ProxyTypeOK, ProxyTimes
    <3> QED  BY <3>1, <3>2
  <2> QED  BY <2>3, <2>4
<1>12. held /\ c \notin ToSet(history') => proxyClock <= droppedThrough'
  <2>1. times[c] = proxyClock  BY DEF times
  <2> QED  BY <1>8, <1>10, <2>1
<1>13. ToSet(history') \subseteq (ToSet(history) \cup (IF held THEN {c} ELSE {}))
  BY <1>5, <1>8, <1>10
<1>14. held = ~RateViolated(Pruned(proxyClock), proxyClock) /\ lost = HistoryLost(proxyClock)
  BY DEF held, lost, kept
<1> QED  BY <1>1, <1>6, <1>10, <1>11, <1>12, <1>13, <1>14

-----------------------------------------------------------------------------
(* The other steps of a call: it moves on and keeps what it counted, or it *)
(* is refused and gives its place back.                                    *)
MovesOn(c) ==
  /\ call[c].stage \notin {"new", "refused"}
  /\ \E stage \in Stages \ {"new", "refused"}, ok \in BOOLEAN :
       call' = [call EXCEPT ![c] = [@ EXCEPT !.stage = stage, !.allowed = ok]]
  /\ UNCHANGED history

GivesUp(c) ==
  /\ call[c].stage \notin {"new", "refused"}
  /\ \E ok \in BOOLEAN :
       call' = [call EXCEPT ![c] = [@ EXCEPT !.stage = "refused", !.allowed = ok]]
  /\ history' = GiveBack(c)

CallStep(c) ==
  CheckPin(c) \/ ListArrives(c) \/ BoundaryAnswers(c) \/ FinishCall(c) \/ ReceiptFails(c)

LEMMA SetFields ==
  ASSUME NEW f \in [ToolCalls -> [stage : Stages, at : ProxyTimes, held : BOOLEAN,
                                  allowed : BOOLEAN]],
         NEW c \in ToolCalls, NEW stage \in Stages
  PROVE  [f EXCEPT ![c].stage = stage]
           = [f EXCEPT ![c] = [@ EXCEPT !.stage = stage, !.allowed = f[c].allowed]]
<1>1. f[c] \in [stage : Stages, at : ProxyTimes, held : BOOLEAN, allowed : BOOLEAN]  OBVIOUS
<1>2. [f[c] EXCEPT !.stage = stage] = [f[c] EXCEPT !.stage = stage, !.allowed = f[c].allowed]
  BY <1>1
<1> QED  BY <1>2

(* The pin stays well-typed, and a list that was ever different stays so.  *)
PinStep ==
  /\ pin' \in [mismatchSeen : BOOLEAN, verified : BOOLEAN, verifiedAt : ProxyTimes \cup {-1},
               listing : BOOLEAN]
  /\ pin.mismatchSeen => pin'.mismatchSeen

LEMMA LearnedType ==
  ASSUME ProxyTypeOK, NEW list
  PROVE  /\ Learned(list) \in [mismatchSeen : BOOLEAN, verified : BOOLEAN,
                               verifiedAt : ProxyTimes \cup {-1}, listing : BOOLEAN]
         /\ pin.mismatchSeen => Learned(list).mismatchSeen /\ ~Learned(list).verified
<1> DEFINE seen == pin.mismatchSeen \/ list # "pinned"
<1>1. seen \in BOOLEAN /\ (~seen) \in BOOLEAN /\ (pin.mismatchSeen => seen)  OBVIOUS
<1>2. Learned(list) = [pin EXCEPT !.mismatchSeen = seen, !.verified = ~seen,
                                  !.verifiedAt = proxyClock]
  BY DEF Learned
<1> HIDE DEF seen
<1>3. Learned(list).mismatchSeen = seen /\ Learned(list).verified = ~seen
  BY <1>2 DEF ProxyTypeOK
<1>4. Learned(list) \in [mismatchSeen : BOOLEAN, verified : BOOLEAN,
                         verifiedAt : ProxyTimes \cup {-1}, listing : BOOLEAN]
  BY <1>1, <1>2 DEF ProxyTypeOK
<1>5. pin.mismatchSeen => Learned(list).mismatchSeen /\ ~Learned(list).verified
  BY <1>1, <1>3
<1> QED  BY <1>4, <1>5

LEMMA PinMoves ==
  ASSUME ProxyTypeOK, ProxyNext
  PROVE  PinStep
<1>1. CASE UNCHANGED pin  BY <1>1 DEF PinStep, ProxyTypeOK
<1>2. ASSUME NEW last \in BOOLEAN, ClientLists(last)  PROVE PinStep
  <2>1. CASE last
    <3> DEFINE l == Learned(toolList)
    <3>1. pin' = [l EXCEPT !.listing = FALSE]  BY <1>2, <2>1 DEF ClientLists
    <3>2. /\ l \in [mismatchSeen : BOOLEAN, verified : BOOLEAN,
                    verifiedAt : ProxyTimes \cup {-1}, listing : BOOLEAN]
          /\ pin.mismatchSeen => l.mismatchSeen
      BY LearnedType
    <3> HIDE DEF l
    <3> QED  BY <3>1, <3>2 DEF PinStep
  <2>2. CASE ~last
    <3>1. pin' = [pin EXCEPT !.listing = TRUE]  BY <1>2, <2>2 DEF ClientLists
    <3> QED  BY <3>1 DEF PinStep, ProxyTypeOK
  <2> QED  BY <1>2, <2>1, <2>2
<1>3. CASE ClientListingFails
  BY <1>3 DEF ClientListingFails, PinStep, ProxyTypeOK
<1>4. ASSUME NEW c \in ToolCalls, ListArrives(c)  PROVE PinStep
  <2>1. PICK list : pin' = IF list = "none"
                           THEN [pin EXCEPT !.verified = FALSE, !.verifiedAt = proxyClock]
                           ELSE Learned(list)
    BY <1>4 DEF ListArrives
  <2>2. CASE list = "none"  BY <2>1, <2>2 DEF PinStep, ProxyTypeOK
  <2>3. CASE list # "none"  BY <2>1, <2>3, LearnedType DEF PinStep
  <2> QED  BY <2>2, <2>3
<1> QED
  BY <1>1, <1>2, <1>3, <1>4 DEF ProxyNext, ClockMoves, UpstreamChanges, DecideCall, CheckPin,
     BoundaryAnswers, FinishCall, ReceiptFails

LEMMA CallShapes ==
  ASSUME ProxyTypeOK, NEW c \in ToolCalls, CallStep(c)
  PROVE  (MovesOn(c) \/ GivesUp(c)) /\ UNCHANGED <<proxyClock, peakClock, droppedThrough, toolList>>
<1>1. UNCHANGED <<proxyClock, peakClock, droppedThrough, toolList>>
  BY DEF CallStep, CheckPin, ListArrives, BoundaryAnswers, FinishCall, ReceiptFails
<1> SUFFICES MovesOn(c) \/ GivesUp(c)  BY <1>1
<1>2. /\ call \in [ToolCalls -> [stage : Stages, at : ProxyTimes, held : BOOLEAN,
                                 allowed : BOOLEAN]]
      /\ call[c].allowed \in BOOLEAN
  BY DEF ProxyTypeOK
<1>3. ASSUME NEW verified \in BOOLEAN, call' = Bound(c, verified), UNCHANGED history,
             call[c].stage \in {"listing", "deciding"}
      PROVE  MovesOn(c)
  <2> DEFINE ok == call[c].allowed /\ verified
             stage == IF ok THEN "boundary" ELSE "receipt"
  <2>1. ok \in BOOLEAN /\ stage \in Stages \ {"new", "refused"}  BY DEF Stages
  <2>2. call' = [call EXCEPT ![c] = [@ EXCEPT !.stage = stage, !.allowed = ok]]
    BY <1>3 DEF Bound
  <2> HIDE DEF ok, stage
  <2> QED  BY <1>3, <2>1, <2>2 DEF MovesOn
<1>4. ASSUME NEW stage \in Stages \ {"new", "refused"}, call' = [call EXCEPT ![c].stage = stage],
             UNCHANGED history, call[c].stage \notin {"new", "refused"}
      PROVE  MovesOn(c)
  <2>1. call' = [call EXCEPT ![c] = [@ EXCEPT !.stage = stage, !.allowed = call[c].allowed]]
    BY <1>2, <1>4, SetFields
  <2> QED  BY <1>2, <1>4, <2>1 DEF MovesOn
<1>5. ASSUME call' = [call EXCEPT ![c].stage = "refused"], history' = GiveBack(c),
             call[c].stage \notin {"new", "refused"}
      PROVE  GivesUp(c)
  <2>1. "refused" \in Stages  BY DEF Stages
  <2> QED  BY <1>2, <1>5, <2>1, SetFields DEF GivesUp
<1>6. CASE CheckPin(c)
  <2>1. KnownVerified \in BOOLEAN  BY DEF KnownVerified
  <2>2. "deciding" \in Stages \ {"new", "refused"}  BY DEF Stages
  <2> QED  BY <1>3, <1>4, <1>6, <2>1, <2>2 DEF CheckPin
<1>7. CASE ListArrives(c)
  <2>1. pin'.verified \in BOOLEAN
    <3>1. ProxyNext  BY <1>7 DEF ProxyNext
    <3> QED  BY <3>1, PinMoves DEF PinStep
  <2> QED  BY <1>3, <1>7, <2>1 DEF ListArrives
<1>8. CASE BoundaryAnswers(c)
  <2>1. "receipt" \in Stages \ {"new", "refused"}  BY DEF Stages
  <2>2. PICK ok \in BOOLEAN : call' = [call EXCEPT ![c].stage = "receipt", ![c].allowed = ok]
    BY <1>8 DEF BoundaryAnswers
  <2>3. call' = [call EXCEPT ![c] = [@ EXCEPT !.stage = "receipt", !.allowed = ok]]
    BY <1>2, <2>2
  <2>4. call[c].stage = "boundary" /\ UNCHANGED history  BY <1>8 DEF BoundaryAnswers
  <2> QED  BY <2>1, <2>3, <2>4 DEF MovesOn
<1>9. CASE FinishCall(c)
  <2>1. "forwarded" \in Stages \ {"new", "refused"}  BY DEF Stages
  <2> QED  BY <1>2, <1>4, <1>5, <1>9, <2>1 DEF FinishCall
<1>10. CASE ReceiptFails(c)  BY <1>5, <1>10 DEF ReceiptFails
<1> QED  BY <1>6, <1>7, <1>8, <1>9, <1>10 DEF CallStep

-----------------------------------------------------------------------------
LEMMA InitProxyInv == ProxyInit => ProxyInv
<1> SUFFICES ASSUME ProxyInit  PROVE ProxyInv  OBVIOUS
<1>1. 0 \in ProxyTimes /\ "new" \in Stages  BY ProxyAssumption DEF ProxyTimes, Stages
<1>2. ToSet(history) = {} /\ history \in Seq(ToolCalls) /\ DOMAIN history = {}
  BY DEF ProxyInit, ToSet
<1>3. Counting = {}  BY DEF ProxyInit, NewCall, Counting
<1>4. ProxyTypeOK  BY <1>1, <1>2 DEF ProxyInit, NewCall, ProxyTypeOK
<1>5. ClockInv  BY ProxyAssumption DEF ProxyInit, NewCall, ClockInv
<1>6. OnlyLiveCallsCount  BY <1>2, <1>3 DEF OnlyLiveCallsCount
<1>7. Remembered  BY <1>3 DEF Remembered
<1> QED  BY <1>4, <1>5, <1>6, <1>7 DEF ProxyInv

LEMMA DecideKeepsInv ==
  ASSUME ProxyInv, PinStep, NEW c \in ToolCalls, DecideCall(c)
  PROVE  ProxyInv'
<1>1. PICK held \in BOOLEAN, lost \in BOOLEAN :
        /\ call' = [call EXCEPT ![c] = [stage |-> "listing", at |-> proxyClock,
                                        held |-> held, allowed |-> held /\ ~lost]]
        /\ history' \in Seq(ToolCalls) /\ IsInjective(history')
        /\ droppedThrough' \in ProxyTimes \cup {-1} /\ droppedThrough <= droppedThrough'
        /\ ToSet(history') \subseteq (ToSet(history) \cup (IF held THEN {c} ELSE {}))
        /\ \A k \in ToSet(history) \ ToSet(history') :
             \/ call[k].at <= proxyClock - Window - Slack
             \/ call[k].at <= droppedThrough'
        /\ held /\ c \notin ToSet(history') => proxyClock <= droppedThrough'
  BY DecideShape
<1>2. call[c].stage = "new" /\ UNCHANGED <<proxyClock, peakClock, toolList>>  BY DEF DecideCall
<1>3. /\ ProxyTypeOK /\ OnlyLiveCallsCount /\ ClockInv /\ Remembered
      /\ call \in [ToolCalls -> [stage : Stages, at : ProxyTimes, held : BOOLEAN,
                                 allowed : BOOLEAN]]
  BY DEF ProxyInv, ProxyTypeOK
<1>4. /\ call'[c].stage = "listing" /\ call'[c].at = proxyClock /\ call'[c].held = held
      /\ \A k \in ToolCalls \ {c} : call'[k] = call[k]
  BY <1>1, <1>3
<1>5. Counting' = Counting \cup (IF held THEN {c} ELSE {})
  <2>1. c \notin Counting  BY <1>2 DEF Counting
  <2>2. c \in Counting' <=> held  BY <1>4 DEF Counting
  <2>3. \A k \in ToolCalls \ {c} : k \in Counting' <=> k \in Counting  BY <1>4 DEF Counting
  <2>4. Counting \subseteq ToolCalls /\ Counting' \subseteq ToolCalls  BY DEF Counting
  <2> QED  BY <2>1, <2>2, <2>3, <2>4
<1>6. ProxyTypeOK'
  <2>1. call' \in [ToolCalls -> [stage : Stages, at : ProxyTimes, held : BOOLEAN,
                                 allowed : BOOLEAN]]
    <3>1. "listing" \in Stages /\ (held /\ ~lost) \in BOOLEAN /\ proxyClock \in ProxyTimes
      BY <1>3 DEF Stages, ProxyTypeOK
    <3> QED  BY <1>1, <1>3, <3>1
  <2> QED  BY <1>1, <1>2, <1>3, <2>1 DEF ProxyTypeOK, PinStep
<1>7. OnlyLiveCallsCount'
  BY <1>1, <1>3, <1>5 DEF OnlyLiveCallsCount, IsInjective
<1>8. ClockInv'
  <2>1. proxyClock <= peakClock  BY <1>3 DEF ClockInv
  <2> QED  BY <1>2, <1>3, <1>4, <2>1 DEF ClockInv
<1>9. Remembered'
  <2> SUFFICES ASSUME NEW k \in Counting' \ ToSet(history')
               PROVE  \/ call'[k].at <= peakClock - Window - Slack
                      \/ call'[k].at <= droppedThrough'
    BY <1>2 DEF Remembered
  <2>1. /\ k \in ToolCalls /\ call[k].at \in Int /\ droppedThrough \in Int
        /\ droppedThrough' \in Int /\ peakClock \in Int /\ proxyClock \in Int
        /\ Window \in Int /\ Slack \in Int /\ proxyClock <= peakClock
    BY <1>1, <1>3, ProxyAssumption DEF Counting, ProxyTypeOK, ProxyTimes, ClockInv
  <2>2. CASE k = c
    <3>1. held  BY <1>4, <2>2 DEF Counting
    <3> QED  BY <1>1, <1>4, <2>2, <3>1
  <2>3. CASE k # c
    <3>1. k \in Counting /\ call'[k] = call[k]  BY <1>4, <1>5, <2>1, <2>3
    <3>2. CASE k \in ToSet(history)
      <4>1. \/ call[k].at <= proxyClock - Window - Slack
            \/ call[k].at <= droppedThrough'
        BY <1>1, <3>2
      <4> QED  BY <2>1, <3>1, <4>1
    <3>3. CASE k \notin ToSet(history)
      <4>1. call[k].at <= peakClock - Window - Slack \/ call[k].at <= droppedThrough
        BY <1>3, <3>1, <3>3 DEF Remembered
      <4> QED  BY <1>1, <2>1, <3>1, <4>1
    <3> QED  BY <3>2, <3>3
  <2> QED  BY <2>2, <2>3
<1> QED  BY <1>6, <1>7, <1>8, <1>9 DEF ProxyInv

LEMMA CallKeepsInv ==
  ASSUME ProxyInv, PinStep, NEW c \in ToolCalls, CallStep(c)
  PROVE  ProxyInv'
<1>1. /\ ProxyTypeOK /\ OnlyLiveCallsCount /\ ClockInv /\ Remembered
      /\ call \in [ToolCalls -> [stage : Stages, at : ProxyTimes, held : BOOLEAN,
                                 allowed : BOOLEAN]]
  BY DEF ProxyInv, ProxyTypeOK
<1>2. /\ MovesOn(c) \/ GivesUp(c)
      /\ UNCHANGED <<proxyClock, peakClock, droppedThrough, toolList>>
  BY <1>1, CallShapes
<1>3. PICK stage \in Stages \ {"new"}, ok \in BOOLEAN :
        /\ call' = [call EXCEPT ![c] = [@ EXCEPT !.stage = stage, !.allowed = ok]]
        /\ IF stage = "refused" THEN history' = GiveBack(c) ELSE UNCHANGED history
  <2>1. "refused" \in Stages \ {"new"}  BY DEF Stages
  <2> QED  BY <1>2, <2>1 DEF MovesOn, GivesUp
<1>4. call[c].stage \notin {"new", "refused"}  BY <1>2 DEF MovesOn, GivesUp
<1>5. /\ call' \in [ToolCalls -> [stage : Stages, at : ProxyTimes, held : BOOLEAN,
                                  allowed : BOOLEAN]]
      /\ call'[c].stage = stage /\ call'[c].at = call[c].at /\ call'[c].held = call[c].held
      /\ \A k \in ToolCalls \ {c} : call'[k] = call[k]
  BY <1>1, <1>3
<1>6. /\ history' \in Seq(ToolCalls) /\ IsInjective(history')
      /\ ToSet(history') = ToSet(history) \ (IF stage = "refused" THEN {c} ELSE {})
  <2>1. history \in Seq(ToolCalls) /\ IsInjective(history)  BY <1>1, HistoryOnce DEF ProxyTypeOK
  <2> QED  BY <1>1, <1>3, <2>1, GivenBack
<1>7. Counting' = Counting \ (IF stage = "refused" THEN {c} ELSE {})
  <2>1. c \in Counting' <=> c \in Counting /\ stage # "refused"  BY <1>3, <1>4, <1>5 DEF Counting
  <2>2. \A k \in ToolCalls \ {c} : k \in Counting' <=> k \in Counting  BY <1>5 DEF Counting
  <2>3. Counting \subseteq ToolCalls /\ Counting' \subseteq ToolCalls  BY DEF Counting
  <2> QED  BY <2>1, <2>2, <2>3
<1>8. ProxyTypeOK'  BY <1>1, <1>2, <1>5, <1>6 DEF ProxyTypeOK, PinStep
<1>9. OnlyLiveCallsCount'
  BY <1>1, <1>6, <1>7 DEF OnlyLiveCallsCount, IsInjective
<1>10. ClockInv'  BY <1>1, <1>2, <1>4, <1>5 DEF ClockInv
<1>11. Remembered'
  <2>1. \A k \in ToolCalls : call'[k].at = call[k].at  BY <1>5
  <2>2. Counting' \ ToSet(history') \subseteq Counting \ ToSet(history)  BY <1>6, <1>7
  <2>3. Counting \subseteq ToolCalls  BY DEF Counting
  <2> QED  BY <1>1, <1>2, <2>1, <2>2, <2>3 DEF Remembered
<1> QED  BY <1>8, <1>9, <1>10, <1>11 DEF ProxyInv

LEMMA ClockKeepsInv ==
  ASSUME ProxyInv, PinStep, ClockMoves
  PROVE  ProxyInv'
<1>1. /\ proxyClock' \in ProxyTimes /\ proxyClock' >= peakClock - Slack
      /\ peakClock' = IF proxyClock' > peakClock THEN proxyClock' ELSE peakClock
      /\ UNCHANGED <<history, droppedThrough, call, toolList>>
  BY DEF ClockMoves, callVars
<1>2. /\ ProxyTypeOK /\ OnlyLiveCallsCount /\ ClockInv /\ Remembered
      /\ peakClock \in Int /\ proxyClock' \in Int /\ Window \in Int /\ Slack \in Nat
  BY <1>1, ProxyAssumption DEF ProxyInv, ProxyTypeOK, ProxyTimes
<1>3. peakClock <= peakClock' /\ peakClock' \in Int  BY <1>1, <1>2
<1>4. ProxyTypeOK'  BY <1>1, <1>2 DEF ProxyTypeOK, PinStep
<1>5. OnlyLiveCallsCount' /\ Counting' = Counting
  BY <1>1, <1>2 DEF OnlyLiveCallsCount, Counting
<1>6. ClockInv'
  <2>1. peakClock' - Slack <= proxyClock' /\ proxyClock' <= peakClock'
    <3> DEFINE now == proxyClock'  peak == peakClock'
    <3>1. /\ peak = IF now > peakClock THEN now ELSE peakClock
          /\ now >= peakClock - Slack /\ now \in Int /\ peakClock \in Int /\ Slack \in Nat
      BY <1>1, <1>2
    <3> HIDE DEF now, peak
    <3>2. peak - Slack <= now /\ now <= peak  BY <3>1
    <3> QED  BY <3>2 DEF now, peak
  <2>2. \A c \in ToolCalls : call[c].stage # "new" => call[c].at <= peakClock'
    <3>1. \A c \in ToolCalls : call[c].at \in Int  BY <1>2 DEF ProxyTypeOK, ProxyTimes
    <3> QED  BY <1>2, <1>3, <3>1 DEF ClockInv
  <2> QED  BY <1>1, <2>1, <2>2 DEF ClockInv
<1>7. Remembered'
  <2>1. \A c \in Counting : call[c].at \in Int
    BY <1>2 DEF ProxyTypeOK, ProxyTimes, Counting
  <2>2. \A c \in Counting \ ToSet(history) :
          call[c].at <= peakClock' - Window - Slack \/ call[c].at <= droppedThrough
    BY <1>2, <1>3, <2>1 DEF Remembered
  <2> QED  BY <1>1, <1>5, <2>2 DEF Remembered
<1> QED  BY <1>4, <1>5, <1>6, <1>7 DEF ProxyInv

LEMMA NextProxyInv == ProxyInv /\ [ProxyNext]_proxyVars => ProxyInv'
<1> SUFFICES ASSUME ProxyInv, [ProxyNext]_proxyVars  PROVE ProxyInv'  OBVIOUS
<1>1. CASE UNCHANGED proxyVars
  BY <1>1 DEF proxyVars, callVars, ProxyInv, ProxyTypeOK, OnlyLiveCallsCount, Counting, ClockInv,
     Remembered
<1>2. CASE ProxyNext
  <2>1. PinStep  BY <1>2, PinMoves DEF ProxyInv
  <2>2. ASSUME UNCHANGED <<proxyClock, peakClock, callVars>>, toolList' \in {"pinned", "other"}
        PROVE  ProxyInv'
    BY <2>1, <2>2 DEF callVars, ProxyInv, ProxyTypeOK, OnlyLiveCallsCount, Counting, ClockInv,
       Remembered, PinStep
  <2>3. CASE UpstreamChanges  BY <2>2, <2>3 DEF UpstreamChanges
  <2>4. CASE ClientListingFails
    BY <2>2, <2>4 DEF ClientListingFails, ProxyInv, ProxyTypeOK
  <2>5. ASSUME NEW last \in BOOLEAN, ClientLists(last)  PROVE ProxyInv'
    BY <2>2, <2>5 DEF ClientLists, ProxyInv, ProxyTypeOK
  <2>6. CASE ClockMoves  BY <2>1, <2>6, ClockKeepsInv
  <2>7. ASSUME NEW c \in ToolCalls, DecideCall(c)  PROVE ProxyInv'
    BY <2>1, <2>7, DecideKeepsInv
  <2>8. ASSUME NEW c \in ToolCalls, CallStep(c)  PROVE ProxyInv'
    BY <2>1, <2>8, CallKeepsInv
  <2> QED  BY <1>2, <2>3, <2>4, <2>5, <2>6, <2>7, <2>8 DEF ProxyNext, CallStep
<1> QED  BY <1>1, <1>2

THEOREM ProxyInvariant == ProxySpec => []ProxyInv
BY InitProxyInv, NextProxyInv, PTL DEF ProxySpec

(* The types of the proxy's state.                                         *)
THEOREM ProxyTypeCorrect == ProxySpec => []ProxyTypeOK
BY ProxyInvariant, PTL DEF ProxyInv

(* What later calls are counted against ran or is in flight, each once,    *)
(* whatever order calls were decided, dropped, pruned and refused in.      *)
THEOREM LiveCallsCount == ProxySpec => []OnlyLiveCallsCount
BY ProxyInvariant, PTL DEF ProxyInv

(* What policy lets through is within the limit over every call that ran   *)
(* or is in flight, whatever was pruned and dropped from the history: the  *)
(* calls of the window are all still there.                                *)
THEOREM WholeHistoryDecides == ProxySpec => DecidedOnWholeHistory
<1> DEFINE Whole == \A c \in ToolCalls :
                      call[c].stage = "new" /\ call'[c].stage # "new" /\ call'[c].allowed =>
                        Cardinality({k \in Counting : InWindow(call[k].at, proxyClock)}) < MaxCount
<1>1. ProxyInv /\ [ProxyNext]_proxyVars => [Whole]_proxyVars
  <2> SUFFICES ASSUME ProxyInv, [ProxyNext]_proxyVars,
                      NEW c \in ToolCalls, call[c].stage = "new", call'[c].stage # "new",
                      call'[c].allowed
               PROVE  Cardinality({k \in Counting : InWindow(call[k].at, proxyClock)}) < MaxCount
    OBVIOUS
  <2>1. /\ ProxyTypeOK /\ OnlyLiveCallsCount /\ ClockInv /\ Remembered
        /\ call \in [ToolCalls -> [stage : Stages, at : ProxyTimes, held : BOOLEAN,
                                   allowed : BOOLEAN]]
    BY DEF ProxyInv, ProxyTypeOK
  <2>2. DecideCall(c)
    <3>1. call' # call  OBVIOUS
    <3>2. ASSUME NEW d \in ToolCalls, DecideCall(d)  PROVE d = c
      <4>1. PICK r : call' = [call EXCEPT ![d] = r]  BY <3>2 DEF DecideCall
      <4> QED  BY <2>1, <4>1
    <3>3. ASSUME NEW d \in ToolCalls, CallStep(d)  PROVE FALSE
      <4>1. MovesOn(d) \/ GivesUp(d)  BY <2>1, <3>3, CallShapes
      <4>2. call[d].stage # "new" /\ \E r : call' = [call EXCEPT ![d] = r]
        BY <4>1 DEF MovesOn, GivesUp
      <4> QED  BY <2>1, <4>2
    <3> QED
      BY <3>1, <3>2, <3>3 DEF ProxyNext, CallStep, proxyVars, callVars, ClockMoves, UpstreamChanges,
         ClientListingFails, ClientLists
  <2>3. PICK held \in BOOLEAN, lost \in BOOLEAN :
          /\ call' = [call EXCEPT ![c] = [stage |-> "listing", at |-> proxyClock,
                                          held |-> held, allowed |-> held /\ ~lost]]
          /\ held = ~RateViolated(Pruned(proxyClock), proxyClock)
          /\ lost = HistoryLost(proxyClock)
    BY <2>2, DecideShape
  <2>4. ~RateViolated(Pruned(proxyClock), proxyClock) /\ ~HistoryLost(proxyClock)
    <3>1. call'[c].allowed = (held /\ ~lost)  BY <2>1, <2>3
    <3> QED  BY <2>3, <3>1
  <2>5. /\ proxyClock \in Int /\ peakClock \in Int /\ Window \in Nat /\ Slack \in Nat
        /\ MaxCount \in Nat /\ droppedThrough \in Int /\ droppedThrough >= -1
        /\ peakClock - Slack <= proxyClock
    BY <2>1, ProxyAssumption DEF ProxyTypeOK, ProxyTimes, ClockInv
  <2> DEFINE recent == {k \in ToolCalls : call[k].at > proxyClock - (Window + Slack)}
             reads == {k \in ToolCalls : call[k].at > proxyClock - Window}
             inWindow == {k \in ToolCalls : InWindow(call[k].at, proxyClock)}
             counted == Keep(Keep(Keep(history, recent), reads), inWindow)
  <2>6. counted \in Seq(ToolCalls) /\ IsInjective(counted)
          /\ ToSet(counted) = ((ToSet(history) \cap recent) \cap reads) \cap inWindow
    <3>1. history \in Seq(ToolCalls) /\ IsInjective(history)
      BY <2>1, HistoryOnce DEF ProxyTypeOK
    <3> HIDE DEF recent, reads, inWindow
    <3>2. PICK a : a = Keep(history, recent)  OBVIOUS
    <3>3. a \in Seq(ToolCalls) /\ IsInjective(a) /\ ToSet(a) = ToSet(history) \cap recent
      BY <3>1, <3>2, KeepCorrect
    <3>4. PICK b : b = Keep(a, reads)  OBVIOUS
    <3>5. b \in Seq(ToolCalls) /\ IsInjective(b) /\ ToSet(b) = ToSet(a) \cap reads
      BY <3>3, <3>4, KeepCorrect
    <3>6. counted = Keep(b, inWindow)  BY <3>2, <3>4
    <3> QED  BY <3>3, <3>5, <3>6, KeepCorrect
  <2>7. Len(counted) < MaxCount
    <3>1. ~(Len(counted) + 1 > MaxCount)  BY <2>4 DEF RateViolated, Pruned, BoundPrior
    <3> HIDE DEF counted
    <3>2. Len(counted) \in Nat  BY <2>6
    <3> QED  BY <2>5, <3>1, <3>2
  <2> HIDE DEF counted
  <2>8. IsFiniteSet(ToSet(counted)) /\ Cardinality(ToSet(counted)) < MaxCount
    BY <2>6, <2>7, LenOnce
  <2>9. {k \in Counting : InWindow(call[k].at, proxyClock)} \subseteq ToSet(counted)
    <3> SUFFICES ASSUME NEW k \in Counting, InWindow(call[k].at, proxyClock)
                 PROVE  k \in ToSet(counted)
      OBVIOUS
    <3>1. /\ k \in ToolCalls /\ call[k].at \in Int /\ call[k].at >= 0
          /\ call[k].at <= proxyClock /\ call[k].at > proxyClock - Window
      BY <2>1 DEF Counting, InWindow, ProxyTypeOK, ProxyTimes
    <3>2. k \in ToSet(history)
      <4> SUFFICES ASSUME k \notin ToSet(history)  PROVE FALSE  OBVIOUS
      <4>1. call[k].at <= peakClock - Window - Slack \/ call[k].at <= droppedThrough
        BY <2>1 DEF Remembered
      <4>2. droppedThrough = -1 \/ ~(droppedThrough > proxyClock - Window)
        BY <2>4 DEF HistoryLost
      <4> QED  BY <2>5, <3>1, <4>1, <4>2
    <3>3. call[k].at > proxyClock - (Window + Slack)  BY <2>5, <3>1
    <3> QED  BY <2>6, <3>1, <3>2, <3>3
  <2>10. /\ IsFiniteSet({k \in Counting : InWindow(call[k].at, proxyClock)})
         /\ Cardinality({k \in Counting : InWindow(call[k].at, proxyClock)})
              <= Cardinality(ToSet(counted))
    BY <2>8, <2>9, FS_Subset
  <2> QED  BY <2>5, <2>8, <2>10, FS_CardinalityType
<1>2. ProxySpec => [][Whole]_proxyVars  BY <1>1, ProxyInvariant, PTL DEF ProxySpec
<1> QED  BY <1>2 DEF DecidedOnWholeHistory

(* Once a tool list that differs from the pin was seen, no call whose list *)
(* is being checked, now or when an earlier read arrives, reaches the      *)
(* dispatch boundary.                                                      *)
THEOREM MismatchStays == ProxySpec => MismatchIsFinal
<1> DEFINE Final == pin.mismatchSeen =>
                      /\ pin'.mismatchSeen
                      /\ \A c \in ToolCalls :
                           call[c].stage \in {"listing", "deciding"} => call'[c].stage # "boundary"
<1>1. ProxyTypeOK /\ [ProxyNext]_proxyVars => [Final]_proxyVars
  <2> SUFFICES ASSUME ProxyTypeOK, ProxyNext, pin.mismatchSeen
               PROVE  /\ pin'.mismatchSeen
                      /\ \A c \in ToolCalls :
                           call[c].stage \in {"listing", "deciding"} => call'[c].stage # "boundary"
    OBVIOUS
  <2>1. pin'.mismatchSeen  BY PinMoves DEF PinStep
  <2>2. call \in [ToolCalls -> [stage : Stages, at : ProxyTimes, held : BOOLEAN,
                                allowed : BOOLEAN]]
    BY DEF ProxyTypeOK
  <2> SUFFICES ASSUME NEW c \in ToolCalls, call[c].stage \in {"listing", "deciding"}
               PROVE  call'[c].stage # "boundary"
    BY <2>1
  <2>3. ASSUME NEW d \in ToolCalls, call' = Bound(d, FALSE)  PROVE call'[c].stage # "boundary"
    BY <2>2, <2>3 DEF Bound
  <2>4. ASSUME NEW d \in ToolCalls, CheckPin(d)  PROVE call'[c].stage # "boundary"
    <3>1. call' = Bound(d, FALSE)  BY <2>4 DEF CheckPin, AnsweredAtOnce, KnownVerified
    <3> QED  BY <2>3, <3>1
  <2>5. ASSUME NEW d \in ToolCalls, ListArrives(d)  PROVE call'[c].stage # "boundary"
    <3>1. PICK list : /\ pin' = IF list = "none"
                                THEN [pin EXCEPT !.verified = FALSE, !.verifiedAt = proxyClock]
                                ELSE Learned(list)
                      /\ call' = Bound(d, pin'.verified)
      BY <2>5 DEF ListArrives
    <3>2. pin'.verified = FALSE
      <4>1. CASE list = "none"  BY <3>1, <4>1 DEF ProxyTypeOK
      <4>2. CASE list # "none"
        <5>1. pin' = Learned(list)  BY <3>1, <4>2
        <5>2. pin'.verified \in BOOLEAN /\ ~pin'.verified
          BY <5>1, LearnedType, PinMoves DEF PinStep
        <5> QED  BY <5>2
      <4> QED  BY <4>1, <4>2
    <3> QED  BY <2>3, <3>1, <3>2
  <2>6. ASSUME UNCHANGED call  PROVE call'[c].stage # "boundary"  BY <2>6
  <2>7. ASSUME NEW d \in ToolCalls, DecideCall(d)  PROVE call'[c].stage # "boundary"
    <3>1. call[d].stage = "new" /\ \E e : call' = [call EXCEPT ![d] = e]  BY <2>7 DEF DecideCall
    <3> QED  BY <2>2, <3>1
  <2>8. ASSUME NEW d \in ToolCalls, BoundaryAnswers(d) \/ FinishCall(d) \/ ReceiptFails(d)
        PROVE  call'[c].stage # "boundary"
    <3>1. call[d].stage \in {"boundary", "receipt"}
      BY <2>8 DEF BoundaryAnswers, FinishCall, ReceiptFails
    <3>2. MovesOn(d) \/ GivesUp(d)  BY <2>8, CallShapes DEF CallStep
    <3>3. \E e : call' = [call EXCEPT ![d] = e]  BY <3>2 DEF MovesOn, GivesUp
    <3> QED  BY <2>2, <3>1, <3>3
  <2> QED
    BY <2>4, <2>5, <2>6, <2>7, <2>8 DEF ProxyNext, ClockMoves, UpstreamChanges, ClientListingFails,
       ClientLists, callVars
<1>2. ProxySpec => [][Final]_proxyVars  BY <1>1, ProxyTypeCorrect, PTL DEF ProxySpec
<1> QED  BY <1>2 DEF MismatchIsFinal
=============================================================================
