------------------------ MODULE GatewayLifecycleProofs ------------------------
(***************************************************************************)
(* Theorems about GatewayLifecycle, for any requests, approvals, processes *)
(* and crashes.                                                            *)
(***************************************************************************)
EXTENDS GatewayLifecycle, FiniteSetTheorems, SequenceTheorems, WellFoundedInduction, TLAPS

Row == [state: Held \cup Final \cup {None}, adapter: BOOLEAN, detail: BOOLEAN,
        counts: BOOLEAN, closed: BOOLEAN, approval: Approvals \cup {None}]

Call == [at: Places, req: Requests \cup {None}, approval: Approvals \cup {None},
         kind: Kinds \cup {None}, out: Outcomes \cup {None}]

Undispatched == {"policy_denied", "judged", "guarded", "cleared"}
Sending == {"dispatching", "waiting"}
Unsent == {"denied", "observed_after", "cooperative_allow", "simulated"}
Answers == {"executed", "failed", "outcome_unknown"}

-----------------------------------------------------------------------------
(* Types.                                                                  *)

(* What each kind of process may be doing, and what it will store.         *)
GatewayCall(c) ==
  /\ c.at # "settling"
  /\ c.at = "idle" => c = Idle
  /\ c.at # "idle" => c.req \in Requests /\ c.kind \in Kinds
  /\ c.at = "closing" => c.out \in Unsent \cup Answers

OperatorCall(c) ==
  /\ c.at \in {"idle", "closing"} /\ c.approval = None
  /\ c.at = "idle" => c = Idle
  /\ c.at = "closing" => c.req \in Requests /\ c.out \in {"not_started", "executed", "failed"}

RepairerCall(c) ==
  /\ c.at \in {"idle", "settling"}
  /\ c.at = "settling" => c.req \in Requests /\ c.out \in {"denied", "cooperative_allow"}

CallShape ==
  /\ \A g \in Gateways : GatewayCall(calls[g])
  /\ \A o \in Operators : OperatorCall(calls[o])
  /\ \A p \in Repairers : RepairerCall(calls[p])

TypeInv == TypeOK /\ CallShape

LEMMA IdleType == Idle \in Call /\ NoRow \in Row
BY DEF Idle, Call, Places, NoRow, Row

(* A call is put in place of another.                                      *)
LEMMA GoType ==
  ASSUME TypeInv, NEW p \in Procs, NEW c \in Call, Go(p, c),
         p \in Gateways => GatewayCall(c),
         p \in Operators => OperatorCall(c),
         p \in Repairers => RepairerCall(c)
  PROVE  /\ calls' \in [Procs -> Call] /\ CallShape'
         /\ calls'[p] = c /\ \A q \in Procs \ {p} : calls'[q] = calls[q]
<1>1. calls \in [Procs -> Call]  BY DEF TypeInv, TypeOK, Call
<1>2. calls' = [calls EXCEPT ![p] = c]  BY DEF Go
<1>3. calls'[p] = c /\ \A q \in Procs \ {p} : calls'[q] = calls[q]  BY <1>1, <1>2
<1>4. Gateways \subseteq Procs /\ Operators \subseteq Procs /\ Repairers \subseteq Procs
  BY DEF Procs
<1>5. CallShape'
  BY <1>3, <1>4 DEF TypeInv, CallShape, GatewayCall, OperatorCall, RepairerCall
<1> QED  BY <1>1, <1>2, <1>3, <1>5

LEMMA ReturnType ==
  ASSUME TypeInv, NEW p \in Procs, Return(p)
  PROVE  /\ calls' \in [Procs -> Call] /\ CallShape'
         /\ calls'[p] = Idle /\ \A q \in Procs \ {p} : calls'[q] = calls[q]
<1>1. Go(p, Idle)  BY DEF Return
<1>2. GatewayCall(Idle) /\ OperatorCall(Idle) /\ RepairerCall(Idle)
  BY DEF GatewayCall, OperatorCall, RepairerCall, Idle
<1> QED  BY <1>1, <1>2, IdleType, GoType

(* What stays when a call goes on from place to place.                     *)
Onward(p) ==
  /\ calls'[p].req = calls[p].req /\ calls'[p].approval = calls[p].approval
  /\ calls'[p].kind = calls[p].kind
  /\ \A q \in Procs \ {p} : calls'[q] = calls[q]

LEMMA StepType ==
  ASSUME TypeInv, NEW g \in Gateways, ~At(g, "idle"),
         NEW place \in Places \ {"idle", "closing", "settling"}, Step(g, place)
  PROVE  /\ calls' \in [Procs -> Call] /\ CallShape'
         /\ calls'[g].at = place /\ Onward(g)
<1> DEFINE c == [calls[g] EXCEPT !.at = place]
<1>1. g \in Procs /\ g \notin Operators /\ g \notin Repairers  BY ProcessAssumption DEF Procs
<1>2. calls[g] \in Call /\ GatewayCall(calls[g])
  BY <1>1 DEF TypeInv, TypeOK, Call, CallShape
<1>3. c \in Call /\ GatewayCall(c)  BY <1>2 DEF Call, GatewayCall, At
<1>4. Go(g, c)  BY DEF Step
<1>5. c.at = place /\ c.req = calls[g].req /\ c.approval = calls[g].approval
      /\ c.kind = calls[g].kind
  BY <1>2 DEF Call
<1> HIDE DEF c
<1> QED  BY <1>1, <1>3, <1>4, <1>5, GoType DEF Onward

LEMMA CloseType ==
  ASSUME TypeInv, NEW g \in Gateways, ~At(g, "idle"),
         NEW outcome \in Unsent \cup Answers, Close(g, outcome)
  PROVE  /\ calls' \in [Procs -> Call] /\ CallShape'
         /\ calls'[g].at = "closing" /\ calls'[g].out = outcome /\ Onward(g)
<1> DEFINE c == [calls[g] EXCEPT !.at = "closing", !.out = outcome]
<1>1. g \in Procs /\ g \notin Operators /\ g \notin Repairers  BY ProcessAssumption DEF Procs
<1>2. calls[g] \in Call /\ GatewayCall(calls[g])
  BY <1>1 DEF TypeInv, TypeOK, Call, CallShape
<1>3. outcome \in Outcomes  BY DEF Unsent, Answers, Outcomes, Final
<1>4. c \in Call /\ GatewayCall(c)  BY <1>2, <1>3 DEF Call, GatewayCall, At, Places
<1>5. Go(g, c)  BY DEF Close
<1>6. /\ c.at = "closing" /\ c.out = outcome /\ c.req = calls[g].req
      /\ c.approval = calls[g].approval /\ c.kind = calls[g].kind
  BY <1>2 DEF Call
<1> HIDE DEF c
<1> QED  BY <1>1, <1>4, <1>5, <1>6, GoType DEF Onward

(* A new call of an operator or a repairer.                                *)
LEMMA BeginType ==
  ASSUME TypeInv, NEW p \in Operators \cup Repairers, NEW c \in Call, Go(p, c),
         \/ p \in Operators /\ OperatorCall(c)
         \/ p \in Repairers /\ RepairerCall(c)
  PROVE  /\ calls' \in [Procs -> Call] /\ CallShape'
         /\ calls'[p] = c /\ \A q \in Procs \ {p} : calls'[q] = calls[q]
<1>1. p \in Procs /\ p \notin Gateways  BY ProcessAssumption DEF Procs
<1>2. p \in Operators => OperatorCall(c)  BY ProcessAssumption
<1>3. p \in Repairers => RepairerCall(c)  BY ProcessAssumption
<1> QED  BY <1>1, <1>2, <1>3, GoType

LEMMA SubmitType ==
  ASSUME TypeInv, NEW g \in Gateways, NEW s \in Submissions, Submit(g, s)
  PROVE  /\ calls' \in [Procs -> Call] /\ CallShape'
         /\ calls'[g].at \in {"observing", "refusing", "deciding"}
         /\ calls'[g].req = s.req /\ calls'[g].approval = s.approval
         /\ calls'[g].kind = s.kind /\ \A q \in Procs \ {g} : calls'[q] = calls[q]
<1> DEFINE place == IF s.kind = "observe" THEN "observing"
                    ELSE IF IsStopped(s.req) THEN "refusing" ELSE "deciding"
           c == [Idle EXCEPT !.at = place, !.req = s.req, !.approval = s.approval,
                             !.kind = s.kind]
<1>1. g \in Procs /\ g \notin Operators /\ g \notin Repairers  BY ProcessAssumption DEF Procs
<1>2. s.req \in Requests /\ s.approval \in Approvals \cup {None} /\ s.kind \in Kinds
  BY ConstantAssumption
<1>3. place \in {"observing", "refusing", "deciding"}  OBVIOUS
<1>4. Go(g, c)  BY DEF Submit
<1>5. /\ c.at = place /\ c.req = s.req /\ c.approval = s.approval /\ c.kind = s.kind
      /\ c.out = None
  BY DEF Idle
<1> HIDE DEF place
<1>6. c \in Call  BY <1>2, <1>3 DEF Call, Idle, Places
<1> HIDE DEF c
<1>7. GatewayCall(c)  BY <1>2, <1>3, <1>5 DEF GatewayCall
<1> QED  BY <1>1, <1>3, <1>4, <1>5, <1>6, <1>7, GoType

(* What the receipts stored for a request say.                             *)
Said(r) == {receipts[r][i] : i \in DOMAIN receipts[r]}

LEMMA StoreType ==
  ASSUME TypeInv, NEW r \in Requests, NEW approval \in Approvals \cup {None},
         NEW outcome \in Outcomes, Store(r, approval, outcome)
  PROVE  /\ receipts' \in [Requests -> Seq(Outcomes)]
         /\ named' \subseteq Requests \cup Approvals
         /\ \A q \in Requests : Said(q)' = Said(q) \cup (IF q = r THEN {outcome} ELSE {})
<1>1. receipts \in [Requests -> Seq(Outcomes)] /\ receipts[r] \in Seq(Outcomes)
  BY DEF TypeInv, TypeOK
<1>2. receipts' = [receipts EXCEPT ![r] = Append(receipts[r], outcome)]  BY DEF Store
<1> DEFINE longer == Append(receipts[r], outcome)
<1>3. /\ longer \in Seq(Outcomes) /\ DOMAIN longer = DOMAIN receipts[r] \cup {Len(receipts[r]) + 1}
      /\ longer[Len(receipts[r]) + 1] = outcome
      /\ \A i \in DOMAIN receipts[r] : longer[i] = receipts[r][i]
  BY <1>1
<1>4. /\ receipts' \in [Requests -> Seq(Outcomes)] /\ receipts'[r] = longer
      /\ \A q \in Requests \ {r} : receipts'[q] = receipts[q]
  BY <1>1, <1>2, <1>3
<1>5. named' \subseteq Requests \cup Approvals  BY DEF Store, Ids, TypeInv, TypeOK
<1>6. Said(r)' = Said(r) \cup {outcome}
  <2>1. \A i \in DOMAIN receipts[r] : i \in DOMAIN longer /\ longer[i] = receipts[r][i]
    BY <1>3
  <2>2. \A i \in DOMAIN longer : i \in DOMAIN receipts[r] \/ longer[i] = outcome  BY <1>3
  <2>3. outcome \in {longer[i] : i \in DOMAIN longer}  BY <1>3
  <2> HIDE DEF longer
  <2>4. {longer[i] : i \in DOMAIN longer} = {receipts[r][i] : i \in DOMAIN receipts[r]} \cup {outcome}
    BY <2>1, <2>2, <2>3
  <2> QED  BY <1>4, <2>4 DEF Said
<1> QED  BY <1>4, <1>5, <1>6 DEF Said

LEMMA SaidSame == ASSUME UNCHANGED receipts PROVE \A r : Said(r)' = Said(r)
BY DEF Said

(* What finalizeAction leaves in a row.                                    *)
LEMMA FinalizedType ==
  ASSUME TypeInv, NEW r \in Requests, NEW outcome \in Unsent \cup Answers \cup {"not_started"},
         rows' = Finalized(r, outcome)
  PROVE  /\ rows' \in [Requests -> Row]
         /\ rows'[r].state = StateOf(outcome) /\ rows'[r].approval = rows[r].approval
         /\ rows'[r].adapter = rows[r].adapter
         /\ rows'[r].counts = (rows[r].counts /\ rows[r].adapter)
         /\ \A q \in Requests \ {r} : rows'[q] = rows[q]
<1>1. rows \in [Requests -> Row] /\ rows[r] \in Row  BY DEF TypeInv, TypeOK, Row
<1> DEFINE n == [rows[r] EXCEPT !.state = StateOf(outcome), !.closed = TRUE,
                                !.detail = rows[r].detail /\ rows[r].adapter,
                                !.counts = rows[r].counts /\ rows[r].adapter]
<1>2. StateOf(outcome) \in Final  BY DEF StateOf, Final, Unsent, Answers
<1>3. n \in Row  BY <1>1, <1>2 DEF Row
<1>4. rows' = [rows EXCEPT ![r] = n]  BY <1>1 DEF Finalized
<1>5. /\ n.state = StateOf(outcome) /\ n.approval = rows[r].approval
      /\ n.adapter = rows[r].adapter /\ n.counts = (rows[r].counts /\ rows[r].adapter)
  BY <1>1 DEF Row
<1> HIDE DEF n
<1> QED  BY <1>1, <1>3, <1>4, <1>5

(* A call past its reservation goes on, and no table changes.              *)
Moves(g) ==
  /\ Onward(g)
  /\ \/ /\ calls[g].at \in Undispatched /\ calls'[g].at \in Undispatched
        /\ calls'[g].at = "cleared" => ~CheckOnly(calls[g])
     \/ /\ calls[g].at \in Undispatched /\ calls'[g].at = "closing"
        /\ calls'[g].out \in Unsent
     \/ At(g, "dispatching") /\ calls'[g].at = "closing" /\ calls'[g].out = "failed"
     \/ At(g, "waiting") /\ calls'[g].at = "closing" /\ calls'[g].out = "executed"

Ends(p) == calls'[p] = Idle /\ \A q \in Procs \ {p} : calls'[q] = calls[q]

(* A step that only moves a call, or stops, starts or forgets something.   *)
QuietStep ==
  /\ UNCHANGED <<rows, consumed, receipts, expired, effect, sent, taken, contested>>
  /\ \/ UNCHANGED calls
     \/ \E p \in Procs : Ends(p)
     \/ \E g \in Gateways : Moves(g)

LEMMA DeniedStateType == ASSUME NEW c PROVE DeniedState(c) \in {"denied", "observed_after"}
BY DEF DeniedState

(* The steps of a gateway that change no table.                            *)
LEMMA MovesType ==
  ASSUME TypeInv, NEW g \in Gateways,
         \/ Override(g) \/ NoOverride(g) \/ AskGuard(g) \/ SkipGuard(g) \/ LastLook(g)
         \/ ExecuteRefusesInput(g) \/ Answered(g)
  PROVE  TypeInv' /\ QuietStep /\ Moves(g)
<1>1. /\ calls[g] \in Call /\ GatewayCall(calls[g])
  BY DEF TypeInv, TypeOK, Call, CallShape, Procs
<1>2. SUFFICES /\ calls' \in [Procs -> Call] /\ CallShape' /\ Moves(g)
               /\ UNCHANGED <<store, stops, mode, outside, sent, taken, contested, crashes>>
               /\ guard' \in [Requests -> {"unasked", "passed", "refused"}]
  BY DEF TypeInv, TypeOK, Call, QuietStep, store, outside
<1>3. ASSUME Override(g) \/ SkipGuard(g) \/ (LastLook(g) /\ Step(g, "cleared"))
             \/ (AskGuard(g) /\ Step(g, "guarded"))
      PROVE  /\ calls' \in [Procs -> Call] /\ CallShape' /\ Moves(g)
  <2>1. ~At(g, "idle") /\ calls[g].at \in Undispatched
    BY <1>3 DEF Override, SkipGuard, LastLook, AskGuard, GuardAnswers, At, Undispatched
  <2>2. CASE Override(g)
    BY <2>1, <2>2, StepType, "judged" \in Places \ {"idle", "closing", "settling"}
       DEF Override, Moves, Undispatched, Places
  <2>3. CASE SkipGuard(g) \/ (AskGuard(g) /\ Step(g, "guarded"))
    BY <2>1, <2>3, StepType, "guarded" \in Places \ {"idle", "closing", "settling"}
       DEF SkipGuard, Moves, Undispatched, Places
  <2>4. CASE LastLook(g) /\ Step(g, "cleared")
    <3>1. /\ calls' \in [Procs -> Call] /\ CallShape' /\ Onward(g) /\ calls'[g].at = "cleared"
      BY <2>1, <2>4, StepType, "cleared" \in Places \ {"idle", "closing", "settling"} DEF Places
    <3>2. ASSUME NEW outcome, Close(g, outcome)  PROVE FALSE
      BY <1>1, <3>1, <3>2 DEF Close, Go, Call, TypeInv, TypeOK, Procs
    <3>3. ~CheckOnly(calls[g])  BY <2>4, <3>2 DEF LastLook
    <3> QED  BY <2>1, <3>1, <3>3 DEF Moves, Undispatched
  <2> QED  BY <1>3, <2>2, <2>3, <2>4
<1>4. ASSUME NEW outcome \in Unsent, Close(g, outcome), calls[g].at \in Undispatched
      PROVE  /\ calls' \in [Procs -> Call] /\ CallShape' /\ Moves(g)
  BY <1>4, CloseType DEF Moves, At, Undispatched
<1>5. \A c : DeniedState(c) \in Unsent  BY DeniedStateType DEF Unsent
<1>6. CASE NoOverride(g)
  BY <1>4, <1>5, <1>6 DEF NoOverride, At, Undispatched, history, TypeInv, TypeOK
<1>7. CASE AskGuard(g)
  <2>1. /\ calls' \in [Procs -> Call] /\ CallShape' /\ Moves(g)
    BY <1>3, <1>4, <1>5, <1>7 DEF AskGuard, GuardAnswers, At, Undispatched
  <2>2. guard' \in [Requests -> {"unasked", "passed", "refused"}]
    BY <1>7 DEF AskGuard, GuardAnswers, TypeInv, TypeOK
  <2> QED  BY <1>7, <2>1, <2>2 DEF AskGuard, GuardAnswers
<1>8. CASE LastLook(g)
  <2>1. Step(g, "cleared") \/ \E outcome \in Unsent : Close(g, outcome)
    BY <1>5, <1>8 DEF LastLook, Unsent
  <2>2. calls[g].at \in Undispatched  BY <1>8 DEF LastLook, At, Undispatched
  <2>3. /\ calls' \in [Procs -> Call] /\ CallShape' /\ Moves(g)
    BY <1>3, <1>4, <1>8, <2>1, <2>2
  <2> QED  BY <1>8, <2>3 DEF LastLook, history, TypeInv, TypeOK
<1>9. CASE Override(g) \/ SkipGuard(g)
  BY <1>3, <1>9 DEF Override, SkipGuard, history, TypeInv, TypeOK
<1>10. CASE ExecuteRefusesInput(g) \/ Answered(g)
  BY <1>10, CloseType, "failed" \in Answers, "executed" \in Answers
     DEF ExecuteRefusesInput, Answered, At, Moves, Answers, history, TypeInv, TypeOK
<1> QED  BY <1>6, <1>7, <1>8, <1>9, <1>10

LEMMA QuietType ==
  ASSUME TypeInv,
         \/ \E g \in Gateways : ReserveDuplicate(g)
         \/ \E p \in Procs : Crash(p)
         \/ \E t \in Targets : Kill(t) \/ Resume(t)
         \/ RemoveAuthorizationIds
         \/ UNCHANGED vars
  PROVE  TypeInv' /\ QuietStep /\ UNCHANGED guard
<1> USE DEF store, outside, history
<1>1. CASE \E g \in Gateways : ReserveDuplicate(g)
  BY <1>1, ReturnType DEF ReserveDuplicate, TypeInv, TypeOK, Call, QuietStep, Ends, Procs
<1>2. CASE \E p \in Procs : Crash(p)
  <2>1. PICK p \in Procs : Crash(p)  BY <1>2
  <2>2. /\ calls' \in [Procs -> Call] /\ CallShape' /\ Ends(p)
    BY <2>1, ReturnType DEF Crash, Ends
  <2>3. mode' \in [Gateways -> Modes \cup {"dispatch"}]
    BY <2>1 DEF Crash, TypeInv, TypeOK
  <2>4. crashes' \in 0..MaxCrashes
    BY <2>1, ConstantAssumption DEF Crash, TypeInv, TypeOK
  <2> QED  BY <2>1, <2>2, <2>3, <2>4 DEF Crash, TypeInv, TypeOK, Call, QuietStep
<1>3. CASE \E t \in Targets : Kill(t) \/ Resume(t)
  BY <1>3 DEF Kill, Resume, TypeInv, TypeOK, CallShape, QuietStep
<1>4. CASE RemoveAuthorizationIds
  BY <1>4 DEF RemoveAuthorizationIds, TypeInv, TypeOK, CallShape, QuietStep
<1>5. CASE UNCHANGED vars
  BY <1>5 DEF vars, TypeInv, TypeOK, CallShape, QuietStep
<1> QED  BY <1>1, <1>2, <1>3, <1>4, <1>5

LEMMA SubmitStepType ==
  ASSUME TypeInv, NEW g \in Gateways, NEW s \in Submissions, Submit(g, s)
  PROVE  TypeInv'
BY SubmitType DEF Submit, TypeInv, TypeOK, Call, store, outside, history

LEMMA ObserveType ==
  ASSUME TypeInv, NEW g \in Gateways, Observe(g)
  PROVE  /\ TypeInv' /\ Ends(g) /\ calls[g].req \in Requests
         /\ \A q \in Requests :
              Said(q)' = Said(q) \cup (IF q = calls[g].req THEN {"observed_not_evaluated"} ELSE {})
<1>1. g \in Procs /\ calls[g] \in Call /\ GatewayCall(calls[g])
  BY DEF TypeInv, TypeOK, Call, CallShape, Procs
<1>2. calls[g].req \in Requests /\ calls[g].approval \in Approvals \cup {None}
  BY <1>1 DEF Observe, At, GatewayCall, Call
<1>3. /\ receipts' \in [Requests -> Seq(Outcomes)] /\ named' \subseteq Requests \cup Approvals
      /\ \A q \in Requests :
           Said(q)' = Said(q) \cup (IF q = calls[g].req THEN {"observed_not_evaluated"} ELSE {})
  <2>1. "observed_not_evaluated" \in Outcomes  BY DEF Outcomes
  <2>2. Store(calls[g].req, calls[g].approval, "observed_not_evaluated")  BY DEF Observe
  <2> QED  BY <1>2, <2>1, <2>2, StoreType
<1>4. /\ calls' \in [Procs -> Call] /\ CallShape' /\ Ends(g)
  BY <1>1, ReturnType DEF Observe, Ends
<1> QED  BY <1>2, <1>3, <1>4 DEF Observe, TypeInv, TypeOK, Call, outside, history

(* The row a reservation writes.                                           *)
Reserved(c, allow) ==
  [state |-> IF allow THEN "reserved" ELSE "denied", adapter |-> FALSE, detail |-> TRUE,
   counts |-> ~CheckOnly(c), closed |-> FALSE, approval |-> c.approval]

LEMMA ReserveType ==
  ASSUME TypeInv, NEW g \in Gateways, ReserveAction(g)
  PROVE  /\ TypeInv' /\ Onward(g) /\ calls[g].req \in Requests
         /\ calls[g].approval \in Approvals \cup {None}
         /\ \/ calls'[g].at \in {"judged", "policy_denied"}
            \/ calls'[g].at = "closing" /\ calls'[g].out \in {"denied", "observed_after"}
         /\ \E allow \in BOOLEAN : /\ rows'[calls[g].req] = Reserved(calls[g], allow)
                                   /\ allow => Counted < Cap
         /\ \A q \in Requests \ {calls[g].req} : rows'[q] = rows[q]
<1> DEFINE c == calls[g]
           allow == At(g, "deciding") /\ Counted < Cap
<1>1. g \in Procs /\ c \in Call /\ GatewayCall(c)
  BY DEF TypeInv, TypeOK, Call, CallShape, Procs
<1>2. c.at \in {"refusing", "deciding"} /\ ~At(g, "idle")  BY DEF ReserveAction, At
<1>3. c.req \in Requests /\ c.approval \in Approvals \cup {None}
  BY <1>1, <1>2 DEF GatewayCall, Call
<1>4. allow \in BOOLEAN  OBVIOUS
<1>5. Reserved(c, allow) \in Row  BY <1>3 DEF Reserved, Row, CheckOnly, Final, Held
<1>6. rows' = [rows EXCEPT ![c.req] = Reserved(c, allow)]  BY DEF ReserveAction, Reserved
<1>7. /\ rows' \in [Requests -> Row] /\ rows'[c.req] = Reserved(c, allow)
      /\ \A q \in Requests \ {c.req} : rows'[q] = rows[q]
  <2> HIDE DEF allow
  <2> QED  BY <1>3, <1>5, <1>6 DEF TypeInv, TypeOK, Row
<1>8. consumed' \subseteq (Requests \cup Approvals) \X Requests
  BY <1>3 DEF ReserveAction, TypeInv, TypeOK, Ids
<1>9. taken' \in [Approvals -> Nat]  BY DEF ReserveAction, TypeInv, TypeOK
<1>10. CASE At(g, "refusing")
  <2>1. Close(g, DeniedState(c))  BY <1>10 DEF ReserveAction
  <2>2. /\ calls' \in [Procs -> Call] /\ CallShape' /\ Onward(g)
        /\ calls'[g].at = "closing" /\ calls'[g].out \in {"denied", "observed_after"}
    BY <1>2, <2>1, CloseType, DeniedStateType DEF Unsent
  <2> QED
    BY <1>3, <1>4, <1>7, <1>8, <1>9, <1>10, <2>2
       DEF ReserveAction, TypeInv, TypeOK, Call, Row, outside, At
<1>11. CASE ~At(g, "refusing")
  <2>1. Step(g, "judged") \/ Step(g, "policy_denied")  BY <1>11 DEF ReserveAction
  <2>2. /\ calls' \in [Procs -> Call] /\ CallShape' /\ Onward(g)
        /\ calls'[g].at \in {"judged", "policy_denied"}
    <3>1. \A x \in {"judged", "policy_denied"} : x \in Places \ {"idle", "closing", "settling"}
      BY DEF Places
    <3> QED  BY <1>2, <2>1, <3>1, StepType
  <2> QED
    BY <1>3, <1>4, <1>7, <1>8, <1>9, <1>11, <2>2
       DEF ReserveAction, TypeInv, TypeOK, Call, Row, outside, At
<1> QED  BY <1>10, <1>11

LEMMA PrepareType ==
  ASSUME TypeInv, NEW g \in Gateways, PrepareDispatch(g)
  PROVE  /\ TypeInv' /\ calls[g].req \in Requests
         /\ \/ QuietStep
            \/ /\ Onward(g) /\ calls'[g].at = "dispatching"
               /\ rows[calls[g].req].state = "reserved"
               /\ rows'[calls[g].req].state = "dispatching" /\ rows'[calls[g].req].adapter
               /\ rows'[calls[g].req].counts = rows[calls[g].req].counts
               /\ rows'[calls[g].req].approval = rows[calls[g].req].approval
               /\ \A q \in Requests \ {calls[g].req} : rows'[q] = rows[q]
<1> DEFINE r == calls[g].req
           n == [rows[r] EXCEPT !.state = "dispatching", !.adapter = TRUE]
<1>1. g \in Procs /\ calls[g] \in Call /\ GatewayCall(calls[g]) /\ rows \in [Requests -> Row]
  BY DEF TypeInv, TypeOK, Call, CallShape, Procs, Row
<1>2. At(g, "cleared") /\ ~At(g, "idle") /\ r \in Requests
  BY <1>1 DEF PrepareDispatch, At, GatewayCall
<1>3. CASE MayDispatch(r)
  <2>1. rows[r] \in Row  BY <1>1, <1>2
  <2>2. rows' = [rows EXCEPT ![r] = n]  BY <1>1, <1>2, <1>3 DEF PrepareDispatch
  <2>3. /\ n \in Row /\ n.state = "dispatching" /\ n.adapter /\ n.counts = rows[r].counts
        /\ n.approval = rows[r].approval
    BY <2>1 DEF Row, Held
  <2>4. /\ rows' \in [Requests -> Row] /\ rows'[r] = n
        /\ \A q \in Requests \ {r} : rows'[q] = rows[q]
    <3> HIDE DEF n
    <3> QED  BY <1>1, <1>2, <2>2, <2>3
  <2>5. /\ calls' \in [Procs -> Call] /\ CallShape' /\ Onward(g)
        /\ calls'[g].at = "dispatching"
    <3>1. "dispatching" \in Places \ {"idle", "closing", "settling"}  BY DEF Places
    <3>2. Step(g, "dispatching")  BY <1>3 DEF PrepareDispatch
    <3> QED  BY <1>2, <3>1, <3>2, StepType
  <2>6. TypeInv'
    BY <2>4, <2>5 DEF PrepareDispatch, TypeInv, TypeOK, Call, Row, outside, history
  <2> HIDE DEF n
  <2> QED  BY <1>2, <1>3, <2>3, <2>4, <2>5, <2>6 DEF MayDispatch
<1>4. CASE ~MayDispatch(r)
  <2>1. /\ calls' \in [Procs -> Call] /\ CallShape' /\ Ends(g)
    BY <1>1, <1>4, ReturnType DEF PrepareDispatch, Ends
  <2>2. TypeInv'
    BY <1>4, <2>1 DEF PrepareDispatch, TypeInv, TypeOK, Call, outside, history
  <2> QED  BY <1>1, <1>2, <1>4, <2>1, <2>2 DEF PrepareDispatch, QuietStep, outside, history
<1> QED  BY <1>3, <1>4

LEMMA ExecuteType ==
  ASSUME TypeInv, NEW g \in Gateways, Execute(g)
  PROVE  /\ TypeInv' /\ Onward(g) /\ calls'[g].at = "waiting" /\ calls[g].req \in Requests
<1>1. g \in Procs /\ calls[g] \in Call /\ GatewayCall(calls[g])
  BY DEF TypeInv, TypeOK, Call, CallShape, Procs
<1>2. ~At(g, "idle") /\ calls[g].req \in Requests /\ Step(g, "waiting")
  BY <1>1 DEF Execute, At, GatewayCall
<1>3. "waiting" \in Places \ {"idle", "closing", "settling"}  BY DEF Places
<1>4. /\ calls' \in [Procs -> Call] /\ CallShape' /\ Onward(g) /\ calls'[g].at = "waiting"
  BY <1>2, <1>3, StepType
<1>5. sent' \in [Requests -> Nat] /\ effect' \in [Requests -> {"none", "in_flight", "applied", "refused"}]
  BY <1>2 DEF Execute, TypeInv, TypeOK
<1> QED  BY <1>2, <1>4, <1>5 DEF Execute, TypeInv, TypeOK, Call, store

LEMMA QueryType ==
  ASSUME TypeInv, NEW r \in Requests, NEW outcome, QuerySays(r, outcome)
  PROVE  /\ effect' \in [Requests -> {"none", "in_flight", "applied", "refused"}]
         /\ outcome \in Answers
         /\ \A q \in Requests : effect'[q] = effect[q] \/ (q = r /\ effect'[q] = "refused")
         /\ outcome = "failed" => effect'[r] \in {"none", "refused"}
         /\ outcome = "executed" => effect'[r] = "applied"
         /\ effect[r] = "applied" => effect'[r] = "applied"
BY DEF QuerySays, TypeInv, TypeOK, Answers

LEMMA AnswerLostType ==
  ASSUME TypeInv, NEW g \in Gateways, AnswerLost(g)
  PROVE  /\ TypeInv' /\ Onward(g) /\ calls'[g].at = "closing" /\ calls'[g].out \in Answers
         /\ calls[g].req \in Requests /\ QuerySays(calls[g].req, calls'[g].out)
<1>1. g \in Procs /\ calls[g] \in Call /\ GatewayCall(calls[g])
  BY DEF TypeInv, TypeOK, Call, CallShape, Procs
<1>2. ~At(g, "idle") /\ calls[g].req \in Requests
  BY <1>1 DEF AnswerLost, At, GatewayCall
<1>3. PICK outcome : QuerySays(calls[g].req, outcome) /\ Close(g, outcome)
  BY DEF AnswerLost
<1>4. outcome \in Answers /\ effect' \in [Requests -> {"none", "in_flight", "applied", "refused"}]
  BY <1>2, <1>3, QueryType
<1>5. /\ calls' \in [Procs -> Call] /\ CallShape' /\ Onward(g)
      /\ calls'[g].at = "closing" /\ calls'[g].out = outcome
  BY <1>2, <1>3, <1>4, CloseType
<1> QED  BY <1>2, <1>3, <1>4, <1>5 DEF AnswerLost, TypeInv, TypeOK, Call, store, history

(* A receipt stored at the end of a call.                                  *)
Stored(p) ==
  /\ rows' = Finalized(calls[p].req, calls[p].out)
  /\ \A q \in Requests :
       Said(q)' = Said(q) \cup (IF q = calls[p].req THEN {calls[p].out} ELSE {})

LEMMA FinalizeType ==
  ASSUME TypeInv, NEW p \in Gateways \cup Operators, FinalizeAction(p)
  PROVE  /\ TypeInv' /\ Ends(p) /\ calls[p].req \in Requests
         /\ calls[p].out \in Unsent \cup Answers \cup {"not_started"}
         /\ \/ ~Exists(calls[p].req) /\ UNCHANGED <<rows, receipts>>
            \/ Exists(calls[p].req) /\ Stored(p)
<1> DEFINE c == calls[p]
<1>1. p \in Procs /\ c \in Call /\ (GatewayCall(c) \/ OperatorCall(c)) /\ c.at = "closing"
  BY DEF TypeInv, TypeOK, Call, CallShape, Procs, FinalizeAction, At
<1>2. c.req \in Requests /\ c.out \in Unsent \cup Answers \cup {"not_started"}
  BY <1>1 DEF GatewayCall, OperatorCall, Answers
<1>3. /\ calls' \in [Procs -> Call] /\ CallShape' /\ Ends(p)
  BY <1>1, ReturnType DEF FinalizeAction, Ends
<1>4. CASE ~Exists(c.req)
  BY <1>2, <1>3, <1>4 DEF FinalizeAction, TypeInv, TypeOK, Call, outside, history
<1>5. CASE Exists(c.req)
  <2>1. rows' = Finalized(c.req, c.out) /\ Store(c.req, rows[c.req].approval, c.out)
    BY <1>5 DEF FinalizeAction
  <2>2. rows' \in [Requests -> Row]  BY <1>2, <2>1, FinalizedType
  <2>3. c.out \in Outcomes  BY <1>2 DEF Unsent, Answers, Outcomes, Final
  <2>4. rows[c.req].approval \in Approvals \cup {None}  BY <1>2 DEF TypeInv, TypeOK
  <2>5. /\ receipts' \in [Requests -> Seq(Outcomes)] /\ named' \subseteq Requests \cup Approvals
        /\ Stored(p)
    BY <1>2, <2>1, <2>3, <2>4, StoreType DEF Stored
  <2>6. TypeInv'
    BY <1>3, <2>2, <2>5 DEF FinalizeAction, TypeInv, TypeOK, Call, Row, outside, history
  <2> QED  BY <1>2, <1>3, <1>5, <2>5, <2>6
<1> QED  BY <1>4, <1>5

(* A process other than a gateway begins a call about a request.           *)
Begins(p, r) == calls'[p].req = r /\ \A q \in Procs \ {p} : calls'[q] = calls[q]

LEMMA ReconcileType ==
  ASSUME TypeInv, NEW o \in Operators, NEW r \in Requests,
         NEW outcome \in {"not_started", "executed", "failed"},
         \/ outcome = "not_started" /\ ReconcileReserved(o, r)
         \/ outcome # "not_started" /\ ReconcileDispatched(o, r, outcome)
  PROVE  /\ TypeInv' /\ Begins(o, r) /\ calls'[o].at = "closing" /\ calls'[o].out = outcome
         /\ calls'[o].approval = None /\ (Running(r) => r \in contested')
<1>1. Reconciled(o, r, outcome)
  BY DEF ReconcileReserved, ReconcileDispatched
<1>2. /\ calls' \in [Procs -> Call] /\ CallShape' /\ Begins(o, r) /\ calls'[o].at = "closing"
      /\ calls'[o].out = outcome /\ calls'[o].approval = None
  <2> DEFINE c == [Idle EXCEPT !.at = "closing", !.req = r, !.out = outcome]
  <2>1. /\ c \in Call /\ c.at = "closing" /\ c.req = r /\ c.approval = None
        /\ c.out = outcome
    BY DEF Call, Idle, Places, Outcomes, Final
  <2> HIDE DEF c
  <2>2. OperatorCall(c)  BY <2>1 DEF OperatorCall
  <2>3. Go(o, c)  BY <1>1 DEF Reconciled, c
  <2> QED  BY <2>1, <2>2, <2>3, BeginType DEF Begins
<1>3. effect' \in [Requests -> {"none", "in_flight", "applied", "refused"}]
  <2>1. UNCHANGED effect \/ QuerySays(r, outcome)
    BY DEF ReconcileReserved, ReconcileDispatched, outside
  <2>2. CASE UNCHANGED effect  BY <2>2 DEF TypeInv, TypeOK
  <2>3. CASE QuerySays(r, outcome)  BY <2>3, QueryType
  <2> QED  BY <2>1, <2>2, <2>3
<1>4. contested' \subseteq Requests /\ (Running(r) => r \in contested')
  BY <1>1 DEF Reconciled, TypeInv, TypeOK
<1> QED
  BY <1>2, <1>3, <1>4
     DEF ReconcileReserved, ReconcileDispatched, TypeInv, TypeOK, Call, store, outside

LEMMA FindType ==
  ASSUME TypeInv, NEW p \in Repairers, NEW r \in Requests, FindInterrupted(p, r)
  PROVE  TypeInv' /\ Begins(p, r) /\ calls'[p].at = "settling"
<1>1. PICK outcome \in {"denied", "cooperative_allow"} :
        Go(p, [Idle EXCEPT !.at = "settling", !.req = r, !.out = outcome])
  BY DEF FindInterrupted
<1>2. /\ calls' \in [Procs -> Call] /\ CallShape' /\ Begins(p, r) /\ calls'[p].at = "settling"
  <2> DEFINE c == [Idle EXCEPT !.at = "settling", !.req = r, !.out = outcome]
  <2>1. c \in Call /\ c.at = "settling" /\ c.req = r /\ c.out = outcome
    BY DEF Call, Idle, Places, Outcomes, Final
  <2> HIDE DEF c
  <2>2. RepairerCall(c)  BY <2>1 DEF RepairerCall
  <2> QED  BY <1>1, <2>1, <2>2, BeginType DEF Begins, c
<1> QED
  BY <1>2 DEF FindInterrupted, TypeInv, TypeOK, Call, store, outside, history

LEMMA SettleType ==
  ASSUME TypeInv, NEW p \in Repairers, SettleAction(p)
  PROVE  /\ TypeInv' /\ Ends(p) /\ calls[p].req \in Requests
         /\ \/ UNCHANGED <<rows, receipts>>
            \/ /\ Open(calls[p].req)
               /\ rows'[calls[p].req].state \in {"denied", "cooperative_allow"}
               /\ rows'[calls[p].req].approval = rows[calls[p].req].approval
               /\ \A q \in Requests \ {calls[p].req} : rows'[q] = rows[q]
               /\ \A q \in Requests :
                    Said(q)' = Said(q) \cup (IF q = calls[p].req THEN {"interrupted"} ELSE {})
<1> DEFINE r == calls[p].req
           n == [rows[r] EXCEPT !.state = calls[p].out, !.closed = TRUE, !.counts = FALSE,
                                !.detail = FALSE]
<1>1. /\ p \in Procs /\ calls[p] \in Call /\ RepairerCall(calls[p]) /\ calls[p].at = "settling"
      /\ rows \in [Requests -> Row]
  BY DEF TypeInv, TypeOK, Call, CallShape, Procs, SettleAction, At, Row
<1>2. r \in Requests /\ calls[p].out \in {"denied", "cooperative_allow"}
  BY <1>1 DEF RepairerCall
<1>3. /\ calls' \in [Procs -> Call] /\ CallShape' /\ Ends(p)
  BY <1>1, ReturnType DEF SettleAction, Ends
<1>4. CASE ~Open(r)
  BY <1>2, <1>3, <1>4 DEF SettleAction, TypeInv, TypeOK, Call, outside, history
<1>5. CASE Open(r)
  <2>1. rows[r] \in Row  BY <1>1, <1>2
  <2>2. rows' = [rows EXCEPT ![r] = n] /\ Store(r, rows[r].approval, "interrupted")
    BY <1>1, <1>2, <1>5 DEF SettleAction
  <2>3. n \in Row /\ n.state = calls[p].out /\ n.approval = rows[r].approval
    BY <1>2, <2>1 DEF Row, Final
  <2>4. /\ rows' \in [Requests -> Row] /\ rows'[r] = n
        /\ \A q \in Requests \ {r} : rows'[q] = rows[q]
    <3> HIDE DEF n
    <3> QED  BY <1>1, <1>2, <2>2, <2>3
  <2>5. "interrupted" \in Outcomes /\ rows[r].approval \in Approvals \cup {None}
    BY <2>1 DEF Outcomes, Row
  <2>6. /\ receipts' \in [Requests -> Seq(Outcomes)] /\ named' \subseteq Requests \cup Approvals
        /\ \A q \in Requests :
             Said(q)' = Said(q) \cup (IF q = r THEN {"interrupted"} ELSE {})
    BY <1>2, <2>2, <2>5, StoreType
  <2>7. TypeInv'
    BY <1>3, <2>4, <2>6 DEF SettleAction, TypeInv, TypeOK, Call, Row, outside, history
  <2> HIDE DEF n
  <2> QED  BY <1>2, <1>3, <1>5, <2>3, <2>4, <2>6, <2>7
<1> QED  BY <1>4, <1>5

LEMMA RemoveType ==
  ASSUME TypeInv, RemoveFinishedState
  PROVE  /\ TypeInv' /\ UNCHANGED calls
         /\ \A r \in Requests : rows'[r] = IF Removable(r) THEN NoRow ELSE rows[r]
<1>1. rows' \in [Requests -> Row]
  BY IdleType DEF RemoveFinishedState, TypeInv, TypeOK, Row
<1> QED
  BY <1>1 DEF RemoveFinishedState, TypeInv, TypeOK, CallShape, Row, outside, history

LEMMA ServiceType ==
  ASSUME TypeInv, NEW r \in Requests, ServiceApplies(r) \/ Expire(r)
  PROVE  TypeInv' /\ UNCHANGED calls
<1>1. CASE ServiceApplies(r)
  BY <1>1 DEF ServiceApplies, TypeInv, TypeOK, CallShape, store, history
<1>2. CASE Expire(r)
  <2>1. Ids(r, rows[r].approval) \subseteq Requests \cup Approvals
    BY DEF Ids, TypeInv, TypeOK
  <2> QED  BY <1>2, <2>1 DEF Expire, TypeInv, TypeOK, CallShape, store, history
<1> QED  BY <1>1, <1>2

(* The actions that do more than move a call.                              *)
Steps ==
  \/ \E g \in Gateways :
       \/ \E s \in Submissions : Submit(g, s)
       \/ Observe(g) \/ ReserveAction(g) \/ PrepareDispatch(g) \/ Execute(g) \/ AnswerLost(g)
  \/ \E o \in Operators, r \in Requests :
       \/ ReconcileReserved(o, r)
       \/ \E outcome \in {"executed", "failed"} : ReconcileDispatched(o, r, outcome)
  \/ \E p \in Gateways \cup Operators : FinalizeAction(p)
  \/ \E p \in Repairers : SettleAction(p) \/ \E r \in Requests : FindInterrupted(p, r)
  \/ RemoveFinishedState
  \/ \E r \in Requests : ServiceApplies(r) \/ Expire(r)

LEMMA EveryStep ==
  ASSUME TypeInv, [Next]_vars
  PROVE  /\ TypeInv'
         /\ \/ Steps
            \/ QuietStep /\ UNCHANGED guard
            \/ \E g \in Gateways : AskGuard(g) /\ Moves(g) /\ QuietStep
<1>1. ASSUME NEW g \in Gateways,
             \/ Override(g) \/ NoOverride(g) \/ AskGuard(g) \/ SkipGuard(g) \/ LastLook(g)
             \/ ExecuteRefusesInput(g) \/ Answered(g)
      PROVE  TypeInv' /\ QuietStep /\ (UNCHANGED guard \/ (AskGuard(g) /\ Moves(g)))
  BY <1>1, MovesType
     DEF Override, NoOverride, SkipGuard, LastLook, ExecuteRefusesInput, Answered, history
<1>2. ASSUME NEW g \in Gateways, handleAction(g)  PROVE Steps \/ (TypeInv' /\ QuietStep
              /\ (UNCHANGED guard \/ (AskGuard(g) /\ Moves(g))))
  BY <1>1, <1>2, QuietType DEF handleAction, Steps
<1>3. Steps => TypeInv'
  BY SubmitStepType, ObserveType, ReserveType, PrepareType, ExecuteType, AnswerLostType,
     ReconcileType, FinalizeType, SettleType, FindType, RemoveType, ServiceType DEF Steps
<1>4. Next => Steps \/ (\E g \in Gateways : handleAction(g))
              \/ RemoveAuthorizationIds \/ (\E t \in Targets : Kill(t) \/ Resume(t))
              \/ (\E p \in Procs : Crash(p))
  BY DEF Next, Steps, reconcileAction, settleInterruptedActions
<1> QED  BY <1>2, <1>3, <1>4, QuietType

LEMMA InitType == Init => TypeInv
<1> SUFFICES ASSUME Init PROVE TypeInv  OBVIOUS
<1>1. CallShape
  BY DEF Init, CallShape, GatewayCall, OperatorCall, RepairerCall, Idle, Procs
<1>2. rows \in [Requests -> Row] /\ calls \in [Procs -> Call]  BY IdleType DEF Init
<1>3. receipts \in [Requests -> Seq(Outcomes)]  BY DEF Init
<1> QED
  BY <1>1, <1>2, <1>3, ConstantAssumption DEF Init, TypeInv, TypeOK, Row, Call

(* Every table, call and history of the lifecycle has the shape the code   *)
(* gives it, in every reachable state.                                     *)
THEOREM LifecycleTypeCorrect == Spec => []TypeOK
<1>1. TypeInv /\ [Next]_vars => TypeInv'  BY EveryStep
<1>2. TypeInv => TypeOK  BY DEF TypeInv
<1> QED  BY InitType, <1>1, <1>2, PTL DEF Spec

-----------------------------------------------------------------------------
(* What most steps leave as it was.                                        *)

(* A gateway's call after its reservation: still undecided, about to       *)
(* store that nothing was sent, or responsible for a dispatch.             *)
Past(g) == calls[g].at \in Undispatched \cup Sending \cup {"closing"}
NotSending(g) == calls[g].at \in Undispatched \/ (At(g, "closing") /\ calls[g].out \in Unsent)
OwnsDispatch(g) == calls[g].at \in Sending \/ (At(g, "closing") /\ calls[g].out \in Answers)

(* The dispatch marker is written.                                         *)
Marks(g) == /\ At(g, "cleared") /\ calls'[g].at = "dispatching"
            /\ rows'[calls[g].req].state = "dispatching"

(* No call gets past a reservation.                                        *)
PastKept ==
  \A g \in Gateways : Past(g)' =>
    /\ Past(g) /\ calls'[g].req = calls[g].req /\ calls'[g].kind = calls[g].kind
    /\ NotSending(g)' => NotSending(g)
    /\ calls'[g].at = "dispatching" => calls[g].at \in {"cleared", "dispatching"}
    /\ calls[g].at = "closing" => calls'[g] = calls[g]
    /\ calls'[g].at = "cleared" => calls[g].at = "cleared" \/ ~CheckOnly(calls[g])
    /\ At(g, "waiting") /\ calls'[g].at = "closing" /\ calls'[g].out # "executed" => AnswerLost(g)
    /\ OwnsDispatch(g)' => OwnsDispatch(g) \/ Marks(g)

(* No call takes up a request or an approval.                              *)
NoNewIds ==
  \A p \in Gateways \cup Operators :
    calls'[p].req \in {calls[p].req, None} /\ calls'[p].approval \in {calls[p].approval, None}

(* No row comes or goes.                                                   *)
RowsGoOn ==
  \A r \in Requests :
    /\ Exists(r)' = Exists(r) /\ rows'[r].approval = rows[r].approval
    /\ rows'[r].state = "reserved" => rows[r].state = "reserved"
    /\ rows'[r].state \in Held =>
         rows[r].state \in Held \/ \E p \in Gateways \cup Operators : calls[p].req = r

LEMMA MovesFrame ==
  ASSUME TypeInv, NEW g \in Gateways, Moves(g)
  PROVE  PastKept /\ NoNewIds
<1>1. g \in Procs /\ Gateways \subseteq Procs /\ Operators \subseteq Procs  BY DEF Procs
<1>2. /\ Past(g) /\ calls'[g].req = calls[g].req /\ calls'[g].kind = calls[g].kind
      /\ NotSending(g)' => NotSending(g)
      /\ calls'[g].at = "dispatching" => calls[g].at \in {"cleared", "dispatching"}
      /\ calls[g].at # "closing"
      /\ calls'[g].at = "cleared" => calls[g].at = "cleared" \/ ~CheckOnly(calls[g])
      /\ At(g, "waiting") /\ calls'[g].at = "closing" /\ calls'[g].out # "executed" => AnswerLost(g)
      /\ OwnsDispatch(g)' => OwnsDispatch(g) \/ Marks(g)
  BY DEF Moves, Onward, Past, NotSending, OwnsDispatch, At, Undispatched, Sending, Unsent, Answers
<1>3. \A q \in Procs \ {g} : calls'[q] = calls[q]  BY DEF Moves, Onward
<1>4. NoNewIds  BY <1>1, <1>3 DEF NoNewIds, Moves, Onward
<1>5. PastKept  BY <1>1, <1>2, <1>3 DEF PastKept, Past, NotSending, OwnsDispatch, At
<1> QED  BY <1>4, <1>5

LEMMA EndsFrame ==
  ASSUME NEW p \in Procs, Ends(p)
  PROVE  PastKept /\ NoNewIds
<1>1. Gateways \subseteq Procs /\ Operators \subseteq Procs  BY DEF Procs
<1>2. /\ calls'[p].at = "idle" /\ calls'[p].req = None /\ calls'[p].approval = None
      /\ \A q \in Procs \ {p} : calls'[q] = calls[q]
  BY DEF Ends, Idle
<1>3. NoNewIds  BY <1>1, <1>2 DEF NoNewIds
<1>4. PastKept
  BY <1>1, <1>2 DEF PastKept, Past, NotSending, OwnsDispatch, At, Undispatched, Sending
<1> QED  BY <1>3, <1>4

LEMMA SameFrame == ASSUME UNCHANGED calls PROVE PastKept /\ NoNewIds
BY DEF PastKept, NoNewIds, Past, NotSending, OwnsDispatch, At

LEMMA QuietFrame == ASSUME TypeInv, QuietStep PROVE PastKept /\ NoNewIds
BY MovesFrame, EndsFrame, SameFrame DEF QuietStep

(* A gateway's call that goes on with its dispatch.                        *)
LEMMA OnwardFrame ==
  ASSUME TypeInv, NEW g \in Gateways, Onward(g), calls[g].at \in {"cleared", "dispatching", "waiting"},
         \/ Marks(g)
         \/ calls[g].at # "cleared" /\ calls'[g].at = "waiting"
         \/ AnswerLost(g) /\ calls'[g].at = "closing" /\ calls'[g].out \in Answers
  PROVE  PastKept /\ NoNewIds
<1>1. g \in Procs /\ Gateways \subseteq Procs /\ Operators \subseteq Procs  BY DEF Procs
<1>2. /\ Past(g) /\ calls'[g].req = calls[g].req /\ calls'[g].kind = calls[g].kind
      /\ NotSending(g)' => NotSending(g)
      /\ calls'[g].at = "dispatching" => calls[g].at \in {"cleared", "dispatching"}
      /\ calls[g].at # "closing"
      /\ calls'[g].at = "cleared" => calls[g].at = "cleared" \/ ~CheckOnly(calls[g])
      /\ At(g, "waiting") /\ calls'[g].at = "closing" /\ calls'[g].out # "executed" => AnswerLost(g)
      /\ OwnsDispatch(g)' => OwnsDispatch(g) \/ Marks(g)
  <2>1. AnswerLost(g) => At(g, "waiting")  BY DEF AnswerLost
  <2> QED
    BY <2>1 DEF Onward, Past, NotSending, OwnsDispatch, At, Undispatched, Sending, Unsent, Answers, Marks
<1>3. \A q \in Procs \ {g} : calls'[q] = calls[q]  BY DEF Onward
<1>4. NoNewIds  BY <1>1, <1>3 DEF NoNewIds, Onward
<1>5. PastKept  BY <1>1, <1>2, <1>3 DEF PastKept, Past, NotSending, OwnsDispatch, At
<1> QED  BY <1>4, <1>5

LEMMA SubmitFrame ==
  ASSUME TypeInv, NEW g \in Gateways, NEW s \in Submissions, Submit(g, s)
  PROVE  PastKept
<1>1. g \in Procs /\ Gateways \subseteq Procs  BY DEF Procs
<1>2. ~Past(g)'
  BY SubmitType DEF Past, Undispatched, Sending
<1>3. \A q \in Procs \ {g} : calls'[q] = calls[q]  BY SubmitType
<1> QED  BY <1>1, <1>2, <1>3 DEF PastKept, Past, NotSending, OwnsDispatch, At

LEMMA BeginsFrame ==
  ASSUME NEW p \in Operators \cup Repairers, NEW r, Begins(p, r)
  PROVE  PastKept /\ (p \in Repairers => NoNewIds)
<1>1. p \notin Gateways /\ (p \in Repairers => p \notin Operators) /\ Gateways \subseteq Procs
      /\ Operators \subseteq Procs
  BY ProcessAssumption DEF Procs
<1> QED
  BY <1>1 DEF Begins, PastKept, NoNewIds, Past, NotSending, OwnsDispatch, At

LEMMA PastFrame ==
  ASSUME TypeInv, [Next]_vars, \A g \in Gateways : ~ReserveAction(g)
  PROVE  PastKept
<1>1. CASE QuietStep  BY <1>1, QuietFrame
<1>2. ASSUME NEW g \in Gateways, Observe(g)  PROVE PastKept
  BY <1>2, ObserveType, EndsFrame DEF Procs
<1>3. ASSUME NEW g \in Gateways, PrepareDispatch(g)  PROVE PastKept
  BY <1>3, PrepareType, QuietFrame, OnwardFrame DEF PrepareDispatch, At, Marks
<1>4. ASSUME NEW g \in Gateways, Execute(g)  PROVE PastKept
  BY <1>4, ExecuteType, OnwardFrame DEF Execute, At, Sending
<1>5. ASSUME NEW g \in Gateways, AnswerLost(g)  PROVE PastKept
  BY <1>5, AnswerLostType, OnwardFrame DEF AnswerLost, At
<1>6. ASSUME NEW o \in Operators, NEW r \in Requests,
             \/ ReconcileReserved(o, r)
             \/ \E outcome \in {"executed", "failed"} : ReconcileDispatched(o, r, outcome)
      PROVE  PastKept
  BY <1>6, ReconcileType, BeginsFrame
<1>7. ASSUME NEW p \in Gateways \cup Operators, FinalizeAction(p)  PROVE PastKept
  BY <1>7, FinalizeType, EndsFrame DEF Procs
<1>8. ASSUME NEW p \in Repairers, SettleAction(p)  PROVE PastKept
  BY <1>8, SettleType, EndsFrame DEF Procs
<1>9. ASSUME NEW p \in Repairers, NEW r \in Requests, FindInterrupted(p, r)  PROVE PastKept
  BY <1>9, FindType, BeginsFrame
<1>10. CASE RemoveFinishedState  BY <1>10, RemoveType, SameFrame
<1>11. ASSUME NEW r \in Requests, ServiceApplies(r) \/ Expire(r)  PROVE PastKept
  BY <1>11, ServiceType, SameFrame
<1> QED
  BY <1>1, <1>2, <1>3, <1>4, <1>5, <1>6, <1>7, <1>8, <1>9, <1>10, <1>11, EveryStep, SubmitFrame
     DEF Steps

LEMMA IdsFrame ==
  ASSUME TypeInv, [Next]_vars, \A g \in Gateways, s \in Submissions : ~Submit(g, s),
         \A o \in Operators, r \in Requests :
           /\ ~ReconcileReserved(o, r)
           /\ \A outcome \in {"executed", "failed"} : ~ReconcileDispatched(o, r, outcome)
  PROVE  NoNewIds
<1>1. CASE QuietStep  BY <1>1, QuietFrame
<1>2. ASSUME NEW g \in Gateways, Observe(g)  PROVE NoNewIds
  BY <1>2, ObserveType, EndsFrame DEF Procs
<1>3. ASSUME NEW g \in Gateways, PrepareDispatch(g)  PROVE NoNewIds
  BY <1>3, PrepareType, QuietFrame, OnwardFrame DEF PrepareDispatch, At, Marks
<1>4. ASSUME NEW g \in Gateways, Execute(g)  PROVE NoNewIds
  BY <1>4, ExecuteType, OnwardFrame DEF Execute, At, Sending
<1>5. ASSUME NEW g \in Gateways, AnswerLost(g)  PROVE NoNewIds
  BY <1>5, AnswerLostType, OnwardFrame DEF AnswerLost, At
<1>6. ASSUME NEW g \in Gateways, ReserveAction(g)  PROVE NoNewIds
  BY <1>6, ReserveType DEF Onward, NoNewIds, Procs
<1>7. ASSUME NEW p \in Gateways \cup Operators, FinalizeAction(p)  PROVE NoNewIds
  BY <1>7, FinalizeType, EndsFrame DEF Procs
<1>8. ASSUME NEW p \in Repairers, SettleAction(p)  PROVE NoNewIds
  BY <1>8, SettleType, EndsFrame DEF Procs
<1>9. ASSUME NEW p \in Repairers, NEW r \in Requests, FindInterrupted(p, r)  PROVE NoNewIds
  BY <1>9, FindType, BeginsFrame
<1>10. CASE RemoveFinishedState  BY <1>10, RemoveType, SameFrame
<1>11. ASSUME NEW r \in Requests, ServiceApplies(r) \/ Expire(r)  PROVE NoNewIds
  BY <1>11, ServiceType, SameFrame
<1> QED
  BY <1>1, <1>2, <1>3, <1>4, <1>5, <1>6, <1>7, <1>8, <1>9, <1>10, <1>11, EveryStep DEF Steps

LEMMA FinalizeRows ==
  ASSUME TypeInv, NEW p \in Gateways \cup Operators, FinalizeAction(p)
  PROVE  RowsGoOn
<1> DEFINE r == calls[p].req
<1>1. r \in Requests  BY FinalizeType
<1>2. CASE UNCHANGED rows  BY <1>2 DEF RowsGoOn, Exists
<1>3. CASE Exists(r) /\ Stored(p)
  <2>1. calls[p].out \in Unsent \cup Answers \cup {"not_started"}  BY FinalizeType
  <2>2. /\ rows'[r].state = StateOf(calls[p].out) /\ rows'[r].approval = rows[r].approval
        /\ \A q \in Requests \ {r} : rows'[q] = rows[q]
    BY <1>1, <1>3, <2>1, FinalizedType DEF Stored
  <2>3. rows'[r].state \notin {None, "reserved"}
    BY <2>1, <2>2, ConstantAssumption DEF StateOf, Unsent, Answers, Final
  <2> QED  BY <1>1, <1>3, <2>2, <2>3 DEF RowsGoOn, Exists
<1> QED  BY <1>2, <1>3, FinalizeType

LEMMA RowsFrame ==
  ASSUME TypeInv, [Next]_vars, \A g \in Gateways : ~ReserveAction(g), ~RemoveFinishedState
  PROVE  RowsGoOn /\ UNCHANGED consumed
<1>1. CASE UNCHANGED <<rows, consumed>>  BY <1>1 DEF RowsGoOn, Exists
<1>2. ASSUME NEW g \in Gateways, PrepareDispatch(g)  PROVE RowsGoOn /\ UNCHANGED consumed
  <2>1. CASE QuietStep  BY <1>1, <2>1 DEF QuietStep
  <2>2. CASE ~QuietStep
    <3> DEFINE r == calls[g].req
    <3>1. /\ r \in Requests /\ rows[r].state = "reserved" /\ rows'[r].state = "dispatching"
          /\ rows'[r].approval = rows[r].approval
          /\ \A q \in Requests \ {r} : rows'[q] = rows[q]
      BY <1>2, <2>2, PrepareType
    <3> QED  BY <1>2, <3>1, ConstantAssumption DEF PrepareDispatch, RowsGoOn, Exists, Held
  <2> QED  BY <2>1, <2>2
<1>3. ASSUME NEW p \in Gateways \cup Operators, FinalizeAction(p)
      PROVE  RowsGoOn /\ UNCHANGED consumed
  BY <1>3, FinalizeRows DEF FinalizeAction
<1>4. ASSUME NEW p \in Repairers, SettleAction(p)  PROVE RowsGoOn /\ UNCHANGED consumed
  <2> DEFINE r == calls[p].req
  <2>1. CASE UNCHANGED rows  BY <1>1, <1>4, <2>1 DEF SettleAction
  <2>2. CASE ~UNCHANGED rows
    <3>1. /\ r \in Requests /\ Open(r) /\ rows'[r].state \in {"denied", "cooperative_allow"}
          /\ rows'[r].approval = rows[r].approval
          /\ \A q \in Requests \ {r} : rows'[q] = rows[q]
      BY <1>4, <2>2, SettleType
    <3> QED
      BY <1>4, <3>1, ConstantAssumption DEF SettleAction, RowsGoOn, Exists, Held, Final, Open
  <2> QED  BY <2>1, <2>2
<1>5. Steps => \/ UNCHANGED <<rows, consumed>>
               \/ \E g \in Gateways : PrepareDispatch(g)
               \/ \E p \in Gateways \cup Operators : FinalizeAction(p)
               \/ \E p \in Repairers : SettleAction(p)
  BY DEF Steps, Submit, Observe, Execute, AnswerLost, ReconcileReserved, ReconcileDispatched,
         FindInterrupted, ServiceApplies, Expire, store
<1>6. QuietStep => UNCHANGED <<rows, consumed>>  BY DEF QuietStep
<1> QED  BY <1>1, <1>2, <1>3, <1>4, <1>5, <1>6, EveryStep

-----------------------------------------------------------------------------
(* Reservations: who owns an action, and what is spent or over.            *)

(* The ids in authority_consumptions are those of the rows there are.      *)
Consumption ==
  /\ \A r \in Requests : Exists(r) => <<r, r>> \in consumed
  /\ \A c \in consumed : Exists(c[2]) /\ c[1] \in Ids(c[2], rows[c[2]].approval)

(* What is out of date is finished, and in no call's hands.                *)
ExpiredIsOver ==
  /\ \A r \in Requests \cap expired :
       /\ rows[r].state \notin Held
       /\ Exists(r) => Ids(r, rows[r].approval) \subseteq expired
  /\ \A id \in expired, p \in Gateways \cup Operators : id \notin {calls[p].req, calls[p].approval}

(* One call owns an action past its reservation.                           *)
OneOwner ==
  /\ \A g \in Gateways : Past(g) => Exists(calls[g].req)
  /\ \A g, h \in Gateways : Past(g) /\ Past(h) /\ calls[g].req = calls[h].req => g = h

OwnerInv == TypeInv /\ Consumption /\ ExpiredIsOver /\ OneOwner

LEMMA ExpiredType == TypeInv => expired \subseteq Requests \cup Approvals /\ None \notin expired
BY ConstantAssumption DEF TypeInv, TypeOK

LEMMA PastReq ==
  ASSUME TypeInv, NEW g \in Gateways, Past(g)
  PROVE  calls[g].req \in Requests
BY DEF TypeInv, CallShape, GatewayCall, Past, Undispatched, Sending

LEMMA ReserveOwner ==
  ASSUME OwnerInv, NEW g \in Gateways, ReserveAction(g)
  PROVE  OwnerInv'
<1>1. TypeInv  BY DEF OwnerInv
<1> PICK r \in Requests, a \in Approvals \cup {None} : r = calls[g].req /\ a = calls[g].approval
  BY <1>1, ReserveType
<1>2. /\ TypeInv' /\ Onward(g)
      /\ rows'[r].state \in {"reserved", "denied"} /\ rows'[r].approval = a
      /\ \A q \in Requests \ {r} : rows'[q] = rows[q]
  <2>1. PICK allow \in BOOLEAN : rows'[r] = Reserved(calls[g], allow)  BY <1>1, ReserveType
  <2>2. rows'[r].state \in {"reserved", "denied"} /\ rows'[r].approval = a
    BY <2>1 DEF Reserved
  <2> QED  BY <1>1, <2>2, ReserveType
<1>3. ~Exists(r) /\ consumed' = consumed \cup (Ids(r, a) \X {r}) /\ UNCHANGED expired
  BY DEF ReserveAction, Duplicate, outside
<1>4. Exists(r)' /\ \A q \in Requests \ {r} : Exists(q)' = Exists(q)
  BY <1>2, ConstantAssumption DEF Exists, Held, Final
<1>5. consumed \subseteq (Requests \cup Approvals) \X Requests  BY <1>1 DEF TypeInv, TypeOK
<1>6. Consumption'
  <2>1. <<r, r>> \in consumed'  BY <1>2, <1>3, ConstantAssumption DEF Ids
  <2>2. \A q \in Requests : Exists(q)' => <<q, q>> \in consumed'
    BY <1>3, <1>4, <2>1 DEF OwnerInv, Consumption
  <2>3. ASSUME NEW c \in consumed'
        PROVE  Exists(c[2])' /\ c[1] \in Ids(c[2], rows'[c[2]].approval)
    <3>1. CASE c \in consumed
      <4>1. c[2] \in Requests /\ c[2] # r  BY <1>3, <1>5, <3>1 DEF OwnerInv, Consumption
      <4> QED  BY <1>2, <1>4, <3>1, <4>1 DEF OwnerInv, Consumption, Exists
    <3>2. CASE c \in Ids(r, a) \X {r}  BY <1>2, <1>4, <3>2 DEF Exists
    <3> QED  BY <1>3, <2>3, <3>1, <3>2
  <2> QED  BY <2>2, <2>3 DEF Consumption, Ids
<1>7. r \notin expired  BY DEF OwnerInv, ExpiredIsOver
<1>8. NoNewIds  BY <1>2 DEF Onward, NoNewIds, Procs
<1>9. ExpiredIsOver'
  <2>1. \A q \in Requests \cap expired' :
          /\ rows'[q].state \notin Held
          /\ Exists(q)' => Ids(q, rows'[q].approval) \subseteq expired'
    BY <1>2, <1>3, <1>4, <1>7 DEF OwnerInv, ExpiredIsOver
  <2>2. \A id \in expired', p \in Gateways \cup Operators :
          id \notin {calls'[p].req, calls'[p].approval}
    BY <1>1, <1>3, <1>8, ExpiredType DEF OwnerInv, ExpiredIsOver, NoNewIds
  <2> QED  BY <2>1, <2>2 DEF ExpiredIsOver, Ids
<1>10. OneOwner'
  <2>1. g \in Procs /\ Gateways \subseteq Procs  BY DEF Procs
  <2>2. \A h \in Gateways \ {g} : /\ Past(h)' = Past(h) /\ calls'[h] = calls[h]
                                  /\ Past(h) => calls[h].req # r /\ calls[h].req \in Requests
    BY <1>1, <1>2, <1>3, <2>1, PastReq DEF Onward, Past, OwnerInv, OneOwner
  <2>3. calls'[g].req = r  BY <1>2 DEF Onward
  <2> QED  BY <1>4, <2>2, <2>3 DEF OneOwner, OwnerInv
<1> QED  BY <1>2, <1>6, <1>9, <1>10 DEF OwnerInv

LEMMA RemoveOwner ==
  ASSUME OwnerInv, RemoveFinishedState
  PROVE  OwnerInv'
<1>1. TypeInv' /\ UNCHANGED calls
      /\ \A r \in Requests : rows'[r] = IF Removable(r) THEN NoRow ELSE rows[r]
  BY RemoveType DEF OwnerInv
<1>2. consumed' = {c \in consumed : ~Removable(c[2])} /\ UNCHANGED expired
  BY DEF RemoveFinishedState, outside
<1>3. \A r \in Requests : /\ Removable(r) => rows'[r].state = None /\ r \in expired
                          /\ ~Removable(r) => rows'[r] = rows[r]
  BY <1>1 DEF NoRow, Removable
<1>4. consumed \subseteq (Requests \cup Approvals) \X Requests
  BY DEF OwnerInv, TypeInv, TypeOK
<1>5. Consumption'
  <2>1. ASSUME NEW r \in Requests, Exists(r)'  PROVE <<r, r>> \in consumed'
    <3>1. ~Removable(r) /\ <<r, r>> \in consumed
      BY <1>3, <2>1 DEF OwnerInv, Consumption, Exists
    <3>2. ~Removable(<<r, r>>[2])  BY <3>1
    <3> QED  BY <1>2, <3>1, <3>2
  <2>2. ASSUME NEW c \in consumed'
        PROVE  Exists(c[2])' /\ c[1] \in Ids(c[2], rows'[c[2]].approval)
    <3>1. c \in consumed /\ c[2] \in Requests /\ ~Removable(c[2])  BY <1>2, <1>4, <2>2
    <3> QED  BY <1>3, <3>1 DEF OwnerInv, Consumption, Exists
  <2> QED  BY <2>1, <2>2 DEF Consumption, Ids
<1>6. ExpiredIsOver'
  <2>1. ASSUME NEW r \in Requests \cap expired
        PROVE  /\ rows'[r].state \notin Held
               /\ Exists(r)' => Ids(r, rows'[r].approval) \subseteq expired
    <3>1. CASE Removable(r)  BY <1>3, <3>1, ConstantAssumption DEF Exists
    <3>2. CASE ~Removable(r)  BY <1>3, <3>2 DEF OwnerInv, ExpiredIsOver, Exists
    <3> QED  BY <3>1, <3>2
  <2> QED  BY <1>1, <1>2, <2>1 DEF OwnerInv, ExpiredIsOver, Ids
<1>7. OneOwner'
  <2>1. \A g \in Gateways : Past(g)' = Past(g)  BY <1>1 DEF Past
  <2>2. \A g \in Gateways : Past(g) => Exists(calls[g].req)'
    <3>1. \A g \in Gateways : calls[g].req \notin expired  BY DEF OwnerInv, ExpiredIsOver
    <3> QED  BY <1>1, <1>3, <3>1, PastReq DEF OwnerInv, OneOwner, Exists
  <2> QED  BY <1>1, <2>1, <2>2 DEF OwnerInv, OneOwner
<1> QED  BY <1>1, <1>5, <1>6, <1>7 DEF OwnerInv

(* A time-out of a finished action.                                        *)
LEMMA ExpireOwner ==
  ASSUME OwnerInv, NEW r \in Requests, Expire(r)
  PROVE  ExpiredIsOver'
<1> DEFINE ids == Ids(r, rows[r].approval)
<1>1. /\ rows[r].state \notin Held /\ expired' = expired \cup ids /\ UNCHANGED <<rows, calls>>
      /\ \A p \in Procs : ids \cap {calls[p].req, calls[p].approval} = {}
  BY DEF Expire, store
<1>2. ids \cap Requests = {r}
  BY ConstantAssumption DEF Ids, OwnerInv, TypeInv, TypeOK
<1>3. \A q \in Requests \cap expired' :
        /\ rows'[q].state \notin Held
        /\ Exists(q)' => Ids(q, rows'[q].approval) \subseteq expired'
  <2> SUFFICES ASSUME NEW q \in Requests \cap expired'
               PROVE  /\ rows[q].state \notin Held
                      /\ Exists(q) => Ids(q, rows[q].approval) \subseteq expired'
    BY <1>1 DEF Exists
  <2>1. CASE q = r  BY <1>1, <2>1
  <2>2. CASE q # r  BY <1>1, <1>2, <2>2 DEF OwnerInv, ExpiredIsOver
  <2> QED  BY <2>1, <2>2
<1>4. \A id \in expired', p \in Gateways \cup Operators : id \notin {calls'[p].req, calls'[p].approval}
  BY <1>1 DEF OwnerInv, ExpiredIsOver, Procs
<1> QED  BY <1>3, <1>4 DEF ExpiredIsOver, Ids

LEMMA OwnerStep == OwnerInv /\ [Next]_vars => OwnerInv'
<1> SUFFICES ASSUME OwnerInv, [Next]_vars PROVE OwnerInv'  OBVIOUS
<1>1. CASE \E g \in Gateways : ReserveAction(g)  BY <1>1, ReserveOwner
<1>2. CASE RemoveFinishedState  BY <1>2, RemoveOwner
<1>3. CASE (\A g \in Gateways : ~ReserveAction(g)) /\ ~RemoveFinishedState
  <2>1. TypeInv /\ TypeInv'  BY EveryStep DEF OwnerInv
  <2>2. PastKept /\ RowsGoOn /\ UNCHANGED consumed  BY <1>3, <2>1, PastFrame, RowsFrame
  <2>3. Consumption'
    <3>1. consumed \subseteq (Requests \cup Approvals) \X Requests
      BY <2>1 DEF TypeInv, TypeOK
    <3>2. \A c \in consumed : c[2] \in Requests  BY <3>1
    <3> QED  BY <2>2, <3>2 DEF OwnerInv, Consumption, RowsGoOn, Ids, Exists
  <2>4. OneOwner'
    BY <2>1, <2>2, PastReq DEF OwnerInv, OneOwner, PastKept, RowsGoOn, Exists
  <2>5. ASSUME UNCHANGED expired,
               \A p \in Gateways \cup Operators : \A id \in {calls'[p].req, calls'[p].approval} :
                  id \in expired => id \in {calls[p].req, calls[p].approval}
        PROVE  ExpiredIsOver'
    <3>1. \A r \in Requests \cap expired :
            /\ rows'[r].state \notin Held
            /\ Exists(r)' => Ids(r, rows'[r].approval) \subseteq expired
      BY <2>2 DEF OwnerInv, ExpiredIsOver, RowsGoOn, Exists
    <3> QED  BY <2>5, <3>1 DEF OwnerInv, ExpiredIsOver, Ids
  <2>6. CASE \E r \in Requests : Expire(r)
    BY <2>1, <2>3, <2>4, <2>6, ExpireOwner DEF OwnerInv
  <2>7. ASSUME NEW g \in Gateways, NEW s \in Submissions, Submit(g, s)
        PROVE  ExpiredIsOver'
    <3>1. /\ \A id \in Ids(s.req, s.approval) : id \notin expired
          /\ UNCHANGED expired
      BY <2>7 DEF Submit, Fresh, outside
    <3>2. s.req \notin expired /\ s.approval \notin expired
      BY <2>1, <3>1, ConstantAssumption, ExpiredType DEF Ids
    <3>3. /\ calls'[g].req = s.req /\ calls'[g].approval = s.approval
          /\ \A q \in Procs \ {g} : calls'[q] = calls[q]
      BY <2>1, <2>7, SubmitType
    <3> QED  BY <2>5, <3>1, <3>2, <3>3 DEF Procs
  <2>8. ASSUME NEW o \in Operators, NEW r \in Requests,
               \/ ReconcileReserved(o, r)
               \/ \E outcome \in {"executed", "failed"} : ReconcileDispatched(o, r, outcome)
        PROVE  ExpiredIsOver'
    <3>1. Begins(o, r) /\ calls'[o].approval = None  BY <2>1, <2>8, ReconcileType
    <3>2. rows[r].state \in Held /\ UNCHANGED expired
      BY <2>8 DEF ReconcileReserved, ReconcileDispatched, Held, outside
    <3>3. r \notin expired /\ None \notin expired
      BY <2>1, <3>2, ExpiredType DEF OwnerInv, ExpiredIsOver
    <3> QED  BY <2>5, <3>1, <3>2, <3>3 DEF Begins, Procs
  <2>9. CASE /\ \A r \in Requests : ~Expire(r)
             /\ \A g \in Gateways, s \in Submissions : ~Submit(g, s)
             /\ \A o \in Operators, r \in Requests :
                  /\ ~ReconcileReserved(o, r)
                  /\ \A outcome \in {"executed", "failed"} : ~ReconcileDispatched(o, r, outcome)
    <3>1. NoNewIds /\ None \notin expired  BY <2>1, <2>9, IdsFrame, ExpiredType
    <3>2. UNCHANGED expired
      <4>1. Steps => UNCHANGED expired
        BY <1>3, <2>9
           DEF Steps, Observe, PrepareDispatch, Execute, AnswerLost, FinalizeAction, SettleAction,
               FindInterrupted, ServiceApplies, outside
      <4> QED  BY <2>1, <4>1, EveryStep DEF QuietStep
    <3>3. \A p \in Gateways \cup Operators : \A id \in {calls'[p].req, calls'[p].approval} :
            id \in expired => id \in {calls[p].req, calls[p].approval}
      BY <3>1 DEF NoNewIds
    <3> QED  BY <2>1, <2>3, <2>4, <2>5, <3>2, <3>3 DEF OwnerInv
  <2> QED  BY <2>1, <2>3, <2>4, <2>6, <2>7, <2>8, <2>9 DEF OwnerInv
<1> QED  BY <1>1, <1>2, <1>3

LEMMA InitOwner == Init => OwnerInv
<1> SUFFICES ASSUME Init PROVE OwnerInv  OBVIOUS
<1>1. Consumption /\ ExpiredIsOver  BY DEF Init, Consumption, ExpiredIsOver, Exists, NoRow
<1>2. \A g \in Gateways : ~Past(g)
  BY DEF Init, Past, Idle, Procs, Undispatched, Sending
<1> QED  BY <1>1, <1>2, InitType DEF OwnerInv, OneOwner

-----------------------------------------------------------------------------
(* Approvals.                                                              *)

TakenIsSpent ==
  \A a \in Approvals : taken[a] <= 1 /\ (taken[a] = 1 => Spent(a) \/ a \in expired)

LEMMA TakenStep == OwnerInv /\ TakenIsSpent /\ [Next]_vars => TakenIsSpent'
<1> SUFFICES ASSUME OwnerInv, TakenIsSpent, [Next]_vars, NEW a \in Approvals
             PROVE  taken'[a] <= 1 /\ (taken'[a] = 1 => Spent(a)' \/ a \in expired')
  BY DEF TakenIsSpent, Spent
<1>1. TypeInv /\ taken[a] \in Nat  BY DEF OwnerInv, TypeInv, TypeOK
<1>2. CASE \E g \in Gateways : ReserveAction(g)
  <2>1. PICK g \in Gateways : ReserveAction(g)  BY <1>2
  <2>2. PICK r \in Requests : r = calls[g].req  BY <1>1, <2>1, ReserveType
  <2>3. /\ consumed' = consumed \cup (Ids(r, calls[g].approval) \X {r}) /\ UNCHANGED expired
        /\ taken'[a] = IF a = calls[g].approval THEN taken[a] + 1 ELSE taken[a]
        /\ \A id \in Ids(r, calls[g].approval) : ~Spent(id)
    BY <2>1, <2>2 DEF ReserveAction, Duplicate, outside
  <2>4. Spent(a) => Spent(a)'  BY <2>3 DEF Spent
  <2>5. CASE a = calls[g].approval
    <3>1. a \in Ids(r, calls[g].approval)  BY <2>5, ConstantAssumption DEF Ids
    <3>2. a \notin expired  BY <2>5 DEF OwnerInv, ExpiredIsOver
    <3>3. taken[a] = 0  BY <1>1, <2>3, <3>1, <3>2 DEF TakenIsSpent
    <3>4. <<a, r>> \in consumed'  BY <2>3, <3>1
    <3> QED  BY <2>3, <2>5, <3>3, <3>4 DEF Spent
  <2> QED  BY <2>3, <2>4, <2>5 DEF TakenIsSpent
<1>3. CASE RemoveFinishedState
  <2>1. /\ consumed' = {c \in consumed : ~Removable(c[2])} /\ UNCHANGED <<expired, taken>>
    BY <1>3 DEF RemoveFinishedState, outside, history
  <2>2. ASSUME NEW r \in Requests, <<a, r>> \in consumed, Removable(r)  PROVE a \in expired
    BY <2>2 DEF OwnerInv, Consumption, ExpiredIsOver, Removable, Exists
  <2>3. ASSUME NEW r \in Requests, <<a, r>> \in consumed, ~Removable(r)
        PROVE  <<a, r>> \in consumed'
    <3>1. ~Removable(<<a, r>>[2])  BY <2>3
    <3> QED  BY <2>1, <2>3, <3>1
  <2> QED  BY <2>1, <2>2, <2>3 DEF TakenIsSpent, Spent
<1>4. CASE (\A g \in Gateways : ~ReserveAction(g)) /\ ~RemoveFinishedState
  <2>1. UNCHANGED consumed  BY <1>1, <1>4, RowsFrame
  <2>2. UNCHANGED taken /\ expired \subseteq expired'
    <3>1. Steps => UNCHANGED taken /\ expired \subseteq expired'
      BY <1>4 DEF Steps, Submit, Observe, PrepareDispatch, Execute, AnswerLost, ReconcileReserved,
                  ReconcileDispatched, FinalizeAction, SettleAction, FindInterrupted, ServiceApplies,
                  Expire, outside, history
    <3> QED  BY <1>1, <3>1, EveryStep DEF QuietStep
  <2> QED  BY <2>1, <2>2 DEF TakenIsSpent, Spent
<1> QED  BY <1>2, <1>3, <1>4

(* A signed approval is taken by one action, however the requests that     *)
(* carry it overlap and whatever dies, and still after the records of that *)
(* action are removed.                                                     *)
THEOREM ApprovalOnce == Spec => []ApprovalTakenOnce
<1>1. Init => OwnerInv /\ TakenIsSpent  BY InitOwner DEF Init, TakenIsSpent
<1>2. OwnerInv /\ TakenIsSpent /\ [Next]_vars => OwnerInv' /\ TakenIsSpent'
  BY OwnerStep, TakenStep
<1>3. OwnerInv /\ TakenIsSpent => ApprovalTakenOnce  BY DEF TakenIsSpent, ApprovalTakenOnce
<1> QED  BY <1>1, <1>2, <1>3, PTL DEF Spec

-----------------------------------------------------------------------------
(* Dispatches: what is sent, and what the boundary refused.                *)

Unborn(r) == ~Exists(r) /\ r \notin expired

(* Nothing was sent for an action before its dispatch; the marker of one   *)
(* is never taken back to a reservation.                                   *)
SentOnce ==
  /\ \A r \in Requests : sent[r] <= 1
  /\ \A r \in Requests : Unborn(r) \/ rows[r].state = "reserved" => sent[r] = 0
  /\ \A g \in Gateways : NotSending(g) \/ At(g, "dispatching") => sent[calls[g].req] = 0
  /\ \A g \in Gateways : OwnsDispatch(g) => rows[calls[g].req].state # "reserved"

LEMMA SendingPast ==
  ASSUME NEW g
  PROVE  NotSending(g) \/ OwnsDispatch(g) \/ At(g, "dispatching") => Past(g)
BY DEF NotSending, OwnsDispatch, Past, At, Undispatched, Sending

(* A step that sends nothing and reserves nothing.                         *)
LEMMA UnsentStep ==
  ASSUME OwnerInv, SentOnce, PastKept, UNCHANGED sent,
         \A r \in Requests : rows'[r].state = "reserved" => rows[r].state = "reserved",
         \A r \in Requests : Unborn(r)' => Unborn(r),
         \A g \in Gateways : OwnsDispatch(g) => rows'[calls[g].req].state # "reserved"
  PROVE  SentOnce'
<1>1. \A r \in Requests : Unborn(r)' \/ rows'[r].state = "reserved" => sent'[r] = 0
  BY DEF SentOnce
<1>2. ASSUME NEW g \in Gateways, NotSending(g)' \/ At(g, "dispatching")'
      PROVE  sent'[calls'[g].req] = 0
  <2>1. Past(g)'  BY <1>2 DEF NotSending, At, Past, Undispatched, Sending
  <2>2. calls'[g].req = calls[g].req /\ (NotSending(g) \/ At(g, "dispatching"))
    BY <1>2, <2>1 DEF PastKept, NotSending, At, Undispatched
  <2> QED  BY <2>2 DEF SentOnce
<1>3. ASSUME NEW g \in Gateways, OwnsDispatch(g)'  PROVE rows'[calls'[g].req].state # "reserved"
  <2>1. Past(g)'  BY <1>3 DEF OwnsDispatch, At, Past, Sending
  <2>2. /\ calls'[g].req = calls[g].req
        /\ OwnsDispatch(g) \/ Marks(g)
    BY <1>3, <2>1 DEF PastKept
  <2> QED  BY <1>3, <2>2 DEF Marks
<1> QED  BY <1>1, <1>2, <1>3 DEF SentOnce

LEMMA ReserveSent ==
  ASSUME OwnerInv, SentOnce, NEW g \in Gateways, ReserveAction(g)
  PROVE  SentOnce'
<1>1. TypeInv  BY DEF OwnerInv
<1> PICK r \in Requests : r = calls[g].req  BY <1>1, ReserveType
<1>2. /\ Onward(g) /\ UNCHANGED <<sent, expired>> /\ ~Exists(r) /\ r \notin expired
      /\ \A q \in Requests \ {r} : rows'[q] = rows[q]
      /\ \/ calls'[g].at \in {"judged", "policy_denied"}
         \/ calls'[g].at = "closing" /\ calls'[g].out \in {"denied", "observed_after"}
  BY <1>1, ReserveType
     DEF ReserveAction, Duplicate, outside, OwnerInv, ExpiredIsOver
<1>3. sent[r] = 0  BY <1>2 DEF SentOnce, Unborn
<1>4. \A q \in Requests : Unborn(q)' \/ rows'[q].state = "reserved" => sent'[q] = 0
  BY <1>2, <1>3 DEF SentOnce, Unborn, Exists
<1>5. g \in Procs /\ Gateways \subseteq Procs  BY DEF Procs
<1>6. ~OwnsDispatch(g)' /\ calls'[g].req = r
  BY <1>2 DEF OwnsDispatch, At, Sending, Answers, Onward
<1>7. ASSUME NEW h \in Gateways, h # g
      PROVE  /\ NotSending(h)' \/ At(h, "dispatching")' => sent'[calls'[h].req] = 0
             /\ OwnsDispatch(h)' => rows'[calls'[h].req].state # "reserved"
  <2>1. calls'[h] = calls[h]  BY <1>2, <1>5, <1>7 DEF Onward
  <2>2. Past(h) => calls[h].req \in Requests \ {r}
    BY <1>1, <1>2, PastReq DEF OwnerInv, OneOwner
  <2>3. /\ NotSending(h)' = NotSending(h) /\ At(h, "dispatching")' = At(h, "dispatching")
        /\ OwnsDispatch(h)' = OwnsDispatch(h)
    BY <2>1 DEF NotSending, OwnsDispatch, At
  <2> QED  BY <1>2, <2>1, <2>2, <2>3, SendingPast DEF SentOnce
<1> QED  BY <1>2, <1>3, <1>4, <1>6, <1>7 DEF SentOnce

LEMMA ExecuteSent ==
  ASSUME OwnerInv, SentOnce, NEW g \in Gateways, Execute(g)
  PROVE  SentOnce'
<1>1. TypeInv  BY DEF OwnerInv
<1> PICK r \in Requests : r = calls[g].req  BY <1>1, ExecuteType
<1>2. /\ Onward(g) /\ calls'[g].at = "waiting" /\ At(g, "dispatching")
      /\ UNCHANGED <<rows, expired>>
      /\ sent' = [sent EXCEPT ![r] = @ + 1] /\ sent[r] = 0
  BY <1>1, ExecuteType DEF Execute, store, SentOnce
<1>3. /\ sent'[r] = 1 /\ \A q \in Requests \ {r} : sent'[q] = sent[q]
  BY <1>1, <1>2 DEF TypeInv, TypeOK
<1>4. Past(g) /\ Exists(r) /\ rows[r].state # "reserved"
  BY <1>2 DEF Past, At, Sending, OwnerInv, OneOwner, SentOnce, OwnsDispatch
<1>5. \A q \in Requests : Unborn(q)' \/ rows'[q].state = "reserved" => sent'[q] = 0
  BY <1>2, <1>3, <1>4 DEF SentOnce, Unborn, Exists
<1>6. g \in Procs /\ Gateways \subseteq Procs  BY DEF Procs
<1>7. ~NotSending(g)' /\ ~At(g, "dispatching")' /\ calls'[g].req = r
  BY <1>2 DEF NotSending, At, Undispatched, Onward
<1>8. ASSUME NEW h \in Gateways, h # g
      PROVE  /\ NotSending(h)' \/ At(h, "dispatching")' => sent'[calls'[h].req] = 0
             /\ OwnsDispatch(h)' => rows'[calls'[h].req].state # "reserved"
  <2>1. calls'[h] = calls[h]  BY <1>2, <1>6, <1>8 DEF Onward
  <2>2. Past(h) => calls[h].req \in Requests \ {r}
    BY <1>1, <1>4, <1>8, PastReq DEF OwnerInv, OneOwner
  <2>3. /\ NotSending(h)' = NotSending(h) /\ At(h, "dispatching")' = At(h, "dispatching")
        /\ OwnsDispatch(h)' = OwnsDispatch(h)
    BY <2>1 DEF NotSending, OwnsDispatch, At
  <2> QED  BY <1>2, <1>3, <2>1, <2>2, <2>3, SendingPast DEF SentOnce
<1> QED  BY <1>2, <1>3, <1>4, <1>5, <1>7, <1>8 DEF SentOnce

LEMMA SentStep == OwnerInv /\ SentOnce /\ [Next]_vars => SentOnce'
<1> SUFFICES ASSUME OwnerInv, SentOnce, [Next]_vars PROVE SentOnce'  OBVIOUS
<1>1. TypeInv  BY DEF OwnerInv
<1>2. CASE \E g \in Gateways : ReserveAction(g)  BY <1>2, ReserveSent
<1>3. CASE \E g \in Gateways : Execute(g)  BY <1>3, ExecuteSent
<1>4. CASE RemoveFinishedState
  <2>1. /\ UNCHANGED <<calls, sent, expired>>
        /\ \A r \in Requests : rows'[r] = IF Removable(r) THEN NoRow ELSE rows[r]
    BY <1>1, <1>4, RemoveType DEF RemoveFinishedState, outside, history
  <2>2. \A r \in Requests : Removable(r) => r \in expired  BY DEF Removable
  <2>3. "reserved" # None  BY ConstantAssumption DEF Held
  <2>4. \A r \in Requests : /\ rows'[r].state = "reserved" => rows[r].state = "reserved"
                            /\ Unborn(r)' => Unborn(r)
    BY <2>1, <2>2, <2>3 DEF Unborn, Exists, NoRow
  <2>5. \A g \in Gateways : OwnsDispatch(g) => rows'[calls[g].req].state # "reserved"
    BY <1>1, <2>4, SendingPast, PastReq DEF SentOnce
  <2>6. PastKept  BY <2>1, SameFrame
  <2> QED  BY <2>1, <2>4, <2>5, <2>6, UnsentStep
<1>5. CASE /\ \A g \in Gateways : ~ReserveAction(g) /\ ~Execute(g)
           /\ ~RemoveFinishedState
  <2>1. PastKept /\ RowsGoOn  BY <1>1, <1>5, PastFrame, RowsFrame
  <2>2. UNCHANGED sent /\ expired \subseteq expired'
    <3>1. Steps => UNCHANGED sent /\ expired \subseteq expired'
      BY <1>5 DEF Steps, Submit, Observe, PrepareDispatch, AnswerLost, ReconcileReserved,
                  ReconcileDispatched, FinalizeAction, SettleAction, FindInterrupted, ServiceApplies,
                  Expire, outside, history
    <3> QED  BY <1>1, <3>1, EveryStep DEF QuietStep
  <2>3. \A r \in Requests : /\ rows'[r].state = "reserved" => rows[r].state = "reserved"
                            /\ Unborn(r)' => Unborn(r)
    BY <2>1, <2>2 DEF RowsGoOn, Unborn, Exists
  <2>4. \A g \in Gateways : OwnsDispatch(g) => rows'[calls[g].req].state # "reserved"
    BY <1>1, <2>3, SendingPast, PastReq DEF SentOnce
  <2> QED  BY <2>1, <2>2, <2>3, <2>4, UnsentStep
<1> QED  BY <1>2, <1>3, <1>4, <1>5

LEMMA InitSent == Init => SentOnce
<1> SUFFICES ASSUME Init PROVE SentOnce  OBVIOUS
<1>1. \A g \in Gateways : ~Past(g)
  BY DEF Init, Past, Idle, Procs, Undispatched, Sending
<1>2. \A g \in Gateways : ~NotSending(g) /\ ~At(g, "dispatching") /\ ~OwnsDispatch(g)
  BY <1>1, SendingPast
<1> QED  BY <1>2 DEF Init, SentOnce

(* No retry, crash or reconciliation, live ones included, dispatches an    *)
(* action a second time.                                                   *)
THEOREM OneDispatch == Spec => []DispatchedOnce
<1>1. Init => OwnerInv /\ SentOnce  BY InitOwner, InitSent
<1>2. OwnerInv /\ SentOnce /\ [Next]_vars => OwnerInv' /\ SentOnce'  BY OwnerStep, SentStep
<1>3. OwnerInv /\ SentOnce => DispatchedOnce  BY DEF SentOnce, DispatchedOnce
<1> QED  BY <1>1, <1>2, <1>3, PTL DEF Spec

(* A receipt that says the action was let through without a dispatch.      *)
LetThrough(r) == Said(r) \cap {"simulated", "cooperative_allow"} # {}

RefusedStays ==
  /\ \A r \in Requests : Unborn(r) => guard[r] # "refused" /\ ~LetThrough(r)
  /\ \A g \in Gateways : Past(g) => ~LetThrough(calls[g].req)
  /\ \A r \in Requests : guard[r] = "refused" => sent[r] = 0 /\ ~LetThrough(r)
  /\ \A g \in Gateways : Past(g) /\ guard[calls[g].req] = "refused" =>
       At(g, "closing") /\ calls[g].out \in {"denied", "observed_after"}

(* What is said, sent and asked changes in few places.                     *)
LEMMA SaidFrame ==
  ASSUME TypeInv, [Next]_vars, \A p \in Gateways \cup Operators : ~FinalizeAction(p)
  PROVE  \A r \in Requests : LetThrough(r)' => LetThrough(r)
<1>1. CASE UNCHANGED receipts  BY <1>1 DEF LetThrough, Said
<1>2. ASSUME NEW g \in Gateways, Observe(g)
      PROVE  \A r \in Requests : LetThrough(r)' => LetThrough(r)
  BY <1>2, ObserveType DEF LetThrough
<1>3. ASSUME NEW p \in Repairers, SettleAction(p)
      PROVE  \A r \in Requests : LetThrough(r)' => LetThrough(r)
  BY <1>1, <1>3, SettleType DEF LetThrough
<1>4. Steps => \/ UNCHANGED receipts
               \/ \E g \in Gateways : Observe(g)
               \/ \E p \in Repairers : SettleAction(p)
  BY DEF Steps, Submit, ReserveAction, PrepareDispatch, Execute, AnswerLost, ReconcileReserved,
         ReconcileDispatched, FindInterrupted, RemoveFinishedState, ServiceApplies, Expire, store
<1>5. QuietStep => UNCHANGED receipts  BY DEF QuietStep
<1> QED  BY <1>1, <1>2, <1>3, <1>4, <1>5, EveryStep

LEMMA SentFrame ==
  ASSUME TypeInv, [Next]_vars
  PROVE  /\ (\A g \in Gateways : ~Execute(g)) => UNCHANGED sent
         /\ (\A g \in Gateways : ~AskGuard(g)) => UNCHANGED guard
         /\ expired \subseteq expired'
<1>1. Steps => /\ (\A g \in Gateways : ~Execute(g)) => UNCHANGED sent
               /\ UNCHANGED guard /\ expired \subseteq expired'
  BY DEF Steps, Submit, Observe, ReserveAction, PrepareDispatch, Execute, AnswerLost,
         ReconcileReserved, ReconcileDispatched, FinalizeAction, SettleAction, FindInterrupted,
         RemoveFinishedState, ServiceApplies, Expire, outside, history
<1>2. QuietStep => UNCHANGED <<sent, expired>>  BY DEF QuietStep
<1> QED  BY <1>1, <1>2, EveryStep

LEMMA UnbornFrame ==
  ASSUME TypeInv, [Next]_vars
  PROVE  \A r \in Requests : Unborn(r)' => Unborn(r)
<1>1. expired \subseteq expired'  BY SentFrame
<1>2. CASE \E g \in Gateways : ReserveAction(g)
  <2>1. PICK g \in Gateways : ReserveAction(g)  BY <1>2
  <2>2. PICK r \in Requests : r = calls[g].req  BY <2>1, ReserveType
  <2>3. ~Exists(r) /\ UNCHANGED expired /\ \A q \in Requests \ {r} : rows'[q] = rows[q]
    BY <2>1, <2>2, ReserveType DEF ReserveAction, Duplicate, outside
  <2> QED  BY <2>3 DEF Unborn, Exists
<1>3. CASE RemoveFinishedState
  <2>1. \A r \in Requests : rows'[r] = rows[r] \/ r \in expired
    BY <1>3, RemoveType DEF Removable
  <2> QED  BY <1>1, <2>1 DEF Unborn, Exists
<1>4. CASE (\A g \in Gateways : ~ReserveAction(g)) /\ ~RemoveFinishedState
  <2>1. RowsGoOn  BY <1>4, RowsFrame
  <2> QED  BY <1>1, <2>1 DEF RowsGoOn, Unborn, Exists
<1> QED  BY <1>2, <1>3, <1>4

LEMMA ReservePast ==
  ASSUME OwnerInv, NEW g \in Gateways, ReserveAction(g)
  PROVE  /\ Unborn(calls[g].req) /\ calls'[g].req = calls[g].req
         /\ calls[g].req \in Requests
         /\ \A h \in Gateways \ {g} : Past(h)' = Past(h) /\ calls'[h] = calls[h]
<1>1. TypeInv  BY DEF OwnerInv
<1>2. g \in Procs /\ Gateways \subseteq Procs  BY DEF Procs
<1>3. Onward(g) /\ calls[g].req \in Requests  BY <1>1, ReserveType
<1>4. Unborn(calls[g].req)
  BY DEF ReserveAction, Duplicate, Unborn, OwnerInv, ExpiredIsOver
<1> QED  BY <1>2, <1>3, <1>4 DEF Onward, Past

(* The step of a call that asks the boundary nothing: what it sends or     *)
(* lets through was not refused, and is over if it is let through.         *)
LEMMA RefusedKept ==
  ASSUME TypeInv, RefusedStays, PastKept, UNCHANGED guard,
         \A r \in Requests : Unborn(r)' => Unborn(r),
         \A r \in Requests : guard[r] = "refused" => sent'[r] = sent[r],
         \A r \in Requests : LetThrough(r)' =>
           \/ LetThrough(r)
           \/ guard[r] # "refused" /\ Exists(r)' /\ \A g \in Gateways : Past(g)' => calls'[g].req # r
  PROVE  RefusedStays'
<1>1. \A r \in Requests : Unborn(r)' => guard'[r] # "refused" /\ ~LetThrough(r)'
  BY DEF RefusedStays, Unborn
<1>2. \A r \in Requests : guard'[r] = "refused" => sent'[r] = 0 /\ ~LetThrough(r)'
  BY DEF RefusedStays
<1>3. ASSUME NEW g \in Gateways, Past(g)'
      PROVE  /\ \A r \in Requests : r = calls'[g].req => ~LetThrough(r)'
             /\ calls'[g].req \in Requests
             /\ guard'[calls'[g].req] = "refused" =>
                  At(g, "closing")' /\ calls'[g].out \in {"denied", "observed_after"}
  <2>1. Past(g) /\ calls'[g].req = calls[g].req /\ (At(g, "closing") => calls'[g] = calls[g])
    BY <1>3 DEF PastKept, At
  <2>2. calls[g].req \in Requests  BY <2>1, PastReq
  <2>3. \A r \in Requests : r = calls[g].req => ~LetThrough(r)  BY <2>1 DEF RefusedStays
  <2> QED  BY <1>3, <2>1, <2>2, <2>3 DEF RefusedStays, At
<1> QED  BY <1>1, <1>2, <1>3 DEF RefusedStays, LetThrough, Said

LEMMA RefusedStep == OwnerInv /\ SentOnce /\ RefusedStays /\ [Next]_vars => RefusedStays'
<1> SUFFICES ASSUME OwnerInv, SentOnce, RefusedStays, [Next]_vars PROVE RefusedStays'
  OBVIOUS
<1>1. TypeInv /\ OwnerInv'  BY OwnerStep DEF OwnerInv
<1>2. \A r \in Requests : Unborn(r)' => Unborn(r)  BY <1>1, UnbornFrame
<1>3. CASE \E g \in Gateways : ReserveAction(g)
  <2>1. PICK g \in Gateways : ReserveAction(g)  BY <1>3
  <2>2. PICK r \in Requests : r = calls[g].req  BY <1>1, <2>1, ReserveType
  <2>3. UNCHANGED <<sent, guard, receipts>>
    BY <2>1 DEF ReserveAction
  <2>4. \A q \in Requests : LetThrough(q)' = LetThrough(q)  BY <2>3 DEF LetThrough, Said
  <2>5. /\ Unborn(r) /\ calls'[g].req = r
        /\ \A h \in Gateways \ {g} : Past(h)' = Past(h) /\ calls'[h] = calls[h]
    BY <2>1, <2>2, ReservePast
  <2>6. guard[r] # "refused" /\ ~LetThrough(r)  BY <2>5 DEF RefusedStays
  <2>7. ASSUME NEW h \in Gateways, Past(h)'
        PROVE  /\ ~LetThrough(calls[h].req)' 
               /\ guard'[calls'[h].req] = "refused" =>
                    At(h, "closing")' /\ calls'[h].out \in {"denied", "observed_after"}
    <3>1. PICK q \in Requests : q = calls'[h].req

      BY <1>1, <2>7, PastReq DEF OwnerInv, TypeInv, CallShape, GatewayCall, Past, Undispatched, Sending
    <3>2. CASE h = g  BY <2>3, <2>4, <2>5, <2>6, <3>1, <3>2 DEF LetThrough, Said
    <3>3. CASE h # g
      BY <2>3, <2>4, <2>5, <2>7, <3>1, <3>3 DEF RefusedStays, At, LetThrough, Said
    <3> QED  BY <3>2, <3>3
  <2> QED  BY <1>2, <2>3, <2>4, <2>7 DEF RefusedStays
<1>4. CASE \A g \in Gateways : ~ReserveAction(g)
  <2>1. PastKept  BY <1>1, <1>4, PastFrame
  <2>2. CASE \E p \in Gateways \cup Operators : FinalizeAction(p)
    <3>1. PICK p \in Gateways \cup Operators : FinalizeAction(p)  BY <2>2
    <3>2. PICK r \in Requests : r = calls[p].req  BY <1>1, <3>1, FinalizeType
    <3>3. UNCHANGED <<guard, sent>> /\ At(p, "closing")  BY <3>1 DEF FinalizeAction, history
    <3>4. Ends(p) /\ RowsGoOn  BY <1>1, <3>1, FinalizeType, FinalizeRows
    <3>5. CASE UNCHANGED receipts
      <4>1. \A q \in Requests : LetThrough(q)' = LetThrough(q)  BY <3>5 DEF LetThrough, Said
      <4> QED  BY <1>1, <1>2, <2>1, <3>3, <4>1, RefusedKept
    <3>6. CASE Exists(r) /\ Stored(p)
      <4>1. \A q \in Requests :
              Said(q)' = Said(q) \cup (IF q = r THEN {calls[p].out} ELSE {})
        BY <3>2, <3>6 DEF Stored
      <4>2. CASE calls[p].out \notin {"simulated", "cooperative_allow"}
        <5>1. \A q \in Requests : LetThrough(q)' => LetThrough(q)
          BY <4>1, <4>2 DEF LetThrough
        <5> QED  BY <1>1, <1>2, <2>1, <3>3, <5>1, RefusedKept
      <4>3. CASE calls[p].out \in {"simulated", "cooperative_allow"}
        <5>1. p \in Gateways
          BY <1>1, <3>3, <4>3 DEF TypeInv, CallShape, OperatorCall, At
        <5>2. Past(p)  BY <3>3 DEF Past, At
        <5>3. guard[r] # "refused"  BY <3>2, <4>3, <5>1, <5>2 DEF RefusedStays
        <5>4. ASSUME NEW g \in Gateways, Past(g)'  PROVE calls'[g].req # r
          <6>1. g # p
            BY <3>4, <5>4 DEF Ends, Past, Idle, Undispatched, Sending
          <6>2. Past(g) /\ calls'[g].req = calls[g].req  BY <2>1, <5>4 DEF PastKept
          <6> QED  BY <3>2, <5>1, <5>2, <6>1, <6>2 DEF OwnerInv, OneOwner
        <5>5. Exists(r)'  BY <3>4, <3>6 DEF RowsGoOn
        <5>6. \A q \in Requests : LetThrough(q)' => LetThrough(q) \/ q = r
          BY <4>1 DEF LetThrough
        <5>7. \A q \in Requests : LetThrough(q)' =>
                \/ LetThrough(q)
                \/ guard[q] # "refused" /\ Exists(q)' /\ \A g \in Gateways : Past(g)' => calls'[g].req # q
          BY <5>3, <5>4, <5>5, <5>6 DEF Exists
        <5> QED  BY <1>1, <1>2, <2>1, <3>3, <5>7, RefusedKept
      <4> QED  BY <4>2, <4>3
    <3> QED  BY <1>1, <3>1, <3>2, <3>5, <3>6, FinalizeType
  <2>3. CASE \A p \in Gateways \cup Operators : ~FinalizeAction(p)
    <3>1. \A r \in Requests : LetThrough(r)' => LetThrough(r)  BY <1>1, <2>3, SaidFrame
    <3>2. CASE \E g \in Gateways : AskGuard(g)
      <4>1. PICK g \in Gateways : AskGuard(g)  BY <3>2
      <4>2. At(g, "judged") /\ UNCHANGED <<sent, rows, expired>>
        BY <4>1 DEF AskGuard, GuardAnswers, store, outside
      <4>3. Past(g) /\ NotSending(g)  BY <4>2 DEF Past, NotSending, At, Undispatched
      <4>4. PICK r \in Requests : r = calls[g].req  BY <1>1, <4>3, PastReq
      <4>5. /\ Exists(r) /\ sent[r] = 0 /\ ~LetThrough(r)
            /\ \A h \in Gateways : Past(h) /\ calls[h].req = r => h = g
        BY <4>3, <4>4 DEF OwnerInv, OneOwner, SentOnce, RefusedStays
      <4>6. PICK verdict \in {"passed", "refused"} :
              /\ guard' = [guard EXCEPT ![r] = verdict]
              /\ verdict = "refused" => Close(g, DeniedState(calls[g]))
        BY <4>1, <4>4 DEF AskGuard, GuardAnswers
      <4>7. guard'[r] = verdict /\ \A q \in Requests \ {r} : guard'[q] = guard[q]
        BY <1>1, <4>6 DEF TypeInv, TypeOK
      <4>8. verdict = "refused" => At(g, "closing")' /\ calls'[g].out \in {"denied", "observed_after"}
        BY <1>1, <4>2, <4>6, CloseType, DeniedStateType DEF At, Unsent
      <4>9. \A q \in Requests : Unborn(q)' => guard'[q] # "refused" /\ ~LetThrough(q)'
        BY <3>1, <4>2, <4>5, <4>7 DEF RefusedStays, Unborn, Exists
      <4>10. \A q \in Requests : guard'[q] = "refused" => sent'[q] = 0 /\ ~LetThrough(q)'
        BY <3>1, <4>2, <4>5, <4>7 DEF RefusedStays
      <4>11. ASSUME NEW h \in Gateways, Past(h)'
             PROVE  /\ calls'[h].req \in Requests
                    /\ \A q \in Requests : q = calls'[h].req => ~LetThrough(q)'
                    /\ guard'[calls'[h].req] = "refused" =>
                         At(h, "closing")' /\ calls'[h].out \in {"denied", "observed_after"}
        <5>1. Past(h) /\ calls'[h].req = calls[h].req /\ (At(h, "closing") => calls'[h] = calls[h])
          BY <2>1, <4>11 DEF PastKept, At
        <5>2. PICK q \in Requests : q = calls[h].req  BY <1>1, <5>1, PastReq
        <5>3. ~LetThrough(q)  BY <5>1, <5>2 DEF RefusedStays
        <5>4. CASE h = g  BY <3>1, <4>4, <4>7, <4>8, <5>1, <5>2, <5>3, <5>4
        <5>5. CASE h # g
          BY <3>1, <4>5, <4>7, <5>1, <5>2, <5>3, <5>5 DEF RefusedStays, At
        <5> QED  BY <5>4, <5>5
      <4> QED  BY <4>9, <4>10, <4>11 DEF RefusedStays, LetThrough, Said
    <3>3. CASE \A g \in Gateways : ~AskGuard(g)
      <4>1. UNCHANGED guard  BY <1>1, <3>3, SentFrame
      <4>2. \A r \in Requests : guard[r] = "refused" => sent'[r] = sent[r]
        <5>1. CASE \E g \in Gateways : Execute(g)
          <6>1. PICK g \in Gateways : Execute(g)  BY <5>1
          <6>2. PICK r \in Requests : r = calls[g].req  BY <1>1, <6>1, ExecuteType
          <6>3. guard[r] # "refused"
            BY <6>1, <6>2 DEF Execute, At, RefusedStays, Past, Sending
          <6>4. \A q \in Requests \ {r} : sent'[q] = sent[q]
            BY <1>1, <6>1, <6>2 DEF Execute, TypeInv, TypeOK
          <6> QED  BY <6>3, <6>4
        <5>2. CASE \A g \in Gateways : ~Execute(g)  BY <1>1, <5>2, SentFrame
        <5> QED  BY <5>1, <5>2
      <4> QED  BY <1>1, <1>2, <2>1, <3>1, <4>1, <4>2, RefusedKept
    <3> QED  BY <3>2, <3>3
  <2> QED  BY <2>2, <2>3
<1> QED  BY <1>3, <1>4

LEMMA InitRefused == Init => RefusedStays
<1> SUFFICES ASSUME Init PROVE RefusedStays  OBVIOUS
<1>1. \A g \in Gateways : ~Past(g)
  BY DEF Init, Past, Idle, Procs, Undispatched, Sending
<1>2. \A r \in Requests : ~LetThrough(r)  BY DEF Init, LetThrough, Said
<1> QED  BY <1>1, <1>2 DEF Init, RefusedStays

(* What the dispatch boundary refused, or could not answer, is never       *)
(* carried out, simulated or let through, whatever overlaps or dies.       *)
THEOREM RefusalFinal == Spec => []RefusalIsFinal
<1>1. Init => OwnerInv /\ SentOnce /\ RefusedStays  BY InitOwner, InitSent, InitRefused
<1>2. OwnerInv /\ SentOnce /\ RefusedStays /\ [Next]_vars => OwnerInv' /\ SentOnce' /\ RefusedStays'
  BY OwnerStep, SentStep, RefusedStep
<1>3. OwnerInv /\ SentOnce /\ RefusedStays => RefusalIsFinal
  <2> SUFFICES ASSUME OwnerInv, RefusedStays, NEW r \in Requests, guard[r] = "refused"
               PROVE  ~Acted(r)
    BY DEF RefusalIsFinal
  <2>1. sent[r] = 0 /\ ~LetThrough(r)  BY DEF RefusedStays
  <2>2. \A i \in DOMAIN receipts[r] : receipts[r][i] \notin {"simulated", "cooperative_allow"}
    BY <2>1 DEF LetThrough, Said
  <2> QED  BY <2>1, <2>2 DEF Acted
<1> QED  BY <1>1, <1>2, <1>3, PTL DEF Spec

-----------------------------------------------------------------------------
(* The charges: the policy's limit, for any requests, gateways, operators, *)
(* crashes and receipts.  What took effect outside stays charged, and the  *)
(* effects never exceed the limit, the actions reconciled while their call *)
(* ran aside.                                                              *)

-----------------------------------------------------------------------------
(* The dispatch marker, and the call that is responsible for it.           *)

Sent == {"dispatching", "outcome_unknown"}

NoEffect(r) == effect[r] \in {"none", "refused"}

(* A gateway's call about an action no operator took up while it ran.      *)
Alone(g) == calls[g].req \notin contested

Marked ==
  /\ \A r \in Requests \ contested :
       rows[r].state \in Sent => rows[r].adapter /\ rows[r].counts
  /\ \A g \in Gateways : Alone(g) /\ Past(g) /\ rows[calls[g].req].state = "reserved" =>
       rows[calls[g].req].counts = ~CheckOnly(calls[g])
  /\ \A g \in Gateways : At(g, "cleared") => ~CheckOnly(calls[g])
  /\ \A g \in Gateways : Alone(g) /\ OwnsDispatch(g) =>
       rows[calls[g].req].state = "dispatching"
  /\ \A g \in Gateways : Alone(g) /\ NotSending(g) => rows[calls[g].req].state \notin Sent

(* What an operator will store of an action is what became of it, unless a *)
(* gateway had the action in hand.                                         *)
OperatorsAlone ==
  \A o \in Operators : At(o, "closing") /\ calls[o].req \notin contested =>
    /\ Exists(calls[o].req) /\ ~Running(calls[o].req)
    /\ calls[o].out = "not_started" => sent[calls[o].req] = 0
    /\ calls[o].out = "failed" => NoEffect(calls[o].req)
    /\ calls[o].out = "executed" => effect[calls[o].req] = "applied"

(* An action once reconciled while its call ran stays marked as such.      *)
LEMMA ContestedGrows ==
  ASSUME TypeInv, [Next]_vars
  PROVE  contested \subseteq contested'
<1>1. \/ UNCHANGED contested
      \/ \E o \in Operators, r \in Requests, outcome \in {"not_started", "executed", "failed"} :
           Reconciled(o, r, outcome)
  <2>1. Steps => \/ UNCHANGED contested
                 \/ \E o \in Operators, r \in Requests :
                      \E outcome \in {"not_started", "executed", "failed"} :
                        Reconciled(o, r, outcome)
    BY DEF Steps, Submit, Observe, ReserveAction, PrepareDispatch, Execute, AnswerLost,
           ReconcileReserved, ReconcileDispatched, FinalizeAction, SettleAction, FindInterrupted,
           RemoveFinishedState, ServiceApplies, Expire, history
  <2>2. QuietStep => UNCHANGED contested  BY DEF QuietStep
  <2> QED  BY <2>1, <2>2, EveryStep
<1> QED  BY <1>1 DEF Reconciled

LEMMA PastKind ==
  ASSUME TypeInv, NEW g \in Gateways, Past(g)
  PROVE  NotSending(g) \/ OwnsDispatch(g)
BY DEF TypeInv, CallShape, GatewayCall, Past, NotSending, OwnsDispatch, At

(* Rows that change are those of calls that end, of dispatches that begin, *)
(* or of actions nobody has in hand.                                       *)
RowSettled(r) ==
  /\ rows'[r].state # "reserved"
  /\ rows'[r].state \in Sent => rows'[r].adapter /\ rows'[r].counts
  /\ \A g \in Gateways : Past(g)' /\ calls'[g].req = r =>
       /\ OwnsDispatch(g)' => rows'[r].state = "dispatching"
       /\ NotSending(g)' => rows'[r].state \notin Sent

LEMMA MarkedKept ==
  ASSUME TypeInv, PastKept, Marked, contested \subseteq contested',
         \A r \in Requests : rows'[r] = rows[r] \/ RowSettled(r) \/ r \in contested'
  PROVE  Marked'
<1>1. \A r \in Requests \ contested' :
        rows'[r].state \in Sent => rows'[r].adapter /\ rows'[r].counts
  BY DEF Marked, RowSettled
<1>2. ASSUME NEW g \in Gateways, Past(g)'
      PROVE  /\ At(g, "cleared")' => ~CheckOnly(calls'[g])
             /\ Alone(g)' =>
                  /\ rows'[calls'[g].req].state = "reserved" =>
                       rows'[calls'[g].req].counts = ~CheckOnly(calls'[g])
                  /\ OwnsDispatch(g)' => rows'[calls'[g].req].state = "dispatching"
                  /\ NotSending(g)' => rows'[calls'[g].req].state \notin Sent
  <2>1. Past(g) /\ calls'[g].req = calls[g].req /\ calls'[g].kind = calls[g].kind
    BY <1>2 DEF PastKept
  <2>2. PICK r \in Requests : r = calls[g].req  BY <2>1, PastReq
  <2>3. CheckOnly(calls'[g]) = CheckOnly(calls[g])  BY <2>1 DEF CheckOnly
  <2>4. At(g, "cleared")' => ~CheckOnly(calls'[g])
    BY <1>2, <2>3 DEF PastKept, Marked, At
  <2>5. CASE rows'[r] = rows[r]
    <3>1. OwnsDispatch(g)' => OwnsDispatch(g) \/ rows'[r].state = "dispatching"
      BY <1>2, <2>2 DEF PastKept, Marks
    <3>2. NotSending(g)' => NotSending(g)  BY <1>2 DEF PastKept
    <3>3. Alone(g)' => Alone(g)  BY <2>1 DEF Alone
    <3> QED  BY <2>1, <2>2, <2>3, <2>4, <2>5, <3>1, <3>2, <3>3 DEF Marked
  <2>6. CASE RowSettled(r)  BY <1>2, <2>1, <2>2, <2>4, <2>6 DEF RowSettled
  <2>7. CASE r \in contested'  BY <2>1, <2>2, <2>4, <2>7 DEF Alone
  <2> QED  BY <2>2, <2>5, <2>6, <2>7
<1>3. \A g \in Gateways : NotSending(g)' \/ OwnsDispatch(g)' \/ At(g, "cleared")' => Past(g)'
  BY DEF NotSending, OwnsDispatch, Past, At, Undispatched, Sending
<1> QED  BY <1>1, <1>2, <1>3 DEF Marked

LEMMA ReserveMarked ==
  ASSUME OwnerInv, Marked, NEW g \in Gateways, ReserveAction(g)
  PROVE  Marked'
<1>1. TypeInv  BY DEF OwnerInv
<1>2. PICK r \in Requests : r = calls[g].req  BY <1>1, ReserveType
<1>3. PICK allow \in BOOLEAN : rows'[r] = Reserved(calls[g], allow)
  BY <1>1, <1>2, ReserveType
<1>4. /\ rows'[r].state \in {"reserved", "denied"} /\ rows'[r].counts = ~CheckOnly(calls[g])
      /\ \A q \in Requests \ {r} : rows'[q] = rows[q]
      /\ calls'[g].req = r /\ calls'[g].kind = calls[g].kind
      /\ \/ calls'[g].at \in {"judged", "policy_denied"}
         \/ calls'[g].at = "closing" /\ calls'[g].out \in {"denied", "observed_after"}
  BY <1>1, <1>2, <1>3, ReserveType DEF Reserved, Onward
<1>5. ~OwnsDispatch(g)' /\ ~At(g, "cleared")'
  BY <1>4 DEF OwnsDispatch, At, Sending, Answers
<1>6. ~Exists(r) /\ \A h \in Gateways \ {g} : Past(h)' = Past(h) /\ calls'[h] = calls[h]
  BY <1>2, ReservePast DEF ReserveAction, Duplicate
<1>7. \A h \in Gateways \ {g} : Past(h) => calls[h].req \in Requests \ {r}
  BY <1>1, <1>6, PastReq DEF OwnerInv, OneOwner
<1>8. CheckOnly(calls'[g]) = CheckOnly(calls[g])  BY <1>4 DEF CheckOnly
<1>9. ASSUME NEW h \in Gateways \ {g}
      PROVE  /\ NotSending(h)' = NotSending(h) /\ OwnsDispatch(h)' = OwnsDispatch(h)
             /\ At(h, "cleared")' = At(h, "cleared")
             /\ NotSending(h) \/ OwnsDispatch(h) \/ At(h, "cleared") => Past(h)
             /\ Alone(h)' = Alone(h)
  BY <1>6 DEF NotSending, OwnsDispatch, Past, At, Undispatched, Sending, Alone, ReserveAction
<1>10. \A q \in Requests \ contested' :
         rows'[q].state \in Sent => rows'[q].adapter /\ rows'[q].counts
  BY <1>4 DEF Marked, Sent, ReserveAction
<1> QED  BY <1>4, <1>5, <1>6, <1>7, <1>8, <1>9, <1>10 DEF Marked, Sent

(* No call takes up a request, but with a submission or a reconciliation.  *)
LEMMA OperatorFrame ==
  ASSUME TypeInv, [Next]_vars, NEW o \in Operators, At(o, "closing")'
  PROVE  \/ calls'[o] = calls[o]
         \/ \E r \in Requests :
              \/ ReconcileReserved(o, r)
              \/ \E outcome \in {"executed", "failed"} : ReconcileDispatched(o, r, outcome)
<1>1. o \in Procs /\ o \notin Gateways /\ o \notin Repairers /\ Gateways \cup Repairers \subseteq Procs
      /\ Operators \subseteq Procs
  BY ProcessAssumption DEF Procs
<1>2. calls'[o].at # "idle"  BY DEF At
<1>3. CASE QuietStep
  BY <1>1, <1>2, <1>3 DEF QuietStep, Ends, Idle, Moves, Onward
<1>4. ASSUME NEW g \in Gateways, NEW s \in Submissions, Submit(g, s)
      PROVE  calls'[o] = calls[o]
  BY <1>1, <1>4, SubmitType
<1>5. ASSUME NEW g \in Gateways, Observe(g)  PROVE calls'[o] = calls[o]
  BY <1>1, <1>5, ObserveType DEF Ends
<1>6. ASSUME NEW g \in Gateways, ReserveAction(g)  PROVE calls'[o] = calls[o]
  BY <1>1, <1>6, ReserveType DEF Onward
<1>7. ASSUME NEW g \in Gateways, PrepareDispatch(g), ~QuietStep  PROVE calls'[o] = calls[o]
  BY <1>1, <1>7, PrepareType DEF Onward
<1>8. ASSUME NEW g \in Gateways, Execute(g)  PROVE calls'[o] = calls[o]
  BY <1>1, <1>8, ExecuteType DEF Onward
<1>9. ASSUME NEW g \in Gateways, AnswerLost(g)  PROVE calls'[o] = calls[o]
  BY <1>1, <1>9, AnswerLostType DEF Onward
<1>10. ASSUME NEW q \in Operators, NEW r \in Requests, q # o,
              \/ ReconcileReserved(q, r)
              \/ \E outcome \in {"executed", "failed"} : ReconcileDispatched(q, r, outcome)
       PROVE  calls'[o] = calls[o]
  BY <1>1, <1>10, ReconcileType DEF Begins
<1>11. ASSUME NEW p \in Gateways \cup Operators, FinalizeAction(p)  PROVE calls'[o] = calls[o]
  BY <1>1, <1>2, <1>11, FinalizeType DEF Ends, Idle
<1>12. ASSUME NEW p \in Repairers, SettleAction(p)  PROVE calls'[o] = calls[o]
  BY <1>1, <1>2, <1>12, SettleType DEF Ends, Idle
<1>13. ASSUME NEW p \in Repairers, NEW r \in Requests, FindInterrupted(p, r)
       PROVE  calls'[o] = calls[o]
  BY <1>1, <1>13, FindType DEF Begins
<1>14. CASE RemoveFinishedState  BY <1>14, RemoveType
<1>15. ASSUME NEW r \in Requests, ServiceApplies(r) \/ Expire(r)  PROVE calls'[o] = calls[o]
  BY <1>15, ServiceType
<1> QED
  BY <1>3, <1>4, <1>5, <1>6, <1>7, <1>8, <1>9, <1>10, <1>11, <1>12, <1>13, <1>14, <1>15, EveryStep
     DEF Steps

LEMMA GatewayFrame ==
  ASSUME TypeInv, [Next]_vars, NEW g \in Gateways
  PROVE  \/ calls'[g].req \in {calls[g].req, None}
         \/ \E s \in Submissions : Submit(g, s) /\ calls'[g].req = s.req
<1>1. g \in Procs /\ Gateways \subseteq Procs  BY DEF Procs
<1>2. ASSUME NEW h \in Gateways, NEW s \in Submissions, Submit(h, s), h # g
      PROVE  calls'[g] = calls[g]
  BY <1>1, <1>2, SubmitType
<1>3. ASSUME NEW s \in Submissions, Submit(g, s)  PROVE calls'[g].req = s.req
  BY <1>3, SubmitType
<1>4. ASSUME NEW o \in Operators, NEW r \in Requests,
             \/ ReconcileReserved(o, r)
             \/ \E outcome \in {"executed", "failed"} : ReconcileDispatched(o, r, outcome)
      PROVE  calls'[g] = calls[g]
  BY <1>1, <1>4, ReconcileType, ProcessAssumption DEF Begins
<1>5. CASE NoNewIds  BY <1>5 DEF NoNewIds
<1> QED  BY <1>2, <1>3, <1>4, <1>5, IdsFrame

(* An action that is not out of date keeps its row.                        *)
LEMMA ExistsFrame ==
  ASSUME OwnerInv, [Next]_vars, NEW r \in Requests, Exists(r), r \notin expired
  PROVE  Exists(r)'
<1>1. TypeInv  BY DEF OwnerInv
<1>2. CASE \E g \in Gateways : ReserveAction(g)
  <2>1. PICK g \in Gateways : ReserveAction(g)  BY <1>2
  <2>2. PICK q \in Requests : q = calls[g].req  BY <1>1, <2>1, ReserveType
  <2>3. ~Exists(q) /\ \A z \in Requests \ {q} : rows'[z] = rows[z]
    BY <1>1, <2>1, <2>2, ReserveType DEF ReserveAction, Duplicate
  <2> QED  BY <2>3 DEF Exists
<1>3. CASE RemoveFinishedState
  <2>1. rows'[r] = rows[r]  BY <1>1, <1>3, RemoveType DEF Removable
  <2> QED  BY <2>1 DEF Exists
<1>4. CASE (\A g \in Gateways : ~ReserveAction(g)) /\ ~RemoveFinishedState
  BY <1>1, <1>4, RowsFrame DEF RowsGoOn
<1> QED  BY <1>2, <1>3, <1>4

(* An action an operator closes is taken up by no gateway meanwhile.       *)
LEMMA AloneFrame ==
  ASSUME OwnerInv, [Next]_vars, NEW r \in Requests, Exists(r), ~Running(r)
  PROVE  ~Running(r)'
<1> SUFFICES ASSUME NEW g \in Gateways, calls'[g].req = r PROVE FALSE  BY DEF Running
<1>1. TypeInv  BY DEF OwnerInv
<1>2. calls[g].req # r /\ r # None  BY ConstantAssumption DEF Running
<1>3. PICK s \in Submissions : Submit(g, s) /\ r = s.req  BY <1>1, <1>2, GatewayFrame
<1>4. Spent(r)  BY DEF OwnerInv, Consumption, Spent
<1>5. r \in Ids(s.req, s.approval)  BY <1>2, <1>3 DEF Ids
<1> QED  BY <1>3, <1>4, <1>5 DEF Submit, Used

(* How the service's word changes: a dispatch puts a request in flight, one *)
(* in flight is applied, one that is not applied is refused.               *)
LEMMA EffectFrame ==
  ASSUME TypeInv, [Next]_vars, NEW r \in Requests
  PROVE  \/ effect'[r] = effect[r]
         \/ effect[r] # "applied" /\ effect'[r] = "refused"
         \/ effect[r] = "in_flight" /\ effect'[r] = "applied" /\ UNCHANGED <<rows, receipts, sent>>
         \/ \E g \in Gateways : Execute(g) /\ calls[g].req = r /\ effect'[r] = "in_flight"
<1>1. CASE UNCHANGED effect  BY <1>1
<1>2. ASSUME NEW q \in Requests, NEW outcome, QuerySays(q, outcome)
      PROVE  effect'[r] = effect[r] \/ (effect[r] # "applied" /\ effect'[r] = "refused")
  BY <1>2 DEF QuerySays, TypeInv, TypeOK
<1>3. ASSUME NEW g \in Gateways, AnswerLost(g)
      PROVE  effect'[r] = effect[r] \/ (effect[r] # "applied" /\ effect'[r] = "refused")
  BY <1>2, <1>3, AnswerLostType
<1>4. ASSUME NEW q \in Requests, ServiceApplies(q)
      PROVE  \/ effect'[r] = effect[r]
             \/ /\ effect[r] = "in_flight" /\ effect'[r] = "applied"
                /\ UNCHANGED <<rows, receipts, sent>>
  BY <1>4 DEF ServiceApplies, TypeInv, TypeOK, store, history
<1>5. ASSUME NEW g \in Gateways, Execute(g)
      PROVE  \/ effect'[r] = effect[r]
             \/ calls[g].req = r /\ effect'[r] = "in_flight"
  BY <1>5, ExecuteType DEF Execute, TypeInv, TypeOK
<1>6. Steps => \/ UNCHANGED effect
               \/ \E g \in Gateways : AnswerLost(g) \/ Execute(g)
               \/ \E q \in Requests, outcome \in {"executed", "failed"} : QuerySays(q, outcome)
               \/ \E q \in Requests : ServiceApplies(q)
  BY DEF Steps, Submit, Observe, ReserveAction, PrepareDispatch, ReconcileReserved,
         ReconcileDispatched, FinalizeAction, SettleAction, FindInterrupted, RemoveFinishedState,
         Expire, outside
<1>7. QuietStep => UNCHANGED effect  BY DEF QuietStep
<1> QED  BY <1>1, <1>2, <1>3, <1>4, <1>5, <1>6, <1>7, EveryStep

LEMMA SentGrows ==
  ASSUME TypeInv, [Next]_vars, NEW r \in Requests
  PROVE  /\ sent'[r] = 0 => sent[r] = 0
         /\ \/ sent'[r] = sent[r]
            \/ \E g \in Gateways : Execute(g) /\ calls[g].req = r /\ sent'[r] # 0
<1>1. CASE \A g \in Gateways : ~Execute(g)  BY <1>1, SentFrame
<1>2. ASSUME NEW g \in Gateways, Execute(g)
      PROVE  sent'[r] = IF r = calls[g].req THEN sent[r] + 1 ELSE sent[r]
  BY <1>2, ExecuteType DEF Execute, TypeInv, TypeOK
<1>3. sent[r] \in Nat  BY DEF TypeInv, TypeOK
<1>4. sent[r] + 1 # 0  BY <1>3
<1> QED  BY <1>1, <1>2, <1>4

LEMMA OperatorsStep ==
  ASSUME OwnerInv, SentOnce, OperatorsAlone, [Next]_vars
  PROVE  OperatorsAlone'
<1>1. TypeInv /\ TypeInv' /\ contested \subseteq contested'
  BY EveryStep, ContestedGrows DEF OwnerInv
<1> SUFFICES ASSUME NEW o \in Operators, At(o, "closing")', NEW r \in Requests,
                    r = calls'[o].req, r \notin contested'
             PROVE  /\ Exists(r)' /\ ~Running(r)'
                    /\ calls'[o].out = "not_started" => sent'[r] = 0
                    /\ calls'[o].out = "failed" => NoEffect(r)'
                    /\ calls'[o].out = "executed" => effect'[r] = "applied"
  <2>1. \A o \in Operators : At(o, "closing")' => calls'[o].req \in Requests
    BY <1>1 DEF TypeInv, CallShape, OperatorCall, At
  <2> QED  BY <2>1 DEF OperatorsAlone, Exists, Running, NoEffect
<1>2. CASE calls'[o] = calls[o]
  <2>1. r = calls[o].req /\ At(o, "closing") /\ r \notin contested  BY <1>1, <1>2 DEF At
  <2>2. /\ Exists(r) /\ ~Running(r)
        /\ calls[o].out = "not_started" => sent[r] = 0
        /\ calls[o].out = "failed" => NoEffect(r)
        /\ calls[o].out = "executed" => effect[r] = "applied"
    BY <2>1 DEF OperatorsAlone
  <2>3. r \notin expired  BY <2>1 DEF OwnerInv, ExpiredIsOver
  <2>4. Exists(r)' /\ ~Running(r)'  BY <2>2, <2>3, AloneFrame, ExistsFrame
  <2>5. \A g \in Gateways : calls[g].req # r  BY <2>2 DEF Running
  <2>6. sent'[r] = sent[r]  BY <1>1, <2>5, SentGrows
  <2>7. /\ effect[r] = "applied" => effect'[r] = "applied"
        /\ NoEffect(r) => NoEffect(r)'
    BY <1>1, <2>5, EffectFrame DEF NoEffect
  <2> QED  BY <1>2, <2>2, <2>4, <2>6, <2>7
<1>3. ASSUME NEW q \in Requests, ReconcileReserved(o, q)
      PROVE  /\ Exists(r)' /\ ~Running(r)'
             /\ calls'[o].out = "not_started" => sent'[r] = 0
             /\ calls'[o].out = "failed" => NoEffect(r)'
             /\ calls'[o].out = "executed" => effect'[r] = "applied"
  <2>1. q = r /\ calls'[o].out = "not_started"
    BY <1>1, <1>3, ReconcileType DEF Begins
  <2>2. rows[r].state = "reserved" /\ ~Running(r) /\ UNCHANGED <<rows, sent>>
    BY <1>1, <1>3, <2>1, ReconcileType DEF ReconcileReserved, store
  <2>3. Exists(r) /\ Exists(r)'  BY <2>2, ConstantAssumption DEF Exists, Held
  <2> QED  BY <2>1, <2>2, <2>3, AloneFrame DEF SentOnce
<1>4. ASSUME NEW q \in Requests, NEW outcome \in {"executed", "failed"},
             ReconcileDispatched(o, q, outcome)
      PROVE  /\ Exists(r)' /\ ~Running(r)'
             /\ calls'[o].out = "not_started" => sent'[r] = 0
             /\ calls'[o].out = "failed" => NoEffect(r)'
             /\ calls'[o].out = "executed" => effect'[r] = "applied"
  <2>1. q = r /\ calls'[o].out = outcome
    BY <1>1, <1>4, ReconcileType DEF Begins
  <2>2. /\ rows[r].state \in {"dispatching", "outcome_unknown"} /\ ~Running(r) /\ UNCHANGED rows
        /\ QuerySays(r, outcome)
    BY <1>1, <1>4, <2>1, ReconcileType DEF ReconcileDispatched, store
  <2>3. Exists(r) /\ Exists(r)'  BY <2>2, ConstantAssumption DEF Exists, Held
  <2>4. /\ outcome = "failed" => NoEffect(r)'
        /\ outcome = "executed" => effect'[r] = "applied"
    BY <1>1, <2>2, QueryType DEF NoEffect
  <2> QED  BY <2>1, <2>2, <2>3, <2>4, AloneFrame
<1> QED  BY <1>1, <1>2, <1>3, <1>4, OperatorFrame

LEMMA MarkedStep ==
  ASSUME OwnerInv, Marked, OperatorsAlone, [Next]_vars
  PROVE  Marked'
<1>1. TypeInv /\ contested \subseteq contested'  BY ContestedGrows DEF OwnerInv
<1>2. CASE \E g \in Gateways : ReserveAction(g)  BY <1>2, ReserveMarked
<1>3. CASE \A g \in Gateways : ~ReserveAction(g)
  <2>1. PastKept  BY <1>1, <1>3, PastFrame
  <2>2. SUFFICES \A r \in Requests : rows'[r] = rows[r] \/ RowSettled(r) \/ r \in contested'
    BY <1>1, <2>1, MarkedKept
  <2>3. CASE UNCHANGED rows  BY <2>3
  <2>4. ASSUME NEW g \in Gateways, PrepareDispatch(g), ~QuietStep
        PROVE  \A r \in Requests : rows'[r] = rows[r] \/ RowSettled(r) \/ r \in contested'
    <3>1. PICK r \in Requests : r = calls[g].req  BY <1>1, <2>4, PrepareType
    <3>2. /\ Onward(g) /\ calls'[g].at = "dispatching" /\ rows[r].state = "reserved"
          /\ rows'[r].state = "dispatching" /\ rows'[r].adapter /\ rows'[r].counts = rows[r].counts
          /\ \A q \in Requests \ {r} : rows'[q] = rows[q]
      BY <1>1, <2>4, <3>1, PrepareType
    <3>3. Past(g) /\ At(g, "cleared")  BY <2>4 DEF PrepareDispatch, Past, At, Undispatched
    <3>4. r \notin contested' => rows'[r].counts  BY <1>1, <3>1, <3>2, <3>3 DEF Marked, Alone
    <3>5. ASSUME NEW h \in Gateways, Past(h)', calls'[h].req = r  PROVE h = g
      BY <2>1, <3>1, <3>3, <3>5 DEF PastKept, OwnerInv, OneOwner
    <3>6. ~NotSending(g)'  BY <3>2 DEF NotSending, At, Undispatched
    <3>7. r \notin contested' => RowSettled(r)  BY <3>2, <3>4, <3>5, <3>6 DEF RowSettled
    <3> QED  BY <3>2, <3>7
  <2>5. ASSUME NEW p \in Gateways \cup Operators, FinalizeAction(p)
        PROVE  \A r \in Requests : rows'[r] = rows[r] \/ RowSettled(r) \/ r \in contested'
    <3>1. PICK r \in Requests : r = calls[p].req  BY <1>1, <2>5, FinalizeType
    <3>2. CASE UNCHANGED rows  BY <3>2
    <3>3. CASE ~UNCHANGED rows /\ r \notin contested'
      <4> r \notin contested  BY <1>1, <3>3
      <4>1. calls[p].out \in Unsent \cup Answers \cup {"not_started"} /\ Ends(p)
            /\ rows' = Finalized(r, calls[p].out) /\ At(p, "closing")
        BY <1>1, <2>5, <3>1, <3>3, FinalizeType DEF Stored, FinalizeAction
      <4>2. /\ rows'[r].state = StateOf(calls[p].out) /\ rows'[r].adapter = rows[r].adapter
            /\ rows'[r].counts = (rows[r].counts /\ rows[r].adapter)
            /\ \A q \in Requests \ {r} : rows'[q] = rows[q]
        BY <1>1, <4>1, FinalizedType
      <4>3. /\ rows'[r].state \notin {"reserved", "dispatching"}
            /\ rows'[r].state \in Sent => calls[p].out = "outcome_unknown"
        BY <4>1, <4>2 DEF StateOf, Unsent, Answers, Sent
      <4>4. calls[p].out = "outcome_unknown" => rows[r].adapter /\ rows[r].counts
        <5> SUFFICES ASSUME calls[p].out = "outcome_unknown" PROVE rows[r].adapter /\ rows[r].counts
          OBVIOUS
        <5>1. p \in Gateways  BY <1>1, <4>1 DEF TypeInv, CallShape, OperatorCall, At
        <5>2. OwnsDispatch(p)  BY <4>1 DEF OwnsDispatch, Answers
        <5> QED  BY <3>1, <5>1, <5>2 DEF Marked, Sent, Alone
      <4>5. ASSUME NEW h \in Gateways, Past(h)', calls'[h].req = r  PROVE FALSE
        <5>1. h # p  BY <4>1, <4>5 DEF Ends, Past, Idle, Undispatched, Sending
        <5>2. Past(h) /\ calls[h].req = r  BY <2>1, <4>5 DEF PastKept
        <5>3. CASE p \in Gateways
          BY <3>1, <4>1, <5>1, <5>2, <5>3 DEF OwnerInv, OneOwner, Past, At
        <5>4. CASE p \in Operators  BY <3>1, <4>1, <5>2, <5>4 DEF OperatorsAlone, Running
        <5> QED  BY <5>3, <5>4
      <4>6. RowSettled(r)  BY <4>2, <4>3, <4>4, <4>5 DEF RowSettled
      <4> QED  BY <4>2, <4>6
    <3>4. CASE r \in contested'
      <4>1. rows' = rows \/ rows' = Finalized(r, calls[p].out)
        BY <1>1, <2>5, <3>1, FinalizeType DEF Stored
      <4>2. \A q \in Requests \ {r} : rows'[q] = rows[q]
        BY <1>1, <2>5, <3>1, <4>1, FinalizeType, FinalizedType
      <4> QED  BY <3>4, <4>2
    <3> QED  BY <3>2, <3>3, <3>4
  <2>6. ASSUME NEW p \in Repairers, SettleAction(p)
        PROVE  \A r \in Requests : rows'[r] = rows[r] \/ RowSettled(r) \/ r \in contested'
    <3>1. PICK r \in Requests : r = calls[p].req  BY <1>1, <2>6, SettleType
    <3>2. CASE UNCHANGED rows  BY <3>2
    <3>3. CASE ~UNCHANGED rows
      <4>1. /\ Open(r) /\ rows'[r].state \in {"denied", "cooperative_allow"}
            /\ \A q \in Requests \ {r} : rows'[q] = rows[q]
        BY <1>1, <2>6, <3>1, <3>3, SettleType
      <4>2. ASSUME NEW h \in Gateways, Past(h)', calls'[h].req = r, r \notin contested'
            PROVE  ~OwnsDispatch(h)'
        <5>1. calls[h].req = r /\ (OwnsDispatch(h)' => OwnsDispatch(h) \/ Marks(h))
          BY <2>1, <4>2 DEF PastKept
        <5>2. ~OwnsDispatch(h)  BY <1>1, <4>1, <4>2, <5>1 DEF Marked, Open, Alone
        <5>3. ~Marks(h)  BY <3>1, <4>1, <5>1 DEF Marks
        <5> QED  BY <5>1, <5>2, <5>3
      <4>3. r \notin contested' => RowSettled(r)  BY <4>1, <4>2 DEF RowSettled, Sent
      <4> QED  BY <4>1, <4>3
    <3> QED  BY <3>2, <3>3
  <2>7. CASE RemoveFinishedState
    <3> SUFFICES ASSUME NEW r \in Requests, Removable(r) PROVE RowSettled(r)
      BY <1>1, <2>7, RemoveType
    <3>1. rows'[r].state = None /\ UNCHANGED calls
      BY <1>1, <2>7, RemoveType DEF NoRow
    <3>2. None \notin Sent \cup {"reserved"}  BY ConstantAssumption DEF Held, Sent
    <3>3. r \in expired  BY DEF Removable
    <3>4. \A g \in Gateways : calls[g].req # r  BY <3>3 DEF OwnerInv, ExpiredIsOver
    <3> QED  BY <3>1, <3>2, <3>4 DEF RowSettled
  <2>8. Steps => \/ UNCHANGED rows \/ RemoveFinishedState
                 \/ \E g \in Gateways : PrepareDispatch(g)
                 \/ \E p \in Gateways \cup Operators : FinalizeAction(p)
                 \/ \E p \in Repairers : SettleAction(p)
    BY <1>3 DEF Steps, Submit, Observe, Execute, AnswerLost, ReconcileReserved, ReconcileDispatched,
                FindInterrupted, ServiceApplies, Expire, store
  <2>9. QuietStep => UNCHANGED rows  BY DEF QuietStep
  <2> QED  BY <1>1, <2>3, <2>4, <2>5, <2>6, <2>7, <2>8, <2>9, EveryStep
<1> QED  BY <1>2, <1>3

-----------------------------------------------------------------------------
(* The effects outside.                                                    *)

(* Nothing comes of what was not sent, or of what the executor says failed. *)
EffectsSent ==
  /\ \A r \in Requests : sent[r] = 0 => NoEffect(r)
  /\ \A g \in Gateways : At(g, "closing") /\ calls[g].out = "failed" => NoEffect(calls[g].req)

LEMMA EffectsSentStep ==
  ASSUME OwnerInv, SentOnce, EffectsSent, [Next]_vars
  PROVE  EffectsSent'
<1>1. TypeInv /\ TypeInv'  BY EveryStep DEF OwnerInv
<1>2. ASSUME NEW r \in Requests, sent'[r] = 0  PROVE NoEffect(r)'
  <2>1. NoEffect(r) /\ sent'[r] = sent[r]  BY <1>1, <1>2, SentGrows DEF EffectsSent
  <2>2. effect[r] # "in_flight"  BY <2>1 DEF NoEffect
  <2>3. ASSUME NEW g \in Gateways, Execute(g), calls[g].req = r  PROVE FALSE
    BY <1>1, <1>2, <2>3 DEF Execute, TypeInv, TypeOK
  <2> QED  BY <1>1, <2>1, <2>2, <2>3, EffectFrame DEF NoEffect
<1>3. ASSUME NEW g \in Gateways, At(g, "closing")', calls'[g].out = "failed",
             NEW r \in Requests, r = calls'[g].req
      PROVE  NoEffect(r)'
  <2>1. Past(g)' /\ OwnsDispatch(g)'  BY <1>3 DEF Past, OwnsDispatch, At, Answers
  <2>2. CASE \E h \in Gateways : ReserveAction(h)
    <3>1. PICK h \in Gateways : ReserveAction(h)  BY <2>2
    <3>2. h # g  BY <1>1, <1>3, <3>1, ReserveType DEF At
    <3>3. calls'[g] = calls[g]  BY <3>1, <3>2, ReservePast
    <3>4. UNCHANGED effect  BY <3>1 DEF ReserveAction, outside
    <3> QED  BY <1>3, <3>3, <3>4 DEF EffectsSent, At, NoEffect
  <2>3. CASE \A h \in Gateways : ~ReserveAction(h)
    <3>1. PastKept  BY <1>1, <2>3, PastFrame
    <3>2. /\ Past(g) /\ calls[g].req = r
          /\ OwnsDispatch(g) \/ Marks(g)
      BY <1>3, <2>1, <3>1 DEF PastKept
    <3>3. OwnsDispatch(g)  BY <1>3, <3>2 DEF Marks, At
    <3>4. ASSUME NEW h \in Gateways, Execute(h), calls[h].req = r  PROVE FALSE
      <4>1. Past(h)  BY <3>4 DEF Execute, Past, At, Sending
      <4>2. h = g  BY <3>2, <3>4, <4>1 DEF OwnerInv, OneOwner
      <4> QED  BY <1>1, <1>3, <3>4, <4>2, ExecuteType DEF At
    <3>5. sent'[r] = sent[r]  BY <1>1, <3>4, SentGrows
    <3>6. NoEffect(r) => NoEffect(r)'  BY <1>1, <3>4, EffectFrame DEF NoEffect
    <3>7. CASE At(g, "closing")
      BY <1>3, <3>1, <3>2, <3>6, <3>7, <2>1 DEF PastKept, EffectsSent, At
    <3>8. CASE At(g, "dispatching")
      BY <1>2, <3>2, <3>5, <3>8 DEF SentOnce
    <3>9. CASE At(g, "waiting")
      <4>1. AnswerLost(g)  BY <1>3, <2>1, <3>1, <3>9 DEF PastKept, At
      <4>2. effect'[r] \in {"none", "refused"}
        BY <1>1, <1>3, <3>2, <4>1, AnswerLostType, QueryType
      <4> QED  BY <4>2 DEF NoEffect
    <3> QED  BY <3>3, <3>7, <3>8, <3>9 DEF OwnsDispatch, At, Sending
  <2> QED  BY <2>2, <2>3
<1>4. \A g \in Gateways : At(g, "closing")' => calls'[g].req \in Requests
  BY <1>1 DEF TypeInv, CallShape, GatewayCall, At
<1> QED  BY <1>2, <1>3, <1>4 DEF EffectsSent, NoEffect

-----------------------------------------------------------------------------
(* The charges.                                                            *)

(* An action the policy let through and still counts: held with its        *)
(* candidate, or told as executed.                                         *)
Admitted(r) == \/ rows[r].state \in Held /\ rows[r].counts
               \/ "executed" \in Said(r)

EffectsAdmitted == \A r \in Requests \ contested : ~NoEffect(r) => Admitted(r)

(* The invariant of the charges, without the limit.                        *)
ChargeInv ==
  OwnerInv /\ SentOnce /\ Marked /\ OperatorsAlone /\ EffectsSent /\ EffectsAdmitted

(* What a stored receipt and its row keep charged, and what they charge.   *)
LEMMA FinalizeCharge ==
  ASSUME ChargeInv, NEW p \in Gateways \cup Operators, FinalizeAction(p),
         NEW q \in Requests \ contested
  PROVE  /\ Admitted(q)' => Admitted(q)
         /\ Admitted(q) /\ ~NoEffect(q) => Admitted(q)'
<1>1. TypeInv  BY DEF ChargeInv, OwnerInv
<1>2. PICK r \in Requests : r = calls[p].req  BY <1>1, FinalizeType
<1>3. PICK out : out = calls[p].out  OBVIOUS
<1>4. CASE UNCHANGED <<rows, receipts>>  BY <1>4 DEF Admitted, Said
<1>5. CASE ~UNCHANGED <<rows, receipts>>
  <2>1. /\ rows' = Finalized(r, out) /\ At(p, "closing")
        /\ out \in Unsent \cup Answers \cup {"not_started"}
        /\ \A z \in Requests : Said(z)' = Said(z) \cup (IF z = r THEN {out} ELSE {})
    BY <1>1, <1>2, <1>3, <1>5, FinalizeType DEF Stored, FinalizeAction
  <2>2. /\ rows'[r].state = StateOf(out)
        /\ rows'[r].counts = (rows[r].counts /\ rows[r].adapter)
        /\ \A z \in Requests \ {r} : rows'[z] = rows[z]
    BY <1>1, <2>1, FinalizedType
  <2>3. CASE q # r  BY <2>1, <2>2, <2>3 DEF Admitted
  <2>4. CASE q = r
    <3>1. rows'[r].state \in Held => out = "outcome_unknown"
      BY <2>1, <2>2 DEF StateOf, Unsent, Answers, Held
    <3>2. CASE out \in {"executed", "outcome_unknown"}
      <4>1. CASE p \in Gateways
        <5>1. OwnsDispatch(p)  BY <1>3, <2>1, <3>2 DEF OwnsDispatch, Answers
        <5>2. rows[r].state = "dispatching" /\ rows[r].adapter /\ rows[r].counts
          BY <1>2, <2>4, <4>1, <5>1 DEF ChargeInv, Marked, Sent, Alone
        <5>3. Admitted(r)  BY <5>2 DEF Admitted, Held
        <5>4. Admitted(r)'
          <6>1. CASE out = "executed"  BY <2>1, <6>1 DEF Admitted
          <6>2. CASE out = "outcome_unknown"
            BY <2>2, <5>2, <6>2 DEF Admitted, StateOf, Held
          <6> QED  BY <3>2, <6>1, <6>2
        <5> QED  BY <2>4, <5>3, <5>4
      <4>2. CASE p \in Operators
        <5>1. out = "executed"
          BY <1>1, <1>3, <2>1, <3>2, <4>2 DEF TypeInv, CallShape, OperatorCall, At
        <5>2. effect[r] = "applied"
          BY <1>2, <1>3, <2>1, <2>4, <4>2, <5>1 DEF ChargeInv, OperatorsAlone
        <5>3. Admitted(r)  BY <2>4, <5>2 DEF ChargeInv, EffectsAdmitted, NoEffect
        <5>4. Admitted(r)'  BY <2>1, <5>1 DEF Admitted
        <5> QED  BY <2>4, <5>3, <5>4
      <4> QED  BY <4>1, <4>2
    <3>3. CASE out \notin {"executed", "outcome_unknown"}
      <4>1. Admitted(r)' => Admitted(r)  BY <2>1, <3>1, <3>3 DEF Admitted
      <4>2. NoEffect(r)
        <5>1. CASE p \in Gateways
          <6>1. out \in Unsent \cup {"failed"}
            BY <1>1, <1>3, <2>1, <3>3, <5>1 DEF TypeInv, CallShape, GatewayCall, At, Answers
          <6>2. CASE out \in Unsent
            <7>1. NotSending(p)  BY <1>3, <2>1, <6>2 DEF NotSending
            <7>2. sent[r] = 0  BY <1>2, <5>1, <7>1 DEF ChargeInv, SentOnce
            <7> QED  BY <7>2 DEF ChargeInv, EffectsSent
          <6>3. CASE out = "failed"
            BY <1>2, <1>3, <2>1, <5>1, <6>3 DEF ChargeInv, EffectsSent, NoEffect
          <6> QED  BY <6>1, <6>2, <6>3
        <5>2. CASE p \in Operators
          <6>1. out \in {"not_started", "failed"}
            BY <1>1, <1>3, <2>1, <3>3, <5>2 DEF TypeInv, CallShape, OperatorCall, At
          <6>2. sent[r] = 0 \/ NoEffect(r)
            BY <1>2, <1>3, <2>1, <2>4, <5>2, <6>1 DEF ChargeInv, OperatorsAlone
          <6> QED  BY <6>2 DEF ChargeInv, EffectsSent, NoEffect
        <5> QED  BY <5>1, <5>2
      <4> QED  BY <2>4, <4>1, <4>2
    <3> QED  BY <3>2, <3>3
  <2> QED  BY <2>3, <2>4
<1> QED  BY <1>4, <1>5

(* A reservation charges the action it reserves; no other step charges one, *)
(* and none stops charging one that has an effect.                         *)
LEMMA AdmittedFrame ==
  ASSUME ChargeInv, [Next]_vars, NEW q \in Requests \ contested
  PROVE  /\ \/ Admitted(q)' => Admitted(q)
            \/ \E g \in Gateways : ReserveAction(g) /\ calls[g].req = q /\ Counted < Cap
         /\ Admitted(q) /\ ~NoEffect(q) => Admitted(q)'
<1>1. TypeInv  BY DEF ChargeInv, OwnerInv
<1>2. CASE UNCHANGED <<rows, receipts>>  BY <1>2 DEF Admitted, Said
<1>3. ASSUME NEW g \in Gateways, Observe(g)
      PROVE  Admitted(q)' = Admitted(q)
  BY <1>1, <1>3, ObserveType DEF Observe, Admitted
<1>4. ASSUME NEW g \in Gateways, ReserveAction(g)
      PROVE  /\ \/ Admitted(q)' => Admitted(q)
                \/ ReserveAction(g) /\ calls[g].req = q /\ Counted < Cap
             /\ Admitted(q) => Admitted(q)'
  <2>1. PICK r \in Requests : r = calls[g].req  BY <1>1, <1>4, ReserveType
  <2>2. PICK allow \in BOOLEAN : /\ rows'[r] = Reserved(calls[g], allow)
                                 /\ allow => Counted < Cap
    BY <1>1, <1>4, <2>1, ReserveType
  <2>3. /\ ~Exists(r) /\ UNCHANGED receipts
        /\ \A z \in Requests \ {r} : rows'[z] = rows[z]
    BY <1>1, <1>4, <2>1, ReserveType DEF ReserveAction, Duplicate
  <2>4. Said(q)' = Said(q)  BY <2>3, SaidSame
  <2>5. ~allow => rows'[r].state \notin Held  BY <2>2 DEF Reserved, Held
  <2>6. rows[r].state \notin Held  BY <2>3, ConstantAssumption DEF Exists
  <2> QED  BY <1>4, <2>1, <2>2, <2>3, <2>4, <2>5, <2>6 DEF Admitted
<1>5. ASSUME NEW g \in Gateways, PrepareDispatch(g), ~QuietStep
      PROVE  Admitted(q)' = Admitted(q)
  <2>1. PICK r \in Requests : r = calls[g].req  BY <1>1, <1>5, PrepareType
  <2>2. /\ rows[r].state = "reserved" /\ rows'[r].state = "dispatching"
        /\ rows'[r].counts = rows[r].counts
        /\ \A z \in Requests \ {r} : rows'[z] = rows[z]
    BY <1>1, <1>5, <2>1, PrepareType
  <2>3. Said(q)' = Said(q)  BY <1>5, SaidSame DEF PrepareDispatch
  <2> QED  BY <2>2, <2>3 DEF Admitted, Held
<1>6. ASSUME NEW p \in Repairers, SettleAction(p), ~UNCHANGED <<rows, receipts>>
      PROVE  /\ Admitted(q)' => Admitted(q)
             /\ Admitted(q) /\ ~NoEffect(q) => Admitted(q)'
  <2>1. PICK r \in Requests : r = calls[p].req  BY <1>1, <1>6, SettleType
  <2>2. /\ Open(r) /\ rows'[r].state \in {"denied", "cooperative_allow"}
        /\ \A z \in Requests \ {r} : rows'[z] = rows[z]
        /\ \A z \in Requests : Said(z)' = Said(z) \cup (IF z = r THEN {"interrupted"} ELSE {})
    BY <1>1, <1>6, <2>1, SettleType
  <2>3. rows[r].state = "reserved" => NoEffect(r)
    BY DEF ChargeInv, SentOnce, EffectsSent
  <2>4. rows[r].state \in {"reserved", "denied"} /\ rows'[r].state \notin Held
    BY <2>2 DEF Open, Held
  <2> QED  BY <2>2, <2>3, <2>4 DEF Admitted, Held
<1>7. CASE RemoveFinishedState
  <2>1. rows'[q] = IF Removable(q) THEN NoRow ELSE rows[q]  BY <1>1, <1>7, RemoveType
  <2>2. Said(q)' = Said(q)  BY <1>7, SaidSame DEF RemoveFinishedState
  <2>3. Removable(q) => rows[q].state \notin Held /\ ~rows'[q].counts
    BY <2>1 DEF Removable, NoRow
  <2> QED  BY <2>1, <2>2, <2>3 DEF Admitted
<1>8. Steps => \/ UNCHANGED <<rows, receipts>> \/ RemoveFinishedState
               \/ \E g \in Gateways : Observe(g) \/ ReserveAction(g) \/ PrepareDispatch(g)
               \/ \E p \in Gateways \cup Operators : FinalizeAction(p)
               \/ \E p \in Repairers : SettleAction(p)
  BY DEF Steps, Submit, Execute, AnswerLost, ReconcileReserved, ReconcileDispatched,
         FindInterrupted, ServiceApplies, Expire, store
<1>9. QuietStep => UNCHANGED <<rows, receipts>>  BY DEF QuietStep
<1> QED  BY <1>1, <1>2, <1>3, <1>4, <1>5, <1>6, <1>7, <1>8, <1>9, EveryStep, FinalizeCharge

LEMMA EffectsAdmittedStep ==
  ASSUME ChargeInv, [Next]_vars
  PROVE  EffectsAdmitted'
<1>1. TypeInv /\ TypeInv' /\ contested \subseteq contested'
  BY EveryStep, ContestedGrows DEF ChargeInv, OwnerInv
<1> SUFFICES ASSUME NEW r \in Requests, r \notin contested', ~NoEffect(r)' PROVE Admitted(r)'
  BY DEF EffectsAdmitted
<1> r \notin contested  BY <1>1
<1>2. effect'[r] \in {"none", "in_flight", "applied", "refused"}  BY <1>1 DEF TypeInv, TypeOK
<1>3. CASE ~NoEffect(r)
  BY <1>3, AdmittedFrame DEF ChargeInv, EffectsAdmitted
<1>4. CASE NoEffect(r)
  <2>1. PICK g \in Gateways : Execute(g) /\ calls[g].req = r
    BY <1>1, <1>2, <1>4, EffectFrame DEF NoEffect
  <2>2. OwnsDispatch(g) /\ UNCHANGED <<rows, receipts>>
    BY <2>1 DEF Execute, OwnsDispatch, At, Sending, store
  <2>3. rows[r].state = "dispatching" /\ rows[r].counts
    BY <2>1, <2>2 DEF ChargeInv, Marked, Sent, Alone
  <2> QED  BY <2>2, <2>3 DEF Admitted, Held
<1> QED  BY <1>3, <1>4

LEMMA ChargeStep ==
  ASSUME ChargeInv, [Next]_vars
  PROVE  ChargeInv'
BY OwnerStep, SentStep, MarkedStep, OperatorsStep, EffectsSentStep, EffectsAdmittedStep
   DEF ChargeInv

LEMMA InitCharge == Init => ChargeInv
<1> SUFFICES ASSUME Init PROVE ChargeInv  OBVIOUS
<1>1. \A p \in Procs : calls[p].at = "idle"  BY DEF Init, Idle
<1>2. \A r \in Requests : rows[r].state = None /\ effect[r] = "none"  BY DEF Init, NoRow
<1>3. Marked
  BY <1>1, <1>2, ConstantAssumption
     DEF Marked, NotSending, OwnsDispatch, Past, At, Undispatched, Sending, Procs, Held, Sent
<1>4. OperatorsAlone /\ EffectsSent /\ EffectsAdmitted
  BY <1>1, <1>2 DEF OperatorsAlone, EffectsSent, EffectsAdmitted, NoEffect, At, Procs
<1> QED  BY <1>3, <1>4, InitOwner, InitSent DEF ChargeInv

(* Unknown outcomes remain charged: an action that took effect outside is  *)
(* held by its row or counted by a receipt, through lost answers, crashes, *)
(* reconciliation and the removal of old records, unless an operator       *)
(* reconciled it while its call ran.                                       *)
THEOREM EffectsAreCharged == Spec => []EffectsCharged
<1>1. ChargeInv /\ [Next]_vars => ChargeInv'  BY ChargeStep
<1>2. ChargeInv => EffectsCharged
  <2> SUFFICES ASSUME ChargeInv, NEW r \in Requests \ contested,
                      effect[r] \in {"in_flight", "applied"}
               PROVE  Charged(r)
    BY DEF EffectsCharged
  <2>1. Admitted(r)  BY DEF ChargeInv, EffectsAdmitted, NoEffect
  <2> QED  BY <2>1 DEF Admitted, Charged, Said, SaysExecuted
<1> QED  BY InitCharge, <1>1, <1>2, PTL DEF Spec

-----------------------------------------------------------------------------
(* The limit.                                                              *)

Limited ==
  /\ IsFiniteSet(ExecutedReceipts)
  /\ Cardinality({r \in Requests \ contested : Admitted(r)}) <= Cap

(* Every step stores at most one receipt.                                  *)
LEMMA StoresOne ==
  ASSUME TypeInv, [Next]_vars
  PROVE  \/ UNCHANGED receipts
         \/ \E r \in Requests, outcome \in Outcomes :
              receipts' = [receipts EXCEPT ![r] = Append(receipts[r], outcome)]
<1>1. ASSUME NEW g \in Gateways, Observe(g)
      PROVE  \E r \in Requests, outcome \in Outcomes :
               receipts' = [receipts EXCEPT ![r] = Append(receipts[r], outcome)]
  BY <1>1, ObserveType DEF Observe, Store, Outcomes
<1>2. ASSUME NEW p \in Gateways \cup Operators, FinalizeAction(p)
      PROVE  \/ UNCHANGED receipts
             \/ \E r \in Requests, outcome \in Outcomes :
                  receipts' = [receipts EXCEPT ![r] = Append(receipts[r], outcome)]
  BY <1>2, FinalizeType DEF FinalizeAction, Store, Outcomes, Unsent, Answers, Final
<1>3. ASSUME NEW p \in Repairers, SettleAction(p)
      PROVE  \/ UNCHANGED receipts
             \/ \E r \in Requests, outcome \in Outcomes :
                  receipts' = [receipts EXCEPT ![r] = Append(receipts[r], outcome)]
  BY <1>3, SettleType DEF SettleAction, Store, Outcomes
<1>4. Steps => \/ UNCHANGED receipts
               \/ \E g \in Gateways : Observe(g)
               \/ \E p \in Gateways \cup Operators : FinalizeAction(p)
               \/ \E p \in Repairers : SettleAction(p)
  BY DEF Steps, Submit, ReserveAction, PrepareDispatch, Execute, AnswerLost, ReconcileReserved,
         ReconcileDispatched, FindInterrupted, RemoveFinishedState, ServiceApplies, Expire, store
<1>5. QuietStep => UNCHANGED receipts  BY DEF QuietStep
<1> QED  BY <1>1, <1>2, <1>3, <1>4, <1>5, EveryStep

LEMMA ReceiptsFinite ==
  ASSUME TypeInv, IsFiniteSet(ExecutedReceipts), [Next]_vars
  PROVE  IsFiniteSet(ExecutedReceipts)'
<1>1. CASE UNCHANGED receipts  BY <1>1 DEF ExecutedReceipts
<1>2. ASSUME NEW r \in Requests, NEW outcome \in Outcomes,
             receipts' = [receipts EXCEPT ![r] = Append(receipts[r], outcome)]
      PROVE  IsFiniteSet(ExecutedReceipts)'
  <2> DEFINE longer == Append(receipts[r], outcome)
             last == Len(receipts[r]) + 1
  <2>1. receipts \in [Requests -> Seq(Outcomes)] /\ receipts[r] \in Seq(Outcomes)
    BY DEF TypeInv, TypeOK
  <2>2. /\ DOMAIN longer = DOMAIN receipts[r] \cup {last}
        /\ \A i \in DOMAIN receipts[r] : longer[i] = receipts[r][i]
    BY <2>1
  <2>3. receipts'[r] = longer /\ \A q \in Requests \ {r} : receipts'[q] = receipts[q]
    BY <1>2, <2>1
  <2> HIDE DEF longer, last
  <2>4. ASSUME NEW x \in ExecutedReceipts'  PROVE x \in ExecutedReceipts \cup {<<r, last>>}
    <3>1. PICK q \in Requests : \E i \in DOMAIN receipts'[q] :
                                  x = <<q, i>> /\ SaysExecuted(receipts'[q][i])
      BY DEF ExecutedReceipts
    <3>2. PICK i \in DOMAIN receipts'[q] : x = <<q, i>> /\ SaysExecuted(receipts'[q][i])
      BY <3>1
    <3>3. (i \in DOMAIN receipts[q] /\ receipts'[q][i] = receipts[q][i]) \/ (q = r /\ i = last)
      BY <2>2, <2>3, <3>2
    <3> QED  BY <3>2, <3>3 DEF ExecutedReceipts
  <2>5. IsFiniteSet(ExecutedReceipts \cup {<<r, last>>})  BY FS_AddElement
  <2> QED  BY <2>4, <2>5, FS_Subset
<1> QED  BY <1>1, <1>2, StoresOne

(* executed() counts every admitted action at least once.                  *)
LEMMA AdmittedCounted ==
  ASSUME TypeInv, IsFiniteSet(ExecutedReceipts)
  PROVE  Cardinality({r \in Requests : Admitted(r)}) <= Counted
<1> DEFINE told == {r \in Requests : "executed" \in Said(r)}
           where(r) == CHOOSE i \in DOMAIN receipts[r] : receipts[r][i] = "executed"
           first == [r \in told |-> <<r, where(r)>>]
<1>1. IsFiniteSet(told) /\ IsFiniteSet(HeldCandidates) /\ IsFiniteSet({r \in Requests : Admitted(r)})
  BY ConstantAssumption, FS_Subset DEF HeldCandidates
<1>2. \A r \in told : where(r) \in DOMAIN receipts[r] /\ receipts[r][where(r)] = "executed"
  BY DEF Said
<1>3. \A r \in told : <<r, where(r)>> \in ExecutedReceipts
  <2> HIDE DEF where
  <2> QED  BY <1>2 DEF ExecutedReceipts, SaysExecuted
<1>4. first \in Injection(told, ExecutedReceipts)
  <2> HIDE DEF where, told
  <2> QED  BY <1>3 DEF Injection, IsInjective
<1>5. Cardinality(told) <= Cardinality(ExecutedReceipts)
  <2> HIDE DEF first, told
  <2> QED  BY <1>4, FS_Injection
<1>6. {r \in Requests : Admitted(r)} = told \cup HeldCandidates
  BY DEF Admitted, HeldCandidates
<1>7. Cardinality(told \cup HeldCandidates) <= Cardinality(told) + Cardinality(HeldCandidates)
  <2> HIDE DEF told
  <2>1. /\ Cardinality(told \cup HeldCandidates) =
             Cardinality(told) + Cardinality(HeldCandidates) - Cardinality(told \cap HeldCandidates)
    BY <1>1, FS_Union
  <2>2. IsFiniteSet(told \cap HeldCandidates)  BY <1>1, FS_Subset
  <2> QED  BY <1>1, <2>1, <2>2, FS_CardinalityType
<1>8. /\ Cardinality(told) \in Nat /\ Cardinality(HeldCandidates) \in Nat
      /\ Cardinality(ExecutedReceipts) \in Nat /\ Cardinality({r \in Requests : Admitted(r)}) \in Nat
  BY <1>1, FS_CardinalityType
<1> HIDE DEF told
<1> QED  BY <1>5, <1>6, <1>7, <1>8 DEF Counted

LEMMA LimitedStep ==
  ASSUME ChargeInv, Limited, [Next]_vars
  PROVE  Limited'
<1> DEFINE admitted == {r \in Requests \ contested : Admitted(r)}
<1>1. TypeInv /\ IsFiniteSet(ExecutedReceipts)' /\ contested \subseteq contested'
  BY ReceiptsFinite, ContestedGrows DEF ChargeInv, OwnerInv, Limited
<1>2. IsFiniteSet(admitted) /\ IsFiniteSet(admitted)'
  BY ConstantAssumption, FS_Subset
<1>3. Cardinality(admitted) \in Nat /\ Cardinality(admitted') \in Nat
  BY <1>2, FS_CardinalityType
<1>4. CASE \A g \in Gateways : ~(ReserveAction(g) /\ Counted < Cap)
  <2>1. admitted' \subseteq admitted  BY <1>1, <1>4, AdmittedFrame
  <2>2. Cardinality(admitted') <= Cardinality(admitted)  BY <1>2, <2>1, FS_Subset
  <2> HIDE DEF admitted
  <2>3. Cardinality(admitted') <= Cap
    BY <1>3, <2>2, ConstantAssumption DEF Limited, admitted
  <2> QED  BY <1>1, <2>3 DEF Limited, admitted
<1>5. CASE \E g \in Gateways : ReserveAction(g) /\ Counted < Cap
  <2>1. PICK g \in Gateways : ReserveAction(g) /\ Counted < Cap  BY <1>5
  <2>2. PICK r \in Requests : r = calls[g].req  BY <1>1, <2>1, ReserveType
  <2>3. ASSUME NEW q \in Requests \ contested, Admitted(q)', ~Admitted(q)  PROVE q = r
    <3>1. PICK h \in Gateways : ReserveAction(h) /\ calls[h].req = q
      BY <2>3, AdmittedFrame
    <3>2. rows'[q] # rows[q]
      BY <2>3, <3>1, SaidSame DEF ReserveAction, Admitted
    <3> QED  BY <1>1, <2>1, <2>2, <3>2, ReserveType
  <2>4. admitted' \subseteq admitted \cup {r}  BY <1>1, <2>3
  <2>5. Cardinality(admitted) < Cap
    <3>1. Cardinality(admitted) <= Counted
      <4> DEFINE every == {q \in Requests : Admitted(q)}
      <4>1. Cardinality(every) <= Counted  BY <1>1, AdmittedCounted DEF Limited
      <4>2. IsFiniteSet(every) /\ admitted \subseteq every  BY ConstantAssumption, FS_Subset
      <4> HIDE DEF every, admitted
      <4>3. Cardinality(admitted) <= Cardinality(every)  BY <4>2, FS_Subset
      <4>4. Counted \in Nat
        <5>1. IsFiniteSet(HeldCandidates)  BY ConstantAssumption, FS_Subset DEF HeldCandidates
        <5> QED  BY <5>1, FS_CardinalityType DEF Limited, Counted
      <4>5. Cardinality(every) \in Nat  BY <4>2, FS_CardinalityType
      <4> QED  BY <1>3, <4>1, <4>3, <4>4, <4>5
    <3>2. Counted \in Nat
      <4>1. IsFiniteSet(HeldCandidates)  BY ConstantAssumption, FS_Subset DEF HeldCandidates
      <4> QED  BY <4>1, FS_CardinalityType DEF Limited, Counted
    <3> HIDE DEF admitted
    <3> QED  BY <1>3, <2>1, <3>1, <3>2, ConstantAssumption
  <2> HIDE DEF admitted
  <2>6. IsFiniteSet(admitted \cup {r}) /\ Cardinality(admitted \cup {r}) <= Cardinality(admitted) + 1
    <3>1. /\ IsFiniteSet(admitted \cup {r})
          /\ Cardinality(admitted \cup {r}) =
               IF r \in admitted THEN Cardinality(admitted) ELSE Cardinality(admitted) + 1
      <4>1. IsFiniteSet(admitted)  BY <1>2
      <4> QED  BY <4>1, FS_AddElement, Zenon
    <3> QED  BY <1>3, <3>1
  <2>7. Cardinality(admitted') <= Cardinality(admitted \cup {r})  BY <2>4, <2>6, FS_Subset
  <2>8. Cardinality(admitted \cup {r}) \in Nat  BY <2>6, FS_CardinalityType
  <2>9. Cardinality(admitted') <= Cap
    BY <1>3, <2>5, <2>6, <2>7, <2>8, ConstantAssumption
  <2> QED  BY <1>1, <2>9 DEF Limited, admitted
<1> QED  BY <1>4, <1>5

LEMMA InitLimited == Init => Limited
<1> SUFFICES ASSUME Init PROVE Limited  OBVIOUS
<1>1. ExecutedReceipts = {}  BY DEF Init, ExecutedReceipts
<1>2. {r \in Requests \ contested : Admitted(r)} = {}
  BY ConstantAssumption DEF Init, Admitted, Said, NoRow
<1>3. Cardinality({}) <= Cap  BY FS_EmptySet, ConstantAssumption
<1>4. Cardinality({r \in Requests \ contested : Admitted(r)}) <= Cap  BY <1>2, <1>3, Zenon
<1>5. IsFiniteSet(ExecutedReceipts)  BY <1>1, FS_EmptySet
<1> QED  BY <1>4, <1>5 DEF Limited

(* The effects outside never exceed the policy's limit, whatever calls     *)
(* overlap, die, or are reconciled, the actions reconciled while their     *)
(* call ran aside.                                                         *)
THEOREM WithinCap == Spec => []EffectsWithinCap
<1>1. Init => ChargeInv /\ Limited  BY InitCharge, InitLimited
<1>2. ChargeInv /\ Limited /\ [Next]_vars => ChargeInv' /\ Limited'
  BY ChargeStep, LimitedStep
<1>3. ChargeInv /\ Limited => EffectsWithinCap
  <2> SUFFICES ASSUME ChargeInv, Limited PROVE EffectsWithinCap  OBVIOUS
  <2> DEFINE admitted == {r \in Requests \ contested : Admitted(r)}
             applied == {r \in Requests \ contested : effect[r] = "applied"}
  <2>1. applied \subseteq admitted  BY DEF ChargeInv, EffectsAdmitted, NoEffect
  <2>2. IsFiniteSet(admitted)  BY ConstantAssumption, FS_Subset
  <2>3. IsFiniteSet(applied) /\ Cardinality(applied) <= Cardinality(admitted)
    BY <2>1, <2>2, FS_Subset
  <2>4. Cardinality(applied) \in Nat /\ Cardinality(admitted) \in Nat
    BY <2>2, <2>3, FS_CardinalityType
  <2>5. Cardinality(admitted) <= Cap  BY DEF Limited
  <2> HIDE DEF admitted, applied
  <2>6. Cardinality(applied) <= Cap  BY <2>3, <2>4, <2>5, ConstantAssumption
  <2> QED  BY <2>6 DEF EffectsWithinCap, applied
<1> QED  BY <1>1, <1>2, <1>3, PTL DEF Spec

=============================================================================
