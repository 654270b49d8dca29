------------------------- MODULE DispatchGuardProofs -------------------------
(***************************************************************************)
(* Theorems about DispatchGuard, for any set of processes, requests,       *)
(* approvals, delegations and budgets and any bounds.                      *)
(***************************************************************************)
EXTENDS DispatchGuard, FiniteSetTheorems, SequenceTheorems, WellFoundedInduction, TLAPS

(* The approvals chosen for the intents of an action.                      *)
Choices(S) == UNION {[D -> S] : D \in SUBSET Nat}

Call == [phase: Phases, req: Requests \cup {None}, now: Nat, mark: Nat \cup {None},
         inbox: SUBSET (Approvals \cup CloudApprovals), withdrawn: SUBSET Budgets,
         local: Choices(Approvals), cloud: Choices(CloudApprovals),
         ws: BOOLEAN, active: BOOLEAN, at: Nat, left: SUBSET Nat]

Dispatched == [req: Requests, local: Choices(Approvals), cloud: Choices(CloudApprovals),
               ws: BOOLEAN, at: Nat, counted: SUBSET Budgets]

(* TypeOK, made inductive: the fields of a call and of a decision are      *)
(* typed one by one, and only an idle process has no request.              *)
StoreType ==
  /\ wall \in Nat /\ high \in Nat /\ started \in Nat /\ setBacks \in Nat
  /\ delegations \in [Delegations -> Grants \cup {None}]
  /\ revocations \in SUBSET Delegations /\ granted \in SUBSET Delegations
  /\ cache \in [Delegations -> Nat \cup {None}]
  /\ reservations \in SUBSET [budget: Budgets, group: STRING, at: Nat]
  /\ consumptions \in SUBSET Approvals /\ refused \in SUBSET Approvals
  /\ spent \in SUBSET CloudApprovals
  /\ withdrawn \in SUBSET Budgets

CallsType ==
  /\ call \in [Procs -> Call]
  /\ \A p \in Procs : call[p].phase # "idle" => call[p].req \in Requests
  /\ dispatched \in Seq(Dispatched)

TypeInv == StoreType /\ CallsType

(* With(f, i, a) chooses a for intent i on top of f.                       *)
LEMMA WithType ==
  ASSUME NEW S, NEW f \in Choices(S), NEW i \in Nat, NEW a \in S
  PROVE  With(f, i, a) \in Choices(S)
<1> PICK D \in SUBSET Nat : f \in [D -> S]  BY DEF Choices
<1> D \cup {i} \in SUBSET Nat  OBVIOUS
<1> With(f, i, a) \in [D \cup {i} -> S]  BY DEF With
<1> QED  BY DEF Choices

(* What was chosen is what the approvals chosen for the intents are.       *)
LEMMA ChoicesRange ==
  ASSUME NEW S, NEW f \in Choices(S)
  PROVE  Range(f) \in SUBSET S /\ DOMAIN f \in SUBSET Nat
<1> PICK D \in SUBSET Nat : f \in [D -> S]  BY DEF Choices
<1> QED  BY DEF Range

(* The least of a nonempty set of intent numbers is one of them.           *)
LEMMA FirstType ==
  ASSUME NEW S \in SUBSET Nat, S # {}
  PROVE  First(S) \in S
<1>1. \E x \in S : \A y \in S : ~ (<<y, x>> \in OpToRel(<, Nat))
  BY NatLessThanWellFounded, WFMin
<1>2. PICK x \in S : \A y \in S : ~ (y < x)  BY <1>1 DEF OpToRel
<1>3. \A y \in S : x <= y  BY <1>2
<1> QED  BY <1>3 DEF First

LEMMA PendingType ==
  ASSUME NEW c, c.req \in Requests
  PROVE  Pending(c) \in SUBSET Nat
BY RequestAssumption DEF Pending

(* A step that only replaces the call of p by a well-typed one.            *)
LEMMA CallUpdate ==
  ASSUME CallsType, NEW p \in Procs, NEW c \in Call,
         call' = [call EXCEPT ![p] = c],
         c.phase # "idle" => c.req \in Requests,
         UNCHANGED dispatched
  PROVE  CallsType'
BY DEF CallsType

LEMMA EffectiveNowType ==
  ASSUME StoreType
  PROVE  EffectiveNow \in Nat /\ MarkToWrite \in Nat \cup {None}
BY DEF StoreType, EffectiveNow, MarkToWrite

LEMMA NoCallType == NoCall \in Call /\ NoApproval \in Choices(Approvals)
                    /\ NoApproval \in Choices(CloudApprovals)
<1>1. \A S : NoApproval \in [{} -> S]  BY DEF NoApproval
<1>2. \A S : NoApproval \in Choices(S)  BY <1>1 DEF Choices
<1> QED  BY <1>2 DEF NoCall, Call, Phases

LEMMA DenyType ==
  ASSUME CallsType, NEW p \in Procs, Deny(p), UNCHANGED dispatched
  PROVE  CallsType'
BY NoCallType, CallUpdate DEF Deny, NoCall

LEMMA AllowType ==
  ASSUME CallsType, NEW p \in Procs, NEW c \in Call, c.req \in Requests,
         NEW now \in Nat, NEW counted \in SUBSET Budgets,
         Allow(p, c, now, counted)
  PROVE  CallsType'
<1>1. [req |-> c.req, local |-> c.local, cloud |-> c.cloud, ws |-> c.ws, at |-> now,
       counted |-> counted] \in Dispatched
  BY DEF Call, Dispatched
<1>2. dispatched' \in Seq(Dispatched)  BY <1>1, AppendProperties DEF Allow, CallsType
<1> QED  BY <1>2, NoCallType DEF Allow, CallsType, NoCall

(* Every step of a call keeps the types.                                   *)
LEMMA AuthorizeType ==
  ASSUME TypeInv, NEW p \in Procs, authorize(p)
  PROVE  TypeInv'
<1> DEFINE c == call[p]
<1> USE NumberAssumption, NoneAssumption
<1>1. /\ c \in Call
      /\ c.phase # "idle" => c.req \in Requests
      /\ StoreType /\ CallsType
  BY DEF TypeInv, CallsType
<1>2. EffectiveNow \in Nat /\ MarkToWrite \in Nat \cup {None}  BY <1>1, EffectiveNowType
<1>3. ASSUME \E phase : In(p, phase) /\ phase # "idle"
      PROVE  c.req \in Requests
  BY <1>1, <1>3 DEF In
<1>4. ASSUME NEW i \in Nat, NEW a \in Approvals,
             call' = [call EXCEPT ![p].local = With(c.local, i, a)],
             c.phase # "idle", UNCHANGED dispatched
      PROVE  CallsType'
  <2>1. With(c.local, i, a) \in Choices(Approvals)  BY <1>1, <1>4, WithType DEF Call
  <2>2. call' = [call EXCEPT ![p] = [c EXCEPT !.local = With(c.local, i, a)]]
    BY <1>1, <1>4 DEF CallsType
  <2>3. [c EXCEPT !.local = With(c.local, i, a)] \in Call  BY <1>1, <2>1 DEF Call
  <2> QED  BY <1>1, <1>4, <2>2, <2>3, CallUpdate DEF Call
<1>5. ASSUME PassThrough(p)  PROVE TypeInv'
  <2>1. PICK req \in Requests : Begin(p, req) /\ Allow(p, [NoCall EXCEPT !.req = req], 0, {})
    BY <1>5 DEF PassThrough
  <2>2. [NoCall EXCEPT !.req = req] \in Call /\ [NoCall EXCEPT !.req = req].req \in Requests
    BY NoCallType DEF Call, NoCall
  <2> DEFINE n == [NoCall EXCEPT !.req = req]
  <2>3. CallsType'
    <3> HIDE DEF n
    <3> QED  BY <1>1, <2>1, <2>2, AllowType, 0 \in Nat, {} \in SUBSET Budgets DEF n
  <2> QED  BY <1>1, <1>5, <2>1, <2>3 DEF PassThrough, Begin, TypeInv, StoreType, store, workspace
<1>6. ASSUME Start(p)  PROVE TypeInv'
  <2>1. PICK req \in Requests, inbox \in SUBSET (Approvals \cup CloudApprovals) :
          /\ Begin(p, req)
          /\ call' = [call EXCEPT ![p] = [NoCall EXCEPT
                     !.phase = "choosing", !.req = req, !.now = EffectiveNow, !.mark = MarkToWrite,
                     !.inbox = inbox, !.withdrawn = withdrawn]]
    BY <1>6 DEF Start
  <2> DEFINE n == [NoCall EXCEPT
                     !.phase = "choosing", !.req = req, !.now = EffectiveNow, !.mark = MarkToWrite,
                     !.inbox = inbox, !.withdrawn = withdrawn]
  <2>2. n \in Call /\ n.req \in Requests
    BY NoCallType, <1>1, <1>2 DEF Call, NoCall, Phases, StoreType
  <2>3. CallsType'  BY <1>1, <1>6, <2>1, <2>2, CallUpdate DEF Start, history
  <2> QED  BY <1>1, <1>6, <2>1, <2>3 DEF Start, Begin, TypeInv, StoreType, store, workspace, history
<1>7. ASSUME WriteMark(p)  PROVE TypeInv'
  <2>1. [c EXCEPT !.mark = None] \in Call  BY <1>1 DEF Call
  <2>2. CallsType'
    BY <1>1, <1>7, <2>1, CallUpdate DEF WriteMark, CallsType, Call, history
  <2> QED  BY <1>1, <1>7, <2>2 DEF WriteMark, Call, TypeInv, StoreType, workspace, history, bounds
<1>8. ASSUME ChooseLocal(p)  PROVE TypeInv'
  <2>1. c.req \in Requests /\ Pending(c) # {}  BY <1>1, <1>8 DEF ChooseLocal, In
  <2>2. First(Pending(c)) \in Nat  BY <2>1, PendingType, FirstType
  <2>3. PICK a \in Candidates(c, First(Pending(c))) :
          call' = [call EXCEPT ![p].local = With(c.local, First(Pending(c)), a)]
    BY <1>8 DEF ChooseLocal
  <2>4. a \in Approvals  BY DEF Candidates
  <2>5. CallsType'  BY <1>4, <1>8, <2>2, <2>3, <2>4 DEF ChooseLocal, In, history
  <2> QED
    BY <1>1, <1>8, <2>5 DEF ChooseLocal, TypeInv, StoreType, store, workspace, history, bounds
<1>10. ASSUME NEW i \in Nat, NEW a \in CloudApprovals, c.phase # "idle", UNCHANGED dispatched,
              \/ call' = [call EXCEPT ![p].cloud = With(c.cloud, i, a)]
              \/ call' = [call EXCEPT ![p].cloud = With(c.cloud, i, a), ![p].phase = "choosing"]
       PROVE  CallsType'
  <2>1. With(c.cloud, i, a) \in Choices(CloudApprovals)  BY <1>1, <1>10, WithType DEF Call
  <2>2. \/ call' = [call EXCEPT ![p] = [c EXCEPT !.cloud = With(c.cloud, i, a)]]
        \/ call' = [call EXCEPT ![p] = [c EXCEPT !.cloud = With(c.cloud, i, a), !.phase = "choosing"]]
    BY <1>1, <1>10 DEF CallsType
  <2>3. /\ [c EXCEPT !.cloud = With(c.cloud, i, a)] \in Call
        /\ [c EXCEPT !.cloud = With(c.cloud, i, a), !.phase = "choosing"] \in Call
    BY <1>1, <2>1 DEF Call, Phases
  <2> QED  BY <1>1, <1>10, <2>2, <2>3, CallUpdate DEF Call
<1>11. ExpiredFor(c, First(Pending(c))) \in SUBSET Approvals  BY DEF ExpiredFor
<1>12. ASSUME ChooseRef(p)  PROVE TypeInv'
  <2>1. c.req \in Requests /\ Pending(c) # {}  BY <1>1, <1>12 DEF ChooseRef, In
  <2>2. First(Pending(c)) \in Nat  BY <2>1, PendingType, FirstType
  <2>3. PICK ref \in Refs(c) :
          call' = [call EXCEPT ![p].cloud = With(c.cloud, First(Pending(c)), ref)]
    BY <1>12 DEF ChooseRef
  <2>4. ref \in CloudApprovals  BY DEF Refs
  <2>5. CallsType'  BY <1>10, <1>12, <2>2, <2>3, <2>4 DEF ChooseRef, In
  <2> QED  BY <1>1, <1>11, <1>12, <2>5 DEF ChooseRef, TypeInv, StoreType, store, workspace, bounds
<1>13. ASSUME NEW x \in Phases, c.phase # "idle", UNCHANGED dispatched,
              call' = [call EXCEPT ![p].phase = x]
       PROVE  CallsType'
  <2>1. call' = [call EXCEPT ![p] = [c EXCEPT !.phase = x]]  BY <1>1, <1>13 DEF CallsType
  <2>2. [c EXCEPT !.phase = x] \in Call  BY <1>1 DEF Call
  <2> QED  BY <1>1, <1>13, <2>1, <2>2, CallUpdate DEF Call
<1>14. ASSUME AskActive(p)  PROVE TypeInv'
  <2>1. CallsType'
    BY <1>1, <1>13, <1>14, DenyType, "lookup" \in Phases DEF AskActive, In, Phases
  <2> QED  BY <1>1, <1>11, <1>14, <2>1 DEF AskActive, TypeInv, StoreType, store, workspace, bounds
<1>15. ASSUME FoundActive(p)  PROVE TypeInv'
  <2> DEFINE i == First(Pending(c))
  <2>1. PICK ref \in CloudApprovals \ (spent \cup Range(c.cloud)) :
          /\ CloudFor[ref] = c.req.intents[i]
          /\ call' = [call EXCEPT ![p].cloud = With(c.cloud, i, ref), ![p].phase = "choosing"]
    BY <1>15 DEF FoundActive
  <2>2. c.req \in Requests /\ Pending(c) # {}  BY <1>1, <1>15 DEF FoundActive, In
  <2>3. i \in Nat  BY <2>2, PendingType, FirstType
  <2>4. CallsType'  BY <1>10, <1>15, <2>1, <2>3 DEF FoundActive, In, history
  <2> QED
    BY <1>1, <1>15, <2>4 DEF FoundActive, TypeInv, StoreType, store, workspace, history, bounds
<1>16. ASSUME AllChosen(p)  PROVE TypeInv'
  <2>1. /\ [c EXCEPT !.phase = "session", !.inbox = {}, !.ws = TRUE,
                     !.now = EffectiveNow, !.mark = MarkToWrite] \in Call
        /\ [c EXCEPT !.phase = AfterDelegation(c), !.inbox = {}, !.now = 0] \in Call
    BY <1>1, <1>2 DEF Call, Phases, AfterDelegation
  <2>2. c.req \in Requests  BY <1>1, <1>16 DEF AllChosen, In
  <2>3. CallsType'
    BY <1>1, <1>16, <2>1, <2>2, CallUpdate DEF AllChosen, Call, history
  <2> QED  BY <1>1, <1>16, <2>3 DEF AllChosen, TypeInv, StoreType, store, workspace, history, bounds
<1>17. ASSUME Permitted(p, c), c.phase # "idle", UNCHANGED dispatched  PROVE CallsType'
  <2>1. [c EXCEPT !.phase = AfterDelegation(c), !.active = FALSE, !.now = 0, !.at = 0] \in Call
    BY <1>1 DEF Call, Phases, AfterDelegation
  <2>2. c.req \in Requests  BY <1>1, <1>17
  <2> QED  BY <1>1, <1>17, <2>1, <2>2, CallUpdate, DenyType DEF Permitted, Call
<1>18. ASSUME UseCached(p)  PROVE TypeInv'
  <2>1. CallsType'
    BY <1>13, <1>17, <1>18, "asking" \in Phases DEF UseCached, In, Phases, history
  <2> QED  BY <1>1, <1>18, <2>1 DEF UseCached, TypeInv, StoreType, store, workspace, history, bounds
<1>19. ASSUME WorkspaceResolves(p)  PROVE TypeInv'
  <2> DEFINE n == [c EXCEPT !.phase = "answered", !.active = c.req.delegation \in granted]
  <2>1. \A b \in BOOLEAN : [c EXCEPT !.phase = "answered", !.active = b] \in Call
    BY <1>1 DEF Call, Phases
  <2> (c.req.delegation \in granted) \in BOOLEAN  OBVIOUS
  <2>2. call' = [call EXCEPT ![p] = n]  BY <1>1, <1>19 DEF WorkspaceResolves, CallsType
  <2>3. c.req \in Requests  BY <1>1, <1>19 DEF WorkspaceResolves, In
  <2>4. CallsType'
    BY <1>1, <1>19, <2>1, <2>2, <2>3, CallUpdate DEF WorkspaceResolves, Call, history
  <2> QED

    BY <1>1, <1>19, <2>4 DEF WorkspaceResolves, TypeInv, StoreType, store, workspace, history, bounds
<1>20. ASSUME ReceiveGrant(p)  PROVE TypeInv'
  <2> DEFINE n == [c EXCEPT !.phase = "caching", !.at = EffectiveNow, !.mark = MarkToWrite]
  <2>1. n \in Call  BY <1>1, <1>2 DEF Call, Phases
  <2>2. Deny(p) \/ call' = [call EXCEPT ![p] = n]  BY <1>1, <1>20 DEF ReceiveGrant, CallsType
  <2>3. c.req \in Requests  BY <1>1, <1>20 DEF ReceiveGrant, In
  <2>4. CallsType'
    BY <1>1, <1>20, <2>1, <2>2, <2>3, CallUpdate, DenyType DEF ReceiveGrant, Call, history
  <2> QED  BY <1>1, <1>20, <2>4 DEF ReceiveGrant, TypeInv, StoreType, workspace, history, bounds
<1>21. ASSUME CacheGrant(p)  PROVE TypeInv'
  <2>1. CallsType'  BY <1>17, <1>21 DEF CacheGrant, In, history
  <2>2. c.at \in Nat  BY <1>1 DEF Call
  <2> QED  BY <1>1, <1>21, <2>1, <2>2 DEF CacheGrant, TypeInv, StoreType, workspace, history, bounds
<1>22. \A now : FoundExpired(c, now) \in SUBSET Approvals
  BY <1>1, ChoicesRange DEF FoundExpired, Call
<1>23. ASSUME LookFirst(p)  PROVE TypeInv'
  <2> DEFINE n == [c EXCEPT !.phase = "consuming", !.left = DOMAIN c.cloud]
  <2>1. DOMAIN c.cloud \in SUBSET Nat  BY <1>1, ChoicesRange DEF Call
  <2> n \in Call  BY <1>1, <2>1 DEF Call, Phases
  <2>2. Deny(p) \/ call' = [call EXCEPT ![p] = n]  BY <1>1, <1>23 DEF LookFirst, CallsType
  <2>3. c.req \in Requests  BY <1>1, <1>23 DEF LookFirst, In
  <2>4. CallsType'  BY <1>1, <1>23, <2>1, <2>2, <2>3, CallUpdate, DenyType DEF LookFirst, Call
  <2> QED  BY <1>1, <1>22, <1>23, <2>4 DEF LookFirst, TypeInv, StoreType, store, workspace, bounds
<1>24. ASSUME ConsumeInWorkspace(p)  PROVE TypeInv'
  <2>1. CallsType'

    BY <1>1, <1>13, <1>24, DenyType, "confirming" \in Phases DEF ConsumeInWorkspace, In, Phases, history
  <2> QED  BY <1>1, <1>24, <2>1 DEF ConsumeInWorkspace, TypeInv, StoreType, store, history, bounds
<1>25. ASSUME Consumed(p)  PROVE TypeInv'
  <2> DEFINE rest == c.left \ {First(c.left)}
             n == [c EXCEPT !.left = rest, !.phase = IF rest = {} THEN "deciding" ELSE "consuming"]
  <2>1. n \in Call  BY <1>1 DEF Call, Phases
  <2>2. call' = [call EXCEPT ![p] = n]  BY <1>1, <1>25 DEF Consumed, CallsType
  <2>3. c.req \in Requests  BY <1>1, <1>25 DEF Consumed, In
  <2>4. CallsType'  BY <1>1, <1>25, <2>1, <2>2, <2>3, CallUpdate DEF Consumed, Call, history
  <2> QED  BY <1>1, <1>25, <2>4 DEF Consumed, TypeInv, StoreType, store, workspace, history, bounds
<1>26. ASSUME WorkspaceFails(p)  PROVE TypeInv'
  BY <1>1, <1>26, DenyType
     DEF WorkspaceFails, TypeInv, StoreType, store, workspace, history, bounds
<1>27. ASSUME Decide(p)  PROVE TypeInv'
  <2> DEFINE now == EffectiveNow  counted == ToInsert(c, now)
  <2>1. c.req \in Requests  BY <1>1, <1>27 DEF Decide, In
  <2>2. counted \in SUBSET Budgets  BY DEF ToInsert, PoliciesFor
  <2>3. CASE Permits(c, now)
    <3>1. Allow(p, c, now, counted)  BY <1>27, <2>3 DEF Decide
    <3>2. CallsType'  BY <1>1, <1>2, <2>1, <2>2, <3>1, AllowType
    <3>3. Reserve(counted, c.req.group, now) \in SUBSET [budget: Budgets, group: STRING, at: Nat]
      BY <1>1, <1>2, <2>1, <2>2, RequestAssumption DEF Reserve, StoreType
    <3>4. consumeApproval(c) \in SUBSET Approvals
      BY <1>1, ChoicesRange DEF consumeApproval, StoreType, Call
    <3> QED
      BY <1>1, <1>2, <1>27, <2>3, <3>2, <3>3, <3>4 DEF Decide, TypeInv, StoreType, workspace, bounds
  <2>4. CASE ~Permits(c, now)
    <3>1. CallsType'  BY <1>1, <1>27, <2>4, DenyType DEF Decide
    <3> QED
      BY <1>1, <1>22, <1>27, <2>4, <3>1 DEF Decide, TypeInv, StoreType, workspace, bounds
  <2> QED  BY <2>3, <2>4
<1>28. ASSUME StoreFails(p)  PROVE TypeInv'
  <2> DEFINE n == [NoCall EXCEPT !.req = c.req]
  <2>1. c.req \in Requests  BY <1>1, <1>28 DEF StoreFails, In
  <2>2. n \in Call /\ n.req \in Requests  BY <2>1, NoCallType DEF Call, NoCall
  <2>3. (Deny(p) /\ UNCHANGED dispatched) \/ Allow(p, n, 0, {})  BY <1>28 DEF StoreFails
  <2>4. CallsType'
    <3> HIDE DEF n
    <3> QED  BY <1>1, <2>2, <2>3, DenyType, AllowType, 0 \in Nat, {} \in SUBSET Budgets
  <2> QED  BY <1>1, <1>28, <2>4 DEF StoreFails, TypeInv, StoreType, store, workspace, bounds
<1>29. ASSUME Crash(p)  PROVE TypeInv'
  BY <1>1, <1>29, DenyType DEF Crash, TypeInv, StoreType, store, workspace, history, bounds
<1> QED
  BY <1>5, <1>6, <1>7, <1>8, <1>12, <1>14, <1>15, <1>16, <1>18, <1>19, <1>20, <1>21, <1>23, <1>24,
     <1>25, <1>26, <1>27, <1>28, <1>29 DEF authorize

(* The steps of everyone else.                                             *)
LEMMA OthersType ==
  ASSUME TypeInv,
         \/ \E g \in Grants : AddDelegation(g)
         \/ \E ids \in SUBSET Delegations : Revoke(ids)
         \/ \E b \in Budgets : WithdrawBudget(b)
         \/ \E id \in Delegations : EndGrant(id)
         \/ Tick \/ SetBack
  PROVE  TypeInv'
<1> USE DEF TypeInv, CallsType, store, workspace, history, bounds
<1>1. ASSUME NEW g \in Grants, AddDelegation(g)  PROVE TypeInv'
  BY <1>1, EffectiveNowType DEF AddDelegation, StoreType
<1>2. ASSUME NEW ids \in SUBSET Delegations, Revoke(ids)  PROVE TypeInv'
  BY <1>2 DEF Revoke, StoreType
<1>3. ASSUME NEW b \in Budgets, WithdrawBudget(b)  PROVE TypeInv'
  BY <1>3 DEF WithdrawBudget, StoreType
<1>4. ASSUME NEW id \in Delegations, EndGrant(id)  PROVE TypeInv'
  BY <1>4 DEF EndGrant, StoreType
<1>5. CASE Tick  BY <1>5 DEF Tick, StoreType
<1>6. CASE SetBack  BY <1>6 DEF SetBack, StoreType
<1> QED  BY <1>1, <1>2, <1>3, <1>4, <1>5, <1>6

LEMMA InitType == Init => TypeInv
<1> SUFFICES ASSUME Init PROVE TypeInv  OBVIOUS
<1>1. StoreType  BY DEF Init, StoreType
<1>2. CallsType  BY NoCallType DEF Init, CallsType, NoCall
<1> QED  BY <1>1, <1>2 DEF TypeInv

LEMMA TypeStep == TypeInv /\ [Next]_vars => TypeInv'
<1> SUFFICES ASSUME TypeInv, [Next]_vars  PROVE TypeInv'  OBVIOUS
<1>1. CASE Next  BY <1>1, AuthorizeType, OthersType DEF Next
<1>2. CASE UNCHANGED vars
  BY <1>2 DEF vars, store, workspace, history, bounds, TypeInv, StoreType, CallsType
<1> QED  BY <1>1, <1>2

(* Every reachable state has the types, for any constants.                 *)
THEOREM TypeInvariant == Spec => []TypeInv
<1>1. Init => TypeInv  BY InitType
<1>2. TypeInv /\ [Next]_vars => TypeInv'  BY TypeStep
<1> QED  BY <1>1, <1>2, PTL DEF Spec

(* The type invariant the runs check.                                      *)
THEOREM TypeCorrect == Spec => []TypeOK
<1>1. TypeInv => TypeOK
  <2> SUFFICES ASSUME TypeInv PROVE TypeOK  OBVIOUS
  <2>1. ASSUME NEW p \in Procs

        PROVE  Range(call[p].local) \subseteq Approvals /\ Range(call[p].cloud) \subseteq CloudApprovals
    BY ChoicesRange DEF TypeInv, CallsType, Call
  <2>2. ASSUME NEW p \in Procs
        PROVE  /\ call[p].phase \in Phases
               /\ call[p].phase # "idle" => call[p].req \in Requests
               /\ {call[p].now, call[p].at} \subseteq Nat
               /\ call[p].mark \in Nat \cup {None}
    BY DEF TypeInv, CallsType, Call
  <2> QED  BY <2>1, <2>2 DEF TypeInv, StoreType, CallsType, TypeOK
<1> QED  BY <1>1, TypeInvariant, PTL

-----------------------------------------------------------------------------
(* Single use.  An approval chosen twice by one call, or used twice by the *)
(* actions let through, is excluded together with the reason for it: what  *)
(* was used is exactly what the table of consumptions holds.               *)
ChosenOnce == \A p \in Procs : IsInjective(call[p].local)

Used(k) == Range(dispatched[k].local)

UsedOnce ==
  /\ \A k \in DOMAIN dispatched : IsInjective(dispatched[k].local)
  /\ \A j, k \in DOMAIN dispatched : j # k => Used(j) \cap Used(k) = {}
  /\ \A k \in DOMAIN dispatched : Used(k) \subseteq consumptions
  /\ \A a \in consumptions : \E k \in DOMAIN dispatched : a \in Used(k)

SpendInv == TypeInv /\ ChosenOnce /\ UsedOnce

LEMMA NoApprovalUses == IsInjective(NoApproval) /\ Range(NoApproval) = {}
BY DEF NoApproval, IsInjective, Range

(* Letting an action through keeps UsedOnce, when what it uses is unspent  *)
(* and is recorded in the same step.                                       *)
LEMMA AllowUses ==
  ASSUME SpendInv, NEW p \in Procs, NEW c, NEW now, NEW counted, Allow(p, c, now, counted),
         IsInjective(c.local), Range(c.local) \cap consumptions = {},
         consumptions' = consumptions \cup Range(c.local)
  PROVE  UsedOnce'
<1> DEFINE d == [req |-> c.req, local |-> c.local, cloud |-> c.cloud, ws |-> c.ws, at |-> now,
                 counted |-> counted]
<1>1. dispatched \in Seq(Dispatched)  BY DEF SpendInv, TypeInv, CallsType
<1>0. PICK n \in Nat : n = Len(dispatched)  BY <1>1
<1>2. dispatched' = Append(dispatched, d)  BY DEF Allow
<1>3. /\ DOMAIN dispatched = 1..n /\ n \in Nat
      /\ DOMAIN dispatched' = 1..(n + 1)
      /\ \A k \in 1..n : dispatched'[k] = dispatched[k]
      /\ dispatched'[n + 1] = d
  BY <1>0, <1>1, <1>2
<1>4. d.local = c.local  OBVIOUS
<1> HIDE DEF d
<1>5. \A k \in 1..n : dispatched'[k].local = dispatched[k].local  BY <1>3
<1>6. dispatched'[n + 1].local = c.local  BY <1>3, <1>4
<1>7. \A k \in 1..n : Used(k)' = Used(k)  BY <1>5 DEF Used
<1>8. Used(n + 1)' = Range(c.local)  BY <1>6 DEF Used
<1>9. \A k \in 1..(n + 1) : k \in 1..n \/ k = n + 1  BY <1>3
<1>10. \A k \in DOMAIN dispatched' : IsInjective(dispatched'[k].local)
  BY <1>3, <1>5, <1>6, <1>9 DEF SpendInv, UsedOnce
<1>11. \A j, k \in DOMAIN dispatched' : j # k => Used(j)' \cap Used(k)' = {}
  BY <1>3, <1>7, <1>8, <1>9 DEF SpendInv, UsedOnce
<1>12. \A k \in DOMAIN dispatched' : Used(k)' \subseteq consumptions'
  BY <1>3, <1>7, <1>8, <1>9 DEF SpendInv, UsedOnce
<1>13. \A a \in consumptions' : \E k \in DOMAIN dispatched' : a \in Used(k)'
  <2>1. ASSUME NEW a \in consumptions PROVE \E k \in DOMAIN dispatched' : a \in Used(k)'
    BY <1>3, <1>7 DEF SpendInv, UsedOnce
  <2>2. n + 1 \in DOMAIN dispatched'  BY <1>3
  <2> QED  BY <2>1, <2>2, <1>8
<1> QED  BY <1>10, <1>11, <1>12, <1>13 DEF UsedOnce

(* Choosing another unchosen approval keeps a call's choices distinct.     *)
LEMMA WithInjective ==
  ASSUME NEW f, NEW i, i \notin DOMAIN f, NEW a, a \notin Range(f), IsInjective(f)
  PROVE  IsInjective(With(f, i, a))
BY DEF With, IsInjective, Range

LEMMA AuthorizeSpends ==
  ASSUME SpendInv, NEW p \in Procs, authorize(p)
  PROVE  ChosenOnce' /\ UsedOnce'
<1> DEFINE c == call[p]
<1>1. /\ CallsType /\ call \in [Procs -> Call] /\ ChosenOnce /\ UsedOnce
  BY DEF SpendInv, TypeInv, CallsType
<1>2. NoCall.local = NoApproval  BY DEF NoCall
<1>3. ASSUME NEW f, IsInjective(f), NEW x, call' = [call EXCEPT ![p] = x], x.local = f
      PROVE  ChosenOnce'
  BY <1>1, <1>3 DEF ChosenOnce
<1>4. Deny(p) => ChosenOnce'  BY <1>2, <1>3, NoApprovalUses DEF Deny
<1>5. ASSUME UNCHANGED <<dispatched, consumptions>>  PROVE UsedOnce'
  BY <1>1, <1>5 DEF UsedOnce, Used
<1>6. ASSUME NEW x, x.local = NoApproval, Allow(p, x, 0, {}), UNCHANGED consumptions
      PROVE  ChosenOnce' /\ UsedOnce'
  <2>1. ChosenOnce'  BY <1>2, <1>3, <1>6, NoApprovalUses DEF Allow
  <2>2. UsedOnce'  BY <1>6, NoApprovalUses, AllowUses
  <2> QED  BY <2>1, <2>2
<1>7. CASE ChooseLocal(p)
  <2> DEFINE i == First(Pending(c))
  <2>1. PICK a \in Candidates(c, i) : call' = [call EXCEPT ![p].local = With(c.local, i, a)]
    BY <1>7 DEF ChooseLocal
  <2>2. c.req \in Requests /\ Pending(c) # {}
    BY <1>7 DEF ChooseLocal, In, SpendInv, TypeInv, CallsType
  <2>3. i \in Pending(c)  BY <2>2, PendingType, FirstType
  <2>4. i \notin DOMAIN c.local  BY <2>3 DEF Pending
  <2>5. a \notin Range(c.local)  BY DEF Candidates
  <2>6. IsInjective(With(c.local, i, a))  BY <1>1, <2>4, <2>5, WithInjective DEF ChosenOnce
  <2>7. call' = [call EXCEPT ![p] = [c EXCEPT !.local = With(c.local, i, a)]]  BY <1>1, <2>1
  <2>8. [c EXCEPT !.local = With(c.local, i, a)].local = With(c.local, i, a)  BY <1>1 DEF Call
  <2>9. ChosenOnce'  BY <1>3, <2>6, <2>7, <2>8
  <2> QED  BY <1>5, <1>7, <2>9 DEF ChooseLocal, store, history
<1>8. CASE PassThrough(p)
  <2>1. PICK req \in Requests : Allow(p, [NoCall EXCEPT !.req = req], 0, {})
    BY <1>8 DEF PassThrough
  <2>2. [NoCall EXCEPT !.req = req].local = NoApproval  BY DEF NoCall
  <2> QED  BY <1>6, <1>8, <2>1, <2>2 DEF PassThrough, store
<1>9. CASE StoreFails(p)
  <2>1. CASE Deny(p) /\ UNCHANGED dispatched  BY <1>4, <1>5, <1>9, <2>1 DEF StoreFails, store
  <2>2. CASE Allow(p, [NoCall EXCEPT !.req = c.req], 0, {})
    <3>1. [NoCall EXCEPT !.req = c.req].local = NoApproval  BY DEF NoCall
    <3> QED  BY <1>6, <1>9, <2>2, <3>1 DEF StoreFails, store
  <2> QED  BY <1>9, <2>1, <2>2 DEF StoreFails
<1>10. CASE Decide(p)
  <2> DEFINE now == EffectiveNow
  <2>1. CASE Permits(c, now)
    <3>1. Allow(p, c, now, ToInsert(c, now))  BY <1>10, <2>1 DEF Decide
    <3>2. Range(c.local) \cap consumptions = {}  BY <2>1 DEF Permits
    <3>3. consumptions' = consumptions \cup Range(c.local)
      BY <1>10, <2>1 DEF Decide, consumeApproval
    <3>4. IsInjective(c.local)  BY <1>1 DEF ChosenOnce
    <3>5. UsedOnce'  BY <3>1, <3>2, <3>3, <3>4, AllowUses
    <3>6. ChosenOnce'  BY <1>4, <3>1 DEF Allow, Deny
    <3> QED  BY <3>5, <3>6
  <2>2. CASE ~Permits(c, now)  BY <1>4, <1>5, <1>10, <2>2 DEF Decide
  <2> QED  BY <2>1, <2>2
<1>11. CASE Start(p)
  <2>1. ChosenOnce'  BY <1>1, <1>11, NoApprovalUses DEF Start, NoCall, ChosenOnce
  <2> QED  BY <1>5, <1>11, <2>1 DEF Start, store, history
<1>12. ASSUME ~ChooseLocal(p), ~PassThrough(p), ~StoreFails(p), ~Decide(p), ~Start(p)
       PROVE  ChosenOnce' /\ UsedOnce'
  <2>1. UNCHANGED <<dispatched, consumptions>>
    BY <1>12 DEF authorize, WriteMark, ChooseRef, AskActive, FoundActive, AllChosen, UseCached,
       WorkspaceResolves, ReceiveGrant, CacheGrant, LookFirst, ConsumeInWorkspace, Consumed,
       WorkspaceFails, Crash, store, history
  <2> DEFINE Kept == \A q \in Procs : call'[q].local = call[q].local
  <2>2. CASE WriteMark(p) \/ AllChosen(p)
    <3>1. CASE WriteMark(p)
      <4> Kept  BY <1>1, <3>1 DEF WriteMark, Call
      <4> QED  BY <1>1, <1>5, <2>1 DEF ChosenOnce
    <3>2. CASE AllChosen(p)
      <4> DEFINE n1 == [c EXCEPT !.phase = "session", !.inbox = {}, !.ws = TRUE,
                                 !.now = EffectiveNow, !.mark = MarkToWrite]
                 n2 == [c EXCEPT !.phase = AfterDelegation(c), !.inbox = {}, !.now = 0]
      <4>1. n1.local = c.local /\ n2.local = c.local  BY <1>1 DEF Call
      <4>2. call' = [call EXCEPT ![p] = n1] \/ call' = [call EXCEPT ![p] = n2]
        BY <3>2 DEF AllChosen
      <4> HIDE DEF n1, n2
      <4>3. ChosenOnce'  BY <1>1, <1>3, <4>1, <4>2 DEF ChosenOnce
      <4> QED  BY <1>5, <2>1, <4>3
    <3> QED  BY <2>2, <3>1, <3>2
  <2>3. CASE ChooseRef(p) \/ FoundActive(p)
    <3>0. \E x : \/ call' = [call EXCEPT ![p].cloud = x]
                 \/ call' = [call EXCEPT ![p].cloud = x, ![p].phase = "choosing"]
      BY <2>3 DEF ChooseRef, FoundActive
    <3>1. Kept  BY <1>1, <3>0 DEF Call
    <3> QED  BY <1>1, <1>5, <2>1, <3>1 DEF ChosenOnce
  <2>4. CASE AskActive(p) \/ LookFirst(p) \/ ConsumeInWorkspace(p)
    <3>1. Deny(p) \/ Kept  BY <1>1, <2>4 DEF AskActive, LookFirst, ConsumeInWorkspace, Call
    <3> QED  BY <1>1, <1>4, <1>5, <2>1, <3>1 DEF ChosenOnce
  <2>5. CASE UseCached(p) \/ CacheGrant(p) \/ ReceiveGrant(p)
    <3>1. ASSUME Permitted(p, c)  PROVE Deny(p) \/ Kept
      <4> DEFINE n == [c EXCEPT !.phase = AfterDelegation(c), !.active = FALSE, !.now = 0, !.at = 0]
      <4>1. n.local = c.local  BY <1>1 DEF Call
      <4>2. Deny(p) \/ call' = [call EXCEPT ![p] = n]  BY <3>1 DEF Permitted
      <4> HIDE DEF n
      <4> QED  BY <1>1, <4>1, <4>2
    <3>2. ReceiveGrant(p) => Deny(p) \/ Kept  BY <1>1 DEF ReceiveGrant, Call
    <3>3. UseCached(p) => Permitted(p, c) \/ Kept  BY <1>1 DEF UseCached, Call
    <3>4. CacheGrant(p) => Permitted(p, c)  BY DEF CacheGrant
    <3> QED  BY <1>1, <1>4, <1>5, <2>1, <2>5, <3>1, <3>2, <3>3, <3>4 DEF ChosenOnce
  <2>6. CASE WorkspaceResolves(p) \/ Consumed(p)
    <3>1. Kept  BY <1>1, <2>6 DEF WorkspaceResolves, Consumed, Call
    <3> QED  BY <1>1, <1>5, <2>1, <3>1 DEF ChosenOnce
  <2>7. CASE WorkspaceFails(p) \/ Crash(p)
    BY <1>4, <1>5, <2>1, <2>7 DEF WorkspaceFails, Crash
  <2> QED  BY <1>12, <2>2, <2>3, <2>4, <2>5, <2>6, <2>7 DEF authorize
<1> QED  BY <1>7, <1>8, <1>9, <1>10, <1>11, <1>12

THEOREM SpendInvariant == Spec => []SpendInv
<1>1. Init => SpendInv
  BY InitType, NoApprovalUses DEF Init, SpendInv, ChosenOnce, UsedOnce, NoCall
<1>2. SpendInv /\ [Next]_vars => SpendInv'
  <2> SUFFICES ASSUME SpendInv, [Next]_vars  PROVE SpendInv'  OBVIOUS
  <2>1. ASSUME NEW p \in Procs, authorize(p)  PROVE SpendInv'
    BY <2>1, AuthorizeType, AuthorizeSpends DEF SpendInv
  <2>2. ASSUME UNCHANGED <<call, dispatched, consumptions>>  PROVE ChosenOnce' /\ UsedOnce'
    BY <2>2 DEF SpendInv, ChosenOnce, UsedOnce, Used
  <2>3. CASE Next /\ \A p \in Procs : ~authorize(p)
    <3>1. TypeInv'  BY <2>3, OthersType DEF Next, SpendInv
    <3>2. UNCHANGED <<call, dispatched, consumptions>>

      BY <2>3 DEF Next, AddDelegation, Revoke, WithdrawBudget, EndGrant, Tick, SetBack, store, history
    <3> QED  BY <2>2, <3>1, <3>2 DEF SpendInv
  <2>4. CASE UNCHANGED vars
    <3>1. TypeInv'
      BY <2>4 DEF vars, store, workspace, history, bounds, SpendInv, TypeInv, StoreType, CallsType
    <3> QED  BY <2>2, <2>4, <3>1 DEF vars, store, history, SpendInv
  <2> QED  BY <2>1, <2>3, <2>4 DEF Next
<1> QED  BY <1>1, <1>2, PTL DEF Spec

(* No signed approval lets two intents through, in one action or in two.   *)
THEOREM SingleUse == Spec => []ApprovalSingleUse
<1>1. SpendInv => ApprovalSingleUse
  BY DEF SpendInv, UsedOnce, Used, ApprovalSingleUse, IsInjective, Range
<1> QED  BY <1>1, SpendInvariant, PTL

-----------------------------------------------------------------------------
(* Refinement.  Letting an action through is one grant of the ledger;      *)
(* everything else that happens is a stutter of it.                        *)
Granted == [k \in DOMAIN dispatched |-> Used(k)]

LEMMA AllowGrants ==
  ASSUME TypeInv, NEW p, NEW c, NEW now, NEW counted, Allow(p, c, now, counted)
  PROVE  Granted' = Append(Granted, Range(c.local))
<1> DEFINE d == [req |-> c.req, local |-> c.local, cloud |-> c.cloud, ws |-> c.ws, at |-> now,
                 counted |-> counted]
<1>1. dispatched \in Seq(Dispatched)  BY DEF TypeInv, CallsType
<1>2. PICK n \in Nat : n = Len(dispatched)  BY <1>1
<1>3. /\ DOMAIN dispatched = 1..n /\ DOMAIN dispatched' = 1..(n + 1)
      /\ \A k \in 1..n : dispatched'[k] = dispatched[k]
      /\ dispatched'[n + 1].local = c.local
  BY <1>1, <1>2 DEF Allow
<1>4. \A k \in 1..n : Used(k)' = Used(k)  BY <1>3 DEF Used
<1>5. Used(n + 1)' = Range(c.local)  BY <1>3 DEF Used
<1>6. \A k \in DOMAIN dispatched : Used(k) \in SUBSET Approvals
  <2>1. \A k \in DOMAIN dispatched : dispatched[k] \in Dispatched  BY <1>1
  <2>2. \A k \in DOMAIN dispatched : dispatched[k].local \in Choices(Approvals)
    BY <2>1 DEF Dispatched
  <2> QED  BY <2>2, ChoicesRange DEF Used
<1>7. Granted \in Seq(SUBSET Approvals) /\ Len(Granted) = n
  <2>1. Granted \in [1..n -> SUBSET Approvals]  BY <1>3, <1>6 DEF Granted
  <2> QED  BY <2>1
<1>8. Append(Granted, Range(c.local)) =
        [k \in 1..(n + 1) |-> IF k = n + 1 THEN Range(c.local) ELSE Granted[k]]
  BY <1>7
<1>9. Granted' = [k \in 1..(n + 1) |-> Used(k)']  BY <1>3 DEF Granted
<1>10. \A k \in 1..(n + 1) : Used(k)' = IF k = n + 1 THEN Range(c.local) ELSE Granted[k]
  <2> SUFFICES ASSUME NEW k \in 1..(n + 1)
               PROVE  Used(k)' = IF k = n + 1 THEN Range(c.local) ELSE Granted[k]
    OBVIOUS
  <2>1. CASE k = n + 1  BY <1>5, <2>1
  <2>2. CASE k # n + 1
    <3>1. k \in 1..n  BY <2>2
    <3> QED  BY <1>3, <1>4, <2>2, <3>1 DEF Granted
  <2> QED  BY <2>1, <2>2
<1> QED  BY <1>8, <1>9, <1>10

LEMMA StepGrants ==
  ASSUME SpendInv, [Next]_vars
  PROVE  \/ \E S \in SUBSET Approvals : /\ S \cap consumptions = {}
                                        /\ consumptions' = consumptions \cup S
                                        /\ Granted' = Append(Granted, S)
         \/ UNCHANGED <<consumptions, Granted>>
<1>0. TypeInv  BY DEF SpendInv
<1>1. ASSUME UNCHANGED <<consumptions, dispatched>>  PROVE UNCHANGED <<consumptions, Granted>>
  BY <1>1 DEF Granted, Used
<1>2. ASSUME NEW p, NEW x, x.local = NoApproval, Allow(p, x, 0, {}), UNCHANGED consumptions
      PROVE  \E S \in SUBSET Approvals : /\ S \cap consumptions = {}
                                        /\ consumptions' = consumptions \cup S
                                        /\ Granted' = Append(Granted, S)
  BY <1>0, <1>2, AllowGrants, NoApprovalUses
<1>3. ASSUME NEW p \in Procs, PassThrough(p)
      PROVE  \E x : x.local = NoApproval /\ Allow(p, x, 0, {}) /\ UNCHANGED consumptions
  <2>1. PICK req \in Requests : Allow(p, [NoCall EXCEPT !.req = req], 0, {})
    BY <1>3 DEF PassThrough
  <2>2. [NoCall EXCEPT !.req = req].local = NoApproval  BY DEF NoCall
  <2> QED  BY <1>3, <2>1, <2>2 DEF PassThrough, store
<1>4. ASSUME NEW p \in Procs, StoreFails(p), ~UNCHANGED dispatched
      PROVE  \E x : x.local = NoApproval /\ Allow(p, x, 0, {}) /\ UNCHANGED consumptions
  <2>1. Allow(p, [NoCall EXCEPT !.req = call[p].req], 0, {})  BY <1>4 DEF StoreFails
  <2>2. [NoCall EXCEPT !.req = call[p].req].local = NoApproval  BY DEF NoCall
  <2> QED  BY <1>4, <2>1, <2>2 DEF StoreFails, store
<1>5. ASSUME NEW p \in Procs, Decide(p), ~UNCHANGED <<consumptions, dispatched>>
      PROVE  \E S \in SUBSET Approvals : /\ S \cap consumptions = {}
                                        /\ consumptions' = consumptions \cup S
                                        /\ Granted' = Append(Granted, S)
  <2> DEFINE c == call[p]  now == EffectiveNow
  <2>1. Permits(c, now)  BY <1>5 DEF Decide
  <2>2. Allow(p, c, now, ToInsert(c, now))  BY <1>5, <2>1 DEF Decide
  <2>3. Range(c.local) \in SUBSET Approvals
    BY <1>0, ChoicesRange DEF TypeInv, CallsType, Call
  <2>4. Range(c.local) \cap consumptions = {}  BY <2>1 DEF Permits
  <2>5. consumptions' = consumptions \cup Range(c.local)
    BY <1>5, <2>1 DEF Decide, consumeApproval
  <2>6. Granted' = Append(Granted, Range(c.local))  BY <1>0, <2>2, AllowGrants
  <2> QED  BY <2>3, <2>4, <2>5, <2>6
<1>6. CASE UNCHANGED vars  BY <1>1, <1>6 DEF vars, store, history
<1>7. ASSUME NEW p \in Procs, authorize(p), ~PassThrough(p), ~StoreFails(p), ~Decide(p)
      PROVE  UNCHANGED <<consumptions, dispatched>>

  BY <1>7 DEF authorize, Start, WriteMark, ChooseLocal, ChooseRef, AskActive, FoundActive, AllChosen,
     UseCached, WorkspaceResolves, ReceiveGrant, CacheGrant, LookFirst, ConsumeInWorkspace,
     Consumed, WorkspaceFails, Crash, store, history
<1>8. ASSUME Next, \A p \in Procs : ~authorize(p)  PROVE UNCHANGED <<consumptions, dispatched>>
  BY <1>8 DEF Next, AddDelegation, Revoke, WithdrawBudget, EndGrant, Tick, SetBack, store, history
<1>9. ASSUME NEW p \in Procs, authorize(p)
      PROVE  \/ \E S \in SUBSET Approvals : /\ S \cap consumptions = {}
                                            /\ consumptions' = consumptions \cup S
                                            /\ Granted' = Append(Granted, S)
             \/ UNCHANGED <<consumptions, Granted>>
  <2>1. CASE PassThrough(p)  BY <1>2, <1>3, <2>1
  <2>2. CASE StoreFails(p)
    <3>1. CASE UNCHANGED dispatched  BY <1>1, <2>2, <3>1 DEF StoreFails, store
    <3> QED  BY <1>2, <1>4, <2>2, <3>1
  <2>3. CASE Decide(p)  BY <1>1, <1>5, <2>3
  <2> QED  BY <1>1, <1>7, <1>9, <2>1, <2>2, <2>3
<1> QED  BY <1>1, <1>6, <1>8, <1>9

(* The dispatch boundary implements the ledger: an approval is checked and *)
(* spent in the step that lets the action through.                         *)
THEOREM ImplementsLedger == Spec => SpendsInOneStep
<1>1. Init => Ledger!Init
  BY DEF Init, Ledger!Init
<1>2. SpendInv /\ [Next]_vars => [Ledger!Next]_(Ledger!vars)
  <2> SUFFICES ASSUME SpendInv, [Next]_vars  PROVE [Ledger!Next]_(Ledger!vars)  OBVIOUS
  <2> QED  BY StepGrants DEF Ledger!Next, Ledger!Grant, Ledger!vars, Granted, Used
<1> QED  BY <1>1, <1>2, SpendInvariant, PTL DEF Spec, SpendsInOneStep, Ledger!Spec

-----------------------------------------------------------------------------
(* What a decision adds.  An action is let through by Decide, or without   *)
(* anything being spent when nothing obliges the boundary to refuse.       *)
Decision(c, now, counted) ==
  [req |-> c.req, local |-> c.local, cloud |-> c.cloud, ws |-> c.ws, at |-> now, counted |-> counted]

LEMMA NewDecision ==
  ASSUME TypeInv, NEW p, NEW c, NEW now, NEW counted, Allow(p, c, now, counted)
  PROVE  \E n \in Nat : /\ DOMAIN dispatched = 1..n /\ DOMAIN dispatched' = 1..(n + 1)
                        /\ \A k \in 1..n : dispatched'[k] = dispatched[k]
                        /\ dispatched'[n + 1] = Decision(c, now, counted)
<1>1. dispatched \in Seq(Dispatched)  BY DEF TypeInv, CallsType
<1>2. dispatched' = Append(dispatched, Decision(c, now, counted))  BY DEF Allow, Decision
<1> QED  BY <1>1, <1>2

Unbound(c) == c.local = NoApproval /\ c.cloud = NoApproval /\ ~c.ws

LEMMA HowAllowed ==
  ASSUME TypeInv, [Next]_vars
  PROVE  \/ UNCHANGED <<dispatched, reservations>>
         \/ /\ \E p \in Procs : \E c : /\ Allow(p, c, 0, {}) /\ Unbound(c)
                                       /\ c.req \in Requests /\ ~MustDeny(c.req)
            /\ UNCHANGED reservations
         \/ \E p \in Procs : Decide(p) /\ Permits(call[p], EffectiveNow)
<1>1. CASE UNCHANGED vars  BY <1>1 DEF vars, store, history
<1>2. ASSUME NEW p \in Procs, authorize(p), ~PassThrough(p), ~StoreFails(p), ~Decide(p)
      PROVE  UNCHANGED <<dispatched, reservations>>

  BY <1>2 DEF authorize, Start, WriteMark, ChooseLocal, ChooseRef, AskActive, FoundActive, AllChosen,
     UseCached, WorkspaceResolves, ReceiveGrant, CacheGrant, LookFirst, ConsumeInWorkspace,
     Consumed, WorkspaceFails, Crash, store, history
<1>3. ASSUME Next, \A p \in Procs : ~authorize(p)  PROVE UNCHANGED <<dispatched, reservations>>
  BY <1>3 DEF Next, AddDelegation, Revoke, WithdrawBudget, EndGrant, Tick, SetBack, store, history
<1>4. \A req : Unbound([NoCall EXCEPT !.req = req]) /\ [NoCall EXCEPT !.req = req].req = req
  BY DEF Unbound, NoCall
<1>5. ASSUME NEW p \in Procs, PassThrough(p)
      PROVE  /\ \E c : /\ Allow(p, c, 0, {}) /\ Unbound(c)
                       /\ c.req \in Requests /\ ~MustDeny(c.req)
             /\ UNCHANGED reservations
  <2>1. PICK req \in Requests : ~MustDeny(req) /\ Allow(p, [NoCall EXCEPT !.req = req], 0, {})
    BY <1>5 DEF PassThrough, NeedsState
  <2> QED  BY <1>4, <1>5, <2>1 DEF PassThrough, store
<1>6. ASSUME NEW p \in Procs, StoreFails(p), ~UNCHANGED dispatched
      PROVE  /\ \E c : /\ Allow(p, c, 0, {}) /\ Unbound(c)
                       /\ c.req \in Requests /\ ~MustDeny(c.req)
             /\ UNCHANGED reservations
  <2>1. ~MustDeny(call[p].req) /\ Allow(p, [NoCall EXCEPT !.req = call[p].req], 0, {})
    BY <1>6 DEF StoreFails
  <2>2. call[p].req \in Requests  BY <1>6 DEF StoreFails, In, TypeInv, CallsType
  <2> QED  BY <1>4, <1>6, <2>1, <2>2 DEF StoreFails, store
<1>7. ASSUME NEW p \in Procs, Decide(p), ~Permits(call[p], EffectiveNow)
      PROVE  UNCHANGED <<dispatched, reservations>>
  BY <1>7 DEF Decide
<1>8. ASSUME NEW p \in Procs, StoreFails(p)  PROVE UNCHANGED reservations
  BY <1>8 DEF StoreFails, store
<1> QED  BY <1>1, <1>2, <1>3, <1>5, <1>6, <1>7, <1>8

LEMMA WhatDecides ==
  ASSUME TypeInv, NEW p \in Procs, Decide(p), Permits(call[p], EffectiveNow)
  PROVE  /\ call[p].phase = "deciding" /\ call[p].req \in Requests /\ EffectiveNow \in Nat
         /\ Allow(p, call[p], EffectiveNow, ToInsert(call[p], EffectiveNow))
         /\ reservations' = Reserve(ToInsert(call[p], EffectiveNow), call[p].req.group, EffectiveNow)
  BY EffectiveNowType DEF Decide, In, TypeInv, CallsType

-----------------------------------------------------------------------------
(* Slots.  A row of the table stands for an action that was let through,   *)
(* and an action's row is there until it has long left the window; two     *)
(* actions of one group take a slot each only if the first was purged.     *)
Row(b, k) == [budget |-> b, group |-> dispatched[k].req.group, at |-> dispatched[k].at]

Counts(b, k) == b \in dispatched[k].counted

Purged(b, k) == \E i \in DOMAIN dispatched :
  Counts(b, i) /\ dispatched[k].at + 2 * PolicyOf[b].window <= dispatched[i].at

RowsExplained == \A r \in reservations : \E k \in DOMAIN dispatched :
  /\ r.budget \in dispatched[k].counted
  /\ r.group = dispatched[k].req.group /\ r.at = dispatched[k].at

RowsKept == \A b \in Budgets : \A k \in DOMAIN dispatched :
  Counts(b, k) => Row(b, k) \in reservations \/ Purged(b, k)

OneSlotEach == \A b \in Budgets : \A j, k \in DOMAIN dispatched :
  Counts(b, j) /\ Counts(b, k) /\ j < k /\ dispatched[j].req.group = dispatched[k].req.group
    => Purged(b, j)

SlotInv ==
  TypeInv /\ RowsExplained /\ EnforcedActionsCounted /\ RowsKept /\ OneSlotEach /\ BudgetHolds

LEMMA DispatchedType ==
  ASSUME TypeInv, NEW k \in DOMAIN dispatched
  PROVE  /\ dispatched[k] \in Dispatched /\ dispatched[k].at \in Nat
         /\ dispatched[k].counted \subseteq Budgets /\ dispatched[k].req \in Requests
<1>1. dispatched \in Seq(Dispatched)  BY DEF TypeInv, CallsType
<1>2. dispatched[k] \in Dispatched  BY <1>1
<1> QED  BY <1>2 DEF Dispatched

(* Letting an action through takes nothing from the actions before it.     *)
LEMMA EarlierKept ==
  ASSUME TypeInv, NEW n \in Nat, DOMAIN dispatched = 1..n, DOMAIN dispatched' = 1..(n + 1),
         \A k \in 1..n : dispatched'[k] = dispatched[k]
  PROVE  \A b, k : k \in 1..n =>
           /\ Counts(b, k)' = Counts(b, k) /\ Row(b, k)' = Row(b, k)
           /\ Before(b, k)' = Before(b, k)
           /\ Purged(b, k) => Purged(b, k)'
<1> SUFFICES ASSUME NEW b, NEW k \in 1..n
             PROVE  /\ Counts(b, k)' = Counts(b, k) /\ Row(b, k)' = Row(b, k)
                    /\ Before(b, k)' = Before(b, k)
                    /\ Purged(b, k) => Purged(b, k)'
  OBVIOUS
<1>1. Counts(b, k)' = Counts(b, k) /\ Row(b, k)' = Row(b, k)  BY DEF Counts, Row
<1>2. \A j \in 1..(k - 1) : j \in 1..n  OBVIOUS
<1>3. Before(b, k)' = Before(b, k)  BY <1>2 DEF Before
<1>4. Purged(b, k) => Purged(b, k)'
  <2> SUFFICES ASSUME Purged(b, k)  PROVE Purged(b, k)'  OBVIOUS
  <2>1. PICK i \in 1..n : Counts(b, i) /\ dispatched[k].at + 2 * PolicyOf[b].window <= dispatched[i].at
    BY DEF Purged
  <2>2. i \in DOMAIN dispatched' /\ dispatched'[i] = dispatched[i] /\ dispatched'[k] = dispatched[k]
    BY <2>1
  <2> QED  BY <2>1, <2>2 DEF Purged, Counts
<1> QED  BY <1>1, <1>3, <1>4


(* The rows in b's window are at least the actions counted before the k-th.*)
LEMMA RowsCountActions ==
  ASSUME SlotInv, NEW b \in Budgets, NEW now \in Nat,
         \A k \in DOMAIN dispatched : dispatched[k].at <= now
  PROVE  LET S == {k \in DOMAIN dispatched :
                     Counts(b, k) /\ dispatched[k].at > now - PolicyOf[b].window}
         IN  /\ IsFiniteSet(S) /\ IsFiniteSet(InWindow(b, now))
             /\ Cardinality(S) <= Cardinality(InWindow(b, now))
<1> DEFINE S == {k \in DOMAIN dispatched :
                   Counts(b, k) /\ dispatched[k].at > now - PolicyOf[b].window}
           T == InWindow(b, now)
           Counted == {k \in DOMAIN dispatched : Counts(b, k)}
<1>1. PolicyOf[b].window \in Nat /\ PolicyOf[b].window > 0  BY BudgetAssumption
<1>2. PICK n \in Nat : DOMAIN dispatched = 1..n
  <2>1. dispatched \in Seq(Dispatched)  BY DEF SlotInv, TypeInv, CallsType
  <2> QED  BY <2>1
<1>3. ASSUME NEW k \in DOMAIN dispatched, dispatched[k].at > now - PolicyOf[b].window
      PROVE  ~Purged(b, k)
  <2> SUFFICES ASSUME NEW i \in DOMAIN dispatched,
                      dispatched[k].at + 2 * PolicyOf[b].window <= dispatched[i].at
               PROVE  FALSE
    BY DEF Purged
  <2>1. dispatched[k].at \in Nat /\ dispatched[i].at \in Nat /\ dispatched[i].at <= now
    BY DispatchedType DEF SlotInv
  <2> QED  BY <1>1, <1>3, <2>1
<1>4. \A k \in S : Row(b, k) \in T
  BY <1>3 DEF SlotInv, RowsKept, InWindow, Row
<1>5. \A j, k \in S : Row(b, j) = Row(b, k) => j = k
  <2> SUFFICES ASSUME NEW j \in S, NEW k \in S, Row(b, j) = Row(b, k), j < k  PROVE FALSE
    BY <1>2
  <2>1. dispatched[j].req.group = dispatched[k].req.group  BY DEF Row
  <2> QED  BY <1>3, <2>1 DEF SlotInv, OneSlotEach
<1>6. T \subseteq {Row(b, k) : k \in DOMAIN dispatched}
  <2> SUFFICES ASSUME NEW r \in T  PROVE \E k \in DOMAIN dispatched : r = Row(b, k)
    OBVIOUS
  <2>1. r \in reservations /\ r.budget = b  BY DEF InWindow
  <2>2. r \in [budget: Budgets, group: STRING, at: Nat]
    BY <2>1 DEF SlotInv, TypeInv, StoreType
  <2>3. PICK k \in DOMAIN dispatched : r.group = dispatched[k].req.group /\ r.at = dispatched[k].at
    BY <2>1 DEF SlotInv, RowsExplained
  <2> QED  BY <2>1, <2>2, <2>3 DEF Row
<1>7. IsFiniteSet(T)
  <2>1. IsFiniteSet(1..n)  BY <1>2, FS_Interval
  <2> DEFINE U == {Row(b, k) : k \in 1..n}
             f == [k \in 1..n |-> Row(b, k)]
  <2>2. f \in Surjection(1..n, U)  BY DEF Surjection
  <2>3. IsFiniteSet(U)
    <3> HIDE DEF f, U
    <3> QED  BY <2>1, <2>2, FS_Surjection
  <2>4. T \in SUBSET U  BY <1>2, <1>6
  <2> HIDE DEF U, T
  <2> QED  BY <2>3, <2>4, FS_Subset
<1> DEFINE g == [k \in S |-> Row(b, k)]
<1>8. g \in Injection(S, T)
  <2>1. g \in [S -> T]
    <3> HIDE DEF S, T
    <3> QED  BY <1>4
  <2>2. \A j, k \in S : g[j] = g[k] => j = k
    <3> HIDE DEF S, T
    <3> QED  BY <1>5
  <2> QED  BY <2>1, <2>2 DEF Injection, IsInjective
<1> HIDE DEF S, T, g
<1>9. IsFiniteSet(S) /\ Cardinality(S) <= Cardinality(T)  BY <1>7, <1>8, FS_Injection
<1> QED  BY <1>7, <1>9 DEF S, T

(* The step that decides, slot by slot.                                    *)
LEMMA DecideSlots ==
  ASSUME SlotInv, NEW p \in Procs, Decide(p), Permits(call[p], EffectiveNow)
  PROVE  RowsExplained' /\ EnforcedActionsCounted' /\ RowsKept' /\ OneSlotEach' /\ BudgetHolds'
<1> DEFINE c == call[p]  now == EffectiveNow  counted == ToInsert(c, now)
<1>1. TypeInv  BY DEF SlotInv
<1>2. /\ c.req \in Requests /\ now \in Nat /\ Allow(p, c, now, counted)
      /\ reservations' = Reserve(counted, c.req.group, now)
  BY <1>1, WhatDecides
<1>3. PICK n \in Nat : /\ DOMAIN dispatched = 1..n /\ DOMAIN dispatched' = 1..(n + 1)
                       /\ \A k \in 1..n : dispatched'[k] = dispatched[k]
                       /\ dispatched'[n + 1] = Decision(c, now, counted)
  BY <1>1, <1>2, NewDecision
<1>4. /\ dispatched'[n + 1].req = c.req /\ dispatched'[n + 1].at = now
      /\ dispatched'[n + 1].counted = counted
  BY <1>3 DEF Decision
<1>5. /\ n + 1 \in DOMAIN dispatched'
      /\ \A k \in DOMAIN dispatched' : k \in 1..n \/ k = n + 1
      /\ \A k \in 1..n : k \in DOMAIN dispatched'
  BY <1>3
<1>6. /\ \A b \in counted : b \in Budgets /\ ~Unenforceable(b, c, now) /\ ~Repeated(b, c.req.group)
      /\ \A b \in PoliciesFor(c.req) : PolicyOf[b].mode = "enforce" =>
           b \in counted \/ Repeated(b, c.req.group)
      /\ \A b \in counted : PolicyOf[b].mode = "enforce" =>
           ~(Cardinality(InWindow(b, now)) >= PolicyOf[b].max)
  BY DEF ToInsert, PoliciesFor, Permits, BudgetRefuses, Over
<1> HIDE DEF c, now, counted
<1>7. /\ \A r \in reservations' : r \in reservations \/ \E b \in counted :
           r = [budget |-> b, group |-> c.req.group, at |-> now]
      /\ \A b \in counted : [budget |-> b, group |-> c.req.group, at |-> now] \in reservations'
      /\ \A r \in reservations : r \notin reservations' =>
           r.budget \in counted /\ ~(r.at > now - 2 * PolicyOf[r.budget].window)
  BY <1>2 DEF Reserve
<1>8. RowsExplained'
  <2> SUFFICES ASSUME NEW r \in reservations'
               PROVE  \E k \in DOMAIN dispatched' :
                        /\ r.budget \in dispatched'[k].counted
                        /\ r.group = dispatched'[k].req.group /\ r.at = dispatched'[k].at
    BY DEF RowsExplained
  <2>1. CASE r \in reservations
    <3>1. PICK k \in DOMAIN dispatched : /\ r.budget \in dispatched[k].counted
                                         /\ r.group = dispatched[k].req.group
                                         /\ r.at = dispatched[k].at
      BY <2>1 DEF SlotInv, RowsExplained
    <3> QED  BY <1>3, <1>5, <3>1
  <2>2. CASE \E b \in counted : r = [budget |-> b, group |-> c.req.group, at |-> now]
    BY <1>4, <1>5, <2>2
  <2> QED  BY <1>7, <2>1, <2>2
<1>9. EnforcedActionsCounted'
  <2> SUFFICES ASSUME NEW k \in DOMAIN dispatched', NEW b \in PoliciesFor(dispatched'[k].req),
                      PolicyOf[b].mode = "enforce"
               PROVE  \E j \in 1..k : /\ b \in dispatched'[j].counted
                                      /\ dispatched'[j].req.group = dispatched'[k].req.group
    BY DEF EnforcedActionsCounted, PoliciesFor
  <2>1. CASE k \in 1..n
    <3>1. PICK j \in 1..k : /\ b \in dispatched[j].counted
                            /\ dispatched[j].req.group = dispatched[k].req.group
      BY <1>3, <2>1 DEF SlotInv, EnforcedActionsCounted
    <3>2. j \in 1..n  BY <2>1
    <3> QED  BY <1>3, <2>1, <3>1, <3>2
  <2>2. CASE k = n + 1
    <3>1. CASE b \in counted
      <4>1. n + 1 \in 1..(n + 1)  OBVIOUS
      <4> QED  BY <1>4, <2>2, <3>1, <4>1
    <3>2. CASE Repeated(b, c.req.group)
      <4>1. PICK r \in reservations : r.budget = b /\ r.group = c.req.group
        BY <3>2 DEF Repeated
      <4>2. PICK j \in DOMAIN dispatched : /\ r.budget \in dispatched[j].counted
                                           /\ r.group = dispatched[j].req.group
        BY DEF SlotInv, RowsExplained
      <4>3. j \in 1..n /\ j \in 1..(n + 1)  BY <1>3
      <4> QED  BY <1>3, <1>4, <2>2, <4>1, <4>2, <4>3
    <3> QED  BY <1>4, <1>6, <2>2, <3>1, <3>2
  <2> QED  BY <1>5, <2>1, <2>2
<1>10. \A b, k : k \in 1..n =>
         /\ Counts(b, k)' = Counts(b, k) /\ Row(b, k)' = Row(b, k)
         /\ Before(b, k)' = Before(b, k)
         /\ Purged(b, k) => Purged(b, k)'
  BY <1>1, <1>3, EarlierKept
<1>11. \A b : Counts(b, n + 1)' = (b \in counted)
              /\ Row(b, n + 1)' = [budget |-> b, group |-> c.req.group, at |-> now]
  BY <1>4 DEF Counts, Row
<1>12. ASSUME NEW b \in Budgets, NEW k \in 1..n, Row(b, k) \in reservations,
              Row(b, k) \notin reservations'
       PROVE  Purged(b, k)'
  <2>1. b \in counted /\ ~(dispatched[k].at > now - 2 * PolicyOf[b].window)
    BY <1>7, <1>12 DEF Row
  <2>2. dispatched[k].at \in Nat /\ PolicyOf[b].window \in Nat
    BY <1>1, <1>3, DispatchedType, BudgetAssumption
  <2>3. dispatched[k].at + 2 * PolicyOf[b].window <= now  BY <1>2, <2>1, <2>2
  <2>4. dispatched'[k] = dispatched[k]  BY <1>3
  <2> QED  BY <1>4, <1>5, <2>1, <2>3, <2>4 DEF Purged, Counts
<1>13. RowsKept'
  <2> SUFFICES ASSUME NEW b \in Budgets, NEW k \in DOMAIN dispatched', Counts(b, k)'
               PROVE  (Row(b, k) \in reservations)' \/ Purged(b, k)'
    BY DEF RowsKept
  <2>1. CASE k = n + 1  BY <1>7, <1>11, <2>1
  <2>2. CASE k \in 1..n
    <3>1. Counts(b, k) /\ Row(b, k)' = Row(b, k)  BY <1>10, <2>2
    <3>2. Row(b, k) \in reservations \/ Purged(b, k)
      BY <1>3, <2>2, <3>1 DEF SlotInv, RowsKept
    <3> QED  BY <1>10, <1>12, <2>2, <3>1, <3>2
  <2> QED  BY <1>5, <2>1, <2>2
<1>14. OneSlotEach'
  <2> SUFFICES ASSUME NEW b \in Budgets, NEW j \in DOMAIN dispatched', NEW k \in DOMAIN dispatched',
                      Counts(b, j)', Counts(b, k)', j < k,
                      dispatched'[j].req.group = dispatched'[k].req.group
               PROVE  Purged(b, j)'
    BY DEF OneSlotEach
  <2>1. j \in 1..n  BY <1>3
  <2>2. Counts(b, j)  BY <1>10, <2>1
  <2>3. CASE k \in 1..n
    <3>1. Counts(b, k)  BY <1>10, <2>3
    <3> QED  BY <1>3, <1>10, <2>1, <2>2, <2>3, <3>1 DEF SlotInv, OneSlotEach
  <2>4. CASE k = n + 1
    <3>1. ~Repeated(b, c.req.group) /\ dispatched[j].req.group = c.req.group
      BY <1>3, <1>4, <1>6, <1>11, <2>1, <2>4
    <3>2. Row(b, j) \notin reservations  BY <3>1 DEF Row, Repeated
    <3>3. Purged(b, j)  BY <1>3, <2>1, <2>2, <3>2 DEF SlotInv, RowsKept
    <3> QED  BY <1>10, <2>1, <3>3
  <2> QED  BY <1>5, <2>3, <2>4
<1>15. BudgetHolds'
  <2> SUFFICES ASSUME NEW k \in DOMAIN dispatched', NEW b \in dispatched'[k].counted,
                      PolicyOf[b].mode = "enforce",
                      \A j \in 1..(k - 1) : dispatched'[j].at <= dispatched'[k].at
               PROVE  Cardinality(Before(b, k)') < PolicyOf[b].max
    BY DEF BudgetHolds
  <2>1. CASE k \in 1..n
    <3>1. dispatched'[k] = dispatched[k] /\ \A j \in 1..(k - 1) : dispatched'[j] = dispatched[j]
      BY <1>3, <2>1
    <3>2. Cardinality(Before(b, k)) < PolicyOf[b].max
      BY <1>3, <2>1, <3>1 DEF SlotInv, BudgetHolds
    <3> QED  BY <1>10, <2>1, <3>2
  <2>2. CASE k = n + 1
    <3>1. b \in counted /\ b \in Budgets  BY <1>4, <1>6, <2>2
    <3>2. \A j \in DOMAIN dispatched : dispatched[j].at <= now
      <4>1. \A j \in 1..n : j \in 1..((n + 1) - 1)  OBVIOUS
      <4> QED  BY <1>3, <1>4, <2>2, <4>1
    <3> DEFINE S == {j \in DOMAIN dispatched :
                       Counts(b, j) /\ dispatched[j].at > now - PolicyOf[b].window}
    <3>3. /\ IsFiniteSet(S) /\ IsFiniteSet(InWindow(b, now))
          /\ Cardinality(S) <= Cardinality(InWindow(b, now))
      BY <1>2, <3>1, <3>2, RowsCountActions
    <3>4. Before(b, k)' = S
      <4>1. 1..(k - 1) = 1..n  BY <2>2
      <4> QED  BY <1>3, <1>4, <2>2, <4>1 DEF Before, Counts
    <3>5. /\ Cardinality(S) \in Nat /\ Cardinality(InWindow(b, now)) \in Nat
          /\ PolicyOf[b].max \in Nat
      BY <3>1, <3>3, FS_CardinalityType, BudgetAssumption
    <3>6. ~(Cardinality(InWindow(b, now)) >= PolicyOf[b].max)  BY <1>6, <3>1
    <3> HIDE DEF S
    <3>7. Cardinality(S) < PolicyOf[b].max  BY <3>3, <3>5, <3>6
    <3> QED  BY <3>4, <3>7
  <2> QED  BY <1>5, <2>1, <2>2
<1> QED  BY <1>8, <1>9, <1>13, <1>14, <1>15


LEMMA SlotStep == SlotInv /\ [Next]_vars => SlotInv'
<1> SUFFICES ASSUME SlotInv, [Next]_vars  PROVE SlotInv'  OBVIOUS
<1>1. TypeInv /\ TypeInv'  BY TypeStep DEF SlotInv
<1>2. CASE UNCHANGED <<dispatched, reservations>>
  BY <1>1, <1>2 DEF SlotInv, RowsExplained, EnforcedActionsCounted, RowsKept, OneSlotEach,
                    BudgetHolds, Counts, Row, Purged, Before
<1>3. ASSUME NEW p \in Procs, Decide(p), Permits(call[p], EffectiveNow)  PROVE SlotInv'
  BY <1>1, <1>3, DecideSlots DEF SlotInv
<1>4. ASSUME NEW p \in Procs, NEW c, Allow(p, c, 0, {}), c.req \in Requests, ~MustDeny(c.req),
             UNCHANGED reservations
      PROVE  SlotInv'
  <2>1. PICK n \in Nat : /\ DOMAIN dispatched = 1..n /\ DOMAIN dispatched' = 1..(n + 1)
                         /\ \A k \in 1..n : dispatched'[k] = dispatched[k]
                         /\ dispatched'[n + 1] = Decision(c, 0, {})
    BY <1>1, <1>4, NewDecision
  <2>2. dispatched'[n + 1].req = c.req /\ dispatched'[n + 1].counted = {}
    BY <2>1 DEF Decision
  <2>3. /\ \A k \in DOMAIN dispatched' : k \in 1..n \/ k = n + 1
        /\ \A k \in 1..n : k \in DOMAIN dispatched'
    BY <2>1
  <2>4. \A b, k : k \in 1..n =>
          /\ Counts(b, k)' = Counts(b, k) /\ Row(b, k)' = Row(b, k)
          /\ Before(b, k)' = Before(b, k)
          /\ Purged(b, k) => Purged(b, k)'
    BY <1>1, <2>1, EarlierKept
  <2>5. \A b : ~Counts(b, n + 1)'  BY <2>2 DEF Counts
  <2>6. RowsExplained'
    <3> SUFFICES ASSUME NEW r \in reservations
                 PROVE  \E k \in DOMAIN dispatched' :
                          /\ r.budget \in dispatched'[k].counted
                          /\ r.group = dispatched'[k].req.group /\ r.at = dispatched'[k].at
      BY <1>4 DEF RowsExplained
    <3>1. PICK k \in DOMAIN dispatched : /\ r.budget \in dispatched[k].counted
                                         /\ r.group = dispatched[k].req.group
                                         /\ r.at = dispatched[k].at
      BY DEF SlotInv, RowsExplained
    <3> QED  BY <2>1, <2>3, <3>1
  <2>7. EnforcedActionsCounted'
    <3> SUFFICES ASSUME NEW k \in DOMAIN dispatched', NEW b \in PoliciesFor(dispatched'[k].req),
                        PolicyOf[b].mode = "enforce"
                 PROVE  \E j \in 1..k : /\ b \in dispatched'[j].counted
                                        /\ dispatched'[j].req.group = dispatched'[k].req.group
      BY DEF EnforcedActionsCounted, PoliciesFor
    <3>1. k # n + 1  BY <1>4, <2>2 DEF MustDeny, Enforcing
    <3>2. k \in 1..n  BY <2>3, <3>1
    <3>3. PICK j \in 1..k : /\ b \in dispatched[j].counted
                            /\ dispatched[j].req.group = dispatched[k].req.group
      BY <2>1, <3>2 DEF SlotInv, EnforcedActionsCounted
    <3>4. j \in 1..n  BY <3>2
    <3> QED  BY <2>1, <3>2, <3>3, <3>4
  <2>8. RowsKept'
    <3> SUFFICES ASSUME NEW b \in Budgets, NEW k \in DOMAIN dispatched', Counts(b, k)'
                 PROVE  (Row(b, k) \in reservations)' \/ Purged(b, k)'
      BY DEF RowsKept
    <3>1. k \in 1..n  BY <2>3, <2>5
    <3>2. Counts(b, k) /\ Row(b, k)' = Row(b, k)  BY <2>4, <3>1
    <3>3. Row(b, k) \in reservations \/ Purged(b, k)
      BY <2>1, <3>1, <3>2 DEF SlotInv, RowsKept
    <3> QED  BY <1>4, <2>4, <3>1, <3>2, <3>3
  <2>9. OneSlotEach'
    <3> SUFFICES ASSUME NEW b \in Budgets, NEW j \in DOMAIN dispatched', NEW k \in DOMAIN dispatched',
                        Counts(b, j)', Counts(b, k)', j < k,
                        dispatched'[j].req.group = dispatched'[k].req.group
                 PROVE  Purged(b, j)'
      BY DEF OneSlotEach
    <3>1. j \in 1..n /\ k \in 1..n  BY <2>3, <2>5
    <3>2. Counts(b, j) /\ Counts(b, k)  BY <2>4, <3>1
    <3> QED  BY <2>1, <2>4, <3>1, <3>2 DEF SlotInv, OneSlotEach
  <2>10. BudgetHolds'
    <3> SUFFICES ASSUME NEW k \in DOMAIN dispatched', NEW b \in dispatched'[k].counted,
                        PolicyOf[b].mode = "enforce",
                        \A j \in 1..(k - 1) : dispatched'[j].at <= dispatched'[k].at
                 PROVE  Cardinality(Before(b, k)') < PolicyOf[b].max
      BY DEF BudgetHolds
    <3>1. k \in 1..n  BY <2>2, <2>3
    <3>2. dispatched'[k] = dispatched[k] /\ \A j \in 1..(k - 1) : dispatched'[j] = dispatched[j]
      BY <2>1, <3>1
    <3>3. Cardinality(Before(b, k)) < PolicyOf[b].max
      BY <2>1, <3>1, <3>2 DEF SlotInv, BudgetHolds
    <3> QED  BY <2>4, <3>1, <3>3
  <2> QED  BY <1>1, <2>6, <2>7, <2>8, <2>9, <2>10 DEF SlotInv
<1> QED  BY <1>1, <1>2, <1>3, <1>4, HowAllowed

THEOREM SlotInvariant == Spec => []SlotInv
<1>1. Init => SlotInv
  <2> SUFFICES ASSUME Init  PROVE SlotInv  OBVIOUS
  <2>1. DOMAIN dispatched = {} /\ reservations = {}  BY DEF Init
  <2> QED
    BY <2>1, InitType DEF SlotInv, RowsExplained, EnforcedActionsCounted, RowsKept, OneSlotEach,
                          BudgetHolds
<1>2. SlotInv /\ [Next]_vars => SlotInv'  BY SlotStep
<1> QED  BY <1>1, <1>2, PTL DEF Spec

(* An enforcing budget lets through at most max actions in any window,     *)
(* however many processes decide, and although their rows are purged.      *)
THEOREM WindowHolds == Spec => []BudgetHolds
<1>1. SlotInv => BudgetHolds  BY DEF SlotInv
<1> QED  BY <1>1, SlotInvariant, PTL

(* Under an enforcing budget no action passes uncounted.                   *)
THEOREM NoneUncounted == Spec => []EnforcedActionsCounted
<1>1. SlotInv => EnforcedActionsCounted  BY DEF SlotInv
<1> QED  BY <1>1, SlotInvariant, PTL

(* What the store has spent, approvals and slots, it spent for actions     *)
(* that were let through.                                                  *)
THEOREM SpendsForAllowed == Spec => []StoreSpendsOnlyForAllowed
<1>1. SpendInv /\ SlotInv => StoreSpendsOnlyForAllowed
  BY DEF SpendInv, UsedOnce, Used, SlotInv, RowsExplained, StoreSpendsOnlyForAllowed
<1> QED  BY <1>1, SpendInvariant, SlotInvariant, PTL


-----------------------------------------------------------------------------
(* Workspace approvals.  Between its consumption in the workspace and the  *)
(* decision, an approval is held by the one call that consumed it; what a  *)
(* call holds no other call holds and no action let through has used.      *)
HeldFor(c) ==
  IF c.phase = "deciding" THEN DOMAIN c.cloud
  ELSE IF c.phase = "consuming" THEN DOMAIN c.cloud \ c.left
  ELSE IF c.phase = "confirming" THEN (DOMAIN c.cloud \ c.left) \cup {First(c.left)}
  ELSE {}

Held(c) == {c.cloud[i] : i \in HeldFor(c)}

Choosing == {"idle", "choosing", "lookup"}

Well(c, consumed) ==
  /\ IsInjective(c.cloud)
  /\ \A i \in DOMAIN c.local : Binds(c.local[i], c.req, i)
  /\ c.phase \notin Choosing => Pending(c) = {}
  /\ c.phase = "checking" => DOMAIN c.cloud # {}
  /\ c.phase \in {"consuming", "confirming"} => c.left # {} /\ c.left \subseteq DOMAIN c.cloud
  /\ \A i \in HeldFor(c) : CloudFor[c.cloud[i]] = c.req.intents[i] /\ c.cloud[i] \in consumed

CloudUsed(k) == Range(dispatched[k].cloud)

HeldApart ==
  /\ \A p \in Procs : Well(call[p], spent)
  /\ \A p, q \in Procs : p # q => Held(call[p]) \cap Held(call[q]) = {}
  /\ \A p \in Procs : \A k \in DOMAIN dispatched : Held(call[p]) \cap CloudUsed(k) = {}

CloudUsedOnce ==
  /\ \A k \in DOMAIN dispatched : IsInjective(dispatched[k].cloud) /\ CloudUsed(k) \subseteq spent
  /\ \A j, k \in DOMAIN dispatched : j # k => CloudUsed(j) \cap CloudUsed(k) = {}

CloudInv == TypeInv /\ HeldApart /\ CloudUsedOnce /\ EveryIntentApproved

LEMMA NoCallWell ==
  /\ \A sp : Well(NoCall, sp) /\ Held(NoCall) = {}
  /\ \A n : n.phase = "choosing" /\ n.local = NoApproval /\ n.cloud = NoApproval =>
       \A sp : Well(n, sp) /\ Held(n) = {}
<1>1. DOMAIN NoApproval = {} /\ IsInjective(NoApproval)  BY DEF NoApproval, IsInjective
<1>2. NoCall.phase = "idle" /\ NoCall.local = NoApproval /\ NoCall.cloud = NoApproval
  BY DEF NoCall
<1> QED  BY <1>1, <1>2 DEF Well, Held, HeldFor, Choosing

(* A call that keeps what it chose and holds no more than before.          *)
LEMMA WellMoves ==
  ASSUME NEW c, NEW n, NEW sp, Well(c, sp),
         n.req = c.req, n.local = c.local, n.cloud = c.cloud,
         n.phase \in Choosing \/ Pending(c) = {},
         n.phase = "checking" => DOMAIN c.cloud # {},
         n.phase \in {"consuming", "confirming"} => n.left # {} /\ n.left \subseteq DOMAIN c.cloud,
         HeldFor(n) \subseteq HeldFor(c)
  PROVE  Well(n, sp) /\ Held(n) \subseteq Held(c)
<1>1. Pending(n) = Pending(c)  BY DEF Pending
<1>2. Well(n, sp)  BY <1>1 DEF Well
<1> QED  BY <1>2 DEF Held

(* What a step of a call does, but for consuming and deciding.             *)
LEMMA Moves ==
  ASSUME CloudInv, NEW p \in Procs, authorize(p)
  PROVE  \/ /\ \E n : /\ call' = [call EXCEPT ![p] = n]
                      /\ Well(n, spent) /\ Held(n) \subseteq Held(call[p])
            /\ UNCHANGED <<dispatched, spent>>
         \/ ConsumeInWorkspace(p)
         \/ /\ \E c : Allow(p, c, 0, {}) /\ Unbound(c) /\ c.req \in Requests /\ ~MustDeny(c.req)
            /\ UNCHANGED spent
         \/ Decide(p) /\ Permits(call[p], EffectiveNow)
<1> DEFINE c == call[p]
           Moved(n) == /\ call' = [call EXCEPT ![p] = n]
                       /\ Well(n, spent) /\ Held(n) \subseteq Held(call[p])
           Ok == \E n : Moved(n)
<1>1. /\ c \in Call /\ Well(c, spent) /\ call \in [Procs -> Call] /\ TypeInv
      /\ c.phase # "idle" => c.req \in Requests
  BY DEF CloudInv, HeldApart, TypeInv, CallsType
<1>2. Deny(p) => Ok  BY NoCallWell DEF Deny
<1>3. ASSUME NEW n, call' = [call EXCEPT ![p] = n],
             n.req = c.req, n.local = c.local, n.cloud = c.cloud,
             n.phase \in Choosing \/ Pending(c) = {},
             n.phase = "checking" => DOMAIN c.cloud # {},
             n.phase \in {"consuming", "confirming"} => n.left # {} /\ n.left \subseteq DOMAIN c.cloud,
             HeldFor(n) \subseteq HeldFor(c)
      PROVE  Ok
  BY <1>1, <1>3, WellMoves
<1>4. ASSUME Start(p)  PROVE Ok /\ UNCHANGED <<dispatched, spent>>
  <2>1. PICK req, inbox : call' = [call EXCEPT ![p] = [NoCall EXCEPT
                     !.phase = "choosing", !.req = req, !.now = EffectiveNow, !.mark = MarkToWrite,
                     !.inbox = inbox, !.withdrawn = withdrawn]]
    BY <1>4 DEF Start
  <2> DEFINE n == [NoCall EXCEPT
                     !.phase = "choosing", !.req = req, !.now = EffectiveNow, !.mark = MarkToWrite,
                     !.inbox = inbox, !.withdrawn = withdrawn]
  <2>2. n.phase = "choosing" /\ n.local = NoApproval /\ n.cloud = NoApproval  BY DEF NoCall
  <2> HIDE DEF n
  <2>3. Well(n, spent) /\ Held(n) = {}  BY <2>2, NoCallWell
  <2>4. call' = [call EXCEPT ![p] = n]  BY <2>1 DEF n
  <2> QED  BY <1>4, <2>3, <2>4 DEF Start, history, workspace
<1>5. ASSUME WriteMark(p)  PROVE Ok /\ UNCHANGED <<dispatched, spent>>
  <2> DEFINE n == [c EXCEPT !.mark = None]
  <2>1. /\ n.req = c.req /\ n.local = c.local /\ n.cloud = c.cloud /\ n.phase = c.phase
        /\ n.left = c.left
    BY <1>1 DEF Call
  <2>2. call' = [call EXCEPT ![p] = n]  BY <1>1, <1>5 DEF WriteMark
  <2> HIDE DEF n
  <2>3. HeldFor(n) = HeldFor(c)  BY <2>1 DEF HeldFor
  <2>4. Ok  BY <1>1, <1>3, <2>1, <2>2, <2>3 DEF Well
  <2> QED  BY <1>5, <2>4 DEF WriteMark, history, workspace
<1>6. ASSUME ChooseLocal(p)  PROVE Ok /\ UNCHANGED <<dispatched, spent>>
  <2> DEFINE i == First(Pending(c))
  <2>1. PICK a \in Candidates(c, i) : call' = [call EXCEPT ![p].local = With(c.local, i, a)]
    BY <1>6 DEF ChooseLocal
  <2> DEFINE n == [c EXCEPT !.local = With(c.local, i, a)]
  <2>2. /\ n.req = c.req /\ n.local = With(c.local, i, a) /\ n.cloud = c.cloud /\ n.phase = c.phase
    BY <1>1 DEF Call
  <2>3. call' = [call EXCEPT ![p] = n] /\ c.phase = "choosing"
    BY <1>1, <1>6, <2>1 DEF ChooseLocal, In
  <2> HIDE DEF n
  <2>4. Binds(a, c.req, i)  BY DEF Candidates, CheckApproval
  <2>5. \A j \in DOMAIN n.local : Binds(n.local[j], n.req, j)
    BY <1>1, <2>2, <2>4 DEF Well, With
  <2>6. Well(n, spent) /\ Held(n) = {}
    BY <1>1, <2>2, <2>3, <2>5 DEF Well, Held, HeldFor, Choosing
  <2> QED  BY <1>6, <2>3, <2>6 DEF ChooseLocal, history, workspace
<1>7. ASSUME NEW i, i \notin DOMAIN c.cloud, NEW a, a \notin Range(c.cloud),
             \/ /\ call' = [call EXCEPT ![p].cloud = With(c.cloud, i, a)]
                /\ c.phase = "choosing"
             \/ call' = [call EXCEPT ![p].cloud = With(c.cloud, i, a), ![p].phase = "choosing"]
      PROVE  Ok
  <2> DEFINE n == [c EXCEPT !.cloud = With(c.cloud, i, a), !.phase = "choosing"]
  <2>1. /\ n.req = c.req /\ n.local = c.local /\ n.cloud = With(c.cloud, i, a)
        /\ n.phase = "choosing"
    BY <1>1 DEF Call
  <2>2. call' = [call EXCEPT ![p] = n]
    <3>1. CASE call' = [call EXCEPT ![p].cloud = With(c.cloud, i, a)] /\ c.phase = "choosing"
      <4>1. [c EXCEPT !.cloud = With(c.cloud, i, a)] = n  BY <1>1, <3>1 DEF Call
      <4> QED  BY <1>1, <3>1, <4>1
    <3>2. CASE call' = [call EXCEPT ![p].cloud = With(c.cloud, i, a), ![p].phase = "choosing"]
      BY <1>1, <3>2
    <3> QED  BY <1>7, <3>1, <3>2
  <2> HIDE DEF n
  <2>3. IsInjective(n.cloud)  BY <1>1, <1>7, <2>1, WithInjective DEF Well
  <2>4. Well(n, spent) /\ Held(n) = {}
    BY <1>1, <2>1, <2>3 DEF Well, Held, HeldFor, Choosing
  <2> QED  BY <2>2, <2>4
<1>8. ASSUME c.req \in Requests, Pending(c) # {}
      PROVE  First(Pending(c)) \notin DOMAIN c.cloud
  <2>1. First(Pending(c)) \in Pending(c)  BY <1>8, PendingType, FirstType
  <2> QED  BY <2>1 DEF Pending
<1>9. ASSUME ChooseRef(p)  PROVE Ok /\ UNCHANGED <<dispatched, spent>>
  <2>1. PICK ref \in Refs(c) :
          call' = [call EXCEPT ![p].cloud = With(c.cloud, First(Pending(c)), ref)]
    BY <1>9 DEF ChooseRef
  <2>2. c.phase = "choosing" /\ Pending(c) # {} /\ c.req \in Requests
    BY <1>1, <1>9 DEF ChooseRef, In
  <2>3. ref \notin Range(c.cloud)  BY DEF Refs
  <2>4. Ok  BY <1>7, <1>8, <2>1, <2>2, <2>3
  <2> QED  BY <1>9, <2>4 DEF ChooseRef, workspace
<1>10. ASSUME FoundActive(p)  PROVE Ok /\ UNCHANGED <<dispatched, spent>>
  <2>1. PICK ref \in CloudApprovals \ (spent \cup Range(c.cloud)) :
          call' = [call EXCEPT ![p].cloud = With(c.cloud, First(Pending(c)), ref),
                               ![p].phase = "choosing"]
    BY <1>10 DEF FoundActive
  <2>2. Pending(c) # {} /\ c.req \in Requests  BY <1>1, <1>10 DEF FoundActive, In
  <2>3. Ok  BY <1>7, <1>8, <2>1, <2>2
  <2> QED  BY <1>10, <2>3 DEF FoundActive, workspace, history
<1>11. ASSUME NEW x, call' = [call EXCEPT ![p].phase = x],
              x \in Choosing \/ Pending(c) = {},
              x \notin {"checking", "consuming", "confirming", "deciding"}
       PROVE  Ok
  <2> DEFINE n == [c EXCEPT !.phase = x]
  <2>1. n.req = c.req /\ n.local = c.local /\ n.cloud = c.cloud /\ n.phase = x
    BY <1>1 DEF Call
  <2>2. call' = [call EXCEPT ![p] = n]  BY <1>1, <1>11
  <2> HIDE DEF n
  <2>3. HeldFor(n) = {}  BY <1>11, <2>1 DEF HeldFor
  <2> QED  BY <1>3, <1>11, <2>1, <2>2, <2>3
<1>12. ASSUME AskActive(p)  PROVE Ok /\ UNCHANGED <<dispatched, spent>>
  <2>1. Ok  BY <1>2, <1>11, <1>12 DEF AskActive, Choosing
  <2> QED  BY <1>12, <2>1 DEF AskActive, workspace
<1>13. ASSUME AllChosen(p)  PROVE Ok /\ UNCHANGED <<dispatched, spent>>
  <2> DEFINE n1 == [c EXCEPT !.phase = "session", !.inbox = {}, !.ws = TRUE,
                             !.now = EffectiveNow, !.mark = MarkToWrite]
             n2 == [c EXCEPT !.phase = AfterDelegation(c), !.inbox = {}, !.now = 0]
  <2>1. /\ n1.req = c.req /\ n1.local = c.local /\ n1.cloud = c.cloud /\ n1.phase = "session"
        /\ n2.req = c.req /\ n2.local = c.local /\ n2.cloud = c.cloud
        /\ n2.phase = AfterDelegation(c)
    BY <1>1 DEF Call
  <2>2. call' = [call EXCEPT ![p] = n1] \/ call' = [call EXCEPT ![p] = n2]
    BY <1>13 DEF AllChosen
  <2>3. Pending(c) = {}  BY <1>13 DEF AllChosen
  <2> HIDE DEF n1, n2
  <2>4. HeldFor(n1) = {} /\ HeldFor(n2) = {}  BY <2>1 DEF HeldFor, AfterDelegation
  <2>5. Ok  BY <1>3, <2>1, <2>2, <2>3, <2>4 DEF AfterDelegation
  <2> QED  BY <1>13, <2>5 DEF AllChosen, workspace, history
<1>14. ASSUME Permitted(p, c), Pending(c) = {}  PROVE Ok
  <2> DEFINE n == [c EXCEPT !.phase = AfterDelegation(c), !.active = FALSE, !.now = 0, !.at = 0]
  <2>1. n.req = c.req /\ n.local = c.local /\ n.cloud = c.cloud /\ n.phase = AfterDelegation(c)
    BY <1>1 DEF Call
  <2>2. Deny(p) \/ call' = [call EXCEPT ![p] = n]  BY <1>14 DEF Permitted
  <2> HIDE DEF n
  <2>3. HeldFor(n) = {}  BY <2>1 DEF HeldFor, AfterDelegation
  <2> QED  BY <1>2, <1>3, <1>14, <2>1, <2>2, <2>3 DEF AfterDelegation
<1>15. ASSUME UseCached(p) \/ CacheGrant(p)  PROVE Ok /\ UNCHANGED <<dispatched, spent>>
  <2>1. Pending(c) = {}  BY <1>1, <1>15 DEF UseCached, CacheGrant, In, Well, Choosing
  <2>2. Permitted(p, c) \/ call' = [call EXCEPT ![p].phase = "asking"]
    BY <1>15 DEF UseCached, CacheGrant
  <2>3. Ok  BY <1>11, <1>14, <2>1, <2>2
  <2> QED  BY <1>15, <2>3 DEF UseCached, CacheGrant, workspace, history
<1>16. ASSUME WorkspaceResolves(p) \/ ReceiveGrant(p)  PROVE Ok /\ UNCHANGED <<dispatched, spent>>
  <2>1. Pending(c) = {}  BY <1>1, <1>16 DEF WorkspaceResolves, ReceiveGrant, In, Well, Choosing
  <2> DEFINE n1 == [c EXCEPT !.phase = "answered", !.active = c.req.delegation \in granted]
             n2 == [c EXCEPT !.phase = "caching", !.at = EffectiveNow, !.mark = MarkToWrite]
  <2>2. /\ n1.req = c.req /\ n1.local = c.local /\ n1.cloud = c.cloud /\ n1.phase = "answered"
        /\ n2.req = c.req /\ n2.local = c.local /\ n2.cloud = c.cloud /\ n2.phase = "caching"
    BY <1>1 DEF Call
  <2>3. Deny(p) \/ call' = [call EXCEPT ![p] = n1] \/ call' = [call EXCEPT ![p] = n2]
    BY <1>1, <1>16 DEF WorkspaceResolves, ReceiveGrant
  <2> HIDE DEF n1, n2
  <2>4. HeldFor(n1) = {} /\ HeldFor(n2) = {}  BY <2>2 DEF HeldFor
  <2>5. Ok  BY <1>2, <1>3, <2>1, <2>2, <2>3, <2>4
  <2> QED  BY <1>16, <2>5 DEF WorkspaceResolves, ReceiveGrant, workspace, history
<1>17. ASSUME LookFirst(p)  PROVE Ok /\ UNCHANGED <<dispatched, spent>>
  <2> DEFINE n == [c EXCEPT !.phase = "consuming", !.left = DOMAIN c.cloud]
  <2>1. /\ n.req = c.req /\ n.local = c.local /\ n.cloud = c.cloud /\ n.phase = "consuming"
        /\ n.left = DOMAIN c.cloud
    BY <1>1 DEF Call
  <2>2. Pending(c) = {} /\ DOMAIN c.cloud # {}  BY <1>1, <1>17 DEF LookFirst, In, Well, Choosing
  <2>3. Deny(p) \/ call' = [call EXCEPT ![p] = n]  BY <1>1, <1>17 DEF LookFirst
  <2> HIDE DEF n
  <2>4. HeldFor(n) = {}  BY <2>1 DEF HeldFor
  <2>5. Ok  BY <1>2, <1>3, <2>1, <2>2, <2>3, <2>4
  <2> QED  BY <1>17, <2>5 DEF LookFirst, workspace
<1>18. ASSUME Consumed(p)  PROVE Ok /\ UNCHANGED <<dispatched, spent>>
  <2> DEFINE i == First(c.left)
             rest == c.left \ {i}
             next == IF rest = {} THEN "deciding" ELSE "consuming"
             n == [c EXCEPT !.left = rest, !.phase = next]
  <2>1. /\ n.req = c.req /\ n.local = c.local /\ n.cloud = c.cloud /\ n.phase = next
        /\ n.left = rest
    BY <1>1 DEF Call
  <2>2. call' = [call EXCEPT ![p] = n]  BY <1>1, <1>18 DEF Consumed
  <2> HIDE DEF n
  <2>3. c.phase = "confirming" /\ Pending(c) = {} /\ c.left # {} /\ c.left \subseteq DOMAIN c.cloud
    BY <1>1, <1>18 DEF Consumed, In, Well, Choosing
  <2>4. i \in c.left
    <3>1. c.left \in SUBSET Nat  BY <1>1 DEF Call
    <3> QED  BY <2>3, <3>1, FirstType
  <2> HIDE DEF i
  <2>5. HeldFor(n) \subseteq HeldFor(c)  BY <2>1, <2>3, <2>4 DEF HeldFor, i
  <2>6. Ok  BY <1>3, <2>1, <2>2, <2>3, <2>5
  <2> QED  BY <1>18, <2>6 DEF Consumed, workspace, history
<1>19. ASSUME WorkspaceFails(p) \/ Crash(p)  PROVE Ok /\ UNCHANGED <<dispatched, spent>>
  <2>1. Ok  BY <1>2, <1>19 DEF WorkspaceFails, Crash
  <2> QED  BY <1>19, <2>1 DEF WorkspaceFails, Crash, workspace, history
<1>20. ASSUME Decide(p), ~Permits(c, EffectiveNow)  PROVE Ok /\ UNCHANGED <<dispatched, spent>>
  <2>1. Ok  BY <1>2, <1>20 DEF Decide
  <2> QED  BY <1>20, <2>1 DEF Decide, workspace
<1>21. \A req : Unbound([NoCall EXCEPT !.req = req]) /\ [NoCall EXCEPT !.req = req].req = req
  BY DEF Unbound, NoCall
<1> DEFINE Free == \E x : Allow(p, x, 0, {}) /\ Unbound(x) /\ x.req \in Requests /\ ~MustDeny(x.req)
<1>22. ASSUME PassThrough(p)  PROVE Free /\ UNCHANGED spent
  <2>1. PICK req \in Requests : ~MustDeny(req) /\ Allow(p, [NoCall EXCEPT !.req = req], 0, {})
    BY <1>22 DEF PassThrough, NeedsState
  <2> QED  BY <1>21, <1>22, <2>1 DEF PassThrough, workspace
<1>23. ASSUME StoreFails(p)
       PROVE  (Ok /\ UNCHANGED <<dispatched, spent>>) \/ (Free /\ UNCHANGED spent)
  <2>1. UNCHANGED spent /\ c.req \in Requests  BY <1>1, <1>23 DEF StoreFails, In, workspace
  <2>2. CASE MustDeny(c.req)
    <3>1. Ok  BY <1>2, <1>23, <2>2 DEF StoreFails
    <3> QED  BY <1>23, <2>1, <2>2, <3>1 DEF StoreFails
  <2>3. CASE ~MustDeny(c.req)
    <3>1. Allow(p, [NoCall EXCEPT !.req = c.req], 0, {})  BY <1>23, <2>3 DEF StoreFails
    <3> QED  BY <1>21, <2>1, <2>3, <3>1
  <2> QED  BY <2>2, <2>3
<1> HIDE DEF Ok, Free
<1>24. \/ Ok /\ UNCHANGED <<dispatched, spent>>
       \/ ConsumeInWorkspace(p)
       \/ Free /\ UNCHANGED spent
       \/ Decide(p) /\ Permits(call[p], EffectiveNow)
  BY <1>4, <1>5, <1>6, <1>9, <1>10, <1>12, <1>13, <1>15, <1>16, <1>17, <1>18, <1>19, <1>20, <1>22,
     <1>23 DEF authorize
<1> QED  BY <1>24 DEF Ok, Free


LEMMA CloudStep == CloudInv /\ [Next]_vars => CloudInv'
<1> SUFFICES ASSUME CloudInv, [Next]_vars  PROVE CloudInv'  OBVIOUS
<1>1. TypeInv /\ TypeInv' /\ call \in [Procs -> Call]  BY TypeStep DEF CloudInv, TypeInv, CallsType
<1>2. ASSUME UNCHANGED <<call, dispatched, spent>>  PROVE CloudInv'
  BY <1>1, <1>2 DEF CloudInv, HeldApart, CloudUsedOnce, CloudUsed, EveryIntentApproved
(* A call moves on with no more than it held.                              *)
<1>3. ASSUME NEW p \in Procs, NEW n, call' = [call EXCEPT ![p] = n],
             \E sp : Well(n, spent \cup sp) /\ spent' = spent \cup sp,
             NEW mine, Held(n) \subseteq Held(call[p]) \cup mine, mine \cap spent = {},
             UNCHANGED dispatched
      PROVE  CloudInv'
  <2>1. /\ call'[p] = n /\ \A q \in Procs : q # p => call'[q] = call[q]
        /\ spent \subseteq spent' /\ Well(n, spent')
    BY <1>1, <1>3
  <2>2. \A q \in Procs : Held(call[q]) \subseteq spent
    BY DEF CloudInv, HeldApart, Well, Held
  <2>3. \A k \in DOMAIN dispatched : CloudUsed(k) \subseteq spent /\ CloudUsed(k)' = CloudUsed(k)
    BY <1>3 DEF CloudInv, CloudUsedOnce, CloudUsed
  <2>4. \A q \in Procs : Well(call'[q], spent')
    BY <2>1 DEF CloudInv, HeldApart, Well
  <2>5. \A q \in Procs : q # p => Held(n) \cap Held(call[q]) = {}
    BY <1>3, <2>2 DEF CloudInv, HeldApart
  <2>6. \A q, r \in Procs : q # r => Held(call'[q]) \cap Held(call'[r]) = {}
    BY <2>1, <2>5 DEF CloudInv, HeldApart
  <2>7. \A q \in Procs : \A k \in DOMAIN dispatched : Held(call'[q]) \cap CloudUsed(k) = {}
    BY <1>3, <2>1, <2>3 DEF CloudInv, HeldApart
  <2>8. HeldApart'  BY <1>3, <2>3, <2>4, <2>6, <2>7 DEF HeldApart
  <2>9. CloudUsedOnce'  BY <1>3, <2>1, <2>3 DEF CloudInv, CloudUsedOnce
  <2>10. EveryIntentApproved'  BY <1>3, <2>1 DEF CloudInv, EveryIntentApproved
  <2> QED  BY <1>1, <2>8, <2>9, <2>10 DEF CloudInv
<1>4. ASSUME NEW p \in Procs, ConsumeInWorkspace(p)  PROVE CloudInv'
  <2> DEFINE c == call[p]  i == First(c.left)  ref == c.cloud[i]
             n == [c EXCEPT !.phase = "confirming"]
  <2>1. CASE Deny(p) /\ UNCHANGED spent
    <3>1. call' = [call EXCEPT ![p] = NoCall] /\ Well(NoCall, spent) /\ Held(NoCall) = {}
      BY <2>1, NoCallWell DEF Deny
    <3>2. UNCHANGED dispatched  BY <1>4 DEF ConsumeInWorkspace, history
    <3>3. \E sp : Well(NoCall, spent \cup sp) /\ spent' = spent \cup sp
      <4>1. spent \cup {} = spent  OBVIOUS
      <4> QED  BY <2>1, <3>1, <4>1
    <3>4. Held(NoCall) \subseteq Held(call[p]) \cup {} /\ {} \cap spent = {}  BY <3>1
    <3> QED  BY <1>3, <3>1, <3>2, <3>3, <3>4
  <2>2. CASE /\ ref \notin spent /\ CloudFor[ref] = c.req.intents[i]
             /\ spent' = spent \cup {ref} /\ call' = [call EXCEPT ![p].phase = "confirming"]
    <3>1. Well(c, spent) /\ c \in Call /\ c.phase = "consuming"
      BY <1>1, <1>4 DEF CloudInv, HeldApart, ConsumeInWorkspace, In
    <3>2. n.req = c.req /\ n.local = c.local /\ n.cloud = c.cloud /\ n.phase = "confirming"
          /\ n.left = c.left
      BY <3>1 DEF Call
    <3>3. call' = [call EXCEPT ![p] = n] /\ UNCHANGED dispatched
      BY <1>1, <1>4, <2>2 DEF ConsumeInWorkspace, history
    <3> HIDE DEF n
    <3>4. HeldFor(n) = HeldFor(c) \cup {i}  BY <3>1, <3>2 DEF HeldFor
    <3>5. Pending(n) = Pending(c)  BY <3>2 DEF Pending
    <3>6. Well(n, spent \cup {ref})
      BY <2>2, <3>1, <3>2, <3>4, <3>5 DEF Well, Choosing
    <3>7. Held(n) \subseteq Held(c) \cup {ref}  BY <3>2, <3>4 DEF Held
    <3> HIDE DEF ref
    <3>8. {ref} \cap spent = {}  BY <2>2
    <3> QED  BY <1>3, <2>2, <3>3, <3>6, <3>7, <3>8
  <2> QED  BY <1>4, <2>1, <2>2 DEF ConsumeInWorkspace
(* An action is let through: what the call held becomes what it used.      *)
<1>5. ASSUME NEW p \in Procs, NEW c, NEW now, NEW counted, Allow(p, c, now, counted),
             UNCHANGED spent, Range(c.cloud) \subseteq Held(call[p]), IsInjective(c.cloud),
             \A i \in DOMAIN c.req.intents : Requires(c.req.intents[i]) =>
               \/ i \in DOMAIN c.local /\ Binds(c.local[i], c.req, i)
               \/ /\ i \in DOMAIN c.cloud /\ c.cloud[i] \in spent
                  /\ CloudFor[c.cloud[i]] = c.req.intents[i]
      PROVE  CloudInv'
  <2>1. PICK m \in Nat : /\ DOMAIN dispatched = 1..m /\ DOMAIN dispatched' = 1..(m + 1)
                         /\ \A k \in 1..m : dispatched'[k] = dispatched[k]
                         /\ dispatched'[m + 1] = Decision(c, now, counted)
    BY <1>1, <1>5, NewDecision
  <2>2. /\ dispatched'[m + 1].cloud = c.cloud /\ dispatched'[m + 1].local = c.local
        /\ dispatched'[m + 1].req = c.req
    BY <2>1 DEF Decision
  <2>3. /\ call'[p] = NoCall /\ \A q \in Procs : q # p => call'[q] = call[q]
    BY <1>1, <1>5 DEF Allow
  <2>4. /\ \A k \in 1..m : CloudUsed(k)' = CloudUsed(k)
        /\ CloudUsed(m + 1)' = Range(c.cloud)
        /\ \A k \in DOMAIN dispatched' : k \in 1..m \/ k = m + 1
    BY <2>1, <2>2 DEF CloudUsed
  <2>5. Held(call[p]) \subseteq spent  BY DEF CloudInv, HeldApart, Well, Held
  <2>6. HeldApart'
    <3>1. \A q \in Procs : Well(call'[q], spent')
      BY <1>5, <2>3, NoCallWell DEF CloudInv, HeldApart
    <3>2. \A q, r \in Procs : q # r => Held(call'[q]) \cap Held(call'[r]) = {}
      BY <2>3, NoCallWell DEF CloudInv, HeldApart
    <3>3. ASSUME NEW q \in Procs, NEW k \in DOMAIN dispatched'
          PROVE  Held(call'[q]) \cap CloudUsed(k)' = {}
      <4>1. CASE q = p  BY <2>3, <4>1, NoCallWell
      <4>2. CASE q # p /\ k \in 1..m  BY <2>1, <2>3, <2>4, <4>2 DEF CloudInv, HeldApart
      <4>3. CASE q # p /\ k = m + 1
        <5>1. Held(call[q]) \cap Held(call[p]) = {}  BY <4>3 DEF CloudInv, HeldApart
        <5> QED  BY <1>5, <2>3, <2>4, <4>3, <5>1
      <4> QED  BY <2>4, <4>1, <4>2, <4>3
    <3> QED  BY <3>1, <3>2, <3>3 DEF HeldApart
  <2>7. CloudUsedOnce'
    <3>1. ASSUME NEW k \in DOMAIN dispatched'
          PROVE  IsInjective(dispatched'[k].cloud) /\ CloudUsed(k)' \subseteq spent'
      BY <1>5, <2>1, <2>2, <2>4, <2>5 DEF CloudInv, CloudUsedOnce
    <3>2. \A k \in 1..m : CloudUsed(k) \cap Range(c.cloud) = {}
      BY <1>5, <2>1 DEF CloudInv, HeldApart
    <3>3. ASSUME NEW j \in DOMAIN dispatched', NEW k \in DOMAIN dispatched', j # k
          PROVE  CloudUsed(j)' \cap CloudUsed(k)' = {}
      BY <2>1, <2>4, <3>2, <3>3 DEF CloudInv, CloudUsedOnce
    <3> QED  BY <3>1, <3>3 DEF CloudUsedOnce
  <2>8. EveryIntentApproved'
    <3> SUFFICES ASSUME NEW k \in DOMAIN dispatched', NEW i \in DOMAIN dispatched'[k].req.intents,
                        Requires(dispatched'[k].req.intents[i])
                 PROVE  LET d == dispatched'[k]
                        IN  \/ i \in DOMAIN d.local /\ Binds(d.local[i], d.req, i)
                            \/ /\ i \in DOMAIN d.cloud /\ d.cloud[i] \in spent'
                               /\ CloudFor[d.cloud[i]] = d.req.intents[i]
      BY DEF EveryIntentApproved, Requires, Binds
    <3>1. CASE k \in 1..m
      <4>1. dispatched'[k] = dispatched[k]  BY <2>1, <3>1
      <4> QED  BY <1>5, <2>1, <3>1, <4>1 DEF CloudInv, EveryIntentApproved
    <3>2. CASE k = m + 1  BY <1>5, <2>2, <3>2
    <3> QED  BY <2>4, <3>1, <3>2
  <2> QED  BY <1>1, <2>6, <2>7, <2>8 DEF CloudInv
<1>6. ASSUME NEW p \in Procs, NEW c, Allow(p, c, 0, {}), Unbound(c), c.req \in Requests,
             ~MustDeny(c.req), UNCHANGED spent
      PROVE  CloudInv'
  <2>1. Range(c.cloud) = {} /\ IsInjective(c.cloud)  BY <1>6, NoApprovalUses DEF Unbound
  <2>2. \A i \in DOMAIN c.req.intents : ~Requires(c.req.intents[i])
    BY <1>6 DEF MustDeny, NeedsApproval
  <2>3. Range(c.cloud) \subseteq Held(call[p])  BY <2>1
  <2> QED  BY <1>5, <1>6, <2>1, <2>2, <2>3
<1>7. ASSUME NEW p \in Procs, Decide(p), Permits(call[p], EffectiveNow)  PROVE CloudInv'
  <2> DEFINE c == call[p]  now == EffectiveNow
  <2>1. /\ c.phase = "deciding" /\ Allow(p, c, now, ToInsert(c, now)) /\ UNCHANGED spent
    BY <1>1, <1>7, WhatDecides DEF Decide, workspace
  <2>2. Well(c, spent)  BY DEF CloudInv, HeldApart
  <2>3. Range(c.cloud) \subseteq Held(c)  BY <2>1 DEF Held, HeldFor, Range
  <2>4. Pending(c) = {}  BY <2>1, <2>2 DEF Well, Choosing
  <2>5. \A i \in DOMAIN c.cloud : CloudFor[c.cloud[i]] = c.req.intents[i] /\ c.cloud[i] \in spent
    BY <2>1, <2>2 DEF Well, HeldFor
  <2>6. \A i \in DOMAIN c.req.intents : Requires(c.req.intents[i]) =>
          \/ i \in DOMAIN c.local /\ Binds(c.local[i], c.req, i)
          \/ /\ i \in DOMAIN c.cloud /\ c.cloud[i] \in spent
             /\ CloudFor[c.cloud[i]] = c.req.intents[i]
    BY <2>2, <2>4, <2>5 DEF Well, Pending
  <2>7. IsInjective(c.cloud)  BY <2>2 DEF Well
  <2> HIDE DEF c, now
  <2> QED  BY <1>5, <2>1, <2>3, <2>6, <2>7 DEF c
<1>8. ASSUME NEW p \in Procs, authorize(p)  PROVE CloudInv'
  <2>1. CASE /\ \E n : /\ call' = [call EXCEPT ![p] = n]
                       /\ Well(n, spent) /\ Held(n) \subseteq Held(call[p])
             /\ UNCHANGED <<dispatched, spent>>
    <3>1. PICK n : /\ call' = [call EXCEPT ![p] = n]
                   /\ Well(n, spent) /\ Held(n) \subseteq Held(call[p])
      BY <2>1
    <3>2. spent \cup {} = spent /\ {} \cap spent = {}  OBVIOUS
    <3>3. \E sp : Well(n, spent \cup sp) /\ spent' = spent \cup sp  BY <2>1, <3>1, <3>2
    <3>4. Held(n) \subseteq Held(call[p]) \cup {}  BY <3>1
    <3> QED  BY <1>3, <2>1, <3>1, <3>2, <3>3, <3>4
  <2> QED  BY <1>4, <1>6, <1>7, <1>8, <2>1, Moves
<1>9. CASE UNCHANGED vars  BY <1>2, <1>9 DEF vars, workspace, history
<1>10. ASSUME Next, \A p \in Procs : ~authorize(p)  PROVE UNCHANGED <<call, dispatched, spent>>

  BY <1>10 DEF Next, AddDelegation, Revoke, WithdrawBudget, EndGrant, Tick, SetBack, workspace, history
<1> QED  BY <1>2, <1>8, <1>9, <1>10

THEOREM CloudInvariant == Spec => []CloudInv
<1>1. Init => CloudInv
  <2> SUFFICES ASSUME Init  PROVE CloudInv  OBVIOUS
  <2>1. DOMAIN dispatched = {} /\ \A p \in Procs : call[p] = NoCall  BY DEF Init
  <2> QED
    BY <2>1, InitType, NoCallWell DEF CloudInv, HeldApart, CloudUsedOnce, EveryIntentApproved
<1>2. CloudInv /\ [Next]_vars => CloudInv'  BY CloudStep
<1> QED  BY <1>1, <1>2, PTL DEF Spec

(* No approval held in the workspace lets two intents through, although    *)
(* several processes may find it active and any of them may die or be      *)
(* answered late.                                                          *)
THEOREM CloudSingleUse == Spec => []CloudApprovalSingleUse
<1>1. CloudInv => CloudApprovalSingleUse
  BY DEF CloudInv, CloudUsedOnce, CloudUsed, CloudApprovalSingleUse, IsInjective, Range
<1> QED  BY <1>1, CloudInvariant, PTL

(* Every guarded intent of an action let through has an approval of its    *)
(* own, signed for that intent or consumed for it in the workspace.        *)
THEOREM IntentsApproved == Spec => []EveryIntentApproved
<1>1. CloudInv => EveryIntentApproved  BY DEF CloudInv
<1> QED  BY <1>1, CloudInvariant, PTL


-----------------------------------------------------------------------------
(* Delegation chains.  A stored delegation is narrower than its parent and *)
(* never replaced, so what holds from child to parent holds up the chain.  *)
Narrower(child, parent) ==
  child.expires <= parent.expires /\ child.scope.types \subseteq parent.scope.types

Links == \A id \in Delegations :
  LET d == delegations[id]
  IN  Known(id) /\ d.parent # None => Known(d.parent) /\ Narrower(d, delegations[d.parent])

ChainInv == TypeInv /\ Links

LEMMA GrantType ==
  ASSUME TypeInv, NEW id \in Delegations, Known(id)
  PROVE  /\ delegations[id].expires \in Nat
         /\ delegations[id].parent \in Delegations \cup {None}
BY GrantAssumption DEF TypeInv, StoreType, Known

(* A set of delegations that holds id and the parents of its members holds *)
(* all of id's lineage.                                                    *)
LEMMA LineageWithin ==
  ASSUME NEW id, NEW S \in SUBSET Delegations, id \in S,
         \A y \in S : Known(y) /\ delegations[y].parent # None => delegations[y].parent \in S
  PROVE  Lineage(id) \subseteq S
BY DEF Lineage

LEMMA LinksKept ==
  ASSUME ChainInv, NEW g \in Grants, AddDelegation(g)
  PROVE  Links'
<1>1. delegations \in [Delegations -> Grants \cup {None}]  BY DEF ChainInv, TypeInv, StoreType
<1>2. /\ delegations' = [delegations EXCEPT ![g.id] = g] /\ ~Known(g.id)
      /\ g.parent # None => /\ Known(g.parent)
                            /\ g.expires <= delegations[g.parent].expires
                            /\ g.scope.types \subseteq delegations[g.parent].scope.types
  BY DEF AddDelegation, MayRegister, IsSubScope
<1>3. \A x : Known(x) => Known(x)' /\ delegations'[x] = delegations[x]
  BY <1>1, <1>2 DEF Known
<1> SUFFICES ASSUME NEW id \in Delegations, Known(id)', delegations'[id].parent # None
             PROVE  /\ \A x : x = delegations'[id].parent =>
                         /\ Known(x)'
                         /\ Narrower(delegations'[id], delegations'[x])
  BY DEF Links, Known
<1>4. CASE Known(id)
  <2>1. delegations'[id] = delegations[id]  BY <1>3, <1>4
  <2>2. \A x : x = delegations[id].parent => Known(x) /\ Narrower(delegations[id], delegations[x])
    BY <1>4, <2>1 DEF ChainInv, Links
  <2> QED  BY <1>3, <2>1, <2>2
<1>5. CASE ~Known(id)
  <2>1. id = g.id /\ delegations'[id] = g  BY <1>1, <1>2, <1>5 DEF Known
  <2>2. \A x : x = g.parent => Known(x) /\ Narrower(g, delegations[x])
    BY <1>2, <2>1 DEF Narrower
  <2> QED  BY <1>3, <2>1, <2>2
<1> QED  BY <1>4, <1>5

THEOREM ChainInvariant == Spec => []ChainInv
<1>1. Init => ChainInv  BY InitType DEF Init, ChainInv, Links, Known
<1>2. ChainInv /\ [Next]_vars => ChainInv'
  <2> SUFFICES ASSUME ChainInv, [Next]_vars  PROVE ChainInv'  OBVIOUS
  <2>1. TypeInv'  BY TypeStep DEF ChainInv
  <2>2. UNCHANGED delegations => ChainInv'  BY <2>1 DEF ChainInv, Links, Known
  <2>3. ASSUME NEW g \in Grants, AddDelegation(g)  PROVE ChainInv'
    BY <2>1, <2>3, LinksKept DEF ChainInv
  <2>4. ASSUME NEW p \in Procs, authorize(p)  PROVE UNCHANGED delegations
    BY <2>4 DEF authorize, PassThrough, Start, WriteMark, ChooseLocal, ChooseRef, AskActive,
       FoundActive, AllChosen, UseCached, WorkspaceResolves, ReceiveGrant, CacheGrant, LookFirst,
       ConsumeInWorkspace, Consumed, WorkspaceFails, Decide, StoreFails, Crash, store
  <2>5. ASSUME Next, \A p \in Procs : ~authorize(p), \A g \in Grants : ~AddDelegation(g)
        PROVE  UNCHANGED delegations
    BY <2>5 DEF Next, Revoke, WithdrawBudget, EndGrant, Tick, SetBack, store
  <2>6. CASE UNCHANGED vars  BY <2>2, <2>6 DEF vars, store
  <2> QED  BY <2>2, <2>3, <2>4, <2>5, <2>6
<1> QED  BY <1>1, <1>2, PTL DEF Spec

(* However a chain was registered, a delegation ends no later and allows   *)
(* no more action types than any of its ancestors, all of them stored.     *)
THEOREM EveryChainNarrows == Spec => []ChainsNarrow
<1>1. ChainInv => ChainsNarrow
  <2> SUFFICES ASSUME ChainInv, NEW id \in Delegations, Known(id), NEW x \in Lineage(id)
               PROVE  /\ Known(x)
                      /\ delegations[id].expires <= delegations[x].expires
                      /\ delegations[id].scope.types \subseteq delegations[x].scope.types
    BY DEF ChainsNarrow
  <2> DEFINE S == {y \in Delegations : Known(y) /\ Narrower(delegations[id], delegations[y])}
  <2>1. id \in S  BY GrantType DEF ChainInv, Narrower
  <2>2. ASSUME NEW y \in S, delegations[y].parent # None  PROVE delegations[y].parent \in S
    <3>1. PICK z : z = delegations[y].parent  OBVIOUS
    <3>2. z \in Delegations /\ Known(z) /\ Narrower(delegations[y], delegations[z])
      BY <2>2, <3>1, GrantType DEF ChainInv, Links
    <3>3. /\ delegations[id].expires \in Nat /\ delegations[y].expires \in Nat
          /\ delegations[z].expires \in Nat
      BY <3>2, GrantType DEF ChainInv
    <3>4. Narrower(delegations[id], delegations[z])  BY <3>2, <3>3 DEF Narrower
    <3> QED  BY <3>1, <3>2, <3>4
  <2>3. x \in S
    <3> HIDE DEF S
    <3>1. S \in SUBSET Delegations  BY DEF S
    <3> QED  BY <2>1, <2>2, <3>1, LineageWithin
  <2> QED  BY <2>3 DEF Narrower
<1> QED  BY <1>1, ChainInvariant, PTL


-----------------------------------------------------------------------------
(* The walk up a chain.  Cursor is defined step by step; that there is a   *)
(* function with these steps is shown by extending one step at a time.     *)
StepUp(x) == IF Known(x) THEN delegations[x].parent ELSE None

Walk(id, n, f) == f = [k \in 0..n |-> IF k = 0 THEN id ELSE StepUp(f[k - 1])]

LEMMA WalkExists ==
  ASSUME NEW id, NEW n \in Nat
  PROVE  \E f : Walk(id, n, f)
<1> DEFINE Bad == {k \in Nat : ~ \E f : Walk(id, k, f)}
<1> SUFFICES ASSUME n \in Bad  PROVE FALSE  OBVIOUS
<1>2. PICK m \in Bad : \A k \in Bad : ~(k < m)
  <2>1. \E x \in Bad : \A y \in Bad : ~ (<<y, x>> \in OpToRel(<, Nat))
    BY NatLessThanWellFounded, WFMin
  <2>2. PICK x \in Bad : \A y \in Bad : ~ (<<y, x>> \in OpToRel(<, Nat))  BY <2>1
  <2>3. \A y \in Bad : ~(y < x)  BY <2>2 DEF OpToRel
  <2> QED  BY <2>3
<1>3. CASE m = 0
  <2>1. Walk(id, 0, [k \in 0..0 |-> id])  BY DEF Walk
  <2> QED  BY <1>3, <2>1
<1>4. CASE m # 0
  <2>1. m - 1 \in Nat /\ m - 1 < m /\ m - 1 \notin Bad  BY <1>2, <1>4
  <2>2. PICK f : Walk(id, m - 1, f)  BY <2>1
  <2> DEFINE g == [k \in 0..m |-> IF k = 0 THEN id ELSE StepUp(f[k - 1])]
  <2>3. \A k \in 0..(m - 1) : g[k] = f[k]  BY <2>1, <2>2 DEF Walk
  <2>4. \A k \in 0..m : k # 0 => k - 1 \in 0..(m - 1)  BY <1>4
  <2>5. Walk(id, m, g)
    <3>1. \A k \in 0..m : k # 0 => StepUp(f[k - 1]) = StepUp(g[k - 1])
      <4> HIDE DEF g
      <4> QED  BY <2>3, <2>4
    <3>2. g = [k \in 0..m |-> IF k = 0 THEN id ELSE StepUp(g[k - 1])]  BY <3>1
    <3> HIDE DEF g
    <3> QED  BY <3>2 DEF Walk
  <2> QED  BY <1>2, <2>5
<1> QED  BY <1>3, <1>4

LEMMA CursorSteps ==
  ASSUME NEW id
  PROVE  /\ Cursor(id)[0] = id
         /\ \A k \in 0..MaxDepth : Cursor(id)[k + 1] = StepUp(Cursor(id)[k])
<1>1. MaxDepth \in Nat /\ MaxDepth + 1 \in Nat  BY NumberAssumption
<1>2. \E f : f = [k \in 0..(MaxDepth + 1) |-> IF k = 0 THEN id
                    ELSE IF Known(f[k - 1]) THEN delegations[f[k - 1]].parent ELSE None]
  <2>1. PICK f : Walk(id, MaxDepth + 1, f)  BY <1>1, WalkExists
  <2>2. f = [k \in 0..(MaxDepth + 1) |-> IF k = 0 THEN id
               ELSE IF Known(f[k - 1]) THEN delegations[f[k - 1]].parent ELSE None]
    BY <2>1 DEF Walk, StepUp
  <2> QED  BY <2>2
<1>3. Cursor(id) = [k \in 0..(MaxDepth + 1) |-> IF k = 0 THEN id
                      ELSE IF Known(Cursor(id)[k - 1]) THEN delegations[Cursor(id)[k - 1]].parent
                      ELSE None]
  <2> DEFINE up == Cursor(id)
  <2>1. up = CHOOSE f : f = [k \in 0..(MaxDepth + 1) |-> IF k = 0 THEN id
                    ELSE IF Known(f[k - 1]) THEN delegations[f[k - 1]].parent ELSE None]
    BY DEF Cursor
  <2> HIDE DEF up
  <2>2. up = [k \in 0..(MaxDepth + 1) |-> IF k = 0 THEN id
                ELSE IF Known(up[k - 1]) THEN delegations[up[k - 1]].parent ELSE None]
    BY <1>2, <2>1
  <2> QED  BY <2>2 DEF up
<1> PICK up : up = Cursor(id)  OBVIOUS
<1>4. up = [k \in 0..(MaxDepth + 1) |-> IF k = 0 THEN id ELSE StepUp(up[k - 1])]
  BY <1>3 DEF StepUp
<1>5. up[0] = id  BY <1>1, <1>4
<1>6. ASSUME NEW k \in 0..MaxDepth  PROVE up[k + 1] = StepUp(up[k])
  <2>1. k + 1 \in 0..(MaxDepth + 1) /\ k + 1 # 0 /\ (k + 1) - 1 = k  BY <1>1
  <2> QED  BY <1>4, <2>1
<1> QED  BY <1>5, <1>6

(* The check that the walk makes covers the delegation's whole lineage.    *)
LEMMA CheckedLineage ==
  ASSUME NEW id \in Delegations, NEW req, NEW now, CheckDelegation(id, req, now)
  PROVE  \A x \in Lineage(id) : Known(x) /\ x \notin revocations /\ delegations[x].expires > now
<1> PICK up : up = Cursor(id)  OBVIOUS
<1>1. /\ up[0] = id /\ \A k \in 0..MaxDepth : up[k + 1] = StepUp(up[k])
      /\ up[MaxDepth + 1] = None /\ MaxDepth \in Nat
  BY CursorSteps, NumberAssumption DEF CheckDelegation
<1>2. \A k \in 0..MaxDepth : up[k] # None =>
        Known(up[k]) /\ up[k] \notin revocations /\ delegations[up[k]].expires > now
  BY DEF CheckDelegation
<1> DEFINE S == {x \in Delegations : \E k \in 0..MaxDepth : x = up[k]}
<1>3. id \in S  BY <1>1
<1>4. ASSUME NEW y \in S, Known(y), delegations[y].parent # None  PROVE delegations[y].parent \in S
  <2>1. PICK k \in 0..MaxDepth : y = up[k]  OBVIOUS
  <2>2. up[k + 1] = delegations[y].parent  BY <1>1, <1>4, <2>1 DEF StepUp
  <2>3. k + 1 # MaxDepth + 1  BY <1>1, <1>4, <2>2
  <2>4. k + 1 \in 0..MaxDepth  BY <1>1, <2>3
  <2>5. Known(up[k + 1])  BY <1>2, <1>4, <2>2, <2>4
  <2> QED  BY <2>2, <2>4, <2>5 DEF Known
<1>5. Lineage(id) \subseteq S
  <2>1. S \in SUBSET Delegations  OBVIOUS
  <2> HIDE DEF S
  <2> QED  BY <1>3, <1>4, <2>1, LineageWithin
<1>6. \A x \in S : x # None  BY NoneAssumption
<1> QED  BY <1>2, <1>5, <1>6

(* The step that lets a delegated action through finds its whole chain     *)
(* stored, unexpired and unrevoked: revoking an ancestor stops every       *)
(* descendant, however long ago the call was begun.                        *)
THEOREM RevocationStops == Spec => RevokedChainStops
<1> DEFINE Stops == \A k \in DOMAIN dispatched' \ DOMAIN dispatched :
                      LET d == dispatched'[k]
                      IN  d.req.delegation # None /\ ~d.ws =>
                            \A x \in Lineage(d.req.delegation) :
                              Known(x) /\ x \notin revocations /\ delegations[x].expires > d.at
<1>1. TypeInv /\ [Next]_vars => [Stops]_vars
  <2> SUFFICES ASSUME TypeInv, [Next]_vars  PROVE Stops  OBVIOUS
  <2>1. CASE UNCHANGED dispatched  BY <2>1
  <2>2. ASSUME NEW p \in Procs, NEW c, NEW now, NEW counted, Allow(p, c, now, counted),
               c.req.delegation # None /\ ~c.ws =>
                 \A x \in Lineage(c.req.delegation) :
                   Known(x) /\ x \notin revocations /\ delegations[x].expires > now
        PROVE  Stops
    <3>1. PICK n \in Nat : /\ DOMAIN dispatched = 1..n /\ DOMAIN dispatched' = 1..(n + 1)
                           /\ dispatched'[n + 1] = Decision(c, now, counted)
      BY <2>2, NewDecision
    <3>2. \A k \in DOMAIN dispatched' \ DOMAIN dispatched : k = n + 1  BY <3>1
    <3>3. /\ dispatched'[n + 1].req = c.req /\ dispatched'[n + 1].ws = c.ws
          /\ dispatched'[n + 1].at = now
      BY <3>1 DEF Decision
    <3> QED  BY <2>2, <3>2, <3>3
  <2>3. ASSUME NEW p \in Procs, NEW c, Allow(p, c, 0, {}), Unbound(c), ~MustDeny(c.req)
        PROVE  Stops
    <3>1. c.req.delegation = None  BY <2>3 DEF MustDeny
    <3> QED  BY <2>2, <2>3, <3>1
  <2>4. ASSUME NEW p \in Procs, Decide(p), Permits(call[p], EffectiveNow)  PROVE Stops
    <3> DEFINE c == call[p]  now == EffectiveNow
    <3>1. /\ c.req \in Requests /\ Allow(p, c, now, ToInsert(c, now))
      BY <2>4, WhatDecides
    <3>2. c.req.delegation \in Delegations \cup {None}  BY <3>1, RequestAssumption
    <3>3. c.req.delegation # None /\ ~c.ws =>
            \A x \in Lineage(c.req.delegation) :
              Known(x) /\ x \notin revocations /\ delegations[x].expires > now
      BY <2>4, <3>2, CheckedLineage DEF Permits
    <3> QED  BY <2>2, <3>1, <3>3
  <2> QED  BY <2>1, <2>3, <2>4, HowAllowed
<1>2. Spec => [][Stops]_vars  BY <1>1, TypeInvariant, PTL DEF Spec
<1> QED  BY <1>2 DEF RevokedChainStops

=============================================================================
