--------------------------- MODULE PolicySyncProofs ---------------------------
(***************************************************************************)
(* Theorems about PolicySync, for any set of processes, any bounds and     *)
(* either signature mode.  Checks take the lock or do not, stale locks are *)
(* removed and mismatches noted; what is proved beyond the types is        *)
(* claimed of the states before two of them met without a lock between     *)
(* them (~unguarded), as the properties say.                               *)
(***************************************************************************)
EXTENDS PolicySync, TLAPS

Locals == [phase : SyncPhases, locked : BOOLEAN, copy : Metas, intact : BOOLEAN,
           etag : Etags, answer : Answers, ok : BOOLEAN]

--------------------------------------------------------------------------
(* Types.                                                                 *)

(* The values a new computer starts from.                                  *)
LEMMA NothingType ==
  /\ NoEtag \in Etags /\ NoDoc \in Docs /\ NoRecord \in Records /\ NoMeta \in Metas
  /\ NoAnswer \in Answers /\ Idle \in Locals
<1>1. 0 \in Revs /\ 0 \in Times  BY RulesAssumption DEF Revs, Times
<1>2. NoEtag \in Etags /\ NoDoc \in Docs  BY <1>1 DEF NoEtag, Etags, NoDoc, Docs
<1>3. NoRecord \in Records /\ NoMeta \in Metas
  BY <1>1, <1>2 DEF NoRecord, Records, NoMeta, Metas
<1>4. NoAnswer \in Answers  BY <1>1, <1>2 DEF NoAnswer, Answers, Kinds
<1>5. Idle \in Locals  BY <1>2, <1>3, <1>4 DEF Idle, Locals, SyncPhases
<1> QED  BY <1>2, <1>3, <1>4, <1>5

LEMMA EtagOfType == ASSUME NEW d \in Docs PROVE EtagOf(d) \in Etags
BY DEF EtagOf, Docs, Etags

(* What is taken from an answer leaves the rules state well typed.         *)
LEMMA TakeFreshnessType ==
  ASSUME NEW a \in Answers, NEW m \in Metas, NEW etag \in Etags
  PROVE  TakeFreshness(a, m, etag) \in Metas
BY DEF TakeFreshness, Answers, Metas

LEMMA AcceptType ==
  ASSUME NEW a \in Answers, NEW m \in Metas
  PROVE  Accept(a, m) \in Metas
BY DEF Accept, Answers, Docs, Metas

LEMMA InForceType ==
  ASSUME NEW a \in Answers, NEW m \in Metas
  PROVE  InForce(a, m) \in Metas
<1> DEFINE named == [m EXCEPT !.rev = a.doc.rev, !.etag = EtagOf(a.doc)]
<1>1. a.doc \in Docs  BY DEF Answers
<1>2. EtagOf(a.doc) \in Etags  BY <1>1, EtagOfType
<1>3. named \in Metas  BY <1>1, <1>2 DEF Metas, Docs
<1>4. Accept(a, named) \in Metas  BY <1>3, AcceptType
<1> QED  BY <1>2, <1>4, TakeFreshnessType DEF InForce

LEMMA OwnRulesType ==
  ASSUME NEW a \in Answers, NEW m \in Metas
  PROVE  OwnRules(a, m) \in Metas
<1> DEFINE named == [m EXCEPT !.rev = 0, !.etag = NoEtag]
<1>1. 0 \in Revs  BY RulesAssumption DEF Revs
<1>2. named \in Metas  BY <1>1, NothingType DEF Metas
<1>3. Accept(a, named) \in Metas  BY <1>2, AcceptType
<1> QED  BY <1>3, NothingType, TakeFreshnessType DEF OwnRules

LEMMA SaveOnlyType ==
  ASSUME NEW s \in Locals, NEW m \in Metas, NEW ok \in BOOLEAN
  PROVE  SaveOnly(s, m, ok) \in Locals /\ Drop(s, m, ok) \in Locals
<1>1. SaveOnly(s, m, ok) \in Locals
  BY NothingType DEF SaveOnly, Locals, SyncPhases
<1> QED  BY <1>1 DEF Drop, Locals, SyncPhases

(* What a check does with its answer.                                      *)
LEMMA HandlersType ==
  ASSUME NEW s \in Locals
  PROVE  /\ OnGone(s) \in Locals /\ OnNoRules(s) \in Locals
         /\ OnSame(s) \in Locals /\ OnRules(s) \in Locals
<1>1. s.answer \in Answers /\ s.copy \in Metas  BY DEF Locals
<1>2. /\ InForce(s.answer, s.copy) \in Metas /\ OwnRules(s.answer, s.copy) \in Metas
      /\ TakeFreshness(s.answer, s.copy, s.copy.etag) \in Metas
  BY <1>1, InForceType, OwnRulesType, TakeFreshnessType DEF Metas
<1>3. [s.copy EXCEPT !.rev = 0, !.etag = NoEtag] \in Metas
  <2>1. 0 \in Revs  BY RulesAssumption DEF Revs
  <2> QED  BY <1>1, <2>1, NothingType DEF Metas
<1>4. [s EXCEPT !.phase = "policy"] \in Locals  BY DEF Locals, SyncPhases
<1>5. OnGone(s) \in Locals  BY <1>1, <1>2, <1>3, SaveOnlyType DEF OnGone
<1>6. OnNoRules(s) \in Locals  BY <1>1, <1>2, SaveOnlyType DEF OnNoRules
<1>7. OnSame(s) \in Locals  BY <1>1, <1>2, SaveOnlyType DEF OnSame, ProofHolds
<1>8. OnRules(s) \in Locals  BY <1>1, <1>2, <1>4, SaveOnlyType DEF OnRules
<1> QED  BY <1>5, <1>6, <1>7, <1>8

(* What the workspace may have become.                                     *)
Workspaces == [rev : 1..MaxRev, managed : BOOLEAN, grant : BOOLEAN, signs : BOOLEAN,
               connected : BOOLEAN]

LEMMA ChangedType ==
  ASSUME workspace \in Workspaces
  PROVE  Changed \subseteq Workspaces
<1>1. ASSUME NEW w \in Changed PROVE w \in Workspaces
  <2>1. CASE w = [workspace EXCEPT !.rev = @ + 1]
    <3>1. workspace.rev + 1 = w.rev /\ w.rev <= MaxRev  BY <1>1, <2>1 DEF Changed, Workspaces
    <3>2. w.rev \in 1..MaxRev  BY <3>1, RulesAssumption DEF Workspaces
    <3> QED  BY <2>1, <3>2 DEF Workspaces
  <2>2. CASE w # [workspace EXCEPT !.rev = @ + 1]
    BY <1>1, <2>2 DEF Changed, Workspaces
  <2> QED  BY <2>1, <2>2
<1> QED  BY <1>1

LEMMA WorkspaceAnswerType ==
  ASSUME RulesTypeOK, NEW etag \in Etags
  PROVE  WorkspaceAnswer(etag) \in Answers
<1> DEFINE w == workspace
           doc == [rev |-> IF w.connected /\ w.managed THEN w.rev ELSE 0,
                   grant |-> Grants(w), issued |-> rulesClock, signed |-> w.signs]
           at == IF w.signs /\ w.connected THEN rulesClock ELSE 0
           kind == IF ~w.connected THEN "gone" ELSE IF ~w.managed THEN "noRules"
                   ELSE IF etag = EtagOf(doc) THEN "same" ELSE "rules"
<1>1. /\ 0 \in Revs /\ w.rev \in Revs /\ 0 \in Times /\ rulesClock \in Times
  BY RulesAssumption DEF RulesTypeOK, Revs, Times
<1>2. w.managed \in BOOLEAN /\ w.grant \in BOOLEAN /\ w.signs \in BOOLEAN /\ w.connected \in BOOLEAN
  BY DEF RulesTypeOK
<1>3. doc \in Docs  BY <1>1, <1>2 DEF Docs, Grants
<1>4. at \in Times /\ kind \in Kinds  BY <1>1 DEF Kinds
<1>5. EtagOf(doc) \in Etags  BY <1>3, EtagOfType
<1>6. WorkspaceAnswer(etag) = [kind |-> kind, doc |-> doc, proofAt |-> at,
                              proofEtag |-> EtagOf(doc), genuine |-> TRUE]
  BY DEF WorkspaceAnswer
<1> HIDE DEF doc, at, kind
<1> QED  BY <1>3, <1>4, <1>5, <1>6 DEF Answers

(* A step that only replaces the locals of check c by well-typed ones.     *)
LEMMA SyncUpdate ==
  ASSUME RulesTypeOK, NEW c \in Checks, NEW s \in Locals, sync' = [sync EXCEPT ![c] = s]
  PROVE  sync' \in [Checks -> Locals]
BY DEF RulesTypeOK, Locals

(* The phase alone moves on.                                               *)
LEMMA PhaseType ==
  ASSUME RulesTypeOK, NEW c \in Checks, NEW phase \in SyncPhases,
         sync' = [sync EXCEPT ![c].phase = phase]
  PROVE  sync' \in [Checks -> Locals]
BY DEF RulesTypeOK, Locals

(* An answer arrives.                                                      *)
LEMMA AnsweredType ==
  ASSUME RulesTypeOK, NEW c \in Checks, NEW a \in Answers,
         sync' = [sync EXCEPT ![c].phase = "answered", ![c].answer = a]
  PROVE  sync' \in [Checks -> Locals]
<1>1. sync \in [Checks -> Locals]  BY DEF RulesTypeOK, Locals
<1> DEFINE s == [sync[c] EXCEPT !.phase = "answered", !.answer = a]
<1>2. s \in Locals  BY <1>1 DEF Locals, SyncPhases
<1>3. sync' = [sync EXCEPT ![c] = s]  BY <1>1
<1> HIDE DEF s
<1> QED  BY <1>2, <1>3, SyncUpdate

(* Every step keeps the types.                                             *)
LEMMA StepType ==
  ASSUME RulesTypeOK, [RulesNext]_rulesVars
  PROVE  RulesTypeOK'
<1> USE DEF Locals
<1>1. sync \in [Checks -> Locals]  BY DEF RulesTypeOK
<1>2. CASE TimePasses
  <2>1. workspace \in Workspaces  BY DEF RulesTypeOK, Workspaces
  <2>2. workspace' \in Workspaces  BY <1>2, <2>1, ChangedType DEF TimePasses
  <2>3. rulesClock' \in 1..MaxTime /\ lastGranted' \in 1..MaxTime
    BY <1>2, RulesAssumption DEF TimePasses, RulesTypeOK
  <2> QED  BY <1>2, <2>2, <2>3 DEF TimePasses, files, locks, RulesTypeOK, Workspaces
<1>3. CASE RemoveStaleLock
  <2>1. unguarded' \in BOOLEAN  BY <1>3 DEF RemoveStaleLock, RulesTypeOK
  <2> QED  BY <1>3, <2>1 DEF RemoveStaleLock, outside, files, RulesTypeOK
<1>19. CASE NoteMismatch
  BY <1>19 DEF NoteMismatch, outside, files, RulesTypeOK
<1>20. CASE WriteNote
  <2>1. meta' \in Metas /\ noting' \subseteq Metas  BY <1>20 DEF WriteNote, RulesTypeOK
  <2> QED  BY <1>20, <2>1 DEF WriteNote, outside, files, RulesTypeOK
<1>4. ASSUME NEW c \in Checks, NEW locked \in BOOLEAN, StartCheck(c, locked) PROVE RulesTypeOK'
  <2> DEFINE s == [Idle EXCEPT !.phase = "asking", !.locked = locked, !.copy = meta,
                               !.intact = Intact,
                               !.etag = IF Managed /\ Intact THEN meta.etag ELSE NoEtag]
  <2>1. meta \in Metas /\ meta.etag \in Etags /\ Intact \in BOOLEAN
    BY DEF RulesTypeOK, Metas, Intact, TrustApplies, TrustOk
  <2>2. (IF Managed /\ Intact THEN meta.etag ELSE NoEtag) \in Etags  BY <2>1, NothingType
  <2>3. s \in Locals  BY <2>1, <2>2, NothingType DEF SyncPhases
  <2>4. sync' = [sync EXCEPT ![c] = s]  BY <1>4 DEF StartCheck
  <2>5. sync' \in [Checks -> Locals]
    <3> HIDE DEF s, Locals
    <3> QED  BY <2>3, <2>4, SyncUpdate
  <2>6. unguarded' \in BOOLEAN /\ syncLock' \in Checks \cup {"none"}
    BY <1>4 DEF StartCheck, RulesTypeOK, Beside
  <2> QED  BY <1>4, <2>5, <2>6 DEF StartCheck, outside, files, locks, RulesTypeOK
<1>5. ASSUME NEW c \in Checks, WorkspaceAnswers(c) PROVE RulesTypeOK'
  <2> DEFINE a == WorkspaceAnswer(sync[c].etag)
  <2>1. a \in Answers  BY <1>1, WorkspaceAnswerType
  <2>2. /\ sync' = [sync EXCEPT ![c].phase = "answered", ![c].answer = a]
        /\ oldAnswer' = oldAnswer \/ oldAnswer' = [a EXCEPT !.genuine = FALSE]
    BY <1>5 DEF WorkspaceAnswers
  <2>3. sync' \in [Checks -> Locals] /\ oldAnswer' \in Answers
    <3> HIDE DEF a, Locals
    <3>1. [a EXCEPT !.genuine = FALSE] \in Answers  BY <2>1 DEF Answers
    <3> QED  BY <2>1, <2>2, <3>1, AnsweredType DEF RulesTypeOK
  <2> QED  BY <1>5, <2>3 DEF WorkspaceAnswers, outside, files, locks, RulesTypeOK
<1>6. ASSUME NEW c \in Checks, OtherAnswers(c) PROVE RulesTypeOK'
  <2>1. \A k \in {"lost", "gone", "noRules", "same"} : [NoAnswer EXCEPT !.kind = k] \in Answers
    BY NothingType DEF Answers, Kinds
  <2>2. PICK a \in {oldAnswer} \cup
                     {[NoAnswer EXCEPT !.kind = k] : k \in {"lost", "gone", "noRules", "same"}} :
          sync' = [sync EXCEPT ![c].phase = "answered", ![c].answer = a]
    BY <1>6 DEF OtherAnswers
  <2>3. a \in Answers  BY <2>1, <2>2 DEF RulesTypeOK
  <2>4. sync' \in [Checks -> Locals]
    <3> HIDE DEF Locals
    <3> QED  BY <2>2, <2>3, AnsweredType
  <2> QED  BY <1>6, <2>4 DEF OtherAnswers, outside, files, locks, RulesTypeOK
<1>7. ASSUME NEW c \in Checks, HandleAnswer(c) PROVE RulesTypeOK'
  <2>1. sync[c] \in Locals  BY <1>1
  <2>2. SaveOnly(sync[c], sync[c].copy, FALSE) \in Locals  BY <2>1, SaveOnlyType
  <2>3. PICK s \in Locals : sync' = [sync EXCEPT ![c] = s]
    <3> HIDE DEF Locals
    <3> QED  BY <1>7, <2>1, <2>2, HandlersType DEF HandleAnswer
  <2>4. sync' \in [Checks -> Locals]  BY <2>3, SyncUpdate
  <2>5. verifiedOnce' \in BOOLEAN  BY <1>7, <2>1 DEF HandleAnswer, RulesTypeOK, Verified
  <2> QED  BY <1>7, <2>4, <2>5 DEF HandleAnswer, outside, files, locks, RulesTypeOK
<1>8. ASSUME NEW c \in Checks, InstallPolicy(c) PROVE RulesTypeOK'
  <2>1. sync' \in [Checks -> Locals]  BY <1>8, PhaseType DEF InstallPolicy, SyncPhases
  <2>2. policyFile' \in Revs  BY <1>1, <1>8 DEF InstallPolicy, Answers, Docs
  <2> QED  BY <1>8, <2>1, <2>2 DEF InstallPolicy, outside, locks, RulesTypeOK
<1>9. ASSUME NEW c \in Checks, InstallDoc(c) PROVE RulesTypeOK'
  <2>1. sync' \in [Checks -> Locals]  BY <1>9, PhaseType DEF InstallDoc, SyncPhases
  <2>2. docFile' \in Docs  BY <1>1, <1>9 DEF InstallDoc, Answers
  <2> QED  BY <1>9, <2>1, <2>2 DEF InstallDoc, outside, locks, RulesTypeOK
<1>10. ASSUME NEW c \in Checks, KeepRecord(c) PROVE RulesTypeOK'
  <2>1. sync[c] \in Locals /\ sync[c].answer \in Answers /\ sync[c].copy \in Metas  BY <1>1
  <2>2. SaveOnly(sync[c], InForce(sync[c].answer, sync[c].copy), TRUE) \in Locals
    BY <2>1, InForceType, SaveOnlyType
  <2>3. sync' \in [Checks -> Locals]  BY <1>1, <1>10, <2>2, SyncUpdate DEF KeepRecord
  <2>4. answerRecord' \in Records
    BY <1>10, <2>1, NothingType DEF KeepRecord, Records, Answers, RulesTypeOK
  <2> QED  BY <1>10, <2>3, <2>4 DEF KeepRecord, outside, locks, RulesTypeOK
<1>11. ASSUME NEW c \in Checks, InstallFails(c) PROVE RulesTypeOK'
  <2>1. sync[c] \in Locals /\ sync[c].answer \in Answers /\ sync[c].copy \in Metas  BY <1>1
  <2>2. [sync[c].copy EXCEPT !.latch = @ \/ sync[c].answer.doc.signed] \in Metas
    BY <2>1 DEF Metas, Answers, Docs
  <2>3. sync' \in [Checks -> Locals]
    <3> HIDE DEF Locals
    <3> QED  BY <1>11, <2>1, <2>2, SaveOnlyType, SyncUpdate DEF InstallFails
  <2>4. stops' \in 0..MaxStops  BY <1>11, RulesAssumption DEF InstallFails, RulesTypeOK
  <2> QED  BY <1>11, <2>3, <2>4 DEF InstallFails, outside, files, locks, RulesTypeOK
<1>12. ASSUME NEW c \in Checks, DropPolicy(c) PROVE RulesTypeOK'
  <2>1. sync' \in [Checks -> Locals]  BY <1>12, PhaseType DEF DropPolicy, SyncPhases
  <2>2. 0 \in Revs  BY RulesAssumption DEF Revs
  <2> QED  BY <1>12, <2>1, <2>2 DEF DropPolicy, outside, locks, RulesTypeOK
<1>13. ASSUME NEW c \in Checks, DropDoc(c) PROVE RulesTypeOK'
  <2>1. sync' \in [Checks -> Locals]  BY <1>13, PhaseType DEF DropDoc, SyncPhases
  <2> QED  BY <1>13, <2>1, NothingType DEF DropDoc, outside, locks, RulesTypeOK
<1>14. ASSUME NEW c \in Checks, DropRecord(c) PROVE RulesTypeOK'
  <2>1. sync' \in [Checks -> Locals]  BY <1>14, PhaseType DEF DropRecord, SyncPhases
  <2> QED  BY <1>14, <2>1, NothingType DEF DropRecord, outside, locks, RulesTypeOK
<1>15. ASSUME NEW c \in Checks, SaveMeta(c) PROVE RulesTypeOK'
  <2>1. sync' \in [Checks -> Locals]  BY <1>15, PhaseType DEF SaveMeta, SyncPhases
  <2>2. meta' \in Metas  BY <1>1, <1>15 DEF SaveMeta
  <2>3. unguarded' \in BOOLEAN  BY <1>15 DEF SaveMeta, RulesTypeOK
  <2> QED  BY <1>15, <2>1, <2>2, <2>3 DEF SaveMeta, outside, files, locks, RulesTypeOK
<1>16. ASSUME NEW c \in Checks, ReleaseLock(c) PROVE RulesTypeOK'
  <2>1. sync' \in [Checks -> Locals]  BY <1>16, NothingType, SyncUpdate DEF ReleaseLock
  <2> QED  BY <1>16, <2>1 DEF ReleaseLock, outside, files, locks, RulesTypeOK
<1>17. ASSUME NEW c \in Checks, StopCheck(c) PROVE RulesTypeOK'
  <2>1. sync' \in [Checks -> Locals]  BY <1>17, NothingType, SyncUpdate DEF StopCheck
  <2>2. stops' \in 0..MaxStops  BY <1>17, RulesAssumption DEF StopCheck, RulesTypeOK
  <2> QED  BY <1>17, <2>1, <2>2 DEF StopCheck, outside, files, locks, RulesTypeOK
<1>18. CASE UNCHANGED rulesVars
  BY <1>18 DEF rulesVars, files, locks, RulesTypeOK
<1> QED
  BY <1>2, <1>3, <1>4, <1>5, <1>6, <1>7, <1>8, <1>9, <1>10, <1>11, <1>12, <1>13, <1>14, <1>15,
     <1>16, <1>17, <1>18, <1>19, <1>20 DEF RulesNext

(* A new computer.                                                         *)
LEMMA RulesInitType == RulesInit => RulesTypeOK
<1> SUFFICES ASSUME RulesInit PROVE RulesTypeOK  OBVIOUS
<1>1. 1 \in 1..MaxRev /\ 1 \in 1..MaxTime /\ 0 \in Revs /\ 0 \in 0..MaxStops
  BY RulesAssumption DEF Revs
<1>2. workspace \in Workspaces  BY <1>1 DEF RulesInit, Workspaces
<1>3. sync \in [Checks -> Locals]  BY NothingType DEF RulesInit
<1> QED  BY <1>1, <1>2, <1>3, NothingType DEF RulesInit, RulesTypeOK, Workspaces, Locals

(* The type invariant of the rules check holds in every reachable state,   *)
(* with any processes, versions, ticks and stops.                          *)
THEOREM RulesTypeCorrect == RulesSpec => []RulesTypeOK
BY RulesInitType, StepType, PTL DEF RulesSpec

--------------------------------------------------------------------------
(* The lock, and what a check at work knows.                              *)

\* n is no step back from m: the latch stays, the replay mark does not go down.
Onward(m, n) == (m.latch => n.latch) /\ m.issued <= n.issued

\* What holds of the locals s of a check at work, beside the rules state m and the compiled policy.
Sound(s, m, policy) ==
  /\ Onward(m, s.copy)
  /\ s.phase \in {"policy", "doc", "record"} => Admitted(s.answer, s.copy)
  /\ s.phase \in {"doc", "record"} => policy = s.answer.doc.rev
  /\ s.phase \in {"dropPolicy", "dropDoc", "dropRecord"} => (m.latch => s.answer.doc.signed)

\* No check but c is at work.
Alone(c) == \A d \in Checks \ {c} : sync[d].phase = "idle"

\* One check at most is at work; it is sound, and has its lock if it took one.  A note writes back
\* the rules state as it is.
Held ==
  /\ \A c \in Checks : sync[c].phase # "idle" =>
       /\ Alone(c) /\ (sync[c].locked => syncLock = c)
       /\ Sound(sync[c], meta, policyFile)
  /\ noting \subseteq {meta}

\* A record explains the policy and the answer it was made with.
Explained == answerRecord # NoRecord =>
               answerRecord.policy = answerRecord.answer.rev /\ answerRecord.answer.signed

RulesInv == RulesTypeOK /\ Held /\ Explained

(* What an admitted answer does to the rules state is no step back.        *)
LEMMA OnwardSteps ==
  ASSUME NEW a \in Answers, NEW m \in Metas
  PROVE  /\ \A n \in Metas, etag \in Etags :
              Onward(m, n) => Onward(m, TakeFreshness(a, n, etag))
         /\ Admitted(a, m) => Onward(m, InForce(a, m)) /\ Onward(m, OwnRules(a, m))
<1>1. ASSUME NEW n \in Metas, NEW etag \in Etags, Onward(m, n)
      PROVE  Onward(m, TakeFreshness(a, n, etag))
  BY <1>1 DEF Onward, TakeFreshness, Metas
<1>2. ASSUME NEW n \in Metas, NEW r \in Revs, NEW etag \in Etags, Admitted(a, m),
             n = [m EXCEPT !.rev = r, !.etag = etag]
      PROVE  Onward(m, Accept(a, n)) /\ Accept(a, n) \in Metas
  <2>1. n.latch = m.latch /\ n.issued = m.issued  BY <1>2 DEF Metas
  <2>2. m.issued \in Times /\ a.doc.issued \in Times  BY DEF Metas, Answers, Docs
  <2>3. a.doc.signed => m.issued <= a.doc.issued  BY <1>2, <2>2 DEF Admitted, Verified, Times
  <2>4. m.issued <= m.issued  BY <2>2 DEF Times
  <2> QED  BY <1>2, <2>1, <2>3, <2>4, AcceptType DEF Onward, Accept, Metas
<1>3. ASSUME Admitted(a, m) PROVE Onward(m, InForce(a, m))
  <2> DEFINE n == [m EXCEPT !.rev = a.doc.rev, !.etag = EtagOf(a.doc)]
  <2>1. a.doc.rev \in Revs /\ EtagOf(a.doc) \in Etags  BY EtagOfType DEF Answers, Docs
  <2>2. n \in Metas  BY <2>1 DEF Metas
  <2>3. Onward(m, Accept(a, n)) /\ Accept(a, n) \in Metas  BY <1>2, <1>3, <2>1, <2>2
  <2> QED  BY <1>1, <2>1, <2>3 DEF InForce
<1>4. ASSUME Admitted(a, m) PROVE Onward(m, OwnRules(a, m))
  <2> DEFINE n == [m EXCEPT !.rev = 0, !.etag = NoEtag]
  <2>1. 0 \in Revs /\ NoEtag \in Etags  BY RulesAssumption, NothingType DEF Revs
  <2>2. n \in Metas  BY <2>1 DEF Metas
  <2>3. Onward(m, Accept(a, n)) /\ Accept(a, n) \in Metas  BY <1>2, <1>4, <2>1, <2>2
  <2> QED  BY <1>1, <2>1, <2>3 DEF OwnRules
<1> QED  BY <1>1, <1>3, <1>4

(* The way from one rules state to a later one and on to a third.          *)
LEMMA OnwardTransitive ==
  ASSUME NEW l \in Metas, NEW m \in Metas, NEW n \in Metas, Onward(l, m), Onward(m, n)
  PROVE  Onward(l, n)
BY DEF Onward, Metas, Times

(* A check that only saves, or drops, is sound when what it saves is no    *)
(* step back.                                                              *)
LEMMA SaveSound ==
  ASSUME NEW s \in Locals, NEW m \in Metas, NEW n \in Metas, NEW ok \in BOOLEAN,
         NEW policy, Onward(m, n)
  PROVE  /\ Sound(SaveOnly(s, n, ok), m, policy)
         /\ (Managed /\ m.latch => s.answer.doc.signed) => Sound(Drop(s, n, ok), m, policy)
<1>1. /\ SaveOnly(s, n, ok).phase = "save" /\ SaveOnly(s, n, ok).copy = n
      /\ SaveOnly(s, n, ok).answer = s.answer
  BY DEF SaveOnly, Idle
<1>2. /\ Drop(s, n, ok).phase = IF Managed THEN "dropPolicy" ELSE "save"
      /\ Drop(s, n, ok).copy = n /\ Drop(s, n, ok).answer = s.answer
  BY DEF Drop, SaveOnly, Idle
<1> QED  BY <1>1, <1>2 DEF Sound

(* What a check does with its answer leaves it sound.                      *)
LEMMA HandlersSound ==
  ASSUME NEW s \in Locals, NEW m \in Metas, NEW policy, Onward(m, s.copy)
  PROVE  /\ Sound(OnGone(s), m, policy) /\ Sound(OnNoRules(s), m, policy)
         /\ Sound(OnSame(s), m, policy) /\ Sound(OnRules(s), m, policy)
         /\ Sound(SaveOnly(s, s.copy, FALSE), m, policy)
<1> DEFINE a == s.answer
           l == s.copy
           latched == m.latch => l.latch
<1>1. a \in Answers /\ l \in Metas /\ l.etag \in Etags /\ latched
  BY DEF Locals, Metas, Onward
<1>2. InForce(a, l) \in Metas /\ OwnRules(a, l) \in Metas /\ TakeFreshness(a, l, l.etag) \in Metas
  BY <1>1, InForceType, OwnRulesType, TakeFreshnessType
<1>3. Onward(l, l)  BY <1>1 DEF Onward, Metas, Times
<1>4. Onward(m, TakeFreshness(a, l, l.etag))  BY <1>1, <1>2, <1>3, OnwardSteps, OnwardTransitive
<1>5. Admitted(a, l) => Onward(m, InForce(a, l)) /\ Onward(m, OwnRules(a, l))
  BY <1>1, <1>2, OnwardSteps, OnwardTransitive
<1>6. Admitted(a, l) /\ m.latch => a.doc.signed  BY <1>1 DEF Admitted, Enforces
<1> HIDE DEF a, l
<1>7. \A ok \in BOOLEAN : Sound(SaveOnly(s, l, ok), m, policy)  BY <1>1, SaveSound DEF l
<1>8. Sound(OnGone(s), m, policy)
  <2> DEFINE back == [l EXCEPT !.rev = 0, !.etag = NoEtag]
  <2>1. 0 \in Revs /\ NoEtag \in Etags  BY RulesAssumption, NothingType DEF Revs
  <2>2. back \in Metas /\ Onward(m, back)  BY <1>1, <2>1 DEF Metas, Onward, l
  <2>3. CASE RevocationHolds(a, l)
    <3>1. Verified(a, l) /\ Admitted(a, l)  BY <2>3 DEF RevocationHolds, Verified, Admitted
    <3>2. a.doc.signed  BY <3>1 DEF Verified
    <3>3. OnGone(s) = Drop(s, OwnRules(a, l), FALSE)  BY <2>3 DEF OnGone, a, l
    <3> QED  BY <1>2, <1>5, <3>1, <3>2, <3>3, SaveSound DEF a
  <2>4. CASE ~RevocationHolds(a, l) /\ Enforces(l) /\ Managed
    BY <1>7, <2>4 DEF OnGone, a, l
  <2>5. CASE ~RevocationHolds(a, l) /\ ~(Enforces(l) /\ Managed)
    <3>1. OnGone(s) = Drop(s, back, FALSE)  BY <2>5 DEF OnGone, a, l
    <3>2. ~(Managed /\ m.latch)  BY <1>1, <2>5 DEF Enforces
    <3> QED  BY <2>2, <3>1, <3>2, SaveSound
  <2> QED  BY <2>3, <2>4, <2>5
<1>9. Sound(OnNoRules(s), m, policy)
  <2>1. CASE Admitted(a, l)
    <3>1. OnNoRules(s) = Drop(s, OwnRules(a, l), TRUE)  BY <2>1 DEF OnNoRules, a, l
    <3> QED  BY <1>2, <1>5, <1>6, <2>1, <3>1, SaveSound DEF a
  <2>2. CASE ~Admitted(a, l)
    BY <1>7, <2>2 DEF OnNoRules, a, l
  <2> QED  BY <2>1, <2>2
<1>10. Sound(OnSame(s), m, policy)
  <2>1. (a.proofAt = 0 \/ ProofHolds(a, l, l.etag)) \in BOOLEAN  BY DEF ProofHolds
  <2>2. CASE Managed /\ l.rev # 0
    <3>1. OnSame(s) = SaveOnly(s, TakeFreshness(a, l, l.etag),
                               a.proofAt = 0 \/ ProofHolds(a, l, l.etag))
      BY <2>2 DEF OnSame, a, l
    <3> QED  BY <1>2, <1>4, <2>1, <3>1, SaveSound
  <2>3. CASE ~(Managed /\ l.rev # 0)
    BY <1>7, <2>3 DEF OnSame, a, l
  <2> QED  BY <2>2, <2>3
<1>11. Sound(OnRules(s), m, policy)
  <2>1. CASE OnRules(s) = SaveOnly(s, InForce(a, l), TRUE) /\ Admitted(a, l)
    BY <1>2, <1>5, <2>1, SaveSound
  <2>2. CASE OnRules(s) = SaveOnly(s, l, FALSE)
    BY <1>7, <2>2
  <2>3. CASE OnRules(s) = [s EXCEPT !.phase = "policy"] /\ Admitted(a, l)
    <3>1. /\ OnRules(s).phase = "policy" /\ OnRules(s).copy = s.copy
          /\ OnRules(s).answer = s.answer
      BY <2>3 DEF Locals
    <3> QED  BY <2>3, <3>1 DEF Sound, a, l
  <2> QED  BY <2>1, <2>2, <2>3 DEF OnRules, a, l
<1> QED  BY <1>7, <1>8, <1>9, <1>10, <1>11 DEF l

(* A step of the one check at work: every other one is idle.               *)
LEMMA HolderHeld ==
  ASSUME RulesTypeOK, NEW c \in Checks, NEW s \in Locals,
         Alone(c), sync' = [sync EXCEPT ![c] = s], noting' \subseteq {meta'},
         s.phase # "idle" => (s.locked => syncLock' = c) /\ Sound(s, meta', policyFile')
  PROVE  Held'
<1>1. sync'[c] = s /\ \A d \in Checks \ {c} : sync'[d] = sync[d]  BY DEF RulesTypeOK
<1>2. \A d \in Checks \ {c} : sync'[d].phase = "idle"  BY <1>1 DEF Alone
<1>3. ASSUME NEW d \in Checks, sync'[d].phase # "idle"
      PROVE  /\ Alone(d)' /\ (sync'[d].locked => syncLock' = d)
             /\ Sound(sync'[d], meta', policyFile')
  <2>1. d = c  BY <1>2, <1>3
  <2>2. Alone(d)'  BY <1>2, <2>1 DEF Alone
  <2> QED  BY <1>1, <1>3, <2>1, <2>2
<1> QED  BY <1>3 DEF Held

(* The parts of a check's locals that a change of its phase leaves alone.  *)
LEMMA PhaseOnly ==
  ASSUME NEW s \in Locals, NEW phase \in SyncPhases
  PROVE  LET t == [s EXCEPT !.phase = phase]
         IN /\ t \in Locals /\ t.phase = phase /\ t.copy = s.copy /\ t.answer = s.answer
            /\ t.locked = s.locked
BY DEF Locals

(* Whether it took the lock does not change either.                        *)
LEMMA LockedStays ==
  ASSUME NEW s \in Locals
  PROVE  /\ \A m \in Metas, ok \in BOOLEAN :
              SaveOnly(s, m, ok).locked = s.locked /\ Drop(s, m, ok).locked = s.locked
         /\ OnGone(s).locked = s.locked /\ OnNoRules(s).locked = s.locked
         /\ OnSame(s).locked = s.locked /\ OnRules(s).locked = s.locked
<1>1. ASSUME NEW m, NEW ok
      PROVE  SaveOnly(s, m, ok).locked = s.locked /\ Drop(s, m, ok).locked = s.locked
  <2>1. SaveOnly(s, m, ok).locked = s.locked  BY DEF SaveOnly, Idle
  <2>2. Drop(s, m, ok).locked = SaveOnly(s, m, ok).locked  BY DEF Drop, SaveOnly, Idle
  <2> QED  BY <2>1, <2>2
<1>2. [s EXCEPT !.phase = "policy"].locked = s.locked  BY DEF Locals
<1>3. OnGone(s).locked = s.locked /\ OnNoRules(s).locked = s.locked
  BY <1>1 DEF OnGone, OnNoRules
<1>4. OnSame(s).locked = s.locked /\ OnRules(s).locked = s.locked
  BY <1>1, <1>2 DEF OnSame, OnRules
<1> QED  BY <1>1, <1>3, <1>4

(* Whoever meets another without a lock between them is remembered.        *)
LEMMA StaysUnguarded ==
  ASSUME RulesTypeOK, [RulesNext]_rulesVars, ~unguarded'
  PROVE  ~unguarded
BY DEF RulesNext, rulesVars, locks, TimePasses, RemoveStaleLock, NoteMismatch, WriteNote, StartCheck,
   WorkspaceAnswers, OtherAnswers, HandleAnswer, InstallPolicy, InstallDoc, KeepRecord, InstallFails,
   DropPolicy, DropDoc, DropRecord, SaveMeta, ReleaseLock, StopCheck

(* A check starts alone, or is remembered as not guarded.                  *)
LEMMA StartsAlone ==
  ASSUME RulesTypeOK, Held, ~unguarded', NEW c \in Checks, NEW locked \in BOOLEAN,
         StartCheck(c, locked)
  PROVE  Alone(c)
<1> SUFFICES ASSUME NEW d \in Checks \ {c}, sync[d].phase # "idle" PROVE FALSE  BY DEF Alone
<1>1. locked /\ sync[d].locked  BY DEF StartCheck, Beside, Busy
<1>2. syncLock = d  BY <1>1 DEF Held
<1> QED  BY <1>1, <1>2, RulesAssumption DEF StartCheck, MayStart

(* Every step keeps the lock, the checks at work and the record sound.     *)
LEMMA StepHeld ==
  ASSUME RulesInv, [RulesNext]_rulesVars, ~unguarded'
  PROVE  Held' /\ Explained'
<1>1. /\ RulesTypeOK /\ Held /\ Explained /\ meta \in Metas /\ noting \subseteq {meta}
      /\ \A c \in Checks : sync[c] \in Locals /\ c # "none"
  BY RulesAssumption DEF RulesInv, RulesTypeOK, Locals, Held
<1>2. ASSUME NEW c \in Checks, sync[c].phase # "idle"
      PROVE  /\ Alone(c) /\ (sync[c].locked => syncLock = c)
             /\ Sound(sync[c], meta, policyFile)
  BY <1>1, <1>2 DEF Held
<1>3. CASE TimePasses \/ UNCHANGED rulesVars
  BY <1>1, <1>3 DEF TimePasses, files, locks, rulesVars, Held, Alone, Explained
<1>4. CASE RemoveStaleLock
  <2>1. ASSUME NEW c \in Checks, sync[c].phase # "idle" PROVE ~sync[c].locked
    BY <1>2, <1>4, <2>1 DEF RemoveStaleLock, Busy
  <2> QED  BY <1>1, <1>4, <2>1 DEF RemoveStaleLock, files, Held, Alone, Explained
<1>15. CASE NoteMismatch
  BY <1>1, <1>15 DEF NoteMismatch, files, Held, Alone, Explained
<1>16. CASE WriteNote
  <2>1. meta' = meta /\ noting' = {}  BY <1>1, <1>16 DEF WriteNote, Held
  <2> QED  BY <1>1, <1>16, <2>1 DEF WriteNote, files, Held, Alone, Explained
<1>5. ASSUME NEW c \in Checks, NEW locked \in BOOLEAN, StartCheck(c, locked)
      PROVE  Held' /\ Explained'
  <2> DEFINE s == [Idle EXCEPT !.phase = "asking", !.locked = locked, !.copy = meta,
                               !.intact = Intact,
                               !.etag = IF Managed /\ Intact THEN meta.etag ELSE NoEtag]
  <2>1. sync' = [sync EXCEPT ![c] = s] /\ (locked => syncLock' = c)
    BY <1>5 DEF StartCheck
  <2>2. meta.etag \in Etags /\ Intact \in BOOLEAN
    BY <1>1 DEF Metas, Intact, TrustApplies, TrustOk
  <2>3. (IF Managed /\ Intact THEN meta.etag ELSE NoEtag) \in Etags  BY <2>2, NothingType
  <2>4. s \in Locals /\ s.phase = "asking" /\ s.copy = meta /\ s.locked = locked
    BY <1>1, <2>2, <2>3, NothingType DEF Locals, SyncPhases
  <2>5. Onward(meta, meta)  BY <1>1 DEF Onward, Metas, Times
  <2>6. UNCHANGED <<meta, answerRecord, noting>>  BY <1>5 DEF StartCheck, files
  <2>7. Alone(c)  BY <1>1, <1>5, StartsAlone
  <2> HIDE DEF s
  <2>8. Sound(s, meta', policyFile')  BY <2>4, <2>5, <2>6 DEF Sound
  <2>9. noting' \subseteq {meta'}  BY <1>1, <2>6 DEF Held
  <2> QED  BY <1>1, <2>1, <2>4, <2>6, <2>7, <2>8, <2>9, HolderHeld DEF Explained
<1>6. ASSUME NEW c \in Checks, WorkspaceAnswers(c) \/ OtherAnswers(c) PROVE Held' /\ Explained'
  <2>1. PICK a : sync' = [sync EXCEPT ![c].phase = "answered", ![c].answer = a]
    BY <1>6 DEF WorkspaceAnswers, OtherAnswers
  <2>2. sync[c].phase = "asking" /\ UNCHANGED <<meta, syncLock, noting, files>>
    BY <1>6 DEF WorkspaceAnswers, OtherAnswers, locks
  <2> DEFINE s == [sync[c] EXCEPT !.phase = "answered", !.answer = a]
  <2>3. s.phase = "answered" /\ s.copy = sync[c].copy /\ s.locked = sync[c].locked
    BY <1>1 DEF Locals
  <2>4. sync' = [sync EXCEPT ![c] = s]  BY <1>1, <2>1
  <2>5. sync' \in [Checks -> Locals]  BY <1>1, <1>6, StepType DEF RulesNext, RulesTypeOK, Locals
  <2>6. s \in Locals
    <3>1. sync'[c] = s  BY <1>1, <2>4 DEF RulesTypeOK
    <3> QED  BY <2>5, <3>1
  <2> HIDE DEF s
  <2>7. Alone(c) /\ (s.locked => syncLock' = c) /\ Sound(s, meta', policyFile')
    BY <1>2, <2>2, <2>3 DEF Sound, files
  <2> QED  BY <1>1, <2>2, <2>4, <2>6, <2>7, HolderHeld DEF Explained, files
<1>7. ASSUME NEW c \in Checks, HandleAnswer(c) PROVE Held' /\ Explained'
  <2>1. sync[c].phase = "answered" /\ UNCHANGED <<meta, syncLock, noting, files>>
    BY <1>7 DEF HandleAnswer, locks
  <2>2. Alone(c) /\ (sync[c].locked => syncLock = c) /\ Onward(meta, sync[c].copy)
    BY <1>2, <2>1 DEF Sound
  <2>3. SaveOnly(sync[c], sync[c].copy, FALSE) \in Locals
    BY <1>1, SaveOnlyType DEF Locals
  <2>4. PICK s : /\ sync' = [sync EXCEPT ![c] = s]
                 /\ \/ s = OnGone(sync[c]) \/ s = OnNoRules(sync[c])
                    \/ s = OnSame(sync[c]) \/ s = OnRules(sync[c])
                    \/ s = SaveOnly(sync[c], sync[c].copy, FALSE)
    BY <1>7 DEF HandleAnswer
  <2>5. s \in Locals  BY <1>1, <2>3, <2>4, HandlersType
  <2>6. Sound(s, meta, policyFile)  BY <1>1, <2>2, <2>4, HandlersSound
  <2>7. s.locked = sync[c].locked
    <3>1. /\ OnGone(sync[c]).locked = sync[c].locked /\ OnNoRules(sync[c]).locked = sync[c].locked
          /\ OnSame(sync[c]).locked = sync[c].locked /\ OnRules(sync[c]).locked = sync[c].locked
      BY <1>1, LockedStays
    <3>2. SaveOnly(sync[c], sync[c].copy, FALSE).locked = sync[c].locked  BY DEF SaveOnly, Idle
    <3> QED  BY <2>4, <3>1, <3>2
  <2> QED  BY <1>1, <2>1, <2>2, <2>4, <2>5, <2>6, <2>7, HolderHeld DEF Explained, files
<1>8. ASSUME NEW c \in Checks, InstallPolicy(c) PROVE Held' /\ Explained'
  <2> DEFINE s == [sync[c] EXCEPT !.phase = "doc"]
  <2>1. /\ sync[c].phase = "policy" /\ sync' = [sync EXCEPT ![c] = s]
        /\ policyFile' = sync[c].answer.doc.rev
        /\ UNCHANGED <<meta, syncLock, noting, answerRecord>>
    BY <1>1, <1>8 DEF InstallPolicy, locks
  <2>2. /\ s \in Locals /\ s.phase = "doc" /\ s.copy = sync[c].copy
        /\ s.answer = sync[c].answer /\ s.locked = sync[c].locked
    BY <1>1, PhaseOnly DEF SyncPhases
  <2> HIDE DEF s
  <2>3. Alone(c) /\ (s.locked => syncLock' = c) /\ Sound(s, meta', policyFile')
    BY <1>2, <2>1, <2>2 DEF Sound
  <2> QED  BY <1>1, <2>1, <2>2, <2>3, HolderHeld DEF Explained
<1>9. ASSUME NEW c \in Checks, InstallDoc(c) PROVE Held' /\ Explained'
  <2> DEFINE s == [sync[c] EXCEPT !.phase = "record"]
  <2>1. /\ sync[c].phase = "doc" /\ sync' = [sync EXCEPT ![c] = s]
        /\ UNCHANGED <<meta, syncLock, noting, answerRecord, policyFile>>
    BY <1>1, <1>9 DEF InstallDoc, locks
  <2>2. /\ s \in Locals /\ s.phase = "record" /\ s.copy = sync[c].copy
        /\ s.answer = sync[c].answer /\ s.locked = sync[c].locked
    BY <1>1, PhaseOnly DEF SyncPhases
  <2> HIDE DEF s
  <2>3. Alone(c) /\ (s.locked => syncLock' = c) /\ Sound(s, meta', policyFile')
    BY <1>2, <2>1, <2>2 DEF Sound
  <2> QED  BY <1>1, <2>1, <2>2, <2>3, HolderHeld DEF Explained
<1>10. ASSUME NEW c \in Checks, KeepRecord(c) PROVE Held' /\ Explained'
  <2> DEFINE a == sync[c].answer
             l == sync[c].copy
             s == SaveOnly(sync[c], InForce(a, l), TRUE)
  <2>1. /\ sync[c].phase = "record" /\ sync' = [sync EXCEPT ![c] = s]
        /\ answerRecord' = IF a.doc.signed
                           THEN [answer |-> a.doc, policy |-> policyFile, doc |-> docFile]
                           ELSE NoRecord
        /\ UNCHANGED <<meta, syncLock, noting, policyFile>>
    BY <1>1, <1>10 DEF KeepRecord, locks
  <2>2. /\ Alone(c) /\ (sync[c].locked => syncLock = c)
        /\ Onward(meta, l) /\ Admitted(a, l) /\ policyFile = a.doc.rev
        /\ a \in Answers /\ l \in Metas
    BY <1>1, <1>2, <2>1 DEF Sound, Locals
  <2>3. InForce(a, l) \in Metas /\ Onward(meta, InForce(a, l))
    BY <1>1, <2>2, InForceType, OnwardSteps, OnwardTransitive
  <2>4. s \in Locals /\ Sound(s, meta, policyFile) /\ s.locked = sync[c].locked
    BY <1>1, <2>2, <2>3, SaveOnlyType, SaveSound, LockedStays
  <2>5. Explained'  BY <2>1, <2>2 DEF Explained, NoRecord
  <2> HIDE DEF s
  <2> QED  BY <1>1, <2>1, <2>2, <2>4, <2>5, HolderHeld
<1>11. ASSUME NEW c \in Checks, InstallFails(c) PROVE Held' /\ Explained'
  <2> DEFINE m == [sync[c].copy EXCEPT !.latch = @ \/ sync[c].answer.doc.signed]
             s == SaveOnly(sync[c], m, FALSE)
  <2>1. /\ sync[c].phase # "idle" /\ sync' = [sync EXCEPT ![c] = s]
        /\ UNCHANGED <<meta, syncLock, noting, files>>
    BY <1>11 DEF InstallFails, locks
  <2>2. Alone(c) /\ (sync[c].locked => syncLock = c) /\ Onward(meta, sync[c].copy)
    BY <1>2, <2>1 DEF Sound
  <2>3. m \in Metas /\ Onward(meta, m)
    BY <1>1, <2>2 DEF Onward, Locals, Metas, Answers, Docs
  <2>4. s \in Locals /\ Sound(s, meta, policyFile) /\ s.locked = sync[c].locked
    BY <1>1, <2>3, SaveOnlyType, SaveSound, LockedStays
  <2> HIDE DEF s
  <2> QED  BY <1>1, <2>1, <2>2, <2>4, HolderHeld DEF Explained, files
<1>12. ASSUME NEW c \in Checks, DropPolicy(c) \/ DropDoc(c) \/ DropRecord(c)
       PROVE  Held' /\ Explained'
  <2>1. PICK phase \in {"dropDoc", "dropRecord", "save"} :
          sync' = [sync EXCEPT ![c].phase = phase]
    BY <1>12 DEF DropPolicy, DropDoc, DropRecord
  <2>2. /\ sync[c].phase \in {"dropPolicy", "dropDoc", "dropRecord"}
        /\ answerRecord' \in {answerRecord, NoRecord} /\ UNCHANGED <<meta, syncLock, noting>>
    BY <1>12 DEF DropPolicy, DropDoc, DropRecord, locks
  <2> DEFINE s == [sync[c] EXCEPT !.phase = phase]
  <2>3. sync' = [sync EXCEPT ![c] = s]  BY <1>1, <2>1
  <2>4. /\ s \in Locals /\ s.phase = phase /\ s.copy = sync[c].copy
        /\ s.answer = sync[c].answer /\ s.locked = sync[c].locked
    <3>1. phase \in SyncPhases  BY <2>1 DEF SyncPhases
    <3> QED  BY <1>1, <3>1, PhaseOnly
  <2> HIDE DEF s
  <2>5. Alone(c) /\ (s.locked => syncLock' = c) /\ Sound(s, meta', policyFile')
    BY <1>2, <2>1, <2>2, <2>4 DEF Sound
  <2> QED  BY <1>1, <2>2, <2>3, <2>4, <2>5, HolderHeld DEF Explained
<1>13. ASSUME NEW c \in Checks, SaveMeta(c) PROVE Held' /\ Explained'
  <2> DEFINE s == [sync[c] EXCEPT !.phase = "release"]
  <2>1. /\ sync[c].phase = "save" /\ sync' = [sync EXCEPT ![c] = s]
        /\ meta' = sync[c].copy /\ noting = {} /\ UNCHANGED <<syncLock, noting, files>>
    BY <1>1, <1>13 DEF SaveMeta
  <2>2. /\ s \in Locals /\ s.phase = "release" /\ s.copy = meta' /\ s.locked = sync[c].locked
    BY <1>1, <2>1, PhaseOnly DEF SyncPhases
  <2>3. Onward(meta', meta')  BY <1>1, <2>1 DEF Onward, Locals, Metas, Times
  <2> HIDE DEF s
  <2>4. Alone(c) /\ (s.locked => syncLock' = c) /\ Sound(s, meta', policyFile')
    BY <1>2, <2>1, <2>2, <2>3 DEF Sound
  <2> QED  BY <1>1, <2>1, <2>2, <2>4, HolderHeld DEF Explained, files
<1>14. ASSUME NEW c \in Checks, ReleaseLock(c) \/ StopCheck(c) PROVE Held' /\ Explained'
  <2>1. /\ sync[c].phase # "idle" /\ sync' = [sync EXCEPT ![c] = Idle]
        /\ UNCHANGED <<meta, noting, files>>
    BY <1>14 DEF ReleaseLock, StopCheck, locks
  <2>2. Alone(c) /\ Idle.phase = "idle"  BY <1>2, <2>1 DEF Idle
  <2> QED  BY <1>1, <2>1, <2>2, NothingType, HolderHeld DEF Explained, files
<1> QED
  BY <1>3, <1>4, <1>5, <1>6, <1>7, <1>8, <1>9, <1>10, <1>11, <1>12, <1>13, <1>14, <1>15, <1>16
  DEF RulesNext

(* The invariant holds in every state of a computer whose checks have not  *)
(* met without a lock between them.                                        *)
LEMMA RulesInvHolds == RulesSpec => [](~unguarded => RulesInv)
<1>1. RulesInit => RulesInv
  BY RulesInitType DEF RulesInit, RulesInv, Held, Idle, Explained
<1>2. ASSUME RulesTypeOK, ~unguarded => RulesInv, [RulesNext]_rulesVars
      PROVE  (~unguarded => RulesInv)'
  <2> SUFFICES ASSUME ~unguarded' PROVE RulesInv'  OBVIOUS
  <2>1. ~unguarded  BY <1>2, StaysUnguarded
  <2> QED  BY <1>2, <2>1, StepType, StepHeld DEF RulesInv
<1>3. RulesTypeOK /\ (~unguarded => RulesInv) /\ [RulesNext]_rulesVars => (~unguarded => RulesInv)'
  BY <1>2
<1> QED  BY <1>1, <1>3, RulesTypeCorrect, PTL DEF RulesSpec

--------------------------------------------------------------------------
(* What follows.                                                          *)

(* "From then on this computer accepts only signed answers" (managed.ts):  *)
(* no save of a check, whatever came between its early read of the rules   *)
(* state and its late write, takes back the latch or the replay mark,      *)
(* whichever checks took the lock, went stale or ended, until two of them  *)
(* met without it.                                                         *)
THEOREM AcceptedIsKept == RulesSpec => AcceptedStays
<1>1. ASSUME RulesInv, [RulesNext]_rulesVars
      PROVE  KeepsAccepted
  <2>1. meta.issued <= meta.issued  BY <1>1 DEF RulesInv, RulesTypeOK, Metas, Times
  <2>2. CASE meta' = meta  BY <2>1, <2>2 DEF KeepsAccepted
  <2>3. ASSUME NEW c \in Checks, SaveMeta(c)
        PROVE  KeepsAccepted
    <3>1. Onward(meta, sync[c].copy)  BY <1>1, <2>3 DEF SaveMeta, RulesInv, Held, Sound
    <3> QED  BY <2>3, <3>1 DEF SaveMeta, Onward, KeepsAccepted
  <2>4. CASE WriteNote  BY <1>1, <2>1, <2>4 DEF KeepsAccepted, WriteNote, RulesInv, Held
  <2>5. (\E c \in Checks : SaveMeta(c)) \/ WriteNote \/ meta' = meta
    BY <1>1 DEF RulesNext, rulesVars, TimePasses, RemoveStaleLock, NoteMismatch, StartCheck, WorkspaceAnswers,
       OtherAnswers, HandleAnswer, InstallPolicy, InstallDoc, KeepRecord, InstallFails,
       DropPolicy, DropDoc, DropRecord, ReleaseLock, StopCheck
  <2> QED  BY <2>2, <2>3, <2>4, <2>5
<1>2. (~unguarded => RulesInv) /\ [RulesNext]_rulesVars => (~unguarded => KeepsAccepted)
  BY <1>1
<1> QED  BY <1>2, RulesInvHolds, PTL DEF AcceptedStays, RulesSpec

(* "Once any answer from a workspace verifies" (policy-freshness.ts:3-7):  *)
(* while the rules state is latched, only a signed answer replaces or      *)
(* removes a file of the rules, until two checks met without a lock.       *)
THEOREM LatchedMeansSigned == RulesSpec => UnsignedRefusedOnceLatched
<1>1. ASSUME RulesInv, [RulesNext]_rulesVars, meta.latch, NEW c \in Checks, Changes(c)
      PROVE  sync[c].answer.doc.signed
  <2>1. files # files' /\ sync[c].phase # sync'[c].phase  BY <1>1 DEF Changes
  <2>2. PICK d \in Checks : \/ InstallPolicy(d) \/ InstallDoc(d) \/ KeepRecord(d)
                            \/ DropPolicy(d) \/ DropDoc(d) \/ DropRecord(d)
    BY <1>1, <2>1 DEF RulesNext, rulesVars, TimePasses, RemoveStaleLock, NoteMismatch, WriteNote,
       StartCheck, WorkspaceAnswers, OtherAnswers, HandleAnswer, InstallFails, SaveMeta, ReleaseLock, StopCheck,
       files
  <2>3. c = d
    BY <1>1, <2>1, <2>2 DEF RulesInv, RulesTypeOK, InstallPolicy, InstallDoc, KeepRecord,
       DropPolicy, DropDoc, DropRecord
  <2>4. sync[c].phase \in {"policy", "doc", "record", "dropPolicy", "dropDoc", "dropRecord"}
    BY <2>2, <2>3 DEF InstallPolicy, InstallDoc, KeepRecord, DropPolicy, DropDoc, DropRecord
  <2>5. Sound(sync[c], meta, policyFile)  BY <1>1, <2>4 DEF RulesInv, Held
  <2>6. sync[c].copy.latch  BY <1>1, <2>5 DEF Sound, Onward
  <2> QED  BY <1>1, <2>4, <2>5, <2>6 DEF Sound, Admitted, Enforces
<1>2. (~unguarded => RulesInv) /\ [RulesNext]_rulesVars =>
        (~unguarded /\ meta.latch => \A c \in Checks : Changes(c) => sync[c].answer.doc.signed)
  BY <1>1
<1> QED  BY <1>2, RulesInvHolds, PTL DEF UnsignedRefusedOnceLatched, RulesSpec

(* The check on use (policy-trust.ts) believes files only together: when   *)
(* it passes, the compiled policy is that of the document, and the         *)
(* document was signed, after any install or drop that stopped half-way,   *)
(* until two checks met without a lock.                                    *)
THEOREM TrustedIsExplained == RulesSpec => []TrustedMeansExplained
<1>1. (~unguarded => RulesInv) => TrustedMeansExplained
  BY DEF RulesInv, Explained, TrustedMeansExplained, TrustOk
<1> QED  BY <1>1, RulesInvHolds, PTL

--------------------------------------------------------------------------
(* Allowances and what a check finds.                                     *)

\* The documents in play: the computer's, the proxy's, and those a check was answered with.
InPlay == {docFile, oldAnswer.doc} \cup {sync[c].answer.doc : c \in Checks}

\* The allowance was never in a signed document, and no longer will be.
Dry == ~workspace.grant /\ \A d \in InPlay : ~(d.signed /\ d.grant)

\* A document tells the workspace of its time: the allowance, once gone, does not come back, and
\* the workspace, once it signs, goes on signing.
DocSound(d) ==
  /\ d.grant => d.issued <= lastGranted
  /\ d.signed => workspace.signs
  /\ d.rev # 0 /\ ~d.grant => ~workspace.grant /\ (d.signed => lastGranted < d.issued)
  /\ d.rev # 0 /\ ~d.grant /\ ~d.signed => Dry

\* A proof is as old as the document it came with, and for that document's ETag.
AnswerSound(a) ==
  /\ DocSound(a.doc)
  /\ a.proofAt # 0 => a.proofAt = a.doc.issued /\ a.proofEtag = EtagOf(a.doc)

\* Nothing the rules state m still accepts holds the allowance.
Over(m) == ~workspace.grant /\ (lastGranted < m.issued \/ Dry)

\* What the rules state m says.  Its proof may be newer than the allowance and than the newest
\* answer accepted only when the allowance is over.
MetaSound(m) ==
  /\ m.proofAt # 0 => m.latch
  /\ m.etag.rev = m.rev
  /\ m.rev # 0 /\ ~m.etag.grant => Over(m)
  /\ m.proofAt <= lastGranted \/ m.proofAt <= m.issued \/ Over(m)

\* Beside a signed document with the allowance stands no proof from after the allowance, and no
\* ETag without it.
Fits(m) ==
  docFile.signed /\ docFile.grant =>
    m.proofAt <= lastGranted /\ ~(m.rev # 0 /\ ~m.etag.grant)

\* What a check that worked on the workspace's own answer leaves.
Result(s) ==
  s.ok /\ s.answer.genuine =>
    /\ s.answer.doc.rev = 0 => docFile = NoDoc
    /\ s.answer.doc.rev # 0 /\ TrustOk =>
         /\ policyFile = s.answer.doc.rev /\ docFile.rev = s.answer.doc.rev
         /\ docFile.grant = s.answer.doc.grant

\* The workspace's own answer fits what was asked, and comes after the document at hand.
Fresh(s) ==
  s.answer.genuine =>
    /\ s.answer.kind = "noRules" => s.answer.doc.rev = 0
    /\ s.answer.kind \in {"same", "rules"} => s.answer.doc.rev # 0
    /\ s.answer.kind = "same" => EtagOf(s.answer.doc) = s.etag
    /\ s.answer.doc.grant => ~(docFile.rev # 0 /\ ~docFile.grant)

\* What a check at work knows, phase by phase.
AtWork(s) ==
  /\ s.phase \in {"asking", "answered", "policy", "doc", "record"} => s.copy = meta
  /\ s.phase \in {"asking", "answered"} =>
       /\ s.intact /\ answerRecord # NoRecord => TrustOk /\ answerRecord.answer.rev = meta.rev
       /\ s.etag = IF Managed /\ s.intact THEN meta.etag ELSE NoEtag
  /\ s.phase = "answered" => Fresh(s)
  /\ s.phase \in {"policy", "doc", "record"} /\ s.answer.genuine => s.answer.doc.rev # 0
  /\ s.phase = "record" => docFile = s.answer.doc
  /\ s.phase \in {"dropPolicy", "dropDoc", "dropRecord"} /\ s.ok /\ s.answer.genuine =>
       s.answer.doc.rev = 0
  /\ s.phase = "dropRecord" => docFile = NoDoc
  /\ s.phase \in {"save", "release"} => Result(s)
  /\ s.phase = "save" => Fits(s.copy)

GrantInv ==
  /\ lastGranted <= rulesClock /\ (lastGranted = rulesClock <=> Grants(workspace))
  /\ DocSound(docFile) /\ AnswerSound(oldAnswer) /\ ~oldAnswer.genuine
  /\ MetaSound(meta) /\ Fits(meta)
  /\ \A c \in Checks : /\ AnswerSound(sync[c].answer) /\ MetaSound(sync[c].copy)
                       /\ AtWork(sync[c])

(* The parts of a document, an answer and a rules state.                   *)
LEMMA PartsType ==
  /\ \A d \in Docs : d.rev \in Nat /\ d.issued \in Nat /\ d.grant \in BOOLEAN /\ d.signed \in BOOLEAN
  /\ \A a \in Answers : a.doc \in Docs /\ a.proofAt \in Nat /\ a.proofEtag \in Etags
  /\ \A m \in Metas : /\ m.rev \in Revs /\ m.rev \in Nat /\ m.issued \in Nat /\ m.proofAt \in Nat
                      /\ m.etag \in Etags /\ m.latch \in BOOLEAN
  /\ \A s \in Locals : s.answer \in Answers /\ s.copy \in Metas
  /\ RulesTypeOK => lastGranted \in Nat /\ rulesClock \in Nat
BY DEF Docs, Answers, Metas, Locals, Revs, Times, RulesTypeOK

(* What holds of a document, an answer or a rules state goes on holding    *)
(* while the allowance does not come back and signing goes on.             *)
LEMMA Lasts ==
  ASSUME RulesTypeOK, RulesTypeOK', lastGranted <= lastGranted',
         workspace.signs => workspace'.signs,
         ~workspace.grant => ~workspace'.grant /\ lastGranted' = lastGranted,
         Dry => Dry'
  PROVE  /\ \A d \in Docs : DocSound(d) => DocSound(d)'
         /\ \A a \in Answers : AnswerSound(a) => AnswerSound(a)'
         /\ \A m \in Metas : MetaSound(m) => MetaSound(m)'
<1>1. lastGranted \in Nat /\ lastGranted' \in Nat  BY PartsType DEF RulesTypeOK
<1>2. ASSUME NEW d \in Docs, DocSound(d) PROVE DocSound(d)'
  BY <1>1, <1>2, PartsType DEF DocSound
<1>3. ASSUME NEW a \in Answers, AnswerSound(a) PROVE AnswerSound(a)'
  BY <1>2, <1>3, PartsType DEF AnswerSound
<1>4. ASSUME NEW m \in Metas, Over(m) PROVE Over(m)'
  BY <1>4 DEF Over
<1>5. ASSUME NEW m \in Metas, MetaSound(m) PROVE MetaSound(m)'
  BY <1>1, <1>4, <1>5, PartsType DEF MetaSound
<1> QED  BY <1>2, <1>3, <1>5

(* A new computer, and a check that has not asked, are sound.              *)
LEMMA NothingSound ==
  ASSUME RulesTypeOK
  PROVE  /\ DocSound(NoDoc)
         /\ \A k : AnswerSound([NoAnswer EXCEPT !.kind = k])
         /\ AnswerSound(NoAnswer) /\ MetaSound(NoMeta) /\ AtWork(Idle)
<1>1. lastGranted \in Nat  BY PartsType
<1>2. DocSound(NoDoc)  BY DEF DocSound, NoDoc
<1>3. AnswerSound(NoAnswer) /\ \A k : AnswerSound([NoAnswer EXCEPT !.kind = k])
  BY <1>2 DEF AnswerSound, NoAnswer
<1>4. MetaSound(NoMeta)  BY <1>1 DEF MetaSound, NoMeta, NoEtag
<1>5. AtWork(Idle)  BY DEF AtWork, Idle
<1> QED  BY <1>2, <1>3, <1>4, <1>5

(* A freshness proof of a sound answer for the ETag of a sound rules       *)
(* state, for the document it came with, or for no rules.                  *)
LEMMA ProofSound ==
  ASSUME RulesTypeOK, NEW a \in Answers, NEW m \in Metas, NEW etag \in Etags,
         AnswerSound(a), MetaSound(m),
         a.proofAt <= m.issued \/ (etag = m.etag /\ m.rev # 0)
  PROVE  MetaSound(TakeFreshness(a, m, etag))
<1>1. CASE ~ProofHolds(a, m, etag)  BY <1>1 DEF TakeFreshness
<1>2. CASE ProofHolds(a, m, etag)
  <2> PICK n : n = TakeFreshness(a, m, etag)  OBVIOUS
  <2>1. /\ n.proofAt = a.proofAt /\ n.latch = TRUE /\ n.issued = m.issued
        /\ n.rev = m.rev /\ n.etag = m.etag
    BY <1>2 DEF TakeFreshness, Metas
  <2>2. lastGranted \in Nat /\ a.proofAt \in Nat  BY PartsType
  <2>3. a.proofAt # 0 /\ a.proofEtag = etag /\ a.proofAt = a.doc.issued /\ etag = EtagOf(a.doc)
    BY <1>2 DEF ProofHolds, AnswerSound
  <2>4. a.doc.grant => a.proofAt <= lastGranted  BY <2>3 DEF AnswerSound, DocSound
  <2>5. etag.grant = a.doc.grant  BY <2>3 DEF EtagOf
  <2>6. n.proofAt <= lastGranted \/ n.proofAt <= n.issued \/ Over(n)
    <3>1. CASE a.proofAt <= m.issued  BY <2>1, <3>1
    <3>2. CASE etag = m.etag /\ m.rev # 0
      <4>1. ~m.etag.grant => Over(m)  BY <3>2 DEF MetaSound
      <4> QED  BY <2>1, <2>4, <2>5, <3>2, <4>1 DEF Over
    <3> QED  BY <3>1, <3>2
  <2>7. MetaSound(n)  BY <2>1, <2>6 DEF MetaSound, Over
  <2> QED  BY <2>7
<1> QED  BY <1>1, <1>2

\* The rules state m that names another version.
Names(m, r, etag) == [m EXCEPT !.rev = r, !.etag = etag]

(* A rules state of the version r, once a verified answer is accepted.     *)
LEMMA AcceptSound ==
  ASSUME RulesTypeOK, NEW a \in Answers, NEW m \in Metas, NEW r \in Revs, NEW etag \in Etags,
         AnswerSound(a), MetaSound(m), a.doc.signed => Verified(a, m), etag.rev = r,
         r # 0 => r = a.doc.rev /\ etag.grant = a.doc.grant
  PROVE  \E n \in Metas : /\ n = Accept(a, Names(m, r, etag))
                          /\ MetaSound(n) /\ (a.doc.signed => n.issued = a.doc.issued)
                          /\ n.rev = r /\ n.etag = etag /\ n.proofAt = m.proofAt
<1> PICK named : named = Names(m, r, etag)  OBVIOUS
<1> PICK n : n = Accept(a, named)  OBVIOUS
<1>1. /\ named \in Metas /\ named.rev = r /\ named.etag = etag /\ named.issued = m.issued
      /\ named.proofAt = m.proofAt /\ named.latch = m.latch
  BY DEF Metas, Names
<1>2. /\ n \in Metas /\ n.rev = r /\ n.etag = etag /\ n.proofAt = m.proofAt
      /\ n.latch = (m.latch \/ a.doc.signed)
      /\ n.issued = IF a.doc.signed THEN a.doc.issued ELSE m.issued
  <2>1. n \in Metas  BY <1>1, AcceptType
  <2>2. CASE a.doc.signed  BY <1>1, <2>1, <2>2 DEF Accept, Metas
  <2>3. CASE ~a.doc.signed  BY <1>1, <2>1, <2>3, PartsType DEF Accept
  <2> QED  BY <2>2, <2>3
<1>3. /\ lastGranted \in Nat /\ m.proofAt \in Nat /\ m.issued \in Nat /\ a.doc.issued \in Nat
      /\ a.doc \in Docs
  BY PartsType
<1>4. m.issued <= n.issued  BY <1>2, <1>3 DEF Verified
<1>5. Over(m) => Over(n)  BY <1>2, <1>3, <1>4 DEF Over
<1>6. r # 0 /\ ~etag.grant => Over(n)
  BY <1>2 DEF AnswerSound, DocSound, Over
<1>7. MetaSound(n)
  <2>1. n.proofAt # 0 => n.latch  BY <1>2 DEF MetaSound
  <2>2. n.etag.rev = n.rev /\ (n.rev # 0 /\ ~n.etag.grant => Over(n))  BY <1>2, <1>6
  <2>3. n.issued \in Nat  BY <1>2, <1>3
  <2>4. n.proofAt <= lastGranted \/ n.proofAt <= n.issued \/ Over(n)
    BY <1>2, <1>3, <1>4, <1>5, <2>3 DEF MetaSound
  <2> QED  BY <2>1, <2>2, <2>4 DEF MetaSound
<1> QED  BY <1>2, <1>7

(* What an answer may do to the rules state leaves it sound.               *)
LEMMA MetaSteps ==
  ASSUME RulesTypeOK, NEW a \in Answers, NEW m \in Metas, AnswerSound(a), MetaSound(m)
  PROVE  /\ Admitted(a, m) => MetaSound(InForce(a, m)) /\ MetaSound(OwnRules(a, m))
         /\ m.rev # 0 => MetaSound(TakeFreshness(a, m, m.etag))
         /\ MetaSound([m EXCEPT !.rev = 0, !.etag = NoEtag])
<1>1. /\ a.doc \in Docs /\ a.doc.rev \in Revs /\ EtagOf(a.doc) \in Etags /\ m.etag \in Etags
      /\ 0 \in Revs /\ NoEtag \in Etags /\ NoEtag.rev = 0
      /\ EtagOf(a.doc).rev = a.doc.rev /\ EtagOf(a.doc).grant = a.doc.grant
  BY PartsType, EtagOfType, NothingType, RulesAssumption DEF Docs, Revs, NoEtag, EtagOf
<1>2. Admitted(a, m) => (a.doc.signed => Verified(a, m))  BY DEF Admitted
<1>3. a.doc.signed => a.proofAt <= a.doc.issued
  BY <1>1, PartsType DEF AnswerSound
<1>4. Admitted(a, m) => MetaSound(InForce(a, m))
  <2> SUFFICES ASSUME Admitted(a, m) PROVE MetaSound(InForce(a, m))  OBVIOUS
  <2> PICK r \in Revs, etag \in Etags : r = a.doc.rev /\ etag = EtagOf(a.doc)  BY <1>1
  <2>1. etag.rev = r /\ etag.grant = a.doc.grant  BY <1>1
  <2> PICK n \in Metas : /\ n = Accept(a, Names(m, r, etag))
                         /\ MetaSound(n) /\ (a.doc.signed => n.issued = a.doc.issued)
    BY <1>2, <2>1, AcceptSound
  <2>2. CASE a.doc.signed
    <3>1. a.proofAt <= n.issued  BY <1>3, <2>2
    <3>2. MetaSound(TakeFreshness(a, n, etag))  BY <3>1, ProofSound
    <3>3. InForce(a, m) = TakeFreshness(a, n, etag)  BY <2>2 DEF InForce, Names
    <3> QED  BY <3>2, <3>3
  <2>3. CASE ~a.doc.signed
    <3>1. InForce(a, m) = n  BY <2>3 DEF InForce, Names
    <3> QED  BY <3>1
  <2> QED  BY <2>2, <2>3
<1>5. Admitted(a, m) => MetaSound(OwnRules(a, m))
  <2> SUFFICES ASSUME Admitted(a, m) PROVE MetaSound(OwnRules(a, m))  OBVIOUS
  <2> PICK r \in Revs, etag \in Etags : r = 0 /\ etag = NoEtag  BY <1>1
  <2>1. etag.rev = r  BY <1>1
  <2> PICK n \in Metas : /\ n = Accept(a, Names(m, r, etag))
                         /\ MetaSound(n) /\ (a.doc.signed => n.issued = a.doc.issued)
    BY <1>2, <2>1, AcceptSound
  <2>2. CASE a.doc.signed /\ a.kind = "noRules"
    <3>1. a.proofAt <= n.issued  BY <1>3, <2>2
    <3>2. MetaSound(TakeFreshness(a, n, etag))  BY <3>1, ProofSound
    <3>3. OwnRules(a, m) = TakeFreshness(a, n, etag)  BY <2>2 DEF OwnRules, Names
    <3> QED  BY <3>2, <3>3
  <2>3. CASE ~(a.doc.signed /\ a.kind = "noRules")
    <3>1. OwnRules(a, m) = n  BY <2>3 DEF OwnRules, Names
    <3> QED  BY <3>1
  <2> QED  BY <2>2, <2>3
<1>6. m.rev # 0 => MetaSound(TakeFreshness(a, m, m.etag))  BY <1>1, ProofSound
<1>7. MetaSound([m EXCEPT !.rev = 0, !.etag = NoEtag])
  <2> PICK n : n = [m EXCEPT !.rev = 0, !.etag = NoEtag]  OBVIOUS
  <2>1. /\ n.rev = 0 /\ n.etag.rev = 0 /\ n.proofAt = m.proofAt /\ n.issued = m.issued
        /\ n.latch = m.latch
    BY DEF Metas, NoEtag
  <2>2. MetaSound(n)  BY <2>1 DEF MetaSound, Over
  <2> QED  BY <2>2
<1> QED  BY <1>4, <1>5, <1>6, <1>7

(* A rules state that fits the documents at hand, and one that only drops  *)
(* the version, or takes a proof for the ETag it holds.                    *)
LEMMA FitsSteps ==
  ASSUME RulesTypeOK, NEW a \in Answers, NEW m \in Metas, AnswerSound(a), MetaSound(m), Fits(m)
  PROVE  /\ Fits([m EXCEPT !.rev = 0, !.etag = NoEtag])
         /\ m.rev # 0 => Fits(TakeFreshness(a, m, m.etag))
         /\ docFile.grant = a.doc.grant => Fits(InForce(a, m))
<1>1. lastGranted \in Nat /\ a.proofAt \in Nat  BY PartsType
<1>2. Fits([m EXCEPT !.rev = 0, !.etag = NoEtag])
  <2> PICK n : n = [m EXCEPT !.rev = 0, !.etag = NoEtag]  OBVIOUS
  <2>1. n.rev = 0 /\ n.proofAt = m.proofAt  BY DEF Metas
  <2>2. Fits(n)  BY <2>1 DEF Fits
  <2> QED  BY <2>2
<1>3. ASSUME NEW n \in Metas, NEW etag \in Etags, Fits(n), etag.grant \/ docFile.grant = a.doc.grant
      PROVE  Fits(TakeFreshness(a, n, etag))
  <2>1. CASE ~ProofHolds(a, n, etag)  BY <1>3, <2>1 DEF TakeFreshness
  <2>2. CASE ProofHolds(a, n, etag)
    <3> PICK t : t = TakeFreshness(a, n, etag)  OBVIOUS
    <3>1. t.proofAt = a.proofAt /\ t.rev = n.rev /\ t.etag = n.etag
      BY <2>2 DEF TakeFreshness, Metas
    <3>2. a.proofAt = a.doc.issued /\ etag.grant = a.doc.grant
      BY <2>2 DEF ProofHolds, AnswerSound, EtagOf
    <3>3. docFile.grant => a.doc.grant  BY <1>3, <3>2
    <3>4. docFile.grant => a.proofAt <= lastGranted  BY <3>2, <3>3 DEF AnswerSound, DocSound
    <3>5. Fits(t)  BY <1>3, <3>1, <3>4 DEF Fits
    <3> QED  BY <3>5
  <2> QED  BY <2>1, <2>2
<1>4. m.rev # 0 => Fits(TakeFreshness(a, m, m.etag))
  <2> SUFFICES ASSUME m.rev # 0 PROVE Fits(TakeFreshness(a, m, m.etag))  OBVIOUS
  <2>1. m.etag \in Etags  BY PartsType
  <2>2. CASE m.etag.grant  BY <1>3, <2>1, <2>2
  <2>3. CASE ~m.etag.grant
    <3>1. ~(docFile.signed /\ docFile.grant)  BY <2>3 DEF Fits
    <3> QED  BY <3>1 DEF Fits
  <2> QED  BY <2>2, <2>3
<1>5. docFile.grant = a.doc.grant => Fits(InForce(a, m))
  <2> SUFFICES ASSUME docFile.grant = a.doc.grant PROVE Fits(InForce(a, m))  OBVIOUS
  <2> PICK r \in Revs, etag \in Etags : r = a.doc.rev /\ etag = EtagOf(a.doc)
    BY PartsType, EtagOfType DEF Docs
  <2>1. etag.grant = a.doc.grant  BY DEF EtagOf
  <2> PICK named : named = Names(m, r, etag)  OBVIOUS
  <2>2. /\ named \in Metas /\ named.rev = r /\ named.etag = etag /\ named.proofAt = m.proofAt
    BY DEF Metas, Names
  <2> PICK n : n = Accept(a, named)  OBVIOUS
  <2>3. n \in Metas /\ n.rev = r /\ n.etag = etag /\ n.proofAt = m.proofAt
    <3>1. n \in Metas  BY <2>2, AcceptType
    <3>2. CASE a.doc.signed  BY <2>2, <3>1, <3>2 DEF Accept, Metas
    <3>3. CASE ~a.doc.signed  BY <2>2, <3>1, <3>3 DEF Accept
    <3> QED  BY <3>2, <3>3
  <2>4. Fits(n)  BY <2>1, <2>3 DEF Fits
  <2>5. Fits(TakeFreshness(a, n, etag))  BY <1>3, <2>1, <2>3, <2>4
  <2>6. InForce(a, m) = IF a.doc.signed THEN TakeFreshness(a, n, etag) ELSE n
    BY DEF InForce, Names
  <2> QED  BY <2>4, <2>5, <2>6
<1> QED  BY <1>2, <1>4, <1>5

(* What holds once a check has only to write the rules state n.            *)
LEMMA SaveGrant ==
  ASSUME NEW s \in Locals, NEW n \in Metas, NEW ok \in BOOLEAN, MetaSound(n), AnswerSound(s.answer)
  PROVE  LET t == SaveOnly(s, n, ok)
         IN  /\ t.answer = s.answer /\ t.copy = n
             /\ Fits(n) /\ (ok => Result([s EXCEPT !.ok = TRUE])) => AtWork(t)
<1> PICK t : t = SaveOnly(s, n, ok)  OBVIOUS
<1>1. t.phase = "save" /\ t.copy = n /\ t.answer = s.answer /\ t.ok = ok
  BY DEF SaveOnly, Idle
<1>2. [s EXCEPT !.ok = TRUE].answer = s.answer /\ [s EXCEPT !.ok = TRUE].ok = TRUE
  BY DEF Locals
<1>3. ASSUME Fits(n), ok => Result([s EXCEPT !.ok = TRUE]) PROVE AtWork(t)
  <2>1. Result(t)  BY <1>1, <1>2, <1>3 DEF Result
  <2> QED  BY <1>1, <1>3, <2>1 DEF AtWork
<1> QED  BY <1>1, <1>3

(* What holds once a check goes back to the computer's own rules.          *)
LEMMA DropGrant ==
  ASSUME NEW s \in Locals, NEW n \in Metas, NEW ok \in BOOLEAN, MetaSound(n), AnswerSound(s.answer),
         ok /\ s.answer.genuine => s.answer.doc.rev = 0
  PROVE  LET t == Drop(s, n, ok)
         IN  t.answer = s.answer /\ t.copy = n /\ AtWork(t)
<1> PICK t : t = Drop(s, n, ok)  OBVIOUS
<1>1. /\ t.phase = (IF Managed THEN "dropPolicy" ELSE "save") /\ t.copy = n
      /\ t.answer = s.answer /\ t.ok = ok
  BY DEF Drop, SaveOnly, Idle
<1>2. CASE Managed  BY <1>1, <1>2 DEF AtWork
<1>3. CASE ~Managed
  <2>1. docFile = NoDoc /\ ~docFile.grant  BY <1>3 DEF Managed, NoDoc
  <2>2. Fits(n) /\ Result(t)  BY <1>1, <2>1 DEF Fits, Result
  <2> QED  BY <1>1, <1>3, <2>2 DEF AtWork
<1> QED  BY <1>1, <1>2, <1>3

(* Files found intact are those of the version the rules state names, and  *)
(* one that passes the check on use was signed.                            *)
LEMMA IntactMeans ==
  ASSUME Explained, NEW s \in Locals, AtWork(s), s.phase \in {"asking", "answered"}, s.intact, TrustOk
  PROVE  docFile.rev = meta.rev /\ policyFile = meta.rev /\ docFile.signed
BY DEF AtWork, TrustOk, Explained

(* What a check does with its answer keeps what it knows.                  *)
LEMMA HandlersGrant ==
  ASSUME RulesTypeOK, Explained, MetaSound(meta), Fits(meta),
         NEW s \in Locals, s.phase = "answered", AnswerSound(s.answer), AtWork(s),
         NEW t, \/ t = OnGone(s)
                \/ t = OnNoRules(s) /\ s.answer.kind = "noRules"
                \/ t = OnSame(s) /\ s.answer.kind = "same"
                \/ t = OnRules(s) /\ s.answer.kind = "rules"
                \/ t = SaveOnly(s, s.copy, FALSE)
  PROVE  AtWork(t) /\ t.answer = s.answer /\ MetaSound(t.copy)
<1> PICK a : a = s.answer  OBVIOUS
<1>1. a \in Answers /\ AnswerSound(a) /\ s.copy = meta /\ meta \in Metas /\ Fresh(s)
  BY PartsType DEF AtWork, RulesTypeOK
<1>2. /\ Admitted(a, meta) => MetaSound(InForce(a, meta)) /\ MetaSound(OwnRules(a, meta))
      /\ meta.rev # 0 => MetaSound(TakeFreshness(a, meta, meta.etag))
      /\ MetaSound([meta EXCEPT !.rev = 0, !.etag = NoEtag])
  BY <1>1, MetaSteps
<1>3. /\ Fits([meta EXCEPT !.rev = 0, !.etag = NoEtag])
      /\ meta.rev # 0 => Fits(TakeFreshness(a, meta, meta.etag))
      /\ docFile.grant = a.doc.grant => Fits(InForce(a, meta))
  BY <1>1, FitsSteps
<1>4. /\ InForce(a, meta) \in Metas /\ OwnRules(a, meta) \in Metas
      /\ TakeFreshness(a, meta, meta.etag) \in Metas
      /\ [meta EXCEPT !.rev = 0, !.etag = NoEtag] \in Metas
  <2>1. 0 \in Revs /\ meta.etag \in Etags  BY <1>1, RulesAssumption, PartsType DEF Revs
  <2>2. [meta EXCEPT !.rev = 0, !.etag = NoEtag] \in Metas  BY <1>1, <2>1, NothingType DEF Metas
  <2> QED  BY <1>1, <2>1, <2>2, InForceType, OwnRulesType, TakeFreshnessType
<1> DEFINE Good(u) == AtWork(u) /\ u.answer = s.answer /\ MetaSound(u.copy)
<1>5. Good(SaveOnly(s, meta, FALSE))  BY <1>1, SaveGrant
<1>6. Good(OnGone(s))
  <2>1. CASE ~RevocationHolds(a, meta) /\ Enforces(meta) /\ Managed
    <3>1. OnGone(s) = SaveOnly(s, meta, FALSE)  BY <1>1, <2>1 DEF OnGone
    <3> QED  BY <1>5, <3>1
  <2>2. CASE RevocationHolds(a, meta)
    <3> PICK n : n = OwnRules(a, meta)  OBVIOUS
    <3> PICK u : u = Drop(s, n, FALSE)  OBVIOUS
    <3>1. OnGone(s) = u  BY <1>1, <2>2 DEF OnGone
    <3>2. Admitted(a, meta)  BY <2>2 DEF RevocationHolds, Verified, Admitted
    <3>3. n \in Metas /\ MetaSound(n)  BY <1>2, <1>4, <3>2
    <3>4. u.answer = s.answer /\ u.copy = n /\ AtWork(u)  BY <3>3, DropGrant
    <3> QED  BY <3>1, <3>3, <3>4
  <2>3. CASE ~RevocationHolds(a, meta) /\ ~(Enforces(meta) /\ Managed)
    <3> PICK n : n = [meta EXCEPT !.rev = 0, !.etag = NoEtag]  OBVIOUS
    <3> PICK u : u = Drop(s, n, FALSE)  OBVIOUS
    <3>1. OnGone(s) = u  BY <1>1, <2>3 DEF OnGone
    <3>2. n \in Metas /\ MetaSound(n)  BY <1>2, <1>4
    <3>3. u.answer = s.answer /\ u.copy = n /\ AtWork(u)  BY <3>2, DropGrant
    <3> QED  BY <3>1, <3>2, <3>3
  <2> QED  BY <2>1, <2>2, <2>3
<1>7. ASSUME a.kind = "noRules" PROVE Good(OnNoRules(s))
  <2>1. CASE Admitted(a, meta)
    <3> PICK n : n = OwnRules(a, meta)  OBVIOUS
    <3> PICK u : u = Drop(s, n, TRUE)  OBVIOUS
    <3>1. OnNoRules(s) = u  BY <1>1, <2>1 DEF OnNoRules
    <3>2. n \in Metas /\ MetaSound(n)  BY <1>2, <1>4, <2>1
    <3>3. s.answer.genuine => s.answer.doc.rev = 0  BY <1>1, <1>7 DEF Fresh
    <3>4. u.answer = s.answer /\ u.copy = n /\ AtWork(u)  BY <3>2, <3>3, DropGrant
    <3> QED  BY <3>1, <3>2, <3>4
  <2>2. CASE ~Admitted(a, meta)
    <3>1. OnNoRules(s) = SaveOnly(s, meta, FALSE)  BY <1>1, <2>2 DEF OnNoRules
    <3> QED  BY <1>5, <3>1
  <2> QED  BY <2>1, <2>2
<1>8. ASSUME a.kind = "same" PROVE Good(OnSame(s))
  <2>1. CASE Managed /\ meta.rev # 0
    <3> PICK ok \in BOOLEAN : ok = (a.proofAt = 0 \/ ProofHolds(a, meta, meta.etag))
      BY DEF ProofHolds
    <3> PICK n : n = TakeFreshness(a, meta, meta.etag)  OBVIOUS
    <3> PICK u : u = SaveOnly(s, n, ok)  OBVIOUS
    <3>1. OnSame(s) = u  BY <1>1, <2>1 DEF OnSame
    <3>2. n \in Metas /\ MetaSound(n) /\ Fits(n)  BY <1>2, <1>3, <1>4, <2>1
    <3>3. Result([s EXCEPT !.ok = TRUE])
      <4> SUFFICES ASSUME a.genuine
                   PROVE  /\ a.doc.rev = 0 => docFile = NoDoc
                          /\ a.doc.rev # 0 /\ TrustOk =>
                               /\ policyFile = a.doc.rev /\ docFile.rev = a.doc.rev
                               /\ docFile.grant = a.doc.grant
        BY DEF Result, Locals
      <4>1. a.doc.rev # 0 /\ EtagOf(a.doc) = s.etag  BY <1>1, <1>8 DEF Fresh
      <4>2. s.etag.rev # 0  BY <4>1 DEF EtagOf
      <4>3. s.intact /\ s.etag = meta.etag  BY <4>2 DEF AtWork, NoEtag
      <4>4. meta.rev = a.doc.rev /\ meta.etag.grant = a.doc.grant
        BY <4>1, <4>3 DEF MetaSound, EtagOf
      <4>5. ASSUME TrustOk
            PROVE  /\ policyFile = a.doc.rev /\ docFile.rev = a.doc.rev
                   /\ docFile.grant = a.doc.grant
        <5>1. docFile.rev = meta.rev /\ policyFile = meta.rev /\ docFile.signed
          BY <4>3, <4>5, IntactMeans
        <5>2. a.doc.grant => docFile.grant  BY <1>1, <4>1, <4>4, <5>1 DEF Fresh
        <5>3. ~a.doc.grant => ~docFile.grant  BY <4>1, <4>4, <5>1 DEF Fits
        <5>4. a.doc.grant \in BOOLEAN /\ docFile.grant \in BOOLEAN
          BY <1>1, PartsType DEF RulesTypeOK
        <5> QED  BY <4>4, <5>1, <5>2, <5>3, <5>4
      <4> QED  BY <4>1, <4>5
    <3>4. u.answer = s.answer /\ u.copy = n /\ AtWork(u)  BY <3>2, <3>3, SaveGrant
    <3> QED  BY <3>1, <3>2, <3>4
  <2>2. CASE ~(Managed /\ meta.rev # 0)
    <3>1. OnSame(s) = SaveOnly(s, meta, FALSE)  BY <1>1, <2>2 DEF OnSame
    <3> QED  BY <1>5, <3>1
  <2> QED  BY <2>1, <2>2
<1>9. ASSUME a.kind = "rules" PROVE Good(OnRules(s))
  <2>1. CASE /\ OnRules(s) = SaveOnly(s, InForce(a, meta), TRUE) /\ Admitted(a, meta)
             /\ s.intact /\ a.doc.rev = meta.rev /\ ~Switched(a)
    <3> PICK n : n = InForce(a, meta)  OBVIOUS
    <3>1. docFile.grant = a.doc.grant  BY <2>1 DEF Switched
    <3>2. n \in Metas /\ MetaSound(n) /\ Fits(n)  BY <1>2, <1>3, <1>4, <2>1, <3>1
    <3>3. Result([s EXCEPT !.ok = TRUE])
      <4>1. TrustOk => docFile.rev = meta.rev /\ policyFile = meta.rev  BY <2>1, IntactMeans
      <4>2. a.genuine => a.doc.rev # 0  BY <1>1, <1>9 DEF Fresh
      <4> QED  BY <2>1, <3>1, <4>1, <4>2 DEF Result, Locals
    <3> PICK u : u = SaveOnly(s, n, TRUE)  OBVIOUS
    <3>4. u.answer = s.answer /\ u.copy = n /\ AtWork(u)  BY <3>2, <3>3, SaveGrant
    <3> QED  BY <2>1, <3>2, <3>4
  <2>2. CASE OnRules(s) = SaveOnly(s, meta, FALSE)  BY <1>5, <2>2
  <2>3. CASE OnRules(s) = [s EXCEPT !.phase = "policy"]
    <3> PICK u : u = [s EXCEPT !.phase = "policy"]  OBVIOUS
    <3>1. u.phase = "policy" /\ u.copy = s.copy /\ u.answer = s.answer  BY DEF Locals
    <3>2. a.genuine => a.doc.rev # 0  BY <1>1, <1>9 DEF Fresh
    <3>3. AtWork(u)  BY <1>1, <3>1, <3>2 DEF AtWork
    <3> QED  BY <1>1, <2>3, <3>1, <3>3
  <2> QED  BY <1>1, <2>1, <2>2, <2>3 DEF OnRules
<1> QED  BY <1>1, <1>5, <1>6, <1>7, <1>8, <1>9

(* A step of the one check at work, which leaves the workspace alone:      *)
(* every other check is idle.                                              *)
LEMMA CheckGrant ==
  ASSUME RulesInv, GrantInv, RulesTypeOK', NEW c \in Checks, NEW s \in Locals,
         Alone(c), sync' = [sync EXCEPT ![c] = s], UNCHANGED outside, Dry => Dry',
         NEW file \in Docs, docFile' = file, DocSound(file)',
         NEW old \in Answers, oldAnswer' = old, AnswerSound(old)', ~old.genuine,
         NEW m \in Metas, meta' = m, MetaSound(m)', Fits(m)',
         AnswerSound(s.answer)', MetaSound(s.copy)', AtWork(s)'
  PROVE  GrantInv'
<1>1. RulesTypeOK /\ Held /\ lastGranted \in Nat  BY PartsType DEF RulesInv
<1>0. ASSUME NEW d \in Checks, NEW l \in Locals, sync'[d] = l,
             AnswerSound(l.answer)', MetaSound(l.copy)', AtWork(l)'
      PROVE  AnswerSound(sync[d].answer)' /\ MetaSound(sync[d].copy)' /\ AtWork(sync[d])'
  <2>1. AnswerSound(sync[d].answer)'  BY <1>0 DEF AnswerSound, DocSound
  <2>2. MetaSound(sync[d].copy)'  BY <1>0 DEF MetaSound, Over
  <2>3. AtWork(sync[d])'  BY <1>0 DEF AtWork, Fresh, Result, Fits
  <2> QED  BY <2>1, <2>2, <2>3
<1>2. ASSUME NEW d \in Checks
      PROVE  AnswerSound(sync[d].answer)' /\ MetaSound(sync[d].copy)' /\ AtWork(sync[d])'
  <2>1. CASE d = c
    <3>1. sync'[d] = s  BY <1>1, <2>1 DEF RulesTypeOK
    <3> QED  BY <3>1, <1>0
  <2>2. CASE d # c
    <3> PICK l \in Locals : l = sync[d]  BY <1>1 DEF RulesTypeOK, Locals
    <3>1. sync'[d] = l  BY <1>1, <2>2 DEF RulesTypeOK
    <3>2. l.phase = "idle"  BY <2>2 DEF Alone
    <3>3. AnswerSound(l.answer)' /\ MetaSound(l.copy)'
      <4>1. AnswerSound(l.answer) /\ MetaSound(l.copy)  BY DEF GrantInv
      <4>2. /\ lastGranted <= lastGranted' /\ (workspace.signs => workspace'.signs)
            /\ ~workspace.grant => ~workspace'.grant /\ lastGranted' = lastGranted
        BY <1>1 DEF outside
      <4>3. l.answer \in Answers /\ l.copy \in Metas  BY PartsType
      <4> QED  BY <1>1, <4>1, <4>2, <4>3, Lasts
    <3>4. AtWork(l)'  BY <3>2 DEF AtWork
    <3> QED  BY <3>1, <3>3, <3>4, <1>0
  <2> QED  BY <2>1, <2>2
<1>3. lastGranted' <= rulesClock' /\ (lastGranted' = rulesClock' <=> Grants(workspace)')
  BY DEF GrantInv, outside, Grants
<1>4. DocSound(docFile)'  BY DEF DocSound
<1>5. AnswerSound(oldAnswer)' /\ ~oldAnswer'.genuine  BY DEF AnswerSound, DocSound
<1>6. MetaSound(meta)' /\ Fits(meta)'  BY DEF MetaSound, Over, Fits
<1> QED  BY <1>2, <1>3, <1>4, <1>5, <1>6 DEF GrantInv

(* The same, when the document, the proxy's copy and the rules state stay, *)
(* and the check's answer is none, or was in play.                         *)
LEMMA QuietGrant ==
  ASSUME RulesInv, GrantInv, RulesTypeOK', NEW c \in Checks, NEW s \in Locals,
         Alone(c), sync' = [sync EXCEPT ![c] = s],
         UNCHANGED <<outside, docFile, oldAnswer, meta>>,
         ~s.answer.doc.grant \/ s.answer.doc \in InPlay,
         AnswerSound(s.answer), MetaSound(s.copy), AtWork(s)'
  PROVE  GrantInv'
<1>1. RulesTypeOK /\ lastGranted \in Nat  BY PartsType DEF RulesInv
<1>2. Dry => Dry'
  <2> SUFFICES ASSUME Dry, NEW d \in InPlay' PROVE ~(d.signed /\ d.grant)
    BY DEF Dry, outside
  <2>1. d \in InPlay \/ d = s.answer.doc  BY <1>1 DEF InPlay, RulesTypeOK
  <2> QED  BY <2>1 DEF Dry
<1>3. /\ lastGranted <= lastGranted' /\ (workspace.signs => workspace'.signs)
      /\ ~workspace.grant => ~workspace'.grant /\ lastGranted' = lastGranted
  BY <1>1 DEF outside
<1> PICK file \in Docs : file = docFile  BY <1>1 DEF RulesTypeOK
<1> PICK old \in Answers : old = oldAnswer  BY <1>1 DEF RulesTypeOK
<1> PICK m \in Metas : m = meta  BY <1>1 DEF RulesTypeOK
<1>4. s.answer \in Answers /\ s.copy \in Metas  BY PartsType
<1>5. /\ DocSound(file)' /\ AnswerSound(old)' /\ MetaSound(m)'
      /\ AnswerSound(s.answer)' /\ MetaSound(s.copy)'
  BY <1>1, <1>2, <1>3, <1>4, Lasts DEF GrantInv
<1>6. ~old.genuine /\ Fits(m)'  BY DEF GrantInv, Fits, outside
<1>7. docFile' = file /\ oldAnswer' = old /\ meta' = m  OBVIOUS
<1> QED  BY <1>2, <1>4, <1>5, <1>6, <1>7, CheckGrant DEF outside

(* What a check knows does not depend on what its step leaves alone.       *)
LEMMA AtWorkStays ==
  ASSUME NEW s \in Locals, AtWork(s), UNCHANGED <<files, meta, lastGranted>>
  PROVE  AtWork(s)'
BY DEF AtWork, files, Managed, TrustOk, Fresh, Result, Fits

(* The workspace's own answer is sound, and comes into play without        *)
(* bringing back an allowance that is over.                                *)
LEMMA OwnAnswerSound ==
  ASSUME RulesInv, GrantInv, RulesTypeOK', NEW c \in Checks, WorkspaceAnswers(c),
         NEW a, a = WorkspaceAnswer(sync[c].etag)
  PROVE  /\ a \in Answers /\ AnswerSound(a)' /\ (Dry => Dry')
         /\ Fresh([sync[c] EXCEPT !.phase = "answered", !.answer = a])
<1>1. RulesTypeOK /\ sync \in [Checks -> Locals]  BY DEF RulesInv, RulesTypeOK, Locals
<1>2. a \in Answers  BY <1>1, WorkspaceAnswerType DEF Locals
<1> PICK d \in Docs : d = a.doc  BY <1>2, PartsType
<1>3. /\ d.rev = (IF workspace.connected /\ workspace.managed THEN workspace.rev ELSE 0)
      /\ d.grant = Grants(workspace) /\ d.issued = rulesClock /\ d.signed = workspace.signs
      /\ a.proofAt = (IF workspace.signs /\ workspace.connected THEN rulesClock ELSE 0)
      /\ a.proofEtag = EtagOf(d) /\ a.genuine = TRUE
      /\ a.kind = (IF ~workspace.connected THEN "gone" ELSE IF ~workspace.managed THEN "noRules"
                   ELSE IF sync[c].etag = EtagOf(d) THEN "same" ELSE "rules")
  BY DEF WorkspaceAnswer
<1>4. /\ lastGranted \in Nat /\ rulesClock \in Nat /\ workspace.rev # 0
      /\ lastGranted <= rulesClock /\ (lastGranted = rulesClock <=> Grants(workspace))
  BY <1>1, PartsType DEF RulesTypeOK, GrantInv
<1>5. UNCHANGED <<workspace, lastGranted>>  BY DEF WorkspaceAnswers, outside
<1>6. /\ sync'[c].answer = a /\ \A e \in Checks \ {c} : sync'[e] = sync[e]
      /\ oldAnswer' = oldAnswer \/ oldAnswer'.doc = d
  <2>1. /\ sync' = [sync EXCEPT ![c].phase = "answered", ![c].answer = a]
        /\ oldAnswer' = oldAnswer \/ oldAnswer' = [a EXCEPT !.genuine = FALSE]
    BY DEF WorkspaceAnswers
  <2>2. [a EXCEPT !.genuine = FALSE].doc = d  BY <1>2 DEF Answers
  <2>3. sync'[c].answer = a /\ \A e \in Checks \ {c} : sync'[e] = sync[e]
    BY <1>1, <2>1 DEF Locals
  <2> QED  BY <2>1, <2>2, <2>3
<1>7. \A e \in InPlay' : e = d \/ e \in InPlay
  <2>1. docFile' = docFile  BY DEF WorkspaceAnswers, files
  <2> QED  BY <1>6, <2>1 DEF InPlay
<1>8. Dry => Dry'  BY <1>3, <1>5, <1>7 DEF Dry, Grants
<1>9. d.rev # 0 /\ ~d.grant => ~workspace.grant  BY <1>3 DEF Grants
<1>10. ~d.signed /\ ~workspace.grant => Dry'
  <2> SUFFICES ASSUME ~d.signed, ~workspace.grant, NEW e \in InPlay' PROVE ~e.signed
    BY <1>5 DEF Dry
  <2>1. e = d \/ DocSound(e)  BY <1>7 DEF InPlay, GrantInv, AnswerSound
  <2> QED  BY <1>3, <2>1 DEF DocSound
<1>11. DocSound(d)'
  BY <1>3, <1>4, <1>5, <1>9, <1>10 DEF DocSound
<1>12. AnswerSound(a)'  BY <1>3, <1>11 DEF AnswerSound
<1>13. Fresh([sync[c] EXCEPT !.phase = "answered", !.answer = a])
  <2> PICK s : s = [sync[c] EXCEPT !.phase = "answered", !.answer = a]  OBVIOUS
  <2>1. s.answer = a /\ s.etag = sync[c].etag  BY <1>1 DEF Locals
  <2>2. d.grant => ~(docFile.rev # 0 /\ ~docFile.grant)
    BY <1>3 DEF GrantInv, DocSound, Grants
  <2>3. Fresh(s)  BY <1>3, <1>4, <2>1, <2>2 DEF Fresh
  <2> QED  BY <2>3
<1> QED  BY <1>2, <1>8, <1>12, <1>13

(* The document of a check's answer takes the place of the computer's.     *)
LEMMA InstallDocGrant ==
  ASSUME RulesInv, GrantInv, RulesTypeOK', NEW c \in Checks, InstallDoc(c)
  PROVE  GrantInv'
<1>1. RulesTypeOK /\ Held /\ sync \in [Checks -> Locals]  BY DEF RulesInv, RulesTypeOK, Locals
<1> PICK l \in Locals : l = sync[c]  BY <1>1
<1> PICK s : s = [l EXCEPT !.phase = "record"]  OBVIOUS
<1> PICK file : file = l.answer.doc  OBVIOUS
<1> PICK old \in Answers : old = oldAnswer  BY <1>1 DEF RulesTypeOK
<1> PICK m \in Metas : m = meta  BY <1>1 DEF RulesTypeOK
<1>2. /\ l.phase = "doc" /\ sync' = [sync EXCEPT ![c] = s] /\ docFile' = file
      /\ UNCHANGED <<outside, oldAnswer, policyFile, answerRecord, meta>>
  BY <1>1 DEF InstallDoc
<1>3. s \in Locals /\ s.phase = "record" /\ s.copy = l.copy /\ s.answer = l.answer
  <2>1. "record" \in SyncPhases  BY DEF SyncPhases
  <2> QED  BY <2>1, PhaseOnly
<1>4. /\ Alone(c) /\ Admitted(l.answer, l.copy) /\ l.copy = m
      /\ (l.answer.genuine => l.answer.doc.rev # 0) /\ AnswerSound(l.answer) /\ MetaSound(m)
  <2>1. Alone(c) /\ Sound(l, meta, policyFile)  BY <1>1, <1>2 DEF Held
  <2>2. AtWork(l) /\ AnswerSound(l.answer) /\ MetaSound(m)  BY DEF GrantInv
  <2> QED  BY <1>2, <2>1, <2>2 DEF Sound, AtWork
<1>5. /\ l.answer \in Answers /\ file \in Docs /\ lastGranted \in Nat
      /\ m.issued \in Nat /\ m.proofAt \in Nat /\ file.issued \in Nat
  BY <1>1, PartsType
<1>6. Dry => Dry'
  <2>1. \A d \in Checks : sync'[d].answer.doc \in InPlay  BY <1>1, <1>2, <1>3 DEF InPlay
  <2>2. docFile' \in InPlay /\ oldAnswer'.doc \in InPlay  BY <1>2 DEF InPlay
  <2>3. InPlay' \subseteq InPlay  BY <2>1, <2>2 DEF InPlay
  <2> QED  BY <1>2, <2>3 DEF Dry, outside
<1>7. /\ lastGranted <= lastGranted' /\ (workspace.signs => workspace'.signs)
      /\ ~workspace.grant => ~workspace'.grant /\ lastGranted' = lastGranted
  BY <1>2, <1>5 DEF outside
<1>8. /\ DocSound(file)' /\ AnswerSound(old)' /\ MetaSound(m)'
      /\ AnswerSound(s.answer)' /\ MetaSound(s.copy)'
  BY <1>1, <1>3, <1>4, <1>5, <1>6, <1>7, Lasts DEF GrantInv, AnswerSound
<1>9. Fits(m)'
  <2> SUFFICES ASSUME file.signed, file.grant
               PROVE  m.proofAt <= lastGranted /\ ~(m.rev # 0 /\ ~m.etag.grant)
    BY <1>2 DEF Fits, outside
  <2>1. m.issued <= file.issued  BY <1>4, <1>5 DEF Admitted, Verified
  <2>2. file.issued <= lastGranted  BY <1>4 DEF AnswerSound, DocSound
  <2>3. ~Dry  BY <1>1 DEF Dry, InPlay
  <2>4. ~Over(m)  BY <1>5, <2>1, <2>2, <2>3 DEF Over
  <2> QED  BY <1>4, <1>5, <2>1, <2>2, <2>4 DEF MetaSound
<1>10. AtWork(s)'
  BY <1>2, <1>3, <1>4 DEF AtWork
<1>11. ~old.genuine /\ oldAnswer' = old /\ meta' = m  BY <1>2 DEF GrantInv
<1> QED  BY <1>2, <1>3, <1>4, <1>5, <1>6, <1>8, <1>9, <1>10, <1>11, CheckGrant

(* Time passes: the allowance, once gone, does not come back.              *)
LEMMA TimeGrant ==
  ASSUME RulesInv, GrantInv, RulesTypeOK', TimePasses
  PROVE  GrantInv'
<1>1. /\ RulesTypeOK /\ sync \in [Checks -> Locals] /\ lastGranted \in Nat /\ rulesClock \in Nat
      /\ docFile \in Docs /\ oldAnswer \in Answers /\ meta \in Metas
  BY PartsType DEF RulesInv, RulesTypeOK, Locals
<1>2. /\ rulesClock' = rulesClock + 1 /\ workspace' \in {workspace} \cup Changed
      /\ lastGranted' = IF Grants(workspace)' THEN rulesClock + 1 ELSE lastGranted
      /\ UNCHANGED <<oldAnswer, files, meta, sync>>
  BY DEF TimePasses, Grants
<1>3. (workspace.signs => workspace'.signs) /\ (~workspace.grant => ~workspace'.grant)
  BY <1>1, <1>2 DEF Changed, RulesTypeOK
<1>4. /\ lastGranted <= lastGranted'
      /\ ~workspace.grant => lastGranted' = lastGranted
      /\ lastGranted' <= rulesClock' /\ (lastGranted' = rulesClock' <=> Grants(workspace)')
  BY <1>1, <1>2, <1>3 DEF GrantInv, Grants
<1>5. Dry => Dry'  BY <1>2, <1>3 DEF Dry, InPlay, files
<1>6. /\ \A d \in Docs : DocSound(d) => DocSound(d)'
      /\ \A a \in Answers : AnswerSound(a) => AnswerSound(a)'
      /\ \A m \in Metas : MetaSound(m) => MetaSound(m)'
  BY <1>1, <1>3, <1>4, <1>5, Lasts
<1>7. ASSUME NEW m \in Metas, Fits(m) PROVE Fits(m)'
  BY <1>1, <1>2, <1>4, <1>7, PartsType DEF Fits, RulesTypeOK, files
<1>8. ASSUME NEW s \in Locals, AtWork(s) PROVE AtWork(s)'
  <2>1. s.copy \in Metas  BY PartsType
  <2>2. Fits(s.copy) => Fits(s.copy)'  BY <1>7, <2>1
  <2> QED  BY <1>2, <1>8, <2>2 DEF AtWork, Fresh, Result, Managed, TrustOk, files
<1>9. DocSound(docFile)'
  <2> PICK d \in Docs : d = docFile  BY <1>1
  <2>1. DocSound(d)' /\ docFile' = d  BY <1>2, <1>6 DEF GrantInv, files
  <2> QED  BY <2>1 DEF DocSound
<1>10. AnswerSound(oldAnswer)' /\ ~oldAnswer'.genuine
  <2> PICK a \in Answers : a = oldAnswer  BY <1>1
  <2>1. AnswerSound(a)' /\ oldAnswer' = a /\ ~a.genuine  BY <1>2, <1>6 DEF GrantInv
  <2> QED  BY <2>1 DEF AnswerSound, DocSound
<1>11. MetaSound(meta)' /\ Fits(meta)'
  <2> PICK m \in Metas : m = meta  BY <1>1
  <2>1. MetaSound(m)' /\ Fits(m)' /\ meta' = m  BY <1>2, <1>6, <1>7 DEF GrantInv
  <2> QED  BY <2>1 DEF MetaSound, Over, Fits
<1>12. ASSUME NEW c \in Checks
       PROVE  AnswerSound(sync[c].answer)' /\ MetaSound(sync[c].copy)' /\ AtWork(sync[c])'
  <2> PICK s \in Locals : s = sync[c]  BY <1>1
  <2>1. AnswerSound(s.answer)' /\ MetaSound(s.copy)' /\ AtWork(s)'
    BY <1>6, <1>8, PartsType DEF GrantInv
  <2>2. sync'[c] = s  BY <1>2
  <2>3. AnswerSound(sync[c].answer)'  BY <2>1, <2>2 DEF AnswerSound, DocSound
  <2>4. MetaSound(sync[c].copy)'  BY <2>1, <2>2 DEF MetaSound, Over
  <2>5. AtWork(sync[c])'  BY <2>1, <2>2 DEF AtWork, Fresh, Result, Fits
  <2> QED  BY <2>3, <2>4, <2>5
<1> QED  BY <1>4, <1>9, <1>10, <1>11, <1>12 DEF GrantInv

(* What is left alone stays as it is.                                      *)
LEMMA RestGrant ==
  ASSUME GrantInv, UNCHANGED <<outside, oldAnswer, files, meta, sync>>
  PROVE  GrantInv'
BY DEF GrantInv, DocSound, AnswerSound, MetaSound, Over, Dry, InPlay, Fits, AtWork, Fresh, Result,
   Grants, Managed, TrustOk, files, outside

(* Every step keeps the allowances and the checks' knowledge sound.        *)
LEMMA StepGrant ==
  ASSUME RulesInv, GrantInv, [RulesNext]_rulesVars, ~unguarded'
  PROVE  GrantInv'
<1>1. /\ RulesTypeOK /\ RulesTypeOK' /\ Held /\ Explained /\ meta \in Metas
      /\ oldAnswer \in Answers /\ docFile \in Docs /\ sync \in [Checks -> Locals]
  BY StepType DEF RulesInv, RulesTypeOK, Locals
<1>2. ASSUME NEW c \in Checks, sync[c].phase # "idle"
      PROVE  Alone(c) /\ Sound(sync[c], meta, policyFile)
  BY <1>1, <1>2 DEF Held
<1>3. ASSUME NEW c \in Checks
      PROVE  /\ sync[c] \in Locals /\ sync[c].answer \in Answers /\ sync[c].copy \in Metas
             /\ AnswerSound(sync[c].answer) /\ MetaSound(sync[c].copy) /\ AtWork(sync[c])
             /\ sync[c].answer.doc \in InPlay
  BY <1>1, PartsType DEF GrantInv, InPlay
<1>4. CASE TimePasses  BY <1>1, <1>4, TimeGrant
<1>5. CASE RemoveStaleLock \/ NoteMismatch \/ WriteNote \/ UNCHANGED rulesVars
  <2>1. UNCHANGED <<outside, oldAnswer, files, meta, sync>>
    BY <1>1, <1>5 DEF RemoveStaleLock, NoteMismatch, WriteNote, Held, rulesVars, outside, files
  <2> QED  BY <2>1, RestGrant
<1>6. ASSUME NEW c \in Checks, NEW locked \in BOOLEAN, StartCheck(c, locked) PROVE GrantInv'
  <2> PICK s : s = [Idle EXCEPT !.phase = "asking", !.locked = locked, !.copy = meta,
                               !.intact = Intact,
                               !.etag = IF Managed /\ Intact THEN meta.etag ELSE NoEtag]
    OBVIOUS
  <2>1. /\ sync' = [sync EXCEPT ![c] = s] /\ Alone(c)
        /\ UNCHANGED <<outside, oldAnswer, files, meta>>
    <3>1. Alone(c)  BY <1>1, <1>6, StartsAlone
    <3> QED  BY <1>6, <3>1 DEF StartCheck
  <2>2. meta.etag \in Etags /\ Intact \in BOOLEAN
    BY <1>1 DEF Metas, Intact, TrustApplies, TrustOk
  <2>3. (IF Managed /\ Intact THEN meta.etag ELSE NoEtag) \in Etags  BY <2>2, NothingType
  <2>4. /\ s \in Locals /\ s.phase = "asking" /\ s.copy = meta /\ s.answer = NoAnswer
        /\ s.intact = Intact /\ s.etag = IF Managed /\ Intact THEN meta.etag ELSE NoEtag
    BY <1>1, <2>2, <2>3, NothingType DEF Locals, SyncPhases, Idle
  <2>5. AtWork(s)
    <3>1. Intact /\ answerRecord # NoRecord => TrustOk /\ answerRecord.answer.rev = meta.rev
      BY DEF Intact, TrustApplies
    <3> QED  BY <2>4, <3>1 DEF AtWork
  <2>6. AnswerSound(s.answer) /\ MetaSound(s.copy) /\ ~s.answer.doc.grant
    BY <1>1, <2>4, NothingSound DEF GrantInv, NoAnswer, NoDoc
  <2>7. AtWork(s)'  BY <2>1, <2>4, <2>5, AtWorkStays DEF outside
  <2> QED  BY <1>1, <2>1, <2>4, <2>6, <2>7, QuietGrant DEF files
<1>7. ASSUME NEW c \in Checks, WorkspaceAnswers(c) PROVE GrantInv'
  <2> PICK a : a = WorkspaceAnswer(sync[c].etag)  OBVIOUS
  <2> PICK s : s = [sync[c] EXCEPT !.phase = "answered", !.answer = a]  OBVIOUS
  <2> PICK old : old = oldAnswer'  OBVIOUS
  <2> PICK file \in Docs : file = docFile  BY <1>1
  <2> PICK m \in Metas : m = meta  BY <1>1
  <2>1. /\ sync[c].phase = "asking" /\ UNCHANGED <<outside, files, meta>>
        /\ sync' = [sync EXCEPT ![c].phase = "answered", ![c].answer = a]
        /\ old = oldAnswer \/ old = [a EXCEPT !.genuine = FALSE]
    BY <1>7 DEF WorkspaceAnswers
  <2>2. a \in Answers /\ AnswerSound(a)' /\ (Dry => Dry') /\ Fresh(s)
    BY <1>1, <1>7, OwnAnswerSound
  <2>3. /\ s \in Locals /\ s.phase = "answered" /\ s.answer = a /\ s.copy = sync[c].copy
        /\ s.intact = sync[c].intact /\ s.etag = sync[c].etag
        /\ sync' = [sync EXCEPT ![c] = s]
    BY <1>1, <1>3, <2>1, <2>2 DEF Locals, SyncPhases
  <2>4. AtWork(s)'
    <3>1. AtWork(s)  BY <1>3, <2>1, <2>2, <2>3 DEF AtWork
    <3> QED  BY <2>1, <2>3, <3>1, AtWorkStays DEF outside
  <2>5. lastGranted \in Nat  BY <1>1, PartsType
  <2>6. /\ lastGranted <= lastGranted' /\ (workspace.signs => workspace'.signs)
        /\ ~workspace.grant => ~workspace'.grant /\ lastGranted' = lastGranted
    BY <2>1, <2>5 DEF outside
  <2>7. /\ DocSound(file)' /\ MetaSound(m)' /\ MetaSound(s.copy)'
        /\ AnswerSound(oldAnswer) /\ (old = oldAnswer => AnswerSound(old)')
    BY <1>1, <1>3, <2>2, <2>3, <2>6, Lasts DEF GrantInv
  <2>8. old \in Answers /\ AnswerSound(old)' /\ ~old.genuine
    <3>1. CASE old = oldAnswer  BY <1>1, <2>7, <3>1 DEF GrantInv
    <3>2. CASE old = [a EXCEPT !.genuine = FALSE]
      <4>1. /\ old \in Answers /\ old.doc = a.doc /\ old.proofAt = a.proofAt
            /\ old.proofEtag = a.proofEtag /\ old.genuine = FALSE
        BY <2>2, <3>2 DEF Answers
      <4> QED  BY <2>2, <4>1 DEF AnswerSound
    <3> QED  BY <2>1, <3>1, <3>2
  <2>9. Fits(m)' /\ docFile' = file /\ meta' = m
    BY <2>1 DEF GrantInv, Fits, files, outside
  <2>10. Alone(c)  BY <1>2, <2>1
  <2> QED  BY <1>1, <2>1, <2>2, <2>3, <2>4, <2>7, <2>8, <2>9, <2>10, CheckGrant
<1>8. ASSUME NEW c \in Checks, OtherAnswers(c) PROVE GrantInv'
  <2> PICK a \in {oldAnswer} \cup
                  {[NoAnswer EXCEPT !.kind = k] : k \in {"lost", "gone", "noRules", "same"}} :
         sync' = [sync EXCEPT ![c].phase = "answered", ![c].answer = a]
    BY <1>8 DEF OtherAnswers
  <2> PICK s : s = [sync[c] EXCEPT !.phase = "answered", !.answer = a]  OBVIOUS
  <2>1. sync[c].phase = "asking" /\ UNCHANGED <<outside, oldAnswer, files, meta>>
    BY <1>8 DEF OtherAnswers
  <2>2. /\ a \in Answers /\ AnswerSound(a) /\ ~a.genuine
        /\ ~a.doc.grant \/ a.doc \in InPlay
    <3>1. CASE a = oldAnswer  BY <1>1, <3>1 DEF GrantInv, InPlay
    <3>2. CASE a # oldAnswer
      <4> PICK k \in {"lost", "gone", "noRules", "same"} : a = [NoAnswer EXCEPT !.kind = k]
        BY <3>2
      <4>1. a \in Answers  BY NothingType DEF Answers, Kinds
      <4>2. a.genuine = FALSE /\ a.doc.grant = FALSE  BY DEF NoAnswer, NoDoc
      <4>3. AnswerSound(a)  BY <1>1, NothingSound
      <4> QED  BY <4>1, <4>2, <4>3
    <3> QED  BY <3>1, <3>2
  <2>3. /\ s \in Locals /\ s.phase = "answered" /\ s.answer = a /\ s.copy = sync[c].copy
        /\ s.intact = sync[c].intact /\ s.etag = sync[c].etag
        /\ sync' = [sync EXCEPT ![c] = s]
    BY <1>1, <1>3, <2>2 DEF Locals, SyncPhases
  <2>4. AtWork(s)'
    <3>1. AtWork(s)  BY <1>3, <2>1, <2>2, <2>3 DEF AtWork, Fresh
    <3> QED  BY <2>1, <2>3, <3>1, AtWorkStays DEF outside
  <2>5. Alone(c)  BY <1>2, <2>1
  <2> QED  BY <1>1, <1>3, <2>1, <2>2, <2>3, <2>4, <2>5, QuietGrant DEF files

<1>9. ASSUME NEW c \in Checks, HandleAnswer(c) PROVE GrantInv'
  <2> PICK l \in Locals : l = sync[c]  BY <1>3
  <2>1. /\ l.phase = "answered" /\ UNCHANGED <<outside, oldAnswer, files, meta>>
        /\ AnswerSound(l.answer) /\ AtWork(l) /\ l.answer.doc \in InPlay
        /\ MetaSound(meta) /\ Fits(meta)
    BY <1>3, <1>9 DEF HandleAnswer, GrantInv
  <2>2. PICK t : /\ sync' = [sync EXCEPT ![c] = t]
                 /\ \/ t = OnGone(l)
                    \/ t = OnNoRules(l) /\ l.answer.kind = "noRules"
                    \/ t = OnSame(l) /\ l.answer.kind = "same"
                    \/ t = OnRules(l) /\ l.answer.kind = "rules"
                    \/ t = SaveOnly(l, l.copy, FALSE)
    BY <1>9 DEF HandleAnswer
  <2>3. t \in Locals
    <3>1. SaveOnly(l, l.copy, FALSE) \in Locals  BY PartsType, SaveOnlyType
    <3> QED  BY <2>2, <3>1, HandlersType
  <2>4. AtWork(t) /\ t.answer = l.answer /\ MetaSound(t.copy)
    BY <1>1, <2>1, <2>2, HandlersGrant
  <2>5. AtWork(t)'  BY <2>1, <2>3, <2>4, AtWorkStays DEF outside
  <2>6. Alone(c)  BY <1>2, <2>1
  <2> QED  BY <1>1, <2>1, <2>2, <2>3, <2>4, <2>5, <2>6, QuietGrant DEF files
<1>10. ASSUME NEW c \in Checks, InstallPolicy(c) PROVE GrantInv'
  <2> PICK l \in Locals : l = sync[c]  BY <1>3
  <2> PICK s : s = [l EXCEPT !.phase = "doc"]  OBVIOUS
  <2>1. /\ l.phase = "policy" /\ sync' = [sync EXCEPT ![c] = s]
        /\ UNCHANGED <<outside, oldAnswer, docFile, meta>>
    BY <1>1, <1>10 DEF InstallPolicy
  <2>2. s \in Locals /\ s.phase = "doc" /\ s.copy = l.copy /\ s.answer = l.answer
    <3>1. "doc" \in SyncPhases  BY DEF SyncPhases
    <3> QED  BY <3>1, PhaseOnly
  <2>3. AtWork(s)'  BY <1>3, <2>1, <2>2 DEF AtWork
  <2>4. Alone(c)  BY <1>2, <2>1
  <2> QED  BY <1>1, <1>3, <2>1, <2>2, <2>3, <2>4, QuietGrant
<1>11. ASSUME NEW c \in Checks, InstallDoc(c) PROVE GrantInv'
  BY <1>1, <1>11, InstallDocGrant
<1>12. ASSUME NEW c \in Checks, KeepRecord(c) PROVE GrantInv'
  <2> PICK l \in Locals : l = sync[c]  BY <1>3
  <2> PICK n : n = InForce(l.answer, l.copy)  OBVIOUS
  <2> PICK s : s = SaveOnly(l, n, TRUE)  OBVIOUS
  <2>1. /\ l.phase = "record" /\ sync' = [sync EXCEPT ![c] = s]
        /\ UNCHANGED <<outside, oldAnswer, policyFile, docFile, meta>>
    BY <1>1, <1>12 DEF KeepRecord
  <2>2. /\ Alone(c) /\ Admitted(l.answer, l.copy) /\ policyFile = l.answer.doc.rev
        /\ docFile = l.answer.doc /\ l.copy = meta /\ (l.answer.genuine => l.answer.doc.rev # 0)
    BY <1>2, <1>3, <2>1 DEF Sound, AtWork
  <2>3. l.answer \in Answers /\ l.copy \in Metas  BY PartsType
  <2>4. n \in Metas /\ MetaSound(n) /\ Fits(n)
    BY <1>1, <1>3, <2>2, <2>3, InForceType, MetaSteps, FitsSteps DEF GrantInv
  <2>5. /\ s \in Locals /\ s.phase = "save" /\ s.copy = n /\ s.answer = l.answer
    BY <2>4, SaveOnlyType DEF SaveOnly, Idle
  <2>6. AtWork(s)'
    <3>1. Fits(n)'  BY <2>1, <2>4 DEF Fits, outside
    <3>2. Result(s)'  BY <2>1, <2>2, <2>5 DEF Result
    <3> QED  BY <2>5, <3>1, <3>2 DEF AtWork
  <2> QED  BY <1>1, <1>3, <2>1, <2>2, <2>4, <2>5, <2>6, QuietGrant
<1>13. ASSUME NEW c \in Checks, InstallFails(c) PROVE GrantInv'
  <2> PICK l \in Locals : l = sync[c]  BY <1>3
  <2> PICK n : n = [l.copy EXCEPT !.latch = @ \/ l.answer.doc.signed]  OBVIOUS
  <2> PICK s : s = SaveOnly(l, n, FALSE)  OBVIOUS
  <2>1. /\ l.phase \in {"policy", "doc"} /\ sync' = [sync EXCEPT ![c] = s]
        /\ UNCHANGED <<outside, oldAnswer, files, meta>>
    BY <1>1, <1>13 DEF InstallFails
  <2>2. Alone(c) /\ l.copy = meta  BY <1>2, <1>3, <2>1 DEF AtWork
  <2>3. /\ n \in Metas /\ n.rev = meta.rev /\ n.etag = meta.etag /\ n.issued = meta.issued
        /\ n.proofAt = meta.proofAt /\ (meta.latch => n.latch)
    <3>1. l.answer.doc.signed \in BOOLEAN /\ l.copy \in Metas  BY PartsType
    <3> QED  BY <2>2, <3>1 DEF Metas
  <2>4. MetaSound(n) /\ Fits(n)  BY <2>3 DEF GrantInv, MetaSound, Over, Fits
  <2>5. s \in Locals  BY <2>3, SaveOnlyType
  <2>6. s.answer = l.answer /\ s.copy = n /\ AtWork(s)  BY <1>3, <2>3, <2>4, SaveGrant
  <2>7. AtWork(s)'  BY <2>1, <2>5, <2>6, AtWorkStays DEF outside
  <2> QED  BY <1>1, <1>3, <2>1, <2>2, <2>4, <2>5, <2>6, <2>7, QuietGrant DEF files

<1>14. ASSUME NEW c \in Checks, DropPolicy(c) PROVE GrantInv'
  <2> PICK l \in Locals : l = sync[c]  BY <1>3
  <2> PICK s : s = [l EXCEPT !.phase = "dropDoc"]  OBVIOUS
  <2>1. /\ l.phase = "dropPolicy" /\ sync' = [sync EXCEPT ![c] = s]
        /\ UNCHANGED <<outside, oldAnswer, docFile, meta>>
    BY <1>1, <1>14 DEF DropPolicy
  <2>2. /\ s \in Locals /\ s.phase = "dropDoc" /\ s.copy = l.copy /\ s.answer = l.answer
        /\ s.ok = l.ok
    BY PhaseOnly DEF SyncPhases, Locals
  <2>3. AtWork(s)'  BY <1>3, <2>1, <2>2 DEF AtWork
  <2>4. Alone(c)  BY <1>2, <2>1
  <2> QED  BY <1>1, <1>3, <2>1, <2>2, <2>3, <2>4, QuietGrant
<1>15. ASSUME NEW c \in Checks, DropDoc(c) PROVE GrantInv'
  <2> PICK l \in Locals : l = sync[c]  BY <1>3
  <2> PICK s : s = [l EXCEPT !.phase = "dropRecord"]  OBVIOUS
  <2> PICK file \in Docs : file = NoDoc  BY NothingType
  <2> PICK old \in Answers : old = oldAnswer  BY <1>1
  <2> PICK m \in Metas : m = meta  BY <1>1
  <2>1. /\ l.phase = "dropDoc" /\ sync' = [sync EXCEPT ![c] = s] /\ docFile' = file
        /\ UNCHANGED <<outside, oldAnswer, meta>>
    BY <1>1, <1>15 DEF DropDoc
  <2>2. /\ s \in Locals /\ s.phase = "dropRecord" /\ s.copy = l.copy /\ s.answer = l.answer
        /\ s.ok = l.ok
    BY PhaseOnly DEF SyncPhases, Locals
  <2>3. ~file.grant /\ ~file.signed  BY DEF NoDoc
  <2>4. Dry => Dry'
    <3>1. \A d \in Checks : sync'[d].answer.doc \in InPlay  BY <1>1, <2>1, <2>2 DEF InPlay
    <3>2. \A d \in InPlay' : d \in InPlay \/ d = file  BY <2>1, <3>1 DEF InPlay
    <3> QED  BY <2>1, <2>3, <3>2 DEF Dry, outside
  <2>5. lastGranted \in Nat  BY <1>1, PartsType
  <2>6. /\ lastGranted <= lastGranted' /\ (workspace.signs => workspace'.signs)
        /\ ~workspace.grant => ~workspace'.grant /\ lastGranted' = lastGranted
    BY <2>1, <2>5 DEF outside
  <2>7. /\ DocSound(file) /\ AnswerSound(old) /\ MetaSound(m) /\ AnswerSound(s.answer)
        /\ MetaSound(s.copy) /\ s.answer \in Answers /\ s.copy \in Metas
    BY <1>1, <1>3, <2>2, NothingSound, PartsType DEF GrantInv
  <2>8. /\ DocSound(file)' /\ AnswerSound(old)' /\ MetaSound(m)' /\ AnswerSound(s.answer)'
        /\ MetaSound(s.copy)'
    BY <1>1, <2>4, <2>6, <2>7, Lasts
  <2>9. Fits(m)' /\ ~old.genuine /\ oldAnswer' = old /\ meta' = m
    BY <2>1, <2>3 DEF Fits, GrantInv
  <2>10. AtWork(s)'  BY <1>3, <2>1, <2>2 DEF AtWork
  <2>11. Alone(c)  BY <1>2, <2>1
  <2> QED  BY <1>1, <2>1, <2>2, <2>4, <2>8, <2>9, <2>10, <2>11, CheckGrant
<1>16. ASSUME NEW c \in Checks, DropRecord(c) PROVE GrantInv'
  <2> PICK l \in Locals : l = sync[c]  BY <1>3
  <2> PICK s : s = [l EXCEPT !.phase = "save"]  OBVIOUS
  <2>1. /\ l.phase = "dropRecord" /\ sync' = [sync EXCEPT ![c] = s]
        /\ UNCHANGED <<outside, oldAnswer, policyFile, docFile, meta>>
    BY <1>1, <1>16 DEF DropRecord
  <2>2. /\ s \in Locals /\ s.phase = "save" /\ s.copy = l.copy /\ s.answer = l.answer
        /\ s.ok = l.ok
    BY PhaseOnly DEF SyncPhases, Locals
  <2>3. docFile = NoDoc /\ (l.ok /\ l.answer.genuine => l.answer.doc.rev = 0)
    BY <1>3, <2>1 DEF AtWork
  <2>4. AtWork(s)'
    <3>1. Result(s)'  BY <2>1, <2>2, <2>3 DEF Result
    <3>2. Fits(s.copy)'  BY <2>1, <2>3 DEF Fits, NoDoc
    <3> QED  BY <2>2, <3>1, <3>2 DEF AtWork
  <2>5. Alone(c)  BY <1>2, <2>1
  <2> QED  BY <1>1, <1>3, <2>1, <2>2, <2>4, <2>5, QuietGrant
<1>17. ASSUME NEW c \in Checks, SaveMeta(c) PROVE GrantInv'
  <2> PICK l \in Locals : l = sync[c]  BY <1>3
  <2> PICK s : s = [l EXCEPT !.phase = "release"]  OBVIOUS
  <2> PICK file \in Docs : file = docFile  BY <1>1
  <2> PICK old \in Answers : old = oldAnswer  BY <1>1
  <2> PICK m \in Metas : m = l.copy  BY <1>3
  <2>1. /\ l.phase = "save" /\ sync' = [sync EXCEPT ![c] = s] /\ meta' = m
        /\ UNCHANGED <<outside, oldAnswer, files>>
    BY <1>1, <1>17 DEF SaveMeta
  <2>2. /\ s \in Locals /\ s.phase = "release" /\ s.copy = l.copy /\ s.answer = l.answer
        /\ s.ok = l.ok
    BY PhaseOnly DEF SyncPhases, Locals
  <2>3. Dry => Dry'
    <3>1. \A d \in Checks : sync'[d].answer.doc \in InPlay
      BY <1>1, <1>3, <2>1, <2>2
    <3>2. docFile' = docFile /\ oldAnswer' = oldAnswer  BY <2>1 DEF files
    <3>3. InPlay' \subseteq InPlay  BY <3>1, <3>2 DEF InPlay
    <3> QED  BY <2>1, <3>3 DEF Dry, outside
  <2>4. lastGranted \in Nat  BY <1>1, PartsType
  <2>5. /\ lastGranted <= lastGranted' /\ (workspace.signs => workspace'.signs)
        /\ ~workspace.grant => ~workspace'.grant /\ lastGranted' = lastGranted
    BY <2>1, <2>4 DEF outside
  <2>6. /\ DocSound(file) /\ AnswerSound(old) /\ MetaSound(m) /\ AnswerSound(s.answer)
        /\ s.answer \in Answers /\ s.copy = m
    BY <1>3, <2>2, PartsType DEF GrantInv
  <2>7. /\ DocSound(file)' /\ AnswerSound(old)' /\ MetaSound(m)' /\ AnswerSound(s.answer)'
    BY <1>1, <2>3, <2>5, <2>6, Lasts
  <2>8. MetaSound(s.copy)'  BY <2>6, <2>7 DEF MetaSound, Over
  <2>9. Result(l) /\ Fits(m)  BY <1>3, <2>1 DEF AtWork
  <2>10. Fits(m)' /\ ~old.genuine /\ oldAnswer' = old /\ docFile' = file
    BY <2>1, <2>9 DEF Fits, GrantInv, files, outside
  <2>11. AtWork(s)'
    <3>1. Result(s)'  BY <2>1, <2>2, <2>9 DEF Result, files, TrustOk
    <3> QED  BY <2>2, <3>1 DEF AtWork
  <2>12. Alone(c)  BY <1>2, <2>1
  <2> QED  BY <1>1, <2>1, <2>2, <2>3, <2>7, <2>8, <2>10, <2>11, <2>12, CheckGrant
<1>18. ASSUME NEW c \in Checks, ReleaseLock(c) \/ StopCheck(c) PROVE GrantInv'
  <2> PICK s \in Locals : s = Idle  BY NothingType
  <2>1. /\ sync[c].phase # "idle" /\ sync' = [sync EXCEPT ![c] = s]
        /\ UNCHANGED <<outside, oldAnswer, files, meta>>
    BY <1>18 DEF ReleaseLock, StopCheck
  <2>2. s.phase = "idle" /\ s.answer = NoAnswer /\ s.copy = NoMeta /\ ~s.answer.doc.grant
    BY DEF Idle, NoAnswer, NoDoc
  <2>3. AnswerSound(s.answer) /\ MetaSound(s.copy)  BY <1>1, <2>2, NothingSound
  <2>4. AtWork(s)'  BY <2>2 DEF AtWork
  <2>5. Alone(c)  BY <1>2, <2>1
  <2> QED  BY <1>1, <2>1, <2>2, <2>3, <2>4, <2>5, QuietGrant DEF files
<1> QED
  BY <1>4, <1>5, <1>6, <1>7, <1>8, <1>9, <1>10, <1>11, <1>12, <1>13, <1>14, <1>15, <1>16, <1>17,
     <1>18 DEF RulesNext

(* Nothing is known of a new computer, and the workspace holds the         *)
(* allowance.                                                              *)
LEMMA RulesInitGrant == RulesInit => GrantInv
<1> SUFFICES ASSUME RulesInit PROVE GrantInv  OBVIOUS
<1>1. RulesTypeOK  BY RulesInitType
<1>2. /\ docFile = NoDoc /\ oldAnswer = NoAnswer /\ meta = NoMeta /\ lastGranted = rulesClock
      /\ lastGranted \in Nat /\ Grants(workspace) /\ \A c \in Checks : sync[c] = Idle
  BY DEF RulesInit, Grants
<1>3. DocSound(docFile) /\ AnswerSound(oldAnswer) /\ MetaSound(meta) /\ ~oldAnswer.genuine
  BY <1>1, <1>2, NothingSound DEF NoAnswer
<1>4. Fits(meta)  BY <1>2 DEF Fits, NoDoc
<1>5. ASSUME NEW c \in Checks
      PROVE  AnswerSound(sync[c].answer) /\ MetaSound(sync[c].copy) /\ AtWork(sync[c])
  <2>1. sync[c] = Idle /\ Idle.answer = NoAnswer /\ Idle.copy = NoMeta  BY <1>2 DEF Idle
  <2> QED  BY <1>1, <2>1, NothingSound
<1> QED  BY <1>2, <1>3, <1>4, <1>5 DEF GrantInv

LEMMA GrantInvHolds == RulesSpec => [](~unguarded => RulesInv /\ GrantInv)
<1>1. ASSUME RulesTypeOK, ~unguarded => RulesInv, ~unguarded => GrantInv, [RulesNext]_rulesVars
      PROVE  (~unguarded => GrantInv)'
  <2> SUFFICES ASSUME ~unguarded' PROVE GrantInv'  OBVIOUS
  <2>1. ~unguarded  BY <1>1, StaysUnguarded
  <2> QED  BY <1>1, <2>1, StepGrant
<1>2. RulesTypeOK /\ (~unguarded => RulesInv) /\ (~unguarded => GrantInv) /\ [RulesNext]_rulesVars
        => (~unguarded => GrantInv)'
  BY <1>1
<1>3. RulesInit => (~unguarded => GrantInv)  BY RulesInitGrant
<1> QED  BY <1>2, <1>3, RulesTypeCorrect, RulesInvHolds, PTL DEF RulesSpec

(* "Past valid_until, the workspace's grants stop allowing anything"       *)
(* (policy-freshness.ts:26): when the workspace took the allowance back, a *)
(* computer that ever proved its rules fresh lets nothing more through     *)
(* once FreshFor is over, whichever answers were withheld, kept by a proxy *)
(* or unsigned, and wherever its checks stopped, until two met unlocked.   *)
THEOREM GrantEndsInTime == RulesSpec => []GrantStopsInTime
<1>1. ASSUME RulesInv, GrantInv, meta.proofAt # 0, GrantLive
      PROVE  rulesClock <= lastGranted + FreshFor
  <2>1. docFile.grant /\ Managed  BY <1>1 DEF GrantLive, Managed, NoDoc
  <2>2. meta.latch  BY <1>1 DEF GrantInv, MetaSound
  <2>3. TrustOk /\ docFile.signed
    <3>1. TrustOk  BY <1>1, <2>1, <2>2 DEF GrantLive, TrustApplies, Managed
    <3> QED  BY <1>1, <3>1 DEF TrustOk, RulesInv, Explained
  <2>4. meta.proofAt <= lastGranted  BY <1>1, <2>1, <2>3 DEF GrantInv, Fits
  <2>5. rulesClock <= meta.proofAt + FreshFor  BY <1>1 DEF GrantLive
  <2>6. /\ rulesClock \in Nat /\ lastGranted \in Nat /\ meta.proofAt \in Nat /\ FreshFor \in Nat
    BY <1>1, PartsType, RulesAssumption DEF RulesInv, RulesTypeOK
  <2> QED  BY <2>4, <2>5, <2>6
<1>2. (~unguarded => RulesInv /\ GrantInv) => GrantStopsInTime  BY <1>1 DEF GrantStopsInTime
<1> QED  BY <1>2, GrantInvHolds, PTL

(* A check that worked on the workspace's own answer leaves the computer   *)
(* with the rules the workspace answered with: a 304, or the version it    *)
(* already has, is believed only of files that are what the rules state    *)
(* says they are (policy-sync.ts), until two checks met unlocked.          *)
THEOREM CheckedIsCurrent == RulesSpec => []CheckedMeansCurrent
<1>1. (~unguarded => GrantInv) => CheckedMeansCurrent
  BY DEF GrantInv, AtWork, Result, CheckedMeansCurrent
<1>2. (~unguarded => RulesInv /\ GrantInv) => CheckedMeansCurrent  BY <1>1
<1> QED  BY <1>2, GrantInvHolds, PTL

=============================================================================
