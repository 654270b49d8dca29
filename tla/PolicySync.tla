----------------------------- MODULE PolicySync -----------------------------
(***************************************************************************)
(* The rules check (packages/hook/src/policy-sync.ts, syncPolicy and       *)
(* syncIfDue) and what it keeps on the computer: the compiled policy, the  *)
(* workspace's document, the signed answer that explains both              *)
(* (policy-trust.ts), and the rules state managed-meta.json with its latch *)
(* to signed answers, its replay mark and its freshness proof              *)
(* (policy-freshness.ts).                                                  *)
(*                                                                         *)
(* A check reads the rules state once, asks the workspace, writes the      *)
(* files one by one, confirms over the network, and only then writes the   *)
(* whole rules state from its early copy.  Its process may end at any      *)
(* await: a hook call waits for it only up to a cap and then exits.        *)
(* The checks of hook calls take a lock (syncIfDue); the agent and the CLI *)
(* call syncPolicy without it, and a hook call that meets files which do   *)
(* not match the signed answer writes a note into the rules state.         *)
(* Between the computer and the workspace are a captive portal, which      *)
(* answers without a signature, and a proxy, which may serve an old copy.  *)
(***************************************************************************)
EXTENDS Integers, FiniteSets

CONSTANTS
  Checks,         \* processes that run rules checks
  SignatureMode,  \* "dual" or "enforce", as the environment or cloud.json says
  FreshFor,       \* how long a freshness proof is good for (FRESHNESS_MAX_MS)
  EndsAt,         \* phases in which a process may end: at an await it exits, elsewhere it is killed
  MaxRev,         \* bound: versions of the workspace's rules
  MaxTime,        \* bound: ticks of the clock
  MaxStops        \* bound: processes that end inside a check, files that cannot be written

ASSUME RulesAssumption ==
  /\ "none" \notin Checks
  /\ SignatureMode \in {"dual", "enforce"}
  /\ FreshFor \in Nat /\ MaxRev \in Nat \ {0} /\ MaxTime \in Nat \ {0} /\ MaxStops \in Nat

VARIABLES
  workspace,    \* the rules the workspace sets for this computer, and whether it signs
  rulesClock,   \* the time, from 1
  lastGranted,  \* the last time the workspace's rules held the allowance
  oldAnswer,    \* the rules answer a proxy kept
  policyFile,   \* policy.json: the version it was compiled from, 0 for the computer's own rules
  docFile,      \* managed-rules.json
  answerRecord, \* managed-answer.json: the signed answer and the hashes of the files it explains
  meta,         \* managed-meta.json
  syncLock,     \* managed-sync.lock: the process that made it
  sync,         \* sync[c]: the locals of check c
  noting,       \* the rules state as a hook call read it that is about to note a mismatch in it
  unguarded,    \* history: two checks, or a check and a note, met without a lock between them
  verifiedOnce, \* whether an answer of the workspace has verified here
  stops

rulesVars == <<workspace, rulesClock, lastGranted, oldAnswer, policyFile, docFile, answerRecord,
               meta, syncLock, sync, noting, unguarded, verifiedOnce, stops>>
files == <<policyFile, docFile, answerRecord>>
outside == <<workspace, rulesClock, lastGranted>>
locks == <<syncLock, noting, unguarded>>

Revs == 0..MaxRev      \* 0: none, the computer's own rules
Times == 0..MaxTime    \* 0: none

\* What an ETag identifies: the version, and whether the allowance is still in it.
Etags == [rev : Revs, grant : BOOLEAN]
NoEtag == [rev |-> 0, grant |-> FALSE]  \* also what a proof for "unmanaged" is for

Docs == [rev : Revs, grant : BOOLEAN, issued : Times, signed : BOOLEAN]
NoDoc == [rev |-> 0, grant |-> FALSE, issued |-> 0, signed |-> FALSE]

Records == [answer : Docs, policy : Revs, doc : Docs]
NoRecord == [answer |-> NoDoc, policy |-> 0, doc |-> NoDoc]

Metas == [rev : Revs, etag : Etags, latch : BOOLEAN, issued : Times,
          proofEtag : Etags, proofAt : Times]
NoMeta == [rev |-> 0, etag |-> NoEtag, latch |-> FALSE, issued |-> 0,
           proofEtag |-> NoEtag, proofAt |-> 0]

\* 401, 204 or its signed form, 304, 200, no answer; genuine: the workspace's own, just now.
Kinds == {"gone", "noRules", "same", "rules", "lost"}
Answers == [kind : Kinds, doc : Docs, proofAt : Times, proofEtag : Etags, genuine : BOOLEAN]
NoAnswer == [kind |-> "lost", doc |-> NoDoc, proofAt |-> 0, proofEtag |-> NoEtag,
             genuine |-> FALSE]

SyncPhases == {"idle", "asking", "answered", "policy", "doc", "record", "dropPolicy", "dropDoc",
               "dropRecord", "save", "release"}
Idle == [phase |-> "idle", locked |-> FALSE, copy |-> NoMeta, intact |-> TRUE, etag |-> NoEtag,
         answer |-> NoAnswer, ok |-> FALSE]

--------------------------------------------------------------------------
(* The files, as every hook call reads them.                              *)

Managed == docFile # NoDoc

\* Which computers are checked on use: those with a record, or latched ones under workspace rules.
TrustApplies == answerRecord # NoRecord \/ (meta.latch /\ (Managed \/ meta.rev # 0))

\* Mutant: the compiled policy's hash is not looked at.
TrustOk_DocOnly ==
  answerRecord # NoRecord /\ answerRecord.answer = docFile /\ answerRecord.doc = docFile

\* The document is the recorded answer, and both files are as they were when it was recorded.
TrustOk ==
  /\ answerRecord # NoRecord
  /\ answerRecord.answer = docFile
  /\ answerRecord.doc = docFile
  /\ answerRecord.policy = policyFile

\* The files are those of the version the rules state names.
Intact == TrustApplies => TrustOk /\ answerRecord.answer.rev = meta.rev

\* The workspace's allowance lets a blocked action through on this computer: a mismatch refuses all.
GrantLive ==
  /\ docFile.grant
  /\ TrustApplies => TrustOk
  /\ meta.proofAt # 0 => rulesClock <= meta.proofAt + FreshFor

--------------------------------------------------------------------------
(* What an answer may do, seen from the copy m of the rules state.        *)

Enforces(m) == SignatureMode = "enforce" \/ m.latch

\* Mutant: an older signed answer is no replay.
Verified_NoReplay(a, m) == a.doc.signed

\* A signature verifies unless the answer is older than the newest one accepted.
Verified(a, m) == a.doc.signed /\ a.doc.issued >= m.issued

\* Mutant: the latch is not looked at.
Admitted_Dual(a, m) == IF a.doc.signed THEN Verified(a, m) ELSE SignatureMode = "dual"

\* Signed answers must verify; unsigned ones are admitted only in dual mode.
Admitted(a, m) == IF a.doc.signed THEN Verified(a, m) ELSE ~Enforces(m)

\* A revocation must be no older than what was accepted, answers and proofs alike.
RevocationHolds(a, m) == Verified(a, m) /\ a.doc.issued >= m.proofAt

\* A freshness proof is for the given ETag and no older than the one kept.
ProofHolds(a, m, etag) == a.proofAt # 0 /\ a.proofEtag = etag /\ a.proofAt >= m.proofAt

\* Mutant: a proof's time is rounded up.
TakeFreshness_Later(a, m, etag) ==
  IF ProofHolds(a, m, etag)
  THEN [m EXCEPT !.proofEtag = etag, !.proofAt = a.proofAt + 1, !.latch = TRUE] ELSE m

TakeFreshness(a, m, etag) ==
  IF ProofHolds(a, m, etag)
  THEN [m EXCEPT !.proofEtag = etag, !.proofAt = a.proofAt, !.latch = TRUE] ELSE m

\* The replay mark and the latch move with a verified answer.
Accept(a, m) == IF a.doc.signed THEN [m EXCEPT !.issued = a.doc.issued, !.latch = TRUE] ELSE m

EtagOf(d) == [rev |-> d.rev, grant |-> d.grant]

\* The rules state once the answer's document is in force.
InForce(a, m) ==
  LET accepted == Accept(a, [m EXCEPT !.rev = a.doc.rev, !.etag = EtagOf(a.doc)])
  IN IF a.doc.signed THEN TakeFreshness(a, accepted, EtagOf(a.doc)) ELSE accepted

\* The rules state once the computer is back on its own rules.
OwnRules(a, m) ==
  LET accepted == Accept(a, [m EXCEPT !.rev = 0, !.etag = NoEtag])
  IN IF a.doc.signed /\ a.kind = "noRules" THEN TakeFreshness(a, accepted, NoEtag) ELSE accepted

--------------------------------------------------------------------------
(* What a check does with its answer: each gives its next locals.         *)

\* Write the rules state m and be done; ok: the check worked (it clears last_error).
SaveOnly(s, m, ok) ==
  [Idle EXCEPT !.phase = "save", !.locked = s.locked, !.copy = m, !.answer = s.answer, !.ok = ok]

\* Back to the computer's own rules, which only a managed computer left.
Drop(s, m, ok) == [SaveOnly(s, m, ok) EXCEPT !.phase = IF Managed THEN "dropPolicy" ELSE "save"]

OnGone(s) ==
  LET a == s.answer  m == s.copy
  IN IF ~RevocationHolds(a, m) /\ Enforces(m) /\ Managed THEN SaveOnly(s, m, FALSE)
     ELSE Drop(s, IF RevocationHolds(a, m) THEN OwnRules(a, m)
                  ELSE [m EXCEPT !.rev = 0, !.etag = NoEtag], FALSE)

OnNoRules(s) ==
  IF Admitted(s.answer, s.copy) THEN Drop(s, OwnRules(s.answer, s.copy), TRUE)
  ELSE SaveOnly(s, s.copy, FALSE)

OnSame(s) ==
  LET a == s.answer  m == s.copy
  IN IF Managed /\ m.rev # 0
     THEN SaveOnly(s, TakeFreshness(a, m, m.etag), a.proofAt = 0 \/ ProofHolds(a, m, m.etag))
     ELSE SaveOnly(s, m, FALSE)

\* Mutant: other grants at the same version pass for unchanged.
Switched_Never(a) == FALSE

\* The same version with other grants is a change to install.
Switched(a) == a.doc.grant # docFile.grant

OnRules(s) ==
  LET a == s.answer  m == s.copy
      same == s.intact /\ Managed /\ m.rev # 0 /\ a.doc.rev = m.rev
      switched == same /\ Switched(a)
      again == same /\ ~switched
      reinstall == again /\ a.doc.signed /\ answerRecord = NoRecord
      stale == s.intact /\ ~switched /\ ~reinstall /\ Managed /\ a.doc.rev <= m.rev
  IN IF again /\ ~reinstall /\ Admitted(a, m) THEN SaveOnly(s, InForce(a, m), TRUE)
     ELSE IF stale \/ ~Admitted(a, m) THEN SaveOnly(s, m, FALSE)
     ELSE [s EXCEPT !.phase = "policy"]

--------------------------------------------------------------------------
(* The workspace and the time.                                            *)

RulesInit ==
  /\ workspace \in [rev : {1}, managed : {TRUE}, grant : {TRUE}, signs : BOOLEAN,
                    connected : {TRUE}]
  /\ rulesClock = 1
  /\ lastGranted = 1
  /\ oldAnswer = NoAnswer
  /\ policyFile = 0 /\ docFile = NoDoc /\ answerRecord = NoRecord
  /\ meta = NoMeta
  /\ syncLock = "none"
  /\ sync = [c \in Checks |-> Idle]
  /\ noting = {} /\ unguarded = FALSE
  /\ verifiedOnce = FALSE
  /\ stops = 0

Grants(w) == w.managed /\ w.grant /\ w.connected

\* What may have become of the workspace a tick later: a new version, an allowance revoked at the
\* same version, rules taken away or set again, this computer disconnected, answers signed.
Changed ==
  {w \in {[workspace EXCEPT !.rev = @ + 1], [workspace EXCEPT !.grant = FALSE],
          [workspace EXCEPT !.managed = ~@], [workspace EXCEPT !.connected = FALSE],
          [workspace EXCEPT !.signs = TRUE]} : w.rev <= MaxRev}

\* Time passes.  Answers issued at the same time are the same: the workspace changes between them.
TimePasses ==
  /\ rulesClock < MaxTime
  /\ rulesClock' = rulesClock + 1
  /\ workspace' \in {workspace} \cup Changed
  /\ lastGranted' = IF Grants(workspace') THEN rulesClock + 1 ELSE lastGranted
  /\ UNCHANGED <<oldAnswer, files, meta, locks, sync, verifiedOnce, stops>>

--------------------------------------------------------------------------
(* Who else is at work.                                                   *)

Busy(c) == sync[c].phase # "idle"

\* Mutant: the lock does not keep a second check out.
MayStart_Always(c, locked) == TRUE

\* A check of a hook call starts only when it has made the lock.
MayStart(c, locked) == locked => syncLock = "none"

\* Check c starts beside one at work, and one of the two takes no lock.
Beside(c, locked) ==
  \E d \in Checks \ {c} : Busy(d) /\ ~(locked /\ sync[d].locked)

\* A lock found older than two minutes is removed, whichever is there by then: its check may be at
\* work still (a suspended process, a clock that jumped), or it was made since the look.
RemoveStaleLock ==
  /\ syncLock # "none"
  /\ syncLock' = "none"
  /\ unguarded' = (unguarded \/ (Busy(syncLock) /\ sync[syncLock].locked))
  /\ UNCHANGED <<outside, oldAnswer, files, meta, sync, noting, verifiedOnce, stops>>

\* A hook call meets files that do not match their signed answer, and reads the rules state...
NoteMismatch ==
  /\ TrustApplies /\ ~TrustOk
  /\ noting = {}
  /\ noting' = {meta}
  /\ UNCHANGED <<outside, oldAnswer, files, meta, syncLock, sync, unguarded, verifiedOnce, stops>>

\* ...and writes it back whole, with the mismatch noted; no lock is taken.
WriteNote ==
  /\ noting # {}
  /\ meta' \in noting
  /\ noting' = {}
  /\ UNCHANGED <<outside, oldAnswer, files, syncLock, sync, unguarded, verifiedOnce, stops>>

--------------------------------------------------------------------------
(* One rules check.                                                       *)

\* Read the rules state and the files, once, and ask; locked: it is a hook call's (syncIfDue).
StartCheck(c, locked) ==
  /\ sync[c].phase = "idle"
  /\ MayStart(c, locked)
  /\ syncLock' = IF locked THEN c ELSE syncLock
  /\ sync' = [sync EXCEPT ![c] =
       [Idle EXCEPT !.phase = "asking", !.locked = locked, !.copy = meta, !.intact = Intact,
                    !.etag = IF Managed /\ Intact THEN meta.etag ELSE NoEtag]]
  /\ unguarded' = (unguarded \/ Beside(c, locked))
  /\ UNCHANGED <<outside, oldAnswer, files, meta, noting, verifiedOnce, stops>>

\* What the workspace answers to a check that holds the version with this ETag.
WorkspaceAnswer(etag) ==
  LET w == workspace
      doc == [rev |-> IF w.connected /\ w.managed THEN w.rev ELSE 0,
              grant |-> Grants(w), issued |-> rulesClock, signed |-> w.signs]
  IN [kind |-> IF ~w.connected THEN "gone" ELSE IF ~w.managed THEN "noRules"
               ELSE IF etag = EtagOf(doc) THEN "same" ELSE "rules",
      doc |-> doc, proofAt |-> IF w.signs /\ w.connected THEN rulesClock ELSE 0,
      proofEtag |-> EtagOf(doc), genuine |-> TRUE]

\* The workspace's answer arrives; a proxy may keep a copy of a rules answer.
WorkspaceAnswers(c) ==
  /\ sync[c].phase = "asking"
  /\ LET a == WorkspaceAnswer(sync[c].etag)
     IN /\ sync' = [sync EXCEPT ![c].phase = "answered", ![c].answer = a]
        /\ oldAnswer' \in {oldAnswer, IF a.kind = "rules" THEN [a EXCEPT !.genuine = FALSE]
                                     ELSE oldAnswer}
  /\ UNCHANGED <<outside, files, meta, locks, verifiedOnce, stops>>

\* No answer, an unsigned one of a portal, or the copy a proxy kept.
OtherAnswers(c) ==
  /\ sync[c].phase = "asking"
  /\ \E a \in {oldAnswer} \cup
              {[NoAnswer EXCEPT !.kind = k] : k \in {"lost", "gone", "noRules", "same"}} :
       sync' = [sync EXCEPT ![c].phase = "answered", ![c].answer = a]
  /\ UNCHANGED <<outside, oldAnswer, files, meta, locks, verifiedOnce, stops>>

HandleAnswer(c) ==
  /\ sync[c].phase = "answered"
  /\ LET s == sync[c]
     IN /\ sync' = [sync EXCEPT ![c] =
             CASE s.answer.kind = "gone" -> OnGone(s)
               [] s.answer.kind = "noRules" -> OnNoRules(s)
               [] s.answer.kind = "same" -> OnSame(s)
               [] s.answer.kind = "rules" -> OnRules(s)
               [] OTHER -> SaveOnly(s, s.copy, FALSE)]
        /\ verifiedOnce' = (verifiedOnce \/ Verified(s.answer, s.copy))
  /\ UNCHANGED <<outside, oldAnswer, files, meta, locks, stops>>

\* installManaged: policy.json, then managed-rules.json.
InstallPolicy(c) ==
  /\ sync[c].phase = "policy"
  /\ policyFile' = sync[c].answer.doc.rev
  /\ sync' = [sync EXCEPT ![c].phase = "doc"]
  /\ UNCHANGED <<outside, oldAnswer, docFile, answerRecord, meta, locks, verifiedOnce, stops>>

InstallDoc(c) ==
  /\ sync[c].phase = "doc"
  /\ docFile' = sync[c].answer.doc
  /\ sync' = [sync EXCEPT ![c].phase = "record"]
  /\ UNCHANGED <<outside, oldAnswer, policyFile, answerRecord, meta, locks, verifiedOnce, stops>>

\* A verified answer is kept with the hashes of the files as they are now; else none is kept.
KeepRecord(c) ==
  /\ sync[c].phase = "record"
  /\ answerRecord' = IF sync[c].answer.doc.signed
                     THEN [answer |-> sync[c].answer.doc, policy |-> policyFile, doc |-> docFile]
                     ELSE NoRecord
  /\ sync' = [sync EXCEPT ![c] = SaveOnly(@, InForce(@.answer, @.copy), TRUE)]
  /\ UNCHANGED <<outside, oldAnswer, policyFile, docFile, meta, locks, verifiedOnce, stops>>

\* A file cannot be written: the check ends, with the latch the answer set.
InstallFails(c) ==
  /\ sync[c].phase \in {"policy", "doc"}
  /\ stops < MaxStops
  /\ stops' = stops + 1
  /\ LET m == [sync[c].copy EXCEPT !.latch = @ \/ sync[c].answer.doc.signed]
     IN sync' = [sync EXCEPT ![c] = SaveOnly(@, m, FALSE)]
  /\ UNCHANGED <<outside, oldAnswer, files, meta, locks, verifiedOnce>>

\* restoreLocal: policy.json, then the document and the record are removed.
DropPolicy(c) ==
  /\ sync[c].phase = "dropPolicy"
  /\ policyFile' = 0
  /\ sync' = [sync EXCEPT ![c].phase = "dropDoc"]
  /\ UNCHANGED <<outside, oldAnswer, docFile, answerRecord, meta, locks, verifiedOnce, stops>>

DropDoc(c) ==
  /\ sync[c].phase = "dropDoc"
  /\ docFile' = NoDoc
  /\ sync' = [sync EXCEPT ![c].phase = "dropRecord"]
  /\ UNCHANGED <<outside, oldAnswer, policyFile, answerRecord, meta, locks, verifiedOnce, stops>>

DropRecord(c) ==
  /\ sync[c].phase = "dropRecord"
  /\ answerRecord' = NoRecord
  /\ sync' = [sync EXCEPT ![c].phase = "save"]
  /\ UNCHANGED <<outside, oldAnswer, policyFile, docFile, meta, locks, verifiedOnce, stops>>

\* After the confirmation: the whole rules state, from the copy made at the start.
SaveMeta(c) ==
  /\ sync[c].phase = "save"
  /\ meta' = sync[c].copy
  /\ sync' = [sync EXCEPT ![c].phase = "release"]
  /\ unguarded' = (unguarded \/ noting # {})
  /\ UNCHANGED <<outside, oldAnswer, files, syncLock, noting, verifiedOnce, stops>>

\* The lock file is removed, whosever it is by now.
ReleaseLock(c) ==
  /\ sync[c].phase = "release"
  /\ syncLock' = IF sync[c].locked THEN "none" ELSE syncLock
  /\ sync' = [sync EXCEPT ![c] = Idle]
  /\ UNCHANGED <<outside, oldAnswer, files, meta, noting, unguarded, verifiedOnce, stops>>

\* The process ends: the hook call's cap passed while it awaited, or it was killed.
StopCheck(c) ==
  /\ sync[c].phase \in EndsAt \ {"idle", "release"}
  /\ stops < MaxStops
  /\ stops' = stops + 1
  /\ sync' = [sync EXCEPT ![c] = Idle]
  /\ UNCHANGED <<outside, oldAnswer, files, meta, locks, verifiedOnce>>

RulesNext ==
  \/ TimePasses \/ RemoveStaleLock \/ NoteMismatch \/ WriteNote
  \/ \E c \in Checks :
       \/ \E locked \in BOOLEAN : StartCheck(c, locked)
       \/ WorkspaceAnswers(c) \/ OtherAnswers(c) \/ HandleAnswer(c)
       \/ InstallPolicy(c) \/ InstallDoc(c) \/ KeepRecord(c) \/ InstallFails(c)
       \/ DropPolicy(c) \/ DropDoc(c) \/ DropRecord(c)
       \/ SaveMeta(c) \/ ReleaseLock(c) \/ StopCheck(c)

RulesSpec == RulesInit /\ [][RulesNext]_rulesVars

--------------------------------------------------------------------------
(* Properties.                                                            *)

RulesTypeOK ==
  /\ workspace \in [rev : 1..MaxRev, managed : BOOLEAN, grant : BOOLEAN, signs : BOOLEAN,
                    connected : BOOLEAN]
  /\ rulesClock \in 1..MaxTime /\ lastGranted \in 1..MaxTime
  /\ oldAnswer \in Answers
  /\ policyFile \in Revs /\ docFile \in Docs /\ answerRecord \in Records
  /\ meta \in Metas
  /\ syncLock \in Checks \cup {"none"}
  /\ sync \in [Checks -> [phase : SyncPhases, locked : BOOLEAN, copy : Metas, intact : BOOLEAN,
                          etag : Etags, answer : Answers, ok : BOOLEAN]]
  /\ noting \subseteq Metas
  /\ {verifiedOnce, unguarded} \subseteq BOOLEAN /\ stops \in 0..MaxStops

\* The files change only at the hands of check c, in a step of its own.
Changes(c) == sync[c].phase # sync'[c].phase /\ files # files'

\* The latch and the replay mark of the rules state are not put back.
KeepsAccepted ==
  /\ meta.latch => meta'.latch
  /\ meta.issued <= meta'.issued

\* "From then on this computer accepts only signed answers" (managed.ts, policy_latch) and "an
\* older signed answer is refused as a replay" (policy_issued_at): whatever ends a check, and
\* whoever starts the next, the saved latch and replay mark are never put back by the copy another
\* check writes, until two of them meet without the lock.
AcceptedStays == [][~unguarded => KeepsAccepted]_rulesVars

\* The same of every step: "Once any answer from a workspace verifies, this computer records it and
\* treats that workspace as in enforce mode from then on" (policy-freshness.ts:3-4).
AcceptedForGood == [][KeepsAccepted]_rulesVars

\* Once the rules state is latched, no unsigned answer installs or drops rules, through every
\* stopped check, portal and old copy (policy-freshness.ts:3-7), until two checks meet unlocked.
UnsignedRefusedOnceLatched ==
  [][~unguarded /\ meta.latch =>
       \A c \in Checks : Changes(c) => sync[c].answer.doc.signed]_rulesVars

\* When the check on use passes, the compiled policy is the one the workspace's document stands
\* for, whatever step of an earlier install or drop was the last one (policy-trust.ts:1-2), until
\* two checks meet unlocked.
TrustedMeansExplained ==
  ~unguarded /\ TrustApplies /\ TrustOk => policyFile = docFile.rev /\ docFile.signed

\* A check that worked on the workspace's own answer, with no other beside it, leaves the computer
\* with the rules the workspace held when it answered, or with a mismatch that refuses every call:
\* a 304 and an "unchanged" are believed only of files that are what the rules state says they are.
CheckedMeansCurrent ==
  \A c \in Checks :
    ~unguarded /\ sync[c].phase = "release" /\ sync[c].ok /\ sync[c].answer.genuine =>
      LET d == sync[c].answer.doc
      IN /\ d.rev = 0 => docFile = NoDoc
         /\ d.rev # 0 /\ TrustApplies /\ TrustOk =>
              policyFile = d.rev /\ docFile.rev = d.rev /\ docFile.grant = d.grant

\* "Past valid_until, the workspace's grants stop allowing anything" (policy-freshness.ts:26): an
\* allowance the workspace took back lets nothing through once the longest proof that can have
\* covered it has run out, whatever answers are withheld, unsigned or old, until two checks meet
\* unlocked.
GrantStopsInTime ==
  ~unguarded /\ meta.proofAt # 0 /\ GrantLive => rulesClock <= lastGranted + FreshFor

\* "Once any answer from a workspace verifies, this computer records it and treats that workspace
\* as in enforce mode from then on: a 204 is ignored" (policy-freshness.ts:3-6), also when the
\* check that verified it ended before it saved the latch.
OnceVerifiedAlwaysSigned ==
  [][~unguarded /\ verifiedOnce =>
       \A c \in Checks : Changes(c) => sync[c].answer.doc.signed]_rulesVars
=============================================================================
