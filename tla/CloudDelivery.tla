---------------------------- MODULE CloudDelivery ----------------------------
(***************************************************************************)
(* Delivery to the workspace: the exporter's flush, one at a time in each  *)
(* process (flushOnce and sendSummaries, packages/gateway/src/cloud.ts),   *)
(* over the queue all of them share, with the hook's backfill of receipts  *)
(* the queue never got (packages/hook/src/delivery-repair.ts).             *)
(*                                                                         *)
(* A step is one transaction or statement of the queue, or one request and *)
(* what came of it: answered, lost on the way, or answered with the answer *)
(* lost.  Backoff only delays a flush, which may begin at any time.        *)
(***************************************************************************)
EXTENDS CloudOutbox

CONSTANTS
  Fate,          \* receipt -> what the workspace makes of it: "good", "early"
                 \* (refused until some time passed), "refused" or "large"
  Flushers,      \* processes that deliver
  StartPlain,    \* those that never summarise
  BatchSize,     \* receipts in one request
  MaxFaults      \* bound of a run: calls that fail, die or lose their answer

ASSUME DeliveryAssumption ==
  /\ Fate \in [Receipts -> {"good", "early", "refused", "large"}]
  /\ StartPlain \subseteq Flushers
  /\ BatchSize \in Nat \ {0} /\ MaxFaults \in Nat

VARIABLES
  offered,   \* receipts the exporter's enqueue was called for
  missed,    \* BACKFILL_FILE: receipts whose enqueue failed
  work,      \* WORK_FILE: those a backfill is on
  backfill,  \* what that backfill found unknown to the queue
  flush,     \* flusher -> the flush in progress
  plain,     \* flusher -> it does not summarise (or summariesRefused)
  over,      \* windows ended, with their grace
  held,      \* workspace: the receipts it holds
  covered,   \* workspace: window -> the receipts its summary stands for
  reopened,  \* history: windows a receipt was queued in after they were over
  dropped,   \* history: receipts a flush took out as gaps and never recorded as such
  faults     \* bound: such calls so far

repair == <<missed, work, backfill>>
workspace == <<held, covered>>
history == <<reopened, dropped>>
vars == <<outbox, offered, repair, flush, plain, over, workspace, history, faults>>

NoFlush == [at |-> "idle", batch |-> {}, gaps |-> {}, kept |-> {}, late |-> {},
            group |-> {}, todo |-> {}, isolate |-> FALSE, limit |-> BatchSize]

(* A call fails, dies, or its answer is lost.                              *)
Fails == faults < MaxFaults /\ faults' = faults + 1

At(f, place) == flush[f].at = place

Go(f, c) == flush' = [flush EXCEPT ![f] = c]

Look(f, c) == Go(f, [c EXCEPT !.at = "looking", !.batch = {}, !.gaps = {}, !.group = {}])

Stop(f) == Go(f, NoFlush)

Notable(r) == WindowOf[r] = None

In(w, rs) == {r \in rs : WindowOf[r] = w}

-----------------------------------------------------------------------------
(* Receipts reach the queue.                                               *)

(* The queue is told of a receipt, whose window may be over by then.       *)
Queues(r) ==
  /\ Enqueue(r)
  /\ reopened' = reopened \cup (over \cap {WindowOf[r]})

Offer(r) ==
  /\ r \notin offered /\ offered' = offered \cup {r}
  /\ Queues(r)
  /\ UNCHANGED <<acked, windows, repair, flush, plain, over, workspace, dropped, faults>>

(* enqueue threw; the miss is noted beside the queue.                      *)
OfferFails(r) ==
  /\ r \notin offered /\ offered' = offered \cup {r}
  /\ missed' = missed \cup {r}
  /\ Fails
  /\ UNCHANGED <<outbox, work, backfill, flush, plain, over, workspace, history>>

(* backfillQueue: the misses are claimed and what the queue does not know  *)
(* is read, then queued one by one, then each miss is kept as a gap.       *)
BackfillReads ==
  /\ work = {} /\ missed # {}
  /\ work' = missed /\ missed' = {}
  /\ backfill' = {r \in offered : ~Known(IdOf[r])}
  /\ UNCHANGED <<outbox, offered, flush, plain, over, workspace, history, faults>>

BackfillQueues ==
  /\ \E r \in backfill : backfill' = backfill \ {r} /\ Queues(r)
  /\ UNCHANGED <<acked, windows, offered, missed, work, flush, plain, over, workspace, dropped,
                 faults>>

BackfillEnds ==
  /\ work # {} /\ backfill = {}
  /\ gaps' = gaps \cup {Gap(r, "outbox_error") : r \in work}
  /\ work' = {}
  /\ UNCHANGED <<queue, age, acked, windows, offered, missed, backfill, flush, plain, over,
                 workspace, history, faults>>

(* It failed or died: the misses are given back, or taken over later.      *)
BackfillFails ==
  /\ Fails
  /\ work # {}
  /\ missed' = missed \cup work /\ work' = {} /\ backfill' = {}
  /\ UNCHANGED <<outbox, offered, flush, plain, over, workspace, history>>

-----------------------------------------------------------------------------
(* A flush: look at the queue, send what is due, settle it, look again.    *)

FlushStart(f) ==
  /\ At(f, "idle") /\ queue # <<>>
  /\ Look(f, NoFlush)
  /\ UNCHANGED <<outbox, offered, repair, plain, over, workspace, history, faults>>

(* What a pass sees: everything but what this flush keeps back.            *)
Seen(f) == ToSet(queue) \ (TooOld \cup flush[f].kept)

(* Sent as receipts, in the queue's order: everything, or with summaries   *)
(* the notable ones first, then those of a window already summarised.      *)
Full(f) ==
  IF plain[f] THEN Keep(queue, Seen(f))
  ELSE Keep(queue, {r \in Seen(f) : Notable(r)}) \o Keep(queue, Seen(f) \cap flush[f].late)

(* Summarised: the others, once their window is over.                      *)
Closed(f) ==
  IF plain[f] THEN {} ELSE {r \in Seen(f) \ flush[f].late : WindowOf[r] \in over}

Batch(f) ==
  LET n == IF flush[f].isolate THEN 1 ELSE flush[f].limit
  IN  ToSet(SubSeq(Full(f), 1, IF n < Len(Full(f)) THEN n ELSE Len(Full(f))))

Pass(f) ==
  LET c == flush[f] IN
  /\ At(f, "looking")
  /\ queue' = Unexpired /\ gaps' = gaps \cup ExpiredGaps
  /\ \/ /\ Full(f) # <<>>
        /\ Go(f, [c EXCEPT !.at = "posting", !.batch = Batch(f)])
     \/ /\ Full(f) = <<>> /\ Closed(f) # {}
        /\ Go(f, [c EXCEPT !.at = "claiming", !.group = Closed(f),
                           !.todo = {WindowOf[r] : r \in Closed(f)}])
     \/ /\ Full(f) = <<>> /\ Closed(f) = {}
        /\ Stop(f)
  /\ UNCHANGED <<age, acked, windows, offered, repair, plain, over, workspace, history, faults>>

-----------------------------------------------------------------------------
(* POST /v1/ingest.                                                        *)

(* The workspace holds other evidence under the same id.                   *)
Conflicts(r) == \E h \in held : IdOf[h] = IdOf[r] /\ h # r

Large(r) == Fate[r] = "large"

Stores(batch, early) ==
  {r \in batch : Fate[r] = "good"} \cup {r \in early : Fate[r] = "early"}

(* 413: smaller batches until the record is alone, then it is a gap.       *)
TooLarge(f) ==
  LET c == flush[f]  n == Cardinality(c.batch) IN
  /\ At(f, "posting") /\ \E r \in c.batch : Large(r)
  /\ IF n > 1 THEN Look(f, [c EXCEPT !.limit = (n + 1) \div 2])
     ELSE Go(f, [c EXCEPT !.at = "settling", !.limit = BatchSize,
                          !.gaps = {Gap(r, "oversize") : r \in c.batch}])
  /\ UNCHANGED <<outbox, offered, repair, plain, over, workspace, history, faults>>

(* 409: one at a time until the record is found, then it is a gap.         *)
(* Mutant: a refused batch is sent again as it was.                        *)
IdConflict_SameBatch(f) ==
  /\ At(f, "posting")
  /\ ~\E r \in flush[f].batch : Large(r)
  /\ \E r \in flush[f].batch : Conflicts(r)
  /\ Look(f, flush[f])
  /\ UNCHANGED <<outbox, offered, repair, plain, over, workspace, history, faults>>

IdConflict(f) ==
  LET c == flush[f] IN
  /\ At(f, "posting")
  /\ ~\E r \in c.batch : Large(r)
  /\ \E r \in c.batch : Conflicts(r)
  /\ IF Cardinality(c.batch) > 1 THEN Look(f, [c EXCEPT !.isolate = TRUE])
     ELSE Go(f, [c EXCEPT !.at = "settling", !.isolate = FALSE,
                          !.gaps = {Gap(r, "id_conflict") : r \in c.batch}])
  /\ UNCHANGED <<outbox, offered, repair, plain, over, workspace, history, faults>>

(* Answered record by record: stored, kept back for later, or refused for  *)
(* good.  early: those whose time has come for the workspace.              *)
KeepForClock(r) == Fate[r] = "early" /\ age[r] = 0

Answered(f, early) ==
  LET c == flush[f]
      back == {r \in c.batch \ early : KeepForClock(r)}
      refused == c.batch \ (Stores(c.batch, early) \cup back)
  IN  /\ At(f, "posting")
      /\ \A r \in c.batch : ~Large(r) /\ ~Conflicts(r)
      /\ held' = held \cup Stores(c.batch, early)
      /\ IF back = c.batch THEN Look(f, [c EXCEPT !.kept = @ \cup back])
         ELSE Go(f, [c EXCEPT !.at = "settling", !.batch = @ \ back, !.kept = @ \cup back,
                              !.gaps = {Gap(r, "rejected") : r \in refused}])
      /\ UNCHANGED <<outbox, offered, repair, plain, over, covered, history, faults>>

IngestAnswers(f) ==
  \E early \in SUBSET {r \in flush[f].batch : Fate[r] = "early"} : Answered(f, early)

(* No answer, or one worth retrying: the batch may have been stored.       *)
PostFails(f) ==
  /\ At(f, "posting") /\ Fails
  /\ \/ UNCHANGED held
     \/ /\ \A r \in flush[f].batch : ~Large(r) /\ ~Conflicts(r)
        /\ \E early \in SUBSET flush[f].batch : held' = held \cup Stores(flush[f].batch, early)
  /\ Stop(f)
  /\ UNCHANGED <<outbox, offered, repair, plain, over, covered, history>>

(* acknowledge, then recordGap for each refused record.                    *)
After(c) == [c EXCEPT !.at = IF c.gaps # {} THEN "gapping"
                             ELSE IF c.todo # {} THEN "marking" ELSE "looking",
                      !.batch = {}]

Settle(f) ==
  LET c == flush[f] IN
  /\ At(f, "settling")
  /\ Acknowledge(c.batch, c.batch \ {g.rec : g \in c.gaps})
  /\ Go(f, After([c EXCEPT !.group = @ \ c.batch]))
  /\ UNCHANGED <<age, gaps, windows, offered, repair, plain, over, workspace, history, faults>>

RecordGap(f) ==
  LET c == flush[f] IN
  /\ At(f, "gapping")
  /\ \E g \in c.gaps : gaps' = gaps \cup {g} /\ Go(f, After([c EXCEPT !.gaps = @ \ {g}]))
  /\ UNCHANGED <<queue, age, acked, windows, offered, repair, plain, over, workspace, history,
                 faults>>

(* A flush ends with gaps it has not recorded: nothing else knows of them. *)
Forgets(f) ==
  dropped' = dropped \cup (IF At(f, "gapping") THEN {g.rec : g \in flush[f].gaps} ELSE {})

(* recordGap throws: the flush ends, the rest of the gaps with it.         *)
RecordGapFails(f) ==
  /\ At(f, "gapping") /\ Fails
  /\ Stop(f) /\ Forgets(f)
  /\ UNCHANGED <<outbox, offered, repair, plain, over, workspace, reopened>>

-----------------------------------------------------------------------------
(* POST /v1/summaries.                                                     *)

(* Each window is claimed; one already sent goes in full, one another      *)
(* flush is sending is kept back.                                          *)
ClaimWindow(f) ==
  LET c == flush[f] IN
  /\ At(f, "claiming")
  /\ \E w \in c.todo :
       LET mine == In(w, c.group)
           rest == [c EXCEPT !.todo = @ \ {w}]
           next == CASE Claim(w) = "claimed" -> rest
                     [] Claim(w) = "sent" -> [rest EXCEPT !.group = @ \ mine, !.late = @ \cup mine]
                     [] Claim(w) = "busy" -> [rest EXCEPT !.group = @ \ mine, !.kept = @ \cup mine]
       IN  /\ windows' = IF Claim(w) = "claimed" THEN Claimed(w) ELSE windows
           /\ Go(f, [next EXCEPT !.at = IF next.todo # {} THEN "claiming"
                                        ELSE IF next.group # {} THEN "summing" ELSE "looking"])
  /\ UNCHANGED <<queue, age, gaps, acked, offered, repair, plain, over, workspace, history, faults>>

Mine(f) == {WindowOf[r] : r \in flush[f].group}

(* A summary the workspace holds already is a duplicate, whatever this     *)
(* one stands for.                                                         *)
Covers(f, ws) ==
  [w \in Windows |-> IF w \in ws /\ covered[w] = {} THEN In(w, flush[f].group) ELSE covered[w]]

(* 200, some summaries refused on their own: their receipts go in full.    *)
SummariesAnswered(f) ==
  LET c == flush[f] IN
  /\ At(f, "summing")
  /\ \E refused \in SUBSET Mine(f) :
       /\ \A w \in refused : covered[w] = {}
       /\ covered' = Covers(f, Mine(f) \ refused)
       /\ Go(f, [c EXCEPT !.at = "marking", !.todo = Mine(f),
                          !.late = @ \cup {r \in c.group : WindowOf[r] \in refused}])
  /\ UNCHANGED <<outbox, offered, repair, plain, over, held, history, faults>>

(* 404, or every one refused: no summaries from this process any more.     *)
SummariesRefused(f) ==
  /\ At(f, "summing") /\ \A w \in Mine(f) : covered[w] = {}
  /\ windows' = Released(Mine(f))
  /\ plain' = [plain EXCEPT ![f] = TRUE]
  /\ Look(f, flush[f])
  /\ UNCHANGED <<queue, age, gaps, acked, offered, repair, over, workspace, history, faults>>

SummariesFail(f) ==
  /\ At(f, "summing") /\ Fails
  /\ UNCHANGED covered \/ covered' = Covers(f, Mine(f))
  /\ windows' = Released(Mine(f))
  /\ Stop(f)
  /\ UNCHANGED <<queue, age, gaps, acked, offered, repair, plain, over, held, history>>

(* markWindowSent, then the receipts of a window that was taken leave.     *)
MarkSent(f) ==
  LET c == flush[f] IN
  /\ At(f, "marking")
  /\ \E w \in c.todo :
       LET rest == [c EXCEPT !.todo = @ \ {w}]
       IN  /\ windows' = MarkedSent(w)
           /\ IF In(w, c.group) \subseteq c.late
              THEN Go(f, After([rest EXCEPT !.group = @ \ In(w, c.group)]))
              ELSE Go(f, [rest EXCEPT !.at = "settling", !.batch = In(w, c.group)])
  /\ UNCHANGED <<queue, age, gaps, acked, offered, repair, plain, over, workspace, history, faults>>

-----------------------------------------------------------------------------
(* Time (external) and crashes.                                          *)

(* Receipts get older, those queued first before the others.  The first    *)
(* step matters only for a receipt ahead of its time.                      *)
Older(r) == IF age[r] = 0 /\ Fate[r] = "early" THEN 1 ELSE 2

GetOlder(r) ==
  /\ Queued(r) /\ age[r] < Older(r)
  /\ Older(r) = 2 => /\ Expires
                     /\ \A i \in DOMAIN queue : age[queue[i]] < 2 =>
                          \E j \in 1..i : queue[j] = r
  /\ age' = [age EXCEPT ![r] = Older(r)]
  /\ UNCHANGED <<queue, gaps, acked, windows, offered, repair, flush, plain, over, workspace,
                 history, faults>>

WindowEnds(w) ==
  /\ w \notin over /\ over' = over \cup {w}
  /\ UNCHANGED <<outbox, offered, repair, flush, plain, workspace, history, faults>>

(* A lease outlives its flush, or a flush outlives its lease.              *)
LeaseEnds(w) ==
  /\ windows[w].leased /\ windows' = [windows EXCEPT ![w].leased = FALSE]
  /\ UNCHANGED <<queue, age, gaps, acked, offered, repair, flush, plain, over, workspace, history,
                 faults>>

(* The process dies, whatever it was at.                                   *)
Crash(f) ==
  /\ Fails
  /\ ~At(f, "idle")
  /\ Stop(f) /\ plain' = [plain EXCEPT ![f] = f \in StartPlain]
  /\ Forgets(f)
  /\ UNCHANGED <<outbox, offered, repair, over, workspace, reopened>>

-----------------------------------------------------------------------------
Init ==
  /\ InitOutbox
  /\ offered = {} /\ missed = {} /\ work = {} /\ backfill = {}
  /\ flush = [f \in Flushers |-> NoFlush]
  /\ plain = [f \in Flushers |-> f \in StartPlain]
  /\ over = {} /\ held = {} /\ reopened = {} /\ dropped = {} /\ faults = 0
  /\ covered = [w \in Windows |-> {}]

backfillQueue == BackfillReads \/ BackfillQueues \/ BackfillEnds

sendSummaries(f) ==
  ClaimWindow(f) \/ SummariesAnswered(f) \/ SummariesRefused(f) \/ SummariesFail(f) \/ MarkSent(f)

flushOnce(f) ==
  \/ FlushStart(f) \/ Pass(f)
  \/ TooLarge(f) \/ IdConflict(f) \/ IngestAnswers(f) \/ PostFails(f)
  \/ Settle(f) \/ RecordGap(f)
  \/ sendSummaries(f)

ReceiptsAge == \E r \in Receipts : GetOlder(r)

WindowsPass == \E w \in Windows : WindowEnds(w) \/ LeaseEnds(w)

Next ==
  \/ \E r \in Receipts : Offer(r) \/ OfferFails(r)
  \/ backfillQueue \/ BackfillFails
  \/ \E f \in Flushers : flushOnce(f) \/ RecordGapFails(f) \/ Crash(f)
  \/ ReceiptsAge \/ WindowsPass

(* Timers keep flushing and repairing, windows and leases end and receipts *)
(* get older.  Failures stop after MaxFaults of them.                      *)
Fairness ==
  /\ WF_vars(backfillQueue) /\ WF_vars(ReceiptsAge) /\ WF_vars(WindowsPass)
  /\ \A f \in Flushers : WF_vars(flushOnce(f))

Spec == Init /\ [][Next]_vars

FairSpec == Spec /\ Fairness

-----------------------------------------------------------------------------
(* Properties.                                                             *)

Reasons == {"outbox_error", "capacity", "id_conflict", "expired", "oversize", "rejected"}

Places == {"idle", "looking", "posting", "settling", "gapping", "claiming", "summing", "marking"}

(* The shape of the queue's tables and of a flush.  An action id waits at  *)
(* most once.                                                              *)
TypeOK ==
  /\ queue \in Seq(Receipts) /\ Len(queue) <= MaxPending
  /\ \A i, j \in DOMAIN queue : IdOf[queue[i]] = IdOf[queue[j]] => i = j
  /\ age \in [Receipts -> 0..2]
  /\ gaps \subseteq [rec: Receipts, reason: Reasons]
  /\ acked \subseteq {IdOf[r] : r \in Receipts}
  /\ windows \in [Windows -> [named: BOOLEAN, leased: BOOLEAN, sent: BOOLEAN]]
  /\ {offered, missed, work, backfill, held, dropped} \subseteq SUBSET Receipts
  /\ plain \in [Flushers -> BOOLEAN]
  /\ over \subseteq Windows /\ reopened \subseteq Windows /\ covered \in [Windows -> SUBSET Receipts]
  /\ faults \in 0..MaxFaults
  /\ \A f \in Flushers :
       /\ flush[f].at \in Places
       /\ {flush[f].batch, flush[f].kept, flush[f].late, flush[f].group} \subseteq SUBSET Receipts
       /\ flush[f].gaps \subseteq [rec: Receipts, reason: Reasons]
       /\ flush[f].todo \subseteq Windows
       /\ flush[f].isolate \in BOOLEAN /\ flush[f].limit \in 1..BatchSize

AtWorkspace(r) == r \in held \/ \E w \in Windows : r \in covered[w]

HasGap(r) == \E g \in gaps : g.rec = r

(* A flush has taken the record out of the queue and records its gap next. *)
InHand(r) == \E f \in Flushers : At(f, "gapping") /\ \E g \in flush[f].gaps : g.rec = r

(* The workspace has the record, or the queue says so of one whose window  *)
(* got a record after it was over: its summary may not stand for both.     *)
Delivered(r) == AtWorkspace(r) \/ (WindowOf[r] \in reopened /\ IdOf[r] \in acked)

(* A record never disappears without evidence (node-stores.ts:890-891): it *)
(* waits, is with the workspace, or is an explicit gap, however flushes,   *)
(* crashes and lost answers overlap; but for a flush that ended between    *)
(* taking a refused record out of the queue and recording its gap, and for *)
(* the summary of a window that got late records.                          *)
NothingLost ==
  \A r \in offered \ dropped :
    Queued(r) \/ Delivered(r) \/ HasGap(r) \/ InHand(r) \/ r \in missed \cup work

(* "A local receipt never disappears without evidence" (node-stores.ts:    *)
(* 890-891), also when a flush ends before it recorded the gap.            *)
NeverWithoutEvidence ==
  \A r \in offered :
    Queued(r) \/ Delivered(r) \/ HasGap(r) \/ InHand(r) \/ r \in missed \cup work

(* Retention removes a local receipt only after the workspace holds it     *)
(* (node-stores.ts:1064-1065): what is marked as acknowledged is there, as *)
(* a receipt or in the summary the workspace holds of its window, unless   *)
(* that window got a receipt after it was over.                            *)
AcknowledgedIsHeld ==
  \A id \in acked : \E r \in Receipts : IdOf[r] = id /\ Delivered(r)

(* The same of every receipt, those queued late included: "Retention       *)
(* removes a local receipt only after the workspace holds it; this row is  *)
(* that proof" (node-stores.ts:1064).                                      *)
AcknowledgedAtWorkspace ==
  \A id \in acked : \E r \in Receipts : IdOf[r] = id /\ AtWorkspace(r)

(* No record holds up the ones behind it (cloud.ts:412-413): whatever is    *)
(* refused, too large, in conflict or ahead of its time, every receipt     *)
(* leaves the queue, for the workspace or as a gap (but for those that     *)
(* NothingLost leaves out).                                                *)
EventuallySettled ==
  \A r \in Receipts :
    r \in offered ~> ~Queued(r) /\ (Delivered(r) \/ HasGap(r) \/ r \in dropped)
=============================================================================
