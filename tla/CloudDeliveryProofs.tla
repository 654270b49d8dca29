------------------------ MODULE CloudDeliveryProofs ------------------------
(***************************************************************************)
(* Theorems about CloudDelivery, for any receipts, windows, flushes,       *)
(* faults and crashes.                                                     *)
(***************************************************************************)
EXTENDS CloudDelivery, SubsequencesProofs

GapRecord == [rec: Receipts, reason: Reasons]

FlushRecord ==
  [at: Places, batch: SUBSET Receipts, gaps: SUBSET GapRecord, kept: SUBSET Receipts,
   late: SUBSET Receipts, group: SUBSET Receipts, todo: SUBSET Windows, isolate: BOOLEAN,
   limit: 1..BatchSize]

Ids == {IdOf[r] : r \in Receipts}

InQueue == ToSet(queue)

(* The queue holds each receipt, and each action id, once.                 *)
QueueType ==
  /\ queue \in Seq(Receipts) /\ IsInjective(queue)
  /\ Len(queue) <= MaxPending
  /\ \A q, r \in InQueue : IdOf[q] = IdOf[r] => q = r

TablesType ==
  /\ age \in [Receipts -> 0..2]
  /\ gaps \in SUBSET GapRecord /\ acked \in SUBSET Ids
  /\ windows \in [Windows -> [named: BOOLEAN, leased: BOOLEAN, sent: BOOLEAN]]

OthersType ==
  /\ offered \in SUBSET Receipts /\ missed \in SUBSET Receipts
  /\ work \in SUBSET Receipts /\ backfill \in SUBSET Receipts
  /\ plain \in [Flushers -> BOOLEAN]
  /\ over \in SUBSET Windows
  /\ held \in SUBSET Receipts /\ covered \in [Windows -> SUBSET Receipts]
  /\ reopened \in SUBSET Windows /\ dropped \in SUBSET Receipts
  /\ faults \in 0..MaxFaults

(* What a flush carries, by where it is.                                   *)
Shape(c) ==
  /\ Cardinality(c.batch) <= BatchSize \/ c.at # "posting"
  /\ c.at \notin {"settling", "gapping"} => c.gaps = {}
  /\ c.at \in {"idle", "looking", "posting", "summing"} => c.todo = {}
  /\ \A r \in c.group : WindowOf[r] \in over

FlushType == flush \in [Flushers -> FlushRecord] /\ \A f \in Flushers : Shape(flush[f])

(* TypeOK, made inductive.                                                 *)
TypeInv == QueueType /\ TablesType /\ OthersType /\ FlushType

-----------------------------------------------------------------------------
(* What the workspace and the flushes know of a window that is over, and   *)
(* got no receipt since.                                                   *)

Sets(c) == c.late \cup c.kept

(* A flush keeps back, or sends in full, all of a window or none of it.    *)
KeptWhole(c) ==
  \A r \in Sets(c) : ~Notable(r) /\ WindowOf[r] \notin reopened =>
    /\ WindowOf[r] \in over
    /\ \A q \in InQueue : WindowOf[q] = WindowOf[r] => q \in Sets(c)

(* It summarises all that waits of a window.                               *)
SummedWhole(c) ==
  \A r \in c.group, q \in InQueue :
    WindowOf[r] \notin reopened /\ WindowOf[q] = WindowOf[r] => q \in c.group

(* The workspace's summary of a window stands for all that waits of it.    *)
CoveredWhole ==
  \A w \in Windows : covered[w] # {} =>
    w \in over /\ (w \in reopened \/ In(w, InQueue) \subseteq covered[w])

(* A window is marked as sent once it is covered, or goes in full.         *)
MarksCovered(c) ==
  c.at \in {"marking", "settling", "gapping"} =>
    \A w \in c.todo : In(w, c.group) \subseteq c.late \/ covered[w] # {}

(* What is about to leave the queue is with the workspace, or gets a gap,  *)
(* or its window got a receipt after it was over.                          *)
Excused(c, r) ==
  \/ AtWorkspace(r) \/ \E g \in c.gaps : g.rec = r
  \/ WindowOf[r] \in reopened
  \/ r \notin InQueue /\ WindowOf[r] \in over

SettlesExcused(c) == c.at = "settling" => \A r \in c.batch : Excused(c, r)

(* A flush that summarises sends a window's receipts only if all go so.    *)
PostsWhole(c) == c.at = "posting" => \A r \in c.batch : Notable(r) \/ r \in c.late

(* What holds of a flush, of a process that summarises or not.             *)
Whole(c, isPlain) ==
  /\ ~isPlain => KeptWhole(c) /\ PostsWhole(c)
  /\ SummedWhole(c) /\ MarksCovered(c) /\ SettlesExcused(c)

WholeInv ==
  /\ CoveredWhole
  /\ \A f \in Flushers : Whole(flush[f], plain[f])

-----------------------------------------------------------------------------
(* The queue.                                                              *)

LEMMA KeepQueue ==
  ASSUME QueueType, NEW S
  PROVE  /\ Keep(queue, S) \in Seq(Receipts) /\ IsInjective(Keep(queue, S))
         /\ ToSet(Keep(queue, S)) = InQueue \cap S
         /\ Len(Keep(queue, S)) <= Len(queue)
<1>1. /\ Keep(queue, S) \in Seq(Receipts) /\ IsInjective(Keep(queue, S))
      /\ ToSet(Keep(queue, S)) = InQueue \cap S
  BY KeepCorrect DEF QueueType, InQueue
<1>2. /\ IsFiniteSet(InQueue) /\ Cardinality(InQueue) = Len(queue)
      /\ Cardinality(ToSet(Keep(queue, S))) = Len(Keep(queue, S))
  BY <1>1, LenOnce DEF QueueType, InQueue
<1>3. Cardinality(InQueue \cap S) <= Cardinality(InQueue)
  BY <1>2, FS_Subset
<1> QED  BY <1>1, <1>2, <1>3

LEMMA KeepQueueType ==
  ASSUME QueueType, NEW S, queue' = Keep(queue, S)
  PROVE  QueueType' /\ InQueue' = InQueue \cap S
<1>1. /\ queue' \in Seq(Receipts) /\ IsInjective(queue') /\ InQueue' = InQueue \cap S
      /\ Len(queue') <= Len(queue)
  BY KeepQueue DEF InQueue
<1>2. Len(queue) \in Nat /\ Len(queue') \in Nat /\ MaxPending \in Nat
  BY <1>1, LimitAssumption DEF QueueType
<1> QED  BY <1>1, <1>2 DEF QueueType

LEMMA UnexpiredFacts ==
  ASSUME QueueType
  PROVE  /\ Unexpired \in Seq(Receipts) /\ IsInjective(Unexpired)
         /\ ToSet(Unexpired) = InQueue \ TooOld
         /\ Len(Unexpired) <= Len(queue)
<1>1. InQueue \subseteq Receipts  BY DEF QueueType, InQueue, ToSet
<1>2. InQueue \cap (Receipts \ TooOld) = InQueue \ TooOld  BY <1>1
<1> QED  BY <1>2, KeepQueue DEF Unexpired

(* The reasons of gaps.                                                    *)
LEMMA GapType ==
  ASSUME NEW r \in Receipts, NEW reason \in Reasons
  PROVE  Gap(r, reason) \in GapRecord /\ Gap(r, reason).rec = r
BY DEF Gap, GapRecord

LEMMA ExpiredGapsType ==
  ASSUME QueueType
  PROVE  /\ ExpiredGaps \subseteq GapRecord
         /\ \A r \in TooOld : \E g \in ExpiredGaps : g.rec = r
<1>1. TooOld \subseteq Receipts  BY DEF TooOld, QueueType, ToSet
<1>2. "expired" \in Reasons  BY DEF Reasons
<1> QED  BY <1>1, <1>2, GapType DEF ExpiredGaps

(* What enqueue leaves: whatever was in the queue is in it or is a gap.    *)
LEMMA EnqueueFacts ==
  ASSUME QueueType, TablesType, NEW r \in Receipts, Enqueue(r)
  PROVE  /\ QueueType' /\ gaps' \in SUBSET GapRecord /\ age' \in [Receipts -> 0..2]
         /\ InQueue' \subseteq InQueue \cup {r} /\ gaps \subseteq gaps'
         /\ \A q \in InQueue \cup {r} : q \in InQueue' \/ HasGap(q)'
<1> DEFINE same == {q \in ToSet(Unexpired) : IdOf[q] = IdOf[r]}
           full == Len(Unexpired) >= MaxPending
           refusal == IF r \in same THEN {}
                      ELSE IF same # {} THEN {Gap(r, "id_conflict")}
                      ELSE IF full THEN {Gap(r, "capacity")} ELSE {}
           queued == same = {} /\ ~full
<1>1. /\ queue' = IF queued THEN Append(Unexpired, r) ELSE Unexpired
      /\ gaps' = gaps \cup ExpiredGaps \cup refusal
      /\ age' = IF queued THEN [age EXCEPT ![r] = 0] ELSE age
  BY DEF Enqueue
<1>2. /\ Unexpired \in Seq(Receipts) /\ IsInjective(Unexpired)
      /\ ToSet(Unexpired) = InQueue \ TooOld
      /\ Len(Unexpired) <= Len(queue)
  BY UnexpiredFacts
<1>3. Gap(r, "id_conflict") \in GapRecord /\ Gap(r, "capacity") \in GapRecord
  BY GapType DEF Reasons
<1>4. gaps' \in SUBSET GapRecord /\ gaps \subseteq gaps'
  BY <1>1, <1>3, ExpiredGapsType DEF TablesType
<1>5. age' \in [Receipts -> 0..2]  BY <1>1 DEF TablesType
<1>6. \A q \in TooOld : HasGap(q)'
  <2> SUFFICES ASSUME NEW q \in TooOld PROVE \E g \in gaps' : g.rec = q  BY DEF HasGap
  <2> QED  BY <1>1, ExpiredGapsType
<1>7. Len(Unexpired) \in Nat /\ Len(queue) \in Nat /\ MaxPending \in Nat
  BY <1>2, LimitAssumption DEF QueueType
<1>8. CASE queued
  <2>1. r \notin ToSet(Unexpired)  BY <1>8
  <2>2. queue' = Append(Unexpired, r)  BY <1>1, <1>8
  <2>3. /\ queue' \in Seq(Receipts) /\ IsInjective(queue')
        /\ InQueue' = ToSet(Unexpired) \cup {r} /\ Len(queue') = Len(Unexpired) + 1
    BY <1>2, <2>1, <2>2, AppendOnce DEF InQueue
  <2>4. \A p, q \in InQueue' : IdOf[p] = IdOf[q] => p = q
    BY <1>2, <1>8, <2>3 DEF QueueType
  <2>5. QueueType'  BY <1>7, <1>8, <2>3, <2>4 DEF QueueType
  <2> QED  BY <1>2, <1>4, <1>5, <1>6, <2>3, <2>5
<1>9. CASE ~queued
  <2>1. queue' = Unexpired  BY <1>1, <1>9
  <2>2. InQueue' = InQueue \ TooOld  BY <1>2, <2>1 DEF InQueue
  <2>3. QueueType'  BY <1>2, <1>7, <2>1, <2>2 DEF QueueType
  <2>4. r \in InQueue' \/ HasGap(r)'
    <3>1. CASE r \in same  BY <1>2, <2>2, <3>1
    <3>2. CASE r \notin same
      <4>1. \E g \in refusal : g.rec = r  BY <1>9, <3>2 DEF Gap
      <4> QED  BY <1>1, <4>1 DEF HasGap
    <3> QED  BY <3>1, <3>2
  <2> QED  BY <1>4, <1>5, <1>6, <2>2, <2>3, <2>4
<1> QED  BY <1>8, <1>9

-----------------------------------------------------------------------------
(* What a pass sends.                                                      *)

LEMMA FullFacts ==
  ASSUME TypeInv, NEW f \in Flushers
  PROVE  /\ Full(f) \in Seq(Receipts) /\ ToSet(Full(f)) \subseteq InQueue
         /\ ~plain[f] => \A r \in ToSet(Full(f)) : Notable(r) \/ r \in flush[f].late
<1> DEFINE notable == Keep(queue, {r \in Seen(f) : Notable(r)})
           late == Keep(queue, Seen(f) \cap flush[f].late)
<1>1. /\ Keep(queue, Seen(f)) \in Seq(Receipts)
      /\ ToSet(Keep(queue, Seen(f))) \subseteq InQueue
  BY KeepQueue DEF TypeInv
<1>2. /\ notable \in Seq(Receipts)
      /\ ToSet(notable) = InQueue \cap {r \in Seen(f) : Notable(r)}
  BY KeepQueue DEF TypeInv
<1>3. /\ late \in Seq(Receipts)
      /\ ToSet(late) = InQueue \cap (Seen(f) \cap flush[f].late)
  BY KeepQueue DEF TypeInv
<1> HIDE DEF notable, late
<1>4. notable \o late \in Seq(Receipts) /\ ToSet(notable \o late) = ToSet(notable) \cup ToSet(late)
  BY <1>2, <1>3, JoinedSet
<1>5. Full(f) = IF plain[f] THEN Keep(queue, Seen(f)) ELSE notable \o late
  BY DEF Full, notable, late
<1> QED  BY <1>1, <1>2, <1>3, <1>4, <1>5

LEMMA BatchFacts ==
  ASSUME TypeInv, NEW f \in Flushers
  PROVE  /\ Batch(f) \in SUBSET Receipts /\ Batch(f) \subseteq ToSet(Full(f))
         /\ Cardinality(Batch(f)) <= BatchSize
<1> DEFINE n == IF flush[f].isolate THEN 1 ELSE flush[f].limit
           s == Full(f)
           b == IF n < Len(s) THEN n ELSE Len(s)
<1>1. flush[f] \in FlushRecord  BY DEF TypeInv, FlushType
<1>2. n \in Nat \ {0} /\ n <= BatchSize /\ BatchSize \in Nat
  <2>1. BatchSize \in Nat \ {0}  BY DeliveryAssumption
  <2>2. flush[f].limit \in 1..BatchSize  BY <1>1 DEF FlushRecord
  <2>3. CASE flush[f].isolate  BY <2>1, <2>3
  <2>4. CASE ~flush[f].isolate  BY <2>1, <2>2, <2>4
  <2> QED  BY <2>3, <2>4
<1>3. s \in Seq(Receipts)  BY FullFacts
<1>4. Batch(f) = ToSet(SubSeq(s, 1, b))  BY DEF Batch
<1> HIDE DEF s
<1>5. b \in 0..Len(s) /\ b <= n /\ 1 <= b + 1  BY <1>2, <1>3
<1> HIDE DEF n, b
<1>6. /\ SubSeq(s, 1, b) \in Seq(Receipts) /\ Len(SubSeq(s, 1, b)) = b - 1 + 1
      /\ ToSet(SubSeq(s, 1, b)) \subseteq ToSet(s)
  BY <1>3, <1>5, Piece
<1>7. IsFiniteSet(Batch(f)) /\ Cardinality(Batch(f)) <= b
  <2>1. IsFiniteSet(Batch(f)) /\ Cardinality(Batch(f)) <= Len(SubSeq(s, 1, b))
    BY <1>4, <1>6, ToSetBound
  <2>2. Cardinality(Batch(f)) \in Nat  BY <2>1, FS_CardinalityType
  <2>3. Len(SubSeq(s, 1, b)) = b  BY <1>3, <1>5, <1>6
  <2> QED  BY <2>1, <2>3
<1>8. Cardinality(Batch(f)) \in Nat  BY <1>7, FS_CardinalityType
<1>9. Cardinality(Batch(f)) <= BatchSize  BY <1>2, <1>3, <1>5, <1>7, <1>8
<1>10. ToSet(s) \subseteq Receipts  BY <1>3 DEF ToSet
<1>11. Batch(f) \subseteq ToSet(s)  BY <1>4, <1>6
<1> QED  BY <1>9, <1>10, <1>11 DEF s

-----------------------------------------------------------------------------
(* The types.  A step changes one flush, or none.                          *)

LEMMA GoType ==
  ASSUME FlushType, over' = over, NEW f \in Flushers, NEW c \in FlushRecord, Shape(c), Go(f, c)
  PROVE  FlushType'
<1>1. flush' \in [Flushers -> FlushRecord]  BY DEF FlushType, Go
<1>2. \A g \in Flushers : flush'[g] = IF g = f THEN c ELSE flush[g]  BY DEF FlushType, Go
<1>3. \A g \in Flushers : Shape(flush'[g])  BY <1>2 DEF FlushType
<1> QED  BY <1>1, <1>3 DEF FlushType, Shape

LEMMA FlushStays ==
  ASSUME FlushType, flush' = flush, over \subseteq over'
  PROVE  FlushType'
BY DEF FlushType, Shape

LEMMA NoFlushType == NoFlush \in FlushRecord /\ Shape(NoFlush)
<1>1. BatchSize \in 1..BatchSize  BY DeliveryAssumption
<1>2. NoFlush \in FlushRecord  BY <1>1 DEF NoFlush, FlushRecord, Places
<1> QED  BY <1>2 DEF NoFlush, Shape

LEMMA StopType ==
  ASSUME FlushType, over' = over, NEW f \in Flushers, Stop(f)
  PROVE  FlushType'
BY GoType, NoFlushType DEF Stop

LEMMA LookType ==
  ASSUME FlushType, over' = over, NEW f \in Flushers, NEW c \in FlushRecord, c.todo = {},
         Look(f, c)
  PROVE  FlushType'
<1> DEFINE d == [c EXCEPT !.at = "looking", !.batch = {}, !.gaps = {}, !.group = {}]
<1>1. d \in FlushRecord  BY DEF FlushRecord, Places
<1>2. Shape(d)  BY DEF Shape, FlushRecord
<1> QED  BY <1>1, <1>2, GoType DEF Look

LEMMA AfterType ==
  ASSUME NEW c \in FlushRecord, \A r \in c.group : WindowOf[r] \in over
  PROVE  After(c) \in FlushRecord /\ Shape(After(c))
<1>1. After(c) \in FlushRecord  BY DEF After, FlushRecord, Places
<1>2. Shape(After(c))  BY DEF After, Shape, FlushRecord
<1> QED  BY <1>1, <1>2

LEMMA SettlingType ==
  ASSUME NEW c \in FlushRecord, NEW batch \in SUBSET Receipts, NEW kept \in SUBSET Receipts,
         NEW gs \in SUBSET GapRecord
  PROVE  [c EXCEPT !.at = "settling", !.batch = batch, !.kept = kept, !.gaps = gs] \in FlushRecord
BY DEF FlushRecord, Places

LEMMA FlushOf ==
  ASSUME FlushType, NEW f \in Flushers
  PROVE  /\ flush[f] \in FlushRecord /\ Shape(flush[f])
         /\ \A r \in flush[f].group : WindowOf[r] \in over
BY DEF FlushType, Shape

LEMMA EnqueueType ==
  ASSUME QueueType, TablesType, NEW r \in Receipts, Enqueue(r), UNCHANGED <<acked, windows>>
  PROVE  QueueType' /\ TablesType'
BY EnqueueFacts DEF TablesType

LEMMA FaultType ==
  ASSUME OthersType, Fails
  PROVE  faults' \in 0..MaxFaults
BY DeliveryAssumption DEF OthersType, Fails

LEMMA ReceiptsArriveType ==
  ASSUME TypeInv,
         \/ \E r \in Receipts : Offer(r) \/ OfferFails(r)
         \/ backfillQueue \/ BackfillFails
  PROVE  TypeInv'
<1> USE DEF TypeInv
<1>1. CASE \E r \in Receipts : Offer(r)
  <2> PICK r \in Receipts : Offer(r)  BY <1>1
  <2>1. QueueType' /\ TablesType'  BY EnqueueType DEF Offer, Queues
  <2>2. OthersType'  BY DEF Offer, Queues, OthersType, repair, workspace
  <2>3. FlushType'  BY FlushStays DEF Offer
  <2> QED  BY <2>1, <2>2, <2>3
<1>2. CASE \E r \in Receipts : OfferFails(r)
  <2> PICK r \in Receipts : OfferFails(r)  BY <1>2
  <2>1. QueueType' /\ TablesType'
    BY DEF OfferFails, outbox, QueueType, TablesType, InQueue
  <2>2. OthersType'  BY FaultType DEF OfferFails, OthersType, workspace, history
  <2>3. FlushType'  BY FlushStays DEF OfferFails
  <2> QED  BY <2>1, <2>2, <2>3
<1>3. CASE BackfillReads
  <2>1. QueueType' /\ TablesType'
    BY <1>3 DEF BackfillReads, outbox, QueueType, TablesType, InQueue
  <2>2. OthersType'  BY <1>3 DEF BackfillReads, OthersType, workspace, history
  <2>3. FlushType'  BY <1>3, FlushStays DEF BackfillReads
  <2> QED  BY <2>1, <2>2, <2>3
<1>4. CASE BackfillQueues
  <2> PICK r \in backfill : backfill' = backfill \ {r} /\ Queues(r)
    BY <1>4 DEF BackfillQueues
  <2>1. r \in Receipts  BY DEF OthersType
  <2>2. QueueType' /\ TablesType'  BY <1>4, <2>1, EnqueueType DEF BackfillQueues, Queues
  <2>3. OthersType'  BY <1>4 DEF BackfillQueues, Queues, OthersType, workspace
  <2>4. FlushType'  BY <1>4, FlushStays DEF BackfillQueues
  <2> QED  BY <2>2, <2>3, <2>4
<1>5. CASE BackfillEnds
  <2>1. {Gap(r, "outbox_error") : r \in work} \subseteq GapRecord
    BY GapType DEF OthersType, Reasons
  <2>2. QueueType' /\ TablesType'
    BY <1>5, <2>1 DEF BackfillEnds, QueueType, TablesType, InQueue
  <2>3. OthersType'  BY <1>5 DEF BackfillEnds, OthersType, workspace, history
  <2>4. FlushType'  BY <1>5, FlushStays DEF BackfillEnds
  <2> QED  BY <2>2, <2>3, <2>4
<1>6. CASE BackfillFails
  <2>1. QueueType' /\ TablesType'
    BY <1>6 DEF BackfillFails, outbox, QueueType, TablesType, InQueue
  <2>2. OthersType'  BY <1>6, FaultType DEF BackfillFails, OthersType, workspace, history
  <2>3. FlushType'  BY <1>6, FlushStays DEF BackfillFails
  <2> QED  BY <2>1, <2>2, <2>3
<1> QED  BY <1>1, <1>2, <1>3, <1>4, <1>5, <1>6 DEF backfillQueue

(* A step that leaves the tables and the workspace alone.                  *)
LEMMA OnlyFlushType ==
  ASSUME TypeInv, UNCHANGED <<outbox, offered, repair, plain, over, workspace, history, faults>>
  PROVE  QueueType' /\ TablesType' /\ OthersType'
<1>1. QueueType'  BY DEF TypeInv, QueueType, InQueue, outbox
<1>2. TablesType'  BY DEF TypeInv, TablesType, outbox
<1>3. OthersType'  BY DEF TypeInv, OthersType, repair, workspace, history
<1> QED  BY <1>1, <1>2, <1>3

LEMMA PassType ==
  ASSUME TypeInv, NEW f \in Flushers, Pass(f)
  PROVE  TypeInv'
<1> DEFINE c == flush[f]
<1>1. c \in FlushRecord /\ Shape(c) /\ c.at = "looking"
  BY FlushOf DEF TypeInv, Pass, At
<1>2. QueueType'
  BY KeepQueueType DEF TypeInv, Pass, Unexpired
<1>3. TablesType'  BY ExpiredGapsType DEF TypeInv, TablesType, Pass
<1>4. OthersType'  BY DEF TypeInv, OthersType, Pass, repair, workspace, history
<1>5. CASE Go(f, [c EXCEPT !.at = "posting", !.batch = Batch(f)])
  <2> DEFINE d == [c EXCEPT !.at = "posting", !.batch = Batch(f)]
  <2>1. d \in FlushRecord  BY <1>1, BatchFacts DEF FlushRecord, Places
  <2>2. Shape(d)  BY <1>1, BatchFacts DEF FlushRecord, Shape
  <2>3. FlushType'  BY <1>5, <2>1, <2>2, GoType DEF TypeInv, Pass
  <2> QED  BY <1>2, <1>3, <1>4, <2>3 DEF TypeInv
<1>6. CASE Go(f, [c EXCEPT !.at = "claiming", !.group = Closed(f),
                           !.todo = {WindowOf[r] : r \in Closed(f)}])
  <2> DEFINE d == [c EXCEPT !.at = "claiming", !.group = Closed(f),
                            !.todo = {WindowOf[r] : r \in Closed(f)}]
  <2>1. Closed(f) \subseteq Receipts /\ \A r \in Closed(f) : WindowOf[r] \in over
    BY DEF Closed, Seen, TypeInv, QueueType, ToSet
  <2>2. over \subseteq Windows  BY DEF TypeInv, OthersType
  <2>3. d \in FlushRecord  BY <1>1, <2>1, <2>2 DEF FlushRecord, Places
  <2>4. Shape(d)  BY <1>1, <2>1 DEF FlushRecord, Shape
  <2>5. FlushType'  BY <1>6, <2>3, <2>4, GoType DEF TypeInv, Pass
  <2> QED  BY <1>2, <1>3, <1>4, <2>5 DEF TypeInv
<1>7. CASE Stop(f)
  <2>1. FlushType'  BY <1>7, StopType DEF TypeInv, Pass
  <2> QED  BY <1>2, <1>3, <1>4, <2>1 DEF TypeInv
<1> QED  BY <1>5, <1>6, <1>7 DEF Pass

LEMMA PostType ==
  ASSUME TypeInv, NEW f \in Flushers,
         TooLarge(f) \/ IdConflict(f) \/ IngestAnswers(f) \/ PostFails(f)
  PROVE  TypeInv'
<1> DEFINE c == flush[f]
<1>1. c \in FlushRecord /\ Shape(c) /\ c.at = "posting" /\ c.todo = {}
  BY FlushOf DEF TypeInv, At, TooLarge, IdConflict, IngestAnswers, Answered, PostFails, Shape
<1>2. \A S \in SUBSET Receipts, reason \in Reasons : {Gap(r, reason) : r \in S} \in SUBSET GapRecord
  BY GapType
<1>3. c.batch \in SUBSET Receipts  BY <1>1 DEF FlushRecord
<1>4. CASE TooLarge(f)
  <2> DEFINE n == Cardinality(c.batch)
  <2>1. n \in Nat /\ n <= BatchSize
    BY <1>1, <1>3, ReceiptAssumption, FS_Subset, FS_CardinalityType DEF Shape
  <2>2. QueueType' /\ TablesType' /\ OthersType'  BY <1>4, OnlyFlushType DEF TooLarge
  <2>3. CASE n > 1
    <3> DEFINE d == [c EXCEPT !.limit = (n + 1) \div 2]
    <3>1. (n + 1) \div 2 \in 1..BatchSize  BY <2>1, <2>3, DeliveryAssumption
    <3>2. d \in FlushRecord /\ d.todo = {}  BY <1>1, <3>1 DEF FlushRecord
    <3>3. FlushType'  BY <1>4, <2>3, <3>2, LookType DEF TooLarge, TypeInv
    <3> QED  BY <2>2, <3>3 DEF TypeInv
  <2>4. CASE ~(n > 1)
    <3> DEFINE d == [c EXCEPT !.at = "settling", !.limit = BatchSize,
                              !.gaps = {Gap(r, "oversize") : r \in c.batch}]
    <3>1. BatchSize \in 1..BatchSize  BY DeliveryAssumption
    <3>2. {Gap(r, "oversize") : r \in c.batch} \in SUBSET GapRecord  BY <1>2, <1>3 DEF Reasons
    <3>0. "settling" \in Places  BY DEF Places
    <3>3. d \in FlushRecord  BY <1>1, <3>0, <3>1, <3>2 DEF FlushRecord
    <3>4. Shape(d)  BY <1>1 DEF FlushRecord, Shape
    <3>5. FlushType'  BY <1>4, <2>4, <3>3, <3>4, GoType DEF TooLarge, TypeInv
    <3> QED  BY <2>2, <3>5 DEF TypeInv
  <2> QED  BY <2>3, <2>4
<1>5. CASE IdConflict(f)
  <2>1. QueueType' /\ TablesType' /\ OthersType'  BY <1>5, OnlyFlushType DEF IdConflict
  <2>2. CASE Cardinality(c.batch) > 1
    <3> DEFINE d == [c EXCEPT !.isolate = TRUE]
    <3>1. d \in FlushRecord /\ d.todo = {}  BY <1>1 DEF FlushRecord
    <3>2. FlushType'  BY <1>5, <2>2, <3>1, LookType DEF IdConflict, TypeInv
    <3> QED  BY <2>1, <3>2 DEF TypeInv
  <2>3. CASE ~(Cardinality(c.batch) > 1)
    <3> DEFINE d == [c EXCEPT !.at = "settling", !.isolate = FALSE,
                              !.gaps = {Gap(r, "id_conflict") : r \in c.batch}]
    <3>1. {Gap(r, "id_conflict") : r \in c.batch} \in SUBSET GapRecord  BY <1>2, <1>3 DEF Reasons
    <3>2. d \in FlushRecord  BY <1>1, <3>1 DEF FlushRecord, Places
    <3>3. Shape(d)  BY <1>1 DEF FlushRecord, Shape
    <3>4. FlushType'  BY <1>5, <2>3, <3>2, <3>3, GoType DEF IdConflict, TypeInv
    <3> QED  BY <2>1, <3>4 DEF TypeInv
  <2> QED  BY <2>2, <2>3
<1>6. CASE IngestAnswers(f)
  <2> PICK early \in SUBSET {r \in c.batch : Fate[r] = "early"} : Answered(f, early)
    BY <1>6 DEF IngestAnswers
  <2> DEFINE back == {r \in c.batch \ early : KeepForClock(r)}
             refused == c.batch \ (Stores(c.batch, early) \cup back)
             k == [c EXCEPT !.kept = @ \cup back]
             d == [c EXCEPT !.at = "settling", !.batch = @ \ back, !.kept = @ \cup back,
                            !.gaps = {Gap(r, "rejected") : r \in refused}]
  <2>1. Stores(c.batch, early) \in SUBSET Receipts  BY <1>3 DEF Stores
  <2>2. QueueType' /\ TablesType' /\ OthersType'
    BY <2>1 DEF Answered, TypeInv, QueueType, InQueue, TablesType, OthersType, outbox, repair,
                history
  <2>3. back \in SUBSET Receipts /\ refused \in SUBSET Receipts  BY <1>3
  <2>4. {Gap(r, "rejected") : r \in refused} \in SUBSET GapRecord  BY <1>2, <2>3 DEF Reasons
  <2>5. Look(f, k) \/ Go(f, d)  BY DEF Answered
  <2> HIDE DEF back, refused
  <2>6. k \in FlushRecord /\ k.todo = {}  BY <1>1, <2>3 DEF FlushRecord
  <2>7. d \in FlushRecord  BY <1>1, <1>3, <2>3, <2>4 DEF FlushRecord, Places
  <2>8. Shape(d)  BY <1>1 DEF FlushRecord, Shape
  <2>9. over' = over  BY DEF Answered
  <2> HIDE DEF k, d
  <2>10. FlushType'  BY <2>5, <2>6, <2>7, <2>8, <2>9, GoType, LookType DEF TypeInv
  <2> QED  BY <2>2, <2>10 DEF TypeInv
<1>7. CASE PostFails(f)
  <2>2. \A early \in SUBSET c.batch : Stores(c.batch, early) \in SUBSET Receipts
    BY <1>3 DEF Stores
  <2>3. held' \in SUBSET Receipts  BY <1>7, <2>2 DEF PostFails, TypeInv, OthersType
  <2>4. QueueType' /\ TablesType' /\ OthersType'
    BY <1>7, <2>3, FaultType
    DEF PostFails, TypeInv, QueueType, InQueue, TablesType, OthersType, outbox, repair, history
  <2>5. FlushType'  BY <1>7, StopType DEF PostFails, TypeInv
  <2> QED  BY <2>4, <2>5 DEF TypeInv
<1> QED  BY <1>4, <1>5, <1>6, <1>7

LEMMA SettleType ==
  ASSUME TypeInv, NEW f \in Flushers, Settle(f) \/ RecordGap(f)
  PROVE  TypeInv'
<1> DEFINE c == flush[f]
<1>1. c \in FlushRecord /\ \A r \in c.group : WindowOf[r] \in over
  BY FlushOf DEF TypeInv
<1>2. CASE Settle(f)
  <2> DEFINE d == [c EXCEPT !.group = @ \ c.batch]
             taken == c.batch \ {g.rec : g \in c.gaps}
  <2>1. /\ queue' = Keep(queue, Receipts \ c.batch)
        /\ acked' = acked \cup {IdOf[r] : r \in c.batch \cap taken \cap ToSet(queue)}
    BY <1>2 DEF Settle, Acknowledge
  <2>2. QueueType'  BY <2>1, KeepQueueType DEF TypeInv
  <2>3. {IdOf[r] : r \in c.batch \cap taken \cap ToSet(queue)} \subseteq Ids
    BY <1>1 DEF FlushRecord, Ids
  <2>4. TablesType'  BY <1>2, <2>1, <2>3 DEF Settle, TypeInv, TablesType
  <2>5. OthersType'  BY <1>2 DEF Settle, TypeInv, OthersType, repair, workspace, history
  <2>6. d \in FlushRecord /\ \A r \in d.group : WindowOf[r] \in over  BY <1>1 DEF FlushRecord
  <2>7. Go(f, After(d)) /\ over' = over  BY <1>2 DEF Settle
  <2> HIDE DEF d
  <2>8. FlushType'  BY <2>6, <2>7, AfterType, GoType DEF TypeInv
  <2> QED  BY <2>2, <2>4, <2>5, <2>8 DEF TypeInv
<1>3. CASE RecordGap(f)
  <2> PICK g \in c.gaps : gaps' = gaps \cup {g} /\ Go(f, After([c EXCEPT !.gaps = @ \ {g}]))
    BY <1>3 DEF RecordGap
  <2> DEFINE d == [c EXCEPT !.gaps = @ \ {g}]
  <2>1. QueueType' /\ TablesType' /\ OthersType'
    BY <1>1, <1>3 DEF RecordGap, TypeInv, QueueType, InQueue, TablesType, OthersType, repair,
                      workspace, history,
                      FlushRecord
  <2>2. d \in FlushRecord /\ \A r \in d.group : WindowOf[r] \in over  BY <1>1 DEF FlushRecord
  <2>3. over' = over  BY <1>3 DEF RecordGap
  <2> HIDE DEF d
  <2>4. FlushType'  BY <2>2, <2>3, AfterType, GoType DEF TypeInv, d
  <2> QED  BY <2>1, <2>4 DEF TypeInv
<1> QED  BY <1>2, <1>3

LEMMA SummariesType ==
  ASSUME TypeInv, NEW f \in Flushers, sendSummaries(f)
  PROVE  TypeInv'
<1> DEFINE c == flush[f]
<1>1. c \in FlushRecord /\ Shape(c) /\ \A r \in c.group : WindowOf[r] \in over
  BY FlushOf DEF TypeInv
<1>2. over \subseteq Windows  BY DEF TypeInv, OthersType
<1>3. Mine(f) \subseteq over  BY <1>1 DEF Mine
<1>4. windows \in [Windows -> [named: BOOLEAN, leased: BOOLEAN, sent: BOOLEAN]]
  BY DEF TypeInv, TablesType
<1>5. \A ws : Covers(f, ws) \in [Windows -> SUBSET Receipts]
  BY <1>1 DEF Covers, In, TypeInv, OthersType, FlushRecord
<1>6. Released(Mine(f)) \in [Windows -> [named: BOOLEAN, leased: BOOLEAN, sent: BOOLEAN]]
  BY <1>4 DEF Released
<1>7. CASE ClaimWindow(f)
  <2> PICK w \in c.todo :
         LET mine == In(w, c.group)
             rest == [c EXCEPT !.todo = @ \ {w}]
             next == CASE Claim(w) = "claimed" -> rest
                     [] Claim(w) = "sent" -> [rest EXCEPT !.group = @ \ mine, !.late = @ \cup mine]
                     [] Claim(w) = "busy" -> [rest EXCEPT !.group = @ \ mine, !.kept = @ \cup mine]
         IN  /\ windows' = IF Claim(w) = "claimed" THEN Claimed(w) ELSE windows
             /\ Go(f, [next EXCEPT !.at = IF next.todo # {} THEN "claiming"
                                          ELSE IF next.group # {} THEN "summing" ELSE "looking"])
    BY <1>7 DEF ClaimWindow
  <2> DEFINE mine == In(w, c.group)
             rest == [c EXCEPT !.todo = @ \ {w}]
             sent == [rest EXCEPT !.group = @ \ mine, !.late = @ \cup mine]
             busy == [rest EXCEPT !.group = @ \ mine, !.kept = @ \cup mine]
             next == CASE Claim(w) = "claimed" -> rest
                     [] Claim(w) = "sent" -> sent
                     [] Claim(w) = "busy" -> busy
             d == [next EXCEPT !.at = IF next.todo # {} THEN "claiming"
                                      ELSE IF next.group # {} THEN "summing" ELSE "looking"]
  <2>1. c.gaps = {}  BY <1>1, <1>7 DEF ClaimWindow, At, Shape
  <2>2. mine \subseteq Receipts /\ mine \subseteq c.group  BY <1>1 DEF In, FlushRecord
  <2>3. Claim(w) \in {"claimed", "sent", "busy"}  BY DEF Claim
  <2> HIDE DEF mine
  <2>4. rest \in FlushRecord /\ rest.gaps = {} /\ \A r \in rest.group : WindowOf[r] \in over
    BY <1>1, <2>1 DEF FlushRecord
  <2>5. sent \in FlushRecord /\ sent.gaps = {} /\ \A r \in sent.group : WindowOf[r] \in over
    BY <2>2, <2>4 DEF FlushRecord
  <2>6. busy \in FlushRecord /\ busy.gaps = {} /\ \A r \in busy.group : WindowOf[r] \in over
    BY <2>2, <2>4 DEF FlushRecord
  <2> HIDE DEF rest, sent, busy
  <2>7. next \in {rest, sent, busy}  BY <2>3
  <2> HIDE DEF next
  <2>8. d \in FlushRecord  BY <2>4, <2>5, <2>6, <2>7 DEF FlushRecord, Places
  <2>9. Shape(d)  BY <2>4, <2>5, <2>6, <2>7 DEF FlushRecord, Shape
  <2>10. Go(f, d)  BY DEF next, mine, rest, sent, busy
  <2> HIDE DEF d
  <2>11. over' = over  BY <1>7 DEF ClaimWindow
  <2>12. FlushType'  BY <2>8, <2>9, <2>10, <2>11, GoType DEF TypeInv
  <2>13. windows' = IF Claim(w) = "claimed" THEN Claimed(w) ELSE windows  OBVIOUS
  <2>14. windows' \in [Windows -> [named: BOOLEAN, leased: BOOLEAN, sent: BOOLEAN]]
    <3>1. Claimed(w) \in [Windows -> [named: BOOLEAN, leased: BOOLEAN, sent: BOOLEAN]]
      BY <1>4 DEF Claimed
    <3> QED  BY <1>4, <2>13, <3>1
  <2>15. UNCHANGED <<queue, age, gaps, acked, offered, repair, plain, over, workspace, history,
                      faults>>
    BY <1>7 DEF ClaimWindow
  <2>16. QueueType'  BY <2>15 DEF TypeInv, QueueType, InQueue
  <2>17. TablesType' /\ OthersType'
    BY <2>14, <2>15 DEF TypeInv, TablesType, OthersType, repair, workspace, history
  <2> QED  BY <2>12, <2>16, <2>17 DEF TypeInv
<1>8. CASE SummariesAnswered(f)
  <2> PICK refused \in SUBSET Mine(f) :
         /\ covered' = Covers(f, Mine(f) \ refused)
         /\ Go(f, [c EXCEPT !.at = "marking", !.todo = Mine(f),
                            !.late = @ \cup {r \in c.group : WindowOf[r] \in refused}])
    BY <1>8 DEF SummariesAnswered
  <2> DEFINE d == [c EXCEPT !.at = "marking", !.todo = Mine(f),
                            !.late = @ \cup {r \in c.group : WindowOf[r] \in refused}]
  <2>1. QueueType' /\ TablesType' /\ OthersType'
    BY <1>5, <1>8
    DEF SummariesAnswered, TypeInv, QueueType, InQueue, TablesType, OthersType, outbox, repair,
        history
  <2>2. d \in FlushRecord  BY <1>1, <1>2, <1>3 DEF FlushRecord, Places
  <2>3. c.gaps = {}  BY <1>1, <1>8 DEF SummariesAnswered, At, Shape
  <2>4. Shape(d)  BY <1>1, <2>3 DEF FlushRecord, Shape
  <2>5. FlushType'  BY <1>8, <2>2, <2>4, GoType DEF SummariesAnswered, TypeInv
  <2> QED  BY <2>1, <2>5 DEF TypeInv
<1>9. CASE SummariesRefused(f)
  <2>1. QueueType' /\ TablesType' /\ OthersType'
    BY <1>6, <1>9
    DEF SummariesRefused, TypeInv, QueueType, InQueue, TablesType, OthersType, repair, workspace,
        history
  <2>2. c.todo = {}  BY <1>1, <1>9 DEF SummariesRefused, At, Shape
  <2>3. FlushType'  BY <1>1, <1>9, <2>2, LookType DEF SummariesRefused, TypeInv
  <2> QED  BY <2>1, <2>3 DEF TypeInv
<1>10. CASE SummariesFail(f)
  <2>1. covered' \in [Windows -> SUBSET Receipts]
    BY <1>5, <1>10 DEF SummariesFail, TypeInv, OthersType
  <2>2. QueueType' /\ TablesType' /\ OthersType'
    BY <1>6, <1>10, <2>1, FaultType
    DEF SummariesFail, TypeInv, QueueType, InQueue, TablesType, OthersType, repair, history
  <2>3. FlushType'  BY <1>10, StopType DEF SummariesFail, TypeInv
  <2> QED  BY <2>2, <2>3 DEF TypeInv
<1>11. CASE MarkSent(f)
  <2> PICK w \in c.todo :
         LET rest == [c EXCEPT !.todo = @ \ {w}]
         IN  /\ windows' = MarkedSent(w)
             /\ IF In(w, c.group) \subseteq c.late
                THEN Go(f, After([rest EXCEPT !.group = @ \ In(w, c.group)]))
                ELSE Go(f, [rest EXCEPT !.at = "settling", !.batch = In(w, c.group)])
    BY <1>11 DEF MarkSent
  <2> DEFINE rest == [c EXCEPT !.todo = @ \ {w}]
             gone == [rest EXCEPT !.group = @ \ In(w, c.group)]
             d == [rest EXCEPT !.at = "settling", !.batch = In(w, c.group)]
  <2>1. windows' \in [Windows -> [named: BOOLEAN, leased: BOOLEAN, sent: BOOLEAN]]
    BY <1>4 DEF MarkedSent
  <2>2. QueueType' /\ TablesType' /\ OthersType' /\ over' = over
    BY <1>11, <2>1
    DEF MarkSent, TypeInv, QueueType, InQueue, TablesType, OthersType, repair, workspace, history
  <2>3. rest \in FlushRecord /\ \A r \in rest.group : WindowOf[r] \in over
    BY <1>1 DEF FlushRecord
  <2>4. gone \in FlushRecord /\ \A r \in gone.group : WindowOf[r] \in over
    BY <2>3 DEF FlushRecord
  <2>5. In(w, c.group) \in SUBSET Receipts  BY <1>1 DEF FlushRecord, In
  <2>6. d \in FlushRecord  BY <2>3, <2>5 DEF FlushRecord, Places
  <2>7. Shape(d)  BY <2>3 DEF FlushRecord, Shape
  <2>8. Go(f, After(gone)) \/ Go(f, d)  OBVIOUS
  <2> HIDE DEF rest, gone, d
  <2>9. FlushType'  BY <2>2, <2>4, <2>6, <2>7, <2>8, AfterType, GoType DEF TypeInv
  <2> QED  BY <2>2, <2>9 DEF TypeInv
<1> QED  BY <1>7, <1>8, <1>9, <1>10, <1>11 DEF sendSummaries

LEMMA ForgetsType ==
  ASSUME TypeInv, NEW f \in Flushers, Forgets(f)
  PROVE  dropped' \in SUBSET Receipts
<1>1. flush[f] \in FlushRecord  BY FlushOf DEF TypeInv
<1>2. {g.rec : g \in flush[f].gaps} \in SUBSET Receipts  BY <1>1 DEF FlushRecord, GapRecord
<1> QED  BY <1>2 DEF Forgets, TypeInv, OthersType

LEMMA OtherType ==
  ASSUME TypeInv,
         \/ \E f \in Flushers : FlushStart(f) \/ RecordGapFails(f) \/ Crash(f)
         \/ ReceiptsAge \/ WindowsPass
  PROVE  TypeInv'
<1>1. CASE \E f \in Flushers : FlushStart(f)
  <2> PICK f \in Flushers : FlushStart(f)  BY <1>1
  <2>1. QueueType' /\ TablesType' /\ OthersType'  BY OnlyFlushType DEF FlushStart
  <2>2. NoFlush.todo = {}  BY DEF NoFlush
  <2>3. FlushType'  BY <2>2, NoFlushType, LookType DEF FlushStart, TypeInv
  <2> QED  BY <2>1, <2>3 DEF TypeInv
<1>2. CASE \E f \in Flushers : Crash(f)
  <2> PICK f \in Flushers : Crash(f)  BY <1>2
  <2>1. plain' \in [Flushers -> BOOLEAN]  BY DEF Crash, TypeInv, OthersType
  <2>2. dropped' \in SUBSET Receipts  BY ForgetsType DEF Crash
  <2>3. QueueType' /\ TablesType' /\ OthersType'
    BY <2>1, <2>2, FaultType
    DEF Crash, TypeInv, QueueType, InQueue, TablesType, OthersType, outbox, repair, workspace
  <2>4. FlushType'  BY StopType DEF Crash, TypeInv
  <2> QED  BY <2>3, <2>4 DEF TypeInv
<1>5. CASE \E f \in Flushers : RecordGapFails(f)
  <2> PICK f \in Flushers : RecordGapFails(f)  BY <1>5
  <2>1. dropped' \in SUBSET Receipts  BY ForgetsType DEF RecordGapFails
  <2>2. QueueType' /\ TablesType' /\ OthersType'
    BY <2>1, FaultType
    DEF RecordGapFails, TypeInv, QueueType, InQueue, TablesType, OthersType, outbox, repair,
        workspace
  <2>3. FlushType'  BY StopType DEF RecordGapFails, TypeInv
  <2> QED  BY <2>2, <2>3 DEF TypeInv
<1>3. CASE ReceiptsAge
  <2> PICK r \in Receipts : GetOlder(r)  BY <1>3 DEF ReceiptsAge
  <2>1. age' \in [Receipts -> 0..2]  BY DEF GetOlder, Older, TypeInv, TablesType
  <2>2. QueueType' /\ TablesType' /\ OthersType'
    BY <2>1 DEF GetOlder, TypeInv, QueueType, InQueue, TablesType, OthersType, repair, workspace,
                history
  <2>3. FlushType'  BY FlushStays DEF GetOlder, TypeInv
  <2> QED  BY <2>2, <2>3 DEF TypeInv
<1>4. CASE WindowsPass
  <2> PICK w \in Windows : WindowEnds(w) \/ LeaseEnds(w)  BY <1>4 DEF WindowsPass
  <2>1. /\ over' \in SUBSET Windows /\ over \subseteq over' /\ flush' = flush
        /\ windows' \in [Windows -> [named: BOOLEAN, leased: BOOLEAN, sent: BOOLEAN]]
    BY DEF WindowEnds, LeaseEnds, TypeInv, TablesType, OthersType, outbox
  <2>2. QueueType' /\ TablesType' /\ OthersType'
    BY <2>1
    DEF WindowEnds, LeaseEnds, TypeInv, QueueType, InQueue, TablesType, OthersType, outbox, repair,
        workspace, history
  <2>3. FlushType'  BY <2>1, FlushStays DEF TypeInv
  <2> QED  BY <2>2, <2>3 DEF TypeInv
<1> QED  BY <1>1, <1>2, <1>3, <1>4, <1>5

LEMMA TypeInit == Init => TypeInv
<1> SUFFICES ASSUME Init  PROVE TypeInv  OBVIOUS
<1> USE DEF Init, InitOutbox
<1>1. QueueType
  <2>1. queue = <<>> /\ queue \in Seq(Receipts) /\ Len(queue) = 0 /\ DOMAIN queue = {}
    OBVIOUS
  <2>2. InQueue = {} /\ IsInjective(queue)  BY <2>1 DEF InQueue, ToSet, IsInjective
  <2> QED  BY <2>1, <2>2, LimitAssumption DEF QueueType
<1>2. TablesType  BY DEF TablesType
<1>3. OthersType  BY DeliveryAssumption DEF OthersType
<1>4. FlushType  BY NoFlushType DEF FlushType
<1> QED  BY <1>1, <1>2, <1>3, <1>4 DEF TypeInv

LEMMA TypeStep == TypeInv /\ [Next]_vars => TypeInv'
<1> SUFFICES ASSUME TypeInv, [Next]_vars  PROVE TypeInv'  OBVIOUS
<1>1. CASE UNCHANGED vars
  BY <1>1
  DEF vars, outbox, repair, workspace, history, TypeInv, QueueType, InQueue, TablesType,
      OthersType, FlushType,
      Shape
<1>2. CASE Next
  BY <1>2, ReceiptsArriveType, PassType, PostType, SettleType, SummariesType, OtherType
  DEF Next, flushOnce
<1> QED  BY <1>1, <1>2

LEMMA TypeImplies == TypeInv => TypeOK
<1> SUFFICES ASSUME TypeInv  PROVE TypeOK  OBVIOUS
<1>1. \A i, j \in DOMAIN queue : IdOf[queue[i]] = IdOf[queue[j]] => i = j
  BY DEF TypeInv, QueueType, InQueue, ToSet, IsInjective
<1>2. \A f \in Flushers :
        /\ flush[f].at \in Places
        /\ {flush[f].batch, flush[f].kept, flush[f].late, flush[f].group} \subseteq SUBSET Receipts
        /\ flush[f].gaps \subseteq [rec: Receipts, reason: Reasons]
        /\ flush[f].todo \subseteq Windows
        /\ flush[f].isolate \in BOOLEAN /\ flush[f].limit \in 1..BatchSize
  BY DEF TypeInv, FlushType, FlushRecord, GapRecord
<1> QED
  BY <1>1, <1>2 DEF TypeOK, TypeInv, QueueType, TablesType, OthersType, GapRecord, Ids

(* The queue holds no more than it may and each action id once, a batch    *)
(* no more than one request takes, and the tables and flushes keep their   *)
(* types, whatever is offered, answered, lost or dies.                     *)
THEOREM DeliveryTypesCorrect == Spec => []TypeOK
BY TypeInit, TypeStep, TypeImplies, PTL DEF Spec

-----------------------------------------------------------------------------
(* Windows stay whole, until a receipt is queued after its window is over. *)

(* A window that is over gets a receipt only as one reopened, and nothing  *)
(* is taken back.                                                          *)
Grows ==
  /\ over \subseteq over' /\ held \subseteq held' /\ reopened \subseteq reopened'
  /\ \A w \in Windows : covered[w] \subseteq covered'[w]
  /\ \A q \in InQueue' :
       q \in InQueue \/ (q \in Receipts /\ (WindowOf[q] \notin over \/ WindowOf[q] \in reopened'))

LEMMA WindowFacts ==
  ASSUME TypeInv
  PROVE  /\ \A r \in Receipts : WindowOf[r] \in Windows \cup {None}
         /\ None \notin Windows /\ InQueue \subseteq Receipts /\ over \subseteq Windows
         /\ \A r \in Receipts : ~Notable(r) => WindowOf[r] \in Windows
<1>1. WindowOf \in [Receipts -> Windows \cup {None}] /\ None \notin Windows
  BY ReceiptAssumption
<1>2. InQueue \subseteq Receipts  BY DEF TypeInv, QueueType, InQueue, ToSet
<1> QED  BY <1>1, <1>2 DEF Notable, TypeInv, OthersType

LEMMA AtWorkspaceStays ==
  ASSUME Grows, NEW r, AtWorkspace(r)
  PROVE  AtWorkspace(r)'
BY DEF Grows, AtWorkspace

LEMMA WholeStays ==
  ASSUME TypeInv, Grows, NEW c \in FlushRecord, NEW p \in BOOLEAN, Whole(c, p),
         \A r \in c.group : WindowOf[r] \in over
  PROVE  Whole(c, p)'
<1>1. \A q \in InQueue' :
        q \in InQueue \/ WindowOf[q] \notin over \/ WindowOf[q] \in reopened'
  BY DEF Grows
<1>2. over \subseteq over' /\ reopened \subseteq reopened'  BY DEF Grows
<1>3. KeptWhole(c) => KeptWhole(c)'
  BY <1>1, <1>2 DEF KeptWhole, Sets
<1>4. PostsWhole(c)' = PostsWhole(c)  BY DEF PostsWhole, Notable
<1>5. SummedWhole(c)'  BY <1>1, <1>2 DEF Whole, SummedWhole
<1>6. MarksCovered(c)'
  <2> SUFFICES ASSUME c.at \in {"marking", "settling", "gapping"}, NEW w \in c.todo,
                      ~(In(w, c.group) \subseteq c.late)
               PROVE  covered'[w] # {}
    BY DEF MarksCovered, In
  <2>1. covered[w] # {} /\ w \in Windows  BY DEF Whole, MarksCovered, FlushRecord
  <2> QED  BY <2>1 DEF Grows
<1>7. SettlesExcused(c)'
  <2> SUFFICES ASSUME c.at = "settling", NEW r \in c.batch, Excused(c, r)
               PROVE  Excused(c, r)'
    BY DEF Whole, SettlesExcused
  <2>1. CASE AtWorkspace(r)  BY <2>1, AtWorkspaceStays DEF Excused
  <2>2. CASE r \notin InQueue /\ WindowOf[r] \in over  BY <1>1, <1>2, <2>2 DEF Excused
  <2>3. CASE WindowOf[r] \in reopened  BY <1>2, <2>3 DEF Excused
  <2> QED  BY <2>1, <2>2, <2>3 DEF Excused
<1> QED  BY <1>3, <1>4, <1>5, <1>6, <1>7 DEF Whole

LEMMA OtherFlushesStay ==
  ASSUME TypeInv, WholeInv, Grows, NEW g \in Flushers, flush'[g] = flush[g], plain'[g] = plain[g]
  PROVE  Whole(flush[g], plain[g])'
<1>1. /\ flush[g] \in FlushRecord /\ plain[g] \in BOOLEAN
      /\ \A r \in flush[g].group : WindowOf[r] \in over
  BY FlushOf DEF TypeInv, OthersType
<1>2. Whole(flush[g], plain[g])  BY DEF WholeInv
<1>3. \A c \in FlushRecord, p \in BOOLEAN :
        Whole(c, p) /\ (\A r \in c.group : WindowOf[r] \in over) => Whole(c, p)'
  BY WholeStays
<1> QED  BY <1>1, <1>2, <1>3

LEMMA CoveredStays ==
  ASSUME TypeInv, CoveredWhole, Grows, covered' = covered
  PROVE  CoveredWhole'
BY DEF CoveredWhole, Grows, In

(* A step of one flush: what it finds when it is done.                     *)
LEMMA LoudStep ==
  ASSUME TypeInv, WholeInv, Grows, CoveredWhole',
         NEW f \in Flushers, NEW d \in FlushRecord, Go(f, d), Whole(d, plain[f])',
         \A g \in Flushers : g # f => plain'[g] = plain[g]
  PROVE  WholeInv'
<1>1. \A g \in Flushers : flush'[g] = IF g = f THEN d ELSE flush[g]
  BY DEF Go, TypeInv, FlushType
<1>2. \A g \in Flushers : Whole(flush[g], plain[g])'
  <2> TAKE g \in Flushers
  <2>1. CASE g = f  BY <1>1, <2>1
  <2>2. CASE g # f  BY <1>1, <2>2, OtherFlushesStay
  <2> QED  BY <2>1, <2>2
<1> QED  BY <1>2 DEF WholeInv

(* A step of one flush that held before it as well.                        *)
LEMMA QuietStep ==
  ASSUME TypeInv, WholeInv, Grows,
         UNCHANGED <<plain, over, covered>>,
         NEW f \in Flushers, NEW d \in FlushRecord, Go(f, d), Whole(d, plain[f]),
         \A r \in d.group : WindowOf[r] \in over
  PROVE  WholeInv'
<1>1. CoveredWhole'  BY CoveredStays DEF WholeInv
<1>2. \A p \in BOOLEAN : Whole(d, p) => Whole(d, p)'  BY WholeStays
<1>3. plain[f] \in BOOLEAN /\ plain'[f] = plain[f]  BY DEF TypeInv, OthersType
<1>4. Whole(d, plain[f])'  BY <1>2, <1>3
<1> QED  BY <1>1, <1>4, LoudStep

LEMMA NoFlushWhole ==
  ASSUME NEW p
  PROVE  Whole(NoFlush, p)
BY DEF NoFlush, Whole, KeptWhole, Sets, PostsWhole, SummedWhole, MarksCovered, SettlesExcused

LEMMA LookWhole ==
  ASSUME NEW c \in FlushRecord, NEW p, ~p => KeptWhole(c)
  PROVE  Whole([c EXCEPT !.at = "looking", !.batch = {}, !.gaps = {}, !.group = {}], p)
<1> PICK d : d = [c EXCEPT !.at = "looking", !.batch = {}, !.gaps = {}, !.group = {}]  OBVIOUS
<1>1. d.at = "looking" /\ d.group = {} /\ d.late = c.late /\ d.kept = c.kept
  BY DEF FlushRecord
<1>2. ~p => KeptWhole(d)  BY <1>1 DEF KeptWhole, Sets
<1>3. Whole(d, p)  BY <1>1, <1>2 DEF Whole, PostsWhole, SummedWhole, MarksCovered, SettlesExcused
<1> QED  BY <1>3

LEMMA AfterWhole ==
  ASSUME NEW c \in FlushRecord, NEW p \in BOOLEAN, c.at \in {"settling", "gapping", "marking"},
         ~p => KeptWhole(c), SummedWhole(c), MarksCovered(c)
  PROVE  Whole(After(c), p)
<1> PICK d : d = After(c)  OBVIOUS
<1>1. /\ d.at \in {"gapping", "marking", "looking"} /\ d.todo = c.todo /\ d.group = c.group
      /\ d.late = c.late /\ d.kept = c.kept
  BY DEF After, FlushRecord
<1>2. ~p => KeptWhole(d)  BY <1>1 DEF KeptWhole, Sets
<1>3. SummedWhole(d) /\ MarksCovered(d)  BY <1>1 DEF SummedWhole, MarksCovered
<1>4. Whole(d, p)  BY <1>1, <1>2, <1>3 DEF Whole, PostsWhole, SettlesExcused
<1> QED  BY <1>4

(* A flush stops, or looks again, and nothing else changes that matters.   *)
LEMMA StopWhole ==
  ASSUME TypeInv, WholeInv, Grows, UNCHANGED <<plain, over, covered>>,
         NEW f \in Flushers, Stop(f)
  PROVE  WholeInv'
<1>1. NoFlush \in FlushRecord /\ \A r \in NoFlush.group : WindowOf[r] \in over
  BY NoFlushType DEF NoFlush
<1> QED  BY <1>1, QuietStep, NoFlushWhole DEF Stop

LEMMA LookStep ==
  ASSUME TypeInv, WholeInv, Grows, UNCHANGED <<plain, over, covered>>,
         NEW f \in Flushers, NEW c \in FlushRecord, Look(f, c), ~plain[f] => KeptWhole(c)
  PROVE  WholeInv'
<1> PICK d : d = [c EXCEPT !.at = "looking", !.batch = {}, !.gaps = {}, !.group = {}]  OBVIOUS
<1>1. d \in FlushRecord /\ d.group = {}  BY DEF FlushRecord, Places
<1>2. Whole(d, plain[f])  BY LookWhole
<1>3. Go(f, d)  BY DEF Look
<1> QED  BY <1>1, <1>2, <1>3, QuietStep

LEMMA PassWhole ==
  ASSUME TypeInv, WholeInv, NEW f \in Flushers, Pass(f)
  PROVE  WholeInv'
<1> PICK c : c = flush[f]  OBVIOUS
<1>1. /\ c \in FlushRecord /\ c.at = "looking" /\ Whole(c, plain[f])
      /\ \A r \in c.group : WindowOf[r] \in over
  <2>1. c \in FlushRecord /\ \A r \in c.group : WindowOf[r] \in over
    BY FlushOf DEF TypeInv
  <2>2. c.at = "looking"  BY DEF Pass, At
  <2>3. Whole(c, plain[f])  BY DEF WholeInv
  <2> QED  BY <2>1, <2>2, <2>3
<1>2. InQueue' = InQueue \ TooOld
  BY UnexpiredFacts DEF TypeInv, Pass, InQueue
<1>3. UNCHANGED <<plain, over, covered, held, reopened>>  BY DEF Pass, workspace, history
<1>4. Grows  BY <1>2, <1>3 DEF Grows
<1>5. CASE Go(f, [c EXCEPT !.at = "posting", !.batch = Batch(f)])
  <2> PICK d : d = [c EXCEPT !.at = "posting", !.batch = Batch(f)]  OBVIOUS
  <2>1. d \in FlushRecord  BY <1>1, BatchFacts DEF FlushRecord, Places
  <2>2. /\ d.at = "posting" /\ d.batch = Batch(f) /\ d.group = c.group
        /\ d.late = c.late /\ d.kept = c.kept
    BY <1>1 DEF FlushRecord
  <2>3. ~plain[f] => PostsWhole(d)  BY <2>2, BatchFacts, FullFacts DEF PostsWhole
  <2>4. Whole(d, plain[f])
    BY <1>1, <2>2, <2>3 DEF Whole, KeptWhole, Sets, SummedWhole, MarksCovered, SettlesExcused
  <2> QED  BY <1>1, <1>3, <1>4, <1>5, <2>1, <2>2, <2>4, QuietStep
<1>6. CASE Go(f, [c EXCEPT !.at = "claiming", !.group = Closed(f),
                           !.todo = {WindowOf[r] : r \in Closed(f)}])
  <2> PICK d : d = [c EXCEPT !.at = "claiming", !.group = Closed(f),
                             !.todo = {WindowOf[r] : r \in Closed(f)}]
    OBVIOUS
  <2>1. /\ d.at = "claiming" /\ d.group = Closed(f) /\ d.late = c.late /\ d.kept = c.kept
    BY <1>1 DEF FlushRecord
  <2>3. CoveredWhole'  BY <1>3, <1>4, CoveredStays DEF WholeInv
  <2>4. \A r \in Closed(f) : ~plain[f] /\ r \in InQueue /\ WindowOf[r] \in over /\ r \notin Sets(c)
    BY DEF Closed, Seen, Sets, InQueue
  <2>5. \A q \in InQueue' : ~plain[f] /\ WindowOf[q] \in over /\ q \notin Sets(c) => q \in Closed(f)
    BY <1>2 DEF Closed, Seen, Sets, InQueue
  <2>6. SummedWhole(d)'
    <3> SUFFICES ASSUME NEW r \in Closed(f), NEW q \in InQueue', WindowOf[q] = WindowOf[r],
                        WindowOf[r] \notin reopened
                 PROVE  q \in Closed(f)
      BY <1>3, <2>1 DEF SummedWhole
    <3>1. q \in InQueue /\ q \in Receipts /\ WindowOf[q] \in over /\ ~plain[f]
      BY <1>2, <2>4, WindowFacts
    <3>2. ~Notable(q)  BY <3>1, WindowFacts DEF Notable
    <3>3. q \notin Sets(c)
      BY <1>1, <2>4, <3>1, <3>2 DEF Whole, KeptWhole
    <3> QED  BY <2>5, <3>1, <3>3
  <2>7. ~plain[f] => KeptWhole(d)'
    BY <1>1, <1>2, <1>3, <2>1 DEF Whole, KeptWhole, Sets, Notable
  <2>8. Whole(d, plain[f])'
    BY <1>3, <2>1, <2>6, <2>7 DEF Whole, PostsWhole, MarksCovered, SettlesExcused
  <2>9. d \in FlushRecord
    <3>1. Closed(f) \subseteq Receipts  BY <2>4, WindowFacts
    <3>2. {WindowOf[r] : r \in Closed(f)} \subseteq Windows  BY <2>4, WindowFacts
    <3> QED  BY <1>1, <3>1, <3>2 DEF FlushRecord, Places
  <2>10. Go(f, d)  BY <1>6
  <2> QED  BY <1>3, <1>4, <2>3, <2>8, <2>9, <2>10, LoudStep
<1>7. CASE Stop(f)  BY <1>3, <1>4, <1>7, StopWhole
<1> QED  BY <1>5, <1>6, <1>7 DEF Pass

(* Where a flush is, as a constant of the proof.                           *)
LEMMA FlushWhole ==
  ASSUME TypeInv, WholeInv, NEW f \in Flushers
  PROVE  /\ flush[f] \in FlushRecord /\ Shape(flush[f]) /\ Whole(flush[f], plain[f])
         /\ \A r \in flush[f].group : WindowOf[r] \in over
BY FlushOf DEF TypeInv, WholeInv

LEMMA PostWhole ==
  ASSUME TypeInv, WholeInv, NEW f \in Flushers,
         TooLarge(f) \/ IdConflict(f) \/ IngestAnswers(f) \/ PostFails(f)
  PROVE  WholeInv'
<1> PICK c : c = flush[f]  OBVIOUS
<1>1. /\ c \in FlushRecord /\ Shape(c) /\ Whole(c, plain[f])
      /\ \A r \in c.group : WindowOf[r] \in over
  BY FlushWhole
<1>2. c.at = "posting" /\ c.todo = {}
  BY <1>1 DEF At, TooLarge, IdConflict, IngestAnswers, Answered, PostFails, Shape
<1>3. UNCHANGED <<queue, plain, over, covered, reopened>>
  BY DEF TooLarge, IdConflict, IngestAnswers, Answered, PostFails, outbox, workspace, history
<1>4. held \subseteq held'
  BY DEF TooLarge, IdConflict, IngestAnswers, Answered, PostFails, workspace, history
<1>5. Grows  BY <1>3, <1>4 DEF Grows, InQueue
<1>6. c.batch \in SUBSET Receipts  BY <1>1 DEF FlushRecord
<1>7. \A S \in SUBSET Receipts, reason \in Reasons :
        /\ {Gap(r, reason) : r \in S} \in SUBSET GapRecord
        /\ \A r \in S : \E g \in {Gap(q, reason) : q \in S} : g.rec = r
  BY GapType
<1>8. ~plain[f] => KeptWhole(c)  BY <1>1 DEF Whole
<1>9. CASE TooLarge(f)
  <2> DEFINE n == Cardinality(c.batch)
  <2>1. CASE n > 1
    <3> PICK k : k = [c EXCEPT !.limit = (n + 1) \div 2]  OBVIOUS
    <3>1. n \in Nat /\ n <= BatchSize
      BY <1>1, <1>2, <1>6, ReceiptAssumption, FS_Subset, FS_CardinalityType DEF Shape
    <3>2. (n + 1) \div 2 \in 1..BatchSize  BY <2>1, <3>1, DeliveryAssumption
    <3>3. k \in FlushRecord /\ k.late = c.late /\ k.kept = c.kept
      BY <1>1, <3>2 DEF FlushRecord
    <3>4. ~plain[f] => KeptWhole(k)  BY <1>8, <3>3 DEF KeptWhole, Sets
    <3>5. Look(f, k)  BY <1>9, <2>1 DEF TooLarge
    <3> QED  BY <1>3, <1>5, <3>3, <3>4, <3>5, LookStep
  <2>2. CASE ~(n > 1)
    <3> PICK gs : gs = {Gap(r, "oversize") : r \in c.batch}  OBVIOUS
    <3> PICK d : d = [c EXCEPT !.at = "settling", !.limit = BatchSize, !.gaps = gs]  OBVIOUS
    <3>0. gs \in SUBSET GapRecord /\ \A r \in c.batch : \E g \in gs : g.rec = r
      BY <1>6, <1>7 DEF Reasons
    <3>1. BatchSize \in 1..BatchSize  BY DeliveryAssumption
    <3>3. /\ d \in FlushRecord /\ d.at = "settling" /\ d.todo = {} /\ d.group = c.group
          /\ d.late = c.late /\ d.kept = c.kept /\ d.batch = c.batch
          /\ d.gaps = gs
      BY <1>1, <1>2, <3>0, <3>1 DEF FlushRecord, Places
    <3>4. \A r \in d.batch : \E g \in d.gaps : g.rec = r  BY <3>0, <3>3
    <3>5. ~plain[f] => KeptWhole(d)  BY <1>8, <3>3 DEF KeptWhole, Sets
    <3>6. Whole(d, plain[f])
      <4> PICK p : p = plain[f]  OBVIOUS
      <4>1. Whole(c, p) /\ (~p => KeptWhole(d))  BY <1>1, <3>5
      <4>2. \A r \in d.batch : AtWorkspace(r) \/ \E g \in d.gaps : g.rec = r  BY <3>4
      <4>3. Whole(d, p)
        BY <3>3, <4>1, <4>2
        DEF Whole, PostsWhole, SummedWhole, MarksCovered, SettlesExcused, Excused
      <4> QED  BY <4>3
    <3>7. Go(f, d)  BY <1>9, <2>2 DEF TooLarge
    <3> QED  BY <1>1, <1>3, <1>5, <3>3, <3>6, <3>7, QuietStep
  <2> QED  BY <2>1, <2>2
<1>10. CASE IdConflict(f)
  <2>1. CASE Cardinality(c.batch) > 1
    <3> PICK k : k = [c EXCEPT !.isolate = TRUE]  OBVIOUS
    <3>1. k \in FlushRecord /\ k.late = c.late /\ k.kept = c.kept  BY <1>1 DEF FlushRecord
    <3>2. ~plain[f] => KeptWhole(k)  BY <1>8, <3>1 DEF KeptWhole, Sets
    <3>3. Look(f, k)  BY <1>10, <2>1 DEF IdConflict
    <3> QED  BY <1>3, <1>5, <3>1, <3>2, <3>3, LookStep
  <2>2. CASE ~(Cardinality(c.batch) > 1)
    <3> PICK gs : gs = {Gap(r, "id_conflict") : r \in c.batch}  OBVIOUS
    <3> PICK d : d = [c EXCEPT !.at = "settling", !.isolate = FALSE, !.gaps = gs]  OBVIOUS
    <3>0. gs \in SUBSET GapRecord /\ \A r \in c.batch : \E g \in gs : g.rec = r
      BY <1>6, <1>7 DEF Reasons
    <3>2. /\ d \in FlushRecord /\ d.at = "settling" /\ d.todo = {} /\ d.group = c.group
          /\ d.late = c.late /\ d.kept = c.kept /\ d.batch = c.batch
          /\ d.gaps = gs
      BY <1>1, <1>2, <3>0 DEF FlushRecord, Places
    <3>3. \A r \in d.batch : \E g \in d.gaps : g.rec = r  BY <3>0, <3>2
    <3>4. ~plain[f] => KeptWhole(d)  BY <1>8, <3>2 DEF KeptWhole, Sets
    <3>5. Whole(d, plain[f])
      <4> PICK p : p = plain[f]  OBVIOUS
      <4>1. Whole(c, p) /\ (~p => KeptWhole(d))  BY <1>1, <3>4
      <4>2. \A r \in d.batch : AtWorkspace(r) \/ \E g \in d.gaps : g.rec = r  BY <3>3
      <4>3. Whole(d, p)
        BY <3>2, <4>1, <4>2
        DEF Whole, PostsWhole, SummedWhole, MarksCovered, SettlesExcused, Excused
      <4> QED  BY <4>3
    <3>6. Go(f, d)  BY <1>10, <2>2 DEF IdConflict
    <3> QED  BY <1>1, <1>3, <1>5, <3>2, <3>5, <3>6, QuietStep
  <2> QED  BY <2>1, <2>2
<1>11. CASE IngestAnswers(f)
  <2> PICK early \in SUBSET {r \in c.batch : Fate[r] = "early"} : Answered(f, early)
    BY <1>11 DEF IngestAnswers
  <2> PICK back : back = {r \in c.batch \ early : KeepForClock(r)}  OBVIOUS
  <2> PICK refused : refused = c.batch \ (Stores(c.batch, early) \cup back)  OBVIOUS
  <2> PICK gs : gs = {Gap(r, "rejected") : r \in refused}  OBVIOUS
  <2> PICK k : k = [c EXCEPT !.kept = @ \cup back]  OBVIOUS
  <2> PICK d : d = [c EXCEPT !.at = "settling", !.batch = @ \ back, !.kept = @ \cup back,
                             !.gaps = gs]
    OBVIOUS
  <2>1. back \subseteq c.batch /\ back \in SUBSET Receipts /\ refused \in SUBSET Receipts
    BY <1>6
  <2>2. gs \in SUBSET GapRecord /\ \A r \in refused : \E g \in gs : g.rec = r
    BY <1>7, <2>1 DEF Reasons
  <2>3. k \in FlushRecord /\ k.late = c.late /\ k.kept = c.kept \cup back
    BY <1>1, <2>1 DEF FlushRecord
  <2>4. /\ d \in FlushRecord /\ d.at = "settling" /\ d.todo = {} /\ d.group = c.group
        /\ d.late = c.late /\ d.kept = c.kept \cup back /\ d.batch = c.batch \ back
        /\ d.gaps = gs
    <3>1. c.kept \cup back \in SUBSET Receipts /\ c.batch \ back \in SUBSET Receipts
      BY <1>1, <1>6, <2>1 DEF FlushRecord
    <3>2. gs \in SUBSET GapRecord  BY <2>2
    <3>3. d \in FlushRecord  BY <1>1, <3>1, <3>2, SettlingType
    <3>4. /\ d.at = "settling" /\ d.todo = c.todo /\ d.group = c.group
          /\ d.late = c.late /\ d.gaps = gs
      BY <1>1 DEF FlushRecord
    <3>5. d.kept = c.kept \cup back /\ d.batch = c.batch \ back  BY <1>1 DEF FlushRecord
    <3> QED  BY <1>2, <3>3, <3>4, <3>5
  <2>5. ~plain[f] => KeptWhole(k) /\ KeptWhole(d)
    <3> SUFFICES ASSUME ~plain[f]  PROVE KeptWhole(k) /\ KeptWhole(d)  OBVIOUS
    <3>1. \A r \in back : Notable(r) \/ r \in c.late
      BY <1>1, <1>2, <2>1 DEF Whole, PostsWhole
    <3> QED  BY <1>8, <2>3, <2>4, <3>1 DEF KeptWhole, Sets
  <2>6. \A r \in d.batch : r \in held' \/ \E g \in d.gaps : g.rec = r
    <3> SUFFICES ASSUME NEW r \in d.batch, r \notin held'  PROVE \E g \in d.gaps : g.rec = r
      OBVIOUS
    <3>1. held' = held \cup Stores(c.batch, early)  BY DEF Answered
    <3>2. r \in refused  BY <2>4, <3>1
    <3> QED  BY <2>2, <2>4, <3>2
  <2>7. Look(f, k) \/ Go(f, d)  BY DEF Answered
  <2>8. CASE Look(f, k)  BY <1>3, <1>5, <2>3, <2>5, <2>8, LookStep
  <2>9. CASE Go(f, d)
    <3>1. ~plain[f] => KeptWhole(d)'
      BY <1>3, <2>5 DEF KeptWhole, Sets, Notable, InQueue
    <3>2. SummedWhole(d)'
      BY <1>1, <1>3, <2>4 DEF Whole, SummedWhole, InQueue
    <3>3. SettlesExcused(d)'  BY <2>6 DEF SettlesExcused, Excused, AtWorkspace
    <3>4. Whole(d, plain[f])'
      BY <1>3, <2>4, <3>1, <3>2, <3>3 DEF Whole, PostsWhole, MarksCovered
    <3>5. CoveredWhole'  BY <1>3, <1>5, CoveredStays DEF WholeInv
    <3> QED  BY <1>3, <1>5, <2>4, <2>9, <3>4, <3>5, LoudStep
  <2> QED  BY <2>7, <2>8, <2>9
<1>12. CASE PostFails(f)
  <2>1. Stop(f)  BY <1>12 DEF PostFails
  <2> QED  BY <1>3, <1>5, <2>1, StopWhole
<1> QED  BY <1>9, <1>10, <1>11, <1>12

LEMMA SettleWhole ==
  ASSUME TypeInv, WholeInv, NEW f \in Flushers, Settle(f) \/ RecordGap(f)
  PROVE  WholeInv'
<1> PICK c : c = flush[f]  OBVIOUS
<1>1. /\ c \in FlushRecord /\ Whole(c, plain[f])
      /\ \A r \in c.group : WindowOf[r] \in over
  BY FlushWhole
<1>2. UNCHANGED <<plain, over, covered, held, reopened>>
  BY DEF Settle, RecordGap, workspace, history
<1>4. CASE Settle(f)
  <2> PICK d : d = [c EXCEPT !.group = @ \ c.batch]  OBVIOUS
  <2>1. queue' = Keep(queue, Receipts \ c.batch)  BY <1>4 DEF Settle, Acknowledge
  <2>2. InQueue' = InQueue \ c.batch
    <3>1. InQueue' = InQueue \cap (Receipts \ c.batch)  BY <2>1, KeepQueueType DEF TypeInv
    <3> QED  BY <3>1, WindowFacts
  <2>3. Grows  BY <1>2, <2>2 DEF Grows
  <2>4. CoveredWhole'  BY <1>2, <2>3, CoveredStays DEF WholeInv
  <2>5. /\ d \in FlushRecord /\ d.at = "settling" /\ d.group = c.group \ c.batch
        /\ d.late = c.late /\ d.kept = c.kept /\ d.todo = c.todo
        /\ \A r \in d.group : WindowOf[r] \in over
    BY <1>1, <1>4 DEF Settle, At, FlushRecord
  <2> PICK e : e = After(d)  OBVIOUS
  <2>6. /\ e \in FlushRecord /\ e.group = d.group /\ e.late = d.late /\ e.kept = d.kept
        /\ e.todo = d.todo /\ e.at \in {"gapping", "marking", "looking"}
    <3>1. e \in FlushRecord  BY <2>5, AfterType
    <3> QED  BY <2>5, <3>1 DEF After, FlushRecord
  <2>7. ~plain[f] => KeptWhole(e)'
    BY <1>1, <1>2, <2>2, <2>5, <2>6 DEF Whole, KeptWhole, Sets, Notable
  <2>8. SummedWhole(e)'
    BY <1>1, <1>2, <2>2, <2>5, <2>6 DEF Whole, SummedWhole
  <2>9. MarksCovered(e)'
    <3> SUFFICES ASSUME NEW w \in c.todo, ~(In(w, e.group) \subseteq e.late)
                 PROVE  covered[w] # {}
      <4>1. e.todo = c.todo /\ covered' = covered  BY <1>2, <2>5, <2>6
      <4> QED  BY <4>1 DEF MarksCovered
    <3>1. ~(In(w, c.group) \subseteq c.late)  BY <2>5, <2>6 DEF In
    <3>2. c.at = "settling"  BY <1>4 DEF Settle, At
    <3> QED  BY <1>1, <3>1, <3>2 DEF Whole, MarksCovered
  <2>10. Whole(e, plain[f])'
    BY <1>2, <2>6, <2>7, <2>8, <2>9 DEF Whole, PostsWhole, SettlesExcused
  <2>11. Go(f, e)  BY <1>4 DEF Settle
  <2> QED  BY <1>2, <2>3, <2>4, <2>6, <2>10, <2>11, LoudStep
<1>5. CASE RecordGap(f)
  <2> PICK g \in c.gaps : gaps' = gaps \cup {g} /\ Go(f, After([c EXCEPT !.gaps = @ \ {g}]))
    BY <1>5 DEF RecordGap
  <2> PICK d : d = [c EXCEPT !.gaps = @ \ {g}]  OBVIOUS
  <2>1. Grows  BY <1>2, <1>5 DEF Grows, RecordGap, InQueue
  <2>2. /\ d \in FlushRecord /\ d.at = "gapping" /\ d.group = c.group
        /\ d.late = c.late /\ d.kept = c.kept /\ d.todo = c.todo
        /\ \A r \in d.group : WindowOf[r] \in over
    BY <1>1, <1>5 DEF RecordGap, At, FlushRecord
  <2>3. /\ ~plain[f] => KeptWhole(d)
        /\ SummedWhole(d) /\ MarksCovered(d)
    BY <1>1, <1>5, <2>2 DEF RecordGap, At, Whole, KeptWhole, Sets, SummedWhole, MarksCovered
  <2> PICK e : e = After(d)  OBVIOUS
  <2>4. e \in FlushRecord /\ e.group = c.group
    BY <2>2, AfterType DEF After, FlushRecord
  <2>5. Whole(e, plain[f])
    <3>0. plain[f] \in BOOLEAN  BY DEF TypeInv, OthersType
    <3> PICK p \in BOOLEAN : p = plain[f]  BY <3>0
    <3>1. ~p => KeptWhole(d)  BY <2>3
    <3>2. Whole(After(d), p)  BY <2>2, <2>3, <3>1, AfterWhole
    <3> QED  BY <3>2
  <2>6. Go(f, e)  OBVIOUS
  <2> QED  BY <1>1, <1>2, <2>1, <2>4, <2>5, <2>6, QuietStep
<1> QED  BY <1>4, <1>5

LEMMA ClaimWhole ==
  ASSUME TypeInv, WholeInv, NEW f \in Flushers, ClaimWindow(f)
  PROVE  WholeInv'
<1> PICK c : c = flush[f]  OBVIOUS
<1>1. /\ c \in FlushRecord /\ Shape(c) /\ Whole(c, plain[f])
      /\ \A r \in c.group : WindowOf[r] \in over
  BY FlushWhole
<1>2. c.at = "claiming"  BY DEF ClaimWindow, At
<1>3. UNCHANGED <<queue, plain, over, covered, held, reopened>>
  BY DEF ClaimWindow, workspace, history
<1>4. Grows  BY <1>3 DEF Grows, InQueue
<1> PICK w \in c.todo :
       LET mine == In(w, c.group)
           rest == [c EXCEPT !.todo = @ \ {w}]
           next == CASE Claim(w) = "claimed" -> rest
                   [] Claim(w) = "sent" -> [rest EXCEPT !.group = @ \ mine, !.late = @ \cup mine]
                   [] Claim(w) = "busy" -> [rest EXCEPT !.group = @ \ mine, !.kept = @ \cup mine]
       IN  /\ windows' = IF Claim(w) = "claimed" THEN Claimed(w) ELSE windows
           /\ Go(f, [next EXCEPT !.at = IF next.todo # {} THEN "claiming"
                                        ELSE IF next.group # {} THEN "summing" ELSE "looking"])
  BY DEF ClaimWindow
<1> PICK mine : mine = In(w, c.group)  OBVIOUS
<1> PICK rest : rest = [c EXCEPT !.todo = @ \ {w}]  OBVIOUS
<1> PICK sent : sent = [rest EXCEPT !.group = @ \ mine, !.late = @ \cup mine]  OBVIOUS
<1> PICK busy : busy = [rest EXCEPT !.group = @ \ mine, !.kept = @ \cup mine]  OBVIOUS
<1> PICK next : next = CASE Claim(w) = "claimed" -> rest
                       [] Claim(w) = "sent" -> sent
                       [] Claim(w) = "busy" -> busy
  OBVIOUS
<1> PICK d : d = [next EXCEPT !.at = IF next.todo # {} THEN "claiming"
                                     ELSE IF next.group # {} THEN "summing" ELSE "looking"]
  OBVIOUS
<1>5. Go(f, d)  OBVIOUS
<1>6. next \in {rest, sent, busy}
  <2>1. Claim(w) \in {"claimed", "sent", "busy"}  BY DEF Claim
  <2> QED  BY <2>1
<1>7. mine \subseteq c.group /\ mine \subseteq Receipts  BY <1>1 DEF In, FlushRecord
<1>8. /\ rest \in FlushRecord /\ rest.group = c.group /\ rest.late = c.late /\ rest.kept = c.kept
  BY <1>1 DEF FlushRecord
<1>9. /\ sent \in FlushRecord /\ sent.group = c.group \ mine /\ sent.late = c.late \cup mine
      /\ sent.kept = c.kept
  <2>1. rest.group \ mine \in SUBSET Receipts /\ rest.late \cup mine \in SUBSET Receipts
    BY <1>7, <1>8 DEF FlushRecord
  <2>2. sent \in FlushRecord  BY <1>8, <2>1 DEF FlushRecord
  <2>3. /\ sent.group = rest.group \ mine /\ sent.late = rest.late \cup mine
        /\ sent.kept = rest.kept
    BY <1>8 DEF FlushRecord
  <2> QED  BY <1>8, <2>2, <2>3
<1>10. /\ busy \in FlushRecord /\ busy.group = c.group \ mine /\ busy.late = c.late
       /\ busy.kept = c.kept \cup mine
  <2>1. rest.group \ mine \in SUBSET Receipts /\ rest.kept \cup mine \in SUBSET Receipts
    BY <1>7, <1>8 DEF FlushRecord
  <2>2. busy \in FlushRecord  BY <1>8, <2>1 DEF FlushRecord
  <2>3. /\ busy.group = rest.group \ mine /\ busy.kept = rest.kept \cup mine
        /\ busy.late = rest.late
    BY <1>8 DEF FlushRecord
  <2> QED  BY <1>8, <2>2, <2>3
<1>11. /\ next \in FlushRecord
       /\ \/ next.group = c.group /\ Sets(next) = Sets(c)
          \/ next.group = c.group \ mine /\ Sets(next) = Sets(c) \cup mine
  <2>1. CASE next = rest  BY <1>8, <2>1 DEF Sets
  <2>2. CASE next = sent  BY <1>9, <2>2 DEF Sets
  <2>3. CASE next = busy  BY <1>10, <2>3 DEF Sets
  <2> QED  BY <1>6, <2>1, <2>2, <2>3
<1>12. /\ d \in FlushRecord /\ d.at \in {"claiming", "summing", "looking"}
       /\ d.group = next.group /\ Sets(d) = Sets(next)
  BY <1>11 DEF FlushRecord, Places, Sets
<1>13. \A r \in mine, q \in InQueue :
         WindowOf[r] \notin reopened /\ WindowOf[q] = WindowOf[r] => q \in mine
  BY <1>1 DEF Whole, SummedWhole, In
<1>14. ~plain[f] => KeptWhole(d)
  <2> SUFFICES ASSUME ~plain[f], NEW r \in Sets(d), ~Notable(r), WindowOf[r] \notin reopened
               PROVE  /\ WindowOf[r] \in over
                      /\ \A q \in InQueue : WindowOf[q] = WindowOf[r] => q \in Sets(d)
    BY DEF KeptWhole
  <2>1. KeptWhole(c)  BY <1>1 DEF Whole
  <2>2. CASE r \in Sets(c)  BY <1>11, <1>12, <2>1, <2>2 DEF KeptWhole
  <2>3. CASE r \notin Sets(c)
    <3>1. r \in mine /\ Sets(d) = Sets(c) \cup mine  BY <1>11, <1>12, <2>3
    <3> QED  BY <1>1, <1>7, <1>13, <3>1
  <2> QED  BY <2>2, <2>3
<1>15. SummedWhole(d)
  <2> SUFFICES ASSUME NEW r \in d.group, NEW q \in InQueue, WindowOf[q] = WindowOf[r],
                      WindowOf[r] \notin reopened
               PROVE  q \in d.group
    BY DEF SummedWhole
  <2>1. r \in c.group  BY <1>11, <1>12
  <2>2. q \in c.group  BY <1>1, <2>1 DEF Whole, SummedWhole
  <2>3. q \in mine => r \in mine  BY <2>1 DEF In
  <2> QED  BY <1>11, <1>12, <2>2, <2>3
<1>16. Whole(d, plain[f])
  BY <1>12, <1>14, <1>15 DEF Whole, PostsWhole, MarksCovered, SettlesExcused
<1>17. \A r \in d.group : WindowOf[r] \in over  BY <1>1, <1>11, <1>12
<1> QED  BY <1>3, <1>4, <1>5, <1>12, <1>16, <1>17, QuietStep

LEMMA CoversFacts ==
  ASSUME TypeInv, WholeInv, NEW f \in Flushers, NEW ws \in SUBSET Mine(f)
  PROVE  /\ \A w \in Windows : covered[w] \subseteq Covers(f, ws)[w]
         /\ \A w \in ws : Covers(f, ws)[w] # {}
         /\ \A w \in Windows : Covers(f, ws)[w] # {} =>
              w \in over /\ (w \in reopened \/ In(w, InQueue) \subseteq Covers(f, ws)[w])
<1> PICK c : c = flush[f]  OBVIOUS
<1>1. c \in FlushRecord /\ SummedWhole(c) /\ \A r \in c.group : WindowOf[r] \in over
  BY FlushWhole DEF Whole
<1>2. \A w \in Windows :
        Covers(f, ws)[w] = IF w \in ws /\ covered[w] = {} THEN In(w, c.group) ELSE covered[w]
  BY DEF Covers
<1>3. \A w \in Mine(f) : w \in over /\ w \in Windows /\ \E r \in c.group : WindowOf[r] = w
  BY <1>1, WindowFacts DEF Mine
<1>4. \A w \in Mine(f) :
        In(w, c.group) # {} /\ (w \in reopened \/ In(w, InQueue) \subseteq In(w, c.group))
  <2> TAKE w \in Mine(f)
  <2>1. PICK r \in c.group : WindowOf[r] = w  BY <1>3
  <2>2. r \in In(w, c.group)  BY <2>1 DEF In
  <2>3. w \in reopened \/ \A q \in InQueue : WindowOf[q] = w => q \in c.group
    BY <1>1, <2>1 DEF SummedWhole
  <2> QED  BY <2>2, <2>3 DEF In
<1>5. \A w \in Windows : covered[w] # {} =>
        w \in over /\ (w \in reopened \/ In(w, InQueue) \subseteq covered[w])
  BY DEF WholeInv, CoveredWhole
<1>6. \A w \in Windows : covered[w] \subseteq Covers(f, ws)[w]  BY <1>2
<1>7. \A w \in ws : Covers(f, ws)[w] # {}  BY <1>2, <1>3, <1>4
<1>8. \A w \in Windows : Covers(f, ws)[w] # {} =>
        w \in over /\ (w \in reopened \/ In(w, InQueue) \subseteq Covers(f, ws)[w])
  BY <1>2, <1>3, <1>4, <1>5
<1> QED  BY <1>6, <1>7, <1>8

LEMMA AnsweredWhole ==
  ASSUME TypeInv, WholeInv, NEW f \in Flushers, SummariesAnswered(f)
  PROVE  WholeInv'
<1> PICK c : c = flush[f]  OBVIOUS
<1>1. /\ c \in FlushRecord /\ c.at = "summing" /\ Whole(c, plain[f])
      /\ \A r \in c.group : WindowOf[r] \in over
  <2>1. c.at = "summing"  BY DEF SummariesAnswered, At
  <2> QED  BY <2>1, FlushWhole
<1>2. UNCHANGED <<queue, plain, over, held, reopened>>
  BY DEF SummariesAnswered, outbox, history
<1> PICK mine : mine = Mine(f)  OBVIOUS
<1> PICK refused \in SUBSET mine :
       /\ covered' = Covers(f, mine \ refused)
       /\ Go(f, [c EXCEPT !.at = "marking", !.todo = mine,
                          !.late = @ \cup {r \in c.group : WindowOf[r] \in refused}])
  BY DEF SummariesAnswered
<1>3. /\ \A w \in Windows : covered[w] \subseteq covered'[w]
      /\ \A w \in mine \ refused : covered'[w] # {}
      /\ \A w \in Windows : covered'[w] # {} =>
           w \in over /\ (w \in reopened \/ In(w, InQueue) \subseteq covered'[w])
  <2>1. mine \ refused \in SUBSET Mine(f)  OBVIOUS
  <2> QED  BY <2>1, CoversFacts
<1>4. Grows  BY <1>2, <1>3 DEF Grows, InQueue
<1>6. CoveredWhole'  BY <1>2, <1>3 DEF CoveredWhole, In, InQueue
<1> PICK d : d = [c EXCEPT !.at = "marking", !.todo = mine,
                           !.late = @ \cup {r \in c.group : WindowOf[r] \in refused}]
  OBVIOUS
<1>7. mine \subseteq Windows  BY <1>1, WindowFacts DEF Mine
<1>8. /\ d \in FlushRecord /\ d.at = "marking" /\ d.todo = mine /\ d.group = c.group
      /\ d.late = c.late \cup {r \in c.group : WindowOf[r] \in refused} /\ d.kept = c.kept
  BY <1>1, <1>7 DEF FlushRecord, Places
<1>9. ~plain[f] => KeptWhole(d)'
  <2> SUFFICES ASSUME ~plain[f], NEW r \in Sets(d), ~Notable(r), WindowOf[r] \notin reopened
               PROVE  /\ WindowOf[r] \in over
                      /\ \A q \in InQueue : WindowOf[q] = WindowOf[r] => q \in Sets(d)
    BY <1>2 DEF KeptWhole, Sets, Notable, InQueue
  <2>1. CASE r \in Sets(c)
    BY <1>1, <1>8, <2>1 DEF Whole, KeptWhole, Sets
  <2>2. CASE r \notin Sets(c)
    <3>1. r \in c.group /\ WindowOf[r] \in refused  BY <1>8, <2>2 DEF Sets
    <3>2. \A q \in InQueue : WindowOf[q] = WindowOf[r] => q \in c.group
      BY <1>1, <3>1 DEF Whole, SummedWhole
    <3> QED  BY <1>1, <1>8, <3>1, <3>2 DEF Sets
  <2> QED  BY <2>1, <2>2
<1>10. SummedWhole(d)'
  BY <1>1, <1>2, <1>8 DEF Whole, SummedWhole, InQueue
<1>11. MarksCovered(d)'
  <2> SUFFICES ASSUME NEW w \in mine, covered'[w] = {}
               PROVE  In(w, d.group) \subseteq d.late
    BY <1>8 DEF MarksCovered, In
  <2>1. w \in refused  BY <1>3
  <2> QED  BY <1>8, <2>1 DEF In
<1>12. Whole(d, plain[f])'
  BY <1>2, <1>8, <1>9, <1>10, <1>11 DEF Whole, PostsWhole, SettlesExcused
<1>13. Go(f, d)  OBVIOUS
<1> QED  BY <1>2, <1>4, <1>6, <1>8, <1>12, <1>13, LoudStep

LEMMA RefusedWhole ==
  ASSUME TypeInv, WholeInv, NEW f \in Flushers, SummariesRefused(f)
  PROVE  WholeInv'
<1>1. UNCHANGED <<queue, over, covered, held, reopened>>
  BY DEF SummariesRefused, workspace, history
<1>2. /\ plain'[f] = TRUE
      /\ \A g \in Flushers : g # f => plain'[g] = plain[g]
  BY DEF SummariesRefused, TypeInv, OthersType
<1>3. Grows  BY <1>1 DEF Grows, InQueue
<1>5. CoveredWhole'  BY <1>1, <1>3, CoveredStays DEF WholeInv
<1> PICK c : c = flush[f]  OBVIOUS
<1>6. c \in FlushRecord  BY FlushWhole
<1> PICK d : d = [c EXCEPT !.at = "looking", !.batch = {}, !.gaps = {}, !.group = {}]  OBVIOUS
<1>7. d \in FlushRecord /\ d.at = "looking" /\ d.group = {}  BY <1>6 DEF FlushRecord, Places
<1>8. Whole(d, plain[f])'
  BY <1>2, <1>7 DEF Whole, SummedWhole, MarksCovered, SettlesExcused
<1>9. Go(f, d)  BY DEF SummariesRefused, Look
<1> QED  BY <1>2, <1>3, <1>5, <1>7, <1>8, <1>9, LoudStep

LEMMA FailWhole ==
  ASSUME TypeInv, WholeInv, NEW f \in Flushers, SummariesFail(f)
  PROVE  WholeInv'
<1>1. UNCHANGED <<queue, plain, over, held, reopened>>  BY DEF SummariesFail, history
<1>2. covered' = covered \/ covered' = Covers(f, Mine(f))  BY DEF SummariesFail
<1>3. Mine(f) \in SUBSET Mine(f)  OBVIOUS
<1>4. /\ \A w \in Windows : covered[w] \subseteq covered'[w]
      /\ \A w \in Windows : covered'[w] # {} =>
           w \in over /\ (w \in reopened \/ In(w, InQueue) \subseteq covered'[w])
  BY <1>2, <1>3, CoversFacts DEF WholeInv, CoveredWhole
<1>5. Grows  BY <1>1, <1>4 DEF Grows, InQueue
<1>7. CoveredWhole'  BY <1>1, <1>4 DEF CoveredWhole, In, InQueue
<1> PICK d : d = NoFlush  OBVIOUS
<1>8. d \in FlushRecord /\ d.at = "idle" /\ d.group = {} /\ d.late = {} /\ d.kept = {}
  <2>1. d \in FlushRecord  BY NoFlushType
  <2> QED  BY <2>1 DEF NoFlush
<1>9. Whole(d, plain[f])'
  BY <1>8
  DEF Whole, KeptWhole, Sets, PostsWhole, SummedWhole, MarksCovered, SettlesExcused
<1>10. Go(f, d)  BY DEF SummariesFail, Stop
<1> QED  BY <1>1, <1>5, <1>7, <1>8, <1>9, <1>10, LoudStep

LEMMA MarkWhole ==
  ASSUME TypeInv, WholeInv, NEW f \in Flushers, MarkSent(f)
  PROVE  WholeInv'
<1> PICK c : c = flush[f]  OBVIOUS
<1>1. /\ c \in FlushRecord /\ c.at = "marking" /\ Whole(c, plain[f])
      /\ \A r \in c.group : WindowOf[r] \in over
  <2>1. c.at = "marking"  BY DEF MarkSent, At
  <2> QED  BY <2>1, FlushWhole
<1>2. UNCHANGED <<queue, plain, over, covered, held, reopened>>
  BY DEF MarkSent, workspace, history
<1>3. Grows  BY <1>2 DEF Grows, InQueue
<1> PICK w \in c.todo :
       LET rest == [c EXCEPT !.todo = @ \ {w}]
       IN  IF In(w, c.group) \subseteq c.late
           THEN Go(f, After([rest EXCEPT !.group = @ \ In(w, c.group)]))
           ELSE Go(f, [rest EXCEPT !.at = "settling", !.batch = In(w, c.group)])
  BY DEF MarkSent
<1> PICK rest : rest = [c EXCEPT !.todo = @ \ {w}]  OBVIOUS
<1>4. /\ rest \in FlushRecord /\ rest.at = "marking" /\ rest.todo = c.todo \ {w}
      /\ rest.group = c.group /\ rest.late = c.late /\ rest.kept = c.kept
  BY <1>1 DEF FlushRecord
<1>5. CASE In(w, c.group) \subseteq c.late
  <2> PICK gone : gone = [rest EXCEPT !.group = @ \ In(w, c.group)]  OBVIOUS
  <2>1. /\ gone \in FlushRecord /\ gone.at = "marking" /\ gone.todo = c.todo \ {w}
        /\ gone.group = c.group \ In(w, c.group) /\ gone.late = c.late /\ gone.kept = c.kept
        /\ \A r \in gone.group : WindowOf[r] \in over
    BY <1>1, <1>4 DEF FlushRecord
  <2>2. ~plain[f] => KeptWhole(gone)  BY <1>1, <2>1 DEF Whole, KeptWhole, Sets
  <2>3. SummedWhole(gone)  BY <1>1, <2>1 DEF Whole, SummedWhole, In
  <2>4. MarksCovered(gone)  BY <1>1, <2>1 DEF Whole, MarksCovered, In
  <2> PICK e : e = After(gone)  OBVIOUS
  <2>5. plain[f] \in BOOLEAN  BY DEF TypeInv, OthersType
  <2>6. Whole(e, plain[f])
    <3> PICK p \in BOOLEAN : p = plain[f]  BY <2>5
    <3>1. ~p => KeptWhole(gone)  BY <2>2
    <3>2. Whole(After(gone), p)  BY <2>1, <2>3, <2>4, <3>1, AfterWhole
    <3> QED  BY <3>2
  <2>7. e \in FlushRecord /\ e.group = gone.group
    <3>1. e \in FlushRecord  BY <2>1, AfterType
    <3>2. e.group = gone.group  BY <2>1 DEF After, FlushRecord
    <3> QED  BY <3>1, <3>2
  <2>8. Go(f, e)  BY <1>5
  <2> QED  BY <1>2, <1>3, <2>1, <2>6, <2>7, <2>8, QuietStep
<1>6. CASE ~(In(w, c.group) \subseteq c.late)
  <2> PICK d : d = [rest EXCEPT !.at = "settling", !.batch = In(w, c.group)]  OBVIOUS
  <2>1. /\ d \in FlushRecord /\ d.at = "settling" /\ d.todo = c.todo \ {w}
        /\ d.group = c.group /\ d.late = c.late /\ d.kept = c.kept /\ d.batch = In(w, c.group)
    <3>1. In(w, c.group) \in SUBSET Receipts  BY <1>1 DEF FlushRecord, In
    <3>0. "settling" \in Places  BY DEF Places
    <3>2. d \in FlushRecord  BY <1>4, <3>0, <3>1 DEF FlushRecord
    <3>3. /\ d.at = "settling" /\ d.todo = rest.todo /\ d.group = rest.group
          /\ d.late = rest.late /\ d.kept = rest.kept /\ d.batch = In(w, c.group)
      BY <1>4 DEF FlushRecord
    <3> QED  BY <1>4, <3>2, <3>3
  <2>2. covered[w] # {} /\ w \in Windows
    BY <1>1, <1>6 DEF Whole, MarksCovered, FlushRecord
  <2>3. SettlesExcused(d)
    <3> SUFFICES ASSUME NEW r \in In(w, c.group)  PROVE Excused(d, r)
      BY <2>1 DEF SettlesExcused
    <3>1. r \in c.group /\ WindowOf[r] = w /\ w \in over  BY <1>1 DEF In
    <3>2. r \in InQueue => r \in covered[w] \/ w \in reopened
      BY <2>2, <3>1 DEF WholeInv, CoveredWhole, In
    <3> QED  BY <2>2, <3>1, <3>2 DEF Excused, AtWorkspace
  <2>4. MarksCovered(d)  BY <1>1, <2>1 DEF Whole, MarksCovered
  <2>5. Whole(d, plain[f])
    BY <1>1, <2>1, <2>3, <2>4 DEF Whole, KeptWhole, Sets, PostsWhole, SummedWhole
  <2>6. Go(f, d)  BY <1>6
  <2> QED  BY <1>1, <1>2, <1>3, <2>1, <2>5, <2>6, QuietStep
<1> QED  BY <1>5, <1>6

(* No flush takes a step.                                                  *)
LEMMA OutsideStep ==
  ASSUME TypeInv, WholeInv, Grows, UNCHANGED <<flush, plain, covered>>
  PROVE  WholeInv'
<1>1. CoveredWhole'  BY CoveredStays DEF WholeInv
<1>2. \A g \in Flushers : Whole(flush[g], plain[g])'  BY OtherFlushesStay
<1> QED  BY <1>1, <1>2 DEF WholeInv

LEMMA ReceiptsArriveWhole ==
  ASSUME TypeInv, WholeInv,
         \/ \E r \in Receipts : Offer(r) \/ OfferFails(r)
         \/ backfillQueue \/ BackfillFails
  PROVE  WholeInv'
<1>1. QueueType /\ TablesType  BY DEF TypeInv
<1>2. ASSUME NEW r \in Receipts, Queues(r), UNCHANGED <<flush, plain, over, covered, held>>
      PROVE  WholeInv'
  <2>1. InQueue' \subseteq InQueue \cup {r}  BY <1>1, <1>2, EnqueueFacts DEF Queues
  <2>2. /\ reopened \subseteq reopened'
        /\ WindowOf[r] \notin over \/ WindowOf[r] \in reopened'
    BY <1>2 DEF Queues
  <2>3. Grows  BY <1>2, <2>1, <2>2 DEF Grows
  <2> QED  BY <1>2, <2>3, OutsideStep
<1>3. CASE \E r \in Receipts : Offer(r)
  BY <1>2, <1>3 DEF Offer, workspace
<1>4. CASE BackfillQueues
  <2> PICK r \in backfill : Queues(r)  BY <1>4 DEF BackfillQueues
  <2>1. r \in Receipts  BY DEF TypeInv, OthersType
  <2>2. UNCHANGED <<flush, plain, over, covered, held>>  BY <1>4 DEF BackfillQueues, workspace
  <2> QED  BY <1>2, <2>1, <2>2
<1>5. CASE \/ \E r \in Receipts : OfferFails(r)
           \/ BackfillReads \/ BackfillEnds \/ BackfillFails
  <2>1. UNCHANGED <<queue, flush, plain, over, covered, held, reopened>>
    BY <1>5
    DEF OfferFails, BackfillReads, BackfillEnds, BackfillFails, outbox, workspace, history
  <2>2. Grows  BY <2>1 DEF Grows, InQueue
  <2> QED  BY <2>1, <2>2, OutsideStep
<1> QED  BY <1>3, <1>4, <1>5 DEF backfillQueue

LEMMA OtherWhole ==
  ASSUME TypeInv, WholeInv,
         \/ \E f \in Flushers : FlushStart(f) \/ RecordGapFails(f) \/ Crash(f)
         \/ ReceiptsAge \/ WindowsPass
  PROVE  WholeInv'
<1>1. CASE \E f \in Flushers : FlushStart(f)
  <2> PICK f \in Flushers : FlushStart(f)  BY <1>1
  <2>1. UNCHANGED <<queue, plain, over, covered, held, reopened>>
    BY DEF FlushStart, outbox, workspace, history
  <2>2. Grows  BY <2>1 DEF Grows, InQueue
  <2>3. NoFlush \in FlushRecord  BY NoFlushType
  <2>4. KeptWhole(NoFlush)  BY DEF KeptWhole, Sets, NoFlush
  <2> QED  BY <2>1, <2>2, <2>3, <2>4, LookStep DEF FlushStart
<1>2. CASE \E f \in Flushers : Crash(f)
  <2> PICK f \in Flushers : Crash(f)  BY <1>2
  <2>1. UNCHANGED <<queue, over, covered, held, reopened>>  BY DEF Crash, outbox, workspace
  <2>2. \A g \in Flushers : g # f => plain'[g] = plain[g]
    BY DEF Crash, TypeInv, OthersType
  <2>3. Grows  BY <2>1 DEF Grows, InQueue
  <2>4. CoveredWhole'  BY <2>1, <2>3, CoveredStays DEF WholeInv
  <2> PICK d : d = NoFlush  OBVIOUS
  <2>5. d \in FlushRecord /\ d.at = "idle" /\ d.group = {} /\ d.late = {} /\ d.kept = {}
    <3>1. d \in FlushRecord  BY NoFlushType
    <3> QED  BY <3>1 DEF NoFlush
  <2>6. Whole(d, plain[f])'
    BY <2>5
    DEF Whole, KeptWhole, Sets, PostsWhole, SummedWhole, MarksCovered, SettlesExcused
  <2>7. Go(f, d)  BY DEF Crash, Stop
  <2> QED  BY <2>2, <2>3, <2>4, <2>5, <2>6, <2>7, LoudStep
<1>3. CASE \E f \in Flushers : RecordGapFails(f)
  <2> PICK f \in Flushers : RecordGapFails(f)  BY <1>3
  <2>1. UNCHANGED <<queue, plain, over, covered, held, reopened>>
    BY DEF RecordGapFails, outbox, workspace
  <2>2. Grows  BY <2>1 DEF Grows, InQueue
  <2> QED  BY <2>1, <2>2, StopWhole DEF RecordGapFails
<1>4. CASE ReceiptsAge \/ WindowsPass
  <2>1. UNCHANGED <<queue, flush, plain, covered, held, reopened>>
    BY <1>4
    DEF ReceiptsAge, GetOlder, WindowsPass, WindowEnds, LeaseEnds, outbox, workspace, history
  <2>2. over \subseteq over'
    BY <1>4 DEF ReceiptsAge, GetOlder, WindowsPass, WindowEnds, LeaseEnds
  <2>3. Grows  BY <2>1, <2>2 DEF Grows, InQueue
  <2> QED  BY <2>1, <2>3, OutsideStep
<1> QED  BY <1>1, <1>2, <1>3, <1>4

LEMMA WholeInit == Init => WholeInv
<1> SUFFICES ASSUME Init  PROVE WholeInv  OBVIOUS
<1>1. CoveredWhole  BY DEF Init, CoveredWhole
<1>2. \A f \in Flushers : Whole(flush[f], plain[f])
  <2> TAKE f \in Flushers
  <2>1. flush[f] = NoFlush  BY DEF Init
  <2> QED  BY <2>1, NoFlushWhole
<1> QED  BY <1>1, <1>2 DEF WholeInv

LEMMA WholeStep == TypeInv /\ WholeInv /\ [Next]_vars => WholeInv'
<1> SUFFICES ASSUME TypeInv, WholeInv, [Next]_vars  PROVE WholeInv'  OBVIOUS
<1>1. CASE UNCHANGED vars
  <2>1. UNCHANGED <<queue, flush, plain, over, covered, held, reopened>>
    BY <1>1 DEF vars, outbox, workspace, history
  <2>2. Grows  BY <2>1 DEF Grows, InQueue
  <2> QED  BY <2>1, <2>2, OutsideStep
<1>2. CASE Next
  BY <1>2, ReceiptsArriveWhole, PassWhole, PostWhole, SettleWhole, ClaimWhole, AnsweredWhole,
     RefusedWhole, FailWhole, MarkWhole, OtherWhole
  DEF Next, flushOnce, sendSummaries
<1> QED  BY <1>1, <1>2

-----------------------------------------------------------------------------
(* No record disappears.                                                   *)

(* Every action; the cases the proofs below tell apart.                    *)
LEMMA StepCases ==
  ASSUME [Next]_vars
  PROVE  \/ \E r \in Receipts : Offer(r) \/ OfferFails(r)
         \/ BackfillReads \/ BackfillQueues \/ BackfillEnds \/ BackfillFails
         \/ \E f \in Flushers :
              \/ FlushStart(f) \/ Pass(f) \/ TooLarge(f) \/ IdConflict(f) \/ IngestAnswers(f)
              \/ PostFails(f) \/ Settle(f) \/ RecordGap(f) \/ RecordGapFails(f) \/ ClaimWindow(f)
              \/ SummariesAnswered(f) \/ SummariesRefused(f) \/ SummariesFail(f) \/ MarkSent(f)
              \/ Crash(f)
         \/ \E r \in Receipts : GetOlder(r)
         \/ \E w \in Windows : WindowEnds(w) \/ LeaseEnds(w)
         \/ UNCHANGED vars
BY DEF Next, backfillQueue, flushOnce, sendSummaries, ReceiptsAge, WindowsPass

(* Who changes what the evidence rests on: gaps, marks, histories and what *)
(* the workspace holds only grow, misses go when a backfill has looked at  *)
(* them all, and only an offer offers.                                     *)
LEMMA WhoChanges ==
  ASSUME [Next]_vars
  PROVE  /\ gaps \subseteq gaps' /\ held \subseteq held' /\ acked \subseteq acked'
         /\ reopened \subseteq reopened' /\ dropped \subseteq dropped'
         /\ \/ covered' = covered
            \/ \E f \in Flushers : \E ws \in SUBSET Mine(f) : covered' = Covers(f, ws)
         /\ offered' = offered \/ \E r \in Receipts : Offer(r) \/ OfferFails(r)
         /\ BackfillEnds \/ missed \cup work \subseteq missed' \cup work'
<1> DEFINE Records == /\ gaps \subseteq gaps' /\ held \subseteq held' /\ acked \subseteq acked'
                      /\ reopened \subseteq reopened' /\ dropped \subseteq dropped'
           Evidence == Records /\ covered' = covered
           Owed == offered' = offered /\ missed \cup work \subseteq missed' \cup work'
<1>1. ASSUME NEW r \in Receipts, Offer(r) \/ OfferFails(r)
      PROVE  Evidence /\ missed \cup work \subseteq missed' \cup work'
  <2>1. /\ UNCHANGED <<held, covered, acked, dropped>> /\ reopened \subseteq reopened'
        /\ missed \subseteq missed' /\ work' = work
    BY <1>1 DEF Offer, Queues, OfferFails, repair, workspace, history, outbox
  <2>2. gaps \subseteq gaps'  BY <1>1 DEF Offer, Queues, OfferFails, Enqueue, outbox
  <2> QED  BY <2>1, <2>2
<1>2. CASE BackfillReads \/ BackfillFails
  <2>1. Evidence /\ Owed
    BY <1>2 DEF BackfillReads, BackfillFails, outbox, workspace, history
  <2> QED  BY <2>1
<1>3. CASE BackfillQueues
  <2>1. Evidence /\ Owed  BY <1>3 DEF BackfillQueues, Queues, Enqueue, workspace
  <2> QED  BY <2>1
<1>4. CASE BackfillEnds
  BY <1>4 DEF BackfillEnds, workspace, history
<1>5. ASSUME NEW f \in Flushers, FlushStart(f) \/ Pass(f) \/ TooLarge(f) \/ IdConflict(f)
      PROVE  Evidence /\ Owed
  BY <1>5 DEF FlushStart, Pass, TooLarge, IdConflict, outbox, repair, workspace, history
<1>6. ASSUME NEW f \in Flushers, IngestAnswers(f) \/ PostFails(f)
      PROVE  Evidence /\ Owed
  BY <1>6 DEF IngestAnswers, Answered, PostFails, outbox, repair, workspace, history
<1>7. ASSUME NEW f \in Flushers, Settle(f) \/ RecordGap(f) \/ ClaimWindow(f)
      PROVE  Evidence /\ Owed
  BY <1>7 DEF Settle, Acknowledge, RecordGap, ClaimWindow, outbox, repair, workspace, history
<1>8. ASSUME NEW f \in Flushers, SummariesRefused(f) \/ MarkSent(f) \/ Crash(f) \/ RecordGapFails(f)
      PROVE  Evidence /\ Owed
  BY <1>8
  DEF SummariesRefused, MarkSent, Crash, RecordGapFails, Forgets, outbox, repair, workspace, history
<1>9. ASSUME NEW f \in Flushers, SummariesAnswered(f) \/ SummariesFail(f)
      PROVE  /\ Records /\ Owed
             /\ \E ws \in SUBSET Mine(f) : covered' = covered \/ covered' = Covers(f, ws)
  <2>1. Records /\ Owed
    BY <1>9 DEF SummariesAnswered, SummariesFail, outbox, repair, history
  <2>2. \E ws \in SUBSET Mine(f) : covered' = covered \/ covered' = Covers(f, ws)
    BY <1>9 DEF SummariesAnswered, SummariesFail
  <2> QED  BY <2>1, <2>2
<1>10. ASSUME NEW r \in Receipts, GetOlder(r) PROVE Evidence /\ Owed
  BY <1>10 DEF GetOlder, repair, workspace, history
<1>11. ASSUME NEW w \in Windows, WindowEnds(w) \/ LeaseEnds(w) PROVE Evidence /\ Owed
  BY <1>11 DEF WindowEnds, LeaseEnds, outbox, repair, workspace, history
<1>12. CASE UNCHANGED vars
  <2>1. Evidence /\ Owed  BY <1>12 DEF vars, outbox, repair, workspace, history
  <2> QED  BY <2>1
<1>13. CASE \E f \in Flushers : SummariesAnswered(f) \/ SummariesFail(f)
  BY <1>9, <1>13
<1>14. CASE Evidence /\ Owed  BY <1>14
<1> HIDE DEF Evidence, Owed
<1>15. \/ \E r \in Receipts : Offer(r) \/ OfferFails(r)
       \/ BackfillReads \/ BackfillQueues \/ BackfillEnds \/ BackfillFails
       \/ \E f \in Flushers : SummariesAnswered(f) \/ SummariesFail(f)
       \/ UNCHANGED vars
       \/ Evidence /\ Owed
  BY <1>5, <1>6, <1>7, <1>8, <1>10, <1>11, StepCases
<1>16. CASE \E r \in Receipts : Offer(r) \/ OfferFails(r)
  <2> USE DEF Evidence
  <2> QED  BY <1>1, <1>16
<1> QED  BY <1>2, <1>3, <1>4, <1>12, <1>13, <1>14, <1>15, <1>16

(* What the workspace holds and what is a gap stay so.                     *)
LEMMA EvidenceStays ==
  ASSUME TypeInv, [Next]_vars
  PROVE  /\ gaps \subseteq gaps' /\ held \subseteq held' /\ acked \subseteq acked'
         /\ reopened \subseteq reopened' /\ dropped \subseteq dropped'
         /\ \A w \in Windows : covered[w] \subseteq covered'[w]
<1>1. \A f \in Flushers : \A ws \in SUBSET Mine(f) : \A w \in Windows :
        covered[w] \subseteq Covers(f, ws)[w]
  BY DEF Covers
<1> QED  BY <1>1, WhoChanges

LEMMA DeliveredStays ==
  ASSUME TypeInv, [Next]_vars, NEW r, Delivered(r)
  PROVE  Delivered(r)'
BY EvidenceStays DEF Delivered, AtWorkspace

(* What settling takes out of the queue becomes a gap, or is marked.       *)
LEMMA SettledLeaves ==
  ASSUME TypeInv, WholeInv, NEW f \in Flushers, Settle(f), [Next]_vars,
         NEW r \in InQueue, r \in flush[f].batch
  PROVE  Delivered(r)' \/ \E g \in flush[f].gaps : g.rec = r
<1> PICK c : c = flush[f]  OBVIOUS
<1>1. SUFFICES ASSUME r \notin {g.rec : g \in c.gaps}  PROVE Delivered(r)'
  OBVIOUS
<1>2. acked' = acked \cup
        {IdOf[q] : q \in c.batch \cap (c.batch \ {g.rec : g \in c.gaps}) \cap InQueue}
  BY DEF Settle, Acknowledge, InQueue
<1>3. IdOf[r] \in acked'  BY <1>1, <1>2
<1>4. Excused(c, r)
  <2>1. c.at = "settling" /\ SettlesExcused(c)  BY DEF Settle, At, WholeInv, Whole
  <2> QED  BY <2>1 DEF SettlesExcused
<1>5. AtWorkspace(r) \/ WindowOf[r] \in reopened  BY <1>1, <1>4 DEF Excused
<1> QED  BY <1>3, <1>5, EvidenceStays DEF Delivered, AtWorkspace

LEMMA HeldStep ==
  TypeInv /\ WholeInv /\ AcknowledgedIsHeld /\ [Next]_vars => AcknowledgedIsHeld'
<1> SUFFICES ASSUME TypeInv, WholeInv, AcknowledgedIsHeld, [Next]_vars, NEW id \in acked'
             PROVE  \E r \in Receipts : IdOf[r] = id /\ Delivered(r)'
  BY DEF AcknowledgedIsHeld
<1>1. CASE id \in acked  BY <1>1, DeliveredStays DEF AcknowledgedIsHeld
<1>2. CASE id \notin acked
  <2>1. \E f \in Flushers : Settle(f)
    BY <1>2, StepCases
    DEF Offer, OfferFails, BackfillReads, BackfillQueues, BackfillEnds, BackfillFails,
        FlushStart, Pass, TooLarge, IdConflict, IngestAnswers, Answered, PostFails, RecordGap,
        RecordGapFails, ClaimWindow, SummariesAnswered, SummariesRefused, SummariesFail, MarkSent,
        Crash, GetOlder, WindowEnds, LeaseEnds, vars, outbox
  <2>2. PICK f \in Flushers : Settle(f)  BY <2>1
  <2> PICK c : c = flush[f]  OBVIOUS
  <2>3. acked' = acked \cup
          {IdOf[r] : r \in c.batch \cap (c.batch \ {g.rec : g \in c.gaps}) \cap InQueue}
    BY <2>2 DEF Settle, Acknowledge, InQueue
  <2>4. PICK r \in InQueue : r \in c.batch /\ r \notin {g.rec : g \in c.gaps} /\ IdOf[r] = id
    BY <1>2, <2>3
  <2>5. Delivered(r)'  BY <2>2, <2>4, SettledLeaves
  <2> QED  BY <2>4, <2>5, WindowFacts
<1> QED  BY <1>1, <1>2

(* Retention may trust a mark: what is marked as acknowledged is with the  *)
(* workspace, as a receipt or in the summary of its window, unless that    *)
(* window got a receipt after it was over (node-stores.ts:1064-1065).      *)
THEOREM MarkedIsHeld == Spec => []AcknowledgedIsHeld
<1>1. Init => AcknowledgedIsHeld  BY DEF Init, InitOutbox, AcknowledgedIsHeld
<1> QED  BY <1>1, TypeInit, TypeStep, WholeInit, WholeStep, HeldStep, PTL DEF Spec

(* A receipt leaves the queue with evidence.                               *)
LEMMA LeavesQueue ==
  ASSUME TypeInv, WholeInv, [Next]_vars, NEW r \in InQueue, r \notin InQueue'
  PROVE  Delivered(r)' \/ HasGap(r)' \/ InHand(r)'
<1>1. QueueType /\ TablesType  BY DEF TypeInv
<1>2. \A q \in Receipts : Queues(q) => HasGap(r)'  BY <1>1, EnqueueFacts DEF Queues
<1>3. CASE \E q \in Receipts : Offer(q)  BY <1>2, <1>3 DEF Offer
<1>4. CASE BackfillQueues  BY <1>2, <1>4 DEF BackfillQueues, TypeInv, OthersType
<1>5. CASE \E f \in Flushers : Pass(f)
  <2>1. queue' = Unexpired /\ gaps' = gaps \cup ExpiredGaps  BY <1>5 DEF Pass
  <2>2. r \in TooOld  BY <1>1, <2>1, UnexpiredFacts DEF InQueue
  <2> QED  BY <1>1, <2>1, <2>2, ExpiredGapsType DEF HasGap
<1>6. CASE \E f \in Flushers : Settle(f)
  <2>1. PICK f \in Flushers : Settle(f)  BY <1>6
  <2> PICK c : c = flush[f]  OBVIOUS
  <2>2. c \in FlushRecord  BY FlushOf DEF TypeInv
  <2>3. r \in c.batch
    <3>1. queue' = Keep(queue, Receipts \ c.batch)  BY <2>1 DEF Settle, Acknowledge
    <3>2. InQueue' = InQueue \cap (Receipts \ c.batch)  BY <3>1, KeepQueueType DEF TypeInv
    <3> QED  BY <3>2, WindowFacts
  <2>4. Delivered(r)' \/ \E g \in c.gaps : g.rec = r  BY <2>1, <2>3, SettledLeaves
  <2>5. CASE \E g \in c.gaps : g.rec = r
    <3> PICK e : e = After([c EXCEPT !.group = @ \ c.batch])  OBVIOUS
    <3>1. e.at = "gapping" /\ e.gaps = c.gaps  BY <2>2, <2>5 DEF After, FlushRecord
    <3>2. flush'[f] = e  BY <2>1 DEF Settle, Go, TypeInv, FlushType
    <3> QED  BY <2>5, <3>1, <3>2 DEF InHand, At
  <2> QED  BY <2>4, <2>5
<1>7. CASE queue' = queue  BY <1>7 DEF InQueue
<1>8. \/ queue' = queue
      \/ \E q \in Receipts : Offer(q)
      \/ BackfillQueues
      \/ \E f \in Flushers : Pass(f) \/ Settle(f)
  BY StepCases
  DEF OfferFails, BackfillReads, BackfillEnds, BackfillFails, FlushStart, TooLarge, IdConflict,
      IngestAnswers, Answered, PostFails, RecordGap, RecordGapFails, ClaimWindow,
      SummariesAnswered, SummariesRefused, SummariesFail, MarkSent, Crash, GetOlder, WindowEnds,
      LeaseEnds, vars, outbox
<1> QED  BY <1>3, <1>4, <1>5, <1>6, <1>7, <1>8

(* A gap in hand is recorded or stays in hand, unless the flush ends.      *)
LEMMA HandEmpties ==
  ASSUME TypeInv, [Next]_vars, NEW r, InHand(r)
  PROVE  InHand(r)' \/ HasGap(r)' \/ r \in dropped'
<1> PICK f \in Flushers : At(f, "gapping") /\ \E g \in flush[f].gaps : g.rec = r
  BY DEF InHand
<1> PICK c : c = flush[f]  OBVIOUS
<1>1. c \in FlushRecord /\ c.at = "gapping" /\ \E g \in c.gaps : g.rec = r
  BY FlushOf DEF TypeInv, At
<1>2. CASE flush'[f] = flush[f]  BY <1>1, <1>2 DEF InHand, At
<1>3. CASE RecordGap(f)
  <2> PICK g \in c.gaps : gaps' = gaps \cup {g} /\ Go(f, After([c EXCEPT !.gaps = @ \ {g}]))
    BY <1>3 DEF RecordGap
  <2>1. CASE g.rec = r  BY <2>1 DEF HasGap
  <2>2. CASE g.rec # r
    <3> PICK e : e = After([c EXCEPT !.gaps = @ \ {g}])  OBVIOUS
    <3>1. \E h \in c.gaps \ {g} : h.rec = r  BY <1>1, <2>2
    <3>2. e.at = "gapping" /\ e.gaps = c.gaps \ {g}  BY <1>1, <3>1 DEF After, FlushRecord
    <3>3. flush'[f] = e  BY DEF Go, TypeInv, FlushType
    <3> QED  BY <3>1, <3>2, <3>3 DEF InHand, At
  <2> QED  BY <2>1, <2>2
<1>4. CASE RecordGapFails(f) \/ Crash(f)
  <2>1. dropped' = dropped \cup {g.rec : g \in c.gaps}
    BY <1>1, <1>4 DEF RecordGapFails, Crash, Forgets, At
  <2> QED  BY <1>1, <2>1
<1>5. ASSUME ~RecordGap(f), ~RecordGapFails(f), ~Crash(f)  PROVE flush'[f] = flush[f]
  <2>1. \A d : \A g \in Flushers : g # f /\ Go(g, d) => flush'[f] = flush[f]
    BY DEF Go, TypeInv, FlushType
  <2>2. \/ flush' = flush
        \/ \E g \in Flushers :
             \/ FlushStart(g) \/ Pass(g) \/ TooLarge(g) \/ IdConflict(g) \/ IngestAnswers(g)
             \/ PostFails(g) \/ Settle(g) \/ RecordGap(g) \/ RecordGapFails(g) \/ ClaimWindow(g)
             \/ SummariesAnswered(g) \/ SummariesRefused(g) \/ SummariesFail(g) \/ MarkSent(g)
             \/ Crash(g)
    BY StepCases
    DEF Offer, OfferFails, BackfillReads, BackfillQueues, BackfillEnds, BackfillFails, GetOlder,
        WindowEnds, LeaseEnds, vars
  <2>3. CASE flush' = flush  BY <2>3
  <2>4. \A g \in Flushers : FlushStart(g) \/ Pass(g) => g # f /\ \E d : Go(g, d)
    BY <1>1 DEF FlushStart, Pass, At, Look, Stop
  <2>5. \A g \in Flushers :
          TooLarge(g) \/ IdConflict(g) \/ IngestAnswers(g) \/ PostFails(g) => g # f /\ \E d : Go(g, d)
    BY <1>1 DEF TooLarge, IdConflict, IngestAnswers, Answered, PostFails, At, Look, Stop
  <2>6. \A g \in Flushers : Settle(g) => g # f /\ \E d : Go(g, d)
    BY <1>1 DEF Settle, At
  <2>7. \A g \in Flushers : RecordGap(g) => g # f /\ \E d : Go(g, d)
    BY <1>5 DEF RecordGap
  <2>8. \A g \in Flushers : ClaimWindow(g) => g # f /\ \E d : Go(g, d)
    BY <1>1 DEF ClaimWindow, At
  <2>9. \A g \in Flushers :
          SummariesAnswered(g) \/ SummariesRefused(g) \/ SummariesFail(g) => g # f /\ \E d : Go(g, d)
    BY <1>1 DEF SummariesAnswered, SummariesRefused, SummariesFail, At, Look, Stop
  <2>10. \A g \in Flushers : MarkSent(g) => g # f /\ \E d : Go(g, d)
    BY <1>1 DEF MarkSent, At
  <2>11. \A g \in Flushers : Crash(g) \/ RecordGapFails(g) => g # f /\ \E d : Go(g, d)
    BY <1>5 DEF Crash, RecordGapFails, Stop
  <2> QED  BY <2>1, <2>2, <2>3, <2>4, <2>5, <2>6, <2>7, <2>8, <2>9, <2>10, <2>11
<1> QED  BY <1>2, <1>3, <1>4, <1>5

(* A miss is kept until it is a gap.                                       *)
LEMMA MissKept ==
  ASSUME [Next]_vars, NEW r \in missed \cup work
  PROVE  r \in missed' \cup work' \/ HasGap(r)'
<1>1. CASE BackfillEnds
  <2>1. Gap(r, "outbox_error").rec = r  BY DEF Gap
  <2> QED  BY <1>1, <2>1 DEF BackfillEnds, HasGap
<1>2. CASE ~BackfillEnds
  BY <1>2, WhoChanges
<1> QED  BY <1>1, <1>2

(* What is offered is queued, missed, or a gap at once.                    *)
LEMMA OfferedKept ==
  ASSUME TypeInv, [Next]_vars, NEW r \in offered', r \notin offered
  PROVE  r \in InQueue' \/ HasGap(r)' \/ r \in missed'
<1>0. offered' = offered \/ \E q \in Receipts : Offer(q) \/ OfferFails(q)
  BY WhoChanges
<1>1. \E q \in Receipts : (Offer(q) \/ OfferFails(q)) /\ q = r
  BY <1>0 DEF Offer, OfferFails
<1>2. CASE Offer(r)  BY <1>1, <1>2, EnqueueFacts DEF Offer, Queues, TypeInv
<1>3. CASE OfferFails(r)  BY <1>3 DEF OfferFails
<1> QED  BY <1>1, <1>2, <1>3

LEMMA LostStep ==
  TypeInv /\ WholeInv /\ NothingLost /\ [Next]_vars => NothingLost'
<1> SUFFICES ASSUME TypeInv, WholeInv, NothingLost, [Next]_vars, NEW r \in offered' \ dropped'
             PROVE  \/ r \in InQueue' \/ Delivered(r)' \/ HasGap(r)' \/ InHand(r)'
                    \/ r \in missed' \cup work'
  BY DEF NothingLost, Queued, InQueue
<1>1. Delivered(r) => Delivered(r)'  BY DeliveredStays
<1>2. HasGap(r) => HasGap(r)'  BY EvidenceStays DEF HasGap
<1>3. CASE r \in offered
  <2>1. r \notin dropped  BY EvidenceStays
  <2>2. r \in InQueue \/ Delivered(r) \/ HasGap(r) \/ InHand(r) \/ r \in missed \cup work
    BY <1>3, <2>1 DEF NothingLost, Queued, InQueue
  <2> QED  BY <1>1, <1>2, <2>2, LeavesQueue, HandEmpties, MissKept
<1>4. CASE r \notin offered  BY <1>4, OfferedKept
<1> QED  BY <1>3, <1>4

(* A record never disappears without evidence: it waits, is with the       *)
(* workspace, is a gap or about to be one, or is noted as missed; whatever *)
(* flushes, crashes and lost answers overlap, but for a flush that ended   *)
(* with gaps it had not recorded (node-stores.ts:890-891).                 *)
THEOREM NoRecordLost == Spec => []NothingLost
<1>1. Init => NothingLost  BY DEF Init, NothingLost
<1> QED  BY <1>1, TypeInit, TypeStep, WholeInit, WholeStep, LostStep, PTL DEF Spec

=============================================================================
