----------------------------- MODULE CloudOutbox -----------------------------
(***************************************************************************)
(* The delivery queue of SqliteCloudOutbox                                 *)
(* (packages/gateway/src/node-stores.ts), one SQLite file that hook calls, *)
(* the agent and gateways open together: the tables and what one           *)
(* transaction or one statement does to them.                              *)
(*                                                                         *)
(* A receipt stands for its payload hash; its action id is the key of      *)
(* every table.  The queue is kept in the order of its enqueue times.  The *)
(* clock is left out: a queued receipt gets older in two steps.  Limits in *)
(* bytes, the numbers given to records and the counts of gaps by reason    *)
(* are left out, and a pass is taken to see the whole queue.               *)
(***************************************************************************)
EXTENDS Integers, FiniteSets, Sequences, SequencesExt, Subsequences

CONSTANTS
  None,         \* a value outside every other constant
  Receipts,     \* signed receipts
  IdOf,         \* receipt -> its action id
  Windows,      \* the windows routine receipts are summarised in
  WindowOf,     \* receipt -> its window, None for a notable receipt
  MaxPending,   \* how many receipts the queue may hold
  Expires       \* the queue was opened with an age limit

ASSUME ReceiptAssumption ==
  /\ IsFiniteSet(Receipts) /\ DOMAIN IdOf = Receipts
  /\ WindowOf \in [Receipts -> Windows \cup {None}] /\ None \notin Windows

ASSUME LimitAssumption == MaxPending \in Nat \ {0} /\ Expires \in BOOLEAN

VARIABLES
  queue,    \* cloud_outbox, oldest first
  age,      \* receipt -> 0, 1 past CLOCK_AHEAD_KEEP_MS, 2 past maxAgeMs too
  gaps,     \* cloud_delivery_gaps: [rec, reason]
  acked,    \* cloud_acknowledged: action ids
  windows   \* cloud_summary_windows: [named, leased, sent]

outbox == <<queue, age, gaps, acked, windows>>

Gap(r, reason) == [rec |-> r, reason |-> reason]

Queued(r) == r \in ToSet(queue)

(* known: what the queue was ever told of an action id.                    *)
Known(id) ==
  \/ \E r \in ToSet(queue) : IdOf[r] = id
  \/ id \in acked
  \/ \E g \in gaps : g.reason # "outbox_error" /\ IdOf[g.rec] = id

(* expire, the first thing enqueue and peek do.                            *)
TooOld == {r \in ToSet(queue) : Expires /\ age[r] = 2}

Unexpired == Keep(queue, Receipts \ TooOld)

(* Mutant: a record that expired leaves no trace.                          *)
ExpiredGaps_None == {}

ExpiredGaps == {Gap(r, "expired") : r \in TooOld}

(* enqueue: already there, there with other evidence, no room, or queued.  *)
(* Mutants: a full queue drops the record without a word; the limit is     *)
(* looked at too late.                                                     *)
Enqueue_DropsWhenFull(r) ==
  /\ queue' = IF Len(Unexpired) >= MaxPending THEN Unexpired ELSE Append(Unexpired, r)
  /\ gaps' = gaps \cup ExpiredGaps
  /\ age' = [age EXCEPT ![r] = 0]

Enqueue_OverLimit(r) ==
  /\ queue' = IF Len(Unexpired) > MaxPending THEN Unexpired ELSE Append(Unexpired, r)
  /\ gaps' = gaps \cup ExpiredGaps
  /\ age' = [age EXCEPT ![r] = 0]

Enqueue(r) ==
  LET same == {q \in ToSet(Unexpired) : IdOf[q] = IdOf[r]}
      full == Len(Unexpired) >= MaxPending
      refusal == IF r \in same THEN {}
                 ELSE IF same # {} THEN {Gap(r, "id_conflict")}
                 ELSE IF full THEN {Gap(r, "capacity")} ELSE {}
      queued == same = {} /\ ~full
  IN  /\ queue' = IF queued THEN Append(Unexpired, r) ELSE Unexpired
      /\ gaps' = gaps \cup ExpiredGaps \cup refusal
      /\ age' = IF queued THEN [age EXCEPT ![r] = 0] ELSE age

(* acknowledge: what is still there leaves; what is held is marked so.     *)
(* Mutant: whatever leaves is marked as held.                              *)
Acknowledge_MarksAll(leaving, held) ==
  /\ queue' = Keep(queue, Receipts \ leaving)
  /\ acked' = acked \cup {IdOf[r] : r \in leaving \cap ToSet(queue)}

Acknowledge(leaving, held) ==
  /\ queue' = Keep(queue, Receipts \ leaving)
  /\ acked' = acked \cup {IdOf[r] : r \in leaving \cap held \cap ToSet(queue)}

(* claimWindow: "sent", "busy", or "claimed" under a name kept for ever.   *)
Claim(w) == IF windows[w].sent THEN "sent"
            ELSE IF windows[w].named /\ windows[w].leased THEN "busy" ELSE "claimed"

Claimed(w) == [windows EXCEPT ![w].named = TRUE, ![w].leased = TRUE]

(* releaseWindow, of each of ws, and markWindowSent.                       *)
Released(ws) ==
  [w \in Windows |-> IF w \in ws /\ ~windows[w].sent
                     THEN [windows[w] EXCEPT !.leased = FALSE] ELSE windows[w]]

MarkedSent(w) == [windows EXCEPT ![w].sent = TRUE]

InitOutbox ==
  /\ queue = <<>> /\ gaps = {} /\ acked = {}
  /\ age = [r \in Receipts |-> 0]
  /\ windows = [w \in Windows |-> [named |-> FALSE, leased |-> FALSE, sent |-> FALSE]]
=============================================================================
