---------------------------- MODULE Observations ----------------------------
(***************************************************************************)
(* The local outbox of observations (packages/hook/src/obs-store.ts), its  *)
(* upload (obs-upload.ts, uploadPending) and the session lifecycle that    *)
(* fills it (obs-emitter.ts, cli-main.ts runHeartbeatLoop).                *)
(*                                                                         *)
(* Each hook process opens the one database, binds it to the generation    *)
(* its connection file names, queues observations and uploads them.  Every *)
(* transaction of the store is one action; processes die between any two.  *)
(* Leases, deferrals and back-offs end at any time after they are set.     *)
(***************************************************************************)
EXTENDS Integers, Sequences, FiniteSets, SequencesExt, Subsequences

CONSTANTS
  Openers,         \* processes that open the store: hook calls and heartbeat helpers
  MaxPending,      \* MAX_PENDING
  MaxTerminal,     \* MAX_TERMINAL
  BatchItems,      \* MAX_BATCH_ITEMS
  MaxGeneration,   \* bound: enrolments
  MaxActivations,  \* bound: how often the session starts
  MaxQueued,       \* bound: observations ever queued
  MaxOther         \* bound: those of no session among them

ASSUME ObservationsAssumption ==
  /\ MaxPending \in Nat /\ MaxTerminal \in Nat /\ BatchItems \in Nat \ {0}
  /\ MaxGeneration \in Nat \ {0} /\ MaxActivations \in Nat
  /\ MaxQueued \in Nat /\ MaxOther \in Nat

VARIABLES
  outbox,     \* the state row: generation (0 while there is none), next number, capability, ...
  queued,     \* every observation ever queued, in order; an index names it below
  pending,    \* those in the pending table
  due,        \* those of them whose next_attempt_at has passed
  terminal,   \* the terminal table, oldest first
  trimmed,    \* how many were removed from it (the marks)
  session,    \* the harness session's row; `act` counts its activations, `lease` the helper's claim
  opener,     \* opener[p]: where process p is
  enrolled,   \* the generation of the connection file and of the workspace
  received    \* what the workspace holds

tables == <<pending, due, terminal, trimmed>>
obsVars == <<outbox, queued, tables, session, opener, enrolled, received>>

Generations == 1..MaxGeneration
Observation == [gen : Generations, seq : 1..MaxQueued,
            kind : {"start", "stop", "beat", "other"}, act : 0..MaxActivations]
Places == {"closed", "opening", "open", "telling", "ticking", "renewing", "sending", "answered",
           "acknowledged", "rejected", "stale", "blocking"}

Closed == [at |-> "closed", gen |-> 0, helper |-> "no", say |-> "none", act |-> 0,
           batch |-> <<>>, answer |-> <<>>]

--------------------------------------------------------------------------
(* The tables.                                                            *)

\* Mutant: the oldest are kept as well.
Cut_Never(rows) == [rows |-> rows, removed |-> 0]

\* trimTerminal: the newest MAX_TERMINAL stay, the others are counted.
Cut(rows) ==
  LET over == IF Len(rows) > MaxTerminal THEN Len(rows) - MaxTerminal ELSE 0
  IN [rows |-> SubSeq(rows, over + 1, Len(rows)), removed |-> over]

InOrder(ids) == Keep([i \in DOMAIN queued |-> i], ids)

\* reject: those still pending move to the terminal table.
Refused(ids) ==
  LET cut == Cut(terminal \o InOrder(ids \cap pending))
  IN /\ terminal' = cut.rows
     /\ trimmed' = trimmed + cut.removed
     /\ pending' = pending \ ids
     /\ due' = due \ ids

\* release: due again, no attempt counted.
GivenBack(ids) == due' = due \cup (ids \cap pending) /\ UNCHANGED <<pending, terminal, trimmed>>

Opened(p, helper) == [Closed EXCEPT !.at = "open", !.gen = opener[p].gen, !.helper = helper]

Stays(p) == opener' = [opener EXCEPT ![p] = Opened(p, @.helper)]
Leaves(p) == opener' = [opener EXCEPT ![p] = Opened(p, "leaving")]
Closes(p) == opener' = [opener EXCEPT ![p] = Closed]

--------------------------------------------------------------------------

ObsInit ==
  /\ outbox = [gen |-> 0, next |-> 1, capability |-> "active", backoff |-> FALSE,
               limit |-> BatchItems]
  /\ queued = <<>> /\ pending = {} /\ due = {} /\ terminal = <<>> /\ trimmed = 0
  /\ session = [state |-> "none", act |-> 0, lease |-> FALSE]
  /\ opener = [p \in Openers |-> Closed]
  /\ enrolled = 1
  /\ received = {}

\* openObservations: the connection file is read first ...
ReadConnection(p) ==
  /\ opener[p].at = "closed"
  /\ opener' = [opener EXCEPT ![p].at = "opening", ![p].gen = enrolled]
  /\ UNCHANGED <<outbox, queued, tables, session, enrolled, received>>

\* Mutant: an older connection rebinds the store as a newer one does.
Older_Adopted(gen) == FALSE

\* bindGeneration: a connection file from before the last rotation is reported, not adopted.
Older(gen) == gen < outbox.gen

\* ... then the store is bound: a newer generation retires what is pending under older ones.
Bind(p) ==
  /\ opener[p].at = "opening"
  /\ LET gen == opener[p].gen IN
       \/ /\ Older(gen)
          /\ Closes(p)
          /\ UNCHANGED <<outbox, tables>>
       \/ /\ ~Older(gen)
          /\ Stays(p)
          /\ IF gen = outbox.gen
             THEN UNCHANGED <<outbox, tables>>
             ELSE /\ outbox' = [outbox EXCEPT !.gen = gen, !.next = 1, !.backoff = FALSE,
                                  !.capability = IF @ = "blocked" THEN "active" ELSE @]
                  /\ Refused({i \in pending : queued[i].gen < gen})
  /\ UNCHANGED <<queued, session, enrolled, received>>

\* sessionStart and activity: only the call that finds the session not active tells of it.
StartSession(p) ==
  /\ opener[p].at = "open" /\ opener[p].helper = "no"
  /\ session.state # "active" /\ session.act < MaxActivations
  /\ session' = [state |-> "active", act |-> session.act + 1, lease |-> FALSE]
  /\ opener' = [opener EXCEPT ![p].at = "telling", ![p].say = "start", ![p].act = session.act + 1]
  /\ UNCHANGED <<outbox, queued, tables, enrolled, received>>

\* deactivateSession, by the end of the session or by a helper that finds the computer slept.
EndSession(p) ==
  /\ \/ opener[p].at = "open" /\ opener[p].helper = "no"
     \/ opener[p].at = "ticking"
  /\ session.state = "active"
  /\ session' = [session EXCEPT !.state = "stopped", !.lease = FALSE]
  /\ opener' = [opener EXCEPT ![p].at = "telling", ![p].say = "stop", ![p].act = session.act]
  /\ UNCHANGED <<outbox, queued, tables, enrolled, received>>

\* ensureHeartbeat: one claim, one helper process, which opens the store itself if it gets to run.
StartHelper(p, h) ==
  /\ opener[p].at = "open" /\ opener[p].helper = "no"
  /\ session.state = "active" /\ ~session.lease
  /\ session' = [session EXCEPT !.lease = TRUE]
  /\ opener[h] = Closed
  /\ opener' = [opener EXCEPT ![h].helper = "loop"]
  /\ UNCHANGED <<outbox, queued, tables, enrolled, received>>

\* heartbeatTick reads the session's row before it decides what to send.
Tick(h) ==
  /\ opener[h].at = "open" /\ opener[h].helper = "loop"
  /\ IF session.state = "active"
     THEN opener' = [opener EXCEPT ![h].at = "ticking"] /\ UNCHANGED session
     ELSE Leaves(h) /\ session' = [session EXCEPT !.lease = FALSE]
  /\ UNCHANGED <<outbox, queued, tables, enrolled, received>>

\* It slept and another process ended the session, or it beats, for the last time when idle.
TickSends(h) ==
  /\ opener[h].at = "ticking"
  /\ \/ session.state # "active" /\ Leaves(h)
     \/ \E say \in {"beat", "last"} :
          opener' = [opener EXCEPT ![h].at = "telling", ![h].say = say, ![h].act = session.act]
  /\ UNCHANGED <<outbox, queued, tables, session, enrolled, received>>

\* renewHeartbeat.
Renew(h) ==
  /\ opener[h].at = "renewing"
  /\ IF session.state = "active"
     THEN session' = [session EXCEPT !.lease = TRUE] /\ Stays(h)
     ELSE Leaves(h) /\ UNCHANGED session
  /\ UNCHANGED <<outbox, queued, tables, enrolled, received>>

\* A receipt, an acknowledgement, a capability: an observation of no session.
TellOther(p) ==
  /\ opener[p].at = "open" /\ opener[p].helper = "no"
  /\ opener' = [opener EXCEPT ![p].at = "telling", ![p].say = "other", ![p].act = 0]
  /\ UNCHANGED <<outbox, queued, tables, session, enrolled, received>>

Beats == {"beat", "last"}

\* Mutant: the session's state is not read again in the transaction.
SessionEnded_Unread(say) == FALSE

\* whileSessionActive: a heartbeat is queued only while its session is active.
SessionEnded(say) == say \in Beats /\ session.state # "active"

Accepts(p) ==
  /\ outbox.gen = opener[p].gen
  /\ ~SessionEnded(opener[p].say)
  /\ outbox.capability # "blocked"

\* After emit: a helper goes on to renew its claim, or stops and frees it; a hook goes on.
AfterTelling(p, ended) ==
  LET o == opener[p]
      frees == o.say = "last" \/ ended
  IN /\ session' = [session EXCEPT !.lease = @ /\ ~frees]
     /\ \/ (frees \/ o.say = "stop") /\ o.helper = "loop" /\ Leaves(p)
        \/ o.helper = "no" /\ Stays(p)
        \/ ~frees /\ o.say = "beat" /\ opener' = [opener EXCEPT ![p] =
             [Opened(p, "loop") EXCEPT !.at = "renewing"]]

\* enqueue: the number and the row in one transaction; past the recheck interval it is the probe.
Enqueue(p) ==
  /\ opener[p].at = "telling" /\ Accepts(p)
  /\ Cardinality(pending) < MaxPending
  /\ Len(queued) < MaxQueued
  /\ opener[p].say = "other" => Len(SelectSeq(queued, LAMBDA q : q.kind = "other")) < MaxOther
  /\ LET o == opener[p]
         kind == IF o.say \in Beats THEN "beat" ELSE o.say
         act == IF o.say \in Beats THEN session.act ELSE o.act
     IN queued' = Append(queued, [gen |-> o.gen, seq |-> outbox.next, kind |-> kind, act |-> act])
  /\ pending' = pending \cup {Len(queued')}
  /\ due' = due \cup {Len(queued')}
  /\ outbox' = [outbox EXCEPT !.next = @ + 1, !.capability = "active",
                  !.backoff = @ /\ outbox.capability = "active"]
  /\ AfterTelling(p, FALSE)
  /\ UNCHANGED <<terminal, trimmed, enrolled, received>>

\* enqueue's refusals, and a store that stays locked: the observation is not queued.
EnqueueRefuses(p) ==
  /\ opener[p].at = "telling"
  /\ \/ /\ outbox.gen = opener[p].gen /\ SessionEnded(opener[p].say)
        /\ AfterTelling(p, TRUE)
        /\ UNCHANGED outbox
     \/ AfterTelling(p, FALSE) /\ UNCHANGED outbox
     \/ /\ Accepts(p) /\ outbox.capability = "unsupported" /\ Cardinality(pending) >= MaxPending
        /\ outbox' = [outbox EXCEPT !.capability = "active", !.backoff = FALSE]
        /\ AfterTelling(p, FALSE)
  /\ UNCHANGED <<queued, tables, enrolled, received>>

--------------------------------------------------------------------------
(* The upload.                                                            *)

\* nextBatch, leased: what is due of the store's generation, in order, up to the limit.
TakeBatch(p) ==
  /\ opener[p].at = "open"
  /\ outbox.capability = "active" /\ ~outbox.backoff
  /\ LET rows == InOrder({i \in due : queued[i].gen = outbox.gen})
         taken == SubSeq(rows, 1, IF Len(rows) < outbox.limit THEN Len(rows) ELSE outbox.limit)
     IN /\ taken # <<>>
        /\ due' = due \ ToSet(taken)
        /\ opener' = [opener EXCEPT ![p].at = "sending", ![p].batch = taken]
  /\ UNCHANGED <<outbox, queued, pending, terminal, trimmed, session, enrolled, received>>

\* What the workspace may say of one observation: a result that names another item is none.
Statuses(i) ==
  {"deferred", "none"} \cup
    (IF queued[i].gen < enrolled THEN {"stale"}
     ELSE IF i \in received THEN {"held"} ELSE {"held", "rejected"})

\* The workspace takes the batch in; the answer is on its way.
WorkspaceReceives(p) ==
  /\ opener[p].at = "sending"
  /\ \E answer \in [DOMAIN opener[p].batch -> {"held", "deferred", "none", "rejected", "stale"}] :
       /\ \A n \in DOMAIN answer : answer[n] \in Statuses(opener[p].batch[n])
       /\ received' = received \cup
            {opener[p].batch[n] : n \in {k \in DOMAIN answer : answer[k] = "held"}}
       /\ opener' = [opener EXCEPT ![p].at = "answered", ![p].answer = answer]
  /\ UNCHANGED <<outbox, queued, tables, session, enrolled>>

\* No answer, an answer of a whole-batch error or one that cannot be read: tried again later.
SendFails(p) ==
  /\ opener[p].at \in {"sending", "answered"}
  /\ outbox' = [outbox EXCEPT !.backoff = TRUE]
  /\ due' = due \ ToSet(opener[p].batch)
  /\ Stays(p)
  /\ UNCHANGED <<queued, pending, terminal, trimmed, session, enrolled, received>>

\* No time left, 429, 404/405/422, or a batch that is too large: the rows are given back.
BatchRefused(p) ==
  /\ opener[p].at = "sending"
  /\ \/ GivenBack(ToSet(opener[p].batch)) /\ UNCHANGED outbox
     \/ GivenBack(ToSet(opener[p].batch)) /\ outbox' = [outbox EXCEPT !.backoff = TRUE]
     \/ GivenBack(ToSet(opener[p].batch)) /\ outbox' = [outbox EXCEPT !.capability = "unsupported"]
     \/ /\ Len(opener[p].batch) > 1
        /\ GivenBack(ToSet(opener[p].batch))
        /\ outbox' = [outbox EXCEPT !.limit = Len(opener[p].batch) \div 2]
     \/ Len(opener[p].batch) = 1 /\ Refused(ToSet(opener[p].batch)) /\ UNCHANGED outbox
  /\ Stays(p)
  /\ UNCHANGED <<queued, session, enrolled, received>>

AnsweredWith(p, statuses) ==
  {opener[p].batch[n] : n \in {k \in DOMAIN opener[p].answer : opener[p].answer[k] \in statuses}}

\* Mutant: an item without a result counts as received.
Acknowledged_Unsaid(p) == AnsweredWith(p, {"held", "none"})

\* Only what the workspace says it holds.
Acknowledged(p) == AnsweredWith(p, {"held"})

\* acknowledge, reject and defer: three transactions, in this order.
TakeAcknowledged(p) ==
  /\ opener[p].at = "answered"
  /\ pending' = pending \ Acknowledged(p)
  /\ due' = due \ Acknowledged(p)
  /\ opener' = [opener EXCEPT ![p].at = "acknowledged"]
  /\ UNCHANGED <<outbox, queued, terminal, trimmed, session, enrolled, received>>

TakeRejected(p) ==
  /\ opener[p].at = "acknowledged"
  /\ Refused(AnsweredWith(p, {"rejected", "stale"}))
  /\ opener' = [opener EXCEPT ![p].at = "rejected"]
  /\ UNCHANGED <<outbox, queued, session, enrolled, received>>

TakeDeferred(p) ==
  /\ opener[p].at = "rejected"
  /\ LET deferred == AnsweredWith(p, {"deferred", "none"}) IN
       /\ due' = due \ deferred
       /\ outbox' = [outbox EXCEPT !.backoff = @ \/ deferred # {}]
  /\ IF AnsweredWith(p, {"stale"}) # {} THEN opener' = [opener EXCEPT ![p].at = "stale"]
     ELSE Stays(p)
  /\ UNCHANGED <<queued, pending, terminal, trimmed, session, enrolled, received>>

\* rejectAllPending, then setCapability: whatever is pending by now.
RejectAll(p) ==
  /\ opener[p].at = "stale"
  /\ Refused(pending)
  /\ opener' = [opener EXCEPT ![p].at = "blocking"]
  /\ UNCHANGED <<outbox, queued, session, enrolled, received>>

BlockUploads(p) ==
  /\ opener[p].at = "blocking"
  /\ outbox' = [outbox EXCEPT !.capability = "blocked"]
  /\ Stays(p)
  /\ UNCHANGED <<queued, tables, session, enrolled, received>>

\* `observations retry`.
Retry(p) ==
  /\ opener[p].at = "open" /\ opener[p].helper = "no" /\ outbox.capability = "unsupported"
  /\ outbox' = [outbox EXCEPT !.capability = "active"]
  /\ UNCHANGED <<queued, tables, session, opener, enrolled, received>>

--------------------------------------------------------------------------

\* A process ends, or is killed, wherever it is.
Ends(p) ==
  /\ opener[p] # Closed
  /\ Closes(p)
  /\ UNCHANGED <<outbox, queued, tables, session, enrolled, received>>

\* `connect` enrols the installation again, with a new key or credential.
Enrol ==
  /\ enrolled < MaxGeneration
  /\ enrolled' = enrolled + 1
  /\ UNCHANGED <<outbox, queued, tables, session, opener, received>>

\* A lease, a deferral, a back-off or a heartbeat claim ends.
WaitsEnd ==
  /\ \/ /\ \E i \in pending \ due : due' = due \cup {i}
        /\ UNCHANGED <<outbox, session>>
     \/ outbox.backoff /\ outbox' = [outbox EXCEPT !.backoff = FALSE] /\ UNCHANGED <<due, session>>
     \/ session.lease /\ session' = [session EXCEPT !.lease = FALSE] /\ UNCHANGED <<outbox, due>>
  /\ UNCHANGED <<queued, pending, terminal, trimmed, opener, enrolled, received>>

OpenNext(p) == ReadConnection(p) \/ Bind(p) \/ Enqueue(p) \/ EnqueueRefuses(p) \/ Ends(p)

SessionNext(p) ==
  \/ StartSession(p) \/ EndSession(p) \/ \E h \in Openers \ {p} : StartHelper(p, h)
  \/ Tick(p) \/ TickSends(p) \/ Renew(p)

UploadNext(p) ==
  \/ TellOther(p) \/ TakeBatch(p) \/ WorkspaceReceives(p) \/ SendFails(p) \/ BatchRefused(p)
  \/ TakeAcknowledged(p) \/ TakeRejected(p) \/ TakeDeferred(p) \/ RejectAll(p) \/ BlockUploads(p)
  \/ Retry(p)

ObsNext ==
  \/ Enrol \/ WaitsEnd
  \/ \E p \in Openers : OpenNext(p) \/ SessionNext(p) \/ UploadNext(p)

ObsSpec == ObsInit /\ [][ObsNext]_obsVars

--------------------------------------------------------------------------
(* Properties.                                                            *)

ObsTypeOK ==
  /\ opener \in [Openers ->
       [at : Places, gen : 0..MaxGeneration, helper : {"no", "loop", "leaving"},
        say : {"none", "start", "stop", "other"} \cup Beats, act : 0..MaxActivations,
        batch : Seq(DOMAIN queued),
        answer : Seq({"held", "deferred", "none", "rejected", "stale"})]]
  /\ outbox \in [gen : 0..MaxGeneration, next : 1..(MaxQueued + 1),
                 capability : {"active", "unsupported", "blocked"}, backoff : BOOLEAN,
                 limit : 1..BatchItems]
  /\ queued \in Seq(Observation) /\ Len(queued) <= MaxQueued
  /\ due \subseteq pending /\ pending \subseteq DOMAIN queued
  /\ Cardinality(pending) <= MaxPending
  /\ terminal \in Seq(DOMAIN queued) /\ Len(terminal) <= MaxTerminal
  /\ trimmed \in 0..MaxQueued
  /\ session \in [state : {"none", "active", "stopped"}, act : 0..MaxActivations,
                  lease : BOOLEAN]
  /\ enrolled \in Generations /\ outbox.gen <= enrolled
  /\ received \subseteq DOMAIN queued

\* "A crash between the two cannot leave a gap or a reused number, and two hook processes cannot
\* allocate the same one" (obs-store.ts:17-18): in each generation the observations are numbered 1,
\* 2, 3 in the order they were queued, whichever connections the processes opened the store with.
NumberedWithoutGaps ==
  \A i \in DOMAIN queued :
    queued[i].seq = 1 + Cardinality({j \in 1..(i - 1) : queued[j].gen = queued[i].gen})

\* "durably acknowledged: removed from the outbox" (obs-upload.ts:9) and "older ones are removed and
\* counted" (obs-store.ts:11): an observation that is in neither table is held by the workspace, or
\* is among those counted as removed, whatever answers came late, in part or not at all.
NothingVanishes ==
  Cardinality(DOMAIN queued \ (pending \cup received \cup ToSet(terminal))) <= trimmed

\* "so exactly one stop is emitted", "exactly one start" (obs-store.ts:402, :383) and "gets no
\* heartbeat after its stop" (:215): of one activation of the session there is at most one start
\* and one stop, and no heartbeat is queued behind the stop, whichever processes told of them.
SessionToldInOrder ==
  \A i, j \in DOMAIN queued :
    i < j /\ queued[i].act = queued[j].act /\ queued[i].act # 0 =>
      /\ queued[i].kind \in {"start", "stop"} => queued[j].kind # queued[i].kind
      /\ queued[i].kind = "stop" => queued[j].kind # "beat"

\* "blocks further upload until the enrollment generation moves" (obs-upload.ts:21): an answer about
\* an older generation refuses nothing of the generation the store is bound to by then.
LateAnswerSparesNew ==
  [][\A p \in Openers : opener[p].at = "stale" /\ opener'[p].at = "blocking" =>
       \A i \in pending : queued[i].gen < enrolled]_obsVars

\* "This is what keeps the number of helper processes at one per active session no matter how many
\* hook calls run" (obs-store.ts:418-419): no two processes run the session's heartbeat loop.
OneHelperPerSession ==
  \A p, q \in Openers :
    opener[p].helper = "loop" /\ opener[q].helper = "loop" /\ opener[p].at # "closed" => p = q
=============================================================================
