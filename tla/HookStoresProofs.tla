---------------------------- MODULE HookStoresProofs ----------------------------
(***************************************************************************)
(* Theorems about what the hook keeps on the computer, in two parts.       *)
(*                                                                         *)
(* Allowances, for any blocked actions, keys, allowances, limits and       *)
(* changes of the workspace: through every merge, stale copy and lost      *)
(* update of the files, a copy of an allowance stays a copy of what was    *)
(* made, and only the workspace brings one into force.                     *)
(*                                                                         *)
(* Observations, for any processes, limits and enrolments: the numbers     *)
(* leave no gap, no observation vanishes, and one start and one stop are   *)
(* told of an activation.                                                  *)
(***************************************************************************)
EXTENDS Allowances, Observations, SubsequencesProofs


-----------------------------------------------------------------------------
(* Copies.  m is what was made, d what the workspace was told and gave.    *)

CopyIn(m, d, id, e) ==
  /\ e \in Entries /\ id \in DOMAIN m
  /\ e.covers = m[id].covers /\ e.by = m[id].by
  /\ KnowsKind => e.quiet = m[id].quiet
  /\ m[id].state = "proposed" /\ e.state = "active" => id \in d.given
  /\ e.sent /\ e.by = "person" => id \in d.told

Copies(m, d, file) == \A id \in DOMAIN file : CopyIn(m, d, id, file[id])

MadeIn(m) ==
  /\ DOMAIN m \subseteq AllowanceIds
  /\ \A id \in DOMAIN m : /\ m[id] \in Entries /\ m[id].state \in {"active", "proposed"}
                          /\ m[id].sent => m[id].by = "workspace"

(* Nothing made or delivered is taken back.                                *)
Grows(m, d, m2, d2) ==
  /\ DOMAIN m \subseteq DOMAIN m2 /\ d.given \subseteq d2.given /\ d.told \subseteq d2.told
  /\ \A id \in DOMAIN m : m2[id] = m[id]

LEMMA CopiesGrow ==
  ASSUME NEW m, NEW d, NEW m2, NEW d2, Grows(m, d, m2, d2), NEW file, Copies(m, d, file)
  PROVE  Copies(m2, d2, file)
BY DEF Grows, Copies, CopyIn

LEMMA NoCopies == \A m, d : Copies(m, d, << >>)
BY DEF Copies

LEMMA KeptCopies ==
  ASSUME NEW m, NEW d, NEW file, NEW at, Copies(m, d, file)
  PROVE  Copies(m, d, Kept(file, at))
BY DEF Kept, Restrict, Copies

LEMMA WithCopies ==
  ASSUME NEW m, NEW d, NEW f, NEW g, Copies(m, d, f), Copies(m, d, g)
  PROVE  Copies(m, d, With(f, g))
BY DEF With, Copies

(* A use, an ending or a mark of the sender changes nothing a copy tells.  *)
MarkedAs(d, id, e, n) ==
  /\ n \in Entries
  /\ n.covers = e.covers /\ n.by = e.by /\ n.quiet = e.quiet /\ n.state = e.state
  /\ n.sent = e.sent \/ id \in d.told

LEMMA SameCopy ==
  ASSUME NEW m, NEW d, NEW id, NEW e, CopyIn(m, d, id, e), NEW n, MarkedAs(d, id, e, n)
  PROVE  CopyIn(m, d, id, n)
BY DEF CopyIn, MarkedAs

(* Allowances just made.                                                   *)
Fresh(m, new) ==
  /\ DOMAIN new \subseteq AllowanceIds \ DOMAIN m
  /\ \A id \in DOMAIN new : /\ new[id] \in Entries /\ new[id].state \in {"active", "proposed"}
                            /\ new[id].sent => new[id].by = "workspace"

LEMMA MakingOne ==
  ASSUME NEW m, MadeIn(m), NEW d, NEW new, Fresh(m, new)
  PROVE  /\ MadeIn(With(m, new)) /\ Grows(m, d, With(m, new), d)
         /\ Copies(With(m, new), d, new)
<1> DEFINE more == With(m, new)
<1>1. /\ DOMAIN more = DOMAIN m \cup DOMAIN new
      /\ \A id \in DOMAIN m : more[id] = m[id]
      /\ \A id \in DOMAIN new : more[id] = new[id]
  BY DEF With, Fresh
<1> HIDE DEF more
<1>2. MadeIn(more)  BY <1>1 DEF MadeIn, Fresh
<1>3. Grows(m, d, more, d)  BY <1>1 DEF Grows
<1>4. Copies(more, d, new)  BY <1>1 DEF Copies, CopyIn, Fresh
<1> QED  BY <1>2, <1>3, <1>4 DEF more

LEMMA EntryType ==
  ASSUME NEW covers \in SUBSET Keys, NEW length, NEW state \in {"active", "proposed"},
         NEW at \in AllowTimes
  PROVE  /\ Entry(covers, length, state, at) \in Entries
         /\ Entry(covers, length, state, at).state = state
         /\ ~Entry(covers, length, state, at).sent
BY AllowancesAssumption DEF Entry, Entries, AllowTimes

LEMMA NewType ==
  ASSUME NEW k \in Keys, NEW length, NEW similar, NEW at \in AllowTimes,
         NEW m, NEW new \in NewAllowances(k, length, similar, at, AllowanceIds \ DOMAIN m)
  PROVE  Fresh(m, new)
<1> DEFINE covers == IF similar THEN Keys ELSE {k}
           first == Entry(covers, length, IF length = "always" THEN "proposed" ELSE "active", at)
           cover == Entry({k}, "fifteen", "active", at)
<1>1. /\ first \in Entries /\ first.state \in {"active", "proposed"} /\ ~first.sent
      /\ cover \in Entries /\ cover.state \in {"active", "proposed"} /\ ~cover.sent
  BY EntryType
<1> HIDE DEF first, cover
<1>2. CASE length = "always"
  <2>1. PICK p \in {q \in (AllowanceIds \ DOMAIN m) \X (AllowanceIds \ DOMAIN m) : q[1] # q[2]} :
          new = [i \in {p[1], p[2]} |-> IF i = p[1] THEN first ELSE cover]
    BY <1>2 DEF NewAllowances, first, cover
  <2> QED  BY <1>1, <2>1 DEF Fresh
<1>3. CASE length # "always"
  <2>1. PICK id \in AllowanceIds \ DOMAIN m : new = [i \in {id} |-> first]
    BY <1>3 DEF NewAllowances, first
  <2> QED  BY <1>1, <2>1 DEF Fresh
<1> QED  BY <1>2, <1>3

LEMMA QuietType ==
  ASSUME NEW k \in Keys, NEW at \in AllowTimes, NEW m, NEW id \in AllowanceIds \ DOMAIN m
  PROVE  Fresh(m, [i \in {id} |-> QuietBlock(k, at)])
<1> DEFINE e == Entry({k}, "always", "active", at)
           n == [e EXCEPT !.quiet = TRUE]
<1>1. e \in Entries /\ e.state = "active" /\ ~e.sent  BY EntryType
<1> HIDE DEF e
<1>2. n \in Entries /\ n.state = "active" /\ ~n.sent  BY <1>1 DEF Entries
<1>3. QuietBlock(k, at) = n  BY DEF QuietBlock, e
<1> HIDE DEF n
<1> QED  BY <1>2, <1>3 DEF Fresh

-----------------------------------------------------------------------------
(* The invariant.                                                          *)

Delivered == DOMAIN rulesDoc.delivered
Known == [given |-> Delivered, told |-> told]
Unblocks == [call : BlockedCalls, key : Keys, at : AllowTimes]

(* What lets b through covers it and may be used.                          *)
Explains(m, d, b, id) ==
  /\ KeyOf[b] \in m[id].covers
  /\ KnowsKind => ~m[id].quiet
  /\ m[id].state = "proposed" => id \in d.given

\* A rules document that says no more than was delivered.
DocIn(m, d, doc) ==
  /\ Copies(m, d, doc.delivered) /\ DOMAIN doc.delivered \subseteq d.given
  /\ doc.revoked \subseteq DOMAIN m

QuestionIn(m, d, b, q) ==
  /\ q.stage \in {"new", "open", "using", "asking", "done"}
  /\ q.stage = "new" => q = Unasked
  /\ DocIn(m, d, q.doc)
  /\ q.at \in AllowTimes /\ q.entries \subseteq Unblocks
  /\ Copies(m, d, q.mine) /\ Copies(m, d, q.read)
  /\ q.by \in DOMAIN m \cup {"none", "person"}
  /\ q.by \in DOMAIN m => Explains(m, d, b, q.by)

RulesIn(m, d, doc) ==
  /\ doc = [delivered |-> doc.delivered, revoked |-> doc.revoked, expired |-> doc.expired]
  /\ d.given = DOMAIN doc.delivered /\ Copies(m, d, doc.delivered)
  /\ doc.revoked \subseteq DOMAIN m /\ doc.expired \in BOOLEAN

Lists ==
  /\ allowClock \in AllowTimes
  /\ told \subseteq DOMAIN made /\ stopped \subseteq DOMAIN made /\ sender.ids \subseteq told
  /\ requests \subseteq Keys /\ unblocks \subseteq Unblocks
  /\ blocked \in [BlockedCalls -> [state : {"none", "open", "acted"}, at : AllowTimes]]

AllowInv ==
  /\ MadeIn(made) /\ RulesIn(made, Known, rulesDoc) /\ Copies(made, Known, allowances)
  /\ question = [b \in BlockedCalls |-> question[b]]
  /\ \A b \in BlockedCalls : QuestionIn(made, Known, b, question[b])
  /\ Lists

LEMMA DocGrows ==
  ASSUME NEW m, NEW d, NEW m2, NEW d2, Grows(m, d, m2, d2), NEW doc, DocIn(m, d, doc)
  PROVE  DocIn(m2, d2, doc)
<1>1. Copies(m2, d2, doc.delivered)  BY CopiesGrow DEF DocIn
<1> QED  BY <1>1 DEF DocIn, Grows

LEMMA QuestionGrows ==
  ASSUME NEW m, NEW d, NEW m2, NEW d2, Grows(m, d, m2, d2), MadeIn(m2), NEW b, NEW q,
         QuestionIn(m, d, b, q)
  PROVE  QuestionIn(m2, d2, b, q)
<1>1. Copies(m2, d2, q.mine) /\ Copies(m2, d2, q.read)  BY CopiesGrow DEF QuestionIn
<1>2. q.by \in DOMAIN m2 => q.by \in DOMAIN m
  BY AllowancesAssumption DEF MadeIn, QuestionIn
<1>3. DocIn(m2, d2, q.doc)  BY DocGrows DEF QuestionIn
<1> QED  BY <1>1, <1>2, <1>3 DEF QuestionIn, Grows, Explains

(* The document of a handler not opened yet.                               *)
LEMMA UnaskedDoc ==
  ASSUME NEW m, NEW d
  PROVE  /\ Unasked.doc = NoRules /\ DocIn(m, d, NoRules)
<1>1. NoRules.delivered = << >> /\ NoRules.revoked = {}  BY DEF NoRules
<1>2. DOMAIN << >> = {}  OBVIOUS
<1> QED  BY <1>1, <1>2, NoCopies DEF Unasked, DocIn

(* What a step has to show.                                                *)
LEMMA AllowKept ==
  ASSUME AllowInv, MadeIn(made'), RulesIn(made', Known', rulesDoc'),
         Grows(made, Known, made', Known'),
         Copies(made', Known', allowances') \/ UNCHANGED allowances,
         \/ UNCHANGED question
         \/ \E b \in BlockedCalls : \E q : /\ question' = [question EXCEPT ![b] = q]
                                           /\ QuestionIn(made', Known', b, q),
         Lists'
  PROVE  AllowInv'
<1>1. Copies(made', Known', allowances')  BY CopiesGrow DEF AllowInv
<1>2. \A b \in BlockedCalls : QuestionIn(made', Known', b, question[b])
  BY QuestionGrows DEF AllowInv
<1>3. /\ question' = [b \in BlockedCalls |-> question'[b]]
      /\ \A b \in BlockedCalls : QuestionIn(made', Known', b, question'[b])
  BY <1>2 DEF AllowInv
<1> QED  BY <1>1, <1>3 DEF AllowInv

LEMMA SameMade ==
  ASSUME AllowInv, UNCHANGED <<made, rulesDoc>>, told \subseteq told'
  PROVE  /\ MadeIn(made') /\ RulesIn(made', Known', rulesDoc')
         /\ Grows(made, Known, made', Known') /\ (UNCHANGED told => UNCHANGED Known)
<1>1. /\ Known.given = Delivered /\ Known.told = told
      /\ Known'.given = Delivered /\ Known'.told = told'
  BY DEF Known, Delivered
<1>2. Grows(made, Known, made', Known')  BY <1>1 DEF Grows
<1>3. Copies(made', Known', rulesDoc.delivered)  BY <1>2, CopiesGrow DEF AllowInv, RulesIn
<1>4. RulesIn(made', Known', rulesDoc')  BY <1>1, <1>3 DEF AllowInv, RulesIn, Delivered
<1> QED  BY <1>2, <1>4 DEF AllowInv, Known, Delivered

(* Reading.                                                                *)
LEMMA MergedCopies ==
  ASSUME AllowInv, NEW doc, DocIn(made, Known, doc), NEW file, Copies(made, Known, file)
  PROVE  Copies(made, Known, Merged(doc, file))
<1> DEFINE delivered == IF rulesDoc.expired THEN << >> ELSE doc.delivered
           pick(id) == IF id \notin DOMAIN delivered THEN file[id]
                       ELSE IF id \in DOMAIN file THEN MergedEntry(delivered[id], file[id])
                       ELSE delivered[id]
           all == [id \in DOMAIN file \cup DOMAIN delivered |-> pick(id)]
           done == [id \in DOMAIN all |->
                      IF id \in doc.revoked THEN [all[id] EXCEPT !.state = "revoked"] ELSE all[id]]
<1>1. DOMAIN delivered \subseteq Known.given /\ Copies(made, Known, delivered)
  BY NoCopies DEF DocIn
<1>2. ASSUME NEW id \in DOMAIN file \cup DOMAIN delivered
      PROVE  CopyIn(made, Known, id, pick(id))
  <2> HIDE DEF delivered
  <2>1. CASE id \notin DOMAIN delivered \/ id \notin DOMAIN file
    BY <1>1, <1>2, <2>1 DEF Copies
  <2>2. CASE id \in DOMAIN delivered /\ id \in DOMAIN file
    <3>1. \A given, mine : CopyIn(made, Known, id, given) /\ CopyIn(made, Known, id, mine)
                             /\ id \in Known.given
                           => CopyIn(made, Known, id, MergedEntry(given, mine))
      <4> SUFFICES ASSUME NEW given, NEW mine, id \in Known.given,
                          CopyIn(made, Known, id, given), CopyIn(made, Known, id, mine)
                   PROVE  CopyIn(made, Known, id, MergedEntry(given, mine))
        OBVIOUS
      <4> DEFINE n == MergedEntry(given, mine)
      <4>1. given \in Entries /\ mine \in Entries  BY DEF CopyIn
      <4>2. given.uses \in Nat /\ mine.uses \in Nat  BY <4>1 DEF Entries
      <4> DEFINE uses == IF mine.uses > given.uses THEN mine.uses ELSE given.uses
                 quiet == mine.quiet \/ given.quiet
      <4>3. uses \in Nat /\ quiet \in BOOLEAN  BY <4>1, <4>2 DEF Entries
      <4>4. n = [given EXCEPT !.uses = uses, !.sent = mine.sent, !.ended = mine.ended,
                              !.endSent = mine.endSent, !.quiet = quiet]
        BY DEF MergedEntry
      <4> HIDE DEF n, uses
      <4>5. n \in Entries  BY <4>1, <4>3, <4>4 DEF Entries
      <4>6. /\ n.covers = given.covers /\ n.by = given.by /\ n.quiet = quiet
            /\ n.state = given.state /\ n.sent = mine.sent
        BY <4>1, <4>4 DEF Entries
      <4>7. given.quiet \in BOOLEAN /\ (KnowsKind => mine.quiet = given.quiet)
        BY <4>1 DEF CopyIn, Entries
      <4>8. KnowsKind => quiet = given.quiet  BY <4>7
      <4> HIDE DEF quiet
      <4>9. CopyIn(made, Known, id, n)  BY <4>5, <4>6, <4>8 DEF CopyIn
      <4> QED  BY <4>9 DEF n
    <3>2. /\ CopyIn(made, Known, id, delivered[id]) /\ CopyIn(made, Known, id, file[id])
          /\ id \in Known.given
      BY <1>1, <2>2 DEF Copies
    <3> QED  BY <2>2, <3>1, <3>2
  <2> QED  BY <2>1, <2>2
<1>3. \A id \in DOMAIN all : CopyIn(made, Known, id, all[id])
  <2> HIDE DEF pick, delivered
  <2> QED  BY <1>2
<1> HIDE DEF all
<1>4. ASSUME NEW id \in DOMAIN all  PROVE CopyIn(made, Known, id, done[id])
  <2>1. CopyIn(made, Known, id, all[id])  BY <1>3
  <2> QED  BY <2>1 DEF CopyIn, Entries
<1>5. Merged(doc, file) = done  BY DEF Merged, MergedEntry, all
<1> HIDE DEF done
<1>6. DOMAIN done = DOMAIN all  BY DEF done
<1> QED  BY <1>4, <1>5, <1>6 DEF Copies

LEMMA StandingUse ==
  ASSUME AllowInv, NEW b \in BlockedCalls, NEW id \in StandingFor(b)
  PROVE  /\ id \in DOMAIN made /\ id \in DOMAIN Seen(b)
         /\ Explains(made, Known, b, id)
         /\ id \notin question[b].doc.revoked
         /\ rulesDoc.expired => made[id].by = "person" /\ id \notin DOMAIN question[b].doc.delivered
<1> PICK file : file = Seen(b)  OBVIOUS
<1> PICK doc : doc = question[b].doc  OBVIOUS
<1>1. Copies(made, Known, file)
  <2>1. DocIn(made, Known, doc)  BY DEF AllowInv, QuestionIn
  <2> QED  BY <2>1, MergedCopies DEF AllowInv, Seen
<1>2. id \in Matching(doc, file, KeyOf[b])  BY DEF StandingFor, Standing
<1>3. /\ id \in DOMAIN file /\ file[id].state = "active" /\ KeyOf[b] \in file[id].covers
      /\ ~file[id].quiet
      /\ rulesDoc.expired => file[id].by = "person" /\ id \notin DOMAIN doc.delivered
  BY <1>2 DEF Matching, Usable, InForceFor
<1>4. CopyIn(made, Known, id, file[id])  BY <1>1, <1>3 DEF Copies
<1>5. made[id].state \in {"active", "proposed"}  BY <1>4 DEF AllowInv, MadeIn, CopyIn
<1>6. id \notin doc.revoked
  <2> SUFFICES ASSUME id \in doc.revoked PROVE FALSE  OBVIOUS
  <2>1. file[id].state = "revoked"
    <3>1. \A e : "state" \in DOMAIN e => [e EXCEPT !.state = "revoked"].state = "revoked"
      OBVIOUS
    <3> QED  BY <1>3, <1>4, <3>1 DEF Seen, Merged, CopyIn, Entries
  <2> QED  BY <1>3, <2>1
<1> QED  BY <1>3, <1>4, <1>5, <1>6 DEF CopyIn, Explains

-----------------------------------------------------------------------------
(* The steps.                                                              *)

LEMMA AnswerType ==
  ASSUME NEW m, NEW d, MadeIn(m), NEW b \in BlockedCalls, NEW how,
         how \in {"none", "person"} \/ (how \in DOMAIN m /\ Explains(m, d, b, how))
  PROVE  QuestionIn(m, d, b, [Unasked EXCEPT !.stage = "done", !.by = how])
<1> DEFINE q == [Unasked EXCEPT !.stage = "done", !.by = how]
<1>1. /\ q.stage = "done" /\ q.by = how /\ q.at = 0 /\ q.entries = {}
      /\ q.mine = << >> /\ q.read = << >> /\ q.doc = NoRules
  BY DEF Unasked
<1> HIDE DEF q
<1>2. 0 \in AllowTimes  BY AllowancesAssumption DEF AllowTimes
<1>3. how \in {"none", "person"} => how \notin DOMAIN m  BY AllowancesAssumption DEF MadeIn
<1>4. QuestionIn(m, d, b, q)  BY <1>1, <1>2, <1>3, NoCopies, UnaskedDoc DEF QuestionIn
<1> QED  BY <1>4 DEF q

LEMMA BlockType ==
  ASSUME Lists, NEW b \in BlockedCalls, NEW state \in {"none", "open", "acted"}
  PROVE  /\ \A at \in AllowTimes : Block(b, state, at) =>
              blocked' \in [BlockedCalls -> [state : {"none", "open", "acted"}, at : AllowTimes]]
         /\ [blocked EXCEPT ![b].state = state]
              \in [BlockedCalls -> [state : {"none", "open", "acted"}, at : AllowTimes]]
<1>1. blocked[b] \in [state : {"none", "open", "acted"}, at : AllowTimes]  BY DEF Lists
<1>2. [blocked[b] EXCEPT !.state = state] \in [state : {"none", "open", "acted"}, at : AllowTimes]
  BY <1>1
<1> QED  BY <1>2 DEF Lists, Block

LEMMA KeyType == \A b \in BlockedCalls : KeyOf[b] \in Keys
BY AllowancesAssumption

(* The hook answers without making an allowance.                           *)
LEMMA HookAnswers ==
  ASSUME AllowInv, NEW b \in BlockedCalls,
         \/ KeepQuiet(b) \/ RepeatUnblock(b) \/ StayBlocked(b) \/ AnswerNo(b) \/ AnswerAskAdmin(b)
         \/ AnswerOnce(b)
  PROVE  AllowInv'
<1>1. UNCHANGED <<made, rulesDoc>> /\ UNCHANGED told /\ UNCHANGED allowances
  BY DEF KeepQuiet, RepeatUnblock, StayBlocked, AnswerNo, AnswerAskAdmin, AnswerOnce, allowanceFiles
<1>2. PICK how \in {"none", "person"} : Answer(b, how)
  BY DEF KeepQuiet, RepeatUnblock, StayBlocked, AnswerNo, AnswerAskAdmin, AnswerOnce
<1>3. QuestionIn(made', Known', b, [Unasked EXCEPT !.stage = "done", !.by = how])
  BY <1>1, SameMade, AnswerType
<1>4. question[b].at \in AllowTimes /\ question[b].entries \subseteq Unblocks /\ KeyOf[b] \in Keys
  BY KeyType DEF AllowInv, QuestionIn
<1>5. Lists'
  <2>1. UNCHANGED <<allowClock, told, stopped, sender>>
    BY DEF KeepQuiet, RepeatUnblock, StayBlocked, AnswerNo, AnswerAskAdmin, AnswerOnce
  <2>2. requests' \subseteq Keys
    BY <1>4 DEF KeepQuiet, RepeatUnblock, StayBlocked, AnswerNo, AnswerAskAdmin, AnswerOnce,
                allowanceFiles, AllowInv, Lists
  <2>3. unblocks' \subseteq Unblocks
    BY <1>4 DEF KeepQuiet, RepeatUnblock, StayBlocked, AnswerNo, AnswerAskAdmin, AnswerOnce,
                allowanceFiles, AllowInv, Lists, Unblocks
  <2>4. blocked' \in [BlockedCalls -> [state : {"none", "open", "acted"}, at : AllowTimes]]
    <3>1. \/ UNCHANGED blocked
          \/ \E state \in {"none", "open", "acted"}, at \in AllowTimes : Block(b, state, at)
      BY <1>4 DEF KeepQuiet, RepeatUnblock, StayBlocked, AnswerNo, AnswerAskAdmin, AnswerOnce,
                  allowanceFiles, AllowInv, Lists
    <3> QED  BY <3>1, BlockType, ZenonT(40) DEF AllowInv, Lists
  <2> QED  BY <1>1, <2>1, <2>2, <2>3, <2>4 DEF AllowInv, Lists
<1> QED  BY <1>1, <1>2, <1>3, <1>5, SameMade, AllowKept DEF Answer

(* The handler of a tool call opens, and reads the rules document.         *)
LEMMA HookOpens ==
  ASSUME AllowInv, NEW b \in BlockedCalls, OpenHandler(b)
  PROVE  AllowInv'
<1> DEFINE doc == [delivered |-> rulesDoc.delivered, revoked |-> rulesDoc.revoked]
           q == [Unasked EXCEPT !.stage = "open", !.doc = doc]
<1>1. /\ UNCHANGED <<made, rulesDoc>> /\ UNCHANGED told /\ UNCHANGED allowances
      /\ Lists'
  BY DEF OpenHandler, allowanceFiles, AllowInv, Lists
<1>2. question[b] = Unasked  BY DEF OpenHandler, AllowInv, QuestionIn
<1>3. question' = [question EXCEPT ![b] = q]
  <2>1. question' = [question EXCEPT ![b] = [question[b] EXCEPT !.stage = "open", !.doc = doc]]
    BY DEF OpenHandler
  <2> QED  BY <1>2, <2>1
<1>4. /\ q.stage = "open" /\ q.by = "none" /\ q.at = 0 /\ q.entries = {}
      /\ q.mine = << >> /\ q.read = << >> /\ q.doc = doc
  BY DEF Unasked
<1> HIDE DEF q
<1>5. DocIn(made, Known, doc)
  <2>1. doc.delivered = rulesDoc.delivered /\ doc.revoked = rulesDoc.revoked  OBVIOUS
  <2> HIDE DEF doc
  <2> QED  BY <2>1 DEF AllowInv, RulesIn, DocIn
<1> HIDE DEF doc
<1>6. 0 \in AllowTimes /\ "none" \notin DOMAIN made
  BY AllowancesAssumption DEF AllowTimes, AllowInv, MadeIn
<1>7. QuestionIn(made, Known, b, q)  BY <1>4, <1>5, <1>6, NoCopies DEF QuestionIn
<1>8. UNCHANGED Known  BY <1>1, SameMade
<1> QED  BY <1>1, <1>3, <1>7, <1>8, SameMade, AllowKept

LEMMA HookReads ==
  ASSUME AllowInv, NEW b \in BlockedCalls, TakeStanding(b) \/ AskPerson(b)
  PROVE  AllowInv'
<1>1. /\ UNCHANGED <<made, rulesDoc>> /\ UNCHANGED told /\ UNCHANGED allowances
      /\ Lists'
  BY DEF TakeStanding, AskPerson, allowanceFiles, AllowInv, Lists
<1>2. PICK file : file = Seen(b)  OBVIOUS
<1>3. Copies(made, Known, file)
  <2>1. DocIn(made, Known, question[b].doc)  BY DEF AllowInv, QuestionIn
  <2> QED  BY <1>2, <2>1, MergedCopies DEF AllowInv, Seen
<1>4. allowClock \in AllowTimes /\ unblocks \subseteq Unblocks  BY DEF AllowInv, Lists
<1>5. CASE TakeStanding(b)
  <2>1. PICK id \in StandingFor(b) :
          question' = [question EXCEPT ![b] =
            [Unasked EXCEPT !.stage = "using", !.at = allowClock, !.read = allowances, !.by = id,
                            !.mine = [file EXCEPT ![id].uses = @ + 1]]]
    BY <1>2, <1>5 DEF TakeStanding
  <2>2. id \in DOMAIN made /\ Explains(made, Known, b, id) /\ id \in DOMAIN file
    BY <1>2, <2>1, StandingUse
  <2> DEFINE used == [file EXCEPT ![id].uses = @ + 1]
             q == [Unasked EXCEPT !.stage = "using", !.at = allowClock, !.read = allowances,
                                  !.by = id, !.mine = used]
  <2>3. Copies(made, Known, used)
    <3>1. CopyIn(made, Known, id, file[id])  BY <1>3, <2>2 DEF Copies
    <3> DEFINE n == [file[id] EXCEPT !.uses = file[id].uses + 1]
    <3>2. MarkedAs(Known, id, file[id], n)  BY <3>1 DEF CopyIn, Entries, MarkedAs
    <3>3. used = [file EXCEPT ![id] = n]  OBVIOUS
    <3> HIDE DEF n, used
    <3>4. CopyIn(made, Known, id, n)  BY <3>1, <3>2, SameCopy
    <3> QED  BY <1>3, <3>3, <3>4 DEF Copies
  <2>4. /\ q.stage = "using" /\ q.by = id /\ q.at = allowClock /\ q.entries = {}
        /\ q.mine = used /\ q.read = allowances /\ q.doc = NoRules
    BY DEF Unasked
  <2> HIDE DEF used, q
  <2>5. QuestionIn(made, Known, b, q)
    BY <1>4, <2>2, <2>3, <2>4, UnaskedDoc DEF QuestionIn, AllowInv
  <2>6. question' = [question EXCEPT ![b] = q]  BY <2>1 DEF q, used
  <2>7. UNCHANGED Known  BY <1>1, SameMade
  <2> QED  BY <1>1, <2>5, <2>6, <2>7, SameMade, AllowKept
<1>6. CASE AskPerson(b)
  <2> DEFINE q == [Unasked EXCEPT !.stage = "asking", !.at = allowClock, !.mine = file,
                                  !.entries = unblocks]
  <2>1. /\ q.stage = "asking" /\ q.by = "none" /\ q.at = allowClock /\ q.entries = unblocks
        /\ q.mine = file /\ q.read = << >> /\ q.doc = NoRules
    BY DEF Unasked
  <2>2. question' = [question EXCEPT ![b] = q]  BY <1>2, <1>6 DEF AskPerson
  <2> HIDE DEF q
  <2>3. "none" \notin DOMAIN made  BY AllowancesAssumption DEF AllowInv, MadeIn
  <2>4. QuestionIn(made, Known, b, q)
    BY <1>3, <1>4, <2>1, <2>3, NoCopies, UnaskedDoc DEF QuestionIn
  <2>5. UNCHANGED Known  BY <1>1, SameMade
  <2> QED  BY <1>1, <2>2, <2>4, <2>5, SameMade, AllowKept
<1> QED  BY <1>5, <1>6

LEMMA HookUses ==
  ASSUME AllowInv, NEW b \in BlockedCalls, UseStanding(b)
  PROVE  AllowInv'
<1>1. /\ UNCHANGED <<made, rulesDoc>> /\ UNCHANGED told /\ Lists'
      /\ question' = [question EXCEPT ![b] = [Unasked EXCEPT !.stage = "done", !.by = question[b].by]]
  BY DEF UseStanding, Answer, AllowInv, Lists
<1>2. QuestionIn(made, Known, b, question[b])  BY DEF AllowInv
<1>3. Copies(made, Known, allowances')  BY <1>2, KeptCopies DEF UseStanding, QuestionIn
<1>4. PICK how : how = question[b].by  OBVIOUS
<1>5. QuestionIn(made, Known, b, [Unasked EXCEPT !.stage = "done", !.by = how])
  BY <1>2, <1>4, AnswerType DEF QuestionIn, AllowInv
<1>6. UNCHANGED Known  BY <1>1, SameMade
<1> QED  BY <1>1, <1>3, <1>4, <1>5, <1>6, SameMade, AllowKept

(* Allowances are added to a copy of the file.                             *)
LEMMA Added ==
  ASSUME AllowInv, NEW new, Fresh(made, new), made' = With(made, new), UNCHANGED <<rulesDoc, told>>,
         NEW file, Copies(made, Known, file)
  PROVE  /\ MadeIn(made') /\ RulesIn(made', Known', rulesDoc')
         /\ Grows(made, Known, made', Known')
         /\ \A at : Copies(made', Known', Kept(With(file, new), at))
<1>1. UNCHANGED Known  BY DEF Known, Delivered
<1>2. /\ MadeIn(made') /\ Grows(made, Known, made', Known')
      /\ Copies(made', Known', new)
  BY <1>1, MakingOne DEF AllowInv
<1>3. Copies(made', Known', file) /\ Copies(made', Known', rulesDoc.delivered)
  BY <1>2, CopiesGrow DEF AllowInv, RulesIn
<1>4. RulesIn(made', Known', rulesDoc')
  BY <1>1, <1>2, <1>3 DEF AllowInv, RulesIn, Grows
<1>5. Copies(made', Known', With(file, new))  BY <1>2, <1>3, WithCopies
<1> QED  BY <1>2, <1>4, <1>5, KeptCopies

LEMMA HookMakes ==
  ASSUME AllowInv, NEW b \in BlockedCalls, AnswerQuiet(b) \/ AnswerLasting(b)
  PROVE  AllowInv'
<1>1. /\ question[b].at \in AllowTimes /\ question[b].entries \subseteq Unblocks
      /\ KeyOf[b] \in Keys /\ Copies(made, Known, question[b].mine)
      /\ Copies(made, Known, allowances)
  BY KeyType DEF AllowInv, QuestionIn
<1>2. PICK how \in {"none", "person"} : Answer(b, how)  BY DEF AnswerQuiet, AnswerLasting
<1>3. PICK file, new : /\ Copies(made, Known, file) /\ Fresh(made, new)
                       /\ allowances' = Kept(With(file, new), question[b].at)
                       /\ made' = With(made, new)
  BY <1>1, QuietType, NewType DEF AnswerQuiet, AnswerLasting, Unused
<1>4. UNCHANGED <<rulesDoc, told>>  BY DEF AnswerQuiet, AnswerLasting
<1>5. /\ MadeIn(made') /\ RulesIn(made', Known', rulesDoc')
      /\ Grows(made, Known, made', Known') /\ Copies(made', Known', allowances')
  BY <1>3, <1>4, Added
<1>6. QuestionIn(made', Known', b, [Unasked EXCEPT !.stage = "done", !.by = how])
  BY <1>5, AnswerType
<1>7. Lists'
  <2>1. UNCHANGED <<allowClock, told, stopped, sender, requests>>
    BY DEF AnswerQuiet, AnswerLasting
  <2>2. unblocks' \subseteq Unblocks
    BY <1>1 DEF AnswerQuiet, AnswerLasting, AllowInv, Lists, Unblocks
  <2>3. blocked' \in [BlockedCalls -> [state : {"none", "open", "acted"}, at : AllowTimes]]
    BY <1>1, BlockType DEF AnswerQuiet, AnswerLasting, AllowInv, Lists
  <2> QED  BY <1>5, <2>1, <2>2, <2>3 DEF AllowInv, Lists, Grows
<1> QED  BY <1>2, <1>5, <1>6, <1>7, AllowKept DEF Answer

LEMMA TrayMakes ==
  ASSUME AllowInv, NEW b \in BlockedCalls, TrayAllows(b) \/ TrayKeepsQuiet(b)
  PROVE  AllowInv'
<1>1. allowClock \in AllowTimes /\ KeyOf[b] \in Keys /\ Copies(made, Known, allowances)
  BY KeyType DEF AllowInv, Lists
<1>2. PICK new : /\ Fresh(made, new) /\ allowances' = Kept(With(allowances, new), allowClock)
                 /\ made' = With(made, new)
  BY <1>1, QuietType, NewType DEF TrayAllows, TrayKeepsQuiet, Unused
<1>3. UNCHANGED <<rulesDoc, told>> /\ UNCHANGED question  BY DEF TrayAllows, TrayKeepsQuiet
<1>4. /\ MadeIn(made') /\ RulesIn(made', Known', rulesDoc')
      /\ Grows(made, Known, made', Known') /\ Copies(made', Known', allowances')
  BY <1>1, <1>2, <1>3, Added
<1>5. Lists'
  <2>1. UNCHANGED <<allowClock, told, stopped, sender, requests>>
    BY DEF TrayAllows, TrayKeepsQuiet
  <2>2. unblocks' \subseteq Unblocks
    BY <1>1 DEF TrayAllows, TrayKeepsQuiet, AllowInv, Lists, Unblocks
  <2>3. blocked' \in [BlockedCalls -> [state : {"none", "open", "acted"}, at : AllowTimes]]
    BY BlockType, ZenonT(40) DEF TrayAllows, TrayKeepsQuiet, AllowInv
  <2> QED  BY <1>4, <2>1, <2>2, <2>3 DEF AllowInv, Lists, Grows
<1> QED  BY <1>3, <1>4, <1>5, AllowKept

(* The agent marks what is in the file.                                    *)
LEMMA FileMarked ==
  ASSUME AllowInv,
         MarkSent \/ MarkEndSent \/ \E id \in AllowanceIds : StopAllowing(id)
  PROVE  AllowInv'
<1>1. UNCHANGED <<made, rulesDoc, question>>
  BY DEF MarkSent, MarkEndSent, StopAllowing
<1> DEFINE Marks(marked) == /\ DOMAIN marked = DOMAIN allowances
                            /\ \A id \in DOMAIN allowances : allowances[id] \in Entries =>
                                 MarkedAs(Known, id, allowances[id], marked[id])
<1>2. sender.ids \subseteq Known.told  BY DEF Known, AllowInv, Lists
<1>3. \E marked, at : allowances' = Kept(marked, at) /\ Marks(marked)
  <2>1. CASE MarkSent
    <3> DEFINE flag(i) == allowances[i].sent \/ i \in sender.ids
               marked == [i \in DOMAIN allowances |-> [allowances[i] EXCEPT !.sent = flag(i)]]
    <3>1. allowances' = Kept(marked, allowClock)  BY <2>1 DEF MarkSent
    <3>2. ASSUME NEW i \in DOMAIN allowances, allowances[i] \in Entries
          PROVE  MarkedAs(Known, i, allowances[i], marked[i])
      <4>1. flag(i) \in BOOLEAN /\ (flag(i) = allowances[i].sent \/ i \in Known.told)
        BY <1>2, <3>2 DEF Entries
      <4> HIDE DEF flag
      <4>2. marked[i] = [allowances[i] EXCEPT !.sent = flag(i)]  BY <3>2
      <4> HIDE DEF marked
      <4> QED  BY <3>2, <4>1, <4>2 DEF Entries, MarkedAs
    <3>3. DOMAIN marked = DOMAIN allowances  OBVIOUS
    <3> HIDE DEF marked
    <3> QED  BY <3>1, <3>2, <3>3
  <2>2. CASE MarkEndSent
    <3> DEFINE flag(i) == allowances[i].endSent \/ i \in sender.ids
               marked == [i \in DOMAIN allowances |-> [allowances[i] EXCEPT !.endSent = flag(i)]]
    <3>1. allowances' = Kept(marked, allowClock)  BY <2>2 DEF MarkEndSent
    <3>2. ASSUME NEW i \in DOMAIN allowances, allowances[i] \in Entries
          PROVE  MarkedAs(Known, i, allowances[i], marked[i])
      <4>1. flag(i) \in BOOLEAN /\ (flag(i) = allowances[i].endSent \/ i \in Known.told)
        BY <1>2, <3>2 DEF Entries
      <4> HIDE DEF flag
      <4>2. marked[i] = [allowances[i] EXCEPT !.endSent = flag(i)]  BY <3>2
      <4> HIDE DEF marked
      <4> QED  BY <3>2, <4>1, <4>2 DEF Entries, MarkedAs
    <3>3. DOMAIN marked = DOMAIN allowances  OBVIOUS
    <3> HIDE DEF marked
    <3> QED  BY <3>1, <3>2, <3>3
  <2>3. ASSUME NEW j \in AllowanceIds, StopAllowing(j)
        PROVE  \E marked, at : allowances' = Kept(marked, at) /\ Marks(marked)
    <3> DEFINE n == [allowances[j] EXCEPT !.ended = TRUE, !.endSent = FALSE]
               marked == [allowances EXCEPT ![j] = n]
    <3>1. allowances' = Kept(marked, allowClock)  BY <2>3 DEF StopAllowing
    <3>2. ASSUME NEW i \in DOMAIN allowances, allowances[i] \in Entries
          PROVE  MarkedAs(Known, i, allowances[i], marked[i])
      <4>1. allowances[j] \in Entries => MarkedAs(Known, j, allowances[j], n)
        BY DEF Entries, MarkedAs
      <4>2. MarkedAs(Known, i, allowances[i], allowances[i])  BY <3>2 DEF MarkedAs
      <4> HIDE DEF n
      <4> QED  BY <3>2, <4>1, <4>2
    <3>3. DOMAIN marked = DOMAIN allowances  OBVIOUS
    <3> HIDE DEF marked
    <3> QED  BY <3>1, <3>2, <3>3
  <2> QED  BY <2>1, <2>2, <2>3
<1>4. PICK marked, at : allowances' = Kept(marked, at) /\ Marks(marked)  BY <1>3
<1>5. Copies(made, Known, marked)
  <2>1. ASSUME NEW id \in DOMAIN marked  PROVE CopyIn(made, Known, id, marked[id])
    <3>1. CopyIn(made, Known, id, allowances[id])  BY <1>4, <2>1 DEF AllowInv, Copies
    <3>2. allowances[id] \in Entries  BY <3>1 DEF CopyIn
    <3> QED  BY <1>4, <2>1, <3>1, <3>2, SameCopy
  <2> QED  BY <2>1 DEF Copies
<1>6. UNCHANGED <<made, rulesDoc>> /\ UNCHANGED question /\ UNCHANGED told
  BY DEF MarkSent, MarkEndSent, StopAllowing
<1>7. Copies(made', Known', allowances')
  BY <1>1, <1>5, <1>6, <1>4, KeptCopies, SameMade
<1>8. Lists'
  <2>1. UNCHANGED <<allowClock, told, requests, unblocks, blocked>>
    BY DEF MarkSent, MarkEndSent, StopAllowing
  <2>2. sender'.ids \subseteq told
    <3>1. CASE MarkSent \/ MarkEndSent
      <4>1. sender'.ids = {}  BY <3>1 DEF MarkSent, MarkEndSent
      <4> QED  BY <4>1
    <3>2. ASSUME NEW j \in AllowanceIds, StopAllowing(j)  PROVE sender'.ids \subseteq told
      BY <3>2 DEF StopAllowing, AllowInv, Lists
    <3> QED  BY <3>1, <3>2
  <2>3. stopped' \subseteq DOMAIN made
    <3>1. CASE MarkSent \/ MarkEndSent  BY <3>1 DEF MarkSent, MarkEndSent, AllowInv, Lists
    <3>2. ASSUME NEW j \in AllowanceIds, StopAllowing(j)  PROVE stopped' \subseteq DOMAIN made
      BY <3>2 DEF StopAllowing, AllowInv, Lists, Copies, CopyIn
    <3> QED  BY <3>1, <3>2
  <2> QED  BY <1>1, <2>1, <2>2, <2>3 DEF AllowInv, Lists
<1> QED  BY <1>7, <1>8, <1>6, SameMade, AllowKept


LEMMA Posts ==
  ASSUME AllowInv, PostAllowances \/ PostEnded \/ (\E b \in BlockedCalls : TrayAsksAdmin(b))
                   \/ AllowTimePasses
  PROVE  AllowInv'
<1>1. UNCHANGED <<made, rulesDoc>> /\ UNCHANGED question /\ UNCHANGED allowances
  BY DEF PostAllowances, PostEnded, TrayAsksAdmin, AllowTimePasses, allowanceFiles
<1>2. told \subseteq told'
  BY DEF PostAllowances, PostEnded, TrayAsksAdmin, AllowTimePasses
<1>3. DOMAIN allowances \subseteq DOMAIN made  BY DEF AllowInv, Copies, CopyIn
<1>4. Lists'
  <2>1. CASE PostAllowances
    <3>1. PICK ids \in SUBSET DOMAIN allowances :
            sender' = [stage |-> "posted", ids |-> ids] /\ told' = told \cup ids
      BY <2>1 DEF PostAllowances
    <3>2. sender'.ids = ids  BY <3>1
    <3> QED  BY <1>1, <1>3, <2>1, <3>1, <3>2 DEF PostAllowances, allowanceFiles, AllowInv, Lists
  <2>2. CASE PostEnded
    <3>1. PICK ids : /\ sender' = [stage |-> "ended", ids |-> ids]
                     /\ ids \subseteq {i \in DOMAIN allowances : allowances[i].sent
                                                                 /\ allowances[i].by = "person"}
      BY <2>2 DEF PostEnded
    <3>2. sender'.ids = ids  BY <3>1
    <3>3. \A i \in DOMAIN allowances : allowances[i].sent /\ allowances[i].by = "person" => i \in told
      BY DEF AllowInv, Copies, CopyIn, Known
    <3> QED  BY <1>1, <2>2, <3>1, <3>2, <3>3 DEF PostEnded, allowanceFiles, AllowInv, Lists
  <2>3. ASSUME NEW b \in BlockedCalls, TrayAsksAdmin(b)  PROVE Lists'
    <3>1. blocked' \in [BlockedCalls -> [state : {"none", "open", "acted"}, at : AllowTimes]]
      BY <2>3, BlockType DEF TrayAsksAdmin, AllowInv
    <3> QED  BY <2>3, <3>1, KeyType DEF TrayAsksAdmin, AllowInv, Lists
  <2>4. CASE AllowTimePasses
    BY <2>4, AllowancesAssumption DEF AllowTimePasses, AllowTimes, allowanceFiles, AllowInv, Lists
  <2> QED  BY <2>1, <2>2, <2>3, <2>4
<1> QED  BY <1>1, <1>4, <1>2, SameMade, AllowKept


(* The workspace's copy of an allowance that was made.                     *)
LEMMA Delivers ==
  ASSUME AllowInv, MadeIn(made'), Grows(made, Known, made', Known), UNCHANGED told,
         NEW id, id \in DOMAIN made', Deliver(id, made'[id])
  PROVE  RulesIn(made', Known', rulesDoc') /\ Grows(made, Known, made', Known')
<1> PICK e : e = made'[id]  OBVIOUS
<1> DEFINE quiet == e.quiet /\ KnowsKind
           copy == [e EXCEPT !.state = "active", !.quiet = quiet]
           given == With(rulesDoc.delivered, [i \in {id} |-> copy])
<1>1. /\ e \in Entries /\ e.state \in {"active", "proposed"} /\ (e.sent => e.by = "workspace")
  BY DEF MadeIn
<1>2. quiet \in BOOLEAN /\ (KnowsKind => quiet = e.quiet)
  BY <1>1, AllowancesAssumption DEF Entries
<1>3. rulesDoc' = [rulesDoc EXCEPT !.delivered = given]  BY DEF Deliver
<1> HIDE DEF quiet
<1>4. /\ copy \in Entries /\ copy.covers = e.covers /\ copy.by = e.by /\ copy.quiet = quiet
      /\ copy.sent = e.sent
  BY <1>1, <1>2 DEF Entries
<1> HIDE DEF copy
<1>5. DOMAIN given = Delivered \cup {id} /\ given[id] = copy
      /\ \A i \in Delivered \ {id} : given[i] = rulesDoc.delivered[i]
  BY DEF With, Delivered
<1> HIDE DEF given
<1>6. /\ rulesDoc' = [delivered |-> given, revoked |-> rulesDoc.revoked, expired |-> rulesDoc.expired]
      /\ rulesDoc'.delivered = given
  BY <1>3 DEF AllowInv, RulesIn
<1>7. /\ Known.given = Delivered /\ Known.told = told
      /\ Known'.given = DOMAIN given /\ Known'.told = told
  BY <1>6 DEF Known, Delivered
<1>8. Grows(made, Known, made', Known')  BY <1>5, <1>7 DEF Grows
<1>9. Copies(made', Known', rulesDoc.delivered)  BY <1>8, CopiesGrow DEF AllowInv, RulesIn
<1>10. CopyIn(made', Known', id, copy)  BY <1>1, <1>2, <1>4, <1>5, <1>7 DEF CopyIn
<1>11. Copies(made', Known', given)  BY <1>5, <1>9, <1>10 DEF Copies, Delivered
<1>12. RulesIn(made', Known', rulesDoc')  BY <1>6, <1>7, <1>8, <1>11 DEF RulesIn, AllowInv, Grows
<1> QED  BY <1>8, <1>12

LEMMA WorkspaceGives ==
  ASSUME AllowInv,
         (\E id \in AllowanceIds : Confirms(id)) \/ (\E k \in Keys : Approves(k))
  PROVE  AllowInv'
<1>1. /\ UNCHANGED <<allowances, unblocks, requests, blocked>> /\ UNCHANGED question
      /\ UNCHANGED told /\ UNCHANGED <<allowClock, sender, stopped>>
  BY DEF Confirms, Approves, allowanceFiles
<1> DEFINE Gives == /\ MadeIn(made') /\ Grows(made, Known, made', Known)
                    /\ \E id : id \in DOMAIN made' /\ Deliver(id, made'[id])
<1>2. Gives
  <2>1. ASSUME NEW id \in AllowanceIds, Confirms(id)
        PROVE  Gives
    BY <2>1 DEF Confirms, AllowInv, Lists, Grows
  <2>2. ASSUME NEW k \in Keys, Approves(k)
        PROVE  Gives
    <3> DEFINE entry == Entry({k}, "always", "active", allowClock)
               e == [entry EXCEPT !.by = "workspace", !.sent = TRUE]
    <3>1. PICK id \in Unused : Deliver(id, e) /\ made' = With(made, [i \in {id} |-> e])
      BY <2>2 DEF Approves
    <3>2. entry \in Entries /\ entry.state = "active"
      BY EntryType, SMTT(30) DEF AllowInv, Lists
    <3> HIDE DEF entry
    <3>3. e \in Entries /\ e.state = "active" /\ e.by = "workspace"  BY <3>2 DEF Entries
    <3> HIDE DEF e
    <3>4. Fresh(made, [i \in {id} |-> e])  BY <3>1, <3>3 DEF Fresh, Unused
    <3>5. MadeIn(made') /\ Grows(made, Known, made', Known)
      BY <3>1, <3>4, MakingOne DEF AllowInv
    <3>6. id \in DOMAIN made' /\ made'[id] = e  BY <3>1 DEF With
    <3> QED  BY <3>1, <3>5, <3>6
  <2> QED  BY <2>1, <2>2
<1>3. RulesIn(made', Known', rulesDoc') /\ Grows(made, Known, made', Known')
  BY <1>1, <1>2, Delivers
<1>4. Lists'  BY <1>1, <1>2 DEF AllowInv, Lists, Grows
<1> QED  BY <1>1, <1>2, <1>3, <1>4, AllowKept

LEMMA WorkspaceTakes ==
  ASSUME AllowInv, GrantsExpireOrRenew \/ \E id \in AllowanceIds : Revokes(id)
  PROVE  AllowInv'
<1>1. /\ UNCHANGED <<allowances, unblocks, requests, blocked>> /\ UNCHANGED question
      /\ UNCHANGED told /\ UNCHANGED made /\ UNCHANGED <<allowClock, sender, stopped>>
  BY DEF GrantsExpireOrRenew, Revokes, allowanceFiles
<1>2. PICK revoked, expired :
        /\ rulesDoc' = [delivered |-> rulesDoc.delivered, revoked |-> revoked, expired |-> expired]
        /\ revoked \subseteq DOMAIN made /\ expired \in BOOLEAN
  <2>1. /\ rulesDoc = [delivered |-> rulesDoc.delivered, revoked |-> rulesDoc.revoked,
                       expired |-> rulesDoc.expired]
        /\ rulesDoc.revoked \subseteq DOMAIN made /\ rulesDoc.expired \in BOOLEAN
        /\ Delivered \subseteq DOMAIN made /\ told \subseteq DOMAIN made
    BY DEF AllowInv, RulesIn, Lists, Copies, CopyIn, Delivered
  <2>2. CASE GrantsExpireOrRenew
    <3>1. rulesDoc' = [rulesDoc EXCEPT !.expired = ~rulesDoc.expired]
      BY <2>2 DEF GrantsExpireOrRenew
    <3> QED  BY <2>1, <3>1
  <2>3. ASSUME NEW id \in AllowanceIds, Revokes(id)
        PROVE  \E revoked, expired :
                 /\ rulesDoc' = [delivered |-> rulesDoc.delivered, revoked |-> revoked,
                                 expired |-> expired]
                 /\ revoked \subseteq DOMAIN made /\ expired \in BOOLEAN
    <3>1. rulesDoc' = [rulesDoc EXCEPT !.revoked = rulesDoc.revoked \cup {id}]
          /\ id \in told \cup Delivered
      BY <2>3 DEF Revokes, Delivered
    <3>2. /\ rulesDoc' = [delivered |-> rulesDoc.delivered, revoked |-> rulesDoc.revoked \cup {id},
                          expired |-> rulesDoc.expired]
          /\ rulesDoc.revoked \cup {id} \subseteq DOMAIN made
      BY <2>1, <3>1
    <3> QED  BY <2>1, <3>2
  <2> QED  BY <2>2, <2>3
<1>3. UNCHANGED Known /\ Known.given = DOMAIN rulesDoc.delivered
  BY <1>1, <1>2 DEF Known, Delivered
<1>4. RulesIn(made', Known', rulesDoc')  BY <1>1, <1>2, <1>3 DEF AllowInv, RulesIn
<1>5. MadeIn(made') /\ Grows(made, Known, made', Known')
  BY <1>1, <1>3 DEF AllowInv, Grows
<1>6. Lists'  BY <1>1 DEF AllowInv, Lists
<1> QED  BY <1>1, <1>4, <1>5, <1>6, AllowKept

LEMMA AllowStep == AllowInv /\ [AllowNext]_allowVars => AllowInv'
<1> SUFFICES ASSUME AllowInv, [AllowNext]_allowVars  PROVE AllowInv'  OBVIOUS
<1>1. CASE UNCHANGED allowVars
  <2>1. /\ UNCHANGED <<made, rulesDoc>> /\ UNCHANGED question /\ UNCHANGED told /\ UNCHANGED allowances
    BY <1>1 DEF allowVars, allowanceFiles
  <2>2. Lists'  BY <1>1 DEF allowVars, allowanceFiles, AllowInv, Lists
  <2> QED  BY <2>1, <2>2, SameMade, AllowKept
<1>2. CASE AllowNext
  BY <1>2, HookAnswers, HookOpens, HookReads, HookUses, HookMakes, TrayMakes, FileMarked, Posts,
     WorkspaceGives, WorkspaceTakes DEF AllowNext
<1> QED  BY <1>1, <1>2


LEMMA AllowInitType == AllowInit => AllowInv
<1> SUFFICES ASSUME AllowInit  PROVE AllowInv  OBVIOUS
<1>1. PICK ids \in {{}} \cup {{id} : id \in AllowanceIds}, k \in Keys :
        LET asked == [id \in ids |-> Entry({k}, "always", "proposed", 0)]
            given == [id \in ids |-> [asked[id] EXCEPT !.state = "active"]]
        IN /\ made = asked /\ told = ids
           /\ rulesDoc = [delivered |-> given, revoked |-> {}, expired |-> FALSE]
           /\ allowances = [id \in ids |-> [given[id] EXCEPT !.uses = 1, !.sent = TRUE]]
  BY DEF AllowInit
<1> DEFINE e == Entry({k}, "always", "proposed", 0)
           given == [e EXCEPT !.state = "active"]
           mine == [given EXCEPT !.uses = 1, !.sent = TRUE]
<1>2. 0 \in AllowTimes  BY AllowancesAssumption DEF AllowTimes
<1>3. e \in Entries /\ e.state = "proposed" /\ ~e.sent  BY <1>2, EntryType
<1>4. /\ ids \subseteq AllowanceIds /\ made = [id \in ids |-> e] /\ told = ids
      /\ rulesDoc = [delivered |-> [id \in ids |-> given], revoked |-> {}, expired |-> FALSE]
      /\ allowances = [id \in ids |-> mine]
  BY <1>1
<1> HIDE DEF e
<1>5. /\ given \in Entries /\ given.covers = e.covers /\ given.by = e.by /\ given.quiet = e.quiet
      /\ given.state = "active" /\ given.sent = e.sent
  BY <1>3 DEF Entries
<1> HIDE DEF given
<1>6. /\ mine \in Entries /\ mine.covers = e.covers /\ mine.by = e.by /\ mine.quiet = e.quiet
  BY <1>5 DEF Entries
<1> HIDE DEF mine
<1>7. /\ DOMAIN rulesDoc.delivered = ids /\ Known.given = ids /\ Known.told = ids
  BY <1>4 DEF Known, Delivered
<1>8. MadeIn(made)  BY <1>3, <1>4 DEF MadeIn
<1>9. Copies(made, Known, rulesDoc.delivered) /\ Copies(made, Known, allowances)
  BY <1>3, <1>4, <1>5, <1>6, <1>7 DEF Copies, CopyIn
<1>10. RulesIn(made, Known, rulesDoc)  BY <1>4, <1>7, <1>9 DEF RulesIn
<1>11. \A b \in BlockedCalls : QuestionIn(made, Known, b, question[b])
  <2>1. "none" \notin DOMAIN made  BY <1>8, AllowancesAssumption DEF MadeIn
  <2>2. \A b \in BlockedCalls : question[b] = Unasked  BY DEF AllowInit
  <2>3. QuestionIn(made, Known, "none", Unasked)
    <3>1. /\ Unasked.stage = "new" /\ Unasked.by = "none" /\ Unasked.at = 0
          /\ Unasked.entries = {} /\ Unasked.mine = << >> /\ Unasked.read = << >>
      BY DEF Unasked
    <3> QED  BY <1>2, <2>1, <3>1, NoCopies, UnaskedDoc DEF QuestionIn
  <2>4. \A b : QuestionIn(made, Known, b, Unasked)
    <3>1. Unasked.by \notin DOMAIN made  BY <2>1 DEF Unasked
    <3> QED  BY <2>3, <3>1 DEF QuestionIn
  <2> QED  BY <2>2, <2>4
<1>12. Lists
  <2>1. sender.ids = {}  BY DEF AllowInit
  <2>2. blocked \in [BlockedCalls -> [state : {"none", "open", "acted"}, at : AllowTimes]]
    BY <1>2 DEF AllowInit
  <2> QED  BY <1>2, <1>4, <2>1, <2>2 DEF AllowInit, Lists
<1>13. question = [b \in BlockedCalls |-> question[b]]  BY DEF AllowInit
<1> QED  BY <1>8, <1>9, <1>10, <1>11, <1>12, <1>13 DEF AllowInv

THEOREM AllowInvAlways == AllowSpec => []AllowInv
<1>1. AllowInit => AllowInv  BY AllowInitType
<1>2. AllowInv /\ [AllowNext]_allowVars => AllowInv'  BY AllowStep
<1> QED  BY <1>1, <1>2, PTL DEF AllowSpec

-----------------------------------------------------------------------------
(* The theorems.                                                           *)

(* The files hold what their readers expect: every list of ids names       *)
(* allowances that were made, and what is marked as sent the workspace has.*)
THEOREM AllowancesTypeCorrect == AllowSpec => []AllowancesTypeOK
<1>1. AllowInv => AllowancesTypeOK
  <2> SUFFICES ASSUME AllowInv  PROVE AllowancesTypeOK  OBVIOUS
  <2>1. \A file : Copies(made, Known, file) => IsEntries(file)
    BY DEF AllowInv, MadeIn, Copies, CopyIn, IsEntries, Range
  <2>2. IsEntries(made)  BY DEF AllowInv, MadeIn, IsEntries, Range
  <2>3. IsEntries(allowances) /\ IsEntries(rulesDoc.delivered)
    BY <2>1 DEF AllowInv, RulesIn
  <2>4. \A b \in BlockedCalls :
          /\ question[b].stage \in {"new", "open", "using", "asking", "done"}
          /\ IsEntries(question[b].doc.delivered) /\ question[b].doc.revoked \subseteq DOMAIN made
          /\ IsEntries(question[b].mine) /\ IsEntries(question[b].read)
          /\ question[b].by \in DOMAIN made \cup {"none", "person"}
    BY <2>1 DEF AllowInv, QuestionIn, DocIn
  <2>5. rulesDoc.revoked \subseteq DOMAIN made  BY DEF AllowInv, RulesIn
  <2> QED  BY <2>2, <2>3, <2>4, <2>5 DEF AllowInv, Lists, Unblocks, AllowancesTypeOK
<1> QED  BY <1>1, AllowInvAlways, PTL

(* What lets an action through was made to cover that action, was never a  *)
(* quiet block, and was confirmed by the workspace where it waited for an  *)
(* admin: whatever copies of the file any process still holds and writes   *)
(* back.  The workspace's copy must say that a quiet block is one.         *)
THEOREM LetThroughIsExplained ==
  ASSUME KnowsKind = TRUE
  PROVE  AllowSpec => []LetThroughExplained
<1>1. AllowInv => LetThroughExplained
  <2> SUFFICES ASSUME AllowInv, NEW b \in BlockedCalls, question[b].by \in AllowanceIds
               PROVE  LET e == made[question[b].by]
                      IN /\ KeyOf[b] \in e.covers /\ ~e.quiet
                         /\ e.state = "proposed" => question[b].by \in DOMAIN rulesDoc.delivered
    BY DEF LetThroughExplained
  <2>1. question[b].by \in DOMAIN made
    BY AllowancesAssumption DEF AllowInv, QuestionIn
  <2> QED  BY <2>1 DEF AllowInv, QuestionIn, Explains, RulesIn
<1> QED  BY <1>1, AllowInvAlways, PTL

(* No step takes up an allowance the workspace had revoked when the tool   *)
(* call began, and once its grants have expired, none takes up what it had *)
(* given or confirmed by then, whatever the files on the computer hold.    *)
THEOREM WorkspaceDecides == AllowSpec => WorkspaceHasTheLastWord
<1> DEFINE Decided(b) ==
             LET id == question'[b].by
             IN /\ id \notin question[b].doc.revoked
                /\ rulesDoc.expired =>
                     /\ made[id].by = "person"
                     /\ made[id].state = "active" \/ id \notin DOMAIN question[b].doc.delivered
           LastWord == \A b \in BlockedCalls : Takes(b) => Decided(b)
<1>1. AllowInv /\ [AllowNext]_allowVars => [LastWord]_allowVars
  <2> SUFFICES ASSUME AllowInv, AllowNext, NEW b \in BlockedCalls, Takes(b)
               PROVE  Decided(b)
    OBVIOUS
  <2>1. TakeStanding(b)
    <3>1. question' # question /\ question[b].stage = "open" /\ question'[b].stage = "using"
      BY DEF Takes
    <3>2. \/ UNCHANGED question
          \/ \E c \in BlockedCalls : \E q : /\ question' = [question EXCEPT ![c] = q]
                                            /\ q.stage = "using" => TakeStanding(c)
      <4>1. \A how : [Unasked EXCEPT !.stage = "done", !.by = how].stage = "done"
        BY DEF Unasked
      <4>2. ASSUME NEW c \in BlockedCalls, NEW how, Answer(c, how)
            PROVE  \E q : question' = [question EXCEPT ![c] = q] /\ q.stage = "done"
        BY <4>1, <4>2 DEF Answer
      <4>3. ASSUME NEW c \in BlockedCalls, AskPerson(c)
            PROVE  \E q : question' = [question EXCEPT ![c] = q] /\ q.stage = "asking"
        <5>1. \A at, mine, entries :
                [Unasked EXCEPT !.stage = "asking", !.at = at, !.mine = mine,
                                !.entries = entries].stage = "asking"
          BY DEF Unasked
        <5> QED  BY <4>3, <5>1 DEF AskPerson
      <4>4. ASSUME NEW c \in BlockedCalls, TakeStanding(c)
            PROVE  \E q : question' = [question EXCEPT ![c] = q]
        BY <4>4 DEF TakeStanding
      <4>5. ASSUME NEW c \in BlockedCalls,
                   \/ KeepQuiet(c) \/ UseStanding(c) \/ RepeatUnblock(c) \/ StayBlocked(c)
                   \/ AnswerNo(c) \/ AnswerQuiet(c) \/ AnswerAskAdmin(c) \/ AnswerOnce(c)
                   \/ AnswerLasting(c)
            PROVE  \E how : Answer(c, how)
        BY <4>5 DEF KeepQuiet, UseStanding, RepeatUnblock, StayBlocked, AnswerNo, AnswerQuiet,
                    AnswerAskAdmin, AnswerOnce, AnswerLasting
      <4>6. ASSUME NEW c \in BlockedCalls, TrayAllows(c) \/ TrayKeepsQuiet(c) \/ TrayAsksAdmin(c)
            PROVE  UNCHANGED question
        BY <4>6 DEF TrayAllows, TrayKeepsQuiet, TrayAsksAdmin
      <4>7. ASSUME \/ AllowTimePasses \/ GrantsExpireOrRenew
                   \/ PostAllowances \/ MarkSent \/ PostEnded \/ MarkEndSent
                   \/ \E id \in AllowanceIds : Confirms(id) \/ Revokes(id) \/ StopAllowing(id)
                   \/ \E k \in Keys : Approves(k)
            PROVE  UNCHANGED question
        BY <4>7 DEF AllowTimePasses, GrantsExpireOrRenew, PostAllowances, MarkSent, PostEnded,
                    MarkEndSent, Confirms, Revokes, StopAllowing, Approves
      <4>8. ASSUME NEW c \in BlockedCalls, OpenHandler(c)
            PROVE  \E q : question' = [question EXCEPT ![c] = q] /\ q.stage = "open"
        <5> DEFINE doc == [delivered |-> rulesDoc.delivered, revoked |-> rulesDoc.revoked]
                   q == [Unasked EXCEPT !.stage = "open", !.doc = doc]
        <5>1. question[c] = Unasked  BY <4>8 DEF OpenHandler, AllowInv, QuestionIn
        <5>2. question' = [question EXCEPT ![c] =
                             [question[c] EXCEPT !.stage = "open", !.doc = doc]]
          BY <4>8 DEF OpenHandler
        <5>3. question' = [question EXCEPT ![c] = q]  BY <5>1, <5>2
        <5>4. q.stage = "open"  BY DEF Unasked
        <5> QED  BY <5>3, <5>4
      <4> QED  BY <4>2, <4>3, <4>4, <4>5, <4>6, <4>7, <4>8 DEF AllowNext
    <3> QED  BY <3>1, <3>2 DEF AllowInv
  <2>2. question'[b].by \in StandingFor(b)
    BY <2>1 DEF TakeStanding, AllowInv, Unasked
  <2> QED  BY <2>2, StandingUse
<1>2. AllowSpec => [][LastWord]_allowVars  BY <1>1, AllowInvAlways, PTL DEF AllowSpec
<1> QED  BY <1>2 DEF WorkspaceHasTheLastWord

-----------------------------------------------------------------------------
(* Observations: the numbers and the tables.                               *)

(* A process, with n observations queued, e the enrolment, r received.     *)
Answers == {"held", "deferred", "none", "rejected", "stale"}
OpenerType(n) ==
  [at : Places, gen : 0..MaxGeneration, helper : {"no", "loop", "leaving"},
   say : {"none", "start", "stop", "other"} \cup Beats, act : 0..MaxActivations,
   batch : Seq(1..n), answer : Seq(Answers)]

OpenerFits(o, n, e, r) ==
  /\ o \in OpenerType(n)
  /\ o.gen <= e
  /\ o.at # "closed" => o.gen # 0
  /\ o.at = "telling" => o.say # "none"
  /\ Len(o.batch) <= BatchItems
  /\ o.at = "answered" =>
       \A k \in DOMAIN o.answer : o.answer[k] = "held" => o.batch[k] \in r

OpenersFit ==
  /\ opener = [p \in Openers |-> opener[p]]
  /\ \A p \in Openers : OpenerFits(opener[p], Len(queued), enrolled, received)

OfGeneration(s, g) == {i \in DOMAIN s : s[i].gen = g}

OutboxType ==
  [gen : 0..MaxGeneration, next : 1..(MaxQueued + 1),
   capability : {"active", "unsupported", "blocked"}, backoff : BOOLEAN, limit : 1..BatchItems]

OutboxFits ==
  /\ outbox \in OutboxType /\ outbox.gen <= enrolled
  /\ \A i \in DOMAIN queued : queued[i].gen <= outbox.gen
  /\ outbox.next = 1 + Cardinality(OfGeneration(queued, outbox.gen))

Gone(n, pend, rec, term) == 1..n \ (pend \cup rec \cup ToSet(term))

(* What is in a table or counted as removed was queued, each once.         *)
TablesFit ==
  /\ due \subseteq pending /\ pending \subseteq 1..Len(queued)
  /\ Cardinality(pending) <= MaxPending
  /\ terminal \in Seq(1..Len(queued)) /\ Len(terminal) <= MaxTerminal
  /\ trimmed \in Nat
  /\ trimmed + Len(terminal) + Cardinality(pending) <= Len(queued)
  /\ Cardinality(Gone(Len(queued), pending, received, terminal)) <= trimmed

QueuedFits ==
  /\ queued \in Seq(Observation) /\ Len(queued) <= MaxQueued
  /\ enrolled \in Generations
  /\ received \subseteq 1..Len(queued)
  /\ NumberedWithoutGaps

SessionFits ==
  session \in [state : {"none", "active", "stopped"}, act : 0..MaxActivations, lease : BOOLEAN]

OutboxInv == OpenersFit /\ OutboxFits /\ TablesFit /\ QueuedFits /\ SessionFits

LEMMA SomeNumbers ==
  ASSUME NEW n \in Nat, NEW S \in SUBSET (1..n)
  PROVE  IsFiniteSet(S) /\ Cardinality(S) \in Nat /\ Cardinality(S) <= n
<1>1. IsFiniteSet(1..n) /\ Cardinality(1..n) = n  BY FS_Interval
<1>2. IsFiniteSet(S) /\ Cardinality(S) <= Cardinality(1..n)  BY <1>1, FS_Subset, Zenon
<1> QED  BY <1>1, <1>2, FS_CardinalityType, Zenon

LEMMA PendingFinite ==
  ASSUME OutboxInv
  PROVE  IsFiniteSet(pending) /\ Cardinality(pending) \in Nat
BY SomeNumbers DEF OutboxInv, TablesFit, QueuedFits

LEMMA OutboxInvTypes ==
  ASSUME OutboxInv
  PROVE  ObsTypeOK /\ NumberedWithoutGaps /\ NothingVanishes
<1>1. DOMAIN queued = 1..Len(queued) /\ Len(queued) \in Nat
  BY DEF OutboxInv, QueuedFits
<1>2. opener \in [Openers -> OpenerType(Len(queued))]
  BY Zenon DEF OutboxInv, OpenersFit, OpenerFits
<1>3. trimmed \in 0..MaxQueued
  <2>1. Cardinality(pending) \in Nat  BY PendingFinite
  <2>2. Len(terminal) \in Nat  BY DEF OutboxInv, TablesFit
  <2> QED  BY <1>1, <2>1, <2>2, ObservationsAssumption DEF OutboxInv, TablesFit, QueuedFits
<1>4. NothingVanishes
  BY <1>1 DEF OutboxInv, TablesFit, Gone, NothingVanishes
<1> QED
  BY <1>1, <1>2, <1>3, <1>4
  DEF OutboxInv, OutboxFits, TablesFit, QueuedFits, SessionFits, OutboxType, OpenerType, Answers,
      ObsTypeOK

-----------------------------------------------------------------------------
(* Processes.                                                              *)

LEMMA OpenerGrows ==
  ASSUME NEW o, NEW n \in Nat, NEW e \in Nat, NEW r, OpenerFits(o, n, e, r),
         NEW m \in Nat, n <= m, NEW f \in Nat, e <= f, NEW t, r \subseteq t
  PROVE  OpenerFits(o, m, f, t)
<1>1. Seq(1..n) \subseteq Seq(1..m)  OBVIOUS
<1>2. o.gen \in Nat  BY DEF OpenerFits, OpenerType
<1>3. o \in OpenerType(m)  BY <1>1 DEF OpenerFits, OpenerType
<1> QED  BY <1>2, <1>3 DEF OpenerFits

LEMMA SetOpener ==
  ASSUME OutboxInv, NEW p \in Openers, NEW o, opener' = [opener EXCEPT ![p] = o],
         Len(queued') \in Nat, Len(queued) <= Len(queued'),
         enrolled' \in Nat, enrolled <= enrolled', received \subseteq received',
         OpenerFits(o, Len(queued'), enrolled', received')
  PROVE  OpenersFit'
<1>1. Len(queued) \in Nat /\ enrolled \in Nat
  BY DEF OutboxInv, QueuedFits, Generations
<1>2. opener = [q \in Openers |-> opener[q]]  BY DEF OutboxInv, OpenersFit
<1>3. \A q \in Openers : opener'[q] = IF q = p THEN o ELSE opener[q]  BY <1>2
<1>4. opener' = [q \in Openers |-> opener'[q]]  BY <1>2
<1>5. \A q \in Openers : OpenerFits(opener[q], Len(queued'), enrolled', received')
  BY <1>1, OpenerGrows DEF OutboxInv, OpenersFit
<1>6. \A q \in Openers : OpenerFits(opener'[q], Len(queued'), enrolled', received')
  BY <1>3, <1>5, Zenon
<1> QED  BY <1>4, <1>6 DEF OpenersFit

LEMMA SameOpeners ==
  ASSUME OutboxInv, opener' = opener,
         Len(queued') \in Nat, Len(queued) <= Len(queued'),
         enrolled' \in Nat, enrolled <= enrolled', received \subseteq received'
  PROVE  OpenersFit'
<1>1. Len(queued) \in Nat /\ enrolled \in Nat
  BY DEF OutboxInv, QueuedFits, Generations
<1>2. \A q \in Openers : OpenerFits(opener[q], Len(queued'), enrolled', received')
  BY <1>1, OpenerGrows DEF OutboxInv, OpenersFit
<1>3. opener = [q \in Openers |-> opener[q]]  BY DEF OutboxInv, OpenersFit
<1> QED  BY <1>2, <1>3 DEF OpenersFit

(* A process in another place, or with something else to tell.             *)
LEMMA OpenerMoves ==
  ASSUME NEW o, NEW n \in Nat, NEW e \in Nat, NEW r, OpenerFits(o, n, e, r),
         o.at # "closed", NEW at \in Places \ {"answered", "telling"}
  PROVE  OpenerFits([o EXCEPT !.at = at], n, e, r)
BY DEF OpenerFits, OpenerType, Places

LEMMA OpenerTells ==
  ASSUME NEW o, NEW n \in Nat, NEW e \in Nat, NEW r, OpenerFits(o, n, e, r),
         o.at # "closed", NEW say \in {"start", "stop", "other"} \cup Beats,
         NEW act \in 0..MaxActivations
  PROVE  OpenerFits([o EXCEPT !.at = "telling", !.say = say, !.act = act], n, e, r)
BY DEF OpenerFits, OpenerType, Places, Beats

LEMMA ClosedFits ==
  ASSUME NEW n \in Nat, NEW e \in Nat, NEW r
  PROVE  /\ OpenerFits(Closed, n, e, r)
         /\ OpenerFits([Closed EXCEPT !.helper = "loop"], n, e, r)
<1> PICK S, A : S = Seq(1..n) /\ A = Seq(Answers)  OBVIOUS
<1>1. <<>> \in S /\ <<>> \in A /\ Len(<<>>) = 0  OBVIOUS
<1>2. 0 \in 0..MaxGeneration /\ 0 \in 0..MaxActivations /\ 0 <= e /\ 0 <= BatchItems
  BY ObservationsAssumption
<1>3. OpenerType(n) = [at : Places, gen : 0..MaxGeneration, helper : {"no", "loop", "leaving"},
   say : {"none", "start", "stop", "other"} \cup Beats, act : 0..MaxActivations,
   batch : S, answer : A]
  BY DEF OpenerType
<1>4. Closed \in OpenerType(n) /\ [Closed EXCEPT !.helper = "loop"] \in OpenerType(n)
  BY <1>1, <1>2, <1>3 DEF Closed, Places
<1> QED  BY <1>1, <1>2, <1>4 DEF Closed, OpenerFits

LEMMA OpenedFits ==
  ASSUME OutboxInv, NEW p \in Openers, opener[p].at # "closed",
         NEW h \in {"no", "loop", "leaving"}
  PROVE  /\ OpenerFits(Opened(p, h), Len(queued), enrolled, received)
         /\ Opened(p, h).at = "open"
         /\ OpenerFits([Opened(p, h) EXCEPT !.at = "renewing"], Len(queued), enrolled, received)
<1>1. OpenerFits(Closed, Len(queued), enrolled, received)
  <2>1. Len(queued) \in Nat /\ enrolled \in Nat  BY DEF OutboxInv, QueuedFits, Generations
  <2> QED  BY <2>1, ClosedFits
<1>2. OpenerFits(opener[p], Len(queued), enrolled, received)
  BY DEF OutboxInv, OpenersFit
<1>3. opener[p].gen \in 0..MaxGeneration /\ opener[p].gen <= enrolled /\ opener[p].gen # 0
  BY <1>2 DEF OpenerFits, OpenerType
<1> QED
  BY <1>1, <1>3 DEF Opened, Closed, OpenerFits, OpenerType, Places

-----------------------------------------------------------------------------
(* What a step that queues nothing keeps.                                  *)

LEMMA SameQueued ==
  ASSUME OutboxInv, queued' = queued, enrolled' \in Generations,
         received' \subseteq 1..Len(queued)
  PROVE  QueuedFits'
BY DEF OutboxInv, QueuedFits, NumberedWithoutGaps

LEMMA SameNumbers ==
  ASSUME OutboxInv, queued' = queued, enrolled' \in Nat, enrolled <= enrolled',
         outbox' \in OutboxType, outbox'.gen = outbox.gen, outbox'.next = outbox.next
  PROVE  OutboxFits'
<1>1. enrolled \in Nat /\ outbox.gen \in Nat
  BY DEF OutboxInv, QueuedFits, Generations, OutboxFits, OutboxType
<1> QED  BY <1>1 DEF OutboxInv, OutboxFits

LEMMA GoneLess ==
  ASSUME NEW n \in Nat, NEW pend, NEW rec, NEW term, NEW pend2, NEW rec2, NEW term2,
         Gone(n, pend2, rec2, term2) \subseteq Gone(n, pend, rec, term)
  PROVE  /\ IsFiniteSet(Gone(n, pend, rec, term))
         /\ Cardinality(Gone(n, pend2, rec2, term2)) \in Nat
         /\ Cardinality(Gone(n, pend, rec, term)) \in Nat
         /\ Cardinality(Gone(n, pend2, rec2, term2)) <= Cardinality(Gone(n, pend, rec, term))
<1>1. IsFiniteSet(Gone(n, pend, rec, term))
  <2>1. IsFiniteSet(1..n)  BY FS_Interval
  <2>2. Gone(n, pend, rec, term) \subseteq 1..n  BY DEF Gone
  <2> QED  BY <2>1, <2>2, FS_Subset, Zenon
<1>2. /\ IsFiniteSet(Gone(n, pend2, rec2, term2))
      /\ Cardinality(Gone(n, pend2, rec2, term2)) <= Cardinality(Gone(n, pend, rec, term))
  BY <1>1, FS_Subset, Zenon
<1> QED  BY <1>1, <1>2, FS_CardinalityType, Zenon

(* The table of what is pending may lose what the workspace holds.         *)
LEMMA SameTables ==
  ASSUME OutboxInv, queued' = queued, received \subseteq received',
         pending' \subseteq pending, pending \ pending' \subseteq received', due' \subseteq pending',
         terminal' = terminal, trimmed' = trimmed
  PROVE  TablesFit'
<1>1. Len(queued) \in Nat /\ Len(terminal) \in Nat /\ MaxPending \in Nat
  BY ObservationsAssumption DEF OutboxInv, QueuedFits, TablesFit
<1>2. /\ IsFiniteSet(pending) /\ Cardinality(pending) \in Nat
      /\ Cardinality(pending') \in Nat /\ Cardinality(pending') <= Cardinality(pending)
  BY PendingFinite, FS_Subset, FS_CardinalityType
<1>3. Gone(Len(queued), pending', received', terminal')
        \subseteq Gone(Len(queued), pending, received, terminal)
  BY DEF Gone
<1>4. Cardinality(Gone(Len(queued), pending', received', terminal')) <= trimmed
  <2>1. /\ Cardinality(Gone(Len(queued), pending', received', terminal')) \in Nat
        /\ Cardinality(Gone(Len(queued), pending, received, terminal)) \in Nat
        /\ Cardinality(Gone(Len(queued), pending', received', terminal'))
             <= Cardinality(Gone(Len(queued), pending, received, terminal))
    BY <1>1, <1>3, GoneLess, Zenon
  <2> QED  BY <2>1 DEF OutboxInv, TablesFit
<1> QED  BY <1>1, <1>2, <1>4 DEF OutboxInv, TablesFit

-----------------------------------------------------------------------------
(* Rows put into the terminal table.                                       *)

LEMMA CutCorrect ==
  ASSUME NEW T, NEW rows \in Seq(T)
  PROVE  /\ Cut(rows).rows \in Seq(T) /\ Len(Cut(rows).rows) <= MaxTerminal
         /\ Cut(rows).removed \in Nat /\ Len(Cut(rows).rows) + Cut(rows).removed = Len(rows)
         /\ \E out \in Seq(T) : /\ Len(out) = Cut(rows).removed
                                /\ ToSet(rows) \subseteq ToSet(Cut(rows).rows) \cup ToSet(out)
<1> DEFINE over == IF Len(rows) > MaxTerminal THEN Len(rows) - MaxTerminal ELSE 0
           kept == SubSeq(rows, over + 1, Len(rows))
           out == SubSeq(rows, 1, over)
<1>1. /\ Len(rows) \in Nat /\ over \in 0..Len(rows) /\ MaxTerminal \in Nat
      /\ Len(rows) - over <= MaxTerminal /\ DOMAIN rows = 1..Len(rows)
  BY ObservationsAssumption
<1>2. Cut(rows).rows = kept /\ Cut(rows).removed = over  BY DEF Cut
<1> HIDE DEF over
<1>3. over + 1 \in Nat \ {0} /\ Len(rows) \in 0..Len(rows) /\ over + 1 <= Len(rows) + 1 /\ 1 <= over + 1
  BY <1>1
<1>4. /\ kept \in Seq(T) /\ Len(kept) = Len(rows) - (over + 1) + 1
      /\ \A i \in 1..(Len(rows) - (over + 1) + 1) : kept[i] = rows[over + 1 + i - 1]
  BY <1>3, Piece
<1>5. /\ out \in Seq(T) /\ Len(out) = over - 1 + 1
      /\ \A i \in 1..(over - 1 + 1) : out[i] = rows[1 + i - 1]
  BY <1>1, <1>3, Piece
<1> HIDE DEF kept, out
<1>6. Len(kept) = Len(rows) - over /\ Len(out) = over  BY <1>1, <1>4, <1>5
<1>7. DOMAIN kept = 1..(Len(rows) - over) /\ DOMAIN out = 1..over
  BY <1>4, <1>5, <1>6
<1>8. ASSUME NEW i \in 1..Len(rows)  PROVE rows[i] \in ToSet(kept) \cup ToSet(out)
  <2>1. CASE i <= over
    <3>1. i \in 1..over /\ out[i] = rows[i]  BY <1>1, <1>5, <2>1
    <3> QED  BY <1>7, <3>1 DEF ToSet
  <2>2. CASE i > over
    <3>1. i - over \in 1..(Len(rows) - over) /\ over + 1 + (i - over) - 1 = i  BY <1>1, <2>2
    <3>2. kept[i - over] = rows[i]  BY <1>1, <1>4, <3>1
    <3> QED  BY <1>7, <3>1, <3>2 DEF ToSet
  <2> QED  BY <1>1, <2>1, <2>2
<1>9. ToSet(rows) \subseteq ToSet(kept) \cup ToSet(out)  BY <1>1, <1>8 DEF ToSet
<1> QED  BY <1>1, <1>2, <1>4, <1>5, <1>6, <1>9

LEMMA InOrderCorrect ==
  ASSUME queued \in Seq(Observation), NEW ids
  PROVE  /\ InOrder(ids) \in Seq(1..Len(queued)) /\ ToSet(InOrder(ids)) = 1..Len(queued) \cap ids
         /\ IsFiniteSet(1..Len(queued) \cap ids)
         /\ Len(InOrder(ids)) = Cardinality(1..Len(queued) \cap ids)
<1> DEFINE all == [i \in DOMAIN queued |-> i]
<1>1. Len(queued) \in Nat /\ DOMAIN queued = 1..Len(queued)  OBVIOUS
<1>2. all \in Seq(1..Len(queued)) /\ ToSet(all) = 1..Len(queued) /\ IsInjective(all)
  BY <1>1 DEF ToSet, IsInjective
<1>3. InOrder(ids) = Keep(all, ids)  BY DEF InOrder
<1> HIDE DEF all
<1>4. /\ InOrder(ids) \in Seq(1..Len(queued)) /\ ToSet(InOrder(ids)) = 1..Len(queued) \cap ids
      /\ IsInjective(InOrder(ids))
  BY <1>2, <1>3, KeepCorrect
<1> QED  BY <1>4, LenOnce

LEMMA RefusedTables ==
  ASSUME OutboxInv, NEW ids, Refused(ids), queued' = queued, received' = received
  PROVE  TablesFit'
<1> DEFINE n == Len(queued)
           moved == ids \cap pending
           rows == terminal \o InOrder(moved)
<1>1. /\ queued \in Seq(Observation) /\ n \in Nat /\ pending \subseteq 1..n
      /\ terminal \in Seq(1..n) /\ Len(terminal) \in Nat /\ trimmed \in Nat
      /\ MaxPending \in Nat
  BY ObservationsAssumption DEF OutboxInv, QueuedFits, TablesFit
<1>2. 1..n \cap moved = moved  BY <1>1
<1>3. /\ InOrder(moved) \in Seq(1..n) /\ ToSet(InOrder(moved)) = moved
      /\ IsFiniteSet(moved) /\ Len(InOrder(moved)) = Cardinality(moved)
  BY <1>1, <1>2, InOrderCorrect
<1>4. /\ terminal' = Cut(rows).rows /\ trimmed' = trimmed + Cut(rows).removed
      /\ pending' = pending \ ids /\ due' = due \ ids
  BY DEF Refused
<1>5. /\ rows \in Seq(1..n) /\ ToSet(rows) = ToSet(terminal) \cup moved
      /\ Len(rows) = Len(terminal) + Len(InOrder(moved))
  <2>1. PICK N, left, right : N = 1..n /\ left = terminal /\ right = InOrder(moved)  OBVIOUS
  <2>2. left \in Seq(N) /\ right \in Seq(N)  BY <1>1, <1>3, <2>1
  <2>3. left \o right \in Seq(N) /\ ToSet(left \o right) = ToSet(left) \cup ToSet(right)
    BY <2>2, JoinedSet
  <2>4. Len(left \o right) = Len(left) + Len(right)  BY <2>2, JoinedLength, Zenon
  <2> QED  BY <1>3, <2>1, <2>3, <2>4
<1> HIDE DEF moved, rows
<1>6. PICK out \in Seq(1..n) :
        /\ Len(out) = Cut(rows).removed
        /\ ToSet(rows) \subseteq ToSet(Cut(rows).rows) \cup ToSet(out)
  BY <1>5, CutCorrect
<1>7. /\ terminal' \in Seq(1..n) /\ Len(terminal') <= MaxTerminal
      /\ trimmed' \in Nat /\ Len(terminal') + trimmed' = trimmed + Len(rows)
      /\ trimmed' = trimmed + Len(out)
  <2>1. /\ Cut(rows).rows \in Seq(1..n) /\ Len(Cut(rows).rows) <= MaxTerminal
        /\ Cut(rows).removed \in Nat /\ Len(Cut(rows).rows) + Cut(rows).removed = Len(rows)
    BY <1>5, CutCorrect
  <2>2. PICK v : v = Cut(rows).removed  OBVIOUS
  <2>3. trimmed \in Nat /\ v \in Nat  BY <1>1, <2>1, <2>2
  <2>4. Len(rows) \in Nat /\ Len(terminal') \in Nat /\ Len(terminal') + v = Len(rows)
    BY <1>4, <1>5, <2>1, <2>2
  <2>5. trimmed' = trimmed + v  BY <1>4, <2>2
  <2>6. trimmed' \in Nat /\ Len(terminal') + trimmed' = trimmed + Len(rows)
    BY <2>3, <2>4, <2>5
  <2> QED  BY <1>4, <1>6, <2>1, <2>2, <2>5, <2>6
<1>8. /\ Cardinality(moved) \in Nat /\ Cardinality(pending') \in Nat
      /\ Cardinality(pending) = Cardinality(pending') + Cardinality(moved)
      /\ Cardinality(pending') <= Cardinality(pending)
  <2>1. IsFiniteSet(pending)  BY PendingFinite
  <2>2. pending' = pending \ ids /\ moved = pending \cap ids  BY <1>4 DEF moved
  <2>3. /\ IsFiniteSet(pending \ ids) /\ IsFiniteSet(pending \cap ids)
        /\ Cardinality(pending \ ids) = Cardinality(pending) - Cardinality(pending \cap ids)
    BY <2>1, FS_Difference, FS_Intersection, Zenon
  <2>4. /\ Cardinality(pending) \in Nat /\ Cardinality(moved) \in Nat /\ Cardinality(pending') \in Nat
    BY <2>1, <2>2, <2>3, FS_CardinalityType
  <2> QED  BY <2>2, <2>3, <2>4
<1>9. Cardinality(Gone(n, pending', received, terminal')) <= trimmed'
  <2>1. Gone(n, pending', received, terminal')
          \subseteq Gone(n, pending, received, terminal) \cup ToSet(out)
    <3>1. ToSet(terminal) \cup moved \subseteq ToSet(terminal') \cup ToSet(out)
      BY <1>4, <1>5, <1>6
    <3> QED  BY <1>4, <3>1 DEF Gone, moved
  <2>2. /\ IsFiniteSet(Gone(n, pending, received, terminal))
        /\ Cardinality(Gone(n, pending, received, terminal)) \in Nat
    BY <1>1, GoneLess
  <2>3. IsFiniteSet(ToSet(out)) /\ Cardinality(ToSet(out)) <= Len(out)
    BY <1>6, ToSetBound
  <2> PICK A, B, C : /\ A = Gone(n, pending, received, terminal) /\ B = ToSet(out)
                     /\ C = Gone(n, pending', received, terminal')
    OBVIOUS
  <2>4. /\ IsFiniteSet(A \cup B) /\ Cardinality(A \cap B) \in Nat
        /\ Cardinality(A \cup B) = Cardinality(A) + Cardinality(B) - Cardinality(A \cap B)
    BY <2>2, <2>3, FS_Union, FS_Intersection, FS_CardinalityType
  <2>5. Cardinality(C) <= Cardinality(A \cup B) /\ IsFiniteSet(C)
    BY <2>1, <2>4, FS_Subset
  <2>6. /\ Cardinality(A) \in Nat /\ Cardinality(B) \in Nat /\ Cardinality(C) \in Nat
        /\ Cardinality(A \cup B) \in Nat
    BY <2>2, <2>3, <2>4, <2>5, FS_CardinalityType
  <2>7. Cardinality(A) <= trimmed /\ Cardinality(B) <= Len(out)
    BY <2>3 DEF OutboxInv, TablesFit
  <2>8. Len(out) \in Nat  BY <1>6
  <2> QED  BY <1>1, <1>7, <2>4, <2>5, <2>6, <2>7, <2>8
<1>10. /\ Cardinality(pending) <= MaxPending
       /\ trimmed + Len(terminal) + Cardinality(pending) <= Len(queued)
       /\ due \subseteq pending
  BY DEF OutboxInv, TablesFit
<1>11. Cardinality(pending') <= MaxPending  BY <1>1, <1>8, <1>10
<1>12. trimmed' + Len(terminal') + Cardinality(pending') <= Len(queued)
  <2>1. /\ Len(terminal') \in Nat /\ Len(terminal) \in Nat /\ Len(rows) \in Nat
        /\ trimmed \in Nat /\ trimmed' \in Nat
    BY <1>1, <1>5, <1>7
  <2>2. /\ Len(rows) = Len(terminal) + Cardinality(moved)
        /\ Len(terminal') + trimmed' = trimmed + Len(rows)
    BY <1>3, <1>5, <1>7
  <2>3. Len(queued) \in Nat  BY <1>1
  <2>4. trimmed' + Len(terminal') + Cardinality(pending')
          = trimmed + Len(terminal) + Cardinality(pending)
    <3>1. PICK a, b, c, l, m, t, u :
            /\ a = Len(terminal') /\ b = Len(terminal) /\ l = Len(rows)
            /\ c = Cardinality(pending') /\ m = Cardinality(moved)
            /\ t = trimmed /\ u = trimmed'
      OBVIOUS
    <3>2. /\ a \in Nat /\ b \in Nat /\ c \in Nat /\ m \in Nat /\ l \in Nat
          /\ t \in Nat /\ u \in Nat
          /\ l = b + m /\ a + u = t + l
      BY <1>8, <2>1, <2>2, <3>1
    <3>3. u + a + c = t + b + (c + m)  BY <3>2
    <3> QED  BY <1>8, <3>1, <3>3
  <2> QED  BY <1>10, <2>4
<1>13. due' \subseteq pending' /\ pending' \subseteq 1..n  BY <1>1, <1>4, <1>10
<1> QED  BY <1>7, <1>9, <1>11, <1>12, <1>13 DEF TablesFit

-----------------------------------------------------------------------------
(* Steps that queue nothing and tell of no start or stop.                  *)

QuietAt(o) == ~ (o.at = "telling" /\ o.say \in {"start", "stop"})

(* One process comes to o.                                                 *)
Moves ==
  \E q \in Openers : \E o :
    /\ opener' = [opener EXCEPT ![q] = o]
    /\ OpenerFits(o, Len(queued'), enrolled', received')
    /\ QuietAt(o)

SessionHeld ==
  /\ SessionFits'
  /\ session'.state = session.state /\ session'.act = session.act

QuietStep ==
  /\ Moves \/ opener' = opener
  /\ SessionHeld
  /\ queued' = queued
  /\ enrolled' \in Generations /\ enrolled <= enrolled'
  /\ received \subseteq received' /\ received' \subseteq 1..Len(queued)
  /\ OutboxFits' /\ TablesFit'

LEMMA QuietInv ==
  ASSUME OutboxInv, QuietStep
  PROVE  OutboxInv'
<1>1. /\ Len(queued') \in Nat /\ Len(queued) <= Len(queued') /\ enrolled' \in Nat
      /\ enrolled <= enrolled' /\ received \subseteq received'
  BY DEF QuietStep, OutboxInv, QueuedFits, Generations
<1>2. OpenersFit'
  <2>1. CASE opener' = opener  BY <1>1, <2>1, SameOpeners
  <2>2. CASE Moves
    <3>1. PICK q \in Openers : \E o :
            /\ opener' = [opener EXCEPT ![q] = o]
            /\ OpenerFits(o, Len(queued'), enrolled', received')
      BY <2>2 DEF Moves
    <3>2. PICK o :
            /\ opener' = [opener EXCEPT ![q] = o]
            /\ OpenerFits(o, Len(queued'), enrolled', received')
      BY <3>1
    <3> QED  BY <1>1, <3>2, SetOpener
  <2> QED  BY <2>1, <2>2 DEF QuietStep
<1>3. QueuedFits'  BY SameQueued DEF QuietStep
<1> QED  BY <1>2, <1>3 DEF QuietStep, SessionHeld, OutboxInv

(* A process goes on from where it is.                                     *)
LEMMA OutboxKnown ==
  ASSUME OutboxInv
  PROVE  /\ Len(queued) \in Nat /\ DOMAIN queued = 1..Len(queued)
         /\ enrolled \in Nat /\ enrolled \in Generations /\ received \subseteq 1..Len(queued)
         /\ \A p \in Openers : OpenerFits(opener[p], Len(queued), enrolled, received)
         /\ outbox \in OutboxType /\ SessionFits
BY DEF OutboxInv, QueuedFits, Generations, OpenersFit, OutboxFits

LEMMA MovesFrom ==
  ASSUME OutboxInv, NEW p \in Openers, UNCHANGED <<queued, enrolled, received>>,
         opener[p].at # "closed"
  PROVE  /\ \A h \in {"no", "loop", "leaving"} :
              opener' = [opener EXCEPT ![p] = Opened(p, h)] => Moves
         /\ \A h \in {"no", "loop", "leaving"} :
              opener' = [opener EXCEPT ![p] = [Opened(p, h) EXCEPT !.at = "renewing"]] => Moves
         /\ opener' = [opener EXCEPT ![p] = Closed] => Moves
         /\ Stays(p) => Moves
         /\ Leaves(p) => Moves
         /\ \A at \in Places \ {"answered", "telling"} :
              opener' = [opener EXCEPT ![p] = [opener[p] EXCEPT !.at = at]] => Moves
<1>1. /\ OpenerFits(opener[p], Len(queued), enrolled, received)
      /\ Len(queued) \in Nat /\ enrolled \in Nat
  BY OutboxKnown
<1>2. ASSUME NEW o, OpenerFits(o, Len(queued), enrolled, received), o.at # "telling",
             opener' = [opener EXCEPT ![p] = o]
      PROVE  Moves
  BY <1>2 DEF Moves, QuietAt
<1>3. ASSUME NEW h \in {"no", "loop", "leaving"}
      PROVE  /\ opener' = [opener EXCEPT ![p] = Opened(p, h)] => Moves
             /\ opener' = [opener EXCEPT ![p] = [Opened(p, h) EXCEPT !.at = "renewing"]] => Moves
  <2>1. /\ OpenerFits(Opened(p, h), Len(queued), enrolled, received)
        /\ OpenerFits([Opened(p, h) EXCEPT !.at = "renewing"], Len(queued), enrolled, received)
        /\ Opened(p, h).at # "telling"
        /\ [Opened(p, h) EXCEPT !.at = "renewing"].at # "telling"
    BY <1>1, OpenedFits DEF Opened, Closed
  <2> QED  BY <1>2, <2>1, Zenon
<1>4. opener[p].helper \in {"no", "loop", "leaving"}  BY <1>1 DEF OpenerFits, OpenerType
<1>5. opener' = [opener EXCEPT ![p] = Closed] => Moves
  <2>1. OpenerFits(Closed, Len(queued), enrolled, received) /\ Closed.at # "telling"
    BY <1>1, ClosedFits DEF Closed
  <2> QED  BY <1>2, <2>1, Zenon
<1>6. Stays(p) => Moves
  <2>1. ASSUME Stays(p)  PROVE opener' = [opener EXCEPT ![p] = Opened(p, opener[p].helper)]
    BY <2>1 DEF Stays
  <2> QED  BY <1>3, <1>4, <2>1, Zenon
<1>7. Leaves(p) => Moves
  <2>1. ASSUME Leaves(p)  PROVE opener' = [opener EXCEPT ![p] = Opened(p, "leaving")]
    BY <2>1 DEF Leaves
  <2>2. "leaving" \in {"no", "loop", "leaving"}  OBVIOUS
  <2> QED  BY <1>3, <2>1, <2>2, Zenon
<1>8. ASSUME NEW at \in Places \ {"answered", "telling"}
      PROVE  opener' = [opener EXCEPT ![p] = [opener[p] EXCEPT !.at = at]] => Moves
  <2>1. /\ OpenerFits([opener[p] EXCEPT !.at = at], Len(queued), enrolled, received)
    BY <1>1, OpenerMoves
  <2>2. [opener[p] EXCEPT !.at = at].at # "telling"
    BY <1>1 DEF OpenerFits, OpenerType
  <2> QED  BY <1>2, <2>1, <2>2, Zenon
<1> QED  BY <1>3, <1>5, <1>6, <1>7, <1>8

LEMMA RestKept ==
  ASSUME OutboxInv, UNCHANGED <<queued, enrolled, received>>
  PROVE  /\ enrolled' \in Generations /\ enrolled <= enrolled'
         /\ received \subseteq received' /\ received' \subseteq 1..Len(queued)
         /\ UNCHANGED session => SessionHeld
         /\ UNCHANGED outbox => OutboxFits'
         /\ UNCHANGED tables => TablesFit'
         /\ outbox' \in OutboxType /\ outbox'.gen = outbox.gen /\ outbox'.next = outbox.next
              => OutboxFits'
<1>1. UNCHANGED outbox => OutboxFits'  BY DEF OutboxInv, OutboxFits
<1>2. UNCHANGED tables => TablesFit'  BY DEF OutboxInv, TablesFit, tables
<1>3. UNCHANGED session => SessionHeld  BY DEF OutboxInv, SessionFits, SessionHeld
<1>4. enrolled \in Nat /\ enrolled \in Generations /\ received \subseteq 1..Len(queued)
  BY OutboxKnown
<1>5. outbox' \in OutboxType /\ outbox'.gen = outbox.gen /\ outbox'.next = outbox.next
        => OutboxFits'
  BY <1>4, SameNumbers
<1> QED  BY <1>1, <1>2, <1>3, <1>4, <1>5

LEMMA Reads ==
  ASSUME OutboxInv, NEW p \in Openers, ReadConnection(p)
  PROVE  QuietStep
<1>1. UNCHANGED <<outbox, queued, tables, session, enrolled, received>>  BY DEF ReadConnection
<1>2. /\ OpenerFits(opener[p], Len(queued), enrolled, received)
      /\ Len(queued) \in Nat /\ enrolled \in Nat /\ enrolled \in 1..MaxGeneration
  BY OutboxKnown DEF Generations
<1>3. PICK o : o = [opener[p] EXCEPT !.at = "opening", !.gen = enrolled]  OBVIOUS
<1>4. opener' = [opener EXCEPT ![p] = o]  BY <1>3 DEF ReadConnection
<1>5. OpenerFits(o, Len(queued), enrolled, received) /\ o.at = "opening"
  <2>1. /\ enrolled \in 0..MaxGeneration /\ enrolled <= enrolled /\ enrolled # 0
    BY <1>2, ObservationsAssumption
  <2>2. o \in OpenerType(Len(queued)) /\ o.at = "opening" /\ o.gen = enrolled
        /\ o.batch = opener[p].batch
    BY <1>2, <1>3, <2>1 DEF OpenerFits, OpenerType, Places
  <2> QED  BY <1>2, <2>1, <2>2 DEF OpenerFits
<1>6. Moves  BY <1>1, <1>4, <1>5 DEF Moves, QuietAt
<1> QED  BY <1>1, <1>6, RestKept DEF QuietStep

LEMMA Starts ==
  ASSUME OutboxInv, NEW p \in Openers, NEW h \in Openers, StartHelper(p, h)
  PROVE  QuietStep
<1>1. UNCHANGED <<outbox, queued, tables, enrolled, received>>  BY DEF StartHelper
<1>2. SessionHeld
  BY DEF StartHelper, OutboxInv, SessionFits, SessionHeld
<1>3. PICK o : o = [Closed EXCEPT !.helper = "loop"]  OBVIOUS
<1>4. opener' = [opener EXCEPT ![h] = o]  BY <1>3 DEF StartHelper
<1>5. OpenerFits(o, Len(queued), enrolled, received) /\ o.at = "closed"
  <2>1. Len(queued) \in Nat /\ enrolled \in Nat  BY OutboxKnown
  <2> QED  BY <1>3, <2>1, ClosedFits DEF Closed
<1>6. Moves  BY <1>1, <1>4, <1>5 DEF Moves, QuietAt
<1> QED  BY <1>1, <1>2, <1>6, RestKept DEF QuietStep

LEMMA Ticks ==
  ASSUME OutboxInv, NEW p \in Openers, Tick(p) \/ Renew(p)
  PROVE  QuietStep
<1>1. UNCHANGED <<outbox, queued, tables, enrolled, received>> /\ opener[p].at # "closed"
  BY DEF Tick, Renew
<1>2. SessionHeld
  BY DEF Tick, Renew, OutboxInv, SessionFits, SessionHeld
<1>3. Moves
  <2>1. CASE opener' = [opener EXCEPT ![p].at = "ticking"]
    <3>1. "ticking" \in Places \ {"answered", "telling"}  BY DEF Places
    <3>2. opener' = [opener EXCEPT ![p] = [opener[p] EXCEPT !.at = "ticking"]]  BY <2>1
    <3> QED  BY <1>1, <3>1, <3>2, MovesFrom, Zenon
  <2>2. CASE Leaves(p) \/ Stays(p)  BY <1>1, <2>2, MovesFrom
  <2> QED  BY <2>1, <2>2 DEF Tick, Renew
<1> QED  BY <1>1, <1>2, <1>3, RestKept DEF QuietStep

LEMMA TellsQuietly ==
  ASSUME OutboxInv, NEW p \in Openers, UNCHANGED <<queued, enrolled, received>>,
         opener[p].at # "closed", NEW say \in {"other"} \cup Beats, NEW act \in 0..MaxActivations,
         opener' = [opener EXCEPT ![p].at = "telling", ![p].say = say, ![p].act = act]
  PROVE  Moves
<1>1. /\ OpenerFits(opener[p], Len(queued), enrolled, received)
      /\ Len(queued) \in Nat /\ enrolled \in Nat
  BY OutboxKnown
<1>2. PICK o : o = [opener[p] EXCEPT !.at = "telling", !.say = say, !.act = act]  OBVIOUS
<1>3. opener' = [opener EXCEPT ![p] = o]  BY <1>2
<1>4. say \in {"start", "stop", "other"} \cup Beats /\ say \notin {"start", "stop"}
  BY DEF Beats
<1>5. OpenerFits(o, Len(queued), enrolled, received)
  BY <1>1, <1>2, <1>4, OpenerTells
<1>6. o.say = say  BY <1>1, <1>2 DEF OpenerFits, OpenerType
<1> QED  BY <1>3, <1>4, <1>5, <1>6 DEF Moves, QuietAt

LEMMA Beating ==
  ASSUME OutboxInv, NEW p \in Openers, TickSends(p) \/ TellOther(p)
  PROVE  QuietStep
<1>1. UNCHANGED <<outbox, queued, tables, session, enrolled, received>> /\ opener[p].at # "closed"
  BY DEF TickSends, TellOther
<1>2. Moves
  <2>1. CASE Leaves(p)  BY <1>1, <2>1, MovesFrom
  <2>2. CASE TellOther(p)
    <3>1. "other" \in {"other"} \cup Beats /\ 0 \in 0..MaxActivations  BY ObservationsAssumption
    <3>2. opener' = [opener EXCEPT ![p].at = "telling", ![p].say = "other", ![p].act = 0]
      BY <2>2 DEF TellOther
    <3> QED  BY <1>1, <3>1, <3>2, TellsQuietly
  <2>3. CASE \E say \in {"beat", "last"} :
          opener' = [opener EXCEPT ![p].at = "telling", ![p].say = say, ![p].act = session.act]
    <3>1. PICK say \in {"beat", "last"} :
            opener' = [opener EXCEPT ![p].at = "telling", ![p].say = say, ![p].act = session.act]
      BY <2>3
    <3>2. say \in {"other"} \cup Beats /\ session.act \in 0..MaxActivations
      BY DEF Beats, OutboxInv, SessionFits
    <3> QED  BY <1>1, <3>1, <3>2, TellsQuietly
  <2> QED  BY <2>1, <2>2, <2>3 DEF TickSends
<1> QED  BY <1>1, <1>2, RestKept DEF QuietStep

LEMMA AfterTellingOpens ==
  ASSUME OutboxInv, NEW p \in Openers, NEW ended \in BOOLEAN, AfterTelling(p, ended),
         opener[p].at = "telling"
  PROVE  /\ SessionHeld
         /\ \E o : /\ opener' = [opener EXCEPT ![p] = o]
                  /\ OpenerFits(o, Len(queued), enrolled, received) /\ o.at # "telling"
<1>1. SessionHeld
  <2>1. session' = [session EXCEPT !.lease = session.lease /\ ~(opener[p].say = "last" \/ ended)]
    BY DEF AfterTelling
  <2> QED  BY <2>1 DEF OutboxInv, SessionFits, SessionHeld
<1>2. \E h \in {"no", "loop", "leaving"} :
        \/ opener' = [opener EXCEPT ![p] = Opened(p, h)]
        \/ opener' = [opener EXCEPT ![p] = [Opened(p, h) EXCEPT !.at = "renewing"]]
  <2>1. OpenerFits(opener[p], Len(queued), enrolled, received)  BY OutboxKnown
  <2>2. opener[p].helper \in {"no", "loop", "leaving"}  BY <2>1 DEF OpenerFits, OpenerType
  <2>3. \/ opener' = [opener EXCEPT ![p] = Opened(p, opener[p].helper)]
        \/ opener' = [opener EXCEPT ![p] = Opened(p, "leaving")]
        \/ opener' = [opener EXCEPT ![p] = [Opened(p, "loop") EXCEPT !.at = "renewing"]]
    BY DEF AfterTelling, Stays, Leaves
  <2> QED  BY <2>2, <2>3
<1>3. PICK h \in {"no", "loop", "leaving"} :
        \/ opener' = [opener EXCEPT ![p] = Opened(p, h)]
        \/ opener' = [opener EXCEPT ![p] = [Opened(p, h) EXCEPT !.at = "renewing"]]
  BY <1>2
<1>4. /\ OpenerFits(Opened(p, h), Len(queued), enrolled, received)
      /\ OpenerFits([Opened(p, h) EXCEPT !.at = "renewing"], Len(queued), enrolled, received)
      /\ Opened(p, h).at # "telling" /\ [Opened(p, h) EXCEPT !.at = "renewing"].at # "telling"
  <2>1. opener[p].at # "closed"  OBVIOUS
  <2>2. Opened(p, h).at # "telling" /\ [Opened(p, h) EXCEPT !.at = "renewing"].at # "telling"
    BY DEF Opened, Closed
  <2> QED  BY <2>1, <2>2, OpenedFits
<1> QED  BY <1>1, <1>3, <1>4, Zenon

LEMMA Refusals ==
  ASSUME OutboxInv, NEW p \in Openers, EnqueueRefuses(p)
  PROVE  QuietStep
<1>1. UNCHANGED <<queued, tables, enrolled, received>> /\ opener[p].at = "telling"
  BY DEF EnqueueRefuses
<1>2. \E ended \in BOOLEAN : AfterTelling(p, ended)  BY DEF EnqueueRefuses
<1>3. /\ SessionHeld
      /\ \E o : /\ opener' = [opener EXCEPT ![p] = o]
               /\ OpenerFits(o, Len(queued), enrolled, received) /\ o.at # "telling"
  BY <1>1, <1>2, AfterTellingOpens, Zenon
<1>5. Moves  BY <1>1, <1>3 DEF Moves, QuietAt
<1>4. outbox' \in OutboxType /\ outbox'.gen = outbox.gen /\ outbox'.next = outbox.next
  BY OutboxKnown DEF EnqueueRefuses, OutboxType
<1> QED  BY <1>1, <1>3, <1>4, <1>5, RestKept DEF QuietStep

LEMMA Ending ==
  ASSUME OutboxInv, NEW p \in Openers, Ends(p)
  PROVE  QuietStep
<1>1. UNCHANGED <<outbox, queued, tables, session, enrolled, received>>
  BY DEF Ends
<1>2. Len(queued) \in Nat /\ enrolled \in Nat  BY OutboxKnown
<1>3. OpenerFits(Closed, Len(queued), enrolled, received) /\ Closed.at = "closed"
  BY <1>2, ClosedFits DEF Closed
<1>4. Moves  BY <1>1, <1>3 DEF Moves, QuietAt, Ends, Closes
<1> QED  BY <1>1, <1>4, RestKept DEF QuietStep

-----------------------------------------------------------------------------
(* Binding and uploading.                                                  *)

LEMMA Binds ==
  ASSUME OutboxInv, NEW p \in Openers, Bind(p)
  PROVE  QuietStep
<1>1. UNCHANGED <<queued, session, enrolled, received>> /\ opener[p].at = "opening"
  BY DEF Bind
<1>2. Moves
  <2>1. Closes(p) \/ Stays(p)  BY DEF Bind
  <2> QED  BY <1>1, <2>1, MovesFrom DEF Closes
<1>3. OutboxFits' /\ TablesFit'
  <2> DEFINE gen == opener[p].gen
  <2>1. CASE UNCHANGED <<outbox, tables>>  BY <1>1, <2>1, RestKept
  <2>2. CASE ~UNCHANGED <<outbox, tables>>
    <3>1. /\ ~(gen < outbox.gen) /\ gen # outbox.gen
          /\ outbox' = [outbox EXCEPT !.gen = gen, !.next = 1, !.backoff = FALSE,
                          !.capability = IF @ = "blocked" THEN "active" ELSE @]
          /\ Refused({i \in pending : queued[i].gen < gen})
      BY <2>2, Zenon DEF Bind, Older
    <3>2. /\ gen \in 0..MaxGeneration /\ gen <= enrolled /\ outbox \in OutboxType
          /\ outbox.gen \in Nat /\ queued \in Seq(Observation) /\ Len(queued) \in Nat
      BY OutboxKnown DEF OpenerFits, OpenerType, OutboxType, OutboxInv, QueuedFits
    <3>3. outbox.gen < gen /\ gen \in Nat  BY <3>1, <3>2
    <3>4. TablesFit'  BY <1>1, <3>1, RefusedTables
    <3>5. outbox' \in OutboxType /\ outbox'.gen = gen /\ outbox'.next = 1
      <4>1. gen \in 0..MaxGeneration /\ 1 \in 1..(MaxQueued + 1) /\ outbox \in OutboxType
        BY <3>2, ObservationsAssumption
      <4> HIDE DEF gen
      <4> QED  BY <3>1, <4>1 DEF OutboxType
    <3>6. \A i \in DOMAIN queued : queued[i].gen <= gen /\ queued[i].gen # gen
      <4>1. \A i \in DOMAIN queued : queued[i] \in Observation  BY <3>2
      <4>2. \A o \in Observation : o.gen \in Nat  BY DEF Observation, Generations
      <4>3. \A i \in DOMAIN queued : queued[i].gen <= outbox.gen  BY DEF OutboxInv, OutboxFits
      <4> QED  BY <3>2, <3>3, <4>1, <4>2, <4>3
    <3>7. OfGeneration(queued, gen) = {}  BY <3>6 DEF OfGeneration
    <3>8. Cardinality(OfGeneration(queued, gen)) = 0  BY <3>7, FS_EmptySet
    <3>9. OutboxFits'  BY <1>1, <3>2, <3>5, <3>6, <3>8 DEF OutboxFits, OfGeneration
    <3> QED  BY <3>4, <3>9
  <2> QED  BY <2>1, <2>2
<1> QED  BY <1>1, <1>2, <1>3, RestKept DEF QuietStep

LEMMA TakesBatch ==
  ASSUME OutboxInv, NEW p \in Openers, TakeBatch(p)
  PROVE  QuietStep
<1>1. /\ UNCHANGED <<outbox, queued, pending, terminal, trimmed, session, enrolled, received>>
      /\ opener[p].at = "open"
  BY DEF TakeBatch
<1> DEFINE ids == {i \in due : queued[i].gen = outbox.gen}
           rows == InOrder(ids)
           upto == IF Len(rows) < outbox.limit THEN Len(rows) ELSE outbox.limit
           taken == SubSeq(rows, 1, upto)
<1>2. /\ due' = due \ ToSet(taken)
      /\ opener' = [opener EXCEPT ![p].at = "sending", ![p].batch = taken]
  BY DEF TakeBatch
<1>3. /\ rows \in Seq(1..Len(queued)) /\ Len(rows) \in Nat
      /\ outbox.limit \in 1..BatchItems /\ BatchItems \in Nat
  <2>1. queued \in Seq(Observation)  BY DEF OutboxInv, QueuedFits
  <2>2. rows \in Seq(1..Len(queued))  BY <2>1, InOrderCorrect, Zenon
  <2>3. outbox.limit \in 1..BatchItems  BY OutboxKnown DEF OutboxType
  <2> QED  BY <2>2, <2>3, ObservationsAssumption
<1> HIDE DEF rows
<1>4. upto \in 0..Len(rows) /\ upto <= BatchItems /\ 1 <= upto + 1  BY <1>3
<1> HIDE DEF upto
<1>5. taken \in Seq(1..Len(queued)) /\ Len(taken) <= BatchItems
  <2>1. taken \in Seq(1..Len(queued)) /\ Len(taken) = upto - 1 + 1
    BY <1>3, <1>4, Piece
  <2> QED  BY <1>3, <1>4, <2>1
<1> HIDE DEF taken
<1>6. TablesFit'
  <2>1. due' \subseteq pending'  BY <1>1, <1>2 DEF OutboxInv, TablesFit
  <2> QED  BY <1>1, <2>1, SameTables
<1>7. Moves
  <2>1. OpenerFits(opener[p], Len(queued), enrolled, received)  BY OutboxKnown
  <2>2. PICK o : o = [opener[p] EXCEPT !.at = "sending", !.batch = taken]  OBVIOUS
  <2>3. opener' = [opener EXCEPT ![p] = o]  BY <1>2, <2>2
  <2>4. o \in OpenerType(Len(queued)) /\ o.at = "sending" /\ o.batch = taken /\ o.gen = opener[p].gen
    BY <1>5, <2>1, <2>2 DEF OpenerFits, OpenerType, Places
  <2>5. OpenerFits(o, Len(queued), enrolled, received)
    BY <1>1, <1>5, <2>1, <2>4 DEF OpenerFits
  <2> QED  BY <1>1, <2>3, <2>4, <2>5 DEF Moves, QuietAt
<1> QED  BY <1>1, <1>6, <1>7, RestKept DEF QuietStep

LEMMA Receives ==
  ASSUME OutboxInv, NEW p \in Openers, WorkspaceReceives(p)
  PROVE  QuietStep
<1>1. UNCHANGED <<outbox, queued, tables, session, enrolled>> /\ opener[p].at = "sending"
  BY DEF WorkspaceReceives
<1>2. PICK answer \in [DOMAIN opener[p].batch -> Answers] :
        /\ received' = received \cup
             {opener[p].batch[n] : n \in {k \in DOMAIN answer : answer[k] = "held"}}
        /\ opener' = [opener EXCEPT ![p].at = "answered", ![p].answer = answer]
  BY DEF WorkspaceReceives, Answers
<1>3. /\ OpenerFits(opener[p], Len(queued), enrolled, received)
      /\ Len(queued) \in Nat /\ enrolled \in Generations /\ enrolled \in Nat
      /\ received \subseteq 1..Len(queued)
  BY OutboxKnown
<1>4. opener[p].batch \in Seq(1..Len(queued)) /\ Len(opener[p].batch) \in Nat
      /\ DOMAIN opener[p].batch = 1..Len(opener[p].batch)
  BY <1>3 DEF OpenerFits, OpenerType
<1>5. answer \in Seq(Answers) /\ DOMAIN answer = DOMAIN opener[p].batch
  <2>1. PICK n \in Nat : n = Len(opener[p].batch)  BY <1>4
  <2>2. answer \in [1..n -> Answers]  BY <1>4, <2>1
  <2>3. answer \in Seq(Answers)  BY <2>2
  <2> QED  BY <2>3
<1>6. received \subseteq received' /\ received' \subseteq 1..Len(queued)
  BY <1>2, <1>3, <1>4, <1>5
<1>7. Moves
  <2>1. PICK o : o = [opener[p] EXCEPT !.at = "answered", !.answer = answer]  OBVIOUS
  <2>2. opener' = [opener EXCEPT ![p] = o]  BY <1>2, <2>1
  <2>3. /\ o \in OpenerType(Len(queued)) /\ o.at = "answered" /\ o.answer = answer
        /\ o.batch = opener[p].batch /\ o.gen = opener[p].gen
    BY <1>3, <1>5, <2>1 DEF OpenerFits, OpenerType, Places
  <2>4. \A k \in DOMAIN answer : answer[k] = "held" => opener[p].batch[k] \in received'
    BY <1>2
  <2>5. OpenerFits(o, Len(queued), enrolled, received')
    BY <1>1, <1>3, <2>3, <2>4 DEF OpenerFits
  <2> QED  BY <1>1, <2>2, <2>3, <2>5 DEF Moves, QuietAt
<1>8. TablesFit'
  <2>1. due \subseteq pending  BY DEF OutboxInv, TablesFit
  <2> QED  BY <1>1, <1>6, <2>1, SameTables DEF tables
<1>9. OutboxFits' /\ SessionHeld
  BY <1>1 DEF OutboxInv, OutboxFits, SessionFits, SessionHeld
<1> QED  BY <1>1, <1>3, <1>6, <1>7, <1>8, <1>9 DEF QuietStep

LEMMA Fails ==
  ASSUME OutboxInv, NEW p \in Openers, SendFails(p)
  PROVE  QuietStep
<1>1. /\ UNCHANGED <<queued, pending, terminal, trimmed, session, enrolled, received>>
      /\ opener[p].at # "closed" /\ Stays(p)
      /\ outbox' = [outbox EXCEPT !.backoff = TRUE] /\ due' \subseteq due
  BY DEF SendFails
<1>2. outbox' \in OutboxType /\ outbox'.gen = outbox.gen /\ outbox'.next = outbox.next
  BY <1>1, OutboxKnown DEF OutboxType
<1>3. TablesFit'
  <2>1. due' \subseteq pending'  BY <1>1 DEF OutboxInv, TablesFit
  <2> QED  BY <1>1, <2>1, SameTables
<1>4. Moves  BY <1>1, MovesFrom
<1> QED  BY <1>1, <1>2, <1>3, <1>4, RestKept DEF QuietStep

LEMMA Half ==
  ASSUME NEW n \in Nat, n > 1, NEW m \in Nat, n <= m
  PROVE  n \div 2 \in 1..m
OBVIOUS

LEMMA Refuses ==
  ASSUME OutboxInv, NEW p \in Openers, BatchRefused(p)
  PROVE  QuietStep
<1>1. /\ UNCHANGED <<queued, session, enrolled, received>>
      /\ opener[p].at # "closed" /\ Stays(p)
  BY DEF BatchRefused
<1>2. Moves  BY <1>1, MovesFrom
<1>3. TablesFit'
  <2>1. CASE GivenBack(ToSet(opener[p].batch))
    <3>1. UNCHANGED <<pending, terminal, trimmed>> /\ due' \subseteq pending'
      BY <2>1 DEF GivenBack, OutboxInv, TablesFit
    <3> QED  BY <1>1, <3>1, SameTables
  <2>2. CASE Refused(ToSet(opener[p].batch))  BY <1>1, <2>2, RefusedTables
  <2> QED  BY <2>1, <2>2 DEF BatchRefused
<1>4. outbox' \in OutboxType /\ outbox'.gen = outbox.gen /\ outbox'.next = outbox.next
  <2>1. outbox \in OutboxType /\ OpenerFits(opener[p], Len(queued), enrolled, received)
    BY OutboxKnown
  <2>2. CASE UNCHANGED outbox  BY <2>1, <2>2
  <2>3. CASE outbox' = [outbox EXCEPT !.backoff = TRUE]  BY <2>1, <2>3 DEF OutboxType
  <2>4. CASE outbox' = [outbox EXCEPT !.capability = "unsupported"]
    BY <2>1, <2>4 DEF OutboxType
  <2>5. CASE /\ Len(opener[p].batch) > 1
             /\ outbox' = [outbox EXCEPT !.limit = Len(opener[p].batch) \div 2]
    <3>1. Len(opener[p].batch) \in Nat /\ Len(opener[p].batch) <= BatchItems /\ BatchItems \in Nat
      BY <2>1, ObservationsAssumption DEF OpenerFits, OpenerType
    <3>2. Len(opener[p].batch) \div 2 \in 1..BatchItems
      <4>1. Len(opener[p].batch) > 1  BY <2>5
      <4> QED  BY <3>1, <4>1, Half, Zenon
    <3> QED  BY <2>1, <2>5, <3>2 DEF OutboxType
  <2> QED  BY <2>2, <2>3, <2>4, <2>5 DEF BatchRefused
<1> QED  BY <1>1, <1>2, <1>3, <1>4, RestKept DEF QuietStep

(* What is acknowledged is held by the workspace.                          *)
LEMMA Acknowledges ==
  ASSUME OutboxInv, NEW p \in Openers, TakeAcknowledged(p)
  PROVE  QuietStep
<1>1. /\ UNCHANGED <<outbox, queued, terminal, trimmed, session, enrolled, received>>
      /\ opener[p].at = "answered"
      /\ pending' = pending \ Acknowledged(p) /\ due' = due \ Acknowledged(p)
      /\ opener' = [opener EXCEPT ![p].at = "acknowledged"]
  BY DEF TakeAcknowledged
<1>2. Moves
  <2>1. "acknowledged" \in Places \ {"answered", "telling"}  BY DEF Places
  <2>2. opener' = [opener EXCEPT ![p] = [opener[p] EXCEPT !.at = "acknowledged"]]  BY <1>1
  <2> QED  BY <1>1, <2>1, <2>2, MovesFrom, Zenon
<1>3. Acknowledged(p) \subseteq received
  <2>1. \A k \in DOMAIN opener[p].answer :
          opener[p].answer[k] = "held" => opener[p].batch[k] \in received
    BY <1>1, OutboxKnown DEF OpenerFits
  <2> QED  BY <2>1 DEF Acknowledged, AnsweredWith
<1>4. TablesFit'
  <2>1. /\ due' \subseteq pending' /\ pending' \subseteq pending
        /\ pending \ pending' \subseteq received'
    BY <1>1, <1>3 DEF OutboxInv, TablesFit
  <2> QED  BY <1>1, <2>1, SameTables
<1> QED  BY <1>1, <1>2, <1>4, RestKept DEF QuietStep

LEMMA Rejects ==
  ASSUME OutboxInv, NEW p \in Openers, TakeRejected(p) \/ RejectAll(p)
  PROVE  QuietStep
<1>1. /\ UNCHANGED <<outbox, queued, session, enrolled, received>> /\ opener[p].at # "closed"
      /\ \E ids : Refused(ids)
      /\ \/ opener' = [opener EXCEPT ![p].at = "rejected"]
         \/ opener' = [opener EXCEPT ![p].at = "blocking"]
  BY DEF TakeRejected, RejectAll
<1>2. PICK at \in {"rejected", "blocking"} : opener' = [opener EXCEPT ![p] = [opener[p] EXCEPT !.at = at]]
  BY <1>1
<1>3. at \in Places \ {"answered", "telling"}  BY DEF Places
<1>4. Moves  BY <1>1, <1>2, <1>3, MovesFrom, Zenon
<1>5. TablesFit'  BY <1>1, RefusedTables
<1> QED  BY <1>1, <1>4, <1>5, RestKept DEF QuietStep

LEMMA Defers ==
  ASSUME OutboxInv, NEW p \in Openers, TakeDeferred(p)
  PROVE  QuietStep
<1> DEFINE deferred == AnsweredWith(p, {"deferred", "none"})
<1>1. /\ UNCHANGED <<queued, pending, terminal, trimmed, session, enrolled, received>>
      /\ opener[p].at # "closed" /\ due' \subseteq due
      /\ outbox' = [outbox EXCEPT !.backoff = outbox.backoff \/ deferred # {}]
      /\ Stays(p) \/ opener' = [opener EXCEPT ![p].at = "stale"]
  BY DEF TakeDeferred
<1> HIDE DEF deferred
<1>2. Moves
  <2>1. CASE Stays(p)  BY <1>1, <2>1, MovesFrom
  <2>2. CASE opener' = [opener EXCEPT ![p].at = "stale"]
    <3>1. "stale" \in Places \ {"answered", "telling"}  BY DEF Places
    <3>2. opener' = [opener EXCEPT ![p] = [opener[p] EXCEPT !.at = "stale"]]  BY <2>2
    <3> QED  BY <1>1, <3>1, <3>2, MovesFrom, Zenon
  <2> QED  BY <1>1, <2>1, <2>2
<1>3. outbox' \in OutboxType /\ outbox'.gen = outbox.gen /\ outbox'.next = outbox.next
  BY <1>1, OutboxKnown DEF OutboxType
<1>4. TablesFit'
  <2>1. due' \subseteq pending'  BY <1>1 DEF OutboxInv, TablesFit
  <2> QED  BY <1>1, <2>1, SameTables
<1> QED  BY <1>1, <1>2, <1>3, <1>4, RestKept DEF QuietStep

LEMMA Blocks ==
  ASSUME OutboxInv, NEW p \in Openers, BlockUploads(p) \/ Retry(p)
  PROVE  QuietStep
<1>1. UNCHANGED <<queued, tables, session, enrolled, received>>
  BY DEF BlockUploads, Retry
<1>2. Moves \/ opener' = opener
  <2>1. CASE BlockUploads(p)
    <3>1. opener[p].at # "closed" /\ Stays(p)  BY <2>1 DEF BlockUploads
    <3> QED  BY <1>1, <3>1, MovesFrom
  <2>2. CASE Retry(p)  BY <2>2 DEF Retry
  <2> QED  BY <2>1, <2>2
<1>3. outbox' \in OutboxType /\ outbox'.gen = outbox.gen /\ outbox'.next = outbox.next
  BY OutboxKnown DEF OutboxType, BlockUploads, Retry
<1> QED  BY <1>1, <1>2, <1>3, RestKept DEF QuietStep

LEMMA Enrols ==
  ASSUME OutboxInv, Enrol
  PROVE  QuietStep
<1>1. /\ UNCHANGED <<outbox, queued, tables, session, opener, received>>
      /\ enrolled < MaxGeneration /\ enrolled' = enrolled + 1
  BY DEF Enrol
<1>2. enrolled \in 1..MaxGeneration /\ received \subseteq 1..Len(queued)
  BY OutboxKnown DEF Generations
<1>3. enrolled' \in Generations /\ enrolled <= enrolled' /\ enrolled' \in Nat
  BY <1>1, <1>2, ObservationsAssumption DEF Generations
<1>4. OutboxFits'
  BY <1>1, <1>3, OutboxKnown, SameNumbers
<1>5. TablesFit' /\ SessionHeld
  BY <1>1 DEF OutboxInv, TablesFit, SessionFits, SessionHeld, tables
<1> QED  BY <1>1, <1>2, <1>3, <1>4, <1>5 DEF QuietStep

LEMMA Waits ==
  ASSUME OutboxInv, WaitsEnd
  PROVE  QuietStep
<1>1. UNCHANGED <<queued, pending, terminal, trimmed, opener, enrolled, received>>
  BY DEF WaitsEnd
<1>2. due' \subseteq pending  BY DEF WaitsEnd, OutboxInv, TablesFit
<1>3. TablesFit'  BY <1>1, <1>2, SameTables
<1>4. SessionHeld  BY DEF WaitsEnd, OutboxInv, SessionFits, SessionHeld
<1>5. outbox' \in OutboxType /\ outbox'.gen = outbox.gen /\ outbox'.next = outbox.next
  BY OutboxKnown DEF OutboxType, WaitsEnd
<1> QED  BY <1>1, <1>3, <1>4, <1>5, RestKept DEF QuietStep

-----------------------------------------------------------------------------
(* Steps that begin to tell of a start or a stop.                          *)

LEMMA TellsChange ==
  ASSUME OutboxInv, NEW p \in Openers, UNCHANGED <<outbox, queued, tables, enrolled, received>>,
         opener[p].at # "closed", NEW say \in {"start", "stop"}, NEW act \in 0..MaxActivations,
         opener' = [opener EXCEPT ![p].at = "telling", ![p].say = say, ![p].act = act],
         SessionFits'
  PROVE  OutboxInv'
<1>1. /\ OpenerFits(opener[p], Len(queued), enrolled, received)
      /\ Len(queued) \in Nat /\ enrolled \in Nat
  BY OutboxKnown
<1>2. PICK o : o = [opener[p] EXCEPT !.at = "telling", !.say = say, !.act = act]  OBVIOUS
<1>3. opener' = [opener EXCEPT ![p] = o]  BY <1>2
<1>4. say \in {"start", "stop", "other"} \cup Beats  OBVIOUS
<1>5. OpenerFits(o, Len(queued), enrolled, received)  BY <1>1, <1>2, <1>4, OpenerTells
<1>6. OpenersFit'
  <2>1. /\ Len(queued') \in Nat /\ Len(queued) <= Len(queued')
        /\ enrolled' \in Nat /\ enrolled <= enrolled' /\ received \subseteq received'
        /\ OpenerFits(o, Len(queued'), enrolled', received')
    BY <1>1, <1>5
  <2> QED  BY <1>3, <2>1, SetOpener, Zenon
<1>7. QueuedFits'
  <2>1. queued' = queued /\ enrolled' \in Generations /\ received' \subseteq 1..Len(queued)
    BY OutboxKnown
  <2> QED  BY <2>1, SameQueued
<1> QED  BY <1>6, <1>7, RestKept DEF OutboxInv

LEMMA StartsSession ==
  ASSUME OutboxInv, NEW p \in Openers, StartSession(p)
  PROVE  OutboxInv'
<1>1. /\ session \in [state : {"none", "active", "stopped"}, act : 0..MaxActivations,
                      lease : BOOLEAN]
      /\ MaxActivations \in Nat
  BY ObservationsAssumption DEF OutboxInv, SessionFits
<1>2. session.act + 1 \in 0..MaxActivations  BY <1>1 DEF StartSession
<1>3. SessionFits'  BY <1>2 DEF StartSession, SessionFits
<1> QED  BY <1>2, <1>3, TellsChange DEF StartSession

LEMMA EndsSession ==
  ASSUME OutboxInv, NEW p \in Openers, EndSession(p)
  PROVE  OutboxInv'
<1>1. session.act \in 0..MaxActivations  BY DEF OutboxInv, SessionFits
<1>2. SessionFits'  BY DEF OutboxInv, SessionFits, EndSession
<1>3. /\ UNCHANGED <<outbox, queued, tables, enrolled, received>> /\ opener[p].at # "closed"
      /\ opener' = [opener EXCEPT ![p].at = "telling", ![p].say = "stop", ![p].act = session.act]
  BY DEF EndSession
<1> QED  BY <1>1, <1>2, <1>3, TellsChange

-----------------------------------------------------------------------------
(* The number and the row are one transaction.                             *)

Row(p) == [gen |-> opener[p].gen, seq |-> outbox.next,
           kind |-> IF opener[p].say \in Beats THEN "beat" ELSE opener[p].say,
           act |-> IF opener[p].say \in Beats THEN session.act ELSE opener[p].act]

LEMMA RowType ==
  ASSUME OutboxInv, NEW p \in Openers, Enqueue(p)
  PROVE  /\ Row(p) \in Observation
         /\ queued' = Append(queued, Row(p))
         /\ Row(p).gen = outbox.gen /\ Row(p).seq = outbox.next
         /\ Len(queued) < MaxQueued
<1>1. OpenerFits(opener[p], Len(queued), enrolled, received) /\ outbox \in OutboxType
  BY OutboxKnown
<1>2. opener[p].gen \in 1..MaxGeneration
  BY <1>1, ObservationsAssumption DEF OpenerFits, OpenerType, Enqueue
<1>3. outbox.next \in 1..MaxQueued
  <2>1. Len(queued) \in Nat /\ Len(queued) < MaxQueued /\ MaxQueued \in Nat
    BY OutboxKnown, ObservationsAssumption DEF Enqueue
  <2>2. OfGeneration(queued, outbox.gen) \in SUBSET (1..Len(queued))
    BY OutboxKnown DEF OfGeneration
  <2>3. /\ Cardinality(OfGeneration(queued, outbox.gen)) \in Nat
        /\ Cardinality(OfGeneration(queued, outbox.gen)) <= Len(queued)
    BY <2>1, <2>2, SomeNumbers, Zenon
  <2>4. outbox.next = 1 + Cardinality(OfGeneration(queued, outbox.gen))
    BY DEF OutboxInv, OutboxFits
  <2> QED  BY <2>1, <2>3, <2>4
<1>4. session.act \in 0..MaxActivations /\ opener[p].act \in 0..MaxActivations
  BY <1>1 DEF OutboxInv, SessionFits, OpenerFits, OpenerType
<1>5. /\ opener[p].say \in {"none", "start", "stop", "other"} \cup Beats
      /\ opener[p].say # "none"
  BY <1>1 DEF OpenerFits, OpenerType, Enqueue
<1>6. Row(p) \in Observation
  BY <1>2, <1>3, <1>4, <1>5 DEF Row, Observation, Generations
<1>7. /\ queued' = Append(queued, Row(p)) /\ outbox.gen = opener[p].gen
      /\ Len(queued) < MaxQueued
  BY DEF Enqueue, Accepts, Row
<1> QED  BY <1>6, <1>7 DEF Row

LEMMA EnqueueFits ==
  ASSUME OutboxInv, NEW p \in Openers, Enqueue(p)
  PROVE  OutboxInv'
<1>0. PICK row : row = Row(p)  OBVIOUS
<1>1. /\ row \in Observation /\ queued' = Append(queued, row)
      /\ row.gen = outbox.gen /\ row.seq = outbox.next /\ Len(queued) < MaxQueued
  BY <1>0, RowType
<1>2. PICK n \in Nat : n = Len(queued)  BY OutboxKnown
<1>3. /\ queued \in Seq(Observation) /\ MaxQueued \in Nat /\ DOMAIN queued = 1..n
      /\ received \subseteq 1..n
  BY <1>2, OutboxKnown, ObservationsAssumption DEF OutboxInv, QueuedFits
<1>4. /\ queued' \in Seq(Observation) /\ Len(queued') = n + 1 /\ DOMAIN queued' = 1..(n + 1)
      /\ \A i \in 1..n : queued'[i] = queued[i]
      /\ queued'[n + 1] = row
  BY <1>1, <1>2, <1>3
<1>5. /\ 1..(n + 1) = 1..n \cup {n + 1} /\ n + 1 \notin 1..n
  OBVIOUS
<1>6. UNCHANGED <<terminal, trimmed, enrolled, received>> /\ opener[p].at = "telling"
  BY DEF Enqueue
<1>7. /\ SessionHeld
      /\ \E o : /\ opener' = [opener EXCEPT ![p] = o]
               /\ OpenerFits(o, Len(queued), enrolled, received)
  BY <1>6, AfterTellingOpens DEF Enqueue
<1>8. OpenersFit'
  <2>1. PICK o : /\ opener' = [opener EXCEPT ![p] = o]
                 /\ OpenerFits(o, Len(queued), enrolled, received)
    BY <1>7
  <2>2. /\ Len(queued') \in Nat /\ Len(queued) <= Len(queued') /\ enrolled' = enrolled
        /\ enrolled \in Nat /\ enrolled <= enrolled /\ received' = received
    BY <1>2, <1>4, <1>6, OutboxKnown
  <2>3. OpenerFits(o, Len(queued'), enrolled, received)
    BY <1>2, <2>1, <2>2, OpenerGrows
  <2> QED  BY <2>1, <2>2, <2>3, SetOpener
<1>9. /\ OfGeneration(queued', outbox.gen) = OfGeneration(queued, outbox.gen) \cup {n + 1}
      /\ n + 1 \notin OfGeneration(queued, outbox.gen)
  BY <1>1, <1>3, <1>4, <1>5 DEF OfGeneration
<1>10. /\ Cardinality(OfGeneration(queued, outbox.gen)) \in Nat
       /\ Cardinality(OfGeneration(queued, outbox.gen)) <= n
       /\ Cardinality(OfGeneration(queued', outbox.gen))
            = Cardinality(OfGeneration(queued, outbox.gen)) + 1
  <2>1. OfGeneration(queued, outbox.gen) \in SUBSET (1..n)  BY <1>3 DEF OfGeneration
  <2>2. /\ IsFiniteSet(OfGeneration(queued, outbox.gen))
        /\ Cardinality(OfGeneration(queued, outbox.gen)) \in Nat
        /\ Cardinality(OfGeneration(queued, outbox.gen)) <= n
    BY <2>1, SomeNumbers, Zenon
  <2> QED  BY <1>9, <2>2, FS_AddElement
<1>11. outbox.next = 1 + Cardinality(OfGeneration(queued, outbox.gen))
  BY DEF OutboxInv, OutboxFits
<1>12. OutboxFits'
  <2>1. outbox \in OutboxType /\ outbox.gen <= enrolled  BY DEF OutboxInv, OutboxFits
  <2>2. outbox' = [outbox EXCEPT !.next = outbox.next + 1, !.capability = "active",
                     !.backoff = outbox.backoff /\ outbox.capability = "active"]
    BY DEF Enqueue
  <2>3. outbox.next + 1 \in 1..(MaxQueued + 1)  BY <1>1, <1>2, <1>3, <1>10, <1>11
  <2>4. outbox' \in OutboxType /\ outbox'.gen = outbox.gen /\ outbox'.next = outbox.next + 1
    BY <2>1, <2>2, <2>3 DEF OutboxType
  <2>5. \A i \in DOMAIN queued' : queued'[i].gen <= outbox.gen
    <3>1. outbox.gen \in Nat  BY <2>1 DEF OutboxType
    <3>2. \A i \in 1..n : queued[i].gen <= outbox.gen  BY <1>3 DEF OutboxInv, OutboxFits
    <3> QED  BY <1>1, <1>4, <1>5, <3>1, <3>2
  <2>6. outbox'.next = 1 + Cardinality(OfGeneration(queued', outbox.gen))
    BY <1>10, <1>11, <2>4
  <2> QED  BY <1>6, <2>1, <2>4, <2>5, <2>6 DEF OutboxFits
<1>13. TablesFit'
  <2>1. /\ pending' = pending \cup {n + 1} /\ due' = due \cup {n + 1}
        /\ Cardinality(pending) < MaxPending
    BY <1>2, <1>4 DEF Enqueue
  <2>2. /\ due \subseteq pending /\ pending \subseteq 1..n
        /\ terminal \in Seq(1..n) /\ Len(terminal) <= MaxTerminal /\ trimmed \in Nat
        /\ trimmed + Len(terminal) + Cardinality(pending) <= n
        /\ Cardinality(Gone(n, pending, received, terminal)) <= trimmed
    BY <1>2 DEF OutboxInv, TablesFit
  <2>3. /\ Cardinality(pending) \in Nat /\ Cardinality(pending') = Cardinality(pending) + 1
    <3>1. n + 1 \notin pending  BY <1>5, <2>2
    <3> QED  BY <2>1, <3>1, PendingFinite, FS_AddElement
  <2>4. Len(terminal) \in Nat  BY <2>2
  <2>5. /\ Cardinality(pending') <= MaxPending
        /\ trimmed + Len(terminal) + Cardinality(pending') <= n + 1
    BY <2>1, <2>2, <2>3, <2>4, ObservationsAssumption
  <2>6. terminal \in Seq(1..(n + 1))  BY <1>5, <2>2
  <2>7. Gone(n + 1, pending', received, terminal) = Gone(n, pending, received, terminal)
    BY <1>3, <1>5, <2>1, <2>2 DEF Gone, ToSet
  <2>8. due' \subseteq pending' /\ pending' \subseteq 1..(n + 1)  BY <1>5, <2>1, <2>2
  <2> QED  BY <1>4, <1>6, <2>2, <2>5, <2>6, <2>7, <2>8 DEF TablesFit
<1>14. NumberedWithoutGaps'
  <2>1. ASSUME NEW i \in 1..n
        PROVE queued'[i].seq
                = 1 + Cardinality({j \in 1..(i - 1) : queued'[j].gen = queued'[i].gen})
    <3>1. queued[i].seq = 1 + Cardinality({j \in 1..(i - 1) : queued[j].gen = queued[i].gen})
      BY <1>3 DEF OutboxInv, QueuedFits, NumberedWithoutGaps
    <3>2. \A j \in 1..(i - 1) : j \in 1..n  OBVIOUS
    <3>3. {j \in 1..(i - 1) : queued[j].gen = queued[i].gen}
            = {j \in 1..(i - 1) : queued'[j].gen = queued'[i].gen}
      BY <1>4, <3>2
    <3> QED  BY <1>4, <3>1, <3>3
  <2>2. queued'[n + 1].seq
          = 1 + Cardinality({j \in 1..(n + 1 - 1) : queued'[j].gen = queued'[n + 1].gen})
    <3>1. n + 1 - 1 = n  OBVIOUS
    <3>2. {j \in 1..n : queued'[j].gen = queued'[n + 1].gen} = OfGeneration(queued, outbox.gen)
      BY <1>1, <1>3, <1>4 DEF OfGeneration
    <3> QED  BY <1>1, <1>4, <1>11, <3>1, <3>2
  <2>3. \A i \in DOMAIN queued' : i \in 1..n \/ i = n + 1  BY <1>4, <1>5
  <2>4. \A i \in DOMAIN queued' :
          queued'[i].seq = 1 + Cardinality({j \in 1..(i - 1) : queued'[j].gen = queued'[i].gen})
    <3> TAKE i \in DOMAIN queued'
    <3>1. CASE i \in 1..n  BY <2>1, <3>1, Zenon
    <3>2. CASE i = n + 1  BY <2>2, <3>2
    <3> QED  BY <2>3, <3>1, <3>2, Zenon
  <2> QED  BY <2>4, Zenon DEF NumberedWithoutGaps
<1>15. QueuedFits'
  <2>1. received' \subseteq 1..Len(queued') /\ enrolled' \in Generations
        /\ Len(queued') <= MaxQueued
    BY <1>1, <1>2, <1>3, <1>4, <1>5, <1>6, OutboxKnown
  <2> QED  BY <1>4, <1>14, <2>1 DEF QueuedFits
<1> QED  BY <1>7, <1>8, <1>12, <1>13, <1>15 DEF OutboxInv, SessionHeld

-----------------------------------------------------------------------------
(* One start and one stop are told of an activation.                       *)

Telling(p, k) == opener[p].at = "telling" /\ opener[p].say = k

(* The stop of an activation that is over.                                 *)
Over(a) == a < session.act \/ session.state = "stopped"

TellerAlone(p, k) ==
  /\ opener[p].act \in 1..session.act
  /\ k = "stop" => Over(opener[p].act)
  /\ \A q \in Openers : Telling(q, k) /\ opener[q].act = opener[p].act => q = p
  /\ \A i \in DOMAIN queued : queued[i].kind = k => queued[i].act # opener[p].act

TellsOnce ==
  /\ session.state = "none" <=> session.act = 0
  /\ \A p \in Openers, k \in {"start", "stop"} : Telling(p, k) => TellerAlone(p, k)
  /\ \A i \in DOMAIN queued :
       /\ queued[i].kind \in {"start", "stop"} => queued[i].act <= session.act
       /\ queued[i].kind = "stop" => Over(queued[i].act)

SessionInv == OutboxInv /\ TellsOnce /\ SessionToldInOrder

(* Nobody tells of a start or a stop who did not before.                   *)
NobodyNew ==
  \A q \in Openers, k \in {"start", "stop"} : Telling(q, k)' => Telling(q, k) /\ opener'[q] = opener[q]

LEMMA ActsKnown ==
  ASSUME OutboxInv
  PROVE  session.act \in Nat /\ \A i \in DOMAIN queued : queued[i].act \in Nat
<1>1. session.act \in Nat  BY DEF OutboxInv, SessionFits
<1>2. \A i \in DOMAIN queued : queued[i] \in Observation  BY DEF OutboxInv, QueuedFits
<1>3. \A o \in Observation : o.act \in Nat  BY DEF Observation
<1> QED  BY <1>1, <1>2, <1>3

LEMMA QuietTells ==
  ASSUME OutboxInv, Moves \/ opener' = opener
  PROVE  NobodyNew
<1>1. CASE opener' = opener  BY <1>1 DEF NobodyNew, Telling
<1>2. CASE Moves
  <2>1. PICK p \in Openers : \E o : opener' = [opener EXCEPT ![p] = o] /\ QuietAt(o)
    BY <1>2 DEF Moves
  <2>2. PICK o : opener' = [opener EXCEPT ![p] = o] /\ QuietAt(o)  BY <2>1
  <2>3. opener = [q \in Openers |-> opener[q]]  BY DEF OutboxInv, OpenersFit
  <2>4. \A q \in Openers : opener'[q] = IF q = p THEN o ELSE opener[q]  BY <2>2, <2>3
  <2> QED  BY <2>2, <2>4 DEF NobodyNew, Telling, QuietAt
<1> QED  BY <1>1, <1>2

LEMMA QuietTellsOnce ==
  ASSUME SessionInv, QuietStep
  PROVE  TellsOnce' /\ SessionToldInOrder'
<1>1. NobodyNew  BY QuietTells DEF SessionInv, QuietStep
<1>2. queued' = queued /\ session'.state = session.state /\ session'.act = session.act
  BY DEF QuietStep, SessionHeld
<1>3. \A a : Over(a) => Over(a)'  BY <1>2 DEF Over
<1>4. ASSUME NEW p \in Openers, NEW k \in {"start", "stop"}, Telling(p, k)'
      PROVE  TellerAlone(p, k)'
  <2>1. Telling(p, k) /\ opener'[p] = opener[p]  BY <1>1, <1>4 DEF NobodyNew
  <2>2. TellerAlone(p, k)  BY <2>1 DEF SessionInv, TellsOnce
  <2>3. \A q \in Openers : Telling(q, k)' => Telling(q, k) /\ opener'[q] = opener[q]
    BY <1>1 DEF NobodyNew
  <2> QED  BY <1>2, <2>1, <2>2, <2>3 DEF TellerAlone, Over
<1>5. TellsOnce'  BY <1>2, <1>4 DEF SessionInv, TellsOnce, Over
<1>6. SessionToldInOrder'  BY <1>2 DEF SessionInv, SessionToldInOrder
<1> QED  BY <1>5, <1>6

(* What is told of is told by one process, of an activation of before.     *)
LEMMA StartTellsOnce ==
  ASSUME SessionInv, NEW p \in Openers, StartSession(p)
  PROVE  TellsOnce' /\ SessionToldInOrder'
<1>1. /\ session.act \in Nat /\ session' = [state |-> "active", act |-> session.act + 1, lease |-> FALSE]
      /\ queued' = queued /\ opener[p].at = "open"
      /\ opener' = [opener EXCEPT ![p].at = "telling", ![p].say = "start", ![p].act = session.act + 1]
  BY DEF StartSession, SessionInv, OutboxInv, SessionFits
<1>2. opener = [q \in Openers |-> opener[q]]
      /\ \A q \in Openers : OpenerFits(opener[q], Len(queued), enrolled, received)
  BY DEF SessionInv, OutboxInv, OpenersFit
<1>3. /\ \A q \in Openers : q # p => opener'[q] = opener[q]
      /\ opener'[p].at = "telling" /\ opener'[p].say = "start" /\ opener'[p].act = session.act + 1
  BY <1>1, <1>2 DEF OpenerFits, OpenerType
<1>4. session'.state = "active" /\ session'.act = session.act + 1  BY <1>1
<1>5. \A q \in Openers, k \in {"start", "stop"} : q # p /\ Telling(q, k)' =>
        Telling(q, k) /\ opener[q].act \in 1..session.act /\ TellerAlone(q, k)
  BY <1>3 DEF SessionInv, TellsOnce, Telling, TellerAlone
<1>6. \A i \in DOMAIN queued : queued[i].kind \in {"start", "stop"} => queued[i].act <= session.act
  BY DEF SessionInv, TellsOnce
<1>7. ASSUME NEW q \in Openers, NEW k \in {"start", "stop"}, Telling(q, k)'
      PROVE  TellerAlone(q, k)'
  <2>1. CASE q = p
    <3>1. k = "start"  BY <1>3, <1>7, <2>1 DEF Telling
    <3>2. \A r \in Openers : Telling(r, k)' /\ opener'[r].act = opener'[q].act => r = q
      BY <1>1, <1>3, <1>5, <2>1
    <3>3. \A i \in DOMAIN queued : queued[i].kind = k => queued[i].act # session.act + 1
      <4>1. \A i \in DOMAIN queued : queued[i].act \in Nat  BY ActsKnown DEF SessionInv
      <4> QED  BY <1>1, <1>6, <3>1, <4>1
    <3>4. session.act + 1 \in 1..(session.act + 1)  BY <1>1
    <3> QED  BY <1>1, <1>3, <1>4, <2>1, <3>1, <3>2, <3>3, <3>4 DEF TellerAlone
  <2>2. CASE q # p
    <3>1. TellerAlone(q, k) /\ opener'[q] = opener[q] /\ opener[q].act \in 1..session.act
      BY <1>3, <1>5, <1>7, <2>2
    <3>2. opener[q].act \in 1..(session.act + 1) /\ opener[q].act < session.act + 1
      BY <1>1, <3>1
    <3>3. \A r \in Openers : Telling(r, k)' /\ opener'[r].act = opener'[q].act => r = q
      <4> TAKE r \in Openers
      <4>1. CASE r = p  BY <1>3, <3>1, <3>2, <4>1, <1>1
      <4>2. CASE r # p
        <5>1. Telling(r, k)' => Telling(r, k)  BY <1>5, <4>2
        <5> QED  BY <1>3, <3>1, <4>2, <5>1 DEF TellerAlone
      <4> QED  BY <4>1, <4>2
    <3> QED  BY <1>1, <1>4, <3>1, <3>2, <3>3 DEF TellerAlone, Over
  <2> QED  BY <2>1, <2>2
<1>8. \A i \in DOMAIN queued' :
        /\ queued'[i].kind \in {"start", "stop"} => queued'[i].act <= session'.act
        /\ queued'[i].kind = "stop" => queued'[i].act < session'.act
  <2>1. \A i \in DOMAIN queued : queued[i].act \in Nat  BY ActsKnown DEF SessionInv
  <2> QED  BY <1>1, <1>4, <1>6, <2>1
<1>9. TellsOnce'  BY <1>1, <1>4, <1>7, <1>8 DEF TellsOnce, Over
<1>10. SessionToldInOrder'  BY <1>1 DEF SessionInv, SessionToldInOrder
<1> QED  BY <1>9, <1>10

LEMMA StopTellsOnce ==
  ASSUME SessionInv, NEW p \in Openers, EndSession(p)
  PROVE  TellsOnce' /\ SessionToldInOrder'
<1>1. /\ session.act \in Nat /\ session' = [session EXCEPT !.state = "stopped", !.lease = FALSE]
      /\ queued' = queued /\ session.state = "active" /\ opener[p].at # "telling"
      /\ opener' = [opener EXCEPT ![p].at = "telling", ![p].say = "stop", ![p].act = session.act]
  BY DEF EndSession, SessionInv, OutboxInv, SessionFits
<1>2. opener = [q \in Openers |-> opener[q]]
      /\ \A q \in Openers : OpenerFits(opener[q], Len(queued), enrolled, received)
  BY DEF SessionInv, OutboxInv, OpenersFit
<1>3. /\ \A q \in Openers : q # p => opener'[q] = opener[q]
      /\ opener'[p].at = "telling" /\ opener'[p].say = "stop" /\ opener'[p].act = session.act
  BY <1>1, <1>2 DEF OpenerFits, OpenerType
<1>4. session'.state = "stopped" /\ session'.act = session.act /\ session.act # 0
  BY <1>1 DEF SessionInv, TellsOnce, OutboxInv, SessionFits
<1>5. \A q \in Openers, k \in {"start", "stop"} : q # p /\ Telling(q, k)' =>
        /\ Telling(q, k) /\ TellerAlone(q, k)
        /\ opener[q].act \in 1..session.act /\ (k = "stop" => opener[q].act < session.act)
  BY <1>1, <1>3 DEF SessionInv, TellsOnce, Telling, TellerAlone, Over
<1>6. \A i \in DOMAIN queued : queued[i].kind = "stop" => queued[i].act < session.act
  BY <1>1 DEF SessionInv, TellsOnce, Over
<1>7. ASSUME NEW q \in Openers, NEW k \in {"start", "stop"}, Telling(q, k)'
      PROVE  TellerAlone(q, k)'
  <2>1. CASE q = p
    <3>1. k = "stop"  BY <1>3, <1>7, <2>1 DEF Telling
    <3>2. \A r \in Openers : Telling(r, k)' /\ opener'[r].act = opener'[q].act => r = q
      BY <1>1, <1>3, <1>5, <2>1, <3>1
    <3>3. \A i \in DOMAIN queued : queued[i].kind = k => queued[i].act # session.act
      BY <1>1, <1>6, <3>1
    <3>4. session.act \in 1..session.act  BY <1>1, <1>4
    <3> QED  BY <1>1, <1>3, <1>4, <2>1, <3>1, <3>2, <3>3, <3>4 DEF TellerAlone, Over
  <2>2. CASE q # p
    <3>1. TellerAlone(q, k) /\ opener'[q] = opener[q]
          /\ opener[q].act \in 1..session.act /\ (k = "stop" => opener[q].act < session.act)
      BY <1>3, <1>5, <1>7, <2>2
    <3>2. \A r \in Openers : Telling(r, k)' /\ opener'[r].act = opener'[q].act => r = q
      <4> TAKE r \in Openers
      <4>1. CASE r = p
        <5>1. Telling(r, k)' => k = "stop"  BY <1>3, <4>1 DEF Telling
        <5> QED  BY <1>1, <1>3, <3>1, <4>1, <5>1
      <4>2. CASE r # p
        <5>1. Telling(r, k)' => Telling(r, k)  BY <1>5, <4>2
        <5> QED  BY <1>3, <3>1, <4>2, <5>1 DEF TellerAlone
      <4> QED  BY <4>1, <4>2
    <3> QED  BY <1>1, <1>4, <3>1, <3>2 DEF TellerAlone, Over
  <2> QED  BY <2>1, <2>2
<1>8. TellsOnce'
  <2>1. \A i \in DOMAIN queued : queued[i].kind \in {"start", "stop"} => queued[i].act <= session.act
    BY DEF SessionInv, TellsOnce
  <2> QED  BY <1>1, <1>4, <1>7, <2>1 DEF TellsOnce, Over
<1>9. SessionToldInOrder'  BY <1>1 DEF SessionInv, SessionToldInOrder
<1> QED  BY <1>8, <1>9

LEMMA EnqueueTellsOnce ==
  ASSUME SessionInv, NEW p \in Openers, Enqueue(p)
  PROVE  TellsOnce' /\ SessionToldInOrder'
<1>0. PICK row : row = Row(p)  OBVIOUS
<1>1. row \in Observation /\ queued' = Append(queued, row)
  BY <1>0, RowType DEF SessionInv
<1>2. PICK n \in Nat : n = Len(queued)  BY OutboxKnown DEF SessionInv
<1>3. queued \in Seq(Observation) /\ DOMAIN queued = 1..n
  BY <1>2 DEF SessionInv, OutboxInv, QueuedFits
<1>4. /\ DOMAIN queued' = 1..(n + 1)
      /\ \A i \in 1..n : queued'[i] = queued[i]
      /\ queued'[n + 1] = row
      /\ \A i \in 1..(n + 1) : i \in 1..n \/ i = n + 1
  BY <1>1, <1>2, <1>3
<1>5. opener[p].at = "telling" /\ ~SessionEnded(opener[p].say)
  BY DEF Enqueue, Accepts
<1>6. /\ SessionHeld
      /\ \E o : opener' = [opener EXCEPT ![p] = o] /\ o.at # "telling"
  BY <1>5, AfterTellingOpens DEF Enqueue, SessionInv
<1>7. session'.state = session.state /\ session'.act = session.act  BY <1>6 DEF SessionHeld
<1>8. \A q \in Openers, k \in {"start", "stop"} : Telling(q, k)' =>
        q # p /\ Telling(q, k) /\ opener'[q] = opener[q]
  <2>1. PICK o : opener' = [opener EXCEPT ![p] = o] /\ o.at # "telling"  BY <1>6
  <2>2. opener = [q \in Openers |-> opener[q]]  BY DEF SessionInv, OutboxInv, OpenersFit
  <2>3. \A q \in Openers : opener'[q] = IF q = p THEN o ELSE opener[q]  BY <2>1, <2>2
  <2> QED  BY <2>1, <2>3 DEF Telling
<1>9. ASSUME NEW k \in {"start", "stop"}, row.kind = k
      PROVE  Telling(p, k) /\ row.act = opener[p].act /\ TellerAlone(p, k)
  <2>1. opener[p].say \notin Beats /\ opener[p].say = k /\ row.act = opener[p].act
    BY <1>0, <1>9 DEF Row
  <2>2. Telling(p, k)  BY <1>5, <2>1 DEF Telling
  <2> QED  BY <2>1, <2>2 DEF SessionInv, TellsOnce
<1>10. row.kind = "beat" => row.act = session.act /\ session.state = "active"
  <2>1. \/ opener[p].say \in Beats
        \/ opener[p].say \in {"none", "start", "stop", "other"}
    BY OutboxKnown DEF SessionInv, OpenerFits, OpenerType
  <2> QED  BY <1>0, <1>5, <2>1 DEF Row, SessionEnded
<1>11. ASSUME NEW q \in Openers, NEW k \in {"start", "stop"}, Telling(q, k)'
       PROVE  TellerAlone(q, k)'
  <2>1. q # p /\ Telling(q, k) /\ opener'[q] = opener[q]  BY <1>8, <1>11
  <2>2. TellerAlone(q, k)  BY <2>1 DEF SessionInv, TellsOnce
  <2>3. \A r \in Openers : Telling(r, k)' /\ opener'[r].act = opener'[q].act => r = q
    BY <1>8, <2>1, <2>2 DEF TellerAlone
  <2>4. row.kind = k => row.act # opener[q].act
    BY <1>9, <2>1, <2>2 DEF TellerAlone
  <2>5. \A i \in DOMAIN queued' : queued'[i].kind = k => queued'[i].act # opener'[q].act
    BY <1>3, <1>4, <2>1, <2>2, <2>4 DEF TellerAlone
  <2>6. /\ opener'[q].act \in 1..session'.act
        /\ k = "stop" => opener'[q].act < session'.act \/ session'.state = "stopped"
    BY <1>7, <2>1, <2>2 DEF TellerAlone, Over
  <2> QED  BY <2>3, <2>5, <2>6 DEF TellerAlone, Over
<1>12. \A i \in DOMAIN queued' :
         /\ queued'[i].kind \in {"start", "stop"} => queued'[i].act <= session'.act
         /\ queued'[i].kind = "stop" =>
              queued'[i].act < session'.act \/ session'.state = "stopped"
  <2>1. \A i \in 1..n :
          /\ queued[i].kind \in {"start", "stop"} => queued[i].act <= session.act
          /\ queued[i].kind = "stop" => Over(queued[i].act)
    BY <1>3 DEF SessionInv, TellsOnce
  <2>2. /\ row.kind \in {"start", "stop"} => row.act <= session.act
        /\ row.kind = "stop" => Over(row.act)
    <3>1. session.act \in Nat  BY ActsKnown DEF SessionInv
    <3> QED  BY <1>9, <3>1 DEF TellerAlone
  <2> QED  BY <1>4, <1>7, <2>1, <2>2 DEF Over
<1>13. TellsOnce'
  <2>1. session'.state = "none" <=> session'.act = 0  BY <1>7 DEF SessionInv, TellsOnce
  <2> QED  BY <1>11, <1>12, <2>1 DEF TellsOnce, Over
<1>14. SessionToldInOrder'
  <2>1. ASSUME NEW i \in 1..n, queued[i].act = row.act
        PROVE  /\ queued[i].kind \in {"start", "stop"} => row.kind # queued[i].kind
               /\ queued[i].kind = "stop" => row.kind # "beat"
    <3>1. queued[i].kind \in {"start", "stop"} => row.kind # queued[i].kind
      BY <1>3, <1>9, <2>1 DEF TellerAlone
    <3>2. ASSUME queued[i].kind = "stop", row.kind = "beat"  PROVE FALSE
      <4>1. row.act = session.act /\ session.state = "active"  BY <1>10, <3>2
      <4>2. Over(queued[i].act)  BY <1>3, <3>2 DEF SessionInv, TellsOnce
      <4>3. session.act \in Nat  BY DEF SessionInv, OutboxInv, SessionFits
      <4> QED  BY <2>1, <4>1, <4>2, <4>3 DEF Over
    <3> QED  BY <3>1, <3>2
  <2>2. \A i, j \in 1..n :
          i < j /\ queued[i].act = queued[j].act /\ queued[i].act # 0 =>
            /\ queued[i].kind \in {"start", "stop"} => queued[j].kind # queued[i].kind
            /\ queued[i].kind = "stop" => queued[j].kind # "beat"
    BY <1>3 DEF SessionInv, SessionToldInOrder
  <2>3. ASSUME NEW i \in 1..(n + 1), NEW j \in 1..(n + 1), i < j,
               queued'[i].act = queued'[j].act, queued'[i].act # 0
        PROVE  /\ queued'[i].kind \in {"start", "stop"} => queued'[j].kind # queued'[i].kind
               /\ queued'[i].kind = "stop" => queued'[j].kind # "beat"
    <3>1. i \in 1..n  BY <2>3
    <3>2. CASE j \in 1..n  BY <1>4, <2>2, <2>3, <3>1, <3>2
    <3>3. CASE j = n + 1  BY <1>4, <2>1, <2>3, <3>1, <3>3
    <3> QED  BY <1>4, <3>2, <3>3
  <2> QED  BY <1>4, <2>3 DEF SessionToldInOrder
<1> QED  BY <1>13, <1>14

-----------------------------------------------------------------------------
(* Every step.                                                             *)

(* The store is empty, nobody has opened it and no session has begun.      *)
LEMMA SessionInit == ObsInit => SessionInv
<1> SUFFICES ASSUME ObsInit  PROVE SessionInv  OBVIOUS
<1>1. /\ Len(queued) = 0 /\ DOMAIN queued = {} /\ queued \in Seq(Observation)
      /\ terminal \in Seq(1..0) /\ Len(terminal) = 0 /\ 1..0 = {}
  BY DEF ObsInit
<1>2. OpenersFit
  <2>1. 1 \in Nat /\ 0 \in Nat  OBVIOUS
  <2>2. OpenerFits(Closed, 0, 1, {})  BY <2>1, ClosedFits
  <2> QED  BY <1>1, <2>2 DEF ObsInit, OpenersFit
<1>3. OutboxFits
  <2>1. OfGeneration(queued, outbox.gen) = {}  BY <1>1 DEF OfGeneration
  <2>2. Cardinality(OfGeneration(queued, outbox.gen)) = 0  BY <2>1, FS_EmptySet
  <2>3. /\ 0 \in 0..MaxGeneration /\ 1 \in 1..(MaxQueued + 1) /\ BatchItems \in 1..BatchItems
    BY ObservationsAssumption
  <2>4. outbox \in OutboxType /\ outbox.gen = 0 /\ outbox.next = 1 /\ enrolled = 1
    BY <2>3 DEF ObsInit, OutboxType
  <2> QED  BY <1>1, <2>2, <2>4 DEF OutboxFits
<1>4. TablesFit
  <2>1. /\ Gone(Len(queued), pending, received, terminal) = {}
        /\ pending = {}
    BY <1>1 DEF Gone, ObsInit
  <2>2. Cardinality({}) = 0  BY FS_EmptySet
  <2>3. terminal \in Seq(1..Len(queued))  BY <1>1
  <2>4. /\ Len(queued) = 0 /\ Len(terminal) = 0 /\ trimmed = 0 /\ due = {}
        /\ 0 <= MaxPending /\ 0 <= MaxTerminal /\ 0 + 0 + 0 <= 0
    BY <1>1, ObservationsAssumption DEF ObsInit
  <2>5. Cardinality(pending) = 0
        /\ Cardinality(Gone(Len(queued), pending, received, terminal)) = 0
    BY <2>1, <2>2
  <2> QED  BY <2>1, <2>3, <2>4, <2>5 DEF TablesFit
<1>5. QueuedFits
  BY <1>1, ObservationsAssumption DEF ObsInit, QueuedFits, Generations, NumberedWithoutGaps
<1>6. SessionFits
  BY ObservationsAssumption DEF ObsInit, SessionFits
<1>7. TellsOnce /\ SessionToldInOrder
  <2>1. \A p \in Openers : opener[p].at = "closed"  BY DEF ObsInit, Closed
  <2>2. \A p \in Openers, k \in {"start", "stop"} : ~Telling(p, k)  BY <2>1 DEF Telling
  <2> QED  BY <1>1, <2>2 DEF ObsInit, TellsOnce, SessionToldInOrder
<1> QED  BY <1>2, <1>3, <1>4, <1>5, <1>6, <1>7 DEF SessionInv, OutboxInv

LEMMA SessionNextInv == SessionInv /\ [ObsNext]_obsVars => SessionInv'
<1> SUFFICES ASSUME SessionInv, [ObsNext]_obsVars  PROVE SessionInv'  OBVIOUS
<1> USE DEF SessionInv
<1>1. CASE UNCHANGED obsVars
  <2>1. UNCHANGED <<queued, enrolled, received, opener, session, outbox, tables>>
    BY <1>1 DEF obsVars
  <2>2. QuietStep  BY <2>1, RestKept DEF QuietStep
  <2> QED  BY <2>2, QuietInv, QuietTellsOnce
<1>2. ASSUME NEW p \in Openers, OpenNext(p)  PROVE SessionInv'
  <2>1. CASE Enqueue(p)  BY <2>1, EnqueueFits, EnqueueTellsOnce
  <2>2. CASE ~Enqueue(p)
    <3>1. QuietStep  BY <1>2, <2>2, Reads, Binds, Refusals, Ending DEF OpenNext
    <3> QED  BY <3>1, QuietInv, QuietTellsOnce
  <2> QED  BY <2>1, <2>2
<1>3. ASSUME NEW p \in Openers, SessionNext(p)  PROVE SessionInv'
  <2>1. CASE StartSession(p)  BY <2>1, StartsSession, StartTellsOnce
  <2>2. CASE EndSession(p)  BY <2>2, EndsSession, StopTellsOnce
  <2>3. CASE ~StartSession(p) /\ ~EndSession(p)
    <3>1. QuietStep  BY <1>3, <2>3, Starts, Ticks, Beating DEF SessionNext
    <3> QED  BY <3>1, QuietInv, QuietTellsOnce
  <2> QED  BY <2>1, <2>2, <2>3
<1>4. ASSUME NEW p \in Openers, UploadNext(p)  PROVE SessionInv'
  <2>1. QuietStep
    BY <1>4, Beating, TakesBatch, Receives, Fails, Refuses, Acknowledges, Rejects, Defers, Blocks
    DEF UploadNext
  <2> QED  BY <2>1, QuietInv, QuietTellsOnce
<1>5. CASE Enrol \/ WaitsEnd
  <2>1. QuietStep  BY <1>5, Enrols, Waits
  <2> QED  BY <2>1, QuietInv, QuietTellsOnce
<1> QED  BY <1>1, <1>2, <1>3, <1>4, <1>5 DEF ObsNext

(* The inductive invariant of the store, its uploads and its sessions.     *)
THEOREM SessionInvAlways == ObsSpec => []SessionInv
BY SessionInit, SessionNextInv, PTL DEF ObsSpec

(* Each variable of the observation store stays in its set, the tables     *)
(* within their limits, whatever MAX_PENDING and MAX_TERMINAL are.         *)
THEOREM ObservationTypesCorrect == ObsSpec => []ObsTypeOK
<1>1. SessionInv => ObsTypeOK  BY OutboxInvTypes DEF SessionInv
<1> QED  BY <1>1, SessionInvAlways, PTL

(* In each generation the observations are numbered 1, 2, 3 in the order   *)
(* they were queued (obs-store.ts:17-18), with any number of processes     *)
(* that open the store, die and are enrolled again between any two steps.  *)
THEOREM NumbersLeaveNoGap == ObsSpec => []NumberedWithoutGaps
<1>1. SessionInv => NumberedWithoutGaps  BY OutboxInvTypes DEF SessionInv
<1> QED  BY <1>1, SessionInvAlways, PTL

(* An observation that is in neither table is held by the workspace or     *)
(* counted as removed (obs-upload.ts:9, obs-store.ts:11), whatever answers *)
(* the workspace gives, and whenever they come.                            *)
THEOREM NoObservationLost == ObsSpec => []NothingVanishes
<1>1. SessionInv => NothingVanishes  BY OutboxInvTypes DEF SessionInv
<1> QED  BY <1>1, SessionInvAlways, PTL

(* One start, one stop and no heartbeat behind it for each activation of   *)
(* the session (obs-store.ts:402, :383, :215), with any number of hook     *)
(* processes and heartbeat helpers.                                        *)
THEOREM SessionsToldInOrder == ObsSpec => []SessionToldInOrder
<1>1. SessionInv => SessionToldInOrder  BY DEF SessionInv
<1> QED  BY <1>1, SessionInvAlways, PTL

=============================================================================
