------------------------- MODULE SessionBudgetProofs -------------------------
(***************************************************************************)
(* Theorems about SessionBudget, for any hook processes, tool calls,       *)
(* limits, retries and deaths: no more tool calls run under a limit in     *)
(* force than it allows, and a count that stays is of calls that ran or    *)
(* that a process could not settle, as long as no process at work lost its *)
(* lock to another.  The types hold of every behaviour.                    *)
(***************************************************************************)
EXTENDS SessionBudget, SubsequencesProofs

CheckRecord ==
  [phase : Phases, group : Groups \cup {"none"}, op : {"reserve", "release"}, at : Guards,
   held : SUBSET Guards, limits : SUBSET Limits, outcome : {"allow", "deny"},
   copy : Counts \cup {"none"}, matched : SUBSET Limits]

AttemptRecord == [open : SUBSET Hooks, ok : BOOLEAN, limits : SUBSET Limits, tries : Nat]

(* BudgetTypeOK, made inductive.                                           *)
BudgetType ==
  /\ lockFile \in [by : Hooks \cup {"none"}, old : BOOLEAN]
  /\ countFile \in Counts
  /\ ended \in SUBSET Limits
  /\ check \in [Hooks -> CheckRecord]
  /\ attempt \in [Groups -> AttemptRecord]
  /\ \A g \in Groups : attempt[g].tries \in 0..MaxTries[g]
  /\ spent \in [Limits -> SUBSET Groups]
  /\ unsettled \in SUBSET Groups /\ forgotten \in BOOLEAN /\ deaths \in 0..MaxDeaths

Under(g, i) == {l \in Touches[g] : GuardOf[l] = i}

Waiting == {"lock", "stale", "read", "write"}

(* Which locals belong together.                                           *)
Reserving(c) ==
  /\ c.matched \subseteq Under(c.group, c.at) /\ Under(c.group, c.at) \ ended \subseteq c.matched
  /\ c.phase \in Waiting => c.outcome = "allow" /\ c.at \notin c.held
  /\ \A i \in c.held : i <= c.at

Releasing(c) ==
  /\ c.group \notin AfterFact
  /\ c.at \notin c.held
  /\ c.matched = {l \in c.limits : GuardOf[l] = c.at}

Coherent(c) ==
  /\ c.phase = "idle" => c = Resting
  /\ c.phase # "idle" => c.group \in Groups /\ c.limits \subseteq Touches[c.group]
  /\ c.phase = "rules" => c.op = "reserve" /\ c.outcome = "allow"
  /\ c.phase \in Waiting \cup {"unlock"} /\ c.op = "reserve" => Reserving(c)
  /\ c.phase \in Waiting \cup {"unlock"} /\ c.op = "release" => Releasing(c)

(* What is about to be written was made of what the file still holds.      *)
Current(c) ==
  c.phase = "write" =>
    IF c.op = "release" THEN c.copy = Released(countFile, c.group, c.at, c.matched)
    ELSE /\ c.copy = Reserved(countFile, c.group, c.at, c.matched)
         /\ c.group \notin AfterFact => ~Over(countFile, c.group, c.matched)
         /\ ~Repeated(countFile, c.group, c.at)

CallsInv ==
  \A h \in Hooks :
    /\ Coherent(check[h]) /\ Current(check[h])
    /\ check[h].phase # "idle" => h \in attempt[check[h].group].open
    /\ check[h].phase \in InLock => lockFile.by = h

OpenInv ==
  \A g \in Groups : \A h \in attempt[g].open : check[h].phase # "idle" /\ check[h].group = g

-----------------------------------------------------------------------------
(* What a count is of.                                                     *)

(* A process that counted a limit and may still give the count back.       *)
Holding(c, l) ==
  \/ GuardOf[l] \in c.held /\ l \in c.limits
  \/ c.op = "release" /\ c.phase \in Waiting /\ l \in c.matched

(* A process that will refuse its tool call.                               *)
Doomed(c) == c.op = "release" \/ c.outcome = "deny"

(* A tool call that may still run, and then under the limit l.             *)
Relies(g, l) ==
  /\ attempt[g].open # {} /\ attempt[g].ok
  /\ \A h \in attempt[g].open : ~Doomed(check[h])
  /\ l \in attempt[g].limits \/ \E h \in attempt[g].open : l \in check[h].limits

Listed(g, l) == l \in Touches[g] /\ g \in ToSet(countFile.groups[GuardOf[l]])

Limited == Groups \ AfterFact

Owing(l) == {h \in Hooks : check[h].group \in Limited /\ Holding(check[h], l)}

Owed(g, l) == \E h \in Owing(l) : check[h].group = g

(* The tool calls whose count no process will give back.                   *)
Settled(l) ==
  {g \in Limited : g \in spent[l] \/ (~Owed(g, l) /\ (Listed(g, l) \/ Relies(g, l)))}

(* The tool calls that ran, or may still, under l.                         *)
Runs(l) == {g \in Limited : g \in spent[l] \/ Relies(g, l)}

(* The count of a limit in force covers both, and what runs is within it.  *)
Covered(l) == Cardinality(Owing(l)) + Cardinality(Settled(l)) <= countFile.counts[l]

Within(l) == Cardinality(Runs(l)) <= MaxOf[l]

CountInv == \A l \in Enforced \ ended : Covered(l) /\ Within(l)

BudgetInv == BudgetType /\ CallsInv /\ OpenInv /\ CountInv

-----------------------------------------------------------------------------
(* Sums.                                                                   *)

(* One process less that owes, and at most one tool call more that is      *)
(* settled: the sum does not grow.                                         *)
LEMMA SumKept ==
  ASSUME NEW O, IsFiniteSet(O), NEW S, IsFiniteSet(S), NEW O2, NEW S2,
         \/ O2 \subseteq O /\ S2 \subseteq S
         \/ \E h \in O : \E g : O2 \subseteq O \ {h} /\ S2 \subseteq S \cup {g}
  PROVE  /\ Cardinality(O2) \in Nat /\ Cardinality(S2) \in Nat
         /\ Cardinality(O2) + Cardinality(S2) <= Cardinality(O) + Cardinality(S)
<1>1. Cardinality(O) \in Nat /\ Cardinality(S) \in Nat  BY FS_CardinalityType
<1>2. CASE O2 \subseteq O /\ S2 \subseteq S
  <2>1. /\ Cardinality(O2) \in Nat /\ Cardinality(O2) <= Cardinality(O)
        /\ Cardinality(S2) \in Nat /\ Cardinality(S2) <= Cardinality(S)
    BY <1>2, FS_Subset, FS_CardinalityType
  <2> QED  BY <1>1, <2>1
<1>3. ASSUME NEW h \in O, NEW g, O2 \subseteq O \ {h}, S2 \subseteq S \cup {g}
      PROVE  /\ Cardinality(O2) \in Nat /\ Cardinality(S2) \in Nat
             /\ Cardinality(O2) + Cardinality(S2) <= Cardinality(O) + Cardinality(S)
  <2>1. IsFiniteSet(O \ {h}) /\ Cardinality(O \ {h}) = Cardinality(O) - 1
    <3>1. /\ IsFiniteSet(O \ {h})
          /\ Cardinality(O \ {h}) = IF h \in O THEN Cardinality(O) - 1 ELSE Cardinality(O)
      BY FS_RemoveElement, Zenon
    <3> QED  BY <3>1
  <2>2. IsFiniteSet(S \cup {g}) /\ Cardinality(S \cup {g}) <= Cardinality(S) + 1
    <3>1. /\ IsFiniteSet(S \cup {g})
          /\ Cardinality(S \cup {g}) = IF g \in S THEN Cardinality(S) ELSE Cardinality(S) + 1
      BY FS_AddElement, Zenon
    <3> QED  BY <1>1, <3>1
  <2>3. /\ Cardinality(O2) \in Nat /\ Cardinality(O2) <= Cardinality(O \ {h})
        /\ Cardinality(S2) \in Nat /\ Cardinality(S2) <= Cardinality(S \cup {g})
        /\ Cardinality(S \cup {g}) \in Nat
    BY <1>3, <2>1, <2>2, FS_Subset, FS_CardinalityType
  <2> QED  BY <1>1, <2>1, <2>2, <2>3
<1> QED  BY <1>2, <1>3

LEMMA Finite ==
  ASSUME NEW l \in Limits
  PROVE  /\ IsFiniteSet(Owing(l)) /\ IsFiniteSet(Settled(l)) /\ IsFiniteSet(Runs(l))
         /\ Cardinality(Owing(l)) \in Nat /\ Cardinality(Settled(l)) \in Nat
         /\ Cardinality(Runs(l)) \in Nat
<1>1. Owing(l) \in SUBSET Hooks /\ Settled(l) \in SUBSET Groups /\ Runs(l) \in SUBSET Groups
  BY DEF Owing, Settled, Runs, Limited
<1>2. IsFiniteSet(Owing(l)) /\ IsFiniteSet(Settled(l)) /\ IsFiniteSet(Runs(l))
  BY <1>1, LimitsAssumption, FS_Subset
<1> QED  BY <1>2, FS_CardinalityType

(* What is owed by or settled is no more than the sum.                     *)
LEMMA AtMostSum ==
  ASSUME NEW O, IsFiniteSet(O), NEW S, IsFiniteSet(S), NEW f, NEW R,
         R \subseteq {f[h] : h \in O} \cup S
  PROVE  Cardinality(R) \in Nat /\ Cardinality(R) <= Cardinality(O) + Cardinality(S)
<1> DEFINE image == {f[h] : h \in O}
<1>1. [h \in O |-> f[h]] \in Surjection(O, image)  BY DEF Surjection
<1> HIDE DEF image
<1>2. IsFiniteSet(image) /\ Cardinality(image) <= Cardinality(O)  BY <1>1, FS_Surjection
<1>3. /\ IsFiniteSet(image \cup S)
      /\ Cardinality(image \cup S) = Cardinality(image) + Cardinality(S) - Cardinality(image \cap S)
  BY <1>2, FS_Union
<1>4. R \subseteq image \cup S  BY DEF image
<1>5. IsFiniteSet(R) /\ Cardinality(R) <= Cardinality(image \cup S)  BY <1>3, <1>4, FS_Subset
<1>6. IsFiniteSet(image \cap S)  BY <1>2, FS_Intersection
<1>7. /\ Cardinality(R) \in Nat /\ Cardinality(O) \in Nat /\ Cardinality(S) \in Nat
      /\ Cardinality(image) \in Nat /\ Cardinality(image \cap S) \in Nat
      /\ Cardinality(image \cup S) \in Nat
  BY <1>2, <1>3, <1>5, <1>6, FS_CardinalityType
<1> QED  BY <1>2, <1>3, <1>5, <1>7

-----------------------------------------------------------------------------
(* What a step of one process does to what the count of a limit is of.     *)

(* Nothing more is owed, settled or run; at most a count that was owed is  *)
(* settled instead.                                                        *)
NoMore(l) ==
  /\ Runs(l)' \subseteq Runs(l)
  /\ \/ Owing(l)' \subseteq Owing(l) /\ Settled(l)' \subseteq Settled(l)
     \/ \E h \in Owing(l) : \E g :
          Owing(l)' \subseteq Owing(l) \ {h} /\ Settled(l)' \subseteq Settled(l) \cup {g}

(* Only process h and the tool call g it is asked about are concerned.     *)
OnlyOf(h, g, l) ==
  /\ check[h].group = g
  /\ \A x \in Hooks \ {h} : check'[x] = check[x]
  /\ h \in Owing(l)' => check'[h].group = g
  /\ \A k \in Limited \ {g} : /\ k \in spent'[l] => k \in spent[l]
                              /\ Relies(k, l)' => Relies(k, l)
                              /\ Listed(k, l)' => Listed(k, l)

LEMMA OthersSame ==
  ASSUME NEW l \in Limits, NEW h \in Hooks, NEW g, OnlyOf(h, g, l)
  PROVE  /\ Owing(l)' \subseteq Owing(l) \cup {h} /\ Owing(l) \ {h} \subseteq Owing(l)'
         /\ Settled(l)' \subseteq Settled(l) \cup {g}
         /\ Runs(l)' \subseteq Runs(l) \cup {g}
<1>1. \A x \in Hooks \ {h} : x \in Owing(l)' <=> x \in Owing(l)  BY DEF OnlyOf, Owing
<1>2. Owing(l)' \subseteq Hooks /\ Owing(l) \subseteq Hooks  BY DEF Owing
<1>3. ASSUME NEW k \in Limited \ {g}  PROVE Owed(k, l) => Owed(k, l)'
  <2> SUFFICES ASSUME NEW x \in Owing(l), check[x].group = k  PROVE Owed(k, l)'  BY DEF Owed
  <2>1. x \in Hooks \ {h}  BY <1>2, <1>3 DEF OnlyOf
  <2>2. x \in Owing(l)' /\ check'[x].group = k  BY <1>1, <2>1 DEF OnlyOf
  <2> QED  BY <2>2 DEF Owed
<1>4. ASSUME NEW k \in Limited \ {g}, k \in Settled(l)'  PROVE k \in Settled(l)
  <2>1. k \in spent'[l] \/ (~Owed(k, l)' /\ (Listed(k, l)' \/ Relies(k, l)'))
    BY <1>4 DEF Settled
  <2>2. k \in spent[l] \/ (~Owed(k, l) /\ (Listed(k, l) \/ Relies(k, l)))
    BY <1>3, <1>4, <2>1 DEF OnlyOf
  <2> QED  BY <1>4, <2>2 DEF Settled
<1>5. ASSUME NEW k \in Limited \ {g}, k \in Runs(l)'  PROVE k \in Runs(l)
  BY <1>5 DEF Runs, OnlyOf
<1>6. Settled(l)' \subseteq Limited /\ Runs(l)' \subseteq Limited  BY DEF Settled, Runs, Limited
<1>7. Owing(l)' \subseteq Owing(l) \cup {h} /\ Owing(l) \ {h} \subseteq Owing(l)'  BY <1>1, <1>2
<1>8. Settled(l)' \subseteq Settled(l) \cup {g}  BY <1>4, <1>6
<1>9. Runs(l)' \subseteq Runs(l) \cup {g}  BY <1>5, <1>6
<1> QED  BY <1>7, <1>8, <1>9

(* A process goes on with d: it does not begin to hold a count, and what   *)
(* limits it now adds to its own do not matter.                            *)
LEMMA GoesOn ==
  ASSUME BudgetType, OpenInv, NEW l \in Limits, NEW h \in Hooks, NEW d,
         check' = [check EXCEPT ![h] = d], d.group = check[h].group,
         UNCHANGED attempt, UNCHANGED spent,
         \A k \in Limited : Listed(k, l)' => Listed(k, l),
         Doomed(check[h]) => Doomed(d),
         check[h].group \in Limited =>
           /\ l \in d.limits => l \in check[h].limits \/ Doomed(d)
           /\ Holding(d, l) => Holding(check[h], l)
  PROVE  NoMore(l)
<1> DEFINE g == check[h].group
<1>1. check'[h] = d /\ \A x \in Hooks \ {h} : check'[x] = check[x]  BY DEF BudgetType
<1>2. ASSUME NEW k \in Limited, Relies(k, l)'  PROVE Relies(k, l)
  <2>1. k \in Groups /\ \A x \in attempt[k].open : x \in Hooks /\ check[x].group = k
    BY <1>2 DEF Limited, BudgetType, AttemptRecord, OpenInv
  <2>2. /\ attempt[k].open # {} /\ attempt[k].ok
        /\ \A x \in attempt[k].open : ~Doomed(check'[x])
        /\ l \in attempt[k].limits \/ \E x \in attempt[k].open : l \in check'[x].limits
    <3> USE <1>2 DEF Relies
    <3>1. \A x \in attempt[k].open : ~Doomed(check'[x])  BY DEF Doomed
    <3> QED  BY <3>1
  <2>3. \A x \in attempt[k].open : ~Doomed(check[x])  BY <1>1, <2>1, <2>2
  <2>4. \A x \in attempt[k].open : l \in check'[x].limits => l \in check[x].limits
    BY <1>1, <2>1, <2>2
  <2> QED  BY <2>2, <2>3, <2>4 DEF Relies
<1>3. \A k \in Limited : Listed(k, l)' => Listed(k, l)  OBVIOUS
<1>4. h \in Owing(l)' => h \in Owing(l)
  <2>1. Holding(check[h], l)' <=> Holding(d, l)  BY <1>1 DEF Holding
  <2> QED  BY <1>1, <2>1 DEF Owing
<1>5. OnlyOf(h, g, l)  BY <1>1, <1>2, <1>3 DEF OnlyOf
<1>6. g \in Runs(l)' => g \in Runs(l)  BY <1>2 DEF Runs
<1>7. ASSUME g \in Settled(l)', ~(h \in Owing(l) /\ h \notin Owing(l)')  PROVE g \in Settled(l)
  <2>1. g \in Limited  BY <1>7 DEF Settled
  <2>2. Owing(l)' = Owing(l)
    <3>1. Owing(l)' \subseteq Owing(l) \cup {h} /\ Owing(l) \ {h} \subseteq Owing(l)'
      BY <1>5, OthersSame
    <3> QED  BY <1>4, <1>7, <3>1
  <2>3. Owed(g, l) => Owed(g, l)'
    <3> SUFFICES ASSUME NEW x \in Owing(l), check[x].group = g  PROVE Owed(g, l)'  BY DEF Owed
    <3>1. x \in Hooks /\ check'[x].group = g  BY <1>1 DEF Owing
    <3> QED  BY <2>2, <3>1 DEF Owed
  <2>4. g \in spent'[l] \/ (~Owed(g, l)' /\ (Listed(g, l)' \/ Relies(g, l)'))
    <3> PICK k : k = g  OBVIOUS
    <3>1. k \in Settled(l)'  BY <1>7
    <3>2. k \in spent'[l] \/ (~Owed(k, l)' /\ (Listed(k, l)' \/ Relies(k, l)'))
      BY <3>1 DEF Settled
    <3> QED  BY <3>2
  <2> QED  BY <1>2, <1>3, <2>1, <2>3, <2>4 DEF Settled
<1> QED  BY <1>4, <1>5, <1>6, <1>7, OthersSame DEF NoMore

(* A process answers: its tool call runs, waits for the other process or   *)
(* is refused.                                                             *)
LEMMA Answers ==
  ASSUME BudgetType, CallsInv, OpenInv, NEW l \in Limits, NEW h \in Hooks, NEW ok \in BOOLEAN,
         check[h].phase # "idle", check' = [check EXCEPT ![h] = Resting],
         Answered(check[h].group, h, ok), ok => ~Doomed(check[h]), UNCHANGED countFile
  PROVE  NoMore(l)
<1> PICK g : g = check[h].group  OBVIOUS
<1>1. /\ g \in Groups /\ h \in attempt[g].open /\ check[h].limits \in SUBSET Limits
      /\ attempt[g] \in AttemptRecord /\ attempt \in [Groups -> AttemptRecord]
      /\ spent \in [Limits -> SUBSET Groups]
  BY DEF CallsInv, Coherent, BudgetType, CheckRecord
<1>2. check'[h] = Resting /\ \A x \in Hooks \ {h} : check'[x] = check[x]  BY DEF BudgetType
<1>3. h \notin Owing(l)'
  <2>1. ~Holding(Resting, l)  BY DEF Holding, Resting
  <2>2. Holding(check[h], l)' <=> Holding(Resting, l)  BY <1>2 DEF Holding
  <2> QED  BY <2>1, <2>2 DEF Owing
<1> DEFINE left == [open |-> attempt[g].open \ {h}, ok |-> attempt[g].ok /\ ok,
                    limits |-> attempt[g].limits \cup check[h].limits, tries |-> attempt[g].tries]
<1>4. /\ attempt' = [attempt EXCEPT ![g] = left]
      /\ spent' = IF left.open = {} /\ (left.ok \/ g \in AfterFact)
                  THEN [m \in Limits |-> IF m \in left.limits THEN spent[m] \cup {g} ELSE spent[m]]
                  ELSE spent
  BY DEF Answered
<1>5. /\ left.open = attempt[g].open \ {h} /\ (left.ok <=> attempt[g].ok /\ ok)
      /\ left.limits = attempt[g].limits \cup check[h].limits
  <2>1. left.open = attempt[g].open \ {h} /\ left.limits = attempt[g].limits \cup check[h].limits
    OBVIOUS
  <2>2. left.ok <=> attempt[g].ok /\ ok  OBVIOUS
  <2> QED  BY <2>1, <2>2
<1> HIDE DEF left
<1>6. attempt'[g] = left /\ \A k \in Groups \ {g} : attempt'[k] = attempt[k]  BY <1>1, <1>4
<1>7. ASSUME NEW k \in Limited \ {g}
      PROVE  (Relies(k, l)' => Relies(k, l)) /\ spent'[l] \ {g} = spent[l] \ {g}
  <2>1. k \in Groups /\ attempt'[k] = attempt[k]  BY <1>6 DEF Limited
  <2>2. \A x \in attempt[k].open : x \in Hooks /\ check[x].group = k
    BY <2>1 DEF BudgetType, AttemptRecord, OpenInv
  <2>3. \A x \in attempt[k].open : check'[x] = check[x]  BY <1>2, <2>2
  <2>4. \A x \in attempt[k].open : Doomed(check[x])' <=> Doomed(check[x])  BY <2>3 DEF Doomed
  <2>5. Relies(k, l)' => Relies(k, l)  BY <2>1, <2>3, <2>4 DEF Relies
  <2>6. spent'[l] \ {g} = spent[l] \ {g}  BY <1>4
  <2> QED  BY <2>5, <2>6
<1>8. OnlyOf(h, g, l)
  <2>1. \A k : Listed(k, l)' => Listed(k, l)  BY DEF Listed
  <2> QED  BY <1>2, <1>3, <1>7, <2>1 DEF OnlyOf
<1>9. ASSUME g \in Limited, Relies(g, l)'  PROVE Relies(g, l)
  <2>1. /\ left.open # {} /\ left.ok /\ \A x \in left.open : ~Doomed(check[x])'
        /\ l \in left.limits \/ \E x \in left.open : l \in check'[x].limits
    BY <1>6, <1>9 DEF Relies
  <2>2. attempt[g].open \subseteq Hooks  BY <1>1 DEF AttemptRecord
  <2>3. \A x \in left.open : check'[x] = check[x] /\ (Doomed(check[x])' <=> Doomed(check[x]))
    BY <1>2, <1>5, <2>2 DEF Doomed
  <2>4. \A x \in attempt[g].open : ~Doomed(check[x])  BY <1>5, <2>1, <2>3
  <2>5. l \in attempt[g].limits \/ \E x \in attempt[g].open : l \in check[x].limits
    BY <1>1, <1>5, <2>1, <2>3
  <2> QED  BY <1>1, <1>5, <2>1, <2>4, <2>5 DEF Relies
<1>10. ASSUME g \in Limited, g \in spent'[l], g \notin spent[l]
       PROVE  Relies(g, l) /\ attempt[g].open = {h}
  <2>1. left.open = {} /\ left.ok /\ l \in left.limits  BY <1>4, <1>10 DEF Limited
  <2>2. attempt[g].open = {h} /\ attempt[g].ok /\ ~Doomed(check[h])  BY <1>1, <1>5, <2>1
  <2> QED  BY <1>5, <2>1, <2>2 DEF Relies
<1>11. g \in Runs(l)' => g \in Runs(l)  BY <1>9, <1>10 DEF Runs
<1>12. ASSUME g \in Settled(l)', h \notin Owing(l)  PROVE g \in Settled(l)
  <2>1. g \in Limited /\ (g \in spent'[l] \/ (~Owed(g, l)' /\ (Listed(g, l)' \/ Relies(g, l)')))
    BY <1>12 DEF Settled
  <2>2. CASE g \in spent[l]  BY <2>1, <2>2 DEF Settled
  <2>3. CASE g \in spent'[l] /\ g \notin spent[l]
    <3>1. Relies(g, l) /\ attempt[g].open = {h}  BY <1>10, <2>1, <2>3
    <3>2. ~Owed(g, l)
      <4> SUFFICES ASSUME NEW x \in Owing(l), check[x].group = g  PROVE FALSE  BY DEF Owed
      <4>1. x \in Hooks /\ x # h /\ check[x].phase # "idle"
        <5>1. x \in Hooks /\ x # h  BY <1>12 DEF Owing
        <5>2. Holding(check[x], l)  BY DEF Owing
        <5>3. check[x] # Resting  BY <5>2 DEF Holding, Resting
        <5> QED  BY <5>1, <5>3 DEF CallsInv, Coherent
      <4>2. x \in attempt[g].open  BY <4>1 DEF CallsInv
      <4> QED  BY <3>1, <4>1, <4>2
    <3> QED  BY <2>1, <3>1, <3>2 DEF Settled
  <2>4. CASE ~Owed(g, l)' /\ (Listed(g, l)' \/ Relies(g, l)')
    <3>1. Listed(g, l) \/ Relies(g, l)  BY <1>9, <2>1, <2>4 DEF Listed
    <3>2. ~Owed(g, l)
      <4> SUFFICES ASSUME NEW x \in Owing(l), check[x].group = g  PROVE FALSE  BY DEF Owed
      <4>1. x \in Hooks \ {h} /\ x \in Owing(l)'  BY <1>12, <1>8, OthersSame DEF Owing
      <4>2. check'[x].group = g  BY <1>2, <4>1
      <4> QED  BY <2>4, <4>1, <4>2 DEF Owed
    <3> QED  BY <2>1, <3>1, <3>2 DEF Settled
  <2> QED  BY <2>1, <2>2, <2>3, <2>4
<1> QED  BY <1>3, <1>8, <1>11, <1>12, OthersSame DEF NoMore

(* A tool call begins: nothing is counted for it yet.                      *)
Begun(g, hs, c, r) ==
  /\ attempt[g].open = {} /\ \A h \in hs : check[h].phase = "idle"
  /\ c.group = g /\ c.op = "reserve" /\ c.held = {} /\ c.limits = {}
  /\ r.limits = {} /\ r.open \subseteq hs /\ attempt' = [attempt EXCEPT ![g] = r]
  /\ \A h \in hs : check'[h] = c
  /\ \A h \in Hooks \ hs : check'[h] = check[h]

LEMMA Begins ==
  ASSUME BudgetType, CallsInv, OpenInv, NEW l \in Limits, NEW g \in Groups, NEW hs \in SUBSET Hooks,
         NEW c, NEW r, Begun(g, hs, c, r), UNCHANGED spent, UNCHANGED countFile
  PROVE  NoMore(l)
<1> USE DEF Begun
<1>1. /\ \A h \in hs : check'[h] = c /\ ~Holding(c, l) /\ check[h] = Resting
      /\ \A h \in Hooks \ hs : check'[h] = check[h]
  BY DEF Holding, CallsInv, Coherent
<1>2. ~Holding(Resting, l)  BY DEF Holding, Resting
<1>3. Owing(l)' = Owing(l) /\ Owing(l) \subseteq Hooks \ hs
  <2>1. \A h \in hs : (Holding(check[h], l)' <=> Holding(c, l)) /\ ~Holding(check[h], l)
    BY <1>1, <1>2 DEF Holding
  <2>2. \A h \in Hooks \ hs : Holding(check[h], l)' <=> Holding(check[h], l)  BY <1>1 DEF Holding
  <2>3. \A h \in Hooks : h \in Owing(l)' <=> h \in Owing(l)  BY <1>1, <2>1, <2>2 DEF Owing
  <2>4. Owing(l)' \subseteq Hooks /\ Owing(l) \subseteq Hooks  BY DEF Owing
  <2> QED  BY <1>1, <2>1, <2>3, <2>4 DEF Owing
<1>4. ASSUME NEW k \in Limited, Owed(k, l)  PROVE Owed(k, l)'
  <2> PICK x \in Owing(l) : check[x].group = k  BY <1>4 DEF Owed
  <2>1. x \in Owing(l)' /\ check'[x].group = k  BY <1>1, <1>3
  <2> QED  BY <2>1 DEF Owed
<1>5. ASSUME NEW k \in Limited, Relies(k, l)'  PROVE Relies(k, l)
  <2>1. k \in Groups  BY DEF Limited
  <2>2. CASE k = g
    <3>1. attempt'[k] = r  BY <2>2 DEF BudgetType
    <3>2. l \in r.limits \/ \E x \in r.open : l \in check'[x].limits  BY <1>5, <3>1 DEF Relies
    <3> QED  BY <1>1, <3>2
  <2>3. CASE k # g
    <3>1. attempt'[k] = attempt[k]  BY <2>1, <2>3 DEF BudgetType
    <3>2. \A x \in attempt[k].open : x \in Hooks \ hs
      BY <2>1 DEF BudgetType, AttemptRecord, OpenInv
    <3>3. \A x \in attempt[k].open : check'[x] = check[x] /\ (Doomed(check[x])' <=> Doomed(check[x]))
      BY <1>1, <3>2 DEF Doomed
    <3> QED  BY <1>5, <3>1, <3>3 DEF Relies
  <2> QED  BY <2>2, <2>3
<1>6. \A k : Listed(k, l)' => Listed(k, l)  BY DEF Listed
<1>7. Settled(l)' \subseteq Settled(l) /\ Runs(l)' \subseteq Runs(l)
  BY <1>4, <1>5, <1>6 DEF Settled, Runs
<1> QED  BY <1>3, <1>7 DEF NoMore

-----------------------------------------------------------------------------
(* What the steps do to the count itself.                                  *)
CountKept(l) == Covered(l)' /\ Within(l)'

LEMMA NoMoreKeeps ==
  ASSUME BudgetType, NEW l \in Limits, Covered(l), Within(l), NoMore(l),
         countFile'.counts[l] \in Nat, countFile.counts[l] <= countFile'.counts[l]
  PROVE  CountKept(l)
<1>1. /\ Cardinality(Owing(l)') \in Nat /\ Cardinality(Settled(l)') \in Nat
      /\ Cardinality(Owing(l)') + Cardinality(Settled(l)')
           <= Cardinality(Owing(l)) + Cardinality(Settled(l))
  BY Finite, SumKept DEF NoMore
<1>2. Cardinality(Runs(l)') <= Cardinality(Runs(l)) /\ Cardinality(Runs(l)') \in Nat
  BY Finite, FS_Subset, FS_CardinalityType DEF NoMore
<1>3. /\ Cardinality(Owing(l)) \in Nat /\ Cardinality(Settled(l)) \in Nat
      /\ Cardinality(Runs(l)) \in Nat /\ MaxOf[l] \in Nat /\ countFile.counts[l] \in Nat
  BY Finite, LimitsAssumption DEF BudgetType, Counts
<1>4. Covered(l)'  BY <1>1, <1>3 DEF Covered
<1>5. Within(l)'  BY <1>2, <1>3 DEF Within
<1> QED  BY <1>4, <1>5 DEF CountKept

(* A call that is let on with at most one count more, within the limit.    *)
LEMMA LetOn ==
  ASSUME BudgetType, NEW l \in Limits, Covered(l), NEW h,
         Settled(l)' \subseteq Settled(l), countFile'.counts[l] \in Nat,
         \/ Owing(l)' \subseteq Owing(l) /\ countFile.counts[l] <= countFile'.counts[l]
         \/ /\ Owing(l)' \subseteq Owing(l) \cup {h}
            /\ countFile'.counts[l] = countFile.counts[l] + 1,
         countFile'.counts[l] <= MaxOf[l]
  PROVE  CountKept(l)
<1>1. /\ IsFiniteSet(Owing(l)) /\ IsFiniteSet(Settled(l)) /\ Cardinality(Owing(l)) \in Nat
      /\ Cardinality(Settled(l)) \in Nat /\ MaxOf[l] \in Nat /\ countFile.counts[l] \in Nat
  BY Finite, LimitsAssumption DEF BudgetType, Counts
<1>2. /\ IsFiniteSet(Settled(l)') /\ Cardinality(Settled(l)') <= Cardinality(Settled(l))
      /\ Cardinality(Settled(l)') \in Nat
  BY <1>1, FS_Subset, FS_CardinalityType
<1>3. /\ IsFiniteSet(Owing(l)') /\ Cardinality(Owing(l)') \in Nat
      /\ Cardinality(Owing(l)') + Cardinality(Settled(l)) <= countFile'.counts[l]
  <2>1. Cardinality(Owing(l)) + Cardinality(Settled(l)) <= countFile.counts[l]  BY DEF Covered
  <2>2. CASE Owing(l)' \subseteq Owing(l) /\ countFile.counts[l] <= countFile'.counts[l]
    <3>1. /\ IsFiniteSet(Owing(l)') /\ Cardinality(Owing(l)') <= Cardinality(Owing(l))
          /\ Cardinality(Owing(l)') \in Nat
      BY <1>1, <2>2, FS_Subset, FS_CardinalityType
    <3> QED  BY <1>1, <2>1, <2>2, <3>1
  <2>3. CASE /\ Owing(l)' \subseteq Owing(l) \cup {h}
             /\ countFile'.counts[l] = countFile.counts[l] + 1
    <3>1. /\ IsFiniteSet(Owing(l) \cup {h})
          /\ Cardinality(Owing(l) \cup {h}) <= Cardinality(Owing(l)) + 1
          /\ Cardinality(Owing(l) \cup {h}) \in Nat
      <4> PICK O : O = Owing(l)  OBVIOUS
      <4>1. IsFiniteSet(O) /\ Cardinality(O) \in Nat  BY <1>1
      <4>2. IsFiniteSet(O \cup {h}) /\ Cardinality(O \cup {h}) <= Cardinality(O) + 1
        BY <4>1, FS_AddElement
      <4> QED  BY <4>2, FS_CardinalityType
    <3>2. /\ IsFiniteSet(Owing(l)') /\ Cardinality(Owing(l)') <= Cardinality(Owing(l) \cup {h})
          /\ Cardinality(Owing(l)') \in Nat
      BY <2>3, <3>1, FS_Subset, FS_CardinalityType
    <3> QED  BY <1>1, <2>1, <2>3, <3>1, <3>2
  <2> QED  BY <2>2, <2>3
<1>4. Covered(l)'  BY <1>1, <1>2, <1>3 DEF Covered
<1>5. Within(l)'
  <2> DEFINE f == [x \in Hooks |-> check'[x].group]
  <2>1. Runs(l)' \subseteq {f[x] : x \in Owing(l)'} \cup Settled(l)'
    <3>1. \A x \in Owing(l)' : f[x] = check'[x].group  BY DEF Owing
    <3>2. ASSUME NEW k \in Limited, Owed(k, l)'  PROVE \E x \in Owing(l)' : f[x] = k
      <4>1. \E x \in Owing(l)' : check'[x].group = k  BY <3>2 DEF Owed
      <4> QED  BY <3>1, <4>1
    <3> HIDE DEF f
    <3>3. \A k \in Runs(l)' : k \in Limited /\ (k \in Settled(l)' \/ Owed(k, l)')
      BY DEF Runs, Settled
    <3> QED  BY <3>2, <3>3
  <2> HIDE DEF f
  <2>2. /\ Cardinality(Runs(l)') \in Nat
        /\ Cardinality(Runs(l)') <= Cardinality(Owing(l)') + Cardinality(Settled(l)')
    BY <1>2, <1>3, <2>1, AtMostSum
  <2> QED  BY <1>1, <1>2, <1>3, <2>2 DEF Within
<1> QED  BY <1>4, <1>5 DEF CountKept

(* The lists of groups.                                                    *)
LEMMA ListAdds ==
  ASSUME NEW s \in Seq(Groups), NEW g \in Groups
  PROVE  /\ LastGroups(Append(s, g)) \in Seq(Groups)
         /\ ToSet(LastGroups(Append(s, g))) \subseteq ToSet(s) \cup {g}
<1> DEFINE a == Append(s, g)  t == Tail(a)
<1>1. /\ a \in Seq(Groups) /\ Len(s) \in Nat /\ DOMAIN s = 1..Len(s)
      /\ DOMAIN a = 1..(Len(s) + 1) /\ Len(a) = Len(s) + 1
      /\ \A i \in 1..Len(s) : a[i] = s[i]
      /\ a[Len(s) + 1] = g
  OBVIOUS
<1> HIDE DEF a
<1>2. ToSet(a) \subseteq ToSet(s) \cup {g}
  <2>1. \A i \in DOMAIN a : i \in DOMAIN s \/ i = Len(s) + 1  BY <1>1
  <2> QED  BY <1>1, <2>1 DEF ToSet
<1>3. CASE Len(a) > MaxGroups
  <2>1. LastGroups(a) = t  BY <1>3 DEF LastGroups
  <2>2. a # <<>>  BY <1>1
  <2>3. t \in Seq(Groups) /\ DOMAIN t = 1..Len(s) /\ \A i \in 1..Len(s) : t[i] = a[i + 1]
    BY <1>1, <2>2
  <2>4. \A i \in 1..Len(s) : i + 1 \in DOMAIN a  BY <1>1
  <2> HIDE DEF t
  <2>5. ToSet(t) \subseteq ToSet(a)  BY <2>3, <2>4 DEF ToSet
  <2> QED  BY <1>2, <2>1, <2>3, <2>5 DEF a
<1>4. CASE ~(Len(a) > MaxGroups)
  <2>1. LastGroups(a) = a  BY <1>4 DEF LastGroups
  <2> QED  BY <1>1, <1>2, <2>1 DEF a
<1> QED  BY <1>3, <1>4

Adds(new, old, g, i) ==
  \A j \in Guards : ToSet(new.groups[j])
                      \subseteq ToSet(old.groups[j]) \cup (IF j = i THEN {g} ELSE {})

Removes(new, old, g, i) ==
  \A j \in Guards : ToSet(new.groups[j])
                      \subseteq ToSet(old.groups[j]) \ (IF j = i THEN {g} ELSE {})

LEMMA ReservedFile ==
  ASSUME NEW file \in Counts, NEW g \in Groups, NEW i \in Guards, NEW ls \in SUBSET Limits
  PROVE  /\ Reserved(file, g, i, ls) \in Counts
         /\ \A l \in Limits : Reserved(file, g, i, ls).counts[l]
                                = IF l \in ls THEN file.counts[l] + 1 ELSE file.counts[l]
         /\ Adds(Reserved(file, g, i, ls), file, g, i)
<1> DEFINE r == Reserved(file, g, i, ls)
<1>1. file.counts \in [Limits -> Nat] /\ file.groups \in [Guards -> Seq(Groups)]  BY DEF Counts
<1>2. /\ r.counts = [l \in Limits |-> IF l \in ls THEN file.counts[l] + 1 ELSE file.counts[l]]
      /\ r.groups = [file.groups EXCEPT ![i] = LastGroups(Append(file.groups[i], g))]
      /\ r = [counts |-> r.counts, groups |-> r.groups]
  BY DEF Reserved
<1> HIDE DEF r
<1>3. r.counts \in [Limits -> Nat]  BY <1>1, <1>2
<1>4. file.groups[i] \in Seq(Groups)  BY <1>1
<1>5. /\ LastGroups(Append(file.groups[i], g)) \in Seq(Groups)
      /\ ToSet(LastGroups(Append(file.groups[i], g))) \subseteq ToSet(file.groups[i]) \cup {g}
  BY <1>4, ListAdds
<1>6. r.groups \in [Guards -> Seq(Groups)]  BY <1>1, <1>2, <1>5
<1>7. Adds(r, file, g, i)  BY <1>1, <1>2, <1>5 DEF Adds
<1>8. r \in Counts  BY <1>2, <1>3, <1>6 DEF Counts
<1> QED  BY <1>2, <1>7, <1>8 DEF r

LEMMA ReleasedFile ==
  ASSUME NEW file \in Counts, NEW g \in Groups, NEW i \in Guards, NEW ls \in SUBSET Limits
  PROVE  /\ Released(file, g, i, ls) \in Counts
         /\ \A l \in Limits : Released(file, g, i, ls).counts[l]
                                = IF l \in ls /\ file.counts[l] > 0 THEN file.counts[l] - 1
                                  ELSE file.counts[l]
         /\ Removes(Released(file, g, i, ls), file, g, i)
<1> DEFINE r == Released(file, g, i, ls)  kept == Keep(file.groups[i], Groups \ {g})
<1>1. file.counts \in [Limits -> Nat] /\ file.groups \in [Guards -> Seq(Groups)]  BY DEF Counts
<1>2. /\ r.counts = [l \in Limits |-> IF l \in ls /\ file.counts[l] > 0 THEN file.counts[l] - 1
                                      ELSE file.counts[l]]
      /\ r.groups = [file.groups EXCEPT ![i] = kept]
      /\ r = [counts |-> r.counts, groups |-> r.groups]
  BY DEF Released
<1> HIDE DEF r
<1>3. r.counts \in [Limits -> Nat]  BY <1>1, <1>2
<1>4. kept \in Seq(Groups) /\ ToSet(kept) \subseteq ToSet(file.groups[i]) \ {g}
  <2>1. file.groups[i] \in Seq(Groups)  BY <1>1
  <2>2. /\ kept \in Seq(Groups) /\ ToSet(kept) = ToSet(file.groups[i]) \cap (Groups \ {g})
    BY <2>1, KeepCorrect
  <2> HIDE DEF kept
  <2> QED  BY <2>2
<1> HIDE DEF kept
<1>5. r.groups \in [Guards -> Seq(Groups)]  BY <1>1, <1>2, <1>4
<1>6. Removes(r, file, g, i)  BY <1>1, <1>2, <1>4 DEF Removes
<1>7. r \in Counts  BY <1>2, <1>3, <1>5 DEF Counts
<1> QED  BY <1>2, <1>6, <1>7 DEF r

-----------------------------------------------------------------------------
(* A call that the session's list still has is not counted again.          *)
LEMMA ReadsRepeated ==
  ASSUME BudgetInv, NEW l \in Enforced \ ended, NEW h \in Hooks,
         check[h].phase = "read", check[h].op = "reserve",
         Repeated(countFile, check[h].group, check[h].at),
         check[h].group \notin AfterFact => ~Over(countFile, check[h].group, check[h].matched),
         check' = [check EXCEPT ![h] =
                     [check[h] EXCEPT !.phase = "unlock",
                                      !.limits = check[h].limits \cup check[h].matched]],
         UNCHANGED attempt, UNCHANGED spent, UNCHANGED countFile
  PROVE  CountKept(l)
<1> DEFINE c == check[h]  d == [c EXCEPT !.phase = "unlock", !.limits = c.limits \cup c.matched]
<1>1. /\ BudgetType /\ OpenInv /\ Coherent(c) /\ Reserving(c) /\ Covered(l) /\ Within(l)
      /\ l \in Limits /\ c \in CheckRecord /\ c.group \in Groups
      /\ c.limits \subseteq Touches[c.group]
  BY LimitsAssumption DEF BudgetInv, CallsInv, CountInv, BudgetType, Coherent, Waiting
<1>2. /\ d.group = c.group /\ d.op = c.op /\ d.held = c.held /\ d.outcome = c.outcome
      /\ d.limits = c.limits \cup c.matched /\ check' = [check EXCEPT ![h] = d]
  <2>1. check' = [check EXCEPT ![h] = d]  OBVIOUS
  <2> PICK b : b = check[h]  OBVIOUS
  <2>2. d = [b EXCEPT !.phase = "unlock", !.limits = b.limits \cup b.matched]  OBVIOUS
  <2>3. b \in CheckRecord  BY <1>1
  <2>4. /\ d.group = b.group /\ d.op = b.op /\ d.held = b.held /\ d.outcome = b.outcome
        /\ d.limits = b.limits \cup b.matched
    BY <2>2, <2>3 DEF CheckRecord
  <2> QED  BY <2>1, <2>4
<1> HIDE DEF d
<1>3. \A k : Listed(k, l)' <=> Listed(k, l)  BY DEF Listed
<1>4. /\ c.at \notin c.held /\ c.matched \subseteq Under(c.group, c.at)
      /\ Under(c.group, c.at) \ ended \subseteq c.matched
  BY <1>1 DEF Reserving, Waiting
<1>5. Holding(d, l) => Holding(c, l)
  BY <1>2, <1>4 DEF Holding, Under
<1>6. /\ countFile.counts[l] \in Nat /\ countFile.counts[l] <= countFile.counts[l]
      /\ countFile' = countFile
  BY <1>1 DEF BudgetType, Counts
<1>7. CASE l \notin c.matched \/ c.group \notin Limited
  <2>1. Doomed(c) => Doomed(d)  BY <1>2 DEF Doomed
  <2>2. c.group \in Limited =>
          /\ l \in d.limits => l \in c.limits \/ Doomed(d)
          /\ Holding(d, l) => Holding(c, l)
    BY <1>2, <1>5, <1>7
  <2>3. \A k \in Limited : Listed(k, l)' => Listed(k, l)  BY <1>3
  <2>4. NoMore(l)  BY <1>1, <1>2, <2>1, <2>2, <2>3, GoesOn
  <2> QED  BY <1>1, <1>6, <2>4, NoMoreKeeps
<1>8. CASE l \in c.matched /\ c.group \in Limited
  <2> PICK g : g = c.group  OBVIOUS
  <2>1. l \in Touches[g] /\ GuardOf[l] = c.at  BY <1>4, <1>8 DEF Under
  <2>2. Listed(g, l) /\ Repeated(countFile, g, GuardOf[l])
    BY <2>1 DEF Listed, Repeated, Contains, ToSet
  <2>3. countFile.counts[l] <= MaxOf[l]
    <3>1. ~Over(countFile, g, c.matched)  BY <1>8 DEF Limited
    <3>2. ~(CountWith(countFile, g, l) > MaxOf[l])  BY <1>8, <3>1 DEF Over
    <3>3. MaxOf[l] \in Nat  BY <1>1, LimitsAssumption
    <3> QED  BY <1>6, <2>2, <3>2, <3>3 DEF CountWith
  <2>4. \A x \in Hooks \ {h} : check'[x] = check[x]  BY <1>1 DEF BudgetType
  <2>5. check'[h] = d  BY <1>1, <1>2 DEF BudgetType
  <2>6. h \in Owing(l)' => h \in Owing(l)
    <3>1. Holding(check[h], l)' <=> Holding(d, l)  BY <2>5 DEF Holding
    <3> QED  BY <1>2, <1>5, <2>5, <3>1 DEF Owing
  <2>7. h \in Owing(l) => h \in Owing(l)'
    <3>1. Holding(c, l) => Holding(d, l)
      <4>1. c.op = "reserve"  OBVIOUS
      <4> QED  BY <1>2, <4>1 DEF Holding
    <3>2. Holding(check[h], l)' <=> Holding(d, l)  BY <2>5 DEF Holding
    <3> QED  BY <1>2, <2>5, <3>1, <3>2 DEF Owing
  <2>8. OnlyOf(h, g, l)
    <3>1. ASSUME NEW k \in Limited \ {g}, Relies(k, l)'  PROVE Relies(k, l)
      <4>1. \A x \in attempt[k].open : x \in Hooks \ {h}
        BY <1>1, <3>1 DEF BudgetType, AttemptRecord, OpenInv, Limited
      <4>2. \A x \in attempt[k].open : check'[x] = check[x] /\ (Doomed(check[x])' <=> Doomed(check[x]))
        BY <2>4, <4>1 DEF Doomed
      <4> QED  BY <3>1, <4>2 DEF Relies
    <3> QED  BY <1>2, <1>3, <2>4, <2>5, <3>1 DEF OnlyOf
  <2>9. Owing(l)' \subseteq Owing(l) /\ Owing(l) \subseteq Owing(l)'
    BY <1>1, <2>6, <2>7, <2>8, OthersSame
  <2>10. g \in Settled(l)' => g \in Settled(l)
    <3> SUFFICES ASSUME g \in Settled(l)'  PROVE g \in Settled(l)  OBVIOUS
    <3>1. g \in Limited /\ (g \in spent[l] \/ ~Owed(g, l)')  BY DEF Settled
    <3>2. Owed(g, l) => Owed(g, l)'
      <4> SUFFICES ASSUME NEW x \in Owing(l), check[x].group = g  PROVE Owed(g, l)'  BY DEF Owed
      <4>1. x \in Owing(l)' /\ x \in Hooks  BY <2>9 DEF Owing
      <4>2. check'[x].group = g  BY <1>2, <2>4, <2>5, <4>1
      <4> QED  BY <4>1, <4>2 DEF Owed
    <3> QED  BY <2>2, <3>1, <3>2 DEF Settled
  <2>11. Settled(l)' \subseteq Settled(l)  BY <1>1, <2>8, <2>10, OthersSame
  <2> QED  BY <1>1, <1>6, <2>3, <2>9, <2>11, LetOn
<1> QED  BY <1>7, <1>8

(* What a process of the session has written.                              *)
Written(c, d, kept) ==
  /\ d.phase = "unlock" /\ d.group = c.group /\ d.op = c.op /\ d.outcome = c.outcome
  /\ IF kept THEN d.limits = c.limits /\ d.held = c.held
     ELSE d.limits = c.limits \cup c.matched /\ d.held = c.held \cup {c.at}

(* A reservation is written: one call more, and one process that owes it.  *)
LEMMA WritesReserved ==
  ASSUME BudgetInv, NEW l \in Enforced \ ended, NEW h \in Hooks, NEW d,
         check[h].phase = "write", check[h].op = "reserve", Written(check[h], d, FALSE),
         check' = [check EXCEPT ![h] = d], countFile' = check[h].copy,
         UNCHANGED attempt, UNCHANGED spent
  PROVE  CountKept(l)
<1> PICK c : c = check[h]  OBVIOUS
<1>1. /\ BudgetType /\ OpenInv /\ Coherent(c) /\ Current(c) /\ Covered(l) /\ Within(l)
      /\ l \in Limits /\ c \in CheckRecord /\ c.phase = "write" /\ c.op = "reserve"
      /\ Written(c, d, FALSE)
  BY LimitsAssumption DEF BudgetInv, CallsInv, CountInv, BudgetType
<1>2. /\ c.group \in Groups /\ c.limits \subseteq Touches[c.group] /\ Reserving(c)
      /\ countFile' = Reserved(countFile, c.group, c.at, c.matched)
      /\ c.group \notin AfterFact => ~Over(countFile, c.group, c.matched)
      /\ ~Repeated(countFile, c.group, c.at)
  BY <1>1 DEF Coherent, Current, Waiting
<1>3. /\ c.at \notin c.held /\ c.matched \subseteq Under(c.group, c.at)
      /\ Under(c.group, c.at) \ ended \subseteq c.matched
  BY <1>1, <1>2 DEF Reserving, Waiting
<1>4. c.at \in Guards /\ c.matched \in SUBSET Limits /\ countFile \in Counts
  BY <1>1 DEF BudgetType, CheckRecord
<1>5. /\ countFile'.counts[l] = IF l \in c.matched THEN countFile.counts[l] + 1
                                ELSE countFile.counts[l]
      /\ countFile' \in Counts /\ countFile.counts[l] \in Nat /\ countFile'.counts[l] \in Nat
  <2>1. \A f \in Counts : f.counts[l] \in Nat  BY <1>1 DEF Counts
  <2> QED  BY <1>1, <1>2, <1>4, <2>1, ReservedFile
<1>6. GuardOf[l] \in Guards  BY <1>1, LimitsAssumption DEF Guards
<1>7. \A k : Listed(k, l)' => Listed(k, l) \/ (k = c.group /\ GuardOf[l] = c.at)
  <2>1. Adds(countFile', countFile, c.group, c.at)  BY <1>2, <1>4, ReservedFile
  <2>2. ToSet(countFile'.groups[GuardOf[l]]) \subseteq
          ToSet(countFile.groups[GuardOf[l]]) \cup (IF GuardOf[l] = c.at THEN {c.group} ELSE {})
    BY <1>6, <2>1 DEF Adds
  <2> QED  BY <2>2 DEF Listed
<1>8. /\ d.phase = "unlock" /\ d.group = c.group /\ d.op = c.op /\ d.outcome = c.outcome
      /\ d.limits = c.limits \cup c.matched /\ d.held = c.held \cup {c.at}
  BY <1>1 DEF Written
<1>9. CASE l \notin c.matched \/ c.group \notin Limited
  <2>1. c.group \in Limited => ~(l \in Touches[c.group] /\ GuardOf[l] = c.at)
    BY <1>1, <1>3, <1>9 DEF Under
  <2>2. \A k \in Limited : Listed(k, l)' => Listed(k, l)
    <3>1. Listed(c.group, l)' => l \in Touches[c.group]  BY <1>8 DEF Listed
    <3> SUFFICES ASSUME NEW k \in Limited, Listed(k, l)'  PROVE Listed(k, l)  OBVIOUS
    <3>2. l \in Touches[k]  BY DEF Listed
    <3> QED  BY <1>7, <2>1, <3>2
  <2>3. c.group \in Limited => (Holding(d, l) => Holding(c, l))
    BY <1>1, <1>2, <1>8, <1>9, <2>1 DEF Holding
  <2>4. NoMore(l)
    <3>1. Doomed(c) => Doomed(d)  BY <1>8 DEF Doomed
    <3>2. c.group \in Limited => (l \in d.limits => l \in c.limits \/ Doomed(d))  BY <1>8, <1>9
    <3> QED  BY <1>1, <1>8, <2>2, <2>3, <3>1, <3>2, GoesOn
  <2>5. countFile.counts[l] <= countFile'.counts[l]  BY <1>5
  <2> QED  BY <1>1, <1>5, <2>4, <2>5, NoMoreKeeps
<1>10. CASE l \in c.matched /\ c.group \in Limited
  <2> PICK g : g = c.group  OBVIOUS
  <2>1. l \in Touches[g] /\ GuardOf[l] = c.at  BY <1>3, <1>10 DEF Under
  <2>2. countFile.counts[l] + 1 <= MaxOf[l]
    <3>1. ~Over(countFile, g, c.matched)  BY <1>2, <1>10 DEF Limited
    <3>2. ~(CountWith(countFile, g, l) > MaxOf[l])  BY <1>10, <3>1 DEF Over
    <3>3. MaxOf[l] \in Nat  BY <1>1, LimitsAssumption
    <3> QED  BY <1>2, <1>5, <2>1, <3>2, <3>3 DEF CountWith
  <2>3. check'[h] = d /\ \A x \in Hooks \ {h} : check'[x] = check[x]  BY <1>1 DEF BudgetType
  <2>4. OnlyOf(h, g, l)
    <3>1. ASSUME NEW k \in Limited \ {g}, Relies(k, l)'  PROVE Relies(k, l)
      <4>1. \A x \in attempt[k].open : x \in Hooks \ {h}
        BY <1>1, <3>1 DEF BudgetType, AttemptRecord, OpenInv, Limited
      <4>2. \A x \in attempt[k].open : check'[x] = check[x] /\ (Doomed(check[x])' <=> Doomed(check[x]))
        BY <2>3, <4>1 DEF Doomed
      <4> QED  BY <3>1, <4>2 DEF Relies
    <3>2. \A k \in Limited \ {g} : Listed(k, l)' => Listed(k, l)  BY <1>7
    <3> QED  BY <1>8, <2>3, <3>1, <3>2 DEF OnlyOf
  <2>5. h \in Owing(l)'
    <3>1. Holding(d, l)  BY <1>8, <1>10, <2>1 DEF Holding
    <3>2. Holding(check[h], l)'  BY <2>3, <3>1 DEF Holding
    <3> QED  BY <1>8, <1>10, <2>3, <3>2 DEF Owing
  <2>6. g \in Settled(l)' => g \in Settled(l)
    <3>1. Owed(g, l)'  BY <1>8, <2>3, <2>5 DEF Owed
    <3> QED  BY <3>1 DEF Settled
  <2>7. Settled(l)' \subseteq Settled(l) /\ Owing(l)' \subseteq Owing(l) \cup {h}
    BY <1>1, <2>4, <2>6, OthersSame
  <2>8. countFile'.counts[l] = countFile.counts[l] + 1 /\ countFile'.counts[l] <= MaxOf[l]
    BY <1>5, <1>10, <2>2
  <2> QED  BY <1>1, <1>5, <2>7, <2>8, LetOn
<1> QED  BY <1>9, <1>10

(* A count is given back: one call less, and one process less that owes.   *)
LEMMA WritesReleased ==
  ASSUME BudgetInv, NEW l \in Enforced \ ended, NEW h \in Hooks, NEW d,
         check[h].phase = "write", check[h].op = "release", Written(check[h], d, TRUE),
         check' = [check EXCEPT ![h] = d], countFile' = check[h].copy,
         UNCHANGED attempt, UNCHANGED spent
  PROVE  CountKept(l)
<1> PICK c : c = check[h]  OBVIOUS
<1>1. /\ BudgetType /\ OpenInv /\ Coherent(c) /\ Current(c) /\ Covered(l) /\ Within(l)
      /\ l \in Limits /\ c \in CheckRecord /\ c.phase = "write" /\ c.op = "release"
      /\ Written(c, d, TRUE) /\ h \in attempt[c.group].open
  BY LimitsAssumption DEF BudgetInv, CallsInv, CountInv, BudgetType
<1>2. /\ c.group \in Limited /\ c.at \notin c.held /\ c.matched = {m \in c.limits : GuardOf[m] = c.at}
      /\ countFile' = Released(countFile, c.group, c.at, c.matched)
  BY <1>1 DEF Coherent, Current, Waiting, Releasing, Limited
<1>3. c.at \in Guards /\ c.matched \in SUBSET Limits /\ countFile \in Counts /\ c.group \in Groups
  BY <1>1, <1>2 DEF BudgetType, CheckRecord, Limited
<1>4. /\ countFile'.counts[l] = IF l \in c.matched /\ countFile.counts[l] > 0
                                THEN countFile.counts[l] - 1 ELSE countFile.counts[l]
      /\ countFile' \in Counts /\ countFile.counts[l] \in Nat /\ countFile'.counts[l] \in Nat
  <2>1. \A f \in Counts : f.counts[l] \in Nat  BY <1>1 DEF Counts
  <2> QED  BY <1>1, <1>2, <1>3, <2>1, ReleasedFile
<1>5. GuardOf[l] \in Guards  BY <1>1, LimitsAssumption DEF Guards
<1>6. ToSet(countFile'.groups[GuardOf[l]]) \subseteq
        ToSet(countFile.groups[GuardOf[l]]) \ (IF GuardOf[l] = c.at THEN {c.group} ELSE {})
  <2>1. Removes(countFile', countFile, c.group, c.at)  BY <1>2, <1>3, ReleasedFile
  <2> QED  BY <1>5, <2>1 DEF Removes
<1>7. \A k : Listed(k, l)' => Listed(k, l)  BY <1>6 DEF Listed
<1>8. /\ d.phase = "unlock" /\ d.group = c.group /\ d.op = c.op /\ d.outcome = c.outcome
      /\ d.limits = c.limits /\ d.held = c.held
  BY <1>1 DEF Written
<1>9. Doomed(c) /\ Doomed(d)  BY <1>1, <1>8 DEF Doomed
<1>10. NoMore(l)
  <2>1. Holding(d, l) => Holding(c, l)  BY <1>8 DEF Holding, Waiting
  <2> QED  BY <1>1, <1>7, <1>8, <1>9, <2>1, GoesOn
<1>11. CASE l \notin c.matched
  <2>1. countFile.counts[l] <= countFile'.counts[l]  BY <1>4, <1>11
  <2> QED  BY <1>1, <1>4, <1>10, <2>1, NoMoreKeeps
<1>12. CASE l \in c.matched
  <2> PICK g : g = c.group  OBVIOUS
  <2>1. check'[h] = d /\ \A x \in Hooks \ {h} : check'[x] = check[x]  BY <1>1 DEF BudgetType
  <2>2. h \in Owing(l)
    <3>1. Holding(c, l)  BY <1>1, <1>12 DEF Holding, Waiting
    <3> QED  BY <1>2, <3>1 DEF Owing
  <2>3. h \notin Owing(l)'
    <3>1. GuardOf[l] = c.at  BY <1>2, <1>12
    <3>2. ~Holding(d, l)  BY <1>2, <1>8, <3>1 DEF Holding, Waiting
    <3>3. Holding(check[h], l)' <=> Holding(d, l)  BY <2>1 DEF Holding
    <3> QED  BY <3>2, <3>3 DEF Owing
  <2>4. g \in Settled(l)' => g \in Settled(l)
    <3>1. ~Listed(g, l)'  BY <1>2, <1>6, <1>12 DEF Listed
    <3>2. ~Relies(g, l)'
      <4>1. Doomed(check[h])'  BY <1>9, <2>1 DEF Doomed
      <4> QED  BY <1>1, <4>1 DEF Relies
    <3> QED  BY <3>1, <3>2 DEF Settled
  <2>5. OnlyOf(h, g, l)
    <3>1. ASSUME NEW k \in Limited \ {g}, Relies(k, l)'  PROVE Relies(k, l)
      <4>1. \A x \in attempt[k].open : x \in Hooks \ {h}
        BY <1>1, <3>1 DEF BudgetType, AttemptRecord, OpenInv, Limited
      <4>2. \A x \in attempt[k].open : check'[x] = check[x] /\ (Doomed(check[x])' <=> Doomed(check[x]))
        BY <2>1, <4>1 DEF Doomed
      <4> QED  BY <3>1, <4>2 DEF Relies
    <3> QED  BY <1>7, <1>8, <2>1, <3>1 DEF OnlyOf
  <2>6. Owing(l)' \subseteq Owing(l) \ {h} /\ Settled(l)' \subseteq Settled(l)
    BY <1>1, <2>3, <2>4, <2>5, OthersSame
  <2> PICK O : O = Owing(l)  OBVIOUS
  <2> PICK S : S = Settled(l)  OBVIOUS
  <2>7. /\ IsFiniteSet(O) /\ Cardinality(O) \in Nat /\ IsFiniteSet(S) /\ Cardinality(S) \in Nat
        /\ Cardinality(O) + Cardinality(S) <= countFile.counts[l] /\ h \in O
    BY <1>1, <2>2, Finite DEF Covered
  <2>8. IsFiniteSet(O \ {h}) /\ Cardinality(O \ {h}) = Cardinality(O) - 1
    BY <2>7, FS_RemoveElement
  <2>9. /\ Cardinality(Owing(l)') <= Cardinality(O \ {h}) /\ Cardinality(Owing(l)') \in Nat
        /\ Cardinality(Settled(l)') <= Cardinality(S) /\ Cardinality(Settled(l)') \in Nat
    BY <2>6, <2>7, <2>8, FS_Subset, FS_CardinalityType
  <2>10. Cardinality(O \ {h}) \in Nat  BY <2>8, FS_CardinalityType
  <2>11. countFile'.counts[l] = countFile.counts[l] - 1
    BY <1>4, <1>12, <2>7, <2>8, <2>10
  <2>12. Covered(l)'  BY <1>4, <2>7, <2>8, <2>9, <2>11 DEF Covered
  <2>13. Within(l)'
    <3>1. /\ Cardinality(Runs(l)') <= Cardinality(Runs(l)) /\ Cardinality(Runs(l)') \in Nat
          /\ Cardinality(Runs(l)) \in Nat /\ MaxOf[l] \in Nat
      BY <1>1, <1>10, Finite, LimitsAssumption, FS_Subset, FS_CardinalityType DEF NoMore
    <3> QED  BY <1>1, <3>1 DEF Within
  <2> QED  BY <2>12, <2>13 DEF CountKept
<1> QED  BY <1>11, <1>12

-----------------------------------------------------------------------------
(* How a call moves on.                                                    *)

LEMMA FirstGuard ==
  ASSUME NEW S \in SUBSET Guards, S # {}
  PROVE  \E i \in S : i = CHOOSE j \in S : \A k \in S : j <= k
<1>1. \E j \in S : \A k \in S : j <= k
  <2>1. CASE 1 \in S  BY <2>1 DEF Guards
  <2>2. CASE 1 \notin S
    <3>1. \A j \in S : j = 2  BY <2>2 DEF Guards
    <3>2. PICK j \in S : TRUE  OBVIOUS
    <3>3. j \in S /\ \A k \in S : j <= k  BY <3>1, <3>2
    <3> QED  BY <3>3
  <2> QED  BY <2>1, <2>2
<1> QED  BY <1>1

(* The call is refused, and no count is left to give back ...              *)
Done(c, d) ==
  d.phase = "idle" /\ d.outcome = "deny" /\ (c.held = {} \/ c.group \in AfterFact)

(* ... or there is one, of a guard that counted.                           *)
GivesBack(c, d) ==
  /\ d.phase = "lock" /\ d.op = "release" /\ d.outcome = "deny" /\ c.group \notin AfterFact
  /\ d.at \in c.held /\ d.held = c.held \ {d.at}
  /\ d.matched = {l \in c.limits : GuardOf[l] = d.at}

(* The call is let on to a later guard ...                                 *)
AsksNext(c, d, i) ==
  /\ d.phase = "lock" /\ d.op = "reserve" /\ d.outcome = "allow"
  /\ d.held = c.held /\ d.at >= i
  /\ d.matched = Matched(c.group, d.at)

(* ... or to the rules.                                                    *)
Passes(c, d) ==
  d.phase = "rules" /\ d.op = c.op /\ d.outcome = c.outcome /\ d.held = c.held

SameCall(c, d) == d \in CheckRecord /\ d.group = c.group /\ d.limits = c.limits

LEMMA RefuseShape ==
  ASSUME NEW c \in CheckRecord
  PROVE  SameCall(c, Refuse(c)) /\ (Done(c, Refuse(c)) \/ GivesBack(c, Refuse(c)))
<1> PICK r : r = Refuse(c)  OBVIOUS
<1>1. CASE c.held # {} /\ c.group \notin AfterFact
  <2>1. c.held \in SUBSET Guards  BY DEF CheckRecord
  <2>2. PICK i \in c.held : i = CHOOSE j \in c.held : \A k \in c.held : j <= k
    BY <1>1, <2>1, FirstGuard
  <2> PICK m : m = {l \in c.limits : GuardOf[l] = i}  OBVIOUS
  <2> PICK left : left = c.held \ {i}  OBVIOUS
  <2>3. r = [c EXCEPT !.phase = "lock", !.op = "release", !.at = i, !.held = left,
                      !.matched = m, !.outcome = "deny"]
    BY <1>1, <2>2 DEF Refuse
  <2>4. i \in Guards /\ m \in SUBSET Limits /\ left \in SUBSET Guards
    BY <2>1 DEF CheckRecord
  <2>5. /\ r \in CheckRecord /\ r.group = c.group /\ r.limits = c.limits /\ r.phase = "lock"
        /\ r.op = "release" /\ r.at = i /\ r.held = left /\ r.matched = m
        /\ r.outcome = "deny"
    BY <2>3, <2>4 DEF CheckRecord, Phases
  <2> QED  BY <1>1, <2>5 DEF SameCall, GivesBack
<1>2. CASE ~(c.held # {} /\ c.group \notin AfterFact)
  <2>1. r = [c EXCEPT !.phase = "idle", !.outcome = "deny"]  BY <1>2 DEF Refuse
  <2>2. /\ r \in CheckRecord /\ r.group = c.group /\ r.limits = c.limits /\ r.phase = "idle"
        /\ r.outcome = "deny"
    BY <2>1 DEF CheckRecord, Phases
  <2> QED  BY <1>2, <2>2 DEF SameCall, Done
<1> QED  BY <1>1, <1>2

LEMMA AskShape ==
  ASSUME NEW c \in CheckRecord, c.group \in Groups, NEW i \in 1..3
  PROVE  /\ SameCall(c, AskGuard(c, i))
         /\ \/ Passes(c, AskGuard(c, i))
            \/ AsksNext(c, AskGuard(c, i), i)
            \/ AskGuard(c, i) = Refuse(c)
<1> DEFINE concerned == {j \in i..2 : LaunchRefused(c.group, j) \/ Matched(c.group, j) # {}}
<1> PICK r : r = AskGuard(c, i)  OBVIOUS
<1>1. CASE concerned = {}
  <2>1. r = [c EXCEPT !.phase = "rules"]  BY <1>1 DEF AskGuard
  <2>2. /\ r \in CheckRecord /\ r.group = c.group /\ r.limits = c.limits /\ r.phase = "rules"
        /\ r.op = c.op /\ r.outcome = c.outcome /\ r.held = c.held
    BY <2>1 DEF CheckRecord, Phases
  <2> QED  BY <2>2 DEF SameCall, Passes
<1>2. CASE concerned # {}
  <2>1. concerned \in SUBSET Guards /\ concerned \subseteq i..2  BY DEF Guards
  <2> HIDE DEF concerned
  <2>2. PICK n \in concerned : n = CHOOSE j \in concerned : \A k \in concerned : j <= k
    BY <1>2, <2>1, FirstGuard
  <2>3. r = IF LaunchRefused(c.group, n) THEN Refuse(c)
            ELSE [c EXCEPT !.phase = "lock", !.op = "reserve", !.at = n, !.outcome = "allow",
                           !.matched = Matched(c.group, n)]
    BY <1>2, <2>2 DEF AskGuard, concerned
  <2>4. CASE LaunchRefused(c.group, n)
    <3>1. r = Refuse(c)  BY <2>3, <2>4
    <3> QED  BY <3>1, RefuseShape
  <2>5. CASE ~LaunchRefused(c.group, n)
    <3> PICK m : m = Matched(c.group, n)  OBVIOUS
    <3>1. n \in Guards /\ n >= i /\ m \in SUBSET Limits
      BY <2>1, LimitsAssumption DEF Matched
    <3>2. r = [c EXCEPT !.phase = "lock", !.op = "reserve", !.at = n, !.outcome = "allow",
                        !.matched = m]
      BY <2>3, <2>5
    <3>3. /\ r \in CheckRecord /\ r.group = c.group /\ r.limits = c.limits /\ r.phase = "lock"
          /\ r.op = "reserve" /\ r.at = n /\ r.outcome = "allow" /\ r.matched = m
          /\ r.held = c.held
      BY <3>1, <3>2 DEF CheckRecord, Phases
    <3> QED  BY <3>1, <3>3 DEF SameCall, AsksNext
  <2> QED  BY <2>4, <2>5
<1> QED  BY <1>1, <1>2

(* What a process that counts no further knows: as before, or without a    *)
(* count to be had.                                                        *)
Leaves(c, e) ==
  /\ e \in CheckRecord /\ e.group = c.group /\ e.op = c.op /\ e.at = c.at /\ e.held = c.held
  /\ \/ e.limits = c.limits /\ e.outcome = c.outcome
     \/ /\ c.phase = "lock"
        /\ e.limits = c.limits \cup c.matched /\ e.outcome = WhenUnavailable(c)

MovesOn(e, d) ==
  /\ SameCall(e, d)
  /\ \/ Done(e, d) \/ GivesBack(e, d)
     \/ e.op = "reserve" /\ e.outcome = "allow" /\ (AsksNext(e, d, e.at + 1) \/ Passes(e, d))

LEMMA AfterLockMoves ==
  ASSUME NEW e \in CheckRecord, e.group \in Groups
  PROVE  MovesOn(e, AfterLock(e))
<1>1. CASE e.op = "release" \/ e.outcome = "deny"
  <2>1. AfterLock(e) = Refuse(e)  BY <1>1 DEF AfterLock
  <2> QED  BY <2>1, RefuseShape DEF MovesOn
<1>2. CASE ~(e.op = "release" \/ e.outcome = "deny")
  <2>1. /\ AfterLock(e) = AskGuard(e, e.at + 1) /\ e.at + 1 \in 1..3
        /\ e.op = "reserve" /\ e.outcome = "allow"
    BY <1>2 DEF AfterLock, CheckRecord, Guards
  <2>2. SameCall(e, AskGuard(e, e.at + 1))  BY <2>1, AskShape
  <2>3. \/ Passes(e, AskGuard(e, e.at + 1))
        \/ AsksNext(e, AskGuard(e, e.at + 1), e.at + 1)
        \/ AskGuard(e, e.at + 1) = Refuse(e)
    BY <2>1, AskShape
  <2> QED  BY <2>1, <2>2, <2>3, RefuseShape DEF MovesOn
<1> QED  BY <1>1, <1>2

LEMMA MovesOnKeeps ==
  ASSUME NEW c \in CheckRecord, Coherent(c), c.phase \in {"lock", "unlock", "rules"},
         NEW e, Leaves(c, e), NEW d, MovesOn(e, d), d.phase # "idle",
         c.phase = "rules" => GivesBack(e, d)
  PROVE  /\ d \in CheckRecord /\ d.group = c.group /\ d.phase \in {"lock", "rules"}
         /\ Coherent(d) /\ (Doomed(c) => Doomed(d))
         /\ \A l \in Enforced : c.group \in Limited =>
              /\ l \in d.limits => l \in c.limits \/ Doomed(d)
              /\ Holding(d, l) => Holding(c, l)
<1>1. /\ d \in CheckRecord /\ d.group = c.group /\ d.limits = e.limits /\ e.held = c.held
      /\ e.op = c.op /\ e.at = c.at /\ e.group = c.group
      /\ c.at \in Guards /\ c.limits \in SUBSET Limits /\ c.matched \in SUBSET Limits
  BY DEF MovesOn, SameCall, Leaves, CheckRecord
<1>2. c.group \in Groups /\ c.limits \subseteq Touches[c.group]  BY DEF Coherent
<1>3. c.phase = "lock" => /\ c.matched \subseteq Touches[c.group]
                          /\ \A l \in c.matched : GuardOf[l] \notin c.held \/ l \in c.limits
                          /\ Doomed(c) <=> c.op = "release"
                          /\ c.op = "release" => c.matched \subseteq c.limits
  <2> SUFFICES ASSUME c.phase = "lock"
               PROVE  /\ c.matched \subseteq Touches[c.group]
                      /\ \A l \in c.matched : GuardOf[l] \notin c.held \/ l \in c.limits
                      /\ Doomed(c) <=> c.op = "release"
                      /\ c.op = "release" => c.matched \subseteq c.limits
    OBVIOUS
  <2>1. CASE c.op = "reserve"
    <3>1. Reserving(c)  BY <2>1 DEF Coherent, Waiting
    <3> QED  BY <2>1, <3>1 DEF Reserving, Under, Waiting, Doomed
  <2>2. CASE c.op = "release"
    <3>1. Releasing(c)  BY <2>2 DEF Coherent, Waiting
    <3> QED  BY <1>2, <2>2, <3>1 DEF Releasing, Doomed
  <2> QED  BY <2>1, <2>2 DEF CheckRecord
<1>4. /\ e.limits \subseteq Touches[c.group]
      /\ \A l \in e.limits : l \in c.limits \/ (c.phase = "lock" /\ l \in c.matched)
      /\ \A l \in e.limits : GuardOf[l] \in c.held => l \in c.limits
  BY <1>2, <1>3 DEF Leaves
<1>5. CASE GivesBack(e, d)
  <2>1. /\ d.phase = "lock" /\ d.op = "release" /\ Doomed(d) /\ d.at \in c.held
        /\ d.held = c.held \ {d.at} /\ d.group \notin AfterFact
        /\ d.matched = {l \in d.limits : GuardOf[l] = d.at}
    BY <1>1, <1>5 DEF GivesBack, Doomed
  <2>2. Coherent(d)  BY <1>1, <1>2, <1>4, <2>1 DEF Coherent, Releasing
  <2>3. \A l \in Enforced : Holding(d, l) => Holding(c, l)  BY <1>1, <1>4, <2>1 DEF Holding
  <2> QED  BY <1>1, <2>1, <2>2, <2>3
<1>6. CASE e.op = "reserve" /\ e.outcome = "allow" /\ c.phase # "rules"
           /\ (AsksNext(e, d, e.at + 1) \/ Passes(e, d))
  <2>1. /\ d.op = "reserve" /\ d.outcome = "allow" /\ d.held = c.held
        /\ c.op = "reserve" /\ ~Doomed(c)
    <3>1. d.op = "reserve" /\ d.outcome = "allow" /\ d.held = c.held /\ c.op = "reserve"
      BY <1>1, <1>6 DEF AsksNext, Passes
    <3>2. ~Doomed(c)
      <4>1. CASE e.outcome = c.outcome  BY <1>6, <3>1, <4>1 DEF Doomed
      <4>2. CASE c.phase = "lock"  BY <1>3, <3>1, <4>2
      <4> QED  BY <4>1, <4>2 DEF Leaves
    <3> QED  BY <3>1, <3>2
  <2>2. Reserving(c)  BY <1>6, <2>1 DEF Coherent, Waiting
  <2>3. Coherent(d)
    <3>1. CASE AsksNext(e, d, e.at + 1)
      <4>1. d.at \in Guards /\ d.at >= c.at + 1 /\ d.phase = "lock" /\ d.matched = Matched(d.group, d.at)
        BY <1>1, <3>1 DEF AsksNext, CheckRecord
      <4>2. \A i \in c.held : i \in Guards /\ i <= c.at  BY <2>2 DEF Reserving, CheckRecord
      <4>3. d.at \notin d.held /\ \A i \in d.held : i <= d.at  BY <1>1, <2>1, <4>1, <4>2 DEF Guards
      <4>4. Reserving(d)  BY <2>1, <4>1, <4>3 DEF Reserving, Matched, Under
      <4> QED  BY <1>1, <1>2, <1>4, <2>1, <4>1, <4>4 DEF Coherent
    <3>2. CASE Passes(e, d)
      <4>1. d.phase = "rules"  BY <3>2 DEF Passes
      <4> QED  BY <1>1, <1>2, <1>4, <2>1, <4>1 DEF Coherent, Waiting
    <3> QED  BY <1>6, <3>1, <3>2
  <2>4. \A l \in Enforced : c.group \in Limited => (l \in d.limits => l \in c.limits)
    <3> SUFFICES ASSUME NEW l \in Enforced, c.group \in Limited, l \in e.limits
      PROVE l \in c.limits
      BY <1>1
    <3>1. CASE e.limits = c.limits  BY <3>1
    <3>2. CASE e.outcome = WhenUnavailable(c) /\ e.limits = c.limits \cup c.matched
      <4>1. c.matched \cap Enforced = {}  BY <1>6, <3>2 DEF WhenUnavailable, Limited
      <4> QED  BY <3>2, <4>1
    <3> QED  BY <3>1, <3>2 DEF Leaves
  <2>5. \A l \in Enforced : Holding(d, l) => Holding(c, l)  BY <1>1, <1>4, <2>1 DEF Holding
  <2>6. d.phase \in {"lock", "rules"}  BY <1>6 DEF AsksNext, Passes
  <2> QED  BY <1>1, <2>1, <2>3, <2>4, <2>5, <2>6
<1> QED  BY <1>5, <1>6 DEF MovesOn, Done

-----------------------------------------------------------------------------
(* What a step of process h keeps of the others.                           *)

(* A process that has the lock keeps it, and what it read is still there.  *)
Undisturbed(h) ==
  \A x \in Hooks \ {h} : /\ check[x].phase \in InLock => lockFile'.by = lockFile.by
                         /\ check[x].phase = "write" => countFile' = countFile

LEMMA OthersKeep ==
  ASSUME CallsInv, NEW h \in Hooks, Undisturbed(h), UNCHANGED ended,
         NEW x \in Hooks \ {h}, check'[x] = check[x]
  PROVE  /\ Coherent(check[x])' /\ Current(check[x])'
         /\ check'[x].phase \in InLock => lockFile'.by = x
<1>1. Coherent(check[x]) /\ Current(check[x])  BY DEF CallsInv
<1>2. Coherent(check[x])'  BY <1>1 DEF Coherent, Reserving, Releasing
<1>3. Current(check[x])'
  <2>1. CASE check[x].phase = "write"
    <3>1. countFile' = countFile  BY <2>1 DEF Undisturbed
    <3> QED  BY <1>1, <3>1 DEF Current
  <2>2. CASE check[x].phase # "write"  BY <2>2 DEF Current
  <2> QED  BY <2>1, <2>2
<1>4. check'[x].phase \in InLock => lockFile'.by = x
  BY DEF CallsInv, Undisturbed
<1> QED  BY <1>2, <1>3, <1>4

LEMMA LocalStep ==
  ASSUME BudgetType, CallsInv, OpenInv, NEW h \in Hooks, NEW d \in CheckRecord,
         check[h].phase # "idle", d.phase # "idle", d.group = check[h].group,
         check' = [check EXCEPT ![h] = d], UNCHANGED <<attempt, ended>>,
         Coherent(d), Current(d)',
         d.phase \in InLock => lockFile'.by = h, Undisturbed(h)
  PROVE  check' \in [Hooks -> CheckRecord] /\ CallsInv' /\ OpenInv'
<1>1. check'[h] = d /\ \A x \in Hooks \ {h} : check'[x] = check[x]  BY DEF BudgetType
<1>2. check' \in [Hooks -> CheckRecord]  BY DEF BudgetType
<1>3. CallsInv'
  <2> SUFFICES ASSUME NEW x \in Hooks
               PROVE  /\ Coherent(check[x])' /\ Current(check[x])'
                      /\ check'[x].phase # "idle" => x \in attempt'[check'[x].group].open
                      /\ check'[x].phase \in InLock => lockFile'.by = x
    BY DEF CallsInv
  <2>1. CASE x = h
    <3>1. Coherent(check[x])'  BY <1>1, <2>1 DEF Coherent, Reserving, Releasing
    <3>2. Current(check[x])'  BY <1>1, <2>1 DEF Current
    <3> QED  BY <1>1, <2>1, <3>1, <3>2 DEF CallsInv
  <2>2. CASE x # h
    <3>1. check'[x] = check[x]  BY <1>1, <2>2
    <3>2. check'[x].phase # "idle" => x \in attempt'[check'[x].group].open
      BY <3>1 DEF CallsInv
    <3> QED  BY <2>2, <3>1, <3>2, OthersKeep
  <2> QED  BY <2>1, <2>2
<1>4. OpenInv'
  <2> SUFFICES ASSUME NEW g \in Groups, NEW x \in attempt[g].open
               PROVE  check'[x].phase # "idle" /\ check'[x].group = g
    BY DEF OpenInv
  <2>1. x \in Hooks /\ check[x].phase # "idle" /\ check[x].group = g
    BY DEF OpenInv, BudgetType, AttemptRecord
  <2> QED  BY <1>1, <2>1
<1> QED  BY <1>2, <1>3, <1>4

(* What an answer leaves of the attempts.                                  *)
LEMMA AnswerShape ==
  ASSUME BudgetType, NEW h \in Hooks, NEW g \in Groups, NEW ok \in BOOLEAN,
         check[h] \in CheckRecord, Answered(g, h, ok)
  PROVE  /\ attempt' \in [Groups -> AttemptRecord] /\ attempt'[g].open = attempt[g].open \ {h}
         /\ \A k \in Groups \ {g} : attempt'[k] = attempt[k]
         /\ \A k \in Groups : attempt'[k].tries \in 0..MaxTries[k]
         /\ spent' \in [Limits -> SUBSET Groups]
<1> DEFINE left == [open |-> attempt[g].open \ {h}, ok |-> attempt[g].ok /\ ok,
                    limits |-> attempt[g].limits \cup check[h].limits, tries |-> attempt[g].tries]
<1>1. /\ check[h].limits \in SUBSET Limits /\ attempt[g] \in AttemptRecord
      /\ attempt \in [Groups -> AttemptRecord] /\ spent \in [Limits -> SUBSET Groups]
  BY DEF BudgetType, CheckRecord
<1>2. /\ attempt' = [attempt EXCEPT ![g] = left]
      /\ spent' = IF left.open = {} /\ (left.ok \/ g \in AfterFact)
                  THEN [m \in Limits |-> IF m \in left.limits THEN spent[m] \cup {g} ELSE spent[m]]
                  ELSE spent
  BY DEF Answered
<1>3. left \in AttemptRecord /\ left.open = attempt[g].open \ {h} /\ left.tries = attempt[g].tries
  <2> PICK a : a = attempt[g]  OBVIOUS
  <2>1. a \in AttemptRecord  BY <1>1
  <2>2. a.open \ {h} \in SUBSET Hooks /\ a.limits \cup check[h].limits \in SUBSET Limits
        /\ (a.ok /\ ok) \in BOOLEAN /\ a.tries \in Nat
    BY <1>1, <2>1 DEF AttemptRecord
  <2>3. left = [open |-> a.open \ {h}, ok |-> a.ok /\ ok, limits |-> a.limits \cup check[h].limits,
                tries |-> a.tries]
    OBVIOUS
  <2>4. left \in AttemptRecord  BY <2>2, <2>3 DEF AttemptRecord
  <2>5. left.open = attempt[g].open \ {h} /\ left.tries = attempt[g].tries  OBVIOUS
  <2> QED  BY <2>4, <2>5
<1> HIDE DEF left
<1>4. /\ attempt' \in [Groups -> AttemptRecord] /\ attempt'[g] = left
      /\ \A k \in Groups \ {g} : attempt'[k] = attempt[k]
  BY <1>1, <1>2, <1>3
<1>5. \A k \in Groups : attempt'[k].tries \in 0..MaxTries[k]  BY <1>3, <1>4 DEF BudgetType
<1>6. spent' \in [Limits -> SUBSET Groups]  BY <1>1, <1>2
<1> QED  BY <1>3, <1>4, <1>5, <1>6

LEMMA AnswerStep ==
  ASSUME BudgetType, CallsInv, OpenInv, NEW h \in Hooks, NEW ok \in BOOLEAN,
         check[h].phase # "idle", check' = [check EXCEPT ![h] = Resting],
         Answered(check[h].group, h, ok), UNCHANGED ended, Undisturbed(h)
  PROVE  /\ check' \in [Hooks -> CheckRecord]
         /\ attempt' \in [Groups -> AttemptRecord]
         /\ \A g \in Groups : attempt'[g].tries \in 0..MaxTries[g]
         /\ spent' \in [Limits -> SUBSET Groups]
         /\ CallsInv' /\ OpenInv'
<1> PICK g : g = check[h].group  OBVIOUS
<1>1. /\ g \in Groups /\ h \in attempt[g].open /\ check[h].limits \in SUBSET Limits
      /\ attempt[g] \in AttemptRecord /\ attempt \in [Groups -> AttemptRecord]
      /\ spent \in [Limits -> SUBSET Groups]
  BY DEF CallsInv, Coherent, BudgetType, CheckRecord
<1>2. check'[h] = Resting /\ \A x \in Hooks \ {h} : check'[x] = check[x]  BY DEF BudgetType
<1>3. Resting \in CheckRecord
  BY DEF Resting, CheckRecord, Phases, Guards
<1>4. check' \in [Hooks -> CheckRecord]  BY <1>3 DEF BudgetType
<1>5. Answered(g, h, ok) /\ check[h] \in CheckRecord  BY DEF BudgetType
<1>6. /\ attempt' \in [Groups -> AttemptRecord] /\ attempt'[g].open = attempt[g].open \ {h}
      /\ \A k \in Groups \ {g} : attempt'[k] = attempt[k]
      /\ \A k \in Groups : attempt'[k].tries \in 0..MaxTries[k]
      /\ spent' \in [Limits -> SUBSET Groups]
  BY <1>1, <1>5, AnswerShape
<1>10. CallsInv'
  <2> SUFFICES ASSUME NEW x \in Hooks
               PROVE  /\ Coherent(check[x])' /\ Current(check[x])'
                      /\ check'[x].phase # "idle" => x \in attempt'[check'[x].group].open
                      /\ check'[x].phase \in InLock => lockFile'.by = x
    BY DEF CallsInv
  <2>1. CASE x = h
    <3>1. check'[x].phase = "idle"  BY <1>2, <2>1 DEF Resting
    <3>2. Coherent(check[x])'  BY <1>2, <2>1, <3>1 DEF Coherent, Waiting
    <3>3. Current(check[x])'  BY <3>1 DEF Current
    <3> QED  BY <3>1, <3>2, <3>3 DEF InLock
  <2>2. CASE x # h
    <3>1. check'[x] = check[x]  BY <1>2, <2>2
    <3>2. check'[x].phase # "idle" => x \in attempt'[check'[x].group].open
      <4> SUFFICES ASSUME check[x].phase # "idle"  PROVE x \in attempt'[check[x].group].open
        BY <3>1
      <4>1. x \in attempt[check[x].group].open /\ check[x].group \in Groups
        BY DEF CallsInv, Coherent
      <4> QED  BY <1>6, <2>2, <4>1
    <3> QED  BY <2>2, <3>1, <3>2, OthersKeep
  <2> QED  BY <2>1, <2>2
<1>11. OpenInv'
  <2> SUFFICES ASSUME NEW k \in Groups, NEW x \in attempt'[k].open
               PROVE  check'[x].phase # "idle" /\ check'[x].group = k
    BY DEF OpenInv
  <2>1. x \in attempt[k].open /\ x # h
    <3>1. CASE k = g  BY <1>6, <3>1
    <3>2. CASE k # g
      <4>1. x \in attempt[k].open  BY <1>6, <3>2
      <4>2. check[x].group = k  BY <4>1 DEF OpenInv
      <4> QED  BY <3>2, <4>1, <4>2
    <3> QED  BY <3>1, <3>2
  <2>2. x \in Hooks /\ check[x].phase # "idle" /\ check[x].group = k
    BY <2>1 DEF OpenInv, BudgetType, AttemptRecord
  <2> QED  BY <1>2, <2>1, <2>2
<1> QED  BY <1>4, <1>6, <1>10, <1>11

(* What a step that leaves the file alone has to keep, the types of the    *)
(* other variables aside.                                                  *)
CallsKept ==
  /\ check' \in [Hooks -> CheckRecord]
  /\ attempt' \in [Groups -> AttemptRecord]
  /\ \A g \in Groups : attempt'[g].tries \in 0..MaxTries[g]
  /\ spent' \in [Limits -> SUBSET Groups]
  /\ CallsInv' /\ OpenInv' /\ CountInv'

LEMMA CountsKept ==
  ASSUME BudgetInv, UNCHANGED <<countFile, ended>>, \A l \in Enforced \ ended : NoMore(l)
  PROVE  CountInv'
<1> SUFFICES ASSUME NEW l \in Enforced \ ended  PROVE CountKept(l)  BY DEF CountInv, CountKept
<1>1. /\ BudgetType /\ l \in Limits /\ Covered(l) /\ Within(l) /\ NoMore(l)
  BY LimitsAssumption DEF BudgetInv, CountInv
<1>2. countFile.counts[l] \in Nat /\ countFile' = countFile  BY <1>1 DEF BudgetType, Counts
<1>3. countFile'.counts[l] \in Nat /\ countFile.counts[l] <= countFile'.counts[l]  BY <1>2
<1> QED  BY <1>1, <1>3, NoMoreKeeps

(* A process goes on with d.                                               *)
LEMMA GoesOnStep ==
  ASSUME BudgetInv, NEW h \in Hooks, NEW d \in CheckRecord,
         check[h].phase # "idle", d.phase # "idle", d.group = check[h].group,
         check' = [check EXCEPT ![h] = d], UNCHANGED <<countFile, ended, attempt, spent>>,
         Coherent(d), Current(d)',
         d.phase \in InLock => lockFile'.by = h, Undisturbed(h),
         Doomed(check[h]) => Doomed(d),
         \A l \in Enforced : check[h].group \in Limited =>
           /\ l \in d.limits => l \in check[h].limits \/ Doomed(d)
           /\ Holding(d, l) => Holding(check[h], l)
  PROVE  CallsKept
<1>1. BudgetType /\ CallsInv /\ OpenInv  BY DEF BudgetInv
<1>2. check' \in [Hooks -> CheckRecord] /\ CallsInv' /\ OpenInv'  BY <1>1, LocalStep
<1>3. ASSUME NEW l \in Enforced \ ended  PROVE NoMore(l)
  <2>1. l \in Limits  BY LimitsAssumption
  <2>2. \A k \in Limited : Listed(k, l)' => Listed(k, l)  BY DEF Listed
  <2> QED  BY <1>1, <2>1, <2>2, GoesOn
<1>4. CountInv'  BY <1>3, CountsKept
<1> QED  BY <1>1, <1>2, <1>4 DEF CallsKept, BudgetType

(* A process answers.                                                      *)
LEMMA AnswersStep ==
  ASSUME BudgetInv, NEW h \in Hooks, NEW ok \in BOOLEAN,
         check[h].phase # "idle", check' = [check EXCEPT ![h] = Resting],
         Answered(check[h].group, h, ok), ok => ~Doomed(check[h]),
         UNCHANGED <<countFile, ended>>, Undisturbed(h)
  PROVE  CallsKept
<1>1. BudgetType /\ CallsInv /\ OpenInv  BY DEF BudgetInv
<1>2. ASSUME NEW l \in Enforced \ ended  PROVE NoMore(l)
  <2>1. l \in Limits  BY LimitsAssumption
  <2> QED  BY <1>1, <2>1, Answers
<1>3. CountInv'  BY <1>2, CountsKept
<1> QED  BY <1>1, <1>3, AnswerStep DEF CallsKept

(* A process that has left the lock, or the rules, moves on.               *)
LEMMA ContinueStep ==
  ASSUME BudgetInv, NEW h \in Hooks, check[h].phase \in {"lock", "unlock", "rules"},
         NEW e, Leaves(check[h], e), NEW d, MovesOn(e, d),
         check[h].phase = "rules" => Done(e, d) \/ GivesBack(e, d),
         Continue(h, d), UNCHANGED <<countFile, ended>>, Undisturbed(h)
  PROVE  CallsKept
<1> PICK c : c = check[h]  OBVIOUS
<1>1. BudgetType /\ c \in CheckRecord /\ Coherent(c)  BY DEF BudgetInv, BudgetType, CallsInv
<1>2. d.group = c.group  BY DEF MovesOn, SameCall, Leaves
<1>3. CASE d.phase = "idle"
  <2>1. check' = [check EXCEPT ![h] = Resting] /\ Answered(c.group, h, FALSE)
    BY <1>2, <1>3 DEF Continue
  <2> QED  BY <2>1, AnswersStep
<1>4. CASE d.phase # "idle"
  <2>1. check' = [check EXCEPT ![h] = d] /\ UNCHANGED <<attempt, spent>>  BY <1>4 DEF Continue
  <2>2. c.phase = "rules" => GivesBack(e, d)  BY <1>4 DEF Done
  <2>3. /\ d \in CheckRecord /\ d.phase \in {"lock", "rules"}
        /\ Coherent(d) /\ (Doomed(c) => Doomed(d))
        /\ \A l \in Enforced : c.group \in Limited =>
             /\ l \in d.limits => l \in c.limits \/ Doomed(d)
             /\ Holding(d, l) => Holding(c, l)
    BY <1>1, <1>4, <2>2, MovesOnKeeps
  <2>4. Current(d)' /\ d.phase \notin InLock  BY <2>3 DEF Current, InLock
  <2> QED  BY <1>2, <1>4, <2>1, <2>3, <2>4, GoesOnStep
<1> QED  BY <1>3, <1>4

-----------------------------------------------------------------------------
(* The actions.                                                            *)

LEMMA OneInLock ==
  ASSUME CallsInv, NEW h \in Hooks, check[h].phase \in InLock
  PROVE  Undisturbed(h)
<1>1. \A x \in Hooks : check[x].phase \in InLock => lockFile.by = x  BY DEF CallsInv
<1>2. ASSUME NEW x \in Hooks, check[x].phase \in InLock  PROVE x = h  BY <1>1, <1>2
<1> QED  BY <1>2 DEF Undisturbed, InLock

LEMMA NobodyInLock ==
  ASSUME CallsInv, ~Working(lockFile)
  PROVE  \A x \in Hooks : check[x].phase \notin InLock
<1> SUFFICES ASSUME NEW x \in Hooks, check[x].phase \in InLock  PROVE FALSE  OBVIOUS
<1>1. lockFile.by = x /\ x # "none"  BY LimitsAssumption DEF CallsInv
<1>2. lockFile = NoLock  BY <1>1 DEF Working
<1> QED  BY <1>1, <1>2 DEF NoLock

(* Only where the process is changes.                                      *)
LEMMA PhaseOnly ==
  ASSUME BudgetInv, NEW h \in Hooks, check[h].phase \in {"lock", "stale"},
         NEW p \in {"lock", "stale", "read"}, check' = [check EXCEPT ![h].phase = p],
         UNCHANGED <<countFile, ended, attempt, spent>>,
         p = "read" => lockFile'.by = h, Undisturbed(h)
  PROVE  CallsKept
<1> PICK c : c = check[h]  OBVIOUS
<1> PICK d : d = [c EXCEPT !.phase = p]  OBVIOUS
<1>1. /\ c \in CheckRecord /\ Coherent(c) /\ check' = [check EXCEPT ![h] = d]
      /\ c.phase \in {"lock", "stale"}
  BY DEF BudgetInv, BudgetType, CallsInv
<1>2. /\ d \in CheckRecord /\ d.phase = p /\ d.group = c.group /\ d.op = c.op /\ d.at = c.at
      /\ d.held = c.held /\ d.limits = c.limits /\ d.outcome = c.outcome /\ d.matched = c.matched
  BY <1>1 DEF CheckRecord, Phases
<1>3. Coherent(d)  BY <1>1, <1>2 DEF Coherent, Reserving, Releasing, Waiting
<1>4. Current(d)'  BY <1>2 DEF Current
<1>5. Doomed(c) <=> Doomed(d)  BY <1>2 DEF Doomed
<1>6. \A l \in Enforced : Holding(d, l) => Holding(c, l)  BY <1>1, <1>2 DEF Holding, Waiting
<1> QED  BY <1>1, <1>2, <1>3, <1>4, <1>5, <1>6, GoesOnStep DEF InLock

LEMMA GiveUpStep ==
  ASSUME BudgetInv, NEW h \in Hooks, GiveUp(h)
  PROVE  CallsKept
<1> PICK c : c = check[h]  OBVIOUS
<1> PICK e : e = [c EXCEPT !.outcome = WhenUnavailable(c), !.limits = c.limits \cup c.matched]
  OBVIOUS
<1>1. c \in CheckRecord /\ Coherent(c) /\ c.phase = "lock" /\ Continue(h, AfterLock(e))
  BY DEF BudgetInv, BudgetType, CallsInv, GiveUp
<1>2. WhenUnavailable(c) \in {"allow", "deny"}  BY DEF WhenUnavailable
<1>3. /\ e \in CheckRecord /\ e.group = c.group /\ e.op = c.op /\ e.at = c.at /\ e.held = c.held
      /\ e.limits = c.limits \cup c.matched /\ e.outcome = WhenUnavailable(c)
  BY <1>1, <1>2 DEF CheckRecord
<1>4. Leaves(c, e) /\ e.group \in Groups  BY <1>1, <1>3 DEF Leaves, Coherent
<1>5. MovesOn(e, AfterLock(e))  BY <1>3, <1>4, AfterLockMoves
<1>6. UNCHANGED <<lockFile, countFile, ended>> /\ Undisturbed(h)  BY DEF GiveUp, Undisturbed
<1> QED  BY <1>1, <1>4, <1>5, <1>6, ContinueStep

LEMMA UnlockStep ==
  ASSUME BudgetInv, NEW h \in Hooks, Unlock(h) \/ UnlockFails(h)
  PROVE  CallsKept
<1> PICK c : c = check[h]  OBVIOUS
<1>1. /\ c \in CheckRecord /\ Coherent(c) /\ c.phase = "unlock" /\ Continue(h, AfterLock(c))
      /\ UNCHANGED <<countFile, ended>> /\ CallsInv
  BY DEF BudgetInv, BudgetType, CallsInv, Unlock, UnlockFails
<1>2. Leaves(c, c) /\ MovesOn(c, AfterLock(c))
  BY <1>1, AfterLockMoves DEF Leaves, Coherent
<1>3. Undisturbed(h)  BY <1>1, OneInLock DEF InLock
<1> QED  BY <1>1, <1>2, <1>3, ContinueStep

LEMMA RulesRefuseStep ==
  ASSUME BudgetInv, NEW h \in Hooks, RulesRefuse(h)
  PROVE  CallsKept
<1> PICK c : c = check[h]  OBVIOUS
<1>1. /\ c \in CheckRecord /\ c.phase = "rules" /\ Continue(h, Refuse(c))
      /\ UNCHANGED <<lockFile, countFile, ended>>
  BY DEF BudgetInv, BudgetType, RulesRefuse
<1>2. SameCall(c, Refuse(c)) /\ (Done(c, Refuse(c)) \/ GivesBack(c, Refuse(c)))
  BY <1>1, RefuseShape
<1>3. Leaves(c, c) /\ MovesOn(c, Refuse(c))  BY <1>1, <1>2 DEF Leaves, MovesOn
<1>4. Undisturbed(h)  BY <1>1 DEF Undisturbed
<1> QED  BY <1>1, <1>2, <1>3, <1>4, ContinueStep

LEMMA RulesAllowStep ==
  ASSUME BudgetInv, NEW h \in Hooks, RulesAllow(h)
  PROVE  CallsKept
<1>1. /\ check[h].phase = "rules" /\ Coherent(check[h])
      /\ check' = [check EXCEPT ![h] = Resting] /\ Answered(check[h].group, h, TRUE)
      /\ UNCHANGED <<lockFile, countFile, ended>>
  BY DEF BudgetInv, CallsInv, RulesAllow
<1>2. ~Doomed(check[h])  BY <1>1 DEF Coherent, Doomed
<1>3. Undisturbed(h)  BY <1>1 DEF Undisturbed
<1> QED  BY <1>1, <1>2, <1>3, AnswersStep

LEMMA DieStep ==
  ASSUME BudgetInv, NEW h \in Hooks, Die(h)
  PROVE  CallsKept
<1>1. /\ check[h].phase # "idle" /\ check' = [check EXCEPT ![h] = Resting]
      /\ Answered(check[h].group, h, FALSE) /\ UNCHANGED <<lockFile, countFile, ended>>
  BY DEF Die
<1>2. Undisturbed(h)  BY <1>1 DEF Undisturbed
<1> QED  BY <1>1, <1>2, AnswersStep

LEMMA FileFailsStep ==
  ASSUME BudgetInv, NEW h \in Hooks, FileFails(h)
  PROVE  CallsKept
<1> PICK c : c = check[h]  OBVIOUS
<1> PICK d : d = [c EXCEPT !.phase = "unlock", !.copy = "none", !.outcome = WhenUnavailable(c),
                           !.limits = c.limits \cup c.matched]
  OBVIOUS
<1>1. /\ c \in CheckRecord /\ Coherent(c) /\ c.phase \in {"read", "write"}
      /\ check' = [check EXCEPT ![h] = d] /\ UNCHANGED <<lockFile, countFile, ended, attempt, spent>>
      /\ lockFile.by = h
  BY DEF BudgetInv, BudgetType, CallsInv, FileFails, InLock
<1>2. WhenUnavailable(c) \in {"allow", "deny"}  BY DEF WhenUnavailable
<1>3. /\ d \in CheckRecord /\ d.phase = "unlock" /\ d.group = c.group /\ d.op = c.op /\ d.at = c.at
      /\ d.held = c.held /\ d.limits = c.limits \cup c.matched /\ d.matched = c.matched
      /\ d.outcome = WhenUnavailable(c)
  BY <1>1, <1>2 DEF CheckRecord, Phases
<1>4. c.op \in {"reserve", "release"} /\ c.group \in Groups /\ c.limits \subseteq Touches[c.group]
  BY <1>1 DEF CheckRecord, Coherent
<1>5. /\ check[h] = c /\ c.phase # "idle" /\ d.phase # "idle" /\ d.group = check[h].group
      /\ d \in CheckRecord /\ check' = [check EXCEPT ![h] = d]
      /\ UNCHANGED <<countFile, ended, attempt, spent>> /\ lockFile'.by = h
  BY <1>1, <1>3
<1>6. CASE c.op = "reserve"
  <2>1. Reserving(c) /\ c.outcome = "allow" /\ c.at \notin c.held
    BY <1>1, <1>6 DEF Coherent, Reserving, Waiting
  <2>2. Coherent(d)
    <3>1. Reserving(d)  BY <1>3, <2>1 DEF Reserving, Waiting
    <3> QED  BY <1>3, <1>4, <1>6, <2>1, <3>1 DEF Coherent, Reserving, Under
  <2>3. \A l \in Enforced : c.group \in Limited =>
          /\ l \in d.limits => l \in c.limits \/ Doomed(d)
          /\ Holding(d, l) => Holding(c, l)
    <3>1. \A l \in Enforced : c.group \in Limited => (l \in d.limits => l \in c.limits \/ Doomed(d))
      BY <1>3 DEF Doomed, WhenUnavailable, Limited
    <3>2. \A l \in Enforced : Holding(d, l) => Holding(c, l)
      BY <1>3, <1>6, <2>1 DEF Holding, Reserving, Under
    <3> QED  BY <3>1, <3>2
  <2>4. ~Doomed(c)  BY <1>6, <2>1 DEF Doomed
  <2>5. Current(d)' /\ Undisturbed(h)  BY <1>1, <1>3 DEF Current, Undisturbed
  <2>6. \A l \in Enforced : check[h].group \in Limited =>
          /\ l \in d.limits => l \in check[h].limits \/ Doomed(d)
          /\ Holding(d, l) => Holding(check[h], l)
    BY <1>5, <2>3
  <2>7. Doomed(check[h]) => Doomed(d)  BY <1>5, <2>4
  <2> QED  BY <1>5, <2>2, <2>5, <2>6, <2>7, GoesOnStep
<1>7. CASE c.op = "release"
  <2>1. Releasing(c)  BY <1>1, <1>7 DEF Coherent, Waiting
  <2>2. d.limits = c.limits  BY <1>3, <2>1 DEF Releasing
  <2>3. Coherent(d)  BY <1>3, <1>4, <1>7, <2>1, <2>2 DEF Coherent, Releasing, Waiting
  <2>4. Doomed(d) /\ \A l \in Enforced : Holding(d, l) => Holding(c, l)
    BY <1>3, <1>7, <2>2 DEF Doomed, Holding, Waiting
  <2>5. Current(d)' /\ Undisturbed(h)  BY <1>1, <1>3 DEF Current, Undisturbed
  <2>6. \A l \in Enforced : check[h].group \in Limited =>
          /\ l \in d.limits => l \in check[h].limits \/ Doomed(d)
          /\ Holding(d, l) => Holding(check[h], l)
    BY <1>5, <2>2, <2>4
  <2>7. Doomed(check[h]) => Doomed(d)  BY <2>4
  <2> QED  BY <1>5, <2>3, <2>5, <2>6, <2>7, GoesOnStep
<1> QED  BY <1>4, <1>6, <1>7

LEMMA ReadStep ==
  ASSUME BudgetInv, NEW h \in Hooks, Read(h)
  PROVE  CallsKept
<1> PICK c : c = check[h]  OBVIOUS
<1> DEFINE over == c.group \notin AfterFact /\ Over(countFile, c.group, c.matched)
           repeated == Repeated(countFile, c.group, c.at)
<1>1. /\ BudgetType /\ CallsInv /\ OpenInv /\ c \in CheckRecord /\ Coherent(c) /\ c.phase = "read"
      /\ UNCHANGED <<lockFile, countFile, ended, attempt, spent>>
      /\ lockFile.by = h /\ countFile \in Counts
  BY DEF BudgetInv, BudgetType, CallsInv, Read, InLock
<1>2. check' = [check EXCEPT ![h] =
          CASE c.op = "release" ->
                 [c EXCEPT !.phase = "write",
                           !.copy = Released(countFile, c.group, c.at, c.matched)]
            [] c.op = "reserve" /\ over -> [c EXCEPT !.phase = "unlock", !.outcome = "deny"]
            [] c.op = "reserve" /\ ~over /\ repeated ->
                 [c EXCEPT !.phase = "unlock", !.limits = c.limits \cup c.matched]
            [] OTHER ->
                 [c EXCEPT !.phase = "write",
                           !.copy = Reserved(countFile, c.group, c.at, c.matched)]]
  BY DEF Read
<1>3. /\ c.op \in {"reserve", "release"} /\ c.group \in Groups /\ c.at \in Guards
      /\ c.limits \subseteq Touches[c.group] /\ c.matched \in SUBSET Limits
  BY <1>1 DEF CheckRecord, Coherent
<1>4. Undisturbed(h)  BY <1>1 DEF Undisturbed
<1> HIDE DEF over, repeated
<1>5. CASE c.op = "release"
  <2> PICK f : f = Released(countFile, c.group, c.at, c.matched)  OBVIOUS
  <2> PICK d : d = [c EXCEPT !.phase = "write", !.copy = f]  OBVIOUS
  <2>1. check' = [check EXCEPT ![h] = d]  BY <1>2, <1>5
  <2>2. f \in Counts  BY <1>1, <1>3, ReleasedFile
  <2>3. /\ d \in CheckRecord /\ d.phase = "write" /\ d.group = c.group /\ d.op = c.op /\ d.at = c.at
        /\ d.held = c.held /\ d.limits = c.limits /\ d.matched = c.matched
        /\ d.outcome = c.outcome /\ d.copy = f
    BY <1>1, <2>2 DEF CheckRecord, Phases
  <2>4. Coherent(d)  BY <1>1, <1>3, <1>5, <2>3 DEF Coherent, Releasing, Waiting
  <2>5. Current(d)'  BY <1>1, <1>5, <2>3 DEF Current
  <2>6. Doomed(d) /\ \A l \in Enforced : Holding(d, l) => Holding(c, l)
    BY <1>1, <1>5, <2>3 DEF Doomed, Holding, Waiting
  <2>7. lockFile'.by = h /\ d.phase # "idle"  BY <1>1, <2>3
  <2> QED  BY <1>1, <1>4, <2>1, <2>3, <2>4, <2>5, <2>6, <2>7, GoesOnStep, ZenonT(60)
<1>6. CASE c.op = "reserve" /\ over
  <2> PICK d : d = [c EXCEPT !.phase = "unlock", !.outcome = "deny"]  OBVIOUS
  <2>1. check' = [check EXCEPT ![h] = d]  BY <1>2, <1>6
  <2>2. /\ d \in CheckRecord /\ d.phase = "unlock" /\ d.group = c.group /\ d.op = c.op /\ d.at = c.at
        /\ d.held = c.held /\ d.limits = c.limits /\ d.matched = c.matched /\ d.outcome = "deny"
    BY <1>1 DEF CheckRecord, Phases
  <2>3. Coherent(d)  BY <1>1, <1>3, <1>6, <2>2 DEF Coherent, Reserving, Waiting
  <2>4. Current(d)'  BY <2>2 DEF Current
  <2>5. Doomed(d) /\ \A l \in Enforced : Holding(d, l) => Holding(c, l)
    BY <1>1, <1>6, <2>2 DEF Doomed, Holding, Waiting
  <2> QED  BY <1>1, <1>4, <2>1, <2>2, <2>3, <2>4, <2>5, GoesOnStep
<1>7. CASE c.op = "reserve" /\ ~over /\ repeated
  <2> PICK d : d = [c EXCEPT !.phase = "unlock", !.limits = c.limits \cup c.matched]  OBVIOUS
  <2>1. check' = [check EXCEPT ![h] = d]  BY <1>2, <1>7
  <2>2. /\ d \in CheckRecord /\ d.phase = "unlock" /\ d.group = c.group /\ d.op = c.op /\ d.at = c.at
        /\ d.held = c.held /\ d.limits = c.limits \cup c.matched /\ d.matched = c.matched
        /\ d.outcome = c.outcome
    BY <1>1, <1>3 DEF CheckRecord, Phases
  <2>3. Reserving(c)  BY <1>1, <1>7 DEF Coherent, Waiting
  <2>4. Coherent(d)
    <3>1. Reserving(d)  BY <1>1, <2>2, <2>3 DEF Reserving, Waiting
    <3> QED  BY <1>3, <1>7, <2>2, <2>3, <3>1 DEF Coherent, Reserving, Under
  <2>5. Current(d)'  BY <2>2 DEF Current
  <2>6. check' \in [Hooks -> CheckRecord] /\ CallsInv' /\ OpenInv'
    BY <1>1, <1>4, <2>1, <2>2, <2>4, <2>5, LocalStep
  <2>7. ASSUME NEW l \in Enforced \ ended  PROVE CountKept(l)
    <3>1. check' = [check EXCEPT ![h] =
                      [check[h] EXCEPT !.phase = "unlock",
                                       !.limits = check[h].limits \cup check[h].matched]]
      BY <2>1
    <3>2. c.group \notin AfterFact => ~Over(countFile, c.group, c.matched)  BY <1>7 DEF over
    <3> QED  BY <1>1, <1>7, <3>1, <3>2, ReadsRepeated DEF repeated
  <2>8. CountInv'  BY <1>1, <2>7 DEF CountInv, CountKept
  <2> QED  BY <1>1, <2>6, <2>8 DEF CallsKept, BudgetType
<1>8. CASE c.op = "reserve" /\ ~over /\ ~repeated
  <2> PICK f : f = Reserved(countFile, c.group, c.at, c.matched)  OBVIOUS
  <2> PICK d : d = [c EXCEPT !.phase = "write", !.copy = f]  OBVIOUS
  <2>1. check' = [check EXCEPT ![h] = d]  BY <1>2, <1>8
  <2>2. f \in Counts  BY <1>1, <1>3, ReservedFile
  <2>3. /\ d \in CheckRecord /\ d.phase = "write" /\ d.group = c.group /\ d.op = c.op /\ d.at = c.at
        /\ d.held = c.held /\ d.limits = c.limits /\ d.matched = c.matched
        /\ d.outcome = c.outcome /\ d.copy = f
    BY <1>1, <2>2 DEF CheckRecord, Phases
  <2>4. Coherent(d)  BY <1>1, <1>3, <1>8, <2>3 DEF Coherent, Reserving, Waiting
  <2>5. Current(d)
    <3>1. c.group \notin AfterFact => ~Over(countFile, c.group, c.matched)  BY <1>8 DEF over
    <3> QED  BY <1>8, <2>3, <3>1 DEF Current, repeated
  <2>6. Current(d)'  BY <1>1, <2>5 DEF Current
  <2>7. Doomed(c) <=> Doomed(d)  BY <2>3 DEF Doomed
  <2>8. \A l \in Enforced : Holding(d, l) => Holding(c, l)
    BY <1>1, <1>8, <2>3 DEF Holding, Waiting
  <2> QED  BY <1>1, <1>4, <2>1, <2>3, <2>4, <2>6, <2>7, <2>8, GoesOnStep, ZenonT(60)
<1> QED  BY <1>3, <1>5, <1>6, <1>7, <1>8

LEMMA WriteStep ==
  ASSUME BudgetInv, NEW h \in Hooks, Write(h)
  PROVE  CallsKept /\ countFile' \in Counts
<1> PICK c : c = check[h]  OBVIOUS
<1> PICK d : d = [c EXCEPT !.phase = "unlock", !.copy = "none",
                  !.limits = c.limits \cup (IF c.op = "reserve" THEN c.matched ELSE {}),
                  !.held = c.held \cup (IF c.op = "reserve" THEN {c.at} ELSE {})]
  OBVIOUS
<1>1. /\ BudgetType /\ CallsInv /\ OpenInv /\ c \in CheckRecord /\ Coherent(c) /\ Current(c)
      /\ c.phase = "write" /\ check' = [check EXCEPT ![h] = d] /\ countFile' = c.copy
      /\ UNCHANGED <<lockFile, ended, attempt, spent>>
      /\ lockFile.by = h /\ countFile \in Counts
  BY DEF BudgetInv, BudgetType, CallsInv, Write, InLock
<1>2. /\ c.op \in {"reserve", "release"} /\ c.group \in Groups /\ c.at \in Guards
      /\ c.limits \subseteq Touches[c.group] /\ c.matched \in SUBSET Limits
      /\ c.limits \in SUBSET Limits /\ c.held \in SUBSET Guards
  BY <1>1 DEF CheckRecord, Coherent
<1>3. Undisturbed(h)  BY <1>1, OneInLock DEF InLock
<1>4. countFile' \in Counts
  BY <1>1, <1>2, ReservedFile, ReleasedFile DEF Current
<1> SUFFICES /\ check' \in [Hooks -> CheckRecord] /\ CallsInv' /\ OpenInv'
             /\ \A l \in Enforced \ ended : CountKept(l)
  BY <1>1, <1>4 DEF CallsKept, BudgetType, CountInv, CountKept
<1>5. CASE c.op = "reserve"
  <2> PICK ls : ls = c.limits \cup c.matched  OBVIOUS
  <2> PICK held : held = c.held \cup {c.at}  OBVIOUS
  <2>1. d = [c EXCEPT !.phase = "unlock", !.copy = "none", !.limits = ls, !.held = held]
    BY <1>5
  <2>2. ls \in SUBSET Limits /\ held \in SUBSET Guards  BY <1>2
  <2>3. /\ d \in CheckRecord /\ d.phase = "unlock" /\ d.group = c.group /\ d.op = c.op /\ d.at = c.at
        /\ d.held = held /\ d.limits = ls /\ d.matched = c.matched /\ d.outcome = c.outcome
    BY <1>1, <2>1, <2>2 DEF CheckRecord, Phases
  <2>4. Reserving(c)  BY <1>1, <1>5 DEF Coherent, Waiting
  <2>5. Coherent(d)
    <3>1. \A i \in d.held : i <= d.at  BY <1>2, <2>3, <2>4 DEF Reserving, Guards
    <3>2. Reserving(d)  BY <2>3, <2>4, <3>1 DEF Reserving, Waiting
    <3>3. d.limits \subseteq Touches[d.group]  BY <1>2, <2>3, <2>4 DEF Reserving, Under
    <3> QED  BY <1>2, <1>5, <2>3, <3>2, <3>3 DEF Coherent
  <2>6. Current(d)'  BY <2>3 DEF Current
  <2>7. check' \in [Hooks -> CheckRecord] /\ CallsInv' /\ OpenInv'
    BY <1>1, <1>3, <2>3, <2>5, <2>6, LocalStep
  <2>8. Written(c, d, FALSE)  BY <2>3 DEF Written
  <2> QED  BY <1>1, <1>5, <2>7, <2>8, WritesReserved
<1>6. CASE c.op = "release"
  <2>1. d = [c EXCEPT !.phase = "unlock", !.copy = "none", !.limits = c.limits, !.held = c.held]
    <3>1. c.limits \cup {} = c.limits /\ c.held \cup {} = c.held  OBVIOUS
    <3> QED  BY <1>6, <3>1
  <2>2. /\ d \in CheckRecord /\ d.phase = "unlock" /\ d.group = c.group /\ d.op = c.op /\ d.at = c.at
        /\ d.held = c.held /\ d.limits = c.limits /\ d.matched = c.matched /\ d.outcome = c.outcome
    BY <1>1, <1>2, <2>1 DEF CheckRecord, Phases
  <2>3. Coherent(d)  BY <1>1, <1>2, <1>6, <2>2 DEF Coherent, Releasing, Waiting
  <2>4. Current(d)'  BY <2>2 DEF Current
  <2>5. check' \in [Hooks -> CheckRecord] /\ CallsInv' /\ OpenInv'
    BY <1>1, <1>3, <2>2, <2>3, <2>4, LocalStep
  <2>6. Written(c, d, TRUE)  BY <2>2 DEF Written
  <2> QED  BY <1>1, <1>6, <2>5, <2>6, WritesReleased
<1> QED  BY <1>2, <1>5, <1>6

LEMMA AskStep ==
  ASSUME BudgetInv, NEW g \in Groups, NEW hs \in SUBSET Hooks, Ask(g, hs)
  PROVE  CallsKept
<1> PICK start : start = [Resting EXCEPT !.group = g]  OBVIOUS
<1> PICK c : c = AskGuard(start, 1)  OBVIOUS
<1> PICK asked : asked = IF c.phase = "idle" THEN {} ELSE hs  OBVIOUS
<1> PICK ok \in BOOLEAN : ok = IF c.phase = "idle" THEN FALSE ELSE TRUE  OBVIOUS
<1> PICK n : n = attempt[g].tries + 1  OBVIOUS
<1> PICK r : r = [open |-> asked, ok |-> ok, limits |-> {}, tries |-> n]  OBVIOUS
<1>1. /\ BudgetType /\ CallsInv /\ OpenInv /\ attempt[g].open = {}
      /\ attempt[g].tries < MaxTries[g] /\ \A h \in hs : check[h].phase = "idle"
      /\ UNCHANGED <<lockFile, countFile, ended, spent>>
  BY DEF BudgetInv, Ask
<1>2. /\ start \in CheckRecord /\ start.group = g /\ start.op = "reserve" /\ start.held = {}
      /\ start.limits = {} /\ start.outcome = "allow"
  <2>1. Resting \in CheckRecord  BY DEF Resting, CheckRecord, Phases, Guards
  <2>2. start \in CheckRecord /\ start.group = g  BY <2>1 DEF CheckRecord
  <2>3. /\ start.op = Resting.op /\ start.held = Resting.held /\ start.limits = Resting.limits
        /\ start.outcome = Resting.outcome
    BY <2>1 DEF CheckRecord
  <2> QED  BY <2>2, <2>3 DEF Resting
<1>3. SameCall(start, c) /\ (Passes(start, c) \/ AsksNext(start, c, 1) \/ Done(start, c))
  <2>1. /\ SameCall(start, c)
        /\ Passes(start, c) \/ AsksNext(start, c, 1) \/ c = Refuse(start)
    <3>1. 1 \in 1..3 /\ start.group \in Groups  BY <1>2
    <3> QED  BY <1>2, <3>1, AskShape
  <2>2. Done(start, Refuse(start)) \/ GivesBack(start, Refuse(start))  BY <1>2, RefuseShape
  <2> QED  BY <1>2, <2>1, <2>2 DEF GivesBack
<1>4. /\ c \in CheckRecord /\ c.group = g /\ c.limits = {}
      /\ c.phase # "idle" => c.op = "reserve" /\ c.held = {} /\ c.outcome = "allow"
                             /\ c.phase \in {"rules", "lock"}
  BY <1>2, <1>3 DEF SameCall, Passes, AsksNext, Done
<1>5. /\ attempt' = [attempt EXCEPT ![g] = r]
      /\ check' = [h \in Hooks |-> IF h \in asked THEN c ELSE check[h]]
  <2>1. IF c.phase = "idle"
        THEN /\ attempt' = [attempt EXCEPT ![g] = [open |-> {}, ok |-> FALSE, limits |-> {},
                                                  tries |-> attempt[g].tries + 1]]
             /\ UNCHANGED check
        ELSE /\ attempt' = [attempt EXCEPT ![g] = [open |-> hs, ok |-> TRUE, limits |-> {},
                                                  tries |-> attempt[g].tries + 1]]
             /\ check' = [h \in Hooks |-> IF h \in hs THEN c ELSE check[h]]
    BY DEF Ask
  <2>2. CASE c.phase = "idle"
    <3>1. r = [open |-> {}, ok |-> FALSE, limits |-> {}, tries |-> n]  BY <2>2
    <3>2. check' = [h \in Hooks |-> IF h \in asked THEN c ELSE check[h]]
      BY <1>1, <2>1, <2>2 DEF BudgetType
    <3> QED  BY <2>1, <2>2, <3>1, <3>2
  <2>3. CASE c.phase # "idle"
    <3>1. r = [open |-> hs, ok |-> TRUE, limits |-> {}, tries |-> n]  BY <2>3
    <3> QED  BY <2>1, <2>3, <3>1
  <2> QED  BY <2>2, <2>3
<1>6. /\ attempt[g].tries \in Nat /\ attempt[g].tries + 1 \in 0..MaxTries[g]
      /\ asked \in SUBSET hs /\ asked \in SUBSET Hooks
      /\ asked # {} => c.phase # "idle"
  <2>1. attempt[g].tries \in Nat /\ MaxTries[g] \in Nat
    BY <1>1, LimitsAssumption DEF BudgetType, AttemptRecord
  <2>2. asked \in SUBSET hs /\ asked \in SUBSET Hooks /\ (asked # {} => c.phase # "idle")
    OBVIOUS
  <2> QED  BY <1>1, <2>1, <2>2
<1>7. /\ r \in AttemptRecord /\ r.open = asked /\ r.limits = {}
      /\ r.tries = attempt[g].tries + 1
  <2>1. n \in Nat /\ n = attempt[g].tries + 1  BY <1>6
  <2> QED  BY <1>6, <2>1 DEF AttemptRecord
<1>8. /\ attempt' \in [Groups -> AttemptRecord] /\ attempt'[g] = r
      /\ \A k \in Groups \ {g} : attempt'[k] = attempt[k]
      /\ \A k \in Groups : attempt'[k].tries \in 0..MaxTries[k]
  BY <1>1, <1>5, <1>6, <1>7 DEF BudgetType
<1>9. /\ check' \in [Hooks -> CheckRecord] /\ \A h \in asked : check'[h] = c
      /\ \A h \in Hooks \ asked : check'[h] = check[h]
  BY <1>1, <1>4, <1>5, <1>6 DEF BudgetType
<1>10. c.phase # "idle" => Coherent(c) /\ c.phase \notin InLock
  <2> SUFFICES ASSUME c.phase # "idle"  PROVE Coherent(c) /\ c.phase \notin InLock  OBVIOUS
  <2>1. c.phase = "lock" => Reserving(c)
    <3> SUFFICES ASSUME c.phase = "lock"  PROVE Reserving(c)  OBVIOUS
    <3>1. AsksNext(start, c, 1)  BY <1>3 DEF Passes, Done
    <3>2. c.matched = Matched(c.group, c.at)  BY <1>2, <1>4, <3>1 DEF AsksNext
    <3> QED  BY <1>4, <3>2 DEF Reserving, Matched, Under
  <2> QED  BY <1>4, <2>1 DEF Coherent, Waiting, InLock
<1>11. CallsInv'
  <2> SUFFICES ASSUME NEW x \in Hooks
               PROVE  /\ Coherent(check[x])' /\ Current(check[x])'
                      /\ check'[x].phase # "idle" => x \in attempt'[check'[x].group].open
                      /\ check'[x].phase \in InLock => lockFile'.by = x
    BY DEF CallsInv
  <2>1. CASE x \in asked
    <3>1. check'[x] = c /\ c.phase # "idle"  BY <1>6, <1>9, <2>1
    <3>2. Coherent(check[x])'  BY <1>1, <1>10, <3>1 DEF Coherent, Reserving, Releasing
    <3>3. Current(check[x])'  BY <1>10, <3>1 DEF Current, InLock
    <3> QED  BY <1>4, <1>7, <1>8, <1>10, <2>1, <3>1, <3>2, <3>3
  <2>2. CASE x \notin asked
    <3>1. check'[x] = check[x]  BY <1>9, <2>2
    <3>2. Coherent(check[x])'  BY <1>1, <3>1 DEF CallsInv, Coherent, Reserving, Releasing
    <3>3. Current(check[x])'  BY <1>1, <3>1 DEF CallsInv, Current
    <3>4. check[x].phase # "idle" => x \in attempt'[check[x].group].open
      <4> SUFFICES ASSUME check[x].phase # "idle"  PROVE x \in attempt'[check[x].group].open
        OBVIOUS
      <4>1. x \in attempt[check[x].group].open /\ check[x].group \in Groups
        BY <1>1 DEF CallsInv, Coherent
      <4>2. check[x].group # g  BY <1>1, <4>1
      <4> QED  BY <1>8, <4>1, <4>2
    <3> QED  BY <1>1, <3>1, <3>2, <3>3, <3>4 DEF CallsInv
  <2> QED  BY <2>1, <2>2
<1>12. OpenInv'
  <2> SUFFICES ASSUME NEW k \in Groups, NEW x \in attempt'[k].open
               PROVE  check'[x].phase # "idle" /\ check'[x].group = k
    BY DEF OpenInv
  <2>1. CASE k = g  BY <1>4, <1>6, <1>7, <1>8, <1>9, <2>1
  <2>2. CASE k # g
    <3>1. /\ x \in attempt[k].open /\ x \in Hooks /\ check[x].phase # "idle"
          /\ check[x].group = k
      BY <1>1, <1>8, <2>2 DEF OpenInv, BudgetType, AttemptRecord
    <3>2. x \notin asked  BY <1>1, <1>6, <3>1
    <3> QED  BY <1>9, <3>1, <3>2
  <2> QED  BY <2>1, <2>2
<1>13. CountInv'
  <2>1. ASSUME NEW l \in Enforced \ ended  PROVE NoMore(l)
    <3>1. l \in Limits  BY LimitsAssumption
    <3>2. UNCHANGED spent /\ UNCHANGED countFile  BY <1>1
    <3>3. CASE c.phase # "idle"
      <4>1. Begun(g, asked, c, r)  BY <1>1, <1>4, <1>5, <1>6, <1>7, <1>9, <3>3 DEF Begun
      <4> QED  BY <1>1, <1>6, <3>1, <3>2, <4>1, Begins
    <3>4. CASE c.phase = "idle"
      <4>1. asked = {}  BY <3>4
      <4>2. Begun(g, asked, start, r)  BY <1>1, <1>2, <1>5, <1>7, <1>9, <4>1 DEF Begun
      <4> QED  BY <1>1, <1>6, <3>1, <3>2, <4>2, Begins
    <3> QED  BY <3>3, <3>4
  <2> QED  BY <1>1, <2>1, CountsKept
<1> QED  BY <1>1, <1>8, <1>9, <1>11, <1>12, <1>13 DEF CallsKept, BudgetType

-----------------------------------------------------------------------------
(* The inductive invariant.                                                *)

LEMMA BudgetInitInv == BudgetInit => BudgetInv
<1> SUFFICES ASSUME BudgetInit  PROVE BudgetInv  OBVIOUS
<1>1. /\ lockFile = NoLock /\ ended = {} /\ check = [h \in Hooks |-> Resting]
      /\ attempt = [g \in Groups |-> [open |-> {}, ok |-> TRUE, limits |-> {}, tries |-> 0]]
      /\ spent = [l \in Limits |-> {}] /\ unsettled = {} /\ forgotten = FALSE /\ deaths = 0
      /\ countFile = [counts |-> [l \in Limits |-> 0], groups |-> [i \in Guards |-> <<>>]]
  BY DEF BudgetInit
<1>2. Resting \in CheckRecord  BY DEF Resting, CheckRecord, Phases, Guards
<1>3. countFile \in Counts
  <2>1. [l \in Limits |-> 0] \in [Limits -> Nat] /\ [i \in Guards |-> <<>>] \in [Guards -> Seq(Groups)]
    OBVIOUS
  <2> QED  BY <1>1, <2>1 DEF Counts
<1>4. BudgetType
  <2>1. \A g \in Groups : attempt[g] \in AttemptRecord /\ attempt[g].tries = 0
    BY <1>1 DEF AttemptRecord
  <2>2. attempt \in [Groups -> AttemptRecord]
    <3>1. attempt = [g \in Groups |-> attempt[g]]  BY <1>1
    <3> QED  BY <2>1, <3>1
  <2>3. \A g \in Groups : attempt[g].tries \in 0..MaxTries[g]  BY <2>1, LimitsAssumption
  <2>4. lockFile \in [by : Hooks \cup {"none"}, old : BOOLEAN]  BY <1>1 DEF NoLock
  <2>5. check \in [Hooks -> CheckRecord] /\ spent \in [Limits -> SUBSET Groups]  BY <1>1, <1>2
  <2>6. 0 \in 0..MaxDeaths  BY LimitsAssumption
  <2> QED  BY <1>1, <1>3, <2>2, <2>3, <2>4, <2>5, <2>6 DEF BudgetType
<1>5. CallsInv
  <2> SUFFICES ASSUME NEW h \in Hooks
               PROVE  /\ Coherent(check[h]) /\ Current(check[h])
                      /\ check[h].phase # "idle" => h \in attempt[check[h].group].open
                      /\ check[h].phase \in InLock => lockFile.by = h
    BY DEF CallsInv
  <2>1. check[h] = Resting  BY <1>1
  <2>2. check[h].phase = "idle"  BY <2>1 DEF Resting
  <2> QED  BY <2>1, <2>2 DEF Coherent, Current, Waiting, InLock
<1>6. OpenInv
  <2>1. \A g \in Groups : attempt[g].open = {}  BY <1>1
  <2> QED  BY <2>1 DEF OpenInv
<1>7. CountInv
  <2> SUFFICES ASSUME NEW l \in Enforced \ ended  PROVE Covered(l) /\ Within(l)  BY DEF CountInv
  <2>1. l \in Limits /\ GuardOf[l] \in Guards  BY LimitsAssumption DEF Guards
  <2>2. Owing(l) = {}
    <3>1. ~Holding(Resting, l)  BY DEF Holding, Resting
    <3>2. \A h \in Hooks : check[h] = Resting  BY <1>1
    <3> QED  BY <3>1, <3>2 DEF Owing
  <2>3. \A g \in Groups : ~Relies(g, l)  BY <1>1 DEF Relies
  <2>4. \A g : ~Listed(g, l)
    <3>1. countFile.groups[GuardOf[l]] = <<>>  BY <1>1, <2>1
    <3> QED  BY <3>1 DEF Listed, ToSet
  <2>5. spent[l] = {} /\ countFile.counts[l] = 0  BY <1>1, <2>1
  <2>6. Settled(l) = {} /\ Runs(l) = {}  BY <2>3, <2>4, <2>5 DEF Settled, Runs, Limited
  <2>7. Cardinality({}) = 0  BY FS_EmptySet
  <2>8. MaxOf[l] \in Nat  BY <2>1, LimitsAssumption
  <2> QED  BY <2>2, <2>5, <2>6, <2>7, <2>8 DEF Covered, Within
<1> QED  BY <1>4, <1>5, <1>6, <1>7 DEF BudgetInv

LEMMA LockAgesStep ==
  ASSUME BudgetInv, LockAges
  PROVE  BudgetInv'
<1>1. /\ BudgetType /\ CallsInv /\ OpenInv /\ CountInv
      /\ lockFile' = [lockFile EXCEPT !.old = TRUE]
      /\ UNCHANGED <<countFile, ended, check, attempt, spent, unsettled, forgotten, deaths>>
  BY DEF BudgetInv, LockAges
<1>2. lockFile' \in [by : Hooks \cup {"none"}, old : BOOLEAN] /\ lockFile'.by = lockFile.by
  BY <1>1 DEF BudgetType
<1>3. BudgetType'  BY <1>1, <1>2 DEF BudgetType
<1>5. CallsInv'
  BY <1>1, <1>2 DEF CallsInv, Coherent, Current, Reserving, Releasing
<1>6. OpenInv'  BY <1>1 DEF OpenInv
<1>7. CountInv'
  BY <1>1, ZenonT(60)
     DEF CountInv, Covered, Within, Owing, Settled, Runs, Owed, Relies, Listed, Doomed, Holding
<1> QED  BY <1>3, <1>5, <1>6, <1>7 DEF BudgetInv

LEMMA ExpireStep ==
  ASSUME BudgetInv, NEW m \in Limits, Expire(m)
  PROVE  BudgetInv'
<1>1. /\ BudgetType /\ CallsInv /\ OpenInv /\ CountInv /\ ended' = ended \cup {m}
      /\ UNCHANGED <<lockFile, countFile, check, attempt, spent, unsettled, forgotten, deaths>>
  BY DEF BudgetInv, Expire
<1>2. BudgetType'  BY <1>1 DEF BudgetType
<1>3. CallsInv'
  <2>1. \A c : Reserving(c) => Reserving(c)'  BY <1>1 DEF Reserving
  <2> SUFFICES ASSUME NEW h \in Hooks
               PROVE  /\ Coherent(check[h])' /\ Current(check[h])'
                      /\ check'[h].phase # "idle" => h \in attempt'[check'[h].group].open
                      /\ check'[h].phase \in InLock => lockFile'.by = h
    BY DEF CallsInv
  <2>2. Coherent(check[h])'
    <3> PICK c : c = check[h]  OBVIOUS
    <3>1. Coherent(c) /\ c = check'[h]  BY <1>1 DEF CallsInv
    <3>2. Coherent(c)'  BY <2>1, <3>1 DEF Coherent, Releasing
    <3>3. Coherent(check[h])'  BY <3>1, <3>2 DEF Coherent, Reserving, Releasing
    <3> QED  BY <3>3
  <2>3. Current(check[h])'  BY <1>1 DEF CallsInv, Current
  <2> QED  BY <1>1, <2>2, <2>3 DEF CallsInv
<1>4. OpenInv'  BY <1>1 DEF OpenInv
<1>5. CountInv'
  BY <1>1, ZenonT(60)
     DEF CountInv, Covered, Within, Owing, Settled, Runs, Owed, Relies, Listed, Doomed, Holding
<1> QED  BY <1>2, <1>3, <1>4, <1>5 DEF BudgetInv

(* A step of a process, once the calls are kept.                           *)
LEMMA StepKeeps ==
  ASSUME BudgetInv, CallsKept, UNCHANGED ended, countFile' \in Counts,
         lockFile' \in [by : Hooks \cup {"none"}, old : BOOLEAN],
         unsettled' \in SUBSET Groups, forgotten' \in BOOLEAN, deaths' \in 0..MaxDeaths
  PROVE  BudgetInv'
<1>1. BudgetType'  BY DEF BudgetInv, BudgetType, CallsKept
<1> QED  BY <1>1 DEF BudgetInv, CallsKept

LEMMA BudgetNextInv == BudgetInv /\ [BudgetNext]_budgetVars /\ ~robbed' => BudgetInv'
<1> SUFFICES ASSUME BudgetInv, [BudgetNext]_budgetVars, ~robbed'  PROVE BudgetInv'  OBVIOUS
<1>1. /\ BudgetType /\ CallsInv /\ countFile \in Counts /\ forgotten \in BOOLEAN
      /\ lockFile \in [by : Hooks \cup {"none"}, old : BOOLEAN]
      /\ unsettled \in SUBSET Groups /\ deaths \in 0..MaxDeaths
      /\ \A h \in Hooks : [by |-> h, old |-> FALSE] \in [by : Hooks \cup {"none"}, old : BOOLEAN]
      /\ NoLock \in [by : Hooks \cup {"none"}, old : BOOLEAN]
  BY DEF BudgetInv, BudgetType, NoLock
<1>2. \A h \in Hooks : check[h].phase # "idle" => check[h].group \in Groups
  BY <1>1 DEF CallsInv, Coherent
<1>3. deaths < MaxDeaths => deaths + 1 \in 0..MaxDeaths  BY <1>1, LimitsAssumption
<1>4. ASSUME NEW g \in Groups, NEW hs \in SUBSET Hooks, Ask(g, hs)  PROVE BudgetInv'
  <2>1. CallsKept  BY <1>4, AskStep
  <2>2. UNCHANGED <<lockFile, countFile, ended, unsettled, forgotten, deaths>>  BY <1>4 DEF Ask
  <2> QED  BY <1>1, <2>1, <2>2, StepKeeps
<1>5. ASSUME NEW h \in Hooks, Open(h)  PROVE BudgetInv'
  <2>1. /\ check[h].phase = "lock" /\ lockFile = NoLock /\ lockFile' = [by |-> h, old |-> FALSE]
        /\ check' = [check EXCEPT ![h].phase = "read"]
        /\ UNCHANGED <<countFile, ended, attempt, spent, unsettled, forgotten, deaths>>
    BY <1>5 DEF Open
  <2>2. Undisturbed(h) /\ lockFile'.by = h
    BY <1>1, <2>1, NobodyInLock DEF Undisturbed, Working, InLock
  <2>3. CallsKept  BY <2>1, <2>2, PhaseOnly
  <2> QED  BY <1>1, <2>1, <2>3, StepKeeps
<1>6. ASSUME NEW h \in Hooks, FindStale(h)  PROVE BudgetInv'
  <2>1. /\ check[h].phase = "lock" /\ check' = [check EXCEPT ![h].phase = "stale"]
        /\ UNCHANGED <<lockFile, countFile, ended, attempt, spent, unsettled, forgotten, deaths>>
    BY <1>6 DEF FindStale
  <2>2. Undisturbed(h)  BY <2>1 DEF Undisturbed
  <2>3. CallsKept  BY <2>1, <2>2, PhaseOnly
  <2> QED  BY <1>1, <2>1, <2>3, StepKeeps
<1>7. ASSUME NEW h \in Hooks, RemoveStale(h)  PROVE BudgetInv'
  <2>1. /\ check[h].phase = "stale" /\ check' = [check EXCEPT ![h].phase = "lock"]
        /\ lockFile' = NoLock /\ ~Working(lockFile)
        /\ UNCHANGED <<countFile, ended, attempt, spent, unsettled, forgotten, deaths>>
    BY <1>7 DEF RemoveStale
  <2>2. Undisturbed(h)  BY <1>1, <2>1, NobodyInLock DEF Undisturbed, InLock
  <2>3. CallsKept  BY <2>1, <2>2, PhaseOnly
  <2> QED  BY <1>1, <2>1, <2>3, StepKeeps
<1>8. ASSUME NEW h \in Hooks, GiveUp(h)  PROVE BudgetInv'
  <2>1. CallsKept  BY <1>8, GiveUpStep
  <2>2. /\ check[h].phase = "lock" /\ UNCHANGED <<lockFile, countFile, ended, forgotten, deaths>>
        /\ unsettled' = unsettled \/ unsettled' = unsettled \cup {check[h].group}
    BY <1>8 DEF GiveUp
  <2>3. unsettled' \in SUBSET Groups  BY <1>1, <1>2, <2>2
  <2> QED  BY <1>1, <2>1, <2>2, <2>3, StepKeeps
<1>9. ASSUME NEW h \in Hooks, Read(h)  PROVE BudgetInv'
  <2>1. CallsKept  BY <1>9, ReadStep
  <2>2. UNCHANGED <<lockFile, countFile, ended, unsettled, forgotten, deaths>>  BY <1>9 DEF Read
  <2> QED  BY <1>1, <2>1, <2>2, StepKeeps
<1>10. ASSUME NEW h \in Hooks, Write(h)  PROVE BudgetInv'
  <2>1. CallsKept /\ countFile' \in Counts  BY <1>10, WriteStep
  <2>2. /\ UNCHANGED <<lockFile, ended, unsettled, deaths>> /\ forgotten' \in BOOLEAN
    BY <1>10 DEF Write
  <2> QED  BY <1>1, <2>1, <2>2, StepKeeps
<1>11. ASSUME NEW h \in Hooks, FileFails(h)  PROVE BudgetInv'
  <2>1. CallsKept  BY <1>11, FileFailsStep
  <2>2. /\ check[h].phase # "idle" /\ UNCHANGED <<lockFile, countFile, ended, forgotten>>
        /\ deaths < MaxDeaths /\ deaths' = deaths + 1
        /\ unsettled' = unsettled \/ unsettled' = unsettled \cup {check[h].group}
    BY <1>11 DEF FileFails
  <2>3. unsettled' \in SUBSET Groups /\ deaths' \in 0..MaxDeaths  BY <1>1, <1>2, <1>3, <2>2
  <2> QED  BY <1>1, <2>1, <2>2, <2>3, StepKeeps
<1>12. ASSUME NEW h \in Hooks, Unlock(h)  PROVE BudgetInv'
  <2>1. CallsKept  BY <1>12, UnlockStep
  <2>2. lockFile' = NoLock /\ UNCHANGED <<countFile, ended, unsettled, forgotten, deaths>>
    BY <1>12 DEF Unlock
  <2> QED  BY <1>1, <2>1, <2>2, StepKeeps
<1>18. ASSUME NEW h \in Hooks, UnlockFails(h)  PROVE BudgetInv'
  <2>1. CallsKept  BY <1>18, UnlockStep
  <2>2. /\ UNCHANGED <<lockFile, countFile, ended, unsettled, forgotten>>
        /\ deaths < MaxDeaths /\ deaths' = deaths + 1
    BY <1>18 DEF UnlockFails
  <2> QED  BY <1>1, <1>3, <2>1, <2>2, StepKeeps
<1>13. ASSUME NEW h \in Hooks, RulesAllow(h) \/ RulesRefuse(h)  PROVE BudgetInv'
  <2>1. CallsKept  BY <1>13, RulesAllowStep, RulesRefuseStep
  <2>2. UNCHANGED <<lockFile, countFile, ended, unsettled, forgotten, deaths>>
    BY <1>13 DEF RulesAllow, RulesRefuse
  <2> QED  BY <1>1, <2>1, <2>2, StepKeeps
<1>14. ASSUME NEW h \in Hooks, Die(h)  PROVE BudgetInv'
  <2>1. CallsKept  BY <1>14, DieStep
  <2>2. /\ check[h].phase # "idle" /\ UNCHANGED <<lockFile, countFile, ended, forgotten>>
        /\ deaths < MaxDeaths /\ deaths' = deaths + 1
        /\ unsettled' = unsettled \cup {check[h].group}
    BY <1>14 DEF Die
  <2>3. unsettled' \in SUBSET Groups /\ deaths' \in 0..MaxDeaths  BY <1>1, <1>2, <1>3, <2>2
  <2> QED  BY <1>1, <2>1, <2>2, <2>3, StepKeeps
<1>15. CASE UNCHANGED budgetVars
  <2>1. UNCHANGED <<lockFile, countFile, ended, check, attempt, spent, unsettled, forgotten, deaths>>
    BY <1>15 DEF budgetVars
  <2>2. BudgetType'  BY <1>1, <2>1 DEF BudgetType
  <2>3. CallsInv'  BY <1>1, <2>1 DEF CallsInv, Coherent, Current, Reserving, Releasing
  <2>4. OpenInv'  BY <2>1 DEF BudgetInv, OpenInv
  <2>5. CountInv'
    BY <2>1, ZenonT(60)
       DEF BudgetInv, CountInv, Covered, Within, Owing, Settled, Runs, Owed, Relies, Listed, Doomed,
           Holding
  <2> QED  BY <2>2, <2>3, <2>4, <2>5 DEF BudgetInv
<1> DEFINE Steps(h) == \/ Open(h) \/ FindStale(h) \/ RemoveStale(h) \/ GiveUp(h)
                       \/ Read(h) \/ Write(h) \/ FileFails(h) \/ Unlock(h) \/ UnlockFails(h)
                       \/ RulesAllow(h) \/ RulesRefuse(h) \/ Die(h)
<1>16. ASSUME NEW h \in Hooks, Steps(h)  PROVE BudgetInv'
  BY <1>5, <1>6, <1>7, <1>8, <1>9, <1>10, <1>11, <1>12, <1>13, <1>14, <1>16, <1>18, Zenon
<1>17. CASE BudgetNext
  <2>1. \/ \E g \in Groups, hs \in SUBSET Hooks : Ask(g, hs)
        \/ \E h \in Hooks : Steps(h)
        \/ LockAges
        \/ \E l \in Limits : Expire(l)
    BY <1>17 DEF BudgetNext
  <2> HIDE DEF Steps
  <2> QED  BY <1>4, <1>16, <2>1, LockAgesStep, ExpireStep, Zenon
<1> QED  BY <1>15, <1>17

-----------------------------------------------------------------------------
(* What a count is explained by.                                           *)

(* The guards whose count a process has, or is about to give back.         *)
CountedAt(c) == c.held \cup (IF c.op = "release" /\ c.phase \in Waiting THEN {c.at} ELSE {})

(* The tool calls of which a count may stay when every call is answered.   *)
Excused(l) == spent[l] \cup unsettled \cup {t \in Groups \cap Twice : attempt[t].tries > 0}

(* The count of l is of the tool calls in S, each once.                    *)
Explains(S, l) ==
  /\ countFile.counts[l] <= Cardinality(S)
  /\ \A g \in S :
       /\ Listed(g, l)
       /\ \/ g \in Excused(l)
          \/ \E h \in Hooks : check[h].group = g /\ GuardOf[l] \in CountedAt(check[h])
  /\ \A h \in Hooks :
       check[h].group \in S /\ GuardOf[l] \in CountedAt(check[h]) => l \in check[h].limits

(* A process that has the count of a guard is the only one of its tool     *)
(* call, which the list of that guard still has.                           *)
OnlyCounter ==
  \A h \in Hooks : \A i \in CountedAt(check[h]) :
    /\ check[h].group \in ToSet(countFile.groups[i])
    /\ \A x \in Hooks \ {h} : check[x].group = check[h].group => i \notin CountedAt(check[x])

(* A tool call one process is asked about has not been refused meanwhile.  *)
AskedInv ==
  \A g \in Groups : attempt[g].open # {} =>
    /\ attempt[g].tries > 0
    /\ g \notin Twice => attempt[g].ok /\ \E h \in Hooks : attempt[g].open = {h}

ExplainedInv ==
  /\ AskedInv
  /\ ~forgotten => OnlyCounter /\ \A l \in Limits : \E S \in SUBSET Groups : Explains(S, l)

(* No process gets a count, and a count that is lost is excused.           *)
NoneCounts ==
  \A h \in Hooks :
    /\ CountedAt(check'[h]) \subseteq CountedAt(check[h])
    /\ CountedAt(check'[h]) # {} =>
         check'[h].group = check[h].group /\ check[h].limits \subseteq check'[h].limits
    /\ \A l \in check[h].limits : GuardOf[l] \in CountedAt(check[h]) =>
         GuardOf[l] \in CountedAt(check'[h]) \/ check[h].group \in Excused(l)'

LEMMA CountsExplained ==
  ASSUME ExplainedInv, AskedInv', NoneCounts, UNCHANGED <<countFile, forgotten>>,
         \A l \in Limits : Excused(l) \subseteq Excused(l)'
  PROVE  ExplainedInv'
<1> SUFFICES ASSUME ~forgotten
             PROVE  OnlyCounter' /\ \A l \in Limits : \E S \in SUBSET Groups : Explains(S, l)'
  BY DEF ExplainedInv
<1>1. OnlyCounter /\ \A l \in Limits : \E S \in SUBSET Groups : Explains(S, l)
  BY DEF ExplainedInv
<1>2. \A h \in Hooks : CountedAt(check[h])' = CountedAt(check'[h])  BY DEF CountedAt
<1>3. OnlyCounter'
  <2> SUFFICES ASSUME NEW h \in Hooks, NEW i \in CountedAt(check'[h])
               PROVE  /\ check'[h].group \in ToSet(countFile.groups[i])
                      /\ \A x \in Hooks \ {h} :
                           check'[x].group = check'[h].group => i \notin CountedAt(check'[x])
    BY <1>2 DEF OnlyCounter
  <2>1. i \in CountedAt(check[h]) /\ check'[h].group = check[h].group  BY DEF NoneCounts
  <2>2. check'[h].group \in ToSet(countFile.groups[i])  BY <1>1, <2>1 DEF OnlyCounter
  <2>3. ASSUME NEW x \in Hooks \ {h}, check'[x].group = check'[h].group, i \in CountedAt(check'[x])
        PROVE  FALSE
    <3>1. i \in CountedAt(check[x]) /\ check[x].group = check[h].group
      BY <2>1, <2>3 DEF NoneCounts
    <3> QED  BY <1>1, <2>1, <3>1 DEF OnlyCounter
  <2> QED  BY <2>2, <2>3
<1>4. ASSUME NEW l \in Limits  PROVE \E S \in SUBSET Groups : Explains(S, l)'
  <2> PICK S \in SUBSET Groups : Explains(S, l)  BY <1>1
  <2>1. countFile'.counts[l] <= Cardinality(S) /\ \A g : Listed(g, l)' <=> Listed(g, l)
    BY DEF Explains, Listed
  <2>2. ASSUME NEW h \in Hooks, check'[h].group \in S, GuardOf[l] \in CountedAt(check'[h])
        PROVE  l \in check'[h].limits
    BY <2>2 DEF NoneCounts, Explains
  <2>3. ASSUME NEW g \in S
        PROVE  \/ g \in Excused(l)'
               \/ \E h \in Hooks : check'[h].group = g /\ GuardOf[l] \in CountedAt(check'[h])
    <3>1. CASE g \in Excused(l)  BY <3>1
    <3>2. ASSUME NEW h \in Hooks, check[h].group = g, GuardOf[l] \in CountedAt(check[h])
          PROVE  g \in Excused(l)' \/ (check'[h].group = g /\ GuardOf[l] \in CountedAt(check'[h]))
      <4>1. l \in check[h].limits  BY <3>2 DEF Explains
      <4> QED  BY <3>2, <4>1 DEF NoneCounts
    <3> QED  BY <3>1, <3>2 DEF Explains
  <2>4. Explains(S, l)'  BY <1>2, <2>1, <2>2, <2>3 DEF Explains
  <2> QED  BY <2>4
<1> QED  BY <1>3, <1>4

-----------------------------------------------------------------------------
(* The two writes of the count.                                            *)

LEMMA ReservedList ==
  ASSUME NEW file \in Counts, NEW g \in Groups, NEW i \in Guards, NEW ls
  PROVE  /\ g \in ToSet(Reserved(file, g, i, ls).groups[i])
         /\ \A j \in Guards \ {i} : Reserved(file, g, i, ls).groups[j] = file.groups[j]
<1> PICK s : s = file.groups[i]  OBVIOUS
<1> DEFINE a == Append(s, g)  t == Tail(a)
<1>1. file.groups \in [Guards -> Seq(Groups)] /\ s \in Seq(Groups)  BY DEF Counts
<1>2. Reserved(file, g, i, ls).groups = [file.groups EXCEPT ![i] = LastGroups(a)]
  BY DEF Reserved
<1>3. /\ a \in Seq(Groups) /\ Len(s) \in Nat /\ Len(a) = Len(s) + 1 /\ a[Len(s) + 1] = g
      /\ DOMAIN a = 1..(Len(s) + 1)
  BY <1>1
<1> HIDE DEF a
<1>4. g \in ToSet(LastGroups(a))
  <2>1. CASE Len(a) > MaxGroups
    <3>1. a # <<>> /\ Len(s) >= 1 /\ LastGroups(a) = t
      BY <1>3, <2>1, LimitsAssumption DEF LastGroups
    <3>2. DOMAIN t = 1..Len(s) /\ t[Len(s)] = a[Len(s) + 1]  BY <1>3, <3>1
    <3> HIDE DEF t
    <3>3. Len(s) \in DOMAIN t  BY <1>3, <3>1, <3>2
    <3> QED  BY <1>3, <3>1, <3>2, <3>3 DEF ToSet
  <2>2. CASE ~(Len(a) > MaxGroups)
    <3>1. LastGroups(a) = a /\ Len(s) + 1 \in DOMAIN a  BY <1>3, <2>2 DEF LastGroups
    <3> QED  BY <1>3, <3>1 DEF ToSet
  <2> QED  BY <2>1, <2>2
<1> QED  BY <1>1, <1>2, <1>4

LEMMA ReleasedList ==
  ASSUME NEW file \in Counts, NEW g, NEW i \in Guards, NEW ls
  PROVE  \A j \in Guards \ {i} : Released(file, g, i, ls).groups[j] = file.groups[j]
<1> PICK kept : kept = Keep(file.groups[i], Groups \ {g})  OBVIOUS
<1>1. Released(file, g, i, ls).groups = [file.groups EXCEPT ![i] = kept]  BY DEF Released
<1>2. file.groups \in [Guards -> Seq(Groups)]  BY DEF Counts
<1> QED  BY <1>1, <1>2

(* No tool call is forgotten by the write, but for the one it is about.    *)
Remembered(g) ==
  ~forgotten' => /\ ~forgotten
                 /\ \A i \in Guards :
                      ToSet(countFile.groups[i]) \subseteq ToSet(countFile'.groups[i]) \cup {g}

LEMMA ReserveExplained ==
  ASSUME BudgetInv, ExplainedInv, NEW h \in Hooks, NEW d,
         check[h].phase = "write", check[h].op = "reserve", Written(check[h], d, FALSE),
         check' = [check EXCEPT ![h] = d], countFile' = check[h].copy,
         UNCHANGED <<attempt, spent, unsettled>>, Remembered(check[h].group)
  PROVE  ExplainedInv'
<1> PICK c : c = check[h]  OBVIOUS
<1> PICK g : g = c.group  OBVIOUS
<1> PICK i : i = c.at  OBVIOUS
<1>1. /\ BudgetType /\ Coherent(c) /\ Current(c) /\ c \in CheckRecord /\ c.phase = "write"
      /\ c.op = "reserve" /\ Written(c, d, FALSE) /\ countFile \in Counts
  BY DEF BudgetInv, CallsInv, BudgetType
<1>2. /\ g \in Groups /\ i \in Guards /\ Reserving(c) /\ i \notin c.held
      /\ c.matched \in SUBSET Limits /\ c.limits \in SUBSET Limits /\ c.held \in SUBSET Guards
      /\ c.matched \subseteq Under(g, i)
      /\ countFile' = Reserved(countFile, g, i, c.matched) /\ ~Repeated(countFile, g, i)
  BY <1>1 DEF Coherent, Current, Waiting, CheckRecord, Reserving
<1>3. check'[h] = d /\ \A x \in Hooks \ {h} : check'[x] = check[x]  BY <1>1 DEF BudgetType
<1>4. /\ d.group = g /\ d.limits = c.limits \cup c.matched
      /\ CountedAt(c) = c.held /\ CountedAt(d) = c.held \cup {i}
  BY <1>1 DEF Written, CountedAt
<1>5. \A l \in Limits : /\ countFile'.counts[l] = IF l \in c.matched THEN countFile.counts[l] + 1
                                                  ELSE countFile.counts[l]
                        /\ countFile.counts[l] \in Nat
  <2>1. \A l \in Limits : countFile.counts[l] \in Nat  BY <1>1 DEF Counts
  <2> QED  BY <1>1, <1>2, <2>1, ReservedFile
<1>6. AskedInv'  BY DEF ExplainedInv, AskedInv
<1> SUFFICES ASSUME ~forgotten'
             PROVE  OnlyCounter' /\ \A l \in Limits : \E S \in SUBSET Groups : Explains(S, l)'
  BY <1>6 DEF ExplainedInv
<1>7. OnlyCounter /\ \A l \in Limits : \E S \in SUBSET Groups : Explains(S, l)
  BY DEF ExplainedInv, Remembered
<1>8. g \notin ToSet(countFile.groups[i])
  <2> PICK s : s = countFile.groups[i]  OBVIOUS
  <2>1. s \in Seq(Groups)  BY <1>1, <1>2 DEF Counts
  <2>2. DOMAIN s = 1..Len(s) /\ ~Contains(s, g)  BY <1>2, <2>1 DEF Repeated
  <2> QED  BY <2>2 DEF Contains, ToSet
<1>9. g \in ToSet(countFile'.groups[i])  BY <1>1, <1>2, ReservedList
<1>10. \A j \in Guards : ToSet(countFile.groups[j]) \subseteq ToSet(countFile'.groups[j])
  <2> SUFFICES ASSUME NEW j \in Guards, NEW k \in ToSet(countFile.groups[j])
               PROVE  k \in ToSet(countFile'.groups[j])
    OBVIOUS
  <2>1. k \in ToSet(countFile'.groups[j]) \/ k = g  BY DEF Remembered
  <2>2. j # i => countFile'.groups[j] = countFile.groups[j]  BY <1>1, <1>2, ReservedList
  <2> QED  BY <1>8, <2>1, <2>2
<1>11. \A x \in Hooks \ {h} : check[x].group = g => i \notin CountedAt(check[x])
  BY <1>7, <1>8 DEF OnlyCounter
<1>12. \A x \in Hooks : CountedAt(check[x])' = CountedAt(check'[x])  BY DEF CountedAt
<1>13. \A x \in Hooks : CountedAt(check[x]) \subseteq Guards
  BY <1>1 DEF BudgetType, CheckRecord, CountedAt
<1>14. OnlyCounter'
  <2> SUFFICES ASSUME NEW x \in Hooks, NEW j \in CountedAt(check'[x])
               PROVE  /\ check'[x].group \in ToSet(countFile'.groups[j])
                      /\ \A y \in Hooks \ {x} :
                           check'[y].group = check'[x].group => j \notin CountedAt(check'[y])
    BY <1>12 DEF OnlyCounter
  <2>1. check'[x].group = check[x].group
        /\ \A y \in Hooks \ {x} : check'[y].group = check[y].group
    BY <1>3, <1>4
  <2>2. CASE j \in CountedAt(check[x])
    <3>1. /\ check[x].group \in ToSet(countFile.groups[j]) /\ j \in Guards
          /\ \A y \in Hooks \ {x} : check[y].group = check[x].group => j \notin CountedAt(check[y])
      BY <1>7, <1>13, <2>2 DEF OnlyCounter
    <3>2. check[x].group \in ToSet(countFile'.groups[j])  BY <1>10, <3>1
    <3>3. ASSUME NEW y \in Hooks \ {x}, check[y].group = check[x].group, j \in CountedAt(check'[y])
          PROVE  FALSE
      <4>1. j \notin CountedAt(check[y])  BY <3>1, <3>3
      <4>2. y = h /\ j = i  BY <1>3, <1>4, <3>3, <4>1
      <4> QED  BY <1>11, <2>2, <3>3, <4>2
    <3> QED  BY <2>1, <3>2, <3>3
  <2>3. CASE j \notin CountedAt(check[x])
    <3>1. x = h /\ j = i  BY <1>3, <1>4, <2>3
    <3> QED  BY <1>3, <1>9, <1>11, <2>1, <3>1
  <2> QED  BY <2>2, <2>3
<1>15. ASSUME NEW l \in Limits  PROVE \E S \in SUBSET Groups : Explains(S, l)'
  <2> PICK S \in SUBSET Groups : Explains(S, l)  BY <1>7
  <2> PICK T \in SUBSET Groups : T = IF l \in c.matched THEN S \cup {g} ELSE S  BY <1>2
  <2>1. GuardOf[l] \in Guards  BY LimitsAssumption DEF Guards
  <2>2. \A k : Listed(k, l) => Listed(k, l)'  BY <1>10, <2>1 DEF Listed
  <2>3. l \in c.matched => GuardOf[l] = i /\ Listed(g, l)'  BY <1>2, <1>9 DEF Under, Listed
  <2>4. GuardOf[l] = i => g \notin S  BY <1>8 DEF Explains, Listed
  <2>5. countFile'.counts[l] <= Cardinality(T)
    <3>1. IsFiniteSet(S) /\ Cardinality(S) \in Nat
      BY LimitsAssumption, FS_Subset, FS_CardinalityType
    <3>2. CASE l \in c.matched
      <4>1. Cardinality(S \cup {g}) = Cardinality(S) + 1  BY <2>3, <2>4, <3>1, <3>2, FS_AddElement
      <4> QED  BY <1>5, <3>1, <3>2, <4>1 DEF Explains
    <3>3. CASE l \notin c.matched  BY <1>5, <3>3 DEF Explains
    <3> QED  BY <3>2, <3>3
  <2>6. ASSUME NEW k \in T
        PROVE  /\ Listed(k, l)'
               /\ \/ k \in Excused(l)'
                  \/ \E x \in Hooks : check'[x].group = k /\ GuardOf[l] \in CountedAt(check'[x])
    <3>1. CASE k \in S
      <4>1. \/ k \in Excused(l)
            \/ \E x \in Hooks : check[x].group = k /\ GuardOf[l] \in CountedAt(check[x])
        BY <3>1 DEF Explains
      <4>2. Excused(l)' = Excused(l)  BY DEF Excused
      <4>3. \A x \in Hooks : /\ check'[x].group = check[x].group
                             /\ CountedAt(check[x]) \subseteq CountedAt(check'[x])
        BY <1>3, <1>4
      <4> QED  BY <2>2, <3>1, <4>1, <4>2, <4>3 DEF Explains
    <3>2. CASE k \notin S
      <4>1. k = g /\ GuardOf[l] = i /\ Listed(g, l)'  BY <2>3, <3>2
      <4> QED  BY <1>3, <1>4, <4>1
    <3> QED  BY <3>1, <3>2
  <2>7. ASSUME NEW x \in Hooks, check'[x].group \in T, GuardOf[l] \in CountedAt(check'[x])
        PROVE  l \in check'[x].limits
    <3>1. CASE x = h
      <4>1. CASE l \in c.matched  BY <1>3, <1>4, <3>1, <4>1
      <4>2. CASE l \notin c.matched
        <5>1. g \in S /\ GuardOf[l] \in c.held  BY <1>3, <1>4, <2>4, <2>7, <3>1, <4>2
        <5>2. l \in c.limits  BY <1>4, <5>1 DEF Explains
        <5> QED  BY <1>3, <1>4, <3>1, <5>2
      <4> QED  BY <4>1, <4>2
    <3>2. CASE x # h
      <4>1. check'[x] = check[x]  BY <1>3, <3>2
      <4>2. check[x].group \in S
        <5>1. check[x].group = g => GuardOf[l] # i  BY <1>11, <2>7, <3>2, <4>1
        <5> QED  BY <2>3, <2>7, <4>1, <5>1
      <4> QED  BY <2>7, <4>1, <4>2 DEF Explains
    <3> QED  BY <3>1, <3>2
  <2>8. Explains(T, l)'  BY <1>12, <2>5, <2>6, <2>7 DEF Explains
  <2> QED  BY <2>8
<1> QED  BY <1>14, <1>15

LEMMA ReleaseExplained ==
  ASSUME BudgetInv, ExplainedInv, NEW h \in Hooks, NEW d,
         check[h].phase = "write", check[h].op = "release", Written(check[h], d, TRUE),
         check' = [check EXCEPT ![h] = d], countFile' = check[h].copy,
         UNCHANGED <<attempt, spent, unsettled>>, Remembered(check[h].group)
  PROVE  ExplainedInv'
<1> PICK c : c = check[h]  OBVIOUS
<1> PICK g : g = c.group  OBVIOUS
<1> PICK i : i = c.at  OBVIOUS
<1>1. /\ BudgetType /\ Coherent(c) /\ Current(c) /\ c \in CheckRecord /\ c.phase = "write"
      /\ c.op = "release" /\ Written(c, d, TRUE) /\ countFile \in Counts
  BY DEF BudgetInv, CallsInv, BudgetType
<1>2. /\ g \in Groups /\ i \in Guards /\ i \notin c.held /\ c.matched \in SUBSET Limits
      /\ c.matched = {l \in c.limits : GuardOf[l] = i}
      /\ countFile' = Released(countFile, g, i, c.matched)
  BY <1>1 DEF Coherent, Current, Waiting, CheckRecord, Releasing
<1>3. check'[h] = d /\ \A x \in Hooks \ {h} : check'[x] = check[x]  BY <1>1 DEF BudgetType
<1>4. /\ d.group = g /\ d.limits = c.limits
      /\ CountedAt(c) = c.held \cup {i} /\ CountedAt(d) = c.held
  BY <1>1 DEF Written, CountedAt, Waiting
<1>5. \A l \in Limits : /\ countFile'.counts[l] = IF l \in c.matched /\ countFile.counts[l] > 0
                                                  THEN countFile.counts[l] - 1
                                                  ELSE countFile.counts[l]
                        /\ countFile.counts[l] \in Nat
  <2>1. \A l \in Limits : countFile.counts[l] \in Nat  BY <1>1 DEF Counts
  <2> QED  BY <1>1, <1>2, <2>1, ReleasedFile
<1>6. AskedInv'  BY DEF ExplainedInv, AskedInv
<1> SUFFICES ASSUME ~forgotten'
             PROVE  OnlyCounter' /\ \A l \in Limits : \E S \in SUBSET Groups : Explains(S, l)'
  BY <1>6 DEF ExplainedInv
<1>7. OnlyCounter /\ \A l \in Limits : \E S \in SUBSET Groups : Explains(S, l)
  BY DEF ExplainedInv, Remembered
<1>8. ASSUME NEW j \in Guards, NEW k \in ToSet(countFile.groups[j]), j # i \/ k # g
      PROVE  k \in ToSet(countFile'.groups[j])
  <2>1. k \in ToSet(countFile'.groups[j]) \/ k = g  BY DEF Remembered
  <2>2. j # i => countFile'.groups[j] = countFile.groups[j]  BY <1>1, <1>2, ReleasedList
  <2> QED  BY <1>8, <2>1, <2>2
<1>9. \A x \in Hooks \ {h} : check[x].group = g => i \notin CountedAt(check[x])
  BY <1>4, <1>7 DEF OnlyCounter
<1>10. \A x \in Hooks : CountedAt(check[x])' = CountedAt(check'[x])  BY DEF CountedAt
<1>11. \A x \in Hooks : CountedAt(check[x]) \subseteq Guards
  BY <1>1 DEF BudgetType, CheckRecord, CountedAt
<1>12. \A x \in Hooks : /\ check'[x].group = check[x].group /\ check'[x].limits = check[x].limits
                        /\ CountedAt(check'[x]) \subseteq CountedAt(check[x])
                        /\ check[x].group = g => i \notin CountedAt(check'[x])
  BY <1>2, <1>3, <1>4, <1>9
<1>13. OnlyCounter'
  <2> SUFFICES ASSUME NEW x \in Hooks, NEW j \in CountedAt(check'[x])
               PROVE  /\ check'[x].group \in ToSet(countFile'.groups[j])
                      /\ \A y \in Hooks \ {x} :
                           check'[y].group = check'[x].group => j \notin CountedAt(check'[y])
    BY <1>10 DEF OnlyCounter
  <2>1. j \in CountedAt(check[x]) /\ j \in Guards /\ (j # i \/ check[x].group # g)
    BY <1>11, <1>12
  <2>2. /\ check[x].group \in ToSet(countFile.groups[j])
        /\ \A y \in Hooks \ {x} : check[y].group = check[x].group => j \notin CountedAt(check[y])
    BY <1>7, <2>1 DEF OnlyCounter
  <2>3. check[x].group \in ToSet(countFile'.groups[j])  BY <1>8, <2>1, <2>2
  <2> QED  BY <1>12, <2>2, <2>3
<1>14. ASSUME NEW l \in Limits  PROVE \E S \in SUBSET Groups : Explains(S, l)'
  <2> PICK S \in SUBSET Groups : Explains(S, l)  BY <1>7
  <2> PICK T \in SUBSET Groups : T = IF GuardOf[l] = i THEN S \ {g} ELSE S  OBVIOUS
  <2>1. GuardOf[l] \in Guards  BY LimitsAssumption DEF Guards
  <2>2. \A k \in T : k \in S /\ (GuardOf[l] # i \/ k # g)  OBVIOUS
  <2>3. countFile'.counts[l] <= Cardinality(T)
    <3>1. IsFiniteSet(S) /\ Cardinality(S) \in Nat
      BY LimitsAssumption, FS_Subset, FS_CardinalityType
    <3>2. countFile.counts[l] <= Cardinality(S)  BY DEF Explains
    <3>3. CASE l \in c.matched
      <4>1. T = S \ {g} /\ IsFiniteSet(T)  BY <1>2, <3>1, <3>3, FS_RemoveElement
      <4>2. Cardinality(T) = IF g \in S THEN Cardinality(S) - 1 ELSE Cardinality(S)
        BY <3>1, <4>1, FS_RemoveElement
      <4>3. Cardinality(T) \in Nat  BY <4>1, FS_CardinalityType
      <4> QED  BY <1>5, <3>1, <3>2, <3>3, <4>2, <4>3
    <3>4. CASE l \notin c.matched
      <4>1. GuardOf[l] = i => g \notin S  BY <1>2, <1>4, <3>4 DEF Explains
      <4>2. T = S  BY <4>1
      <4> QED  BY <1>5, <3>2, <3>4, <4>2
    <3> QED  BY <3>3, <3>4
  <2>4. ASSUME NEW k \in T
        PROVE  /\ Listed(k, l)'
               /\ \/ k \in Excused(l)'
                  \/ \E x \in Hooks : check'[x].group = k /\ GuardOf[l] \in CountedAt(check'[x])
    <3>1. /\ Listed(k, l)
          /\ \/ k \in Excused(l)
             \/ \E x \in Hooks : check[x].group = k /\ GuardOf[l] \in CountedAt(check[x])
      BY <2>2 DEF Explains
    <3>2. Listed(k, l)'  BY <1>8, <2>1, <2>2, <3>1 DEF Listed
    <3>3. Excused(l)' = Excused(l)  BY DEF Excused
    <3>4. ASSUME NEW x \in Hooks, check[x].group = k, GuardOf[l] \in CountedAt(check[x])
          PROVE  check'[x].group = k /\ GuardOf[l] \in CountedAt(check'[x])
      <4>1. x = h => GuardOf[l] # i  BY <2>2, <3>4
      <4> QED  BY <1>3, <1>4, <3>4, <4>1
    <3> QED  BY <3>1, <3>2, <3>3, <3>4
  <2>5. ASSUME NEW x \in Hooks, check'[x].group \in T, GuardOf[l] \in CountedAt(check'[x])
        PROVE  l \in check'[x].limits
    BY <1>12, <2>2, <2>5 DEF Explains
  <2>6. Explains(T, l)'  BY <1>10, <2>3, <2>4, <2>5 DEF Explains
  <2> QED  BY <2>6
<1> QED  BY <1>13, <1>14

-----------------------------------------------------------------------------
(* The other steps.                                                        *)

(* A process goes on with d, or its tool call is not to be explained.      *)
LEMMA GoesOnExplained ==
  ASSUME BudgetInv, ExplainedInv, NEW h \in Hooks, NEW d,
         check' = [check EXCEPT ![h] = d], UNCHANGED <<countFile, forgotten, attempt, spent>>,
         unsettled \subseteq unsettled',
         d.group = check[h].group, check[h].limits \subseteq d.limits,
         CountedAt(d) \subseteq CountedAt(check[h]),
         CountedAt(check[h]) \subseteq CountedAt(d) \/ d.group \in unsettled'
  PROVE  ExplainedInv'
<1>1. check'[h] = d /\ \A x \in Hooks \ {h} : check'[x] = check[x]
  BY DEF BudgetInv, BudgetType
<1>2. AskedInv'  BY DEF ExplainedInv, AskedInv
<1>3. \A l \in Limits : Excused(l) \subseteq Excused(l)' /\ unsettled' \subseteq Excused(l)'
  BY DEF Excused
<1>4. \A x \in Hooks : check[x].limits \subseteq Limits  BY DEF BudgetInv, BudgetType, CheckRecord
<1>5. NoneCounts
  <2> SUFFICES ASSUME NEW x \in Hooks
               PROVE  /\ CountedAt(check'[x]) \subseteq CountedAt(check[x])
                      /\ check'[x].group = check[x].group
                      /\ check[x].limits \subseteq check'[x].limits
                      /\ \A l \in check[x].limits : GuardOf[l] \in CountedAt(check[x]) =>
                           GuardOf[l] \in CountedAt(check'[x]) \/ check[x].group \in Excused(l)'
    BY DEF NoneCounts
  <2>1. CASE x = h  BY <1>1, <1>3, <1>4, <2>1
  <2>2. CASE x # h  BY <1>1, <2>2
  <2> QED  BY <2>1, <2>2
<1> QED  BY <1>2, <1>3, <1>5, CountsExplained

(* A process answers.                                                      *)
LEMMA AnswerExplained ==
  ASSUME BudgetInv, ExplainedInv, NEW h \in Hooks, NEW ok \in BOOLEAN,
         check[h].phase # "idle", check' = [check EXCEPT ![h] = Resting],
         Answered(check[h].group, h, ok), UNCHANGED <<countFile, forgotten>>,
         unsettled \subseteq unsettled',
         \/ ok \/ CountedAt(check[h]) = {}
         \/ check[h].group \in unsettled' \cup AfterFact
  PROVE  ExplainedInv'
<1> PICK g : g = check[h].group  OBVIOUS
<1>1. /\ g \in Groups /\ h \in attempt[g].open /\ check[h].limits \in SUBSET Limits
      /\ attempt[g] \in AttemptRecord /\ attempt \in [Groups -> AttemptRecord]
      /\ spent \in [Limits -> SUBSET Groups]
  BY DEF BudgetInv, CallsInv, Coherent, BudgetType, CheckRecord
<1>2. check'[h] = Resting /\ \A x \in Hooks \ {h} : check'[x] = check[x]
  BY DEF BudgetInv, BudgetType
<1> DEFINE left == [open |-> attempt[g].open \ {h}, ok |-> attempt[g].ok /\ ok,
                    limits |-> attempt[g].limits \cup check[h].limits, tries |-> attempt[g].tries]
<1>3. /\ attempt' = [attempt EXCEPT ![g] = left]
      /\ spent' = IF left.open = {} /\ (left.ok \/ g \in AfterFact)
                  THEN [m \in Limits |-> IF m \in left.limits THEN spent[m] \cup {g} ELSE spent[m]]
                  ELSE spent
  BY DEF Answered
<1>4. /\ left.open = attempt[g].open \ {h} /\ left.tries = attempt[g].tries
      /\ left.limits = attempt[g].limits \cup check[h].limits
  OBVIOUS
<1>5. left.ok <=> attempt[g].ok /\ ok  OBVIOUS
<1> HIDE DEF left
<1>6. attempt'[g] = left /\ \A k \in Groups \ {g} : attempt'[k] = attempt[k]  BY <1>1, <1>3
<1>7. /\ attempt[g].tries > 0
      /\ g \notin Twice => attempt[g].ok /\ attempt[g].open = {h}
  <2>1. AskedInv  BY DEF ExplainedInv
  <2> QED  BY <1>1, <2>1 DEF AskedInv
<1>8. AskedInv'
  <2> SUFFICES ASSUME NEW k \in Groups, attempt'[k].open # {}
               PROVE  /\ attempt'[k].tries > 0
                      /\ k \notin Twice =>
                           attempt'[k].ok /\ \E x \in Hooks : attempt'[k].open = {x}
    BY DEF AskedInv
  <2>1. CASE k = g
    <3>1. g \in Twice  BY <1>4, <1>6, <1>7, <2>1
    <3> QED  BY <1>4, <1>6, <1>7, <2>1, <3>1
  <2>2. CASE k # g
    <3>1. AskedInv /\ attempt'[k] = attempt[k]  BY <1>6, <2>2 DEF ExplainedInv
    <3> QED  BY <3>1 DEF AskedInv
  <2> QED  BY <2>1, <2>2
<1>9. ASSUME NEW l \in Limits  PROVE Excused(l) \subseteq Excused(l)'
  <2>1. spent[l] \subseteq spent'[l]  BY <1>1, <1>3
  <2>2. \A t \in Groups : attempt'[t].tries = attempt[t].tries  BY <1>4, <1>6
  <2> QED  BY <2>1, <2>2 DEF Excused
<1>10. CountedAt(Resting) = {}  BY DEF CountedAt, Resting
<1>11. ASSUME NEW l \in check[h].limits, CountedAt(check[h]) # {}  PROVE g \in Excused(l)'
  <2>1. CASE g \in Twice  BY <1>1, <1>4, <1>6, <1>7, <2>1 DEF Excused
  <2>2. CASE g \in unsettled'  BY <2>2 DEF Excused
  <2>3. CASE g \notin Twice /\ (ok \/ g \in AfterFact)
    <3>1. left.open = {} /\ (left.ok \/ g \in AfterFact) /\ l \in left.limits /\ l \in Limits
      BY <1>1, <1>4, <1>5, <1>7, <2>3
    <3>2. g \in spent'[l]  BY <1>3, <3>1
    <3> QED  BY <3>2 DEF Excused
  <2> QED  BY <1>11, <2>1, <2>2, <2>3
<1>12. NoneCounts
  <2> SUFFICES ASSUME NEW x \in Hooks
               PROVE  /\ CountedAt(check'[x]) \subseteq CountedAt(check[x])
                      /\ CountedAt(check'[x]) # {} =>
                           /\ check'[x].group = check[x].group
                           /\ check[x].limits \subseteq check'[x].limits
                      /\ \A l \in check[x].limits : GuardOf[l] \in CountedAt(check[x]) =>
                           GuardOf[l] \in CountedAt(check'[x]) \/ check[x].group \in Excused(l)'
    BY DEF NoneCounts
  <2>1. CASE x = h  BY <1>2, <1>10, <1>11, <2>1
  <2>2. CASE x # h  BY <1>2, <2>2
  <2> QED  BY <2>1, <2>2
<1> QED  BY <1>8, <1>9, <1>12, CountsExplained

LEMMA AskExplained ==
  ASSUME BudgetInv, ExplainedInv, NEW g \in Groups, NEW hs \in SUBSET Hooks, Ask(g, hs)
  PROVE  ExplainedInv'
<1> PICK start : start = [Resting EXCEPT !.group = g]  OBVIOUS
<1> PICK c : c = AskGuard(start, 1)  OBVIOUS
<1> PICK n : n = attempt[g].tries + 1  OBVIOUS
<1>1. /\ BudgetType /\ CallsInv /\ AskedInv /\ Cardinality(hs) = IF g \in Twice THEN 2 ELSE 1
      /\ \A h \in hs : check[h].phase = "idle"
      /\ UNCHANGED <<countFile, spent, unsettled, forgotten>>
      /\ attempt \in [Groups -> AttemptRecord] /\ attempt[g].tries \in Nat
  BY DEF BudgetInv, BudgetType, AttemptRecord, ExplainedInv, Ask
<1>2. /\ start \in CheckRecord /\ start.group = g /\ start.op = "reserve" /\ start.held = {}
  <2>1. Resting \in CheckRecord  BY DEF Resting, CheckRecord, Phases, Guards
  <2>2. start \in CheckRecord /\ start.group = g  BY <2>1 DEF CheckRecord
  <2>3. start.op = Resting.op /\ start.held = Resting.held  BY <2>1 DEF CheckRecord
  <2> QED  BY <2>2, <2>3 DEF Resting
<1>3. c.phase # "idle" => CountedAt(c) = {}
  <2>1. 1 \in 1..3 /\ start.group \in Groups  BY <1>2
  <2>2. Passes(start, c) \/ AsksNext(start, c, 1) \/ c = Refuse(start)  BY <1>2, <2>1, AskShape
  <2>3. Done(start, Refuse(start)) \/ GivesBack(start, Refuse(start))  BY <1>2, RefuseShape
  <2> QED  BY <1>2, <2>2, <2>3 DEF Passes, AsksNext, Done, GivesBack, CountedAt
<1>4. IF c.phase = "idle"
      THEN /\ attempt' = [attempt EXCEPT ![g] = [open |-> {}, ok |-> FALSE, limits |-> {},
                                                tries |-> n]]
           /\ UNCHANGED check
      ELSE /\ attempt' = [attempt EXCEPT ![g] = [open |-> hs, ok |-> TRUE, limits |-> {},
                                                tries |-> n]]
           /\ check' = [h \in Hooks |-> IF h \in hs THEN c ELSE check[h]]
  BY DEF Ask
<1>5. /\ \A k \in Groups \ {g} : attempt'[k] = attempt[k]
      /\ attempt'[g].tries = n /\ n > 0
      /\ attempt'[g].open # {} => attempt'[g].open = hs /\ attempt'[g].ok
  BY <1>1, <1>4
<1>6. g \notin Twice => \E h \in Hooks : hs = {h}
  <2> SUFFICES ASSUME g \notin Twice  PROVE \E h \in Hooks : hs = {h}  OBVIOUS
  <2>1. IsFiniteSet(hs) /\ Cardinality(hs) = 1  BY <1>1, LimitsAssumption, FS_Subset
  <2>2. PICK h : hs = {h}  BY <2>1, FS_Singleton
  <2> QED  BY <2>2
<1>7. AskedInv'
  <2> SUFFICES ASSUME NEW k \in Groups, attempt'[k].open # {}
               PROVE  /\ attempt'[k].tries > 0
                      /\ k \notin Twice =>
                           attempt'[k].ok /\ \E x \in Hooks : attempt'[k].open = {x}
    BY DEF AskedInv
  <2>1. CASE k = g  BY <1>5, <1>6, <2>1
  <2>2. CASE k # g  BY <1>1, <1>5, <2>2 DEF AskedInv
  <2> QED  BY <2>1, <2>2
<1>8. ASSUME NEW l \in Limits  PROVE Excused(l) \subseteq Excused(l)'
  <2>1. \A t \in Groups : attempt[t].tries > 0 => attempt'[t].tries > 0  BY <1>5
  <2> QED  BY <1>1, <2>1 DEF Excused
<1>9. NoneCounts
  <2> SUFFICES ASSUME NEW x \in Hooks
               PROVE  /\ CountedAt(check'[x]) = {} /\ CountedAt(check[x]) = {}
                      \/ check'[x] = check[x]
    BY DEF NoneCounts
  <2>1. CASE c.phase = "idle"  BY <1>4, <2>1
  <2>2. CASE c.phase # "idle" /\ x \in hs
    <3>1. check[x] = Resting /\ check'[x] = c  BY <1>1, <1>4, <2>2 DEF CallsInv, Coherent
    <3>2. CountedAt(Resting) = {}  BY DEF CountedAt, Resting
    <3> QED  BY <1>3, <2>2, <3>1, <3>2
  <2>3. CASE c.phase # "idle" /\ x \notin hs  BY <1>4, <2>3
  <2> QED  BY <2>1, <2>2, <2>3
<1> QED  BY <1>1, <1>7, <1>8, <1>9, CountsExplained

(* A process that has left the lock, or the rules, moves on.               *)
LEMMA ContinueExplained ==
  ASSUME BudgetInv, ExplainedInv, NEW h \in Hooks,
         check[h].phase \in {"lock", "unlock", "rules"},
         NEW e, Leaves(check[h], e), NEW d, MovesOn(e, d), Continue(h, d),
         UNCHANGED <<countFile, forgotten>>, unsettled \subseteq unsettled',
         check[h].phase = "lock" /\ check[h].op = "release" => check[h].group \in unsettled'
  PROVE  ExplainedInv'
<1> PICK c : c = check[h]  OBVIOUS
<1>1. /\ c.phase \in {"lock", "unlock", "rules"} /\ c \in CheckRecord
      /\ e.group = c.group /\ e.held = c.held /\ c.limits \subseteq e.limits
      /\ d.group = c.group /\ d.limits = e.limits
  BY DEF BudgetInv, BudgetType, Leaves, MovesOn, SameCall
<1>2. c.held \subseteq CountedAt(c) /\ (CountedAt(c) = c.held \/ c.group \in unsettled')
  BY <1>1 DEF CountedAt, Waiting
<1>3. CASE Done(e, d)
  <2>1. check' = [check EXCEPT ![h] = Resting] /\ Answered(c.group, h, FALSE)
    BY <1>1, <1>3 DEF Done, Continue
  <2>2. CountedAt(c) = {} \/ c.group \in unsettled' \cup AfterFact  BY <1>1, <1>2, <1>3 DEF Done
  <2>3. c.phase # "idle"  BY <1>1
  <2> QED  BY <2>1, <2>2, <2>3, AnswerExplained
<1>4. CASE d.phase # "idle" /\ CountedAt(d) = c.held
  <2>1. check' = [check EXCEPT ![h] = d] /\ UNCHANGED <<attempt, spent>>  BY <1>4 DEF Continue
  <2> QED  BY <1>1, <1>2, <1>4, <2>1, GoesOnExplained
<1>5. GivesBack(e, d) => d.phase # "idle" /\ CountedAt(d) = c.held
  BY <1>1 DEF GivesBack, CountedAt, Waiting
<1>6. e.op = "reserve" /\ (AsksNext(e, d, e.at + 1) \/ Passes(e, d)) =>
        d.phase # "idle" /\ CountedAt(d) = c.held
  BY <1>1 DEF AsksNext, Passes, CountedAt
<1> QED  BY <1>3, <1>4, <1>5, <1>6 DEF MovesOn

LEMMA PhaseExplained ==
  ASSUME BudgetInv, ExplainedInv, NEW h \in Hooks, check[h].phase \in {"lock", "stale"},
         NEW p \in {"lock", "stale", "read"}, check' = [check EXCEPT ![h].phase = p],
         UNCHANGED <<countFile, attempt, spent, unsettled, forgotten>>
  PROVE  ExplainedInv'
<1> PICK c : c = check[h]  OBVIOUS
<1> PICK d : d = [c EXCEPT !.phase = p]  OBVIOUS
<1>1. c \in CheckRecord /\ check' = [check EXCEPT ![h] = d] /\ c.phase \in {"lock", "stale"}
  BY DEF BudgetInv, BudgetType
<1>2. /\ d.phase = p /\ d.group = c.group /\ d.op = c.op /\ d.at = c.at /\ d.held = c.held
      /\ d.limits = c.limits
  BY <1>1 DEF CheckRecord
<1>3. CountedAt(d) = CountedAt(c)  BY <1>1, <1>2 DEF CountedAt, Waiting
<1>4. /\ d.group = check[h].group /\ check[h].limits \subseteq d.limits
      /\ CountedAt(d) \subseteq CountedAt(check[h]) /\ CountedAt(check[h]) \subseteq CountedAt(d)
      /\ UNCHANGED <<countFile, forgotten, attempt, spent>> /\ unsettled \subseteq unsettled'
  BY <1>2, <1>3
<1> QED  BY <1>1, <1>4, GoesOnExplained, ZenonT(30)

LEMMA GiveUpExplained ==
  ASSUME BudgetInv, ExplainedInv, NEW h \in Hooks, GiveUp(h)
  PROVE  ExplainedInv'
<1> PICK c : c = check[h]  OBVIOUS
<1> PICK e : e = [c EXCEPT !.outcome = WhenUnavailable(c), !.limits = c.limits \cup c.matched]
  OBVIOUS
<1>1. /\ c \in CheckRecord /\ Coherent(c) /\ c.phase = "lock" /\ Continue(h, AfterLock(e))
      /\ UNCHANGED <<countFile, forgotten>>
      /\ unsettled' = IF c.op = "release" THEN unsettled \cup {c.group} ELSE unsettled
  BY DEF BudgetInv, BudgetType, CallsInv, GiveUp
<1>2. WhenUnavailable(c) \in {"allow", "deny"}  BY DEF WhenUnavailable
<1>3. /\ e \in CheckRecord /\ e.group = c.group /\ e.op = c.op /\ e.at = c.at /\ e.held = c.held
      /\ e.limits = c.limits \cup c.matched /\ e.outcome = WhenUnavailable(c)
  BY <1>1, <1>2 DEF CheckRecord
<1>4. Leaves(c, e) /\ e.group \in Groups  BY <1>1, <1>3 DEF Leaves, Coherent
<1>5. MovesOn(e, AfterLock(e))  BY <1>3, <1>4, AfterLockMoves
<1>6. unsettled \subseteq unsettled' /\ (c.op = "release" => c.group \in unsettled')  BY <1>1
<1> QED  BY <1>1, <1>4, <1>5, <1>6, ContinueExplained

LEMMA FileFailsExplained ==
  ASSUME BudgetInv, ExplainedInv, NEW h \in Hooks, FileFails(h)
  PROVE  ExplainedInv'
<1> PICK c : c = check[h]  OBVIOUS
<1> PICK d : d = [c EXCEPT !.phase = "unlock", !.copy = "none", !.outcome = WhenUnavailable(c),
                           !.limits = c.limits \cup c.matched]
  OBVIOUS
<1>1. /\ c \in CheckRecord /\ check' = [check EXCEPT ![h] = d]
      /\ UNCHANGED <<countFile, forgotten, attempt, spent>>
      /\ unsettled' = IF c.op = "release" THEN unsettled \cup {c.group} ELSE unsettled
  BY DEF BudgetInv, BudgetType, FileFails
<1>2. /\ d.phase = "unlock" /\ d.group = c.group /\ d.op = c.op /\ d.at = c.at /\ d.held = c.held
      /\ d.limits = c.limits \cup c.matched
  BY <1>1 DEF CheckRecord
<1>3. CountedAt(d) = c.held /\ c.held \subseteq CountedAt(c)  BY <1>2 DEF CountedAt, Waiting
<1>4. CountedAt(c) = c.held \/ d.group \in unsettled'  BY <1>1, <1>2 DEF CountedAt
<1>5. unsettled \subseteq unsettled' /\ c.limits \subseteq d.limits  BY <1>1, <1>2
<1> QED  BY <1>1, <1>2, <1>3, <1>4, <1>5, GoesOnExplained

LEMMA ReadExplained ==
  ASSUME BudgetInv, ExplainedInv, NEW h \in Hooks, Read(h)
  PROVE  ExplainedInv'
<1> PICK c : c = check[h]  OBVIOUS
<1> DEFINE over == c.group \notin AfterFact /\ Over(countFile, c.group, c.matched)
           repeated == Repeated(countFile, c.group, c.at)
<1>1. /\ c \in CheckRecord /\ c.phase = "read" /\ c.op \in {"reserve", "release"}
      /\ UNCHANGED <<countFile, forgotten, attempt, spent, unsettled>>
  BY DEF BudgetInv, BudgetType, CheckRecord, Read
<1>2. check' = [check EXCEPT ![h] =
          CASE c.op = "release" ->
                 [c EXCEPT !.phase = "write",
                           !.copy = Released(countFile, c.group, c.at, c.matched)]
            [] c.op = "reserve" /\ over -> [c EXCEPT !.phase = "unlock", !.outcome = "deny"]
            [] c.op = "reserve" /\ ~over /\ repeated ->
                 [c EXCEPT !.phase = "unlock", !.limits = c.limits \cup c.matched]
            [] OTHER ->
                 [c EXCEPT !.phase = "write",
                           !.copy = Reserved(countFile, c.group, c.at, c.matched)]]
  BY DEF Read
<1> HIDE DEF over, repeated
<1>3. ASSUME NEW d, check' = [check EXCEPT ![h] = d], d.group = c.group, d.op = c.op,
             d.at = c.at, d.held = c.held, c.limits \subseteq d.limits,
             c.op = "release" => d.phase = "write"
      PROVE  ExplainedInv'
  <2>1. CountedAt(d) = CountedAt(c)  BY <1>1, <1>3 DEF CountedAt, Waiting
  <2> QED  BY <1>1, <1>3, <2>1, GoesOnExplained
<1>4. CASE c.op = "release"
  <2> PICK f : f = Released(countFile, c.group, c.at, c.matched)  OBVIOUS
  <2> PICK d : d = [c EXCEPT !.phase = "write", !.copy = f]  OBVIOUS
  <2>1. check' = [check EXCEPT ![h] = d]  BY <1>2, <1>4
  <2>2. /\ d.phase = "write" /\ d.group = c.group /\ d.op = c.op /\ d.at = c.at
        /\ d.held = c.held /\ d.limits = c.limits
    BY <1>1 DEF CheckRecord
  <2> QED  BY <1>3, <2>1, <2>2
<1>5. CASE c.op = "reserve" /\ over
  <2> PICK d : d = [c EXCEPT !.phase = "unlock", !.outcome = "deny"]  OBVIOUS
  <2>1. check' = [check EXCEPT ![h] = d]  BY <1>2, <1>5
  <2>2. /\ d.group = c.group /\ d.op = c.op /\ d.at = c.at /\ d.held = c.held
        /\ d.limits = c.limits
    BY <1>1 DEF CheckRecord
  <2> QED  BY <1>3, <1>5, <2>1, <2>2
<1>6. CASE c.op = "reserve" /\ ~over /\ repeated
  <2> PICK d : d = [c EXCEPT !.phase = "unlock", !.limits = c.limits \cup c.matched]  OBVIOUS
  <2>1. check' = [check EXCEPT ![h] = d]  BY <1>2, <1>6
  <2>2. /\ d.group = c.group /\ d.op = c.op /\ d.at = c.at /\ d.held = c.held
        /\ d.limits = c.limits \cup c.matched
    BY <1>1 DEF CheckRecord
  <2>3. c.limits \subseteq d.limits  BY <2>2
  <2> QED  BY <1>3, <1>6, <2>1, <2>2, <2>3
<1>7. CASE c.op = "reserve" /\ ~over /\ ~repeated
  <2> PICK f : f = Reserved(countFile, c.group, c.at, c.matched)  OBVIOUS
  <2> PICK d : d = [c EXCEPT !.phase = "write", !.copy = f]  OBVIOUS
  <2>1. check' = [check EXCEPT ![h] = d]  BY <1>2, <1>7
  <2>2. /\ d.group = c.group /\ d.op = c.op /\ d.at = c.at /\ d.held = c.held
        /\ d.limits = c.limits
    BY <1>1 DEF CheckRecord
  <2> QED  BY <1>3, <1>7, <2>1, <2>2
<1> QED  BY <1>1, <1>4, <1>5, <1>6, <1>7

LEMMA WriteExplained ==
  ASSUME BudgetInv, ExplainedInv, NEW h \in Hooks, Write(h)
  PROVE  ExplainedInv'
<1> PICK c : c = check[h]  OBVIOUS
<1> PICK d : d = [c EXCEPT !.phase = "unlock", !.copy = "none",
                  !.limits = c.limits \cup (IF c.op = "reserve" THEN c.matched ELSE {}),
                  !.held = c.held \cup (IF c.op = "reserve" THEN {c.at} ELSE {})]
  OBVIOUS
<1>1. /\ c \in CheckRecord /\ c.phase = "write" /\ check' = [check EXCEPT ![h] = d]
      /\ countFile' = c.copy /\ UNCHANGED <<attempt, spent, unsettled>>
      /\ forgotten' = (forgotten \/ \E i \in Guards :
           ToSet(countFile.groups[i]) \ (ToSet(c.copy.groups[i]) \cup {c.group}) # {})
  BY DEF BudgetInv, BudgetType, Write
<1>2. /\ d.phase = "unlock" /\ d.group = c.group /\ d.op = c.op /\ d.outcome = c.outcome
      /\ d.limits = c.limits \cup (IF c.op = "reserve" THEN c.matched ELSE {})
      /\ d.held = c.held \cup (IF c.op = "reserve" THEN {c.at} ELSE {})
  BY <1>1 DEF CheckRecord
<1>3. Remembered(c.group)
  <2> SUFFICES ASSUME ~forgotten'
               PROVE  /\ ~forgotten
                      /\ \A i \in Guards : ToSet(countFile.groups[i])
                                             \subseteq ToSet(countFile'.groups[i]) \cup {c.group}
    BY DEF Remembered
  <2>1. ~forgotten /\ \A i \in Guards :
          ToSet(countFile.groups[i]) \ (ToSet(c.copy.groups[i]) \cup {c.group}) = {}
    BY <1>1
  <2> QED  BY <1>1, <2>1
<1>4. CASE c.op = "reserve"
  <2>1. Written(c, d, FALSE)  BY <1>2, <1>4 DEF Written
  <2> QED  BY <1>1, <1>3, <1>4, <2>1, ReserveExplained
<1>5. CASE c.op = "release"
  <2>1. Written(c, d, TRUE)  BY <1>2, <1>5 DEF Written
  <2> QED  BY <1>1, <1>3, <1>5, <2>1, ReleaseExplained
<1> QED  BY <1>1, <1>4, <1>5 DEF CheckRecord

LEMMA ExplainedInit == BudgetInit => ExplainedInv
<1> SUFFICES ASSUME BudgetInit  PROVE ExplainedInv  OBVIOUS
<1>1. /\ check = [h \in Hooks |-> Resting] /\ countFile.counts = [l \in Limits |-> 0]
      /\ attempt = [g \in Groups |-> [open |-> {}, ok |-> TRUE, limits |-> {}, tries |-> 0]]
  BY DEF BudgetInit
<1>2. AskedInv  BY <1>1 DEF AskedInv
<1>3. \A h \in Hooks : CountedAt(check[h]) = {}  BY <1>1 DEF CountedAt, Resting
<1>4. OnlyCounter  BY <1>3 DEF OnlyCounter
<1>5. \A l \in Limits : Explains({}, l)
  <2>1. Cardinality({}) = 0  BY FS_EmptySet
  <2> QED  BY <1>1, <2>1 DEF Explains
<1> QED  BY <1>2, <1>4, <1>5 DEF ExplainedInv

LEMMA ExplainedNext == BudgetInv /\ ExplainedInv /\ [BudgetNext]_budgetVars => ExplainedInv'
<1> SUFFICES ASSUME BudgetInv, ExplainedInv, [BudgetNext]_budgetVars  PROVE ExplainedInv'
  OBVIOUS
<1>1. ASSUME UNCHANGED <<countFile, check, attempt, spent, unsettled, forgotten>>
      PROVE  ExplainedInv'
  <2>1. AskedInv'  BY <1>1 DEF ExplainedInv, AskedInv
  <2>2. \A l \in Limits : Excused(l) \subseteq Excused(l)'  BY <1>1 DEF Excused
  <2>3. NoneCounts  BY <1>1 DEF NoneCounts
  <2> QED  BY <1>1, <2>1, <2>2, <2>3, CountsExplained
<1>2. \A h \in Hooks : check[h] \in CheckRecord /\ Coherent(check[h])
  BY DEF BudgetInv, BudgetType, CallsInv
<1>3. ASSUME NEW h \in Hooks, Open(h) \/ FindStale(h) \/ RemoveStale(h)  PROVE ExplainedInv'
  <2>1. /\ check[h].phase \in {"lock", "stale"}
        /\ \E p \in {"lock", "stale", "read"} : check' = [check EXCEPT ![h].phase = p]
        /\ UNCHANGED <<countFile, attempt, spent, unsettled, forgotten>>
    BY <1>3 DEF Open, FindStale, RemoveStale
  <2> QED  BY <2>1, PhaseExplained
<1>4. ASSUME NEW h \in Hooks, Unlock(h) \/ UnlockFails(h)  PROVE ExplainedInv'
  <2> PICK c : c = check[h]  OBVIOUS
  <2>1. /\ c.phase = "unlock" /\ Continue(h, AfterLock(c))
        /\ UNCHANGED <<countFile, unsettled, forgotten>>
    BY <1>4 DEF Unlock, UnlockFails
  <2>2. Leaves(c, c) /\ MovesOn(c, AfterLock(c))
    BY <1>2, <2>1, AfterLockMoves DEF Leaves, Coherent
  <2> QED  BY <2>1, <2>2, ContinueExplained
<1>5. ASSUME NEW h \in Hooks, RulesRefuse(h)  PROVE ExplainedInv'
  <2> PICK c : c = check[h]  OBVIOUS
  <2>1. /\ c.phase = "rules" /\ Continue(h, Refuse(c)) /\ c \in CheckRecord
        /\ UNCHANGED <<countFile, unsettled, forgotten>>
    BY <1>2, <1>5 DEF RulesRefuse
  <2>2. SameCall(c, Refuse(c)) /\ (Done(c, Refuse(c)) \/ GivesBack(c, Refuse(c)))
    BY <2>1, RefuseShape
  <2>3. Leaves(c, c) /\ MovesOn(c, Refuse(c))  BY <2>1, <2>2 DEF Leaves, MovesOn
  <2> QED  BY <2>1, <2>3, ContinueExplained
<1>6. ASSUME NEW h \in Hooks, RulesAllow(h)  PROVE ExplainedInv'
  <2>1. /\ check[h].phase # "idle" /\ check' = [check EXCEPT ![h] = Resting]
        /\ Answered(check[h].group, h, TRUE) /\ UNCHANGED <<countFile, unsettled, forgotten>>
    BY <1>6 DEF RulesAllow
  <2> QED  BY <2>1, AnswerExplained
<1>7. ASSUME NEW h \in Hooks, Die(h)  PROVE ExplainedInv'
  <2>1. /\ check[h].phase # "idle" /\ check' = [check EXCEPT ![h] = Resting]
        /\ Answered(check[h].group, h, FALSE) /\ UNCHANGED <<countFile, forgotten>>
        /\ unsettled \subseteq unsettled' /\ check[h].group \in unsettled'
    BY <1>7 DEF Die
  <2> QED  BY <2>1, AnswerExplained
<1> DEFINE Steps(h) == \/ Open(h) \/ FindStale(h) \/ RemoveStale(h) \/ GiveUp(h)
                       \/ Read(h) \/ Write(h) \/ FileFails(h) \/ Unlock(h) \/ UnlockFails(h)
                       \/ RulesAllow(h) \/ RulesRefuse(h) \/ Die(h)
<1>8. ASSUME NEW h \in Hooks, Steps(h)  PROVE ExplainedInv'
  BY <1>3, <1>4, <1>5, <1>6, <1>7, <1>8, GiveUpExplained, ReadExplained, WriteExplained,
     FileFailsExplained, Zenon
<1>9. LockAges => ExplainedInv'  BY <1>1 DEF LockAges
<1>10. ASSUME NEW l \in Limits, Expire(l)  PROVE ExplainedInv'  BY <1>1, <1>10 DEF Expire
<1>11. CASE UNCHANGED budgetVars  BY <1>1, <1>11 DEF budgetVars
<1>12. CASE BudgetNext
  <2>1. \/ \E g \in Groups, hs \in SUBSET Hooks : Ask(g, hs)
        \/ \E h \in Hooks : Steps(h)
        \/ LockAges
        \/ \E l \in Limits : Expire(l)
    BY <1>12 DEF BudgetNext
  <2> HIDE DEF Steps
  <2> QED  BY <1>8, <1>9, <1>10, <2>1, AskExplained, Zenon
<1> QED  BY <1>11, <1>12

-----------------------------------------------------------------------------
(* The types, whatever happened to the lock.                               *)

Typed(c) ==
  /\ c \in CheckRecord
  /\ c.phase # "idle" => c.group \in Groups
  /\ c.phase = "write" => c.copy \in Counts

TypesInv == BudgetType /\ robbed \in BOOLEAN /\ \A h \in Hooks : Typed(check[h])

LEMMA RestingTyped == Resting \in CheckRecord /\ Resting.phase = "idle" /\ Typed(Resting)
<1>1. Resting \in CheckRecord /\ Resting.phase = "idle"
  BY DEF Resting, CheckRecord, Phases, Guards
<1> QED  BY <1>1 DEF Typed

(* What the step of a process does to the types of the calls.              *)
CallsTyped ==
  /\ check' \in [Hooks -> CheckRecord] /\ \A h \in Hooks : Typed(check[h])'
  /\ attempt' \in [Groups -> AttemptRecord]
  /\ \A g \in Groups : attempt'[g].tries \in 0..MaxTries[g]
  /\ spent' \in [Limits -> SUBSET Groups]

LEMMA LocalTyped ==
  ASSUME TypesInv, NEW h \in Hooks, NEW d, Typed(d), check' = [check EXCEPT ![h] = d],
         UNCHANGED <<attempt, spent>>
  PROVE  CallsTyped
<1>1. d \in CheckRecord /\ check \in [Hooks -> CheckRecord]  BY DEF TypesInv, BudgetType, Typed
<1>2. check' \in [Hooks -> CheckRecord]  BY <1>1
<1>3. check'[h] = d /\ \A x \in Hooks \ {h} : check'[x] = check[x]  BY <1>1
<1>4. ASSUME NEW x \in Hooks  PROVE Typed(check[x])'
  <2>1. check'[x] = check[x] \/ check'[x] = d  BY <1>3
  <2>2. Typed(check[x])  BY DEF TypesInv
  <2> QED  BY <2>1, <2>2 DEF Typed
<1> QED  BY <1>2, <1>4 DEF CallsTyped, TypesInv, BudgetType

LEMMA AnswerTyped ==
  ASSUME TypesInv, NEW h \in Hooks, NEW ok \in BOOLEAN, check[h].phase # "idle",
         check' = [check EXCEPT ![h] = Resting], Answered(check[h].group, h, ok)
  PROVE  CallsTyped
<1>1. BudgetType /\ check \in [Hooks -> CheckRecord]  BY DEF TypesInv, BudgetType
<1>2. check[h] \in CheckRecord /\ check[h].group \in Groups  BY DEF TypesInv, Typed
<1>3. check' \in [Hooks -> CheckRecord]  BY <1>1, RestingTyped
<1>4. check'[h] = Resting /\ \A x \in Hooks \ {h} : check'[x] = check[x]  BY <1>1
<1>5. ASSUME NEW x \in Hooks  PROVE Typed(check[x])'
  <2>1. check'[x] = check[x] \/ check'[x] = Resting  BY <1>4
  <2>2. Typed(check[x])  BY DEF TypesInv
  <2> QED  BY <2>1, <2>2, RestingTyped DEF Typed
<1>6. /\ attempt' \in [Groups -> AttemptRecord]
      /\ \A k \in Groups : attempt'[k].tries \in 0..MaxTries[k]
      /\ spent' \in [Limits -> SUBSET Groups]
  BY <1>1, <1>2, AnswerShape
<1> QED  BY <1>3, <1>5, <1>6 DEF CallsTyped

LEMMA ContinueTyped ==
  ASSUME TypesInv, NEW h \in Hooks, check[h].phase # "idle", NEW d \in CheckRecord,
         d.group = check[h].group, d.phase # "write", Continue(h, d)
  PROVE  CallsTyped
<1>1. CASE d.phase = "idle"
  <2>1. check' = [check EXCEPT ![h] = Resting] /\ Answered(check[h].group, h, FALSE)
    BY <1>1 DEF Continue
  <2> QED  BY <2>1, AnswerTyped
<1>2. CASE d.phase # "idle"
  <2>1. check' = [check EXCEPT ![h] = d] /\ UNCHANGED <<attempt, spent>>  BY <1>2 DEF Continue
  <2>2. Typed(d)  BY DEF Typed, TypesInv
  <2> QED  BY <2>1, <2>2, LocalTyped
<1> QED  BY <1>1, <1>2

LEMMA MovesTyped ==
  ASSUME NEW e \in CheckRecord, e.group \in Groups
  PROVE  /\ AfterLock(e) \in CheckRecord /\ AfterLock(e).group = e.group
         /\ AfterLock(e).phase # "write"
         /\ Refuse(e) \in CheckRecord /\ Refuse(e).group = e.group /\ Refuse(e).phase # "write"
<1>1. MovesOn(e, AfterLock(e))  BY AfterLockMoves
<1>2. SameCall(e, Refuse(e)) /\ (Done(e, Refuse(e)) \/ GivesBack(e, Refuse(e)))  BY RefuseShape
<1> QED  BY <1>1, <1>2 DEF MovesOn, SameCall, Done, GivesBack, AsksNext, Passes

LEMMA AskTyped ==
  ASSUME TypesInv, NEW g \in Groups, NEW hs \in SUBSET Hooks, Ask(g, hs)
  PROVE  CallsTyped
<1> PICK start : start = [Resting EXCEPT !.group = g]  OBVIOUS
<1> PICK c : c = AskGuard(start, 1)  OBVIOUS
<1> PICK n : n = attempt[g].tries + 1  OBVIOUS
<1> DEFINE begun(open, ok) == [open |-> open, ok |-> ok, limits |-> {}, tries |-> n]
<1>1. /\ BudgetType /\ check \in [Hooks -> CheckRecord] /\ attempt \in [Groups -> AttemptRecord]
      /\ attempt[g].tries < MaxTries[g] /\ UNCHANGED spent
  BY DEF TypesInv, BudgetType, Ask
<1>2. start \in CheckRecord /\ start.group = g  BY RestingTyped DEF CheckRecord
<1>3. c \in CheckRecord /\ c.group = g /\ c.phase # "write"
  <2>1. 1 \in 1..3 /\ start.group \in Groups  BY <1>2
  <2>2. SameCall(start, c)  BY <1>2, <2>1, AskShape
  <2>3. Passes(start, c) \/ AsksNext(start, c, 1) \/ c = Refuse(start)  BY <1>2, <2>1, AskShape
  <2> QED  BY <1>2, <2>2, <2>3, MovesTyped DEF SameCall, Passes, AsksNext
<1>4. IF c.phase = "idle"
      THEN attempt' = [attempt EXCEPT ![g] = begun({}, FALSE)] /\ UNCHANGED check
      ELSE /\ attempt' = [attempt EXCEPT ![g] = begun(hs, TRUE)]
           /\ check' = [h \in Hooks |-> IF h \in hs THEN c ELSE check[h]]
  BY DEF Ask
<1>5. n \in Nat /\ n \in 0..MaxTries[g]
  <2>1. attempt[g].tries \in Nat /\ MaxTries[g] \in Nat  BY <1>1, LimitsAssumption DEF AttemptRecord
  <2> QED  BY <1>1, <2>1
<1>6. \A b \in BOOLEAN : \A o \in SUBSET Hooks :
        begun(o, b) \in AttemptRecord /\ begun(o, b).tries = n
  BY <1>5 DEF AttemptRecord
<1> HIDE DEF begun
<1>7. PICK r \in AttemptRecord : r.tries = n /\ attempt' = [attempt EXCEPT ![g] = r]
  BY <1>4, <1>6
<1>8. /\ attempt' \in [Groups -> AttemptRecord]
      /\ \A k \in Groups : attempt'[k].tries \in 0..MaxTries[k]
  BY <1>1, <1>5, <1>7 DEF BudgetType
<1>9. check' \in [Hooks -> CheckRecord] /\ \A x \in Hooks : check'[x] \in {c, check[x]}
  BY <1>1, <1>3, <1>4
<1>10. ASSUME NEW x \in Hooks  PROVE Typed(check[x])'
  <2>1. Typed(check[x])  BY DEF TypesInv
  <2> QED  BY <1>3, <1>9, <2>1 DEF Typed
<1> QED  BY <1>1, <1>8, <1>9, <1>10 DEF CallsTyped, BudgetType

LEMMA ReadTyped ==
  ASSUME TypesInv, NEW h \in Hooks, Read(h)
  PROVE  CallsTyped
<1> PICK c : c = check[h]  OBVIOUS
<1> PICK f : f = Released(countFile, c.group, c.at, c.matched)  OBVIOUS
<1> PICK r : r = Reserved(countFile, c.group, c.at, c.matched)  OBVIOUS
<1>1. /\ c \in CheckRecord /\ c.group \in Groups /\ c.at \in Guards /\ c.matched \in SUBSET Limits
      /\ countFile \in Counts /\ c.limits \cup c.matched \in SUBSET Limits
  BY DEF TypesInv, Typed, Read, BudgetType, CheckRecord
<1>2. f \in Counts /\ r \in Counts  BY <1>1, ReservedFile, ReleasedFile
<1> DEFINE Next4 == {[c EXCEPT !.phase = "write", !.copy = f],
                     [c EXCEPT !.phase = "write", !.copy = r],
                     [c EXCEPT !.phase = "unlock", !.outcome = "deny"],
                     [c EXCEPT !.phase = "unlock", !.limits = c.limits \cup c.matched]}
<1>3. PICK d \in Next4 : check' = [check EXCEPT ![h] = d]  BY DEF Read
<1>4. Typed(d)
  <2>1. CASE d = [c EXCEPT !.phase = "write", !.copy = f]
    BY <1>1, <1>2, <2>1 DEF Typed, CheckRecord, Phases
  <2>2. CASE d = [c EXCEPT !.phase = "write", !.copy = r]
    BY <1>1, <1>2, <2>2 DEF Typed, CheckRecord, Phases
  <2>3. CASE d = [c EXCEPT !.phase = "unlock", !.outcome = "deny"]
    BY <1>1, <2>3 DEF Typed, CheckRecord, Phases
  <2>4. CASE d = [c EXCEPT !.phase = "unlock", !.limits = c.limits \cup c.matched]
    BY <1>1, <2>4 DEF Typed, CheckRecord, Phases
  <2> QED  BY <2>1, <2>2, <2>3, <2>4
<1> QED  BY <1>3, <1>4, LocalTyped DEF Read

LEMMA StepsTyped ==
  ASSUME TypesInv, NEW h \in Hooks,
         \/ Open(h) \/ FindStale(h) \/ RemoveStale(h) \/ GiveUp(h) \/ Write(h) \/ FileFails(h)
         \/ Unlock(h) \/ UnlockFails(h) \/ RulesAllow(h) \/ RulesRefuse(h) \/ Die(h)
  PROVE  CallsTyped
<1> PICK c : c = check[h]  OBVIOUS
<1>1. c \in CheckRecord /\ (c.phase # "idle" => c.group \in Groups)  BY DEF TypesInv, Typed
<1>2. CASE Open(h) \/ FindStale(h) \/ RemoveStale(h)
  <2>1. PICK p \in {"lock", "stale", "read"} : /\ check' = [check EXCEPT ![h].phase = p]
                                               /\ UNCHANGED <<attempt, spent>>
                                               /\ c.phase # "idle"
    BY <1>2 DEF Open, FindStale, RemoveStale
  <2> PICK d : d = [c EXCEPT !.phase = p]  OBVIOUS
  <2>2. check' = [check EXCEPT ![h] = d] /\ UNCHANGED <<attempt, spent>>  BY <2>1
  <2>3. Typed(d)  BY <1>1, <2>1 DEF Typed, CheckRecord, Phases
  <2> QED  BY <2>2, <2>3, LocalTyped
<1>3. WhenUnavailable(c) \in {"allow", "deny"} /\ c.limits \cup c.matched \in SUBSET Limits
  BY <1>1 DEF WhenUnavailable, CheckRecord
<1>4. CASE GiveUp(h)
  <2> PICK e : e = [c EXCEPT !.outcome = WhenUnavailable(c), !.limits = c.limits \cup c.matched]
    OBVIOUS
  <2>1. e \in CheckRecord /\ e.group = c.group  BY <1>1, <1>3 DEF CheckRecord
  <2>2. c.phase # "idle" /\ Continue(h, AfterLock(e))  BY <1>4 DEF GiveUp
  <2> QED  BY <1>1, <2>1, <2>2, MovesTyped, ContinueTyped
<1>5. CASE FileFails(h)
  <2> PICK d : d = [c EXCEPT !.phase = "unlock", !.copy = "none", !.outcome = WhenUnavailable(c),
                             !.limits = c.limits \cup c.matched]
    OBVIOUS
  <2>1. check' = [check EXCEPT ![h] = d] /\ UNCHANGED <<attempt, spent>> /\ c.phase # "idle"
    BY <1>5 DEF FileFails
  <2>2. Typed(d)  BY <1>1, <1>3, <2>1 DEF Typed, CheckRecord, Phases
  <2> QED  BY <2>1, <2>2, LocalTyped
<1>6. CASE Write(h)
  <2> PICK ls : ls = c.limits \cup (IF c.op = "reserve" THEN c.matched ELSE {})  OBVIOUS
  <2> PICK held : held = c.held \cup (IF c.op = "reserve" THEN {c.at} ELSE {})  OBVIOUS
  <2> PICK d : d = [c EXCEPT !.phase = "unlock", !.copy = "none", !.limits = ls, !.held = held]
    OBVIOUS
  <2>1. check' = [check EXCEPT ![h] = d] /\ UNCHANGED <<attempt, spent>> /\ c.phase # "idle"
    BY <1>6 DEF Write
  <2>2. ls \in SUBSET Limits /\ held \in SUBSET Guards  BY <1>1 DEF CheckRecord
  <2>3. Typed(d)  BY <1>1, <2>1, <2>2 DEF Typed, CheckRecord, Phases
  <2> QED  BY <2>1, <2>3, LocalTyped
<1>7. CASE Unlock(h) \/ UnlockFails(h)
  <2>1. c.phase # "idle" /\ Continue(h, AfterLock(c))  BY <1>7 DEF Unlock, UnlockFails
  <2> QED  BY <1>1, <2>1, MovesTyped, ContinueTyped
<1>8. CASE RulesRefuse(h)
  <2>1. c.phase # "idle" /\ Continue(h, Refuse(c))  BY <1>8 DEF RulesRefuse
  <2> QED  BY <1>1, <2>1, MovesTyped, ContinueTyped
<1>9. CASE RulesAllow(h) \/ Die(h)
  <2>1. /\ check[h].phase # "idle" /\ check' = [check EXCEPT ![h] = Resting]
        /\ Answered(check[h].group, h, TRUE) \/ Answered(check[h].group, h, FALSE)
    BY <1>9 DEF RulesAllow, Die
  <2> QED  BY <2>1, AnswerTyped
<1> QED  BY <1>2, <1>4, <1>5, <1>6, <1>7, <1>8, <1>9

LEMMA OthersTyped ==
  ASSUME TypesInv, CallsTyped,
         lockFile' \in [by : Hooks \cup {"none"}, old : BOOLEAN], countFile' \in Counts,
         ended' \in SUBSET Limits, unsettled' \in SUBSET Groups, forgotten' \in BOOLEAN,
         robbed' \in BOOLEAN, deaths' \in 0..MaxDeaths
  PROVE  TypesInv'
<1>1. BudgetType'  BY DEF CallsTyped, BudgetType
<1> QED  BY <1>1 DEF CallsTyped, TypesInv

LEMMA TypesNext == TypesInv /\ [BudgetNext]_budgetVars => TypesInv'
<1> SUFFICES ASSUME TypesInv, [BudgetNext]_budgetVars  PROVE TypesInv'  OBVIOUS
<1>1. /\ lockFile \in [by : Hooks \cup {"none"}, old : BOOLEAN] /\ countFile \in Counts
      /\ ended \in SUBSET Limits /\ unsettled \in SUBSET Groups /\ forgotten \in BOOLEAN
      /\ robbed \in BOOLEAN /\ deaths \in 0..MaxDeaths
      /\ \A h \in Hooks : [by |-> h, old |-> FALSE] \in [by : Hooks \cup {"none"}, old : BOOLEAN]
      /\ NoLock \in [by : Hooks \cup {"none"}, old : BOOLEAN]
  BY DEF TypesInv, BudgetType, NoLock
<1>2. \A h \in Hooks : check[h].phase # "idle" => check[h].group \in Groups
  BY DEF TypesInv, Typed
<1>3. deaths < MaxDeaths => deaths + 1 \in 0..MaxDeaths  BY <1>1, LimitsAssumption
<1>4. ASSUME UNCHANGED <<check, attempt, spent>>  PROVE CallsTyped
  BY <1>4 DEF CallsTyped, TypesInv, BudgetType, Typed
<1>5. ASSUME NEW g \in Groups, NEW hs \in SUBSET Hooks, Ask(g, hs)  PROVE TypesInv'
  <2>1. UNCHANGED <<lockFile, countFile, ended, unsettled, forgotten, robbed, deaths>>
    BY <1>5 DEF Ask
  <2> QED  BY <1>1, <1>5, <2>1, AskTyped, OthersTyped
<1>6. ASSUME NEW h \in Hooks, Open(h) \/ FindStale(h) \/ RemoveStale(h)  PROVE TypesInv'
  <2>1. /\ lockFile' \in {[by |-> h, old |-> FALSE], lockFile, NoLock} /\ robbed' \in BOOLEAN
        /\ UNCHANGED <<countFile, ended, unsettled, forgotten, deaths>>
    BY <1>1, <1>6 DEF Open, FindStale, RemoveStale
  <2>2. lockFile' \in [by : Hooks \cup {"none"}, old : BOOLEAN]  BY <1>1, <2>1
  <2> QED  BY <1>1, <1>6, <2>1, <2>2, StepsTyped, OthersTyped
<1>7. ASSUME NEW h \in Hooks, GiveUp(h) \/ FileFails(h) \/ Die(h)  PROVE TypesInv'
  <2>1. /\ UNCHANGED <<lockFile, countFile, ended, forgotten, robbed>> /\ check[h].phase # "idle"
        /\ unsettled' = unsettled \/ unsettled' = unsettled \cup {check[h].group}
        /\ deaths' = deaths \/ (deaths < MaxDeaths /\ deaths' = deaths + 1)
    BY <1>7 DEF GiveUp, FileFails, Die
  <2>2. unsettled' \in SUBSET Groups /\ deaths' \in 0..MaxDeaths  BY <1>1, <1>2, <1>3, <2>1
  <2> QED  BY <1>1, <1>7, <2>1, <2>2, StepsTyped, OthersTyped
<1>8. ASSUME NEW h \in Hooks, Read(h)  PROVE TypesInv'
  <2>1. UNCHANGED <<lockFile, countFile, ended, unsettled, forgotten, robbed, deaths>>
    BY <1>8 DEF Read
  <2> QED  BY <1>1, <1>8, <2>1, ReadTyped, OthersTyped
<1>9. ASSUME NEW h \in Hooks, Write(h)  PROVE TypesInv'
  <2>1. /\ UNCHANGED <<lockFile, ended, unsettled, robbed, deaths>> /\ forgotten' \in BOOLEAN
        /\ check[h].phase = "write" /\ countFile' = check[h].copy
    BY <1>9 DEF Write
  <2>2. countFile' \in Counts  BY <2>1 DEF TypesInv, Typed
  <2> QED  BY <1>1, <1>9, <2>1, <2>2, StepsTyped, OthersTyped
<1>10. ASSUME NEW h \in Hooks, Unlock(h) \/ UnlockFails(h) \/ RulesAllow(h) \/ RulesRefuse(h)
       PROVE  TypesInv'
  <2>1. /\ lockFile' \in {lockFile, NoLock}
        /\ UNCHANGED <<countFile, ended, unsettled, forgotten, robbed>>
        /\ deaths' = deaths \/ (deaths < MaxDeaths /\ deaths' = deaths + 1)
    BY <1>10 DEF Unlock, UnlockFails, RulesAllow, RulesRefuse
  <2>2. lockFile' \in [by : Hooks \cup {"none"}, old : BOOLEAN] /\ deaths' \in 0..MaxDeaths
    BY <1>1, <1>3, <2>1
  <2> QED  BY <1>1, <1>10, <2>1, <2>2, StepsTyped, OthersTyped
<1>11. CASE LockAges
  <2>1. /\ lockFile' = [lockFile EXCEPT !.old = TRUE]
        /\ UNCHANGED <<countFile, ended, check, attempt, spent, unsettled, forgotten, robbed, deaths>>
    BY <1>11 DEF LockAges
  <2>2. lockFile' \in [by : Hooks \cup {"none"}, old : BOOLEAN]  BY <1>1, <2>1
  <2> QED  BY <1>1, <1>4, <2>1, <2>2, OthersTyped
<1>12. ASSUME NEW l \in Limits, Expire(l)  PROVE TypesInv'
  <2>1. /\ ended' = ended \cup {l}
        /\ UNCHANGED <<lockFile, countFile, check, attempt, spent, unsettled, forgotten, robbed,
                       deaths>>
    BY <1>12 DEF Expire
  <2> QED  BY <1>1, <1>4, <2>1, OthersTyped
<1>13. CASE UNCHANGED budgetVars
  <2>1. UNCHANGED <<lockFile, countFile, ended, check, attempt, spent, unsettled, forgotten, robbed,
                    deaths>>
    BY <1>13 DEF budgetVars
  <2> QED  BY <1>1, <1>4, <2>1, OthersTyped
<1> QED  BY <1>5, <1>6, <1>7, <1>8, <1>9, <1>10, <1>11, <1>12, <1>13, Zenon DEF BudgetNext

-----------------------------------------------------------------------------
(* Theorems.                                                               *)

(* A lock that was lost stays lost.                                        *)
LEMMA StaysRobbed == [BudgetNext]_budgetVars /\ ~robbed' => ~robbed
BY DEF BudgetNext, budgetVars, Ask, Open, FindStale, RemoveStale, GiveUp, Read, Write, FileFails,
       Unlock, UnlockFails, RulesAllow, RulesRefuse, Die, LockAges, Expire

THEOREM BudgetInvariant == BudgetSpec => [](~robbed => BudgetInv /\ ExplainedInv)
<1>1. BudgetInit => BudgetInv /\ ExplainedInv  BY BudgetInitInv, ExplainedInit
<1>2. (~robbed => BudgetInv /\ ExplainedInv) /\ [BudgetNext]_budgetVars =>
        (~robbed => BudgetInv /\ ExplainedInv)'
  BY BudgetNextInv, ExplainedNext, StaysRobbed
<1> QED  BY <1>1, <1>2, PTL DEF BudgetSpec

(* The types of the counts and of the processes that count.                *)
THEOREM BudgetTypeCorrect == BudgetSpec => []BudgetTypeOK
<1>1. BudgetInit => TypesInv
  BY BudgetInitInv, RestingTyped DEF BudgetInit, BudgetInv, TypesInv
<1>2. TypesInv => BudgetTypeOK
  BY DEF TypesInv, BudgetType, BudgetTypeOK, CheckRecord, AttemptRecord
<1> QED  BY <1>1, <1>2, TypesNext, PTL DEF BudgetSpec

(* Under a limit in force no more tool calls run than it allows, whatever  *)
(* number of processes count, retry, give back, die and take over locks,   *)
(* until one of them takes over the lock of a process at work.             *)
THEOREM NotExceeded == BudgetSpec => []BudgetNotExceeded
<1>1. BudgetInv => WithinLimits
  <2> SUFFICES ASSUME BudgetInv, NEW l \in Enforced \ ended
               PROVE  Cardinality(spent[l] \ AfterFact) <= MaxOf[l]
    BY DEF WithinLimits
  <2>1. BudgetType /\ Within(l) /\ l \in Limits  BY LimitsAssumption DEF BudgetInv, CountInv
  <2>2. spent[l] \ AfterFact \subseteq Runs(l)  BY <2>1 DEF BudgetType, Runs, Limited
  <2>3. /\ Cardinality(spent[l] \ AfterFact) <= Cardinality(Runs(l))
        /\ Cardinality(spent[l] \ AfterFact) \in Nat /\ Cardinality(Runs(l)) \in Nat
    BY <2>1, <2>2, Finite, FS_Subset, FS_CardinalityType
  <2>4. MaxOf[l] \in Nat  BY <2>1, LimitsAssumption
  <2> QED  BY <2>1, <2>3, <2>4 DEF Within
<1> QED  BY <1>1, BudgetInvariant, PTL DEF BudgetNotExceeded

(* Once every call is answered, a count is of calls that ran, or that a    *)
(* process died over, could not give back, or answered beside another.     *)
THEOREM CountedRan == BudgetSpec => []CountsOnlyWhatRan
<1>1. (~robbed => BudgetInv /\ ExplainedInv) => CountsOnlyWhatRan
  <2> DEFINE ran(l) == {g \in Groups :
                          /\ l \in Touches[g]
                          /\ g \in spent[l] \cup unsettled \cup {t \in Twice : attempt[t].tries > 0}}
  <2> SUFFICES ASSUME BudgetInv /\ ExplainedInv, \A h \in Hooks : check[h].phase = "idle",
                      ~forgotten, NEW l \in Limits
               PROVE  countFile.counts[l] <= Cardinality(ran(l))
    BY DEF CountsOnlyWhatRan
  <2>1. PICK S \in SUBSET Groups : Explains(S, l)  BY DEF ExplainedInv
  <2>2. \A h \in Hooks : CountedAt(check[h]) = {}
    <3>1. \A h \in Hooks : check[h] = Resting  BY DEF BudgetInv, CallsInv, Coherent
    <3>2. CountedAt(Resting) = {}  BY DEF CountedAt, Resting
    <3> QED  BY <3>1, <3>2
  <2>3. \A g \in S : l \in Touches[g] /\ g \in Excused(l)  BY <2>1, <2>2 DEF Explains, Listed
  <2>4. S \subseteq ran(l)  BY <2>3 DEF Excused
  <2>5. IsFiniteSet(ran(l))  BY LimitsAssumption, FS_Subset
  <2> HIDE DEF ran
  <2>6. /\ Cardinality(S) <= Cardinality(ran(l)) /\ Cardinality(S) \in Nat
        /\ Cardinality(ran(l)) \in Nat
    BY <2>4, <2>5, FS_Subset, FS_CardinalityType
  <2>7. countFile.counts[l] \in Nat  BY DEF BudgetInv, BudgetType, Counts
  <2> QED  BY <2>1, <2>6, <2>7 DEF Explains
<1> QED  BY <1>1, BudgetInvariant, PTL
=============================================================================
