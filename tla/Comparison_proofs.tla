------------------------- MODULE Comparison_proofs -------------------------
(***************************************************************************)
(* Proofs about Progress and Comparison, for every list of scenarios and   *)
(* models, whatever their names: the display and the report count the same *)
(* trials, a line shows no more trials than it has if no two combinations  *)
(* of names meet in one key, compare accounts for every key once, and the  *)
(* percentiles, means and differences it shows are faithful to the samples.*)
(***************************************************************************)
EXTENDS Comparison, FiniteSetTheorems, FunctionTheorems, WellFoundedInduction, TLAPS

-----------------------------------------------------------------------------
(* Keys and combos. *)

\* Every set of numbers that is not empty has a least one.
LEMMA Least ==
    ASSUME NEW T \in SUBSET Nat, T # {} PROVE \E m \in T : \A n \in T : m <= n
<1> DEFINE R == OpToRel(<, Nat)
<1>1. IsWellFoundedOn(R, Nat)
  BY NatLessThanWellFounded
<1>2. \A x, y \in Nat : <<x, y>> \in R <=> x < y
  BY DEF OpToRel
<1> HIDE DEF R
<1>3. PICK x \in T : \A y \in T : <<y, x>> \notin R
  BY <1>1, WFMin
<1>4. \A y \in T : ~(y < x)
  BY <1>2, <1>3
<1>5. x \in Nat /\ \A y \in T : y \in Nat
  OBVIOUS
<1> QED
  BY <1>4, <1>5

LEMMA PositionBound ==
    ASSUME NEW c \in Combos
    PROVE  Position(c) \in Nat /\ Position(c) <= Len(Models) * Len(Scenarios)
<1>1. /\ c[1] \in 1..Len(Scenarios) /\ c[2] \in 1..Len(Models)
      /\ Len(Scenarios) \in Nat /\ Len(Models) \in Nat
  BY ProgressAssumption DEF Combos
<1>2. \A a, b, l \in Nat : a <= b => a * l <= b * l
  OBVIOUS
<1>3. \A n, l \in Nat : n >= 1 => (n - 1) * l + l = n * l /\ (n - 1) * l \in Nat
  OBVIOUS
<1>4. (c[2] - 1) * Len(Scenarios) \in Nat
      /\ (c[2] - 1) * Len(Scenarios) + Len(Scenarios) = c[2] * Len(Scenarios)
  BY <1>1, <1>3
<1>5. c[2] * Len(Scenarios) <= Len(Models) * Len(Scenarios)
  BY <1>1, <1>2
<1>6. c[2] * Len(Scenarios) \in Nat /\ Len(Models) * Len(Scenarios) \in Nat
  BY <1>1
<1>7. \A p, q, r, m \in Nat : \A i \in 1..q : p + q = r /\ r <= m => p + i \in Nat /\ p + i <= m
  OBVIOUS
<1>8. Position(c) = (c[2] - 1) * Len(Scenarios) + c[1]
  BY DEF Position
<1> DEFINE before == (c[2] - 1) * Len(Scenarios)
<1> HIDE DEF before
<1> QED
  BY <1>1, <1>4, <1>5, <1>6, <1>7, <1>8 DEF before

\* The combo that a key leads to has that key itself.
LEMMA ComboHasKey ==
    ASSUME NEW key, NEW c0 \in Combos, KeyOf(c0) = key
    PROVE  ComboOf(key) \in Combos /\ KeyOf(ComboOf(key)) = key
<1> DEFINE B == Len(Models) * Len(Scenarios)
           Left == {B - Position(c) : c \in {d \in Combos : KeyOf(d) = key}}
<1>1. B \in Nat
  BY ProgressAssumption
<1>2. \A c \in Combos : Position(c) \in Nat /\ Position(c) <= B
  BY PositionBound
<1> HIDE DEF B
<1>3. Left \in SUBSET Nat /\ Left # {}
  BY <1>1, <1>2
<1>4. PICK m \in Left : \A n \in Left : m <= n
  <2> HIDE DEF Left
  <2> QED
    BY <1>3, Least
<1>5. PICK c \in Combos : KeyOf(c) = key /\ m = B - Position(c)
  OBVIOUS
<1>6. \A d \in Combos : KeyOf(d) = key => Position(d) <= Position(c)
  <2> SUFFICES ASSUME NEW d \in Combos, KeyOf(d) = key PROVE Position(d) <= Position(c)
    OBVIOUS
  <2>1. B - Position(c) <= B - Position(d)
    BY <1>4, <1>5
  <2> QED
    BY <1>1, <1>2, <2>1
<1>7. \E e \in Combos : KeyOf(e) = key /\ \A d \in Combos : KeyOf(d) = key => Position(d) <= Position(e)
  BY <1>5, <1>6
<1> QED
  BY <1>7 DEF ComboOf

\* A trial has the key of its combination of scenario and model.
LEMMA TrialKey ==
    ASSUME NEW t \in Trials
    PROVE  /\ <<t[1], t[2]>> \in Combos /\ KeyOf(<<t[1], t[2]>>) = KeyOf(t)
           /\ t = <<t[1], t[2], t[3]>> /\ t[3] \in 1..TrialsPerCombo
           /\ ComboOf(KeyOf(t)) \in Combos /\ KeyOf(ComboOf(KeyOf(t))) = KeyOf(t)
<1>1. PICK c \in Combos, i \in 1..TrialsPerCombo : t = <<c[1], c[2], i>>
  BY DEF Trials
<1>2. c = <<c[1], c[2]>> /\ t[1] = c[1] /\ t[2] = c[2] /\ t[3] = i
  BY <1>1 DEF Combos
<1>3. KeyOf(<<t[1], t[2]>>) = KeyOf(t)
  BY DEF KeyOf
<1>4. <<t[1], t[2]>> \in Combos
  BY <1>2
<1> QED
  BY <1>1, <1>2, <1>3, <1>4, ComboHasKey

LEMMA FiniteTrials ==
    /\ IsFiniteSet(Combos) /\ Cardinality(Combos) \in Nat
    /\ IsFiniteSet(Trials) /\ Cardinality(Trials) <= Cardinality(Combos) * TrialsPerCombo
<1>1. IsFiniteSet(DOMAIN Scenarios) /\ IsFiniteSet(DOMAIN Models)
  BY ProgressAssumption, FS_Interval
<1>2. IsFiniteSet(Combos) /\ Cardinality(Combos) \in Nat
  BY <1>1, FS_Product, FS_CardinalityType DEF Combos
<1>3. IsFiniteSet(1..TrialsPerCombo) /\ Cardinality(1..TrialsPerCombo) = TrialsPerCombo
  <2>1. TrialsPerCombo \in Nat /\ ~(1 > TrialsPerCombo) /\ TrialsPerCombo - 1 + 1 = TrialsPerCombo
    BY ProgressAssumption
  <2>2. /\ IsFiniteSet(1..TrialsPerCombo)
        /\ Cardinality(1..TrialsPerCombo) =
               IF 1 > TrialsPerCombo THEN 0 ELSE TrialsPerCombo - 1 + 1
    BY <2>1, FS_Interval
  <2> QED
    BY <2>1, <2>2
<1> DEFINE P == Combos \X (1..TrialsPerCombo)
           f == [p \in P |-> <<p[1][1], p[1][2], p[2]>>]
<1>4. IsFiniteSet(P) /\ Cardinality(P) = Cardinality(Combos) * TrialsPerCombo
  BY <1>2, <1>3, FS_Product
<1>5. f \in Surjection(P, Trials)
  <2>1. \A p \in P : f[p] \in Trials
    BY DEF Trials
  <2>2. \A t \in Trials : \E p \in P : f[p] = t
    <3> SUFFICES ASSUME NEW t \in Trials PROVE \E p \in P : f[p] = t
      OBVIOUS
    <3>1. PICK c \in Combos, i \in 1..TrialsPerCombo : t = <<c[1], c[2], i>>
      BY DEF Trials
    <3>2. <<c, i>> \in P /\ f[<<c, i>>] = t
      BY <3>1
    <3> QED
      BY <3>2
  <2> QED
    BY <2>1, <2>2 DEF Surjection
<1> HIDE DEF P, f
<1>6. IsFiniteSet(Trials) /\ Cardinality(Trials) <= Cardinality(P)
  BY <1>4, <1>5, FS_Surjection
<1> QED
  BY <1>2, <1>4, <1>6

-----------------------------------------------------------------------------
(* The counters of the display. *)

\* The trials of a combo that have ended, and those of all.
DoneIn(c) == {t \in Trials : ComboOf(KeyOf(t)) = c /\ results[t] # "pending"}

Ended == {t \in Trials : results[t] # "pending"}

CountInv ==
    /\ TypeOK
    /\ DisplayAgreesWithSummaries
    /\ \A c \in Combos : Done(counts[c]) = Cardinality(DoneIn(c))
    /\ completed = Cardinality(Ended)

LEMMA Counted ==
    ASSUME NEW c \in [Terminal -> Nat], NEW s \in Terminal
    PROVE  /\ CountOne(c, s) \in [Terminal -> Nat]
           /\ Done(c) \in Nat /\ Done(CountOne(c, s)) = Done(c) + 1
           /\ CountOne(c, s)[s] = c[s] + 1
           /\ \A r \in Terminal \ {s} : CountOne(c, s)[r] = c[r]
<1>1. \A r \in Terminal : c[r] \in Nat /\ CountOne(c, s)[r] = IF r = s THEN c[r] + 1 ELSE c[r]
  BY DEF CountOne
<1>2. /\ "completed" \in Terminal /\ "failed" \in Terminal
      /\ "timeout" \in Terminal /\ "cancelled" \in Terminal
  BY DEF Terminal
<1>3. CountOne(c, s) \in [Terminal -> Nat]
  BY DEF CountOne
<1>4. Done(CountOne(c, s)) = Done(c) + 1
  <2>1. s = "completed" \/ s = "failed" \/ s = "timeout" \/ s = "cancelled"
    BY DEF Terminal
  <2> QED
    BY <1>1, <1>2, <2>1 DEF Done
<1> QED
  BY <1>1, <1>2, <1>3, <1>4 DEF Done

LEMMA CountInit == Init => CountInv
<1> SUFFICES ASSUME Init PROVE CountInv
  OBVIOUS
<1>1. /\ results = [t \in Trials |-> "pending"] /\ completed = 0 /\ panicked = FALSE
      /\ counts = [c \in Combos |-> [s \in Terminal |-> 0]]
  BY DEF Init
<1>2. TypeOK
  BY <1>1 DEF TypeOK
<1>3. \A key \in Keys : \A s \in Terminal :
          SummaryCount(key, s) = 0 /\ counts[ComboOf(key)][s] = 0
  <2> SUFFICES ASSUME NEW key \in Keys, NEW s \in Terminal
               PROVE  SummaryCount(key, s) = 0 /\ counts[ComboOf(key)][s] = 0
    OBVIOUS
  <2>1. s # "pending"
    BY DEF Terminal
  <2>2. {t \in Group(key) : results[t] = s} = {}
    BY <1>1, <2>1 DEF Group
  <2>3. ComboOf(key) \in Combos
    BY TrialKey DEF Keys
  <2> QED
    BY <1>1, <2>2, <2>3, FS_EmptySet DEF SummaryCount
<1>4. \A c \in Combos : Done(counts[c]) = 0 /\ DoneIn(c) = {}
  BY <1>1 DEF Done, DoneIn, Terminal
<1>5. Ended = {}
  BY <1>1 DEF Ended
<1> QED
  BY <1>1, <1>2, <1>3, <1>4, <1>5, FS_EmptySet DEF CountInv, DisplayAgreesWithSummaries

LEMMA CountStep ==
    ASSUME CountInv, NEW t \in Trials, NEW s \in Terminal, OnTrialComplete(t, s)
    PROVE  CountInv'
<1> DEFINE home == ComboOf(KeyOf(t))
<1>1. /\ results[t] = "pending" /\ results' = [results EXCEPT ![t] = s]
      /\ counts' = [counts EXCEPT ![home] = CountOne(counts[home], s)]
      /\ completed' = completed + 1 /\ panicked' \in BOOLEAN
  BY DEF OnTrialComplete, DrawPanics
<1>2. /\ results \in [Trials -> Terminal \cup {"pending"}]
      /\ counts \in [Combos -> [Terminal -> Nat]] /\ completed \in Nat
  BY DEF CountInv, TypeOK
<1>3. home \in Combos /\ KeyOf(home) = KeyOf(t) /\ s # "pending"
  BY TrialKey DEF Terminal
<1> HIDE DEF home
<1>4. /\ counts[home] \in [Terminal -> Nat]
      /\ counts'[home] = CountOne(counts[home], s)
      /\ \A c \in Combos \ {home} : counts'[c] = counts[c]
  BY <1>1, <1>2, <1>3
<1>5. /\ results'[t] = s
      /\ \A u \in Trials \ {t} : results'[u] = results[u]
  BY <1>1, <1>2
<1>6. TypeOK'
  <2>1. counts' \in [Combos -> [Terminal -> Nat]]
    BY <1>1, <1>2, <1>3, <1>4, Counted
  <2> QED
    BY <1>1, <1>2, <2>1 DEF TypeOK
<1>7. ASSUME NEW key \in Keys, NEW r \in Terminal
      PROVE  (counts[ComboOf(key)][r] = SummaryCount(key, r))'
  <2> DEFINE old == {u \in Group(key) : results[u] = r}
             new == {u \in Group(key) : results'[u] = r}
  <2>1. /\ ComboOf(key) \in Combos /\ KeyOf(ComboOf(key)) = key
        /\ counts[ComboOf(key)][r] = Cardinality(old)
    BY TrialKey DEF Keys, CountInv, DisplayAgreesWithSummaries, SummaryCount
  <2>2. Group(key) \subseteq Trials /\ IsFiniteSet(old)
    BY FiniteTrials, FS_Subset DEF Group
  <2>3. r # "pending"
    BY DEF Terminal
  <2>4. CASE key = KeyOf(t) /\ r = s
    <3>1. new = old \cup {t} /\ t \notin old
      BY <1>1, <1>5, <2>2, <2>3, <2>4 DEF Group
    <3>2. Cardinality(new) = Cardinality(old) + 1
      <4> HIDE DEF old, new
      <4> QED
        BY <2>2, <3>1, FS_AddElement
    <3>3. counts'[ComboOf(key)][r] = counts[ComboOf(key)][r] + 1
      BY <1>4, <2>4, Counted DEF home
    <3> QED
      BY <2>1, <3>2, <3>3 DEF SummaryCount, Group
  <2>5. CASE ~(key = KeyOf(t) /\ r = s)
    <3>1. new = old
      BY <1>1, <1>3, <1>5, <2>2, <2>3, <2>5 DEF Group
    <3>2. counts'[ComboOf(key)][r] = counts[ComboOf(key)][r]
      <4>1. CASE ComboOf(key) = home
        <5>1. r # s
          BY <1>3, <2>1, <2>5, <4>1
        <5> QED
          BY <1>4, <4>1, <5>1, Counted
      <4>2. CASE ComboOf(key) # home
        BY <1>4, <2>1, <4>2
      <4> QED
        BY <4>1, <4>2
    <3> QED
      BY <2>1, <3>1, <3>2 DEF SummaryCount, Group
  <2> QED
    BY <2>4, <2>5
<1>8. ASSUME NEW c \in Combos PROVE (Done(counts[c]) = Cardinality(DoneIn(c)))'
  <2>1. /\ Done(counts[c]) = Cardinality(DoneIn(c))
        /\ DoneIn(c) \subseteq Trials
    BY DEF CountInv, DoneIn
  <2>2. IsFiniteSet(DoneIn(c))
    BY <2>1, FiniteTrials, FS_Subset
  <2>3. CASE c = home
    <3>1. DoneIn(c)' = DoneIn(c) \cup {t} /\ t \notin DoneIn(c)
      BY <1>1, <1>3, <1>5, <2>3 DEF DoneIn, home
    <3>2. Cardinality(DoneIn(c)') = Cardinality(DoneIn(c)) + 1
      BY <2>2, <3>1, FS_AddElement
    <3>3. Done(counts'[c]) = Done(counts[c]) + 1
      BY <1>4, <2>3, Counted
    <3> QED
      BY <2>1, <3>2, <3>3
  <2>4. CASE c # home
    <3>1. DoneIn(c)' = DoneIn(c)
      BY <1>5, <2>4 DEF DoneIn, home
    <3>2. counts'[c] = counts[c]
      BY <1>4, <2>4
    <3> QED
      BY <2>1, <3>1, <3>2
  <2> QED
    BY <2>3, <2>4
<1>9. (completed = Cardinality(Ended))'
  <2>1. IsFiniteSet(Ended)
    BY FiniteTrials, FS_Subset DEF Ended
  <2>2. Ended' = Ended \cup {t} /\ t \notin Ended
    BY <1>1, <1>3, <1>5 DEF Ended
  <2>3. Cardinality(Ended') = Cardinality(Ended) + 1
    BY <2>1, <2>2, FS_AddElement
  <2> QED
    BY <1>1, <2>3 DEF CountInv
<1> QED
  BY <1>6, <1>7, <1>8, <1>9 DEF CountInv, DisplayAgreesWithSummaries

LEMMA CountUnchanged == CountInv /\ UNCHANGED vars => CountInv'
<1> SUFFICES ASSUME CountInv, UNCHANGED vars PROVE CountInv'
  OBVIOUS
<1>1. results' = results /\ counts' = counts /\ completed' = completed /\ panicked' = panicked
  BY DEF vars
<1>2. TypeOK' /\ DisplayAgreesWithSummaries'
  BY <1>1 DEF CountInv, TypeOK, DisplayAgreesWithSummaries, SummaryCount, Group
<1>3. Ended' = Ended /\ \A c \in Combos : DoneIn(c)' = DoneIn(c)
  BY <1>1 DEF Ended, DoneIn
<1> QED
  BY <1>1, <1>2, <1>3 DEF CountInv

-----------------------------------------------------------------------------
(* The lines of the display. *)

\* No two entries of the lists meet in one key.
DistinctKeys == \A c, d \in Combos : KeyOf(c) = KeyOf(d) => c = d

\* A bar that is not overfull has no negative part.
LEMMA BarHolds ==
    ASSUME NEW done \in Nat, NEW total \in Nat, done <= total
    PROVE  BarFits(done, total)
<1> SUFFICES ASSUME total # 0 PROVE (done * BarWidth) \div total <= BarWidth
  BY DEF BarFits
<1> DEFINE q == (done * 16) \div total
<1>1. q \in Int /\ total * q <= done * 16
  OBVIOUS
<1>2. total * q <= total * 16
  BY <1>1
<1>3. \A a \in Nat \ {0} : \A b, c \in Int : a * b <= a * c => b <= c
  OBVIOUS
<1> HIDE DEF q
<1>4. q <= 16
  BY <1>1, <1>2, <1>3
<1> QED
  BY <1>4 DEF q, BarWidth

\* A combo of its own key has as many trials as the config says.
LEMMA DoneBound ==
    ASSUME DistinctKeys, NEW c \in Combos,
           NEW D \in SUBSET {t \in Trials : ComboOf(KeyOf(t)) = c}
    PROVE  Cardinality(D) <= TrialsPerCombo /\ Cardinality(D) \in Nat
<1> DEFINE I == 1..TrialsPerCombo
           All == {<<c[1], c[2], i>> : i \in I}
           f == [i \in I |-> <<c[1], c[2], i>>]
<1>1. IsFiniteSet(I) /\ Cardinality(I) = TrialsPerCombo
  <2>1. TrialsPerCombo \in Nat /\ ~(1 > TrialsPerCombo) /\ TrialsPerCombo - 1 + 1 = TrialsPerCombo
    BY ProgressAssumption
  <2>2. IsFiniteSet(I) /\ Cardinality(I) = IF 1 > TrialsPerCombo THEN 0 ELSE TrialsPerCombo - 1 + 1
    BY <2>1, FS_Interval
  <2> QED
    BY <2>1, <2>2
<1>2. f \in Surjection(I, All)
  BY DEF Surjection
<1>3. D \subseteq All
  <2> SUFFICES ASSUME NEW t \in Trials, ComboOf(KeyOf(t)) = c PROVE t \in All
    OBVIOUS
  <2>1. /\ <<t[1], t[2]>> \in Combos /\ KeyOf(<<t[1], t[2]>>) = KeyOf(t)
        /\ t = <<t[1], t[2], t[3]>> /\ t[3] \in I /\ KeyOf(c) = KeyOf(t)
    BY TrialKey
  <2>2. c = <<t[1], t[2]>>
    BY <2>1 DEF DistinctKeys
  <2>3. t = <<c[1], c[2], t[3]>>
    BY <2>1, <2>2
  <2> QED
    BY <2>1, <2>3
<1> HIDE DEF I, All, f
<1>4. IsFiniteSet(All) /\ Cardinality(All) <= TrialsPerCombo
  BY <1>1, <1>2, FS_Surjection
<1>5. /\ Cardinality(All) \in Nat /\ IsFiniteSet(D) /\ Cardinality(D) \in Nat
      /\ Cardinality(D) <= Cardinality(All)
  BY <1>3, <1>4, FS_Subset, FS_CardinalityType
<1>6. TrialsPerCombo \in Nat
  BY ProgressAssumption
<1> QED
  BY <1>4, <1>5, <1>6

\* The line of all trials.
LEMMA EndedBound == Cardinality(Ended) \in Nat /\ Cardinality(Ended) <= Total /\ Total \in Nat
<1>1. IsFiniteSet(Ended) /\ Cardinality(Ended) <= Cardinality(Trials)
  BY FiniteTrials, FS_Subset DEF Ended
<1>2. Cardinality(Ended) \in Nat /\ Cardinality(Trials) \in Nat
  BY <1>1, FiniteTrials, FS_CardinalityType
<1>3. Total \in Nat /\ Cardinality(Trials) <= Total
  BY FiniteTrials, ProgressAssumption DEF Total
<1> QED
  BY <1>1, <1>2, <1>3

LEMMA DrawStep ==
    ASSUME DistinctKeys, CountInv, ~panicked,
           NEW t \in Trials, NEW s \in Terminal, OnTrialComplete(t, s)
    PROVE  ~panicked'
<1>1. CountInv'
  BY CountStep
<1>2. ASSUME NEW c \in Combos PROVE BarFits(Done(counts'[c]), TrialsPerCombo)
  <2>1. Cardinality(DoneIn(c)') <= TrialsPerCombo /\ Cardinality(DoneIn(c)') \in Nat
    <3>1. DoneIn(c)' \in SUBSET {u \in Trials : ComboOf(KeyOf(u)) = c}
      BY DEF DoneIn
    <3> QED
      BY <3>1, DoneBound
  <2>2. Done(counts'[c]) \in Nat /\ Done(counts'[c]) <= TrialsPerCombo
    BY <1>1, <2>1 DEF CountInv
  <2> QED
    BY <2>2, ProgressAssumption, BarHolds
<1>3. BarFits(completed', Total)
  <2>1. (Cardinality(Ended) \in Nat /\ Cardinality(Ended) <= Total /\ Total \in Nat)'
    BY EndedBound, PTL
  <2>2. completed' \in Nat /\ completed' <= Total /\ Total \in Nat
    BY <1>1, <2>1, EndedBound DEF CountInv
  <2> QED
    BY <2>2, BarHolds
<1>4. ~DrawPanics(counts', completed')
  BY <1>2, <1>3 DEF DrawPanics
<1> QED
  BY <1>4 DEF OnTrialComplete

THEOREM CountsKept == Spec => []CountInv
<1>1. CountInv /\ [Next]_vars => CountInv'
  BY CountStep, CountUnchanged DEF Next, Stopped
<1> QED
  BY <1>1, CountInit, PTL DEF Spec

\* "Trials per scenario x model" (README_en.md:312): the lines and the bars are
\* right for every config in which no two combinations of names meet in a key,
\* which Validate does not check.
THEOREM LinesWithinTotals == DistinctKeys /\ Spec => []WithinTotals
<1>1. ASSUME DistinctKeys, CountInv, ~panicked PROVE WithinTotals
  <2> SUFFICES ASSUME NEW c \in Combos PROVE Done(counts[c]) <= TrialsPerCombo
    BY <1>1 DEF WithinTotals
  <2> QED
    BY <1>1, DoneBound DEF CountInv, DoneIn
<1>2. DistinctKeys /\ Init => DistinctKeys /\ CountInv /\ ~panicked
  BY CountInit DEF Init
<1>3. (DistinctKeys /\ CountInv /\ ~panicked) /\ [Next]_vars
      => (DistinctKeys /\ CountInv /\ ~panicked)'
  <2> SUFFICES ASSUME DistinctKeys, CountInv, ~panicked, [Next]_vars
               PROVE  CountInv' /\ ~panicked'
    BY DEF DistinctKeys
  <2>1. CASE UNCHANGED vars
    BY <2>1, CountUnchanged DEF vars
  <2>2. CASE \E t \in Trials, s \in Terminal : OnTrialComplete(t, s)
    BY <2>2, CountStep, DrawStep
  <2> QED
    BY <2>1, <2>2 DEF Next, Stopped
<1> QED
  BY <1>1, <1>2, <1>3, PTL DEF Spec

\* The display and the summaries count the same trials, also while compare
\* reads the summaries.
THEOREM SummariesAgree == CompareSpec => []DisplayAgreesWithSummaries
<1>1. CompareInit => CountInv
  BY CountInit DEF CompareInit
<1>2. CountInv /\ [CompareNext]_<<vars, compareVars>> => CountInv'
  <2> SUFFICES ASSUME CountInv, [CompareNext]_<<vars, compareVars>> PROVE CountInv'
    OBVIOUS
  <2>1. CASE \E t \in Trials, s \in Terminal : EndTrial(t, s)
    BY <2>1, CountStep DEF EndTrial
  <2>2. UNCHANGED vars => CountInv'
    BY CountUnchanged
  <2>3. CASE \/ LoadFails \/ (\E summary \in Baselines : LoadSummaries(summary))
             \/ (\E key \in toVisit : VisitBaseline(key) \/ VisitCandidate(key))
             \/ BaselineVisited \/ Sort \/ Returned \/ UNCHANGED <<vars, compareVars>>
    BY <2>2, <2>3 DEF LoadFails, LoadSummaries, VisitBaseline, VisitCandidate,
                      BaselineVisited, Sort, Returned
  <2> QED
    BY <2>1, <2>3 DEF CompareNext
<1>3. CountInv => DisplayAgreesWithSummaries
  BY DEF CountInv
<1> QED
  BY <1>1, <1>2, <1>3, PTL DEF CompareSpec

-----------------------------------------------------------------------------
(* Keys in their order. *)

\* Induction, for the set of the numbers that have the property in question.
LEMMA Induct ==
    ASSUME NEW a \in Nat, NEW b \in Nat, NEW T, a \in T,
           \A n \in a..b : n < b /\ n \in T => n + 1 \in T
    PROVE  \A n \in a..b : n \in T
<1> DEFINE F == {n \in a..b : n \notin T}
<1> SUFFICES ASSUME F # {} PROVE FALSE
  OBVIOUS
<1>1. PICK m \in F : \A n \in F : m <= n
  <2>1. F \in SUBSET Nat
    OBVIOUS
  <2> HIDE DEF F
  <2> QED
    BY <2>1, Least
<1>2. m \in a..b /\ m \notin T /\ m # a
  OBVIOUS
<1>3. m - 1 \in a..b /\ m - 1 < b /\ (m - 1) + 1 = m /\ ~(m <= m - 1)
  BY <1>2
<1>4. m - 1 \in T
  BY <1>1, <1>3
<1> QED
  BY <1>2, <1>3, <1>4

\* One turn of the loop of InOrder, where f holds what the turns before have.
PickNext(set, f, i) ==
    IF i = 0 THEN <<>>
    ELSE IF KeyOrder[i] \in set THEN Append(f[i - 1], KeyOrder[i])
    ELSE f[i - 1]

LEMMA PicksDefined ==
    ASSUME NEW set
    PROVE  \E f : /\ InOrder(set) = f[Len(KeyOrder)] /\ f[0] = <<>>
                  /\ \A n \in 0..Len(KeyOrder) : n < Len(KeyOrder) =>
                         f[n + 1] = IF KeyOrder[n + 1] \in set
                                    THEN Append(f[n], KeyOrder[n + 1]) ELSE f[n]
<1> DEFINE L == Len(KeyOrder)
           Defined(n) == \E f : f = [i \in 0..n |-> PickNext(set, f, i)]
           T == {n \in Nat : Defined(n)}
<1>0. L \in Nat
  BY ComparisonAssumption
<1> HIDE DEF L
<1>1. Defined(0)
  <2> DEFINE f == [i \in 0..0 |-> <<>>]
  <2>1. f = [i \in 0..0 |-> PickNext(set, f, i)]
    BY DEF PickNext
  <2> QED
    BY <2>1
<1>2. ASSUME NEW n \in Nat, Defined(n) PROVE Defined(n + 1)
  <2>1. PICK f : f = [i \in 0..n |-> PickNext(set, f, i)]
    BY <1>2
  <2> DEFINE g == [i \in 0..n + 1 |-> IF i <= n THEN f[i] ELSE PickNext(set, f, n + 1)]
  <2>2. ASSUME NEW i \in 0..n + 1 PROVE g[i] = PickNext(set, g, i)
    <3>1. i # 0 => g[i - 1] = f[i - 1]
      OBVIOUS
    <3>2. PickNext(set, g, i) = PickNext(set, f, i)
      BY <3>1 DEF PickNext
    <3>3. CASE i = n + 1
      BY <3>2, <3>3
    <3>4. CASE i # n + 1
      <4>1. i \in 0..n
        BY <3>4
      <4>2. f[i] = PickNext(set, f, i)
        BY <2>1, <4>1
      <4> QED
        BY <3>2, <4>1, <4>2
    <3> QED
      BY <3>3, <3>4
  <2> HIDE DEF g
  <2>3. g = [i \in 0..n + 1 |-> PickNext(set, g, i)]
    BY <2>2 DEF g
  <2> QED
    BY <2>3
<1> HIDE DEF Defined
<1>3. Defined(L)
  <2>1. 0 \in T /\ \A n \in 0..L : n < L /\ n \in T => n + 1 \in T
    BY <1>0, <1>1, <1>2
  <2> HIDE DEF T
  <2>2. \A n \in 0..L : n \in T
    BY <1>0, <2>1, Induct
  <2>3. L \in T
    BY <1>0, <2>2
  <2> QED
    BY <2>3 DEF T
<1> DEFINE f == CHOOSE f : f = [i \in 0..L |-> PickNext(set, f, i)]
<1>4. f = [i \in 0..L |-> PickNext(set, f, i)]
  BY <1>3 DEF Defined
<1>5. InOrder(set) = f[L]
  BY DEF InOrder, PickNext, L
<1> HIDE DEF f
<1>6. f[0] = <<>>
  BY <1>0, <1>4 DEF PickNext
<1>7. ASSUME NEW n \in 0..L, n < L
      PROVE  f[n + 1] = IF KeyOrder[n + 1] \in set THEN Append(f[n], KeyOrder[n + 1]) ELSE f[n]
  <2>1. n + 1 \in 0..L /\ n + 1 # 0 /\ (n + 1) - 1 = n
    BY <1>0, <1>7
  <2>2. f[n + 1] = PickNext(set, f, n + 1)
    BY <1>4, <2>1
  <2> QED
    BY <2>1, <2>2 DEF PickNext
<1> QED
  BY <1>5, <1>6, <1>7 DEF L

\* The first n keys that are in the set, in their order.
Picked(set, s, n) ==
    /\ s \in Seq(set)
    /\ \A i \in 1..Len(s) : \E a \in 1..n : KeyOrder[a] = s[i]
    /\ \A a \in 1..n : KeyOrder[a] \in set => \E i \in 1..Len(s) : s[i] = KeyOrder[a]
    /\ \A i, j \in 1..Len(s) : i < j =>
           \E a, b \in 1..n : a < b /\ KeyOrder[a] = s[i] /\ KeyOrder[b] = s[j]

LEMMA PickedAll == ASSUME NEW set PROVE Picked(set, InOrder(set), Len(KeyOrder))
<1> DEFINE L == Len(KeyOrder)
<1>1. PICK f : /\ InOrder(set) = f[Len(KeyOrder)] /\ f[0] = <<>>
               /\ \A n \in 0..Len(KeyOrder) : n < Len(KeyOrder) =>
                      f[n + 1] = IF KeyOrder[n + 1] \in set
                                 THEN Append(f[n], KeyOrder[n + 1]) ELSE f[n]
  BY PicksDefined
<1>2. L \in Nat
  BY ComparisonAssumption
<1> DEFINE T == {n \in Nat : Picked(set, f[n], n)}
<1>3. 0 \in T
  <2>1. <<>> \in Seq(set) /\ Len(<<>>) = 0 /\ 1..0 = {}
    OBVIOUS
  <2>2. Picked(set, <<>>, 0)
    BY <2>1 DEF Picked
  <2> QED
    BY <1>1, <2>2
<1>4. ASSUME NEW n \in 0..L, n < L, n \in T PROVE n + 1 \in T
  <2> DEFINE s == f[n]
             t == f[n + 1]
             k == KeyOrder[n + 1]
  <2>1. Picked(set, s, n) /\ n \in Nat /\ n + 1 \in Nat
    BY <1>4
  <2>2. t = IF k \in set THEN Append(s, k) ELSE s
    BY <1>1, <1>4
  <2>3. \A a \in 1..n + 1 : a \in 1..n \/ a = n + 1
    BY <2>1
  <2>4. \A a \in 1..n : a \in 1..n + 1 /\ a < n + 1
    BY <2>1
  <2> HIDE DEF T, s, t, k
  <2>5. CASE k \notin set
    <3>1. t = s
      BY <2>2, <2>5
    <3>2. Picked(set, s, n + 1)
      <4>1. \A a \in 1..n + 1 : KeyOrder[a] \in set => a \in 1..n
        BY <2>3, <2>5 DEF k
      <4> QED
        BY <2>1, <2>4, <4>1 DEF Picked
    <3> QED
      BY <2>1, <3>1, <3>2 DEF T, t
  <2>6. CASE k \in set
    <3>1. /\ t \in Seq(set) /\ Len(t) = Len(s) + 1 /\ Len(s) \in Nat
          /\ t[Len(s) + 1] = k /\ \A i \in 1..Len(s) : t[i] = s[i]
      BY <2>1, <2>2, <2>6 DEF Picked
    <3>2. \A i \in 1..Len(t) : i \in 1..Len(s) \/ i = Len(s) + 1
      BY <3>1
    <3>3. \A i \in 1..Len(s) : i \in 1..Len(t) /\ i < Len(s) + 1
      BY <3>1
    <3>4. \A i \in 1..Len(t) : \E a \in 1..n + 1 : KeyOrder[a] = t[i]
      <4> SUFFICES ASSUME NEW i \in 1..Len(t) PROVE \E a \in 1..n + 1 : KeyOrder[a] = t[i]
        OBVIOUS
      <4>1. CASE i = Len(s) + 1
        <5>1. n + 1 \in 1..n + 1 /\ KeyOrder[n + 1] = t[i]
          BY <2>1, <3>1, <4>1 DEF k
        <5> QED
          BY <5>1
      <4>2. CASE i \in 1..Len(s)
        <5>1. PICK a \in 1..n : KeyOrder[a] = s[i]
          BY <2>1, <4>2 DEF Picked
        <5> QED
          BY <2>4, <3>1, <4>2, <5>1
      <4> QED
        BY <3>2, <4>1, <4>2
    <3>5. \A a \in 1..n + 1 : KeyOrder[a] \in set => \E i \in 1..Len(t) : t[i] = KeyOrder[a]
      <4>1. Len(s) + 1 \in 1..Len(t)
        BY <3>1
      <4> QED
        BY <2>1, <2>3, <3>1, <3>3, <4>1 DEF Picked, k
    <3>6. ASSUME NEW i \in 1..Len(t), NEW j \in 1..Len(t), i < j
          PROVE  \E a, b \in 1..n + 1 : a < b /\ KeyOrder[a] = t[i] /\ KeyOrder[b] = t[j]
      <4>1. i \in 1..Len(s)
        BY <3>1, <3>6
      <4>2. CASE j \in 1..Len(s)
        <5>1. PICK a \in 1..n, b \in 1..n : a < b /\ KeyOrder[a] = s[i] /\ KeyOrder[b] = s[j]
          BY <2>1, <3>6, <4>1, <4>2 DEF Picked
        <5> QED
          BY <2>4, <3>1, <4>1, <4>2, <5>1
      <4>3. CASE j = Len(s) + 1
        <5>1. PICK a \in 1..n : KeyOrder[a] = s[i]
          BY <2>1, <4>1 DEF Picked
        <5>2. n + 1 \in 1..n + 1 /\ a \in 1..n + 1 /\ a < n + 1
          BY <2>1, <2>4
        <5> QED
          BY <3>1, <4>1, <4>3, <5>1, <5>2 DEF k
      <4> QED
        BY <3>2, <4>2, <4>3
    <3>7. Picked(set, t, n + 1)
      BY <3>1, <3>4, <3>5, <3>6 DEF Picked
    <3> QED
      BY <2>1, <3>7 DEF T, t
  <2> QED
    BY <2>5, <2>6
<1> HIDE DEF T
<1>5. \A n \in 0..L : n \in T
  BY <1>2, <1>3, <1>4, Induct
<1>6. L \in T
  BY <1>2, <1>5
<1> QED
  BY <1>1, <1>6 DEF T

\* What InOrder returns.
LEMMA Ordered ==
    ASSUME NEW set \in SUBSET ToSet(KeyOrder)
    PROVE  LET s == InOrder(set)
           IN  /\ s \in Seq(set) /\ ToSet(s) = set
               /\ \A i, j \in DOMAIN s : i < j => Before(s[i], s[j])
               /\ IsInjective(s)
<1> DEFINE s == InOrder(set)
<1>1. Picked(set, s, Len(KeyOrder))
  BY PickedAll
<1>2. Len(KeyOrder) \in Nat /\ DOMAIN KeyOrder = 1..Len(KeyOrder) /\ IsInjective(KeyOrder)
  BY ComparisonAssumption
<1> HIDE DEF s
<1>3. s \in Seq(set) /\ DOMAIN s = 1..Len(s) /\ Len(s) \in Nat
  BY <1>1 DEF Picked
<1>4. ToSet(s) = set
  <2>1. ToSet(s) \subseteq set
    BY <1>3 DEF ToSet
  <2>2. ASSUME NEW key \in set PROVE key \in ToSet(s)
    <3>1. PICK a \in 1..Len(KeyOrder) : KeyOrder[a] = key
      BY <1>2, <2>2 DEF ToSet
    <3>2. PICK i \in 1..Len(s) : s[i] = key
      BY <1>1, <2>2, <3>1 DEF Picked
    <3> QED
      BY <1>3, <3>2 DEF ToSet
  <2> QED
    BY <2>1, <2>2
<1>5. \A i, j \in DOMAIN s : i < j => Before(s[i], s[j])
  <2> SUFFICES ASSUME NEW i \in DOMAIN s, NEW j \in DOMAIN s, i < j PROVE Before(s[i], s[j])
    OBVIOUS
  <2>1. PICK a \in 1..Len(KeyOrder), b \in 1..Len(KeyOrder) :
            a < b /\ KeyOrder[a] = s[i] /\ KeyOrder[b] = s[j]
    BY <1>1, <1>3 DEF Picked
  <2> QED
    BY <1>2, <2>1 DEF Before
<1>6. \A i, j \in DOMAIN s : i < j => s[i] # s[j]
  <2> SUFFICES ASSUME NEW i \in DOMAIN s, NEW j \in DOMAIN s, i < j, s[i] = s[j] PROVE FALSE
    OBVIOUS
  <2>1. PICK a \in DOMAIN KeyOrder, b \in DOMAIN KeyOrder :
            a < b /\ KeyOrder[a] = s[i] /\ KeyOrder[b] = s[j]
    BY <1>5 DEF Before
  <2>2. a = b
    BY <1>2, <2>1 DEF IsInjective
  <2> QED
    BY <1>2, <2>1, <2>2
<1>7. IsInjective(s)
  <2>1. \A i, j \in DOMAIN s : i < j \/ j < i \/ i = j
    BY <1>3
  <2> QED
    BY <1>6, <2>1 DEF IsInjective
<1> QED
  BY <1>3, <1>4, <1>5, <1>7 DEF s

-----------------------------------------------------------------------------
(* The loops of compare. *)

AllKeys == ToSet(KeyOrder)

OtherVersion(b, key) == b[key].version # Version

\* The warnings due when the loops have visited the keys B of the baseline b
\* and the keys C of the candidate.
IsDue(b, B, C, kind, key) ==
    \/ kind = "missing" /\ key \in B \ Keys
    \/ kind = "version" /\ key \in B \cap Keys /\ OtherVersion(b, key)
    \/ kind = "new" /\ key \in C \ DOMAIN b

Due(b, B, C) == {w \in Warnings \X AllKeys : IsDue(b, B, C, w[1], w[2])}

\* What is said of every kind and key, of an earlier summary b.
Saying(b) == [w \in Warnings \X AllKeys |-> Says(b, w[1], w[2])]

\* What f makes of the elements of a sequence.
Image(f, s) == [i \in 1..Len(s) |-> f[s[i]]]

\* The texts are those of the kinds and keys in the set, one text for each.
TellsBy(s, set, texts, b) ==
    IsInjective(s) /\ ToSet(s) = set /\ texts = Image(Saying(b), s)

Tells(set, texts, b) == \E s \in Seq(Warnings \X AllKeys) : TellsBy(s, set, texts, b)

CompareInv ==
    /\ comparisons \in Seq(AllKeys)
    /\ stage = "run" => exitCode = Nil /\ comparisons = <<>> /\ warnings = <<>>
    /\ stage = "baseline" =>
           /\ exitCode = Nil /\ baseline \in Baselines /\ toVisit \subseteq DOMAIN baseline
           /\ ToSet(comparisons) = (DOMAIN baseline \ toVisit) \cap Keys
           /\ Tells(Due(baseline, DOMAIN baseline \ toVisit, {}), warnings, baseline)
    /\ stage = "candidate" =>
           /\ exitCode = Nil /\ baseline \in Baselines /\ toVisit \subseteq Keys
           /\ ToSet(comparisons) = DOMAIN baseline \cap Keys
           /\ Tells(Due(baseline, DOMAIN baseline, Keys \ toVisit), warnings, baseline)
    /\ EveryKeyAccounted

LEMMA Appended ==
    ASSUME NEW S, NEW s \in Seq(S), NEW x \in S
    PROVE  /\ Append(s, x) \in Seq(S) /\ ToSet(Append(s, x)) = ToSet(s) \cup {x}
           /\ IsInjective(s) /\ x \notin ToSet(s) => IsInjective(Append(s, x))
<1> DEFINE t == Append(s, x)
<1>1. /\ t \in Seq(S) /\ Len(s) \in Nat /\ DOMAIN s = 1..Len(s) /\ DOMAIN t = 1..Len(s) + 1
      /\ t[Len(s) + 1] = x /\ \A i \in 1..Len(s) : t[i] = s[i]
  OBVIOUS
<1> HIDE DEF t
<1>2. /\ \A i \in 1..Len(s) + 1 : i \in 1..Len(s) \/ i = Len(s) + 1
      /\ \A i \in 1..Len(s) : i \in 1..Len(s) + 1
      /\ Len(s) + 1 \in 1..Len(s) + 1
  BY <1>1
<1>3. ToSet(t) = ToSet(s) \cup {x}
  BY <1>1, <1>2 DEF ToSet
<1>4. ASSUME IsInjective(s), x \notin ToSet(s) PROVE IsInjective(t)
  BY <1>1, <1>2, <1>4 DEF IsInjective, ToSet
<1> QED
  BY <1>1, <1>3, <1>4 DEF t

LEMMA Joined ==
    ASSUME NEW S, NEW s \in Seq(S), NEW t \in Seq(S),
           IsInjective(s), IsInjective(t), ToSet(s) \cap ToSet(t) = {}
    PROVE  /\ s \o t \in Seq(S) /\ ToSet(s \o t) = ToSet(s) \cup ToSet(t)
           /\ IsInjective(s \o t)
<1> DEFINE u == s \o t
<1>1. /\ u \in Seq(S) /\ Len(s) \in Nat /\ Len(t) \in Nat /\ DOMAIN s = 1..Len(s)
      /\ DOMAIN t = 1..Len(t) /\ DOMAIN u = 1..Len(s) + Len(t)
      /\ \A i \in 1..Len(s) : u[i] = s[i]
      /\ \A i \in 1..Len(t) : u[Len(s) + i] = t[i]
  OBVIOUS
<1> HIDE DEF u
<1>2. /\ \A i \in 1..Len(s) + Len(t) : i \in 1..Len(s) \/ i - Len(s) \in 1..Len(t)
      /\ \A i \in 1..Len(s) : i \in 1..Len(s) + Len(t)
      /\ \A i \in 1..Len(t) : Len(s) + i \in 1..Len(s) + Len(t)
      /\ \A i \in 1..Len(s) + Len(t) : Len(s) + (i - Len(s)) = i
  BY <1>1
<1>3. \A i \in 1..Len(s) + Len(t) :
          \/ i \in 1..Len(s) /\ u[i] = s[i]
          \/ i - Len(s) \in 1..Len(t) /\ u[i] = t[i - Len(s)]
  BY <1>1, <1>2
<1>4. ToSet(u) = ToSet(s) \cup ToSet(t)
  <2>1. ToSet(u) \subseteq ToSet(s) \cup ToSet(t)
    BY <1>1, <1>3 DEF ToSet
  <2>2. ToSet(s) \subseteq ToSet(u)
    BY <1>1, <1>2 DEF ToSet
  <2>3. ToSet(t) \subseteq ToSet(u)
    <3>1. ASSUME NEW i \in 1..Len(t) PROVE t[i] \in ToSet(u)
      <4>1. Len(s) + i \in DOMAIN u /\ u[Len(s) + i] = t[i]
        BY <1>1, <1>2
      <4> QED
        BY <4>1 DEF ToSet
    <3> QED
      BY <1>1, <3>1 DEF ToSet
  <2> QED
    BY <2>1, <2>2, <2>3
<1>5. IsInjective(u)
  <2> SUFFICES ASSUME NEW i \in 1..Len(s) + Len(t), NEW j \in 1..Len(s) + Len(t), u[i] = u[j]
               PROVE  i = j
    BY <1>1 DEF IsInjective
  <2>1. CASE i \in 1..Len(s) /\ u[i] = s[i] /\ j \in 1..Len(s) /\ u[j] = s[j]
    BY <1>1, <2>1 DEF IsInjective
  <2>2. CASE /\ i - Len(s) \in 1..Len(t) /\ u[i] = t[i - Len(s)]
             /\ j - Len(s) \in 1..Len(t) /\ u[j] = t[j - Len(s)]
    <3>1. i - Len(s) = j - Len(s)
      BY <1>1, <2>2 DEF IsInjective
    <3> QED
      BY <1>1, <3>1
  <2>3. CASE i \in 1..Len(s) /\ u[i] = s[i] /\ j - Len(s) \in 1..Len(t) /\ u[j] = t[j - Len(s)]
    BY <1>1, <2>3 DEF ToSet
  <2>4. CASE j \in 1..Len(s) /\ u[j] = s[j] /\ i - Len(s) \in 1..Len(t) /\ u[i] = t[i - Len(s)]
    BY <1>1, <2>4 DEF ToSet
  <2> QED
    BY <1>3, <2>1, <2>2, <2>3, <2>4
<1> QED
  BY <1>1, <1>4, <1>5 DEF u

\* One more warning is due.
OneMore(b, B, C, B2, C2, kind, key) ==
    \A k \in Warnings, l \in AllKeys :
        IsDue(b, B2, C2, k, l) <=> IsDue(b, B, C, k, l) \/ (k = kind /\ l = key)

LEMMA DueMore ==
    ASSUME NEW b, NEW B, NEW C, NEW B2, NEW C2, NEW kind \in Warnings, NEW key \in AllKeys,
           OneMore(b, B, C, B2, C2, kind, key)
    PROVE  Due(b, B2, C2) = Due(b, B, C) \cup {<<kind, key>>}
<1> SUFFICES ASSUME NEW k \in Warnings, NEW l \in AllKeys
             PROVE  <<k, l>> \in Due(b, B2, C2) <=> <<k, l>> \in Due(b, B, C) \cup {<<kind, key>>}
  BY DEF Due
<1> QED
  BY DEF Due, OneMore

LEMMA DueSame ==
    ASSUME NEW b, NEW B, NEW C, NEW B2, NEW C2,
           \A k \in Warnings, l \in AllKeys : IsDue(b, B2, C2, k, l) <=> IsDue(b, B, C, k, l)
    PROVE  Due(b, B2, C2) = Due(b, B, C)
BY DEF Due

\* Saying is a function on the kinds and keys.
LEMMA SayingType ==
    ASSUME NEW b
    PROVE  /\ Saying(b) \in [Warnings \X AllKeys -> {Says(b, w[1], w[2]) : w \in Warnings \X AllKeys}]
           /\ \A kind \in Warnings, key \in AllKeys : Saying(b)[<<kind, key>>] = Says(b, kind, key)
BY DEF Saying

\* The image of a sequence that grows, and of two that are joined.
LEMMA ImageAppend ==
    ASSUME NEW S, NEW f, NEW s \in Seq(S), NEW x \in S,
           NEW t, t = Append(s, x)
    PROVE  Image(f, t) = Append(Image(f, s), f[x])
<1> DEFINE u == Append(Image(f, s), f[x])
           T == {f[e] : e \in S}
<1>1. /\ t \in Seq(S) /\ Len(s) \in Nat /\ Len(t) = Len(s) + 1
      /\ t[Len(s) + 1] = x /\ \A i \in 1..Len(s) : t[i] = s[i] /\ s[i] \in S
  OBVIOUS
<1>2. Image(f, s) \in Seq(T) /\ Len(Image(f, s)) = Len(s)
      /\ \A i \in 1..Len(s) : Image(f, s)[i] = f[s[i]]
  <2>1. \A n \in Nat : \A g \in [1..n -> T] : g \in Seq(T) /\ Len(g) = n
    OBVIOUS
  <2>2. Image(f, s) \in [1..Len(s) -> T]
    BY <1>1 DEF Image
  <2> HIDE DEF T
  <2>3. \A i \in 1..Len(s) : Image(f, s)[i] = f[s[i]]
    BY DEF Image
  <2> QED
    BY <1>1, <2>1, <2>2, <2>3
<1>3. f[x] \in T
  OBVIOUS
<1>4. /\ u = [i \in 1..Len(u) |-> u[i]] /\ Len(u) = Len(s) + 1
      /\ u[Len(s) + 1] = f[x] /\ \A i \in 1..Len(s) : u[i] = f[s[i]]
  BY <1>1, <1>2, <1>3
<1> HIDE DEF u
<1>5. \A i \in 1..Len(s) + 1 : u[i] = f[t[i]]
  <2>1. \A i \in 1..Len(s) + 1 : i \in 1..Len(s) \/ i = Len(s) + 1
    BY <1>1
  <2> QED
    BY <1>1, <1>4, <2>1
<1>6. u = Image(f, t)
  BY <1>1, <1>4, <1>5 DEF Image
<1> QED
  BY <1>6 DEF u

Joins(u, s, t) == u = s \o t

LEMMA ImageJoined ==
    ASSUME NEW S, NEW f, NEW s \in Seq(S), NEW t \in Seq(S),
           NEW u, Joins(u, s, t)
    PROVE  Joins(Image(f, u), Image(f, s), Image(f, t))
<1> USE DEF Joins
<1> DEFINE v == Image(f, s) \o Image(f, t)
           T == {f[e] : e \in S}
<1>1. /\ Len(s) \in Nat /\ Len(t) \in Nat /\ Len(u) = Len(s) + Len(t)
      /\ \A i \in 1..Len(s) : u[i] = s[i] /\ s[i] \in S
      /\ \A i \in 1..Len(t) : u[Len(s) + i] = t[i] /\ t[i] \in S
  OBVIOUS
<1>2. /\ Image(f, s) \in Seq(T) /\ Len(Image(f, s)) = Len(s)
      /\ Image(f, t) \in Seq(T) /\ Len(Image(f, t)) = Len(t)
      /\ \A i \in 1..Len(s) : Image(f, s)[i] = f[s[i]]
      /\ \A i \in 1..Len(t) : Image(f, t)[i] = f[t[i]]
  <2>1. \A n \in Nat : \A g \in [1..n -> T] : g \in Seq(T) /\ Len(g) = n
    OBVIOUS
  <2>2. Image(f, s) \in [1..Len(s) -> T] /\ Image(f, t) \in [1..Len(t) -> T]
    BY <1>1 DEF Image
  <2> HIDE DEF T
  <2>3. /\ \A i \in 1..Len(s) : Image(f, s)[i] = f[s[i]]
        /\ \A i \in 1..Len(t) : Image(f, t)[i] = f[t[i]]
    BY DEF Image
  <2> QED
    BY <1>1, <2>1, <2>2, <2>3
<1>3. /\ v = [i \in 1..Len(v) |-> v[i]] /\ Len(v) = Len(s) + Len(t)
      /\ \A i \in 1..Len(s) : v[i] = Image(f, s)[i]
      /\ \A i \in 1..Len(t) : v[Len(s) + i] = Image(f, t)[i]
  <2> DEFINE p == Image(f, s)
             q == Image(f, t)
  <2>1. p \in Seq(T) /\ q \in Seq(T) /\ Len(p) = Len(s) /\ Len(q) = Len(t) /\ v = p \o q
    BY <1>2
  <2> HIDE DEF p, q, v, T
  <2>2. Len(p \o q) = Len(p) + Len(q)
    <3>1. ASSUME NEW a \in Seq(T), NEW c \in Seq(T) PROVE Len(a \o c) = Len(a) + Len(c)
      OBVIOUS
    <3> QED
      BY ONLY <2>1, <3>1, Zenon
  <2>3. p \o q \in Seq(T)
    BY ONLY <2>1
  <2>4. \A e \in Seq(T) : e = [i \in 1..Len(e) |-> e[i]]
    OBVIOUS
  <2>5. \A i \in 1..Len(p) : (p \o q)[i] = p[i]
    BY ONLY <2>1
  <2>6. \A i \in 1..Len(q) : (p \o q)[Len(p) + i] = q[i]
    BY ONLY <2>1
  <2>7. v = [i \in 1..Len(v) |-> v[i]]
    BY <2>1, <2>3, <2>4
  <2>8. /\ Len(v) = Len(s) + Len(t)
        /\ \A i \in 1..Len(s) : v[i] = p[i]
        /\ \A i \in 1..Len(t) : v[Len(s) + i] = q[i]
    BY <2>1, <2>2, <2>5, <2>6
  <2> QED
    BY <2>7, <2>8 DEF p, q
<1> HIDE DEF v
<1>4. \A i \in 1..Len(s) + Len(t) : v[i] = f[u[i]]
  <2> SUFFICES ASSUME NEW i \in 1..Len(s) + Len(t) PROVE v[i] = f[u[i]]
    OBVIOUS
  <2>1. CASE i \in 1..Len(s)
    BY <1>1, <1>2, <1>3, <2>1
  <2>2. CASE i \notin 1..Len(s)
    <3>1. i - Len(s) \in 1..Len(t) /\ Len(s) + (i - Len(s)) = i
      BY <1>1, <2>2
    <3> QED
      BY <1>1, <1>2, <1>3, <3>1
  <2> QED
    BY <2>1, <2>2
<1>5. v = Image(f, u)
  BY <1>1, <1>3, <1>4 DEF Image
<1> QED
  BY <1>5 DEF v

\* A warning is appended that was not due before.
LEMMA Tell ==
    ASSUME NEW set, NEW texts, NEW b, Tells(set, texts, b),
           NEW kind \in Warnings, NEW key \in AllKeys, <<kind, key>> \notin set,
           NEW set2, set2 = set \cup {<<kind, key>>},
           NEW texts2, texts2 = Append(texts, Says(b, kind, key))
    PROVE  Tells(set2, texts2, b)
<1> DEFINE S == Warnings \X AllKeys
           w == <<kind, key>>
<1>1. PICK s \in Seq(S) : TellsBy(s, set, texts, b)
  BY DEF Tells
<1>2. w \in S
  OBVIOUS
<1>3. Saying(b)[w] = Says(b, kind, key)
  BY SayingType
<1>4. IsInjective(s) /\ ToSet(s) = set /\ texts = Image(Saying(b), s) /\ w \notin set
  BY <1>1 DEF TellsBy
<1> HIDE DEF S, w
<1>5. Append(s, w) \in Seq(S) /\ IsInjective(Append(s, w)) /\ ToSet(Append(s, w)) = set \cup {w}
  BY <1>2, <1>4, Appended
<1>6. Append(texts, Says(b, kind, key)) = Image(Saying(b), Append(s, w))
  <2> DEFINE t == Append(s, w)
  <2>1. t = Append(s, w)
    OBVIOUS
  <2> HIDE DEF t
  <2>2. Image(Saying(b), t) = Append(Image(Saying(b), s), Saying(b)[w])
    BY <1>2, <2>1, ImageAppend
  <2> QED
    BY <1>3, <1>4, <2>2 DEF t
<1>7. set2 = set \cup {w} /\ texts2 = Append(texts, Says(b, kind, key))
  BY DEF w
<1>8. TellsBy(Append(s, w), set2, texts2, b)
  BY <1>5, <1>6, <1>7 DEF TellsBy
<1> QED
  BY <1>5, <1>8 DEF Tells, S

LEMMA KeysOrdered ==
    /\ Keys \subseteq AllKeys
    /\ \A b \in Baselines : DOMAIN b \subseteq AllKeys
BY ComparisonAssumption DEF Keys, AllKeys

LEMMA BaselineStep ==
    ASSUME CompareInv, NEW key, key \in toVisit, VisitBaseline(key) PROVE CompareInv'
<1> DEFINE B == DOMAIN baseline \ toVisit
           B2 == DOMAIN baseline \ (toVisit \ {key})
<1>1. /\ stage = "baseline" /\ stage' = stage /\ baseline' = baseline /\ exitCode' = exitCode
      /\ toVisit' = toVisit \ {key}
  BY DEF VisitBaseline
<1>2. /\ comparisons \in Seq(AllKeys)
      /\ exitCode = Nil /\ baseline \in Baselines /\ toVisit \subseteq DOMAIN baseline
      /\ ToSet(comparisons) = B \cap Keys /\ Tells(Due(baseline, B, {}), warnings, baseline)
  BY <1>1 DEF CompareInv
<1>3. key \in DOMAIN baseline /\ key \notin B /\ B2 = B \cup {key} /\ key \in AllKeys
  BY <1>2, KeysOrdered
<1> HIDE DEF B, B2
<1>4. /\ "missing" \in Warnings /\ "version" \in Warnings
      /\ "missing" # "version" /\ "new" # "version"
      /\ "missing" # "new"
  BY DEF Warnings
<1>5. \A kind \in Warnings : <<kind, key>> \notin Due(baseline, B, {})
  BY <1>3 DEF Due, IsDue
<1>6. comparisons' \in Seq(AllKeys) /\ ToSet(comparisons') = B2 \cap Keys
  <2>1. CASE key \notin Keys
    <3>1. comparisons' = comparisons
      BY <2>1 DEF VisitBaseline
    <3> QED
      BY <1>2, <1>3, <2>1, <3>1
  <2>2. CASE key \in Keys
    <3>1. comparisons' = Append(comparisons, key)
      BY <2>2 DEF VisitBaseline
    <3>2. comparisons' \in Seq(AllKeys) /\ ToSet(comparisons') = ToSet(comparisons) \cup {key}
      BY <1>2, <1>3, <3>1, Appended
    <3> QED
      BY <1>2, <1>3, <2>2, <3>2
  <2> QED
    BY <2>1, <2>2
<1>7. Tells(Due(baseline, B2, {}), warnings', baseline)
  <2>1. CASE key \notin Keys
    <3> PICK kind \in Warnings : kind = "missing"
      BY <1>4
    <3>1. warnings' = Append(warnings, Says(baseline, kind, key))
      BY <2>1 DEF VisitBaseline, Warn
    <3>2. OneMore(baseline, B, {}, B2, {}, kind, key)
      BY <1>3, <1>4, <2>1 DEF IsDue, OneMore
    <3>3. Due(baseline, B2, {}) = Due(baseline, B, {}) \cup {<<kind, key>>}
      <4>1. key \in AllKeys
        BY <1>3
      <4> QED
        BY <3>2, <4>1, DueMore
    <3> QED
      BY <1>2, <1>3, <1>5, <3>1, <3>3, Tell
  <2>2. CASE key \in Keys /\ OtherVersion(baseline, key)
    <3> PICK kind \in Warnings : kind = "version"
      BY <1>4
    <3>1. warnings' = Append(warnings, Says(baseline, kind, key))
      BY <2>2 DEF VisitBaseline, OtherVersion, Warn
    <3>2. OneMore(baseline, B, {}, B2, {}, kind, key)
      BY <1>3, <1>4, <2>2 DEF IsDue, OneMore
    <3>3. Due(baseline, B2, {}) = Due(baseline, B, {}) \cup {<<kind, key>>}
      <4>1. key \in AllKeys
        BY <1>3
      <4> QED
        BY <3>2, <4>1, DueMore
    <3> QED
      BY <1>2, <1>3, <1>5, <3>1, <3>3, Tell
  <2>3. CASE key \in Keys /\ ~OtherVersion(baseline, key)
    <3>1. warnings' = warnings
      BY <2>3 DEF VisitBaseline, OtherVersion
    <3>2. \A k \in Warnings, l \in AllKeys :
              IsDue(baseline, B2, {}, k, l) <=> IsDue(baseline, B, {}, k, l)
      BY <1>3, <1>4, <2>3 DEF IsDue
    <3>3. Due(baseline, B2, {}) = Due(baseline, B, {})
      BY <3>2, DueSame
    <3> QED
      BY <1>2, <3>1, <3>3
  <2> QED
    BY <2>1, <2>2, <2>3
<1>8. EveryKeyAccounted'
  BY <1>1 DEF EveryKeyAccounted, Compared
<1> QED
  BY <1>1, <1>2, <1>6, <1>7, <1>8 DEF CompareInv, B2

LEMMA CandidateStep ==
    ASSUME CompareInv, NEW key, key \in toVisit, VisitCandidate(key) PROVE CompareInv'
<1> DEFINE D == DOMAIN baseline
           C == Keys \ toVisit
           C2 == Keys \ (toVisit \ {key})
<1>1. /\ stage = "candidate" /\ stage' = stage /\ baseline' = baseline /\ exitCode' = exitCode
      /\ toVisit' = toVisit \ {key} /\ comparisons' = comparisons
      /\ warnings' = IF key \in D THEN warnings
                     ELSE Append(warnings, Says(baseline, "new", key))
  BY DEF VisitCandidate, Warn
<1>2. /\ comparisons \in Seq(AllKeys)
      /\ exitCode = Nil /\ baseline \in Baselines /\ toVisit \subseteq Keys
      /\ ToSet(comparisons) = D \cap Keys /\ Tells(Due(baseline, D, C), warnings, baseline)
  BY <1>1 DEF CompareInv
<1>3. key \in Keys /\ key \notin C /\ C2 = C \cup {key} /\ key \in AllKeys
  BY <1>2, KeysOrdered
<1> HIDE DEF C, C2
<1>4. /\ "new" \in Warnings
      /\ "missing" # "new" /\ "new" # "version"
  BY DEF Warnings
<1>5. <<"new", key>> \notin Due(baseline, D, C)
  BY <1>3, <1>4 DEF Due, IsDue
<1>6. Tells(Due(baseline, D, C2), warnings', baseline)
  <2>1. CASE key \notin D
    <3> PICK kind \in Warnings : kind = "new"
      BY <1>4
    <3>1. OneMore(baseline, D, C, D, C2, kind, key)
      BY <1>3, <1>4, <2>1 DEF IsDue, OneMore
    <3>2. Due(baseline, D, C2) = Due(baseline, D, C) \cup {<<kind, key>>}
      <4>1. key \in AllKeys
        BY <1>3
      <4> QED
        BY <3>1, <4>1, DueMore
    <3>3. /\ warnings' = Append(warnings, Says(baseline, kind, key))
          /\ <<kind, key>> \notin Due(baseline, D, C)
      BY <1>1, <1>5, <2>1
    <3> QED
      BY <1>2, <1>3, <3>2, <3>3, Tell
  <2>2. CASE key \in D
    <3>1. \A k \in Warnings, l \in AllKeys :
              IsDue(baseline, D, C2, k, l) <=> IsDue(baseline, D, C, k, l)
      BY <1>3, <1>4, <2>2 DEF IsDue
    <3>2. Due(baseline, D, C2) = Due(baseline, D, C)
      BY <3>1, DueSame
    <3> QED
      BY <1>1, <1>2, <2>2, <3>2
  <2> QED
    BY <2>1, <2>2
<1>7. EveryKeyAccounted'
  BY <1>1 DEF EveryKeyAccounted, Compared
<1> QED
  BY <1>1, <1>2, <1>6, <1>7 DEF CompareInv, C2

\* The warnings of the last loop, one for every small sample.
LEMMA Small ==
    ASSUME NEW keys \in SUBSET AllKeys
    PROVE  Tells({<<"sample", key>> : key \in {k \in keys : SmallSample(k)}},
                 SampleWarnings(keys), baseline)
<1> DEFINE small == {k \in keys : SmallSample(k)}
           o == InOrder(small)
<1>1. small \in SUBSET ToSet(KeyOrder)
  BY DEF AllKeys
<1>2. SampleWarnings(keys) = [i \in DOMAIN o |-> Says(baseline, "sample", o[i])]
  BY DEF SampleWarnings
<1> HIDE DEF small
<1>3. o \in Seq(small) /\ ToSet(o) = small /\ IsInjective(o)
  BY <1>1, Ordered
<1> HIDE DEF o
<1>4. DOMAIN o = 1..Len(o) /\ Len(o) \in Nat /\ \A i \in DOMAIN o : o[i] \in AllKeys
  BY <1>1, <1>3 DEF AllKeys
<1> PICK kind \in Warnings : kind = "sample"
  BY DEF Warnings
<1> DEFINE s == [i \in 1..Len(o) |-> <<kind, o[i]>>]
<1>5. s \in Seq(Warnings \X AllKeys) /\ Len(s) = Len(o)
  <2> DEFINE T == Warnings \X AllKeys
  <2>1. \A i \in 1..Len(o) : <<kind, o[i]>> \in T
    BY <1>4
  <2> HIDE DEF T
  <2>2. s \in [1..Len(o) -> T]
    BY <2>1
  <2> HIDE DEF s
  <2>3. \A n \in Nat : \A g \in [1..n -> T] : g \in Seq(T) /\ Len(g) = n
    OBVIOUS
  <2>4. s \in Seq(T) /\ Len(s) = Len(o)
    BY <1>4, <2>2, <2>3
  <2> QED
    BY <2>4 DEF T
<1>6. DOMAIN s = DOMAIN o /\ \A i \in DOMAIN o : s[i] = <<kind, o[i]>>
  BY <1>4
<1> HIDE DEF s
<1>7. IsInjective(s)
  <2> SUFFICES ASSUME NEW i \in DOMAIN o, NEW j \in DOMAIN o, s[i] = s[j] PROVE i = j
    BY <1>6 DEF IsInjective
  <2>1. o[i] = o[j]
    BY <1>6
  <2> QED
    BY <1>3, <2>1 DEF IsInjective
<1>8. ToSet(s) = {<<"sample", key>> : key \in small}
  BY <1>3, <1>6 DEF ToSet
<1>9. SampleWarnings(keys) = Image(Saying(baseline), s)
  <2>1. ASSUME NEW i \in 1..Len(o)
        PROVE  Saying(baseline)[s[i]] = Says(baseline, "sample", o[i])
    <3>1. s[i] = <<kind, o[i]>> /\ o[i] \in AllKeys
      BY <1>4, <1>6
    <3>2. Saying(baseline)[<<kind, o[i]>>] = Says(baseline, kind, o[i])
      BY <3>1, SayingType
    <3> QED
      BY <3>1, <3>2
  <2> QED
    BY <1>2, <1>4, <1>5, <2>1 DEF Image
<1>10. TellsBy(s, {<<"sample", key>> : key \in small}, SampleWarnings(keys), baseline)
  BY <1>7, <1>8, <1>9 DEF TellsBy
<1> QED
  BY <1>5, <1>10 DEF Tells, small

\* Two lists of warnings, of different things, are one list.
LEMMA TellBoth ==
    ASSUME NEW set1, NEW set2, NEW texts1, NEW texts2, NEW b, set1 \cap set2 = {},
           Tells(set1, texts1, b), Tells(set2, texts2, b),
           NEW set, set = set1 \cup set2, NEW texts, texts = texts1 \o texts2
    PROVE  Tells(set, texts, b)
<1> DEFINE S == Warnings \X AllKeys
<1>1. PICK s \in Seq(S) : TellsBy(s, set1, texts1, b)
  BY DEF Tells
<1>2. PICK t \in Seq(S) : TellsBy(t, set2, texts2, b)
  BY DEF Tells
<1> HIDE DEF S
<1>4. s \o t \in Seq(S) /\ IsInjective(s \o t) /\ ToSet(s \o t) = set1 \cup set2
  BY <1>1, <1>2, Joined DEF TellsBy
<1>5. texts = Image(Saying(b), s \o t)
  <2>1. texts1 = Image(Saying(b), s) /\ texts2 = Image(Saying(b), t)
    BY <1>1, <1>2 DEF TellsBy
  <2>2. s \in Seq(S) /\ t \in Seq(S)
    OBVIOUS
  <2>3. Image(Saying(b), s \o t) = Image(Saying(b), s) \o Image(Saying(b), t)
    <3> DEFINE u == s \o t
    <3>1. Joins(u, s, t)
      BY DEF Joins
    <3> HIDE DEF u
    <3>2. Joins(Image(Saying(b), u), Image(Saying(b), s), Image(Saying(b), t))
      BY <2>2, <3>1, ImageJoined
    <3> QED
      BY <3>2 DEF u, Joins
  <2> QED
    BY <2>1, <2>3
<1>6. TellsBy(s \o t, set, texts, b)
  BY <1>4, <1>5 DEF TellsBy
<1> QED
  BY <1>4, <1>6 DEF Tells, S

Places(texts, text) == {i \in DOMAIN texts : texts[i] = text}

SaidOf(set, b, text) == {w \in set : Says(b, w[1], w[2]) = text}

\* A text is there once for every kind and key it is said of, and no other text is.
LEMMA SaidOften ==
    ASSUME NEW set, NEW texts, NEW b, Tells(set, texts, b), NEW text
    PROVE  Cardinality(Places(texts, text)) = Cardinality(SaidOf(set, b, text))
<1>1. PICK s \in Seq(Warnings \X AllKeys) : TellsBy(s, set, texts, b)
  BY DEF Tells
<1>2. /\ IsInjective(s) /\ ToSet(s) = set /\ texts = Image(Saying(b), s)
      /\ Len(s) \in Nat /\ DOMAIN s = 1..Len(s)
      /\ \A i \in 1..Len(s) : s[i] \in Warnings \X AllKeys
  BY <1>1 DEF TellsBy
<1>3. /\ DOMAIN texts = 1..Len(s)
      /\ \A i \in 1..Len(s) : texts[i] = Says(b, s[i][1], s[i][2])
  <2>1. \A w \in Warnings \X AllKeys : Saying(b)[w] = Says(b, w[1], w[2])
    BY DEF Saying
  <2> QED
    BY <1>2, <2>1 DEF Image
<1> DEFINE I == Places(texts, text)
           W == SaidOf(set, b, text)
           g == [i \in I |-> s[i]]
<1>4. \A i \in I : i \in 1..Len(s) /\ s[i] \in W
  BY <1>2, <1>3 DEF ToSet, Places, SaidOf
<1>5. \A w \in W : \E i \in I : s[i] = w
  BY <1>2, <1>3 DEF ToSet, Places, SaidOf
<1>6. IsFiniteSet(I)
  <2>1. I \subseteq 1..Len(s) /\ IsFiniteSet(1..Len(s))
    BY <1>2, <1>3, FS_Interval DEF Places
  <2> QED
    BY <2>1, FS_Subset
<1> HIDE DEF I, W
<1>7. g \in [I -> W] /\ \A i \in I : g[i] = s[i]
  BY <1>4
<1> HIDE DEF g
<1>8. g \in Bijection(I, W)
  <2>1. IsInjective(g)
    BY <1>2, <1>4, <1>7 DEF IsInjective
  <2>2. \A w \in W : \E i \in I : g[i] = w
    BY <1>5, <1>7
  <2> QED
    BY <1>7, <2>1, <2>2 DEF Bijection, Injection, Surjection
<1>9. ExistsBijection(I, W)
  BY <1>8 DEF ExistsBijection
<1> QED
  BY <1>6, <1>9, FS_Bijection DEF I, W

\* What the property expects is what the loops tell.
LEMMA ExpectedDue ==
    ASSUME NEW kind \in Warnings, NEW key
    PROVE  Expected(kind, key) <=>
               \/ IsDue(baseline, DOMAIN baseline, Keys, kind, key)
               \/ kind = "sample" /\ key \in DOMAIN baseline \cap Keys /\ SmallSample(key)
<1>1. CASE kind = "missing"
  BY <1>1 DEF Expected, IsDue
<1>2. CASE kind = "new"
  BY <1>2 DEF Expected, IsDue
<1>3. CASE kind = "version"
  BY <1>3 DEF Expected, IsDue, OtherVersion
<1>4. CASE kind = "sample"
  BY <1>4 DEF Expected, IsDue
<1> QED
  BY <1>1, <1>2, <1>3, <1>4 DEF Warnings

LEMMA SortStep == ASSUME CompareInv, Sort PROVE CompareInv'
<1> DEFINE both == DOMAIN baseline \cap Keys
           S == {key \in both : SmallSample(key)}
           small == {<<"sample", key>> : key \in S}
<1>1. /\ stage = "candidate" /\ stage' = "done" /\ toVisit = {} /\ exitCode' = 0
      /\ baseline' = baseline
      /\ comparisons' = InOrder(ToSet(comparisons))
      /\ warnings' = warnings \o SampleWarnings(ToSet(comparisons))
  BY DEF Sort
<1>2. /\ baseline \in Baselines /\ ToSet(comparisons) = both
      /\ Tells(Due(baseline, DOMAIN baseline, Keys), warnings, baseline)
  BY <1>1 DEF CompareInv
<1>3. both \in SUBSET AllKeys
  BY KeysOrdered
<1>4. /\ comparisons' \in Seq(AllKeys) /\ ToSet(comparisons') = both
      /\ \A i, j \in DOMAIN comparisons' : i < j => Before(comparisons'[i], comparisons'[j])
  <2>1. both \in SUBSET ToSet(KeyOrder)
    BY <1>3 DEF AllKeys
  <2>2. comparisons' = InOrder(both)
    BY <1>1, <1>2
  <2> HIDE DEF both
  <2>3. /\ comparisons' \in Seq(both) /\ ToSet(comparisons') = both
        /\ \A i, j \in DOMAIN comparisons' : i < j => Before(comparisons'[i], comparisons'[j])
    BY <2>1, <2>2, Ordered
  <2> QED
    BY <1>3, <2>3
<1>5. Tells(small, SampleWarnings(both), baseline)
  BY <1>3, Small
<1>6. Due(baseline, DOMAIN baseline, Keys) \cap small = {}
  <2> SUFFICES ASSUME NEW key
               PROVE  <<"sample", key>> \notin Due(baseline, DOMAIN baseline, Keys)
    OBVIOUS
  <2> QED
    BY DEF Due, IsDue
<1>7. Tells(Due(baseline, DOMAIN baseline, Keys) \cup small, warnings', baseline)
  <2>1. warnings' = warnings \o SampleWarnings(both)
    BY <1>1, <1>2
  <2> HIDE DEF small, both
  <2> QED
    BY <1>2, <1>5, <1>6, <2>1, TellBoth
<1>8. Due(baseline, DOMAIN baseline, Keys) \cup small = AllDue
  <2>1. \A w \in Warnings \X AllKeys :
            w \in Due(baseline, DOMAIN baseline, Keys) \cup small <=> Expected(w[1], w[2])
    <3> SUFFICES ASSUME NEW kind \in Warnings, NEW key \in AllKeys
                 PROVE  <<kind, key>> \in Due(baseline, DOMAIN baseline, Keys) \cup small
                        <=> Expected(kind, key)
      OBVIOUS
    <3>1. <<kind, key>> \in small <=> kind = "sample" /\ key \in both /\ SmallSample(key)
      <4>1. key \in S <=> key \in both /\ SmallSample(key)
        <5> HIDE DEF both
        <5> QED
          OBVIOUS
      <4> HIDE DEF S, both
      <4>2. ASSUME kind = "sample", key \in S PROVE <<kind, key>> \in small
        BY <4>2
      <4>3. ASSUME <<kind, key>> \in small PROVE kind = "sample" /\ key \in S
        <5>1. PICK k \in S : <<kind, key>> = <<"sample", k>>
          BY <4>3
        <5> QED
          BY <5>1
      <4> QED
        BY <4>1, <4>2, <4>3
    <3>2. <<kind, key>> \in Due(baseline, DOMAIN baseline, Keys)
          <=> IsDue(baseline, DOMAIN baseline, Keys, kind, key)
      BY DEF Due
    <3> QED
      BY <3>1, <3>2, ExpectedDue
  <2>2. Due(baseline, DOMAIN baseline, Keys) \cup small \subseteq Warnings \X AllKeys
    <3>1. "sample" \in Warnings
      BY DEF Warnings
    <3>2. \A key \in both : <<"sample", key>> \in Warnings \X AllKeys
      BY <1>3, <3>1
    <3>3. small \subseteq Warnings \X AllKeys
      BY <3>2
    <3>4. Due(baseline, DOMAIN baseline, Keys) \subseteq Warnings \X AllKeys
      BY DEF Due
    <3> QED
      BY <3>3, <3>4
  <2> QED
    <3> DEFINE due == Due(baseline, DOMAIN baseline, Keys) \cup small
    <3> HIDE DEF due
    <3>1. /\ \A w \in Warnings \X AllKeys : w \in due <=> Expected(w[1], w[2])
          /\ due \subseteq Warnings \X AllKeys
      BY <2>1, <2>2 DEF due
    <3>2. due = AllDue
      BY <3>1 DEF AllDue, AllKeys
    <3> QED
      BY <3>2 DEF due
<1>9. \A text : Times(text)' = Cardinality(DueSaying(text)')
  <2>1. AllDue' = AllDue
    BY <1>1 DEF AllDue, Expected, SmallSample, Keys, Group
  <2>2. ASSUME NEW text PROVE Times(text)' = Cardinality(DueSaying(text)')
    <3>1. Tells(AllDue, warnings', baseline)
      BY <1>7, <1>8
    <3>2. Cardinality(Places(warnings', text)) = Cardinality(SaidOf(AllDue, baseline, text))
      BY <3>1, SaidOften
    <3> QED
      BY <1>1, <2>1, <3>2 DEF Times, DueSaying, Places, SaidOf
  <2> QED
    BY <2>2
<1>10. EveryKeyAccounted'
  BY <1>1, <1>4, <1>9 DEF EveryKeyAccounted, Before
<1> QED
  BY <1>1, <1>4, <1>10 DEF CompareInv

LEMMA AccountInit == CompareInit => CompareInv
<1> SUFFICES ASSUME CompareInit PROVE CompareInv
  OBVIOUS
<1>1. stage = "run" /\ exitCode = Nil /\ comparisons = <<>> /\ warnings = <<>>
  BY DEF CompareInit
<1> QED
  BY <1>1 DEF CompareInv, EveryKeyAccounted, Compared

LEMMA AccountSame ==
    ASSUME CompareInv, Keys' = Keys, \A key : SmallSample(key)' = SmallSample(key),
           UNCHANGED <<stage, baseline, toVisit, comparisons, warnings, exitCode>>
    PROVE  CompareInv'
<1>1. AllDue' = AllDue
  BY DEF AllDue, Expected
<1>2. \A text : Times(text)' = Times(text) /\ DueSaying(text)' = DueSaying(text)
  BY <1>1 DEF Times, DueSaying
<1>3. EveryKeyAccounted'
  BY <1>1, <1>2 DEF CompareInv, EveryKeyAccounted, Compared, Before
<1> QED
  BY <1>3 DEF CompareInv

LEMMA AccountStep == CompareInv /\ [CompareNext]_<<vars, compareVars>> => CompareInv'
<1> SUFFICES ASSUME CompareInv, [CompareNext]_<<vars, compareVars>> PROVE CompareInv'
  OBVIOUS
<1>1. ASSUME NEW t \in Trials, NEW s \in Terminal, EndTrial(t, s) PROVE CompareInv'
  <2>1. /\ stage = "run"
        /\ UNCHANGED <<stage, baseline, toVisit, comparisons, warnings, exitCode>>
    BY <1>1 DEF EndTrial, reportVars
  <2>2. exitCode = Nil /\ comparisons = <<>> /\ warnings = <<>>
    BY <2>1 DEF CompareInv
  <2> QED
    BY <2>1, <2>2 DEF CompareInv, EveryKeyAccounted, Compared
<1>2. ASSUME LoadFails PROVE CompareInv'
  <2>1. /\ stage = "run" /\ stage' = "done" /\ exitCode' = 1
        /\ UNCHANGED <<comparisons, warnings>>
    BY <1>2 DEF LoadFails, reportVars
  <2> QED
    BY <2>1 DEF CompareInv, EveryKeyAccounted, Compared
<1>3. ASSUME NEW summary \in Baselines, LoadSummaries(summary) PROVE CompareInv'
  <2>1. /\ stage = "run" /\ stage' = "baseline" /\ exitCode' = exitCode
        /\ baseline' = summary /\ toVisit' = DOMAIN summary
        /\ comparisons' = comparisons /\ warnings' = warnings
    BY <1>3 DEF LoadSummaries, reportVars
  <2>2. exitCode = Nil /\ comparisons = <<>> /\ warnings = <<>>
    BY <2>1 DEF CompareInv
  <2>3. Due(summary, {}, {}) = {}
    BY DEF Due, IsDue
  <2>4. ToSet(comparisons') = {} /\ comparisons' \in Seq(AllKeys)
    BY <2>1, <2>2 DEF ToSet
  <2>5. DOMAIN baseline' \ toVisit' = {}
    BY <2>1
  <2>6. Tells({}, <<>>, summary)
    <3>1. <<>> \in Seq(Warnings \X AllKeys) /\ IsInjective(<<>>) /\ ToSet(<<>>) = {}
      BY DEF IsInjective, ToSet
    <3>2. Image(Saying(summary), <<>>) = <<>>
      BY DEF Image
    <3> QED
      BY <3>1, <3>2 DEF Tells, TellsBy
  <2>7. EveryKeyAccounted'
    BY <2>1 DEF EveryKeyAccounted, Compared
  <2> QED
    BY <2>1, <2>2, <2>3, <2>4, <2>5, <2>6, <2>7 DEF CompareInv
<1>4. ASSUME NEW key, key \in toVisit, VisitBaseline(key) PROVE CompareInv'
  BY <1>4, BaselineStep
<1>5. ASSUME NEW key, key \in toVisit, VisitCandidate(key) PROVE CompareInv'
  BY <1>5, CandidateStep
<1>6. ASSUME BaselineVisited PROVE CompareInv'
  <2>1. /\ stage = "baseline" /\ stage' = "candidate" /\ exitCode' = exitCode
        /\ baseline' = baseline /\ toVisit = {} /\ toVisit' = Keys
        /\ comparisons' = comparisons /\ warnings' = warnings /\ Keys' = Keys
    BY <1>6 DEF BaselineVisited, reportVars, vars, Keys
  <2>2. /\ comparisons \in Seq(AllKeys)
        /\ exitCode = Nil /\ baseline \in Baselines
        /\ ToSet(comparisons) = DOMAIN baseline \cap Keys
        /\ Tells(Due(baseline, DOMAIN baseline, {}), warnings, baseline)
    BY <2>1 DEF CompareInv
  <2>3. Keys \ toVisit' = {}
    BY <2>1
  <2>4. Tells(Due(baseline, DOMAIN baseline, Keys \ toVisit'), warnings, baseline)
    BY <2>2, <2>3
  <2>5. EveryKeyAccounted'
    BY <2>1 DEF EveryKeyAccounted, Compared
  <2> QED
    BY <2>1, <2>2, <2>4, <2>5 DEF CompareInv
<1>7. ASSUME Sort PROVE CompareInv'
  BY <1>7, SortStep
<1>8. ASSUME Returned \/ UNCHANGED <<vars, compareVars>> PROVE CompareInv'
  <2>1. UNCHANGED <<vars, compareVars>>
    BY <1>8 DEF Returned
  <2>2. UNCHANGED <<stage, baseline, toVisit, comparisons, warnings, exitCode>>
    BY <2>1 DEF compareVars, reportVars
  <2>3. Keys' = Keys
    BY <2>1 DEF vars, Keys
  <2>4. \A key : SmallSample(key)' = SmallSample(key)
    BY <2>1, <2>2 DEF vars, SmallSample, Group
  <2> QED
    BY <2>2, <2>3, <2>4, AccountSame
<1> QED
  BY <1>1, <1>2, <1>3, <1>4, <1>5, <1>6, <1>7, <1>8 DEF CompareNext

\* Whatever order Go visits the two maps in, compare accounts for every key of
\* either summary, prints each text as often as there are keys it is due for,
\* and shows its comparisons in the order of the keys (comparator.go:84-148).
THEOREM KeysAccounted == CompareSpec => []EveryKeyAccounted
<1>1. CompareInv => EveryKeyAccounted
  BY DEF CompareInv
<1> QED
  BY AccountInit, AccountStep, <1>1, PTL DEF CompareSpec
-----------------------------------------------------------------------------
(* Powers of ten. *)

PowerStep(f, n) == IF n = 0 THEN 1 ELSE 10 * f[n - 1]

PowersUpTo(n, f) == f = [i \in 0..n |-> PowerStep(f, i)]

LEMMA PowersSame ==
    ASSUME NEW m \in Nat, NEW n \in Nat, m <= n, NEW f, NEW g, PowersUpTo(m, f), PowersUpTo(n, g)
    PROVE  f[m] = g[m]
<1> DEFINE T == {i \in Nat : f[i] = g[i]}
<1>1. \A i \in 0..m : f[i] = PowerStep(f, i) /\ g[i] = PowerStep(g, i)
  <2>1. /\ f = [i \in 0..m |-> PowerStep(f, i)] /\ g = [i \in 0..n |-> PowerStep(g, i)]
        /\ \A i \in 0..m : i \in 0..n
    BY DEF PowersUpTo
  <2>2. \A i \in 0..m : f[i] = PowerStep(f, i)
    BY <2>1
  <2>3. \A i \in 0..n : g[i] = PowerStep(g, i)
    BY <2>1
  <2> QED
    BY <2>1, <2>2, <2>3
<1>2. 0 \in T
  BY <1>1 DEF PowerStep
<1>3. ASSUME NEW i \in 0..m, i < m, i \in T PROVE i + 1 \in T
  <2>1. i + 1 \in 0..m /\ i + 1 # 0 /\ (i + 1) - 1 = i
    BY <1>3
  <2>2. f[i + 1] = 10 * f[i] /\ g[i + 1] = 10 * g[i]
    BY <1>1, <2>1 DEF PowerStep
  <2> QED
    BY <1>3, <2>1, <2>2
<1> HIDE DEF T
<1>4. \A i \in 0..m : i \in T
  BY <1>2, <1>3, Induct
<1> QED
  BY <1>4 DEF T

LEMMA PowersExist == ASSUME NEW n \in Nat PROVE \E f : PowersUpTo(n, f)
<1> DEFINE T == {i \in Nat : \E f : PowersUpTo(i, f)}
<1>1. 0 \in T
  <2> DEFINE f == [i \in 0..0 |-> 1]
  <2>1. f = [i \in 0..0 |-> PowerStep(f, i)]
    BY DEF PowerStep
  <2> QED
    BY <2>1 DEF PowersUpTo
<1>2. ASSUME NEW m \in 0..n, m < n, m \in T PROVE m + 1 \in T
  <2>1. PICK f : PowersUpTo(m, f)
    BY <1>2
  <2> DEFINE g == [i \in 0..m + 1 |-> IF i <= m THEN f[i] ELSE PowerStep(f, m + 1)]
  <2>2. ASSUME NEW i \in 0..m + 1 PROVE g[i] = PowerStep(g, i)
    <3>1. i # 0 => g[i - 1] = f[i - 1]
      OBVIOUS
    <3>2. PowerStep(g, i) = PowerStep(f, i)
      BY <3>1 DEF PowerStep
    <3>3. CASE i = m + 1
      BY <3>2, <3>3
    <3>4. CASE i # m + 1
      <4>1. i \in 0..m
        BY <3>4
      <4>2. f[i] = PowerStep(f, i)
        BY <2>1, <4>1 DEF PowersUpTo
      <4> QED
        BY <3>2, <4>1, <4>2
    <3> QED
      BY <3>3, <3>4
  <2> HIDE DEF g
  <2>3. g = [i \in 0..m + 1 |-> PowerStep(g, i)]
    BY <2>2 DEF g
  <2> QED
    BY <2>3 DEF PowersUpTo
<1> HIDE DEF T
<1>3. \A m \in 0..n : m \in T
  BY <1>1, <1>2, Induct
<1> QED
  BY <1>3 DEF T

LEMMA PowerDef ==
    /\ PowerOf10[0] = 1
    /\ \A n \in Nat : PowerOf10[n + 1] = 10 * PowerOf10[n]
<1> DEFINE upTo(n) == CHOOSE f : PowersUpTo(n, f)
           p == [n \in Nat |-> upTo(n)[n]]
<1>1. \A n \in Nat : PowersUpTo(n, upTo(n))
  BY PowersExist
<1> HIDE DEF upTo
<1>2. ASSUME NEW n \in Nat PROVE p[n] = PowerStep(p, n)
  <2>1. upTo(n)[n] = PowerStep(upTo(n), n)
    BY <1>1 DEF PowersUpTo
  <2>2. CASE n = 0
    BY <2>1, <2>2 DEF PowerStep
  <2>3. CASE n # 0
    <3>1. n - 1 \in Nat /\ n - 1 <= n
      BY <2>3
    <3>2. upTo(n - 1)[n - 1] = upTo(n)[n - 1]
      BY <1>1, <3>1, PowersSame
    <3> QED
      BY <2>1, <2>3, <3>1, <3>2 DEF PowerStep
  <2> QED
    BY <2>2, <2>3
<1> HIDE DEF p
<1>3. p = [n \in Nat |-> IF n = 0 THEN 1 ELSE 10 * p[n - 1]]
  <2>1. p = [n \in Nat |-> p[n]]
    BY DEF p
  <2> QED
    BY <1>2, <2>1 DEF PowerStep
<1>4. PowerOf10 = [n \in Nat |-> IF n = 0 THEN 1 ELSE 10 * PowerOf10[n - 1]]
  BY <1>3 DEF PowerOf10
<1> DEFINE q == PowerOf10
<1> HIDE DEF q
<1>5. q = [n \in Nat |-> IF n = 0 THEN 1 ELSE 10 * q[n - 1]]
  BY <1>4 DEF q
<1>6. q[0] = 1
  BY <1>5
<1>7. ASSUME NEW n \in Nat PROVE q[n + 1] = 10 * q[n]
  <2>1. n + 1 \in Nat /\ n + 1 # 0 /\ (n + 1) - 1 = n
    OBVIOUS
  <2> QED
    BY <1>5, <2>1
<1> QED
  BY <1>6, <1>7 DEF q

\* They are positive and grow without bound.
LEMMA PowerGrows ==
    /\ \A n \in Nat : PowerOf10[n] \in Nat /\ PowerOf10[n] > n
    /\ \A n \in Nat \ {0} : PowerOf10[n] = 10 \/ PowerOf10[n] >= 100
<1> DEFINE T == {n \in Nat : PowerOf10[n] \in Nat /\ PowerOf10[n] > n}
<1>1. 0 \in T
  BY PowerDef
<1>2. ASSUME NEW n \in Nat, n \in T PROVE n + 1 \in T
  BY <1>2, PowerDef
<1> HIDE DEF T
<1>3. ASSUME NEW n \in Nat PROVE n \in T
  <2>1. \A m \in 0..n : m < n /\ m \in T => m + 1 \in T
    BY <1>2
  <2>2. \A m \in 0..n : m \in T
    BY <1>1, <2>1, Induct
  <2> QED
    BY <2>2
<1>4. \A n \in Nat : PowerOf10[n] \in Nat /\ PowerOf10[n] > n
  BY <1>3 DEF T
<1>5. ASSUME NEW n \in Nat \ {0} PROVE PowerOf10[n] = 10 \/ PowerOf10[n] >= 100
  <2>1. CASE n = 1
    <3>1. PowerOf10[0 + 1] = 10 * PowerOf10[0]
      BY PowerDef
    <3> QED
      BY <2>1, <3>1, PowerDef
  <2>2. CASE n # 1
    <3>1. n - 2 \in Nat /\ n - 1 \in Nat /\ (n - 2) + 1 = n - 1 /\ (n - 1) + 1 = n
      BY <2>2
    <3>2. PowerOf10[n - 1] = 10 * PowerOf10[n - 2] /\ PowerOf10[n] = 10 * PowerOf10[n - 1]
      BY <3>1, PowerDef
    <3>3. PowerOf10[n - 2] \in Nat /\ PowerOf10[n - 2] >= 1
      BY <1>4, <3>1
    <3> QED
      BY <3>2, <3>3
  <2> QED
    BY <2>1, <2>2
<1> QED
  BY <1>4, <1>5

LEMMA PowerSum ==
    ASSUME NEW m \in Nat, NEW n \in Nat
    PROVE  PowerOf10[m + n] = PowerOf10[m] * PowerOf10[n]
<1> DEFINE T == {i \in Nat : PowerOf10[m + i] = PowerOf10[m] * PowerOf10[i]}
<1>1. 0 \in T
  <2>1. PowerOf10[m] \in Nat /\ m + 0 = m
    BY PowerGrows
  <2> QED
    BY <2>1, PowerDef
<1>2. ASSUME NEW i \in 0..n, i < n, i \in T PROVE i + 1 \in T
  <2>1. i \in Nat /\ i + 1 \in Nat /\ m + i \in Nat /\ m + (i + 1) = (m + i) + 1
    OBVIOUS
  <2>2. PowerOf10[m + (i + 1)] = 10 * PowerOf10[m + i] /\ PowerOf10[i + 1] = 10 * PowerOf10[i]
    BY <2>1, PowerDef
  <2>3. PowerOf10[m] \in Nat /\ PowerOf10[i] \in Nat
    BY <2>1, PowerGrows
  <2>4. \A a, b \in Nat : 10 * (a * b) = a * (10 * b)
    OBVIOUS
  <2> QED
    BY <1>2, <2>1, <2>2, <2>3, <2>4
<1> HIDE DEF T
<1>3. \A i \in 0..n : i \in T
  BY <1>1, <1>2, Induct
<1> QED
  BY <1>3 DEF T

-----------------------------------------------------------------------------
(* Sums. *)

SumStep(samples, f, i) == IF i = 0 THEN 0 ELSE samples[i] + f[i - 1]

LEMMA SumDefined ==
    ASSUME NEW samples \in Seq(Nat)
    PROVE  \E f : /\ Sum(samples) = f[Len(samples)] /\ f[0] = 0
                  /\ \A n \in 0..Len(samples) : n < Len(samples) =>
                         f[n + 1] = samples[n + 1] + f[n]
<1> DEFINE L == Len(samples)
           Defined(n) == \E f : f = [i \in 0..n |-> SumStep(samples, f, i)]
           T == {n \in Nat : Defined(n)}
<1>0. L \in Nat
  OBVIOUS
<1> HIDE DEF L
<1>1. Defined(0)
  <2> DEFINE f == [i \in 0..0 |-> 0]
  <2>1. f = [i \in 0..0 |-> SumStep(samples, f, i)]
    BY DEF SumStep
  <2> QED
    BY <2>1
<1>2. ASSUME NEW n \in Nat, Defined(n) PROVE Defined(n + 1)
  <2>1. PICK f : f = [i \in 0..n |-> SumStep(samples, f, i)]
    BY <1>2
  <2> DEFINE g == [i \in 0..n + 1 |-> IF i <= n THEN f[i] ELSE SumStep(samples, f, n + 1)]
  <2>2. ASSUME NEW i \in 0..n + 1 PROVE g[i] = SumStep(samples, g, i)
    <3>1. i # 0 => g[i - 1] = f[i - 1]
      OBVIOUS
    <3>2. SumStep(samples, g, i) = SumStep(samples, f, i)
      BY <3>1 DEF SumStep
    <3>3. CASE i = n + 1
      BY <3>2, <3>3
    <3>4. CASE i # n + 1
      <4>1. i \in 0..n
        BY <3>4
      <4>2. f[i] = SumStep(samples, f, i)
        BY <2>1, <4>1
      <4> QED
        BY <3>2, <4>1, <4>2
    <3> QED
      BY <3>3, <3>4
  <2> HIDE DEF g
  <2>3. g = [i \in 0..n + 1 |-> SumStep(samples, g, i)]
    BY <2>2 DEF g
  <2> QED
    BY <2>3
<1> HIDE DEF Defined
<1>3. Defined(L)
  <2>1. 0 \in T /\ \A n \in 0..L : n < L /\ n \in T => n + 1 \in T
    BY <1>0, <1>1, <1>2
  <2> HIDE DEF T
  <2>2. \A n \in 0..L : n \in T
    BY <1>0, <2>1, Induct
  <2>3. L \in T
    BY <1>0, <2>2
  <2> QED
    BY <2>3 DEF T
<1> DEFINE f == CHOOSE f : f = [i \in 0..L |-> SumStep(samples, f, i)]
<1>4. f = [i \in 0..L |-> SumStep(samples, f, i)]
  BY <1>3 DEF Defined
<1>5. Sum(samples) = f[L]
  BY DEF Sum, SumStep, L
<1> HIDE DEF f
<1>6. f[0] = 0
  BY <1>0, <1>4 DEF SumStep
<1>7. ASSUME NEW n \in 0..L, n < L PROVE f[n + 1] = samples[n + 1] + f[n]
  <2>1. n + 1 \in 0..L /\ n + 1 # 0 /\ (n + 1) - 1 = n
    BY <1>0, <1>7
  <2>2. f[n + 1] = SumStep(samples, f, n + 1)
    BY <1>4, <2>1
  <2> QED
    BY <2>1, <2>2 DEF SumStep
<1> QED
  BY <1>5, <1>6, <1>7 DEF L

\* A sum lies between as many times the least and the largest number.
LEMMA SumBounds ==
    ASSUME NEW samples \in Seq(Nat), NEW low \in Nat, NEW high \in Nat,
           \A i \in 1..Len(samples) : low <= samples[i] /\ samples[i] <= high
    PROVE  /\ Sum(samples) \in Nat
           /\ Len(samples) * low <= Sum(samples) /\ Sum(samples) <= Len(samples) * high
<1> DEFINE L == Len(samples)
<1>1. PICK f : /\ Sum(samples) = f[Len(samples)] /\ f[0] = 0
               /\ \A n \in 0..Len(samples) : n < Len(samples) =>
                      f[n + 1] = samples[n + 1] + f[n]
  BY SumDefined
<1>2. L \in Nat
  OBVIOUS
<1> DEFINE T == {n \in Nat : f[n] \in Nat /\ n * low <= f[n] /\ f[n] <= n * high}
<1>3. 0 \in T
  BY <1>1
<1>4. ASSUME NEW n \in 0..L, n < L, n \in T PROVE n + 1 \in T
  <2>1. f[n + 1] = samples[n + 1] + f[n]
    BY <1>1, <1>4
  <2>2. n \in Nat /\ n + 1 \in 1..L
    BY <1>2, <1>4
  <2>3. samples[n + 1] \in Nat /\ low <= samples[n + 1] /\ samples[n + 1] <= high
    BY <2>2
  <2>4. \A a, b \in Nat : (a + 1) * b = a * b + b /\ a * b \in Nat
    OBVIOUS
  <2>5. /\ (n + 1) * low = n * low + low /\ (n + 1) * high = n * high + high
        /\ n * low \in Nat /\ n * high \in Nat
    BY <2>2, <2>4
  <2>6. f[n] \in Nat /\ n * low <= f[n] /\ f[n] <= n * high
    BY <1>4
  <2> DEFINE a == n * low
             b == n * high
  <2> HIDE DEF a, b
  <2>7. a \in Nat /\ b \in Nat /\ a <= f[n] /\ f[n] <= b
    BY <2>5, <2>6 DEF a, b
  <2>8. /\ f[n + 1] \in Nat /\ a + low <= f[n + 1] /\ f[n + 1] <= b + high
    BY <2>1, <2>3, <2>6, <2>7
  <2> QED
    BY <2>2, <2>5, <2>8 DEF a, b
<1> HIDE DEF T
<1>5. \A n \in 0..L : n \in T
  BY <1>2, <1>3, <1>4, Induct
<1>6. L \in T
  BY <1>2, <1>5
<1> QED
  BY <1>1, <1>6 DEF T

-----------------------------------------------------------------------------
(* Rounding. *)

LEMMA Division ==
    ASSUME NEW a \in Nat, NEW b \in Nat \ {0}
    PROVE  /\ a \div b \in Nat
           /\ b * (a \div b) <= a /\ a < b * (a \div b) + b
OBVIOUS

\* A value above zero has the digits that RoundSig chooses.
LEMMA DigitsExist ==
    ASSUME NEW num \in Nat \ {0}, NEW den \in Nat \ {0}
    PROVE  \E d \in 2..den + 2 :
               /\ num * PowerOf10[d - 2] >= den
               /\ d > 2 => num * PowerOf10[d - 3] < den
<1> DEFINE T == {k \in Nat : num * PowerOf10[k] >= den}
<1>1. den \in T
  <2>1. PowerOf10[den] \in Nat /\ PowerOf10[den] > den
    BY PowerGrows
  <2>2. \A p \in Nat : p > den => num * p >= den
    <3>1. \A p \in Nat : num * p >= p
      OBVIOUS
    <3> QED
      BY <3>1
  <2> QED
    BY <2>1, <2>2
<1>2. PICK m \in T : \A n \in T : m <= n
  <2>1. T \in SUBSET Nat /\ T # {}
    BY <1>1
  <2> HIDE DEF T
  <2> QED
    BY <2>1, Least
<1>3. m \in Nat /\ m <= den /\ num * PowerOf10[m] >= den
  BY <1>1, <1>2
<1>4. m > 0 => num * PowerOf10[m - 1] < den
  <2> SUFFICES ASSUME m > 0 PROVE num * PowerOf10[m - 1] < den
    OBVIOUS
  <2>1. m - 1 \in Nat /\ ~(m <= m - 1)
    BY <1>3
  <2>2. m - 1 \notin T
    BY <1>2, <2>1
  <2>3. PowerOf10[m - 1] \in Nat
    BY <2>1, PowerGrows
  <2>4. num * PowerOf10[m - 1] \in Nat
    BY <2>3
  <2> QED
    BY <2>1, <2>2, <2>4
<1>5. /\ m + 2 \in 2..den + 2 /\ (m + 2) - 2 = m /\ (m + 2) - 3 = m - 1
      /\ m + 2 > 2 <=> m > 0
  BY <1>3
<1> QED
  BY <1>3, <1>4, <1>5

\* r/s is num/den with d digits, three of them significant if it is small.
Rounds(num, den, d, s, r) ==
    /\ d \in Nat /\ d >= 2 /\ s = PowerOf10[d] /\ s \in Nat /\ s >= 100
    /\ 100 * den <= num * s
    /\ d > 2 => num * s < 1000 * den
    /\ r \in Nat
    /\ 2 * (den * r) <= 2 * (num * s) + den
    /\ 2 * (num * s) + den < 2 * (den * r) + 2 * den

LEMMA Rounded ==
    ASSUME NEW num \in Nat \ {0}, NEW den \in Nat \ {0}
    PROVE  \E d, s, r : Rounds(num, den, d, s, r) /\ RoundSig(num, den) = <<r, s>>
<1> DEFINE d == CHOOSE d \in 2..den + 2 :
                    /\ num * PowerOf10[d - 2] >= den
                    /\ d > 2 => num * PowerOf10[d - 3] < den
           s == PowerOf10[d]
           r == (2 * num * s + den) \div (2 * den)
<1>1. RoundSig(num, den) = <<r, s>>
  BY DEF RoundSig
<1>2. /\ d \in 2..den + 2 /\ num * PowerOf10[d - 2] >= den
      /\ d > 2 => num * PowerOf10[d - 3] < den
  BY DigitsExist
<1> HIDE DEF d
<1> DEFINE p == PowerOf10[d - 2]
<1>3. d \in Nat /\ d >= 2 /\ d - 2 \in Nat /\ d - 1 \in Nat /\ (d - 2) + 1 = d - 1 /\ (d - 1) + 1 = d
  BY <1>2
<1>4. p \in Nat /\ p >= 1 /\ s = 100 * p
  BY <1>3, PowerGrows, PowerDef
<1>5. d > 2 => num * p < 10 * den
  <2> SUFFICES ASSUME d > 2 PROVE num * p < 10 * den
    OBVIOUS
  <2>1. d - 3 \in Nat /\ (d - 3) + 1 = d - 2
    BY <1>3
  <2>2. p = 10 * PowerOf10[d - 3] /\ PowerOf10[d - 3] \in Nat
    BY <2>1, PowerDef, PowerGrows
  <2>3. \A q \in Nat : num * (10 * q) = 10 * (num * q) /\ num * q \in Nat
    OBVIOUS
  <2> QED
    BY <1>2, <2>2, <2>3
<1>6. num * s = 100 * (num * p) /\ num * p \in Nat /\ s \in Nat /\ s >= 100
  <2>1. \A q \in Nat : num * (100 * q) = 100 * (num * q) /\ num * q \in Nat
    OBVIOUS
  <2> QED
    BY <1>4, <2>1
<1>7. /\ r \in Nat /\ 2 * (den * r) <= 2 * (num * s) + den
      /\ 2 * (num * s) + den < 2 * (den * r) + 2 * den
  <2> HIDE DEF s
  <2>1. 2 * num * s + den \in Nat /\ 2 * den \in Nat \ {0} /\ 2 * num * s = 2 * (num * s)
    BY <1>6
  <2>2. /\ r \in Nat /\ (2 * den) * r <= 2 * num * s + den
        /\ 2 * num * s + den < (2 * den) * r + 2 * den
    <3> DEFINE a == 2 * num * s + den
               b == 2 * den
    <3>1. a \in Nat /\ b \in Nat \ {0} /\ r = a \div b
      BY <2>1
    <3> HIDE DEF a, b, r
    <3>2. r \in Nat /\ b * r <= a /\ a < b * r + b
      BY <3>1, Division
    <3> QED
      BY <3>2 DEF a, b
  <2>3. \A q \in Nat : (2 * den) * q = 2 * (den * q)
    OBVIOUS
  <2> HIDE DEF r
  <2> QED
    BY <2>1, <2>2, <2>3
<1>8. 100 * den <= num * s /\ (d > 2 => num * s < 1000 * den)
  <2> DEFINE x == num * p
  <2>1. x \in Nat /\ num * s = 100 * x /\ den <= x /\ (d > 2 => x < 10 * den)
    BY <1>2, <1>5, <1>6
  <2> HIDE DEF x, s
  <2> QED
    BY <2>1
<1>9. Rounds(num, den, d, s, r)
  <2>1. s = PowerOf10[d]
    OBVIOUS
  <2> HIDE DEF s, r
  <2> QED
    BY <1>3, <1>6, <1>7, <1>8, <2>1 DEF Rounds
<1> QED
  BY <1>1, <1>9

-----------------------------------------------------------------------------
(* Percentiles. *)

\* v/100 is the percentile p, frac/100 of the way from one sample to the next.
Line(s, p, lower, frac, v) ==
    /\ lower \in 1..Len(s) /\ frac \in 0..99
    /\ p * (Len(s) - 1) = 100 * (lower - 1) + frac
    /\ frac = 0 => v = 100 * s[lower]
    /\ frac # 0 => lower < Len(s) /\ v = s[lower] * (100 - frac) + s[lower + 1] * frac

LEMMA PercentileLine ==
    ASSUME NEW s \in Seq(Nat), s # <<>>, NEW p \in 0..100
    PROVE  \E lower, frac, v : Line(s, p, lower, frac, v) /\ Percentile(s, p) = <<v, 100>>
<1> DEFINE rank == p * (Len(s) - 1)
           lower == (rank \div 100) + 1
           frac == rank % 100
           v == IF frac = 0 THEN 100 * s[lower]
                ELSE s[lower] * (100 - frac) + s[lower + 1] * frac
<1>1. Len(s) \in Nat /\ Len(s) >= 1
  OBVIOUS
<1>2. rank \in Nat /\ rank <= 100 * (Len(s) - 1)
  <2>1. \A m \in Nat : p * m \in Nat /\ p * m <= 100 * m
    OBVIOUS
  <2>2. Len(s) - 1 \in Nat
    BY <1>1
  <2> QED
    BY <2>1, <2>2
<1>3. Percentile(s, p) = <<v, 100>>
  BY DEF Percentile
<1> HIDE DEF rank
<1>4. /\ lower \in 1..Len(s) /\ frac \in 0..99 /\ rank = 100 * (lower - 1) + frac
      /\ frac # 0 => lower < Len(s)
  BY <1>1, <1>2
<1>5. /\ frac = 0 => v = 100 * s[lower]
      /\ frac # 0 => v = s[lower] * (100 - frac) + s[lower + 1] * frac
  OBVIOUS
<1> HIDE DEF v, frac, lower
<1>6. Line(s, p, lower, frac, v)
  BY <1>4, <1>5 DEF Line, rank
<1> QED
  BY <1>3, <1>6

\* A point of the line between two numbers.
LEMMA OnTheLine ==
    ASSUME NEW a \in Nat, NEW b \in Nat, a <= b, NEW f \in 0..100
    PROVE  /\ a * (100 - f) + b * f \in Nat
           /\ 100 * a <= a * (100 - f) + b * f /\ a * (100 - f) + b * f <= 100 * b
           /\ \A g \in f..100 : a * (100 - f) + b * f <= a * (100 - g) + b * g
<1>1. PICK c \in Nat : b = a + c
  <2>1. b - a \in Nat /\ b = a + (b - a)
    OBVIOUS
  <2> QED
    BY <2>1
<1>2. \A g \in 0..100 : a * (100 - g) + b * g = 100 * a + c * g
  BY <1>1
<1>3. \A g \in 0..100 : c * g \in Nat /\ c * g <= 100 * c
  BY <1>1
<1>4. \A g \in f..100 : c * f <= c * g
  <2>1. \A d \in Nat : c * (f + d) = c * f + c * d /\ c * d \in Nat
    BY <1>1
  <2>2. \A g \in f..100 : g - f \in Nat /\ g = f + (g - f)
    OBVIOUS
  <2> QED
    BY <1>3, <2>1, <2>2
<1> QED
  BY <1>1, <1>2, <1>3, <1>4

\* The samples a percentile lies between.
LEMMA LineBounds ==
    ASSUME NEW s \in Seq(Nat), Sorted(s), NEW p \in 0..100,
           NEW lower, NEW frac, NEW v, Line(s, p, lower, frac, v)
    PROVE  /\ v \in Nat /\ 100 * s[lower] <= v
           /\ frac = 0 => v = 100 * s[lower]
           /\ frac # 0 => lower + 1 \in 1..Len(s) /\ v <= 100 * s[lower + 1]
<1>1. /\ lower \in 1..Len(s) /\ frac \in 0..99
      /\ frac = 0 => v = 100 * s[lower]
      /\ frac # 0 => lower < Len(s) /\ v = s[lower] * (100 - frac) + s[lower + 1] * frac
  BY DEF Line
<1>2. s[lower] \in Nat /\ Len(s) \in Nat
  BY <1>1
<1>3. CASE frac = 0
  BY <1>1, <1>2, <1>3
<1>4. CASE frac # 0
  <2>1. lower + 1 \in 1..Len(s) /\ lower < lower + 1
    BY <1>1, <1>2, <1>4
  <2>2. s[lower + 1] \in Nat
    BY <2>1
  <2>3. s[lower] <= s[lower + 1]
    BY <1>1, <2>1 DEF Sorted
  <2>4. v \in Nat /\ 100 * s[lower] <= v /\ v <= 100 * s[lower + 1]
    <3>1. frac \in 0..100 /\ v = s[lower] * (100 - frac) + s[lower + 1] * frac
      BY <1>1, <1>4
    <3>2. /\ s[lower] * (100 - frac) + s[lower + 1] * frac \in Nat
          /\ 100 * s[lower] <= s[lower] * (100 - frac) + s[lower + 1] * frac
          /\ s[lower] * (100 - frac) + s[lower + 1] * frac <= 100 * s[lower + 1]
      BY <1>2, <2>2, <2>3, <3>1, OnTheLine
    <3> QED
      BY <3>1, <3>2
  <2> QED
    BY <1>4, <2>1, <2>4
<1> QED
  BY <1>3, <1>4

LEMMA SortedAt ==
    ASSUME NEW s \in Seq(Nat), Sorted(s), NEW i \in 1..Len(s), NEW j \in 1..Len(s), i <= j
    PROVE  s[i] \in Nat /\ s[j] \in Nat /\ s[i] <= s[j]
<1>1. s[i] \in Nat /\ s[j] \in Nat
  OBVIOUS
<1>2. CASE i = j
  BY <1>1, <1>2
<1>3. CASE i < j
  BY <1>1, <1>3 DEF Sorted
<1> QED
  BY <1>1, <1>2, <1>3

\* Percentiles stand in their order.
LEMMA LineOrder ==
    ASSUME NEW s \in Seq(Nat), Sorted(s), NEW p \in 0..100, NEW q \in p..100,
           NEW l, NEW f, NEW v, NEW m, NEW g, NEW w, Line(s, p, l, f, v), Line(s, q, m, g, w)
    PROVE  v <= w
<1>0. Len(s) \in Nat
  OBVIOUS
<1>1. /\ l \in 1..Len(s) /\ f \in 0..99 /\ p * (Len(s) - 1) = 100 * (l - 1) + f
      /\ f # 0 => l < Len(s) /\ v = s[l] * (100 - f) + s[l + 1] * f
  BY DEF Line
<1>2. /\ m \in 1..Len(s) /\ g \in 0..99 /\ q * (Len(s) - 1) = 100 * (m - 1) + g
      /\ g # 0 => m < Len(s) /\ w = s[m] * (100 - g) + s[m + 1] * g
  BY DEF Line
<1>3. p * (Len(s) - 1) <= q * (Len(s) - 1)
  <2>1. \A n, d \in Nat : (p + d) * n = p * n + d * n /\ d * n \in Nat /\ p * n \in Nat
    OBVIOUS
  <2>2. q - p \in Nat /\ q = p + (q - p) /\ Len(s) - 1 \in Nat
    BY <1>0, <1>1
  <2> QED
    BY <2>1, <2>2
<1>4. 100 * (l - 1) + f <= 100 * (m - 1) + g
  BY <1>1, <1>2, <1>3
<1>5. l <= m /\ (l = m => f <= g)
  <2>1. \A a, b \in Nat, x, y \in 0..99 :
            100 * (a - 1) + x <= 100 * (b - 1) + y => a <= b /\ (a = b => x <= y)
    OBVIOUS
  <2>2. l \in Nat /\ m \in Nat
    BY <1>0, <1>1, <1>2
  <2> QED
    BY <1>1, <1>2, <1>4, <2>1, <2>2
<1>6. /\ v \in Nat
      /\ f = 0 => v = 100 * s[l]
      /\ f # 0 => l + 1 \in 1..Len(s) /\ v <= 100 * s[l + 1]
  <2>1. Line(s, p, l, f, v) /\ p \in 0..100
    OBVIOUS
  <2> QED
    BY ONLY <2>1, LineBounds, Sorted(s), s \in Seq(Nat)
<1>7. w \in Nat /\ 100 * s[m] <= w
  <2>1. Line(s, q, m, g, w) /\ q \in 0..100
    OBVIOUS
  <2> QED
    BY ONLY <2>1, LineBounds, Sorted(s), s \in Seq(Nat)
<1>8. CASE f = 0
  <2>1. v = 100 * s[l]
    BY <1>6, <1>8
  <2>2. s[l] \in Nat /\ s[m] \in Nat /\ s[l] <= s[m]
    BY <1>1, <1>2, <1>5, SortedAt
  <2> QED
    BY <1>7, <2>1, <2>2
<1>9. CASE f # 0 /\ l = m
  <2>1. g # 0 /\ g \in f..100 /\ f \in 0..100
    <3>1. \A x, y \in 0..99 : x <= y /\ x # 0 => y # 0 /\ y \in x..100 /\ x \in 0..100
      OBVIOUS
    <3> QED
      BY <1>1, <1>2, <1>5, <1>9, <3>1
  <2>2. l + 1 \in 1..Len(s)
    BY <1>6, <1>9
  <2>3. s[l] \in Nat /\ s[l + 1] \in Nat /\ s[l] <= s[l + 1]
    BY <1>0, <1>1, <2>2, SortedAt
  <2>4. s[l] * (100 - f) + s[l + 1] * f <= s[l] * (100 - g) + s[l + 1] * g
    BY <2>1, <2>3, OnTheLine
  <2> QED
    BY <1>1, <1>2, <1>9, <2>1, <2>4
<1>10. CASE f # 0 /\ l # m
  <2>1. l + 1 \in 1..Len(s) /\ v <= 100 * s[l + 1]
    BY <1>6, <1>10
  <2>2. l + 1 <= m
    BY <1>0, <1>1, <1>2, <1>5, <1>10
  <2>3. s[l + 1] \in Nat /\ s[m] \in Nat /\ s[l + 1] <= s[m]
    BY <1>2, <2>1, <2>2, SortedAt
  <2> QED
    BY <1>6, <1>7, <2>1, <2>3
<1> QED
  BY <1>8, <1>9, <1>10

\* A percentile lies between the extremes.
LEMMA LineExtremes ==
    ASSUME NEW s \in Seq(Nat), Sorted(s), NEW p \in 0..100,
           NEW l, NEW f, NEW v, Line(s, p, l, f, v)
    PROVE  s[1] * 100 <= v /\ v <= s[Len(s)] * 100
<1>0. Len(s) \in Nat /\ l \in 1..Len(s)
  BY DEF Line
<1>1. /\ v \in Nat /\ 100 * s[l] <= v
      /\ f = 0 => v = 100 * s[l]
      /\ f # 0 => l + 1 \in 1..Len(s) /\ v <= 100 * s[l + 1]
  BY LineBounds
<1>2. s[1] \in Nat /\ s[l] \in Nat /\ s[1] <= s[l]
  BY <1>0, SortedAt
<1> DEFINE high == s[Len(s)]
<1>3. \A i \in 1..Len(s) : s[i] \in Nat /\ high \in Nat /\ s[i] <= high
  BY <1>0, SortedAt
<1> HIDE DEF high
<1>4. CASE f = 0
  <2>1. s[l] <= high /\ high \in Nat /\ v = 100 * s[l]
    BY <1>0, <1>1, <1>3, <1>4
  <2>2. v <= high * 100 /\ s[1] * 100 <= v
    BY <1>2, <2>1
  <2> QED
    BY <2>2 DEF high
<1>5. CASE f # 0
  <2>1. s[l + 1] \in Nat /\ high \in Nat /\ s[l + 1] <= high /\ v <= 100 * s[l + 1]
    BY <1>1, <1>3, <1>5
  <2>2. v <= high * 100
    BY <1>1, <2>1
  <2>3. s[1] * 100 <= v
    BY <1>1, <1>2
  <2> QED
    BY <2>2, <2>3 DEF high
<1> QED
  BY <1>4, <1>5
\* A set that holds an interval has at least as many elements.
LEMMA Holds ==
    ASSUME NEW n \in Nat, NEW S \in SUBSET (1..n), NEW a \in Nat, NEW b \in Nat, a <= b + 1,
           a..b \subseteq S
    PROVE  Cardinality(S) \in Nat /\ Cardinality(S) >= b - a + 1
<1>1. IsFiniteSet(1..n) /\ IsFiniteSet(a..b)
  BY FS_Interval
<1>2. IsFiniteSet(S)
  BY <1>1, FS_Subset
<1>3. Cardinality(a..b) <= Cardinality(S)
  BY <1>2, FS_Subset
<1>4. Cardinality(a..b) = b - a + 1
  <2>1. Cardinality(a..b) = IF a > b THEN 0 ELSE b - a + 1
    BY FS_Interval
  <2> QED
    BY <2>1
<1>5. Cardinality(S) \in Nat
  BY <1>2, FS_CardinalityType
<1> QED
  BY <1>3, <1>4, <1>5

\* What a percentile promises of the samples below and above it.
Divides(s, p, x) ==
    /\ AtMost(s, x) * 100 >= p * (Len(s) - 1)
    /\ AtLeast(s, x) * 100 >= (100 - p) * (Len(s) - 1)

LEMMA LineDivides ==
    ASSUME NEW s \in Seq(Nat), Sorted(s), NEW p \in 0..100,
           NEW l, NEW f, NEW v, Line(s, p, l, f, v)
    PROVE  Divides(s, p, <<v, 100>>)
<1> DEFINE n == Len(s)
           below == {i \in 1..n : s[i] * 100 <= v}
           above == {i \in 1..n : v <= s[i] * 100}
           rank == p * (n - 1)
<1>0. n \in Nat /\ DOMAIN s = 1..n
  OBVIOUS
<1>1. l \in 1..n /\ f \in 0..99 /\ rank = 100 * (l - 1) + f
  BY DEF Line
<1>2. /\ v \in Nat /\ 100 * s[l] <= v
      /\ f = 0 => v = 100 * s[l]
      /\ f # 0 => l + 1 \in 1..n /\ v <= 100 * s[l + 1]
  BY LineBounds
<1> HIDE DEF n
<1>3. 1..l \subseteq below
  <2> SUFFICES ASSUME NEW i \in 1..l PROVE i \in below
    OBVIOUS
  <2>1. i \in 1..n /\ i <= l
    BY <1>0, <1>1
  <2>2. s[i] \in Nat /\ s[l] \in Nat /\ s[i] <= s[l]
    BY <1>1, <2>1, SortedAt DEF n
  <2> QED
    BY <1>2, <2>1, <2>2
<1>4. (IF f = 0 THEN l ELSE l + 1)..n \subseteq above
  <2> DEFINE k == IF f = 0 THEN l ELSE l + 1
  <2>1. k \in 1..n /\ v <= 100 * s[k]
    BY <1>0, <1>1, <1>2
  <2> HIDE DEF k
  <2> SUFFICES ASSUME NEW i \in k..n PROVE i \in above
    BY DEF k
  <2>2. i \in 1..n /\ k <= i
    BY <1>0, <2>1
  <2>3. s[i] \in Nat /\ s[k] \in Nat /\ s[k] <= s[i]
    BY <2>1, <2>2, SortedAt DEF n
  <2> QED
    BY <1>2, <2>1, <2>2, <2>3
<1>5. AtMost(s, <<v, 100>>) = Cardinality(below) /\ AtLeast(s, <<v, 100>>) = Cardinality(above)
  <2>1. below = {i \in DOMAIN s : Leq(<<s[i], 1>>, <<v, 100>>)}
    <3>1. \A i \in 1..n : Leq(<<s[i], 1>>, <<v, 100>>) <=> s[i] * 100 <= v
      BY <1>2 DEF Leq
    <3> QED
      BY <1>0, <3>1
  <2>2. above = {i \in DOMAIN s : Leq(<<v, 100>>, <<s[i], 1>>)}
    <3>1. \A i \in 1..n : Leq(<<v, 100>>, <<s[i], 1>>) <=> v <= s[i] * 100
      BY <1>2 DEF Leq
    <3> QED
      BY <1>0, <3>1
  <2> QED
    BY <2>1, <2>2 DEF AtMost, AtLeast
<1>6. below \in SUBSET (1..n) /\ above \in SUBSET (1..n)
  OBVIOUS
<1> HIDE DEF below, above, rank
<1>7. Cardinality(below) \in Nat /\ Cardinality(below) >= l
  <2>1. l \in Nat /\ 1 \in Nat /\ 1 <= l + 1
    BY <1>0, <1>1
  <2>2. Cardinality(below) \in Nat /\ Cardinality(below) >= l - 1 + 1
    BY <1>0, <1>3, <1>6, <2>1, Holds
  <2> QED
    BY <2>1, <2>2
<1>8. /\ Cardinality(above) \in Nat
      /\ Cardinality(above) >= n - (IF f = 0 THEN l ELSE l + 1) + 1
  <2> DEFINE k == IF f = 0 THEN l ELSE l + 1
  <2>1. k \in Nat /\ k <= n + 1
    BY <1>0, <1>1, <1>2
  <2> HIDE DEF k
  <2>2. Cardinality(above) \in Nat /\ Cardinality(above) >= n - k + 1
    BY <1>0, <1>4, <1>6, <2>1, Holds DEF k
  <2> QED
    BY <2>2 DEF k
<1>9. (100 - p) * (n - 1) = 100 * (n - 1) - rank
  <2>1. \A m \in Int : (100 - p) * m = 100 * m - p * m
    OBVIOUS
  <2> QED
    BY <1>0, <2>1 DEF rank
<1>10. Cardinality(below) * 100 >= rank /\ Cardinality(above) * 100 >= 100 * (n - 1) - rank
  <2> DEFINE c == Cardinality(below)
             d == Cardinality(above)
  <2>1. c \in Nat /\ c >= l /\ d \in Nat /\ d >= n - (IF f = 0 THEN l ELSE l + 1) + 1
    BY <1>7, <1>8
  <2> HIDE DEF c, d
  <2>2. c * 100 >= rank
    BY <1>0, <1>1, <2>1
  <2>3. d * 100 >= 100 * (n - 1) - rank
    BY <1>0, <1>1, <2>1
  <2> QED
    BY <2>2, <2>3 DEF c, d
<1> QED
  BY <1>5, <1>9, <1>10 DEF Divides, rank, n

\* With an even number of samples, the median is half way between two of them.
LEMMA LineMedian ==
    ASSUME NEW s \in Seq(Nat), NEW l, NEW f, NEW v, Line(s, 50, l, f, v), Len(s) % 2 = 0,
           NEW h, h = Len(s) \div 2
    PROVE  v = 50 * (s[h] + s[h + 1])
<1>1. /\ l \in 1..Len(s) /\ f \in 0..99 /\ 50 * (Len(s) - 1) = 100 * (l - 1) + f
      /\ f # 0 => l < Len(s) /\ v = s[l] * (100 - f) + s[l + 1] * f
  BY DEF Line
<1>2. Len(s) \in Nat /\ Len(s) = 2 * h /\ h \in Nat
  <2>1. \A n \in Nat : n % 2 = 0 => n = 2 * (n \div 2) /\ n \div 2 \in Nat
    OBVIOUS
  <2> QED
    BY <2>1
<1>3. l = h /\ f = 50
  <2>1. l \in Nat
    BY <1>1, <1>2
  <2>2. 50 * (Len(s) - 1) = 100 * h - 50
    BY <1>2
  <2>3. 100 * h = 100 * l + (f - 50)
    <3>1. 100 * h - 50 = 100 * (l - 1) + f
      BY <1>1, <2>2
    <3>2. f \in Nat /\ h \in Nat /\ l \in Nat
      BY <1>1, <1>2, <2>1
    <3> QED
      BY ONLY <3>1, <3>2
  <2>4. f - 50 \in Int /\ -100 < f - 50 /\ f - 50 < 100
    BY <1>1
  <2>5. h <= l /\ l <= h
    BY <1>2, <2>1, <2>3, <2>4
  <2>6. h = l
    BY <1>2, <2>1, <2>5
  <2> QED
    BY <1>1, <2>1, <2>3, <2>6
<1>4. h < Len(s) /\ v = s[h] * 50 + s[h + 1] * 50
  BY <1>1, <1>3
<1>5. s[h] \in Nat /\ s[h + 1] \in Nat
  BY <1>1, <1>2, <1>3, <1>4
<1> QED
  BY <1>4, <1>5

Fits(samples) ==
    LET n == Len(samples)
        P(p) == Percentile(samples, p)
    IN  /\ Leq(<<samples[1], 1>>, P(50)) /\ Leq(P(50), P(90))
        /\ Leq(P(90), P(95)) /\ Leq(P(95), <<samples[n], 1>>)
        /\ \A p \in {50, 90, 95} :
               /\ AtMost(samples, P(p)) * 100 >= p * (n - 1)
               /\ AtLeast(samples, P(p)) * 100 >= (100 - p) * (n - 1)
        /\ n % 2 = 0 =>
               Leq(P(50), <<samples[n \div 2] + samples[n \div 2 + 1], 2>>)
               /\ Leq(<<samples[n \div 2] + samples[n \div 2 + 1], 2>>, P(50))

\* Whatever sorted samples they are computed from, the percentiles fit.
LEMMA PercentilesOf ==
    ASSUME NEW s \in Seq(Nat), s # <<>>, Sorted(s) PROVE Fits(s)
<1>0. 50 \in 0..100 /\ 90 \in 50..100 /\ 95 \in 90..100 /\ 90 \in 0..100 /\ 95 \in 0..100
  OBVIOUS
<1>1. PICK l1, f1, v1 : Line(s, 50, l1, f1, v1) /\ Percentile(s, 50) = <<v1, 100>>
  BY <1>0, PercentileLine
<1>2. PICK l2, f2, v2 : Line(s, 90, l2, f2, v2) /\ Percentile(s, 90) = <<v2, 100>>
  BY <1>0, PercentileLine
<1>3. PICK l3, f3, v3 : Line(s, 95, l3, f3, v3) /\ Percentile(s, 95) = <<v3, 100>>
  BY <1>0, PercentileLine
<1>4. s[1] * 100 <= v1
  BY ONLY <1>0, <1>1, Sorted(s), s \in Seq(Nat), LineExtremes
<1>5. v3 <= s[Len(s)] * 100
  BY ONLY <1>0, <1>3, Sorted(s), s \in Seq(Nat), LineExtremes
<1>6. v1 <= v2
  BY ONLY <1>0, <1>1, <1>2, Sorted(s), s \in Seq(Nat), LineOrder
<1>7. v2 <= v3
  BY ONLY <1>0, <1>2, <1>3, Sorted(s), s \in Seq(Nat), LineOrder
<1>8. v1 \in Nat /\ v2 \in Nat /\ v3 \in Nat
  <2>1. v1 \in Nat
    BY ONLY <1>0, <1>1, Sorted(s), s \in Seq(Nat), LineBounds
  <2>2. v2 \in Nat
    BY ONLY <1>0, <1>2, Sorted(s), s \in Seq(Nat), LineBounds
  <2>3. v3 \in Nat
    BY ONLY <1>0, <1>3, Sorted(s), s \in Seq(Nat), LineBounds
  <2> QED
    BY <2>1, <2>2, <2>3
<1>9. Divides(s, 50, <<v1, 100>>)
  BY ONLY <1>0, <1>1, Sorted(s), s \in Seq(Nat), LineDivides
<1>10. Divides(s, 90, <<v2, 100>>)
  BY ONLY <1>0, <1>2, Sorted(s), s \in Seq(Nat), LineDivides
<1>11. Divides(s, 95, <<v3, 100>>)
  BY ONLY <1>0, <1>3, Sorted(s), s \in Seq(Nat), LineDivides
<1>12. /\ Leq(<<s[1], 1>>, Percentile(s, 50)) /\ Leq(Percentile(s, 50), Percentile(s, 90))
       /\ Leq(Percentile(s, 90), Percentile(s, 95)) /\ Leq(Percentile(s, 95), <<s[Len(s)], 1>>)
  <2>1. Leq(<<s[1], 1>>, Percentile(s, 50))
    BY <1>1, <1>4, <1>8 DEF Leq
  <2>2. Leq(Percentile(s, 50), Percentile(s, 90))
    BY <1>1, <1>2, <1>6, <1>8 DEF Leq
  <2>3. Leq(Percentile(s, 90), Percentile(s, 95))
    BY <1>2, <1>3, <1>7, <1>8 DEF Leq
  <2>4. Leq(Percentile(s, 95), <<s[Len(s)], 1>>)
    BY <1>3, <1>5, <1>8 DEF Leq
  <2> QED
    BY <2>1, <2>2, <2>3, <2>4
<1>13. \A p \in {50, 90, 95} : Divides(s, p, Percentile(s, p))
  BY <1>1, <1>2, <1>3, <1>9, <1>10, <1>11
<1>14. ASSUME Len(s) % 2 = 0
       PROVE  LET middle == <<s[Len(s) \div 2] + s[Len(s) \div 2 + 1], 2>>
              IN  Leq(Percentile(s, 50), middle) /\ Leq(middle, Percentile(s, 50))
  <2> DEFINE h == Len(s) \div 2
             m == s[h] + s[h + 1]
  <2>1. v1 = 50 * m
    BY <1>1, <1>14, LineMedian
  <2>2. m \in Nat
    <3>1. /\ Len(s) \in Nat /\ Len(s) >= 1
      OBVIOUS
    <3>2. h \in 1..Len(s) /\ h + 1 \in 1..Len(s)
      BY <1>14, <3>1
    <3> HIDE DEF h
    <3> QED
      BY <3>2
  <2> HIDE DEF m
  <2>3. Leq(<<v1, 100>>, <<m, 2>>) /\ Leq(<<m, 2>>, <<v1, 100>>)
    BY <2>1, <2>2 DEF Leq
  <2> QED
    BY <1>1, <2>3 DEF m
<1> QED
  BY <1>12, <1>13, <1>14 DEF Fits, Divides
-----------------------------------------------------------------------------
(* Means. *)

\* Rounding is off by half a percent at most.
LEMMA RoundingError ==
    ASSUME NEW num \in Nat, NEW den \in Nat \ {0}
    PROVE  \E r, s \in Nat :
               /\ RoundSig(num, den) = <<r, s>>
               /\ 200 * (r * den - num * s) \in -(num * s)..(num * s)
<1>1. CASE num = 0
  <2>1. RoundSig(num, den) = <<0, 1>>
    BY <1>1 DEF RoundSig
  <2>2. 200 * (0 * den - num * 1) \in -(num * 1)..(num * 1)
    BY <1>1
  <2> QED
    BY <2>1, <2>2
<1>2. CASE num # 0
  <2>1. num \in Nat \ {0}
    BY <1>2
  <2>2. PICK d, s, r : Rounds(num, den, d, s, r) /\ RoundSig(num, den) = <<r, s>>
    BY <2>1, Rounded
  <2>3. /\ s \in Nat /\ r \in Nat /\ 100 * den <= num * s
        /\ 2 * (den * r) <= 2 * (num * s) + den
        /\ 2 * (num * s) + den < 2 * (den * r) + 2 * den
    BY <2>2 DEF Rounds
  <2> DEFINE a == den * r
             b == num * s
  <2>4. a \in Nat /\ b \in Nat /\ r * den = a
    BY <2>3
  <2> HIDE DEF a, b
  <2>5. /\ 100 * den <= b /\ 2 * a <= 2 * b + den /\ 2 * b + den < 2 * a + 2 * den
    BY <2>3 DEF a, b
  <2>6. 200 * (a - b) \in -b..b
    BY <2>4, <2>5
  <2> QED
    BY <2>2, <2>3, <2>4, <2>6 DEF b
<1> QED
  BY <1>1, <1>2

\* And it does not pass a whole number.
LEMMA RoundingBounds ==
    ASSUME NEW num \in Nat, NEW den \in Nat \ {0}, NEW low \in Nat, NEW high \in Nat,
           den * low <= num, num <= den * high
    PROVE  Leq(<<low, 1>>, RoundSig(num, den)) /\ Leq(RoundSig(num, den), <<high, 1>>)
<1>1. CASE num = 0
  <2>1. RoundSig(num, den) = <<0, 1>>
    BY <1>1 DEF RoundSig
  <2>2. low = 0
    <3>1. \A n \in Nat : den * n <= 0 => n = 0
      OBVIOUS
    <3> QED
      BY <1>1, <3>1
  <2> QED
    BY <2>1, <2>2 DEF Leq
<1>2. CASE num # 0
  <2>1. num \in Nat \ {0}
    BY <1>2
  <2>2. PICK d, s, r : Rounds(num, den, d, s, r) /\ RoundSig(num, den) = <<r, s>>
    BY <2>1, Rounded
  <2>3. /\ s \in Nat /\ r \in Nat
        /\ 2 * (den * r) <= 2 * (num * s) + den
        /\ 2 * (num * s) + den < 2 * (den * r) + 2 * den
    BY <2>2 DEF Rounds
  <2> DEFINE l == low * s
             h == high * s
             a == den * r
             b == num * s
  <2>4. l \in Nat /\ h \in Nat /\ a \in Nat /\ b \in Nat
    BY <2>3
  <2>5. den * l <= b
    <3>1. \A x, y, z \in Nat : x <= y => x * z <= y * z
      OBVIOUS
    <3>2. (den * low) * s <= num * s
      BY <2>3, <3>1
    <3>3. (den * low) * s = den * (low * s)
      BY <2>3
    <3> QED
      BY <3>2, <3>3
  <2>6. b <= den * h
    <3>1. \A x, y, z \in Nat : x <= y => x * z <= y * z
      OBVIOUS
    <3>2. num * s <= (den * high) * s
      BY <2>3, <3>1
    <3>3. (den * high) * s = den * (high * s)
      BY <2>3
    <3> QED
      BY <3>2, <3>3
  <2>7. 2 * a <= 2 * b + den /\ 2 * b + den < 2 * a + 2 * den
    BY <2>3
  <2>8. a = den * r
    OBVIOUS
  <2> HIDE DEF l, h, a, b
  <2>9. \A x, y \in Nat : x < y => den * x + den <= den * y
    <3>1. \A x, e \in Nat : den * (x + 1 + e) = den * x + den + den * e /\ den * e \in Nat
      OBVIOUS
    <3>2. \A x, y \in Nat : x < y => y - x - 1 \in Nat /\ y = x + 1 + (y - x - 1)
      OBVIOUS
    <3>3. \A x \in Nat : den * x \in Nat
      OBVIOUS
    <3> SUFFICES ASSUME NEW x \in Nat, NEW y \in Nat, x < y PROVE den * x + den <= den * y
      OBVIOUS
    <3> DEFINE e == y - x - 1
    <3>4. e \in Nat /\ y = x + 1 + e
      BY <3>2
    <3> HIDE DEF e
    <3> QED
      BY <3>1, <3>3, <3>4
  <2>10. l <= r
    <3> SUFFICES ASSUME r < l PROVE FALSE
      BY <2>3, <2>4
    <3>1. a + den <= den * l
      BY <2>3, <2>4, <2>8, <2>9
    <3>2. den * l \in Nat
      BY <2>4
    <3> QED
      BY <2>4, <2>5, <2>7, <3>1, <3>2
  <2>11. r <= h
    <3> SUFFICES ASSUME h < r PROVE FALSE
      BY <2>3, <2>4
    <3>1. den * h + den <= a
      BY <2>3, <2>4, <2>8, <2>9
    <3>2. den * h \in Nat
      BY <2>4
    <3> QED
      BY <2>4, <2>6, <2>7, <3>1, <3>2
  <2>12. Leq(<<low, 1>>, <<r, s>>) <=> l <= r
    BY <2>3 DEF Leq, l
  <2>13. Leq(<<r, s>>, <<high, 1>>) <=> r <= h
    BY <2>3 DEF Leq, h
  <2> QED
    BY <2>2, <2>10, <2>11, <2>12, <2>13
<1> QED
  BY <1>1, <1>2

MeanFits(samples) ==
    /\ \A unit \in Units :
           LET mean == Mean(samples, unit)
               exact == ExactMean(samples, unit)
               error == mean[1] * exact[2] - exact[1] * mean[2]
           IN  200 * error \in -(exact[1] * mean[2])..(exact[1] * mean[2])
    /\ Leq(<<samples[1], 1>>, Mean(samples, 1))
    /\ Leq(Mean(samples, 1), <<samples[Len(samples)], 1>>)

LEMMA SumNat == ASSUME NEW s \in Seq(Nat), s # <<>>, Sorted(s)
                PROVE  /\ Sum(s) \in Nat /\ Len(s) \in Nat \ {0}
                       /\ s[1] \in Nat /\ s[Len(s)] \in Nat
                       /\ Len(s) * s[1] <= Sum(s) /\ Sum(s) <= Len(s) * s[Len(s)]
<1>1. Len(s) \in Nat \ {0} /\ 1 \in 1..Len(s) /\ Len(s) \in 1..Len(s)
  OBVIOUS
<1> DEFINE low == s[1]
           high == s[Len(s)]
<1>2. low \in Nat /\ high \in Nat
  BY <1>1
<1>3. \A i \in 1..Len(s) : low <= s[i] /\ s[i] <= high
  BY <1>1, SortedAt
<1> HIDE DEF low, high
<1>4. Sum(s) \in Nat /\ Len(s) * low <= Sum(s) /\ Sum(s) <= Len(s) * high
  BY <1>2, <1>3, SumBounds
<1> QED
  BY <1>1, <1>2, <1>4 DEF low, high

LEMMA MeanOf ==
    ASSUME NEW s \in Seq(Nat), s # <<>>, Sorted(s) PROVE MeanFits(s)
<1> DEFINE n == Len(s)
           sum == Sum(s)
<1>1. /\ sum \in Nat /\ n \in Nat \ {0} /\ s[1] \in Nat /\ s[n] \in Nat
      /\ n * s[1] <= sum /\ sum <= n * s[n]
  BY SumNat
<1> HIDE DEF n, sum
<1>2. ASSUME NEW unit \in Units
      PROVE  LET mean == Mean(s, unit)
                 exact == ExactMean(s, unit)
                 error == mean[1] * exact[2] - exact[1] * mean[2]
             IN  200 * error \in -(exact[1] * mean[2])..(exact[1] * mean[2])
  <2> DEFINE den == n * unit
  <2>1. den \in Nat \ {0}
    BY <1>1 DEF Units
  <2>2. Mean(s, unit) = RoundSig(sum, den) /\ ExactMean(s, unit) = <<sum, den>>
    BY DEF Mean, ExactMean, n, sum
  <2> HIDE DEF den
  <2>3. PICK r, p \in Nat : /\ RoundSig(sum, den) = <<r, p>>
                            /\ 200 * (r * den - sum * p) \in -(sum * p)..(sum * p)
    BY <1>1, <2>1, RoundingError
  <2>4. Mean(s, unit) = <<r, p>>
    BY <2>2, <2>3
  <2> QED
    BY <2>2, <2>3, <2>4
<1>3. Leq(<<s[1], 1>>, Mean(s, 1)) /\ Leq(Mean(s, 1), <<s[n], 1>>)
  <2>1. Mean(s, 1) = RoundSig(sum, n)
    <3>1. n * 1 = n
      BY <1>1
    <3> QED
      BY <3>1 DEF Mean, n, sum
  <2> QED
    BY <1>1, <2>1, RoundingBounds
<1> QED
  BY <1>2, <1>3 DEF MeanFits, n
-----------------------------------------------------------------------------
(* Differences. *)

\* What roundSig shows of num/den.
Shows(num, den, m) ==
    \/ num = 0 /\ m = <<0, 1>>
    \/ num # 0 /\ \E d, s, r : Rounds(num, den, d, s, r) /\ m = <<r, s>>

LEMMA RoundShows ==
    ASSUME NEW num \in Nat, NEW den \in Nat \ {0} PROVE Shows(num, den, RoundSig(num, den))
<1>1. CASE num = 0
  BY <1>1 DEF Shows, RoundSig
<1>2. CASE num # 0
  <2>1. num \in Nat \ {0}
    BY <1>2
  <2> QED
    BY <1>2, <2>1, Rounded DEF Shows
<1> QED
  BY <1>1, <1>2

\* Nothing changes when num/den is expanded.
LEMMA ShowsExpanded ==
    ASSUME NEW num \in Nat, NEW den \in Nat \ {0}, NEW k \in Nat \ {0}, NEW m, Shows(num, den, m)
    PROVE  Shows(num * k, den * k, m)
<1>1. CASE num = 0
  <2>1. num * k = 0
    BY <1>1
  <2> QED
    BY <1>1, <2>1 DEF Shows
<1>2. CASE num # 0
  <2>1. PICK d, s, r : Rounds(num, den, d, s, r) /\ m = <<r, s>>
    BY <1>2 DEF Shows
  <2>2. num * k # 0
    BY <1>2
  <2>3. /\ d \in Nat /\ d >= 2 /\ s = PowerOf10[d] /\ s \in Nat /\ s >= 100 /\ r \in Nat
        /\ 100 * den <= num * s
        /\ d > 2 => num * s < 1000 * den
        /\ 2 * (den * r) <= 2 * (num * s) + den
        /\ 2 * (num * s) + den < 2 * (den * r) + 2 * den
    BY <2>1 DEF Rounds
  <2> DEFINE a == den * r
             b == num * s
  <2>4. a \in Nat /\ b \in Nat
    BY <2>3
  <2>5. (num * k) * s = b * k /\ (den * k) * r = a * k
    BY <2>3
  <2>6. /\ 100 * den <= b /\ (d > 2 => b < 1000 * den)
        /\ 2 * a <= 2 * b + den /\ 2 * b + den < 2 * a + 2 * den
    BY <2>3
  <2> HIDE DEF a, b
  <2>7. /\ \A x, y \in Nat : x <= y => x * k <= y * k
        /\ \A x, y \in Nat : x < y => x * k < y * k
    OBVIOUS
  <2>8. /\ (100 * den) * k <= b * k
        /\ d > 2 => b * k < (1000 * den) * k
        /\ (2 * a) * k <= (2 * b + den) * k
        /\ (2 * b + den) * k < (2 * a + 2 * den) * k
    BY <2>4, <2>6, <2>7
  <2>9. /\ (100 * den) * k = 100 * (den * k) /\ (1000 * den) * k = 1000 * (den * k)
        /\ (2 * a) * k = 2 * (a * k) /\ (2 * b + den) * k = 2 * (b * k) + den * k
        /\ (2 * a + 2 * den) * k = 2 * (a * k) + 2 * (den * k)
    BY <2>4
  <2>10. Rounds(num * k, den * k, d, s, r)
    BY <2>3, <2>5, <2>8, <2>9 DEF Rounds
  <2> QED
    BY <2>1, <2>2, <2>10 DEF Shows
<1> QED
  BY <1>1, <1>2

\* A numerator with three digits, unless the value is large.
LEMMA ThreeDigits ==
    ASSUME NEW num \in Nat, NEW den \in Nat \ {0}, NEW d, NEW s, NEW r, Rounds(num, den, d, s, r)
    PROVE  r \in Nat /\ r >= 100 /\ (d > 2 => r <= 1000)
<1>1. /\ s \in Nat /\ r \in Nat
      /\ 100 * den <= num * s
      /\ d > 2 => num * s < 1000 * den
      /\ 2 * (den * r) <= 2 * (num * s) + den
      /\ 2 * (num * s) + den < 2 * (den * r) + 2 * den
  BY DEF Rounds
<1> DEFINE b == num * s
<1>2. b \in Nat
  BY <1>1
<1>3. \A x, y \in Nat : x <= y => den * x <= den * y
  OBVIOUS
<1>4. r >= 100
  <2> SUFFICES ASSUME r <= 99 PROVE FALSE
    BY <1>1
  <2>1. den * r <= den * 99 /\ den * r \in Nat
    BY <1>1, <1>3
  <2> HIDE DEF b
  <2>2. 100 * den <= b /\ 2 * b + den < 2 * (den * r) + 2 * den
    BY <1>1 DEF b
  <2> QED
    BY <1>2, <2>1, <2>2
<1>5. ASSUME d > 2 PROVE r <= 1000
  <2> SUFFICES ASSUME r >= 1001 PROVE FALSE
    BY <1>1
  <2>1. den * 1001 <= den * r /\ den * r \in Nat
    BY <1>1, <1>3
  <2> HIDE DEF b
  <2>2. b < 1000 * den /\ 2 * (den * r) <= 2 * b + den
    BY <1>1, <1>5 DEF b
  <2> QED
    BY <1>2, <2>1, <2>2
<1> QED
  BY <1>1, <1>4, <1>5

\* Two values with the same digits keep their order.
LEMMA SameDigits ==
    ASSUME NEW X \in Nat, NEW Y \in Nat, NEW D \in Nat \ {0}, X <= Y,
           NEW d, NEW s, NEW b, NEW c, Rounds(X, D, d, s, b), Rounds(Y, D, d, s, c)
    PROVE  b <= c /\ (101 * X < 100 * Y => b < c)
<1>1. /\ s \in Nat /\ s >= 100 /\ b \in Nat /\ 100 * D <= X * s
      /\ 2 * (D * b) <= 2 * (X * s) + D
  BY DEF Rounds
<1>2. c \in Nat /\ 2 * (Y * s) + D < 2 * (D * c) + 2 * D
  BY DEF Rounds
<1> DEFINE x == X * s
           y == Y * s
           e == D * b
           f == D * c
<1>3. x \in Nat /\ y \in Nat /\ e \in Nat /\ f \in Nat
  BY <1>1, <1>2
<1>4. x <= y
  <2>1. \A m, n, k \in Nat : m <= n => m * k <= n * k
    OBVIOUS
  <2> QED
    BY <1>1, <2>1
<1>5. \A m, n \in Nat : m <= n => D * m <= D * n
  OBVIOUS
<1>6. 100 * D <= x /\ 2 * e <= 2 * x + D /\ 2 * y + D < 2 * f + 2 * D
  BY <1>1, <1>2
<1>7. b <= c
  <2> SUFFICES ASSUME c + 1 <= b PROVE FALSE
    BY <1>1, <1>2
  <2>1. D * (c + 1) <= e
    BY <1>1, <1>2, <1>5
  <2>2. D * (c + 1) = f + D
    BY <1>2
  <2> HIDE DEF x, y, e, f
  <2> QED
    BY <1>3, <1>4, <1>6, <2>1, <2>2
<1>8. ASSUME 101 * X < 100 * Y PROVE b < c
  <2> SUFFICES ASSUME c <= b PROVE FALSE
    BY <1>1, <1>2
  <2>1. f <= e
    BY <1>1, <1>2, <1>5
  <2>2. 101 * x < 100 * y
    <3>1. \A m, n \in Nat, k \in Nat \ {0} : m < n => m * k < n * k
      OBVIOUS
    <3>2. (101 * X) * s < (100 * Y) * s
      <4>1. 101 * X \in Nat /\ 100 * Y \in Nat /\ s \in Nat \ {0}
        BY <1>1
      <4> QED
        BY <1>8, <3>1, <4>1
    <3>3. (101 * X) * s = 101 * x /\ (100 * Y) * s = 100 * y
      BY <1>1
    <3> QED
      BY <3>2, <3>3
  <2> HIDE DEF x, y, e, f
  <2> QED
    BY <1>3, <1>6, <2>1, <2>2
<1> QED
  BY <1>7, <1>8

\* The smaller of two values never has fewer digits.
LEMMA FewerDigits ==
    ASSUME NEW X \in Nat, NEW Y \in Nat, NEW D \in Nat \ {0}, X <= Y,
           NEW d, NEW s, NEW b, NEW e, NEW t, NEW c, Rounds(X, D, d, s, b), Rounds(Y, D, e, t, c)
    PROVE  /\ d \in Nat /\ e \in Nat /\ e <= d
           /\ e # d => d > 2 /\ \E k \in Nat : (k = 10 \/ k >= 100) /\ s = k * t
<1>1. d \in Nat /\ d >= 2 /\ s = PowerOf10[d] /\ s \in Nat /\ 100 * D <= X * s
  BY DEF Rounds
<1>2. e \in Nat /\ e >= 2 /\ t = PowerOf10[e] /\ t \in Nat /\ (e > 2 => Y * t < 1000 * D)
  BY DEF Rounds
<1>3. ASSUME NEW i \in Nat, NEW j \in Nat, i < j
      PROVE  \E k \in Nat : (k = 10 \/ k >= 100) /\ PowerOf10[j] = k * PowerOf10[i]
  <2>1. j - i \in Nat \ {0} /\ j - i \in Nat /\ (j - i) + i = j
    BY <1>3
  <2>2. /\ PowerOf10[j - i] \in Nat
        /\ PowerOf10[j - i] = 10 \/ PowerOf10[j - i] >= 100
    BY <2>1, PowerGrows
  <2>3. PowerOf10[(j - i) + i] = PowerOf10[j - i] * PowerOf10[i]
    BY <2>1, PowerSum
  <2> QED
    BY <2>1, <2>2, <2>3
<1>4. e <= d
  <2> SUFFICES ASSUME d < e PROVE FALSE
    BY <1>1, <1>2
  <2>1. PICK k \in Nat : (k = 10 \/ k >= 100) /\ t = k * s
    BY <1>1, <1>2, <1>3
  <2> DEFINE x == X * s
             y == Y * s
  <2>2. x \in Nat /\ y \in Nat /\ 100 * D <= x
    BY <1>1
  <2>3. x <= y
    <3>1. \A m, n, l \in Nat : m <= n => m * l <= n * l
      OBVIOUS
    <3> QED
      BY <1>1, <3>1
  <2>4. Y * t = k * y
    BY <1>1, <2>1
  <2>5. Y * t < 1000 * D
    BY <1>1, <1>2
  <2> HIDE DEF x, y
  <2>6. 10 * y <= k * y
    <3>1. \A m, n, l \in Nat : m <= n => m * l <= n * l
      OBVIOUS
    <3> QED
      BY <2>1, <2>2, <3>1
  <2> QED
    BY <2>2, <2>3, <2>4, <2>5, <2>6
<1>5. ASSUME e # d PROVE d > 2 /\ \E k \in Nat : (k = 10 \/ k >= 100) /\ s = k * t
  <2>1. e < d /\ d > 2
    BY <1>1, <1>2, <1>4, <1>5
  <2> QED
    BY <1>1, <1>2, <1>3, <2>1
<1> QED
  BY <1>1, <1>2, <1>4, <1>5

\* The larger value still comes out larger when it has fewer digits.
LEMMA OtherDigits ==
    ASSUME NEW X \in Nat, NEW Y \in Nat, NEW D \in Nat \ {0},
           NEW d, NEW s, NEW b, NEW e, NEW t, NEW c, Rounds(X, D, d, s, b), Rounds(Y, D, e, t, c),
           d > 2, NEW k \in Nat, k = 10 \/ k >= 100, s = k * t
    PROVE  b <= c * k /\ (101 * X < 100 * Y => b < c * k)
<1>1. b \in Nat /\ b <= 1000 /\ c \in Nat /\ c >= 100
  BY ThreeDigits
<1>2. ASSUME NEW l \in Nat, NEW m \in Nat, l <= c, m <= k PROVE l * m <= c * k
  <2>1. \A x, y, z \in Nat : x <= y => x * z <= y * z /\ z * x <= z * y
    OBVIOUS
  <2>2. l * m <= c * m /\ c * m <= c * k
    BY <1>1, <1>2, <2>1
  <2>3. l * m \in Nat /\ c * m \in Nat /\ c * k \in Nat
    BY <1>1
  <2> QED
    BY <2>2, <2>3
<1>3. 1000 <= c * k /\ c * k \in Nat
  <2>1. 100 * 10 <= c * k
    BY <1>1, <1>2
  <2> QED
    BY <1>1, <2>1
<1>4. ASSUME 101 * X < 100 * Y PROVE b < c * k
  <2>1. CASE k >= 100
    <3>1. 100 * 100 <= c * k
      BY <1>1, <1>2, <2>1
    <3> QED
      BY <1>1, <1>3, <3>1
  <2>2. CASE c >= 101
    <3>1. 101 * 10 <= c * k
      BY <1>1, <1>2, <2>2
    <3> QED
      BY <1>1, <1>3, <3>1
  <2>3. CASE k = 10 /\ c = 100
    <3> SUFFICES ASSUME b >= 1000 PROVE FALSE
      BY <1>1, <1>3
    <3>1. b = 1000
      BY <1>1
    <3>2. s \in Nat /\ 2 * (D * 1000) <= 2 * (X * s) + D
      BY <3>1 DEF Rounds
    <3>3. t \in Nat /\ t >= 100 /\ 2 * (Y * t) + D < 2 * (D * 100) + 2 * D
      BY <2>3 DEF Rounds
    <3> DEFINE x == X * t
               y == Y * t
    <3>4. x \in Nat /\ y \in Nat /\ X * s = 10 * x
      BY <2>3, <3>3
    <3>5. 101 * x < 100 * y
      <4>1. \A m, n \in Nat, l \in Nat \ {0} : m < n => m * l < n * l
        OBVIOUS
      <4>2. 101 * X \in Nat /\ 100 * Y \in Nat /\ t \in Nat \ {0}
        BY <3>3
      <4>3. (101 * X) * t < (100 * Y) * t
        BY <1>4, <4>1, <4>2
      <4>4. (101 * X) * t = 101 * x /\ (100 * Y) * t = 100 * y
        BY <3>3
      <4> QED
        BY <4>3, <4>4
    <3>6. 2000 * D <= 20 * x + D
      BY <3>2, <3>4
    <3>7. 2 * y + D < 202 * D
      BY <3>3
    <3> HIDE DEF x, y
    <3> QED
      BY <3>4, <3>5, <3>6, <3>7
  <2> QED
    BY <1>1, <2>1, <2>2, <2>3
<1> QED
  BY <1>1, <1>3, <1>4
\* The larger of two scales, and the numerator of m above it.
Larger(x, y) == IF x > y THEN x ELSE y

Over(m, scale) == m[1] * (scale \div m[2])

LEMMA Quotient ==
    ASSUME NEW k \in Nat, NEW s \in Nat \ {0} PROVE (k * s) \div s = k
<1> DEFINE q == (k * s) \div s
<1>1. k * s \in Nat
  OBVIOUS
<1>2. q \in Nat /\ s * q <= k * s /\ k * s < s * q + s
  <2> DEFINE a == k * s
  <2>1. a \in Nat /\ q = a \div s
    BY <1>1
  <2> HIDE DEF a, q
  <2>2. q \in Nat /\ s * q <= a /\ a < s * q + s
    BY <2>1, Division
  <2> QED
    BY <2>2 DEF a
<1> HIDE DEF q
<1>3. \A x, y \in Nat : x < y => s * x + s <= y * s
  <2>1. \A x, e \in Nat : (x + 1 + e) * s = s * x + s + e * s /\ e * s \in Nat /\ s * x \in Nat
    OBVIOUS
  <2> SUFFICES ASSUME NEW x \in Nat, NEW y \in Nat, x < y PROVE s * x + s <= y * s
    OBVIOUS
  <2> DEFINE e == y - x - 1
  <2>2. e \in Nat /\ y = x + 1 + e
    OBVIOUS
  <2> HIDE DEF e
  <2> QED
    BY <2>1, <2>2
<1>4. ~(q < k)
  <2> SUFFICES ASSUME q < k PROVE FALSE
    OBVIOUS
  <2>1. s * q + s <= k * s /\ s * q \in Nat
    BY <1>2, <1>3
  <2> QED
    BY <1>1, <1>2, <2>1
<1>5. ~(k < q)
  <2> SUFFICES ASSUME k < q PROVE FALSE
    OBVIOUS
  <2>1. s * k + s <= q * s /\ q * s = s * q /\ s * k = k * s
    BY <1>2, <1>3
  <2>2. s * q \in Nat
    BY <1>2
  <2> QED
    BY <1>1, <1>2, <2>1, <2>2
<1> QED
  BY <1>2, <1>4, <1>5 DEF q

\* Values that are shown one above the other are in that order, and stand apart
\* when they are more than a percent apart.
Ordering(X, Y, x, y) ==
    LET scale == Larger(x[2], y[2])
    IN  /\ Over(x, scale) \in Nat /\ Over(y, scale) \in Nat
        /\ Over(x, scale) <= Over(y, scale)
        /\ 101 * X < 100 * Y => Over(x, scale) < Over(y, scale)

LEMMA ShownInOrder ==
    ASSUME NEW X \in Nat, NEW Y \in Nat, NEW D \in Nat \ {0}, X <= Y,
           NEW x, NEW y, Shows(X, D, x), Shows(Y, D, y)
    PROVE  Ordering(X, Y, x, y)
<1>1. CASE X = 0 /\ Y = 0
  <2>1. x = <<0, 1>> /\ y = <<0, 1>>
    BY <1>1 DEF Shows
  <2>2. Larger(x[2], y[2]) = 1
    BY <2>1 DEF Larger
  <2>3. Over(x, 1) = 0 /\ Over(y, 1) = 0
    BY <2>1 DEF Over
  <2> QED
    BY <1>1, <2>2, <2>3 DEF Ordering
<1>2. CASE X = 0 /\ Y # 0
  <2>1. x = <<0, 1>>
    BY <1>2 DEF Shows
  <2>2. PICK e, t, c : Rounds(Y, D, e, t, c) /\ y = <<c, t>>
    BY <1>2 DEF Shows
  <2>3. t \in Nat /\ t >= 100 /\ c \in Nat /\ c >= 100
    BY <2>2, ThreeDigits DEF Rounds
  <2>4. Larger(x[2], y[2]) = t
    BY <2>1, <2>2, <2>3 DEF Larger
  <2>5. t \div t = 1 /\ t \div 1 = t
    <3>1. (1 * t) \div t = 1 /\ (t * 1) \div 1 = t
      BY <2>3, Quotient
    <3>2. 1 * t = t /\ t * 1 = t
      BY <2>3
    <3> QED
      BY <3>1, <3>2
  <2>6. Over(x, t) = 0 /\ Over(y, t) = c
    BY <2>1, <2>2, <2>3, <2>5 DEF Over
  <2> QED
    BY <2>3, <2>4, <2>6 DEF Ordering
<1>3. CASE X # 0
  <2>0. Y # 0
    BY <1>3
  <2>1. PICK d, s, b : Rounds(X, D, d, s, b) /\ x = <<b, s>>
    BY <1>3 DEF Shows
  <2>2. PICK e, t, c : Rounds(Y, D, e, t, c) /\ y = <<c, t>>
    BY <2>0 DEF Shows
  <2>3. s \in Nat \ {0} /\ b \in Nat /\ s = PowerOf10[d]
    BY <2>1 DEF Rounds
  <2>4. t \in Nat \ {0} /\ c \in Nat /\ t = PowerOf10[e]
    BY <2>2 DEF Rounds
  <2>5. /\ e <= d /\ d \in Nat /\ e \in Nat
        /\ e # d => d > 2 /\ \E k \in Nat : (k = 10 \/ k >= 100) /\ s = k * t
    BY ONLY <2>1, <2>2, FewerDigits, X \in Nat, Y \in Nat, D \in Nat \ {0}, X <= Y
  <2>6. s \div s = 1
    <3>1. (1 * s) \div s = 1 /\ 1 * s = s
      BY <2>3, Quotient
    <3> QED
      BY <3>1
  <2>7. CASE e = d
    <3>1. s = t
      BY <2>3, <2>4, <2>7
    <3>2. Larger(x[2], y[2]) = s
      BY <2>1, <2>2, <2>3, <3>1 DEF Larger
    <3>3. Over(x, s) = b /\ Over(y, s) = c
      BY <2>1, <2>2, <2>3, <2>4, <2>6, <3>1 DEF Over
    <3>4. Rounds(Y, D, d, s, c)
      BY <2>2, <2>7, <3>1
    <3>5. b <= c /\ (101 * X < 100 * Y => b < c)
      BY ONLY <2>1, <3>4, SameDigits, X \in Nat, Y \in Nat, D \in Nat \ {0}, X <= Y
    <3> QED
      BY <2>3, <2>4, <3>2, <3>3, <3>5 DEF Ordering
  <2>8. CASE e # d
    <3>1. PICK k \in Nat : (k = 10 \/ k >= 100) /\ s = k * t
      BY <2>5, <2>8
    <3>2. s > t
      <4>1. \A m \in Nat : 10 * m <= k * m
        BY <3>1
      <4>2. 10 * t <= s
        BY <2>4, <3>1, <4>1
      <4> QED
        BY <2>3, <2>4, <4>2
    <3>3. Larger(x[2], y[2]) = s
      BY <2>1, <2>2, <3>2 DEF Larger
    <3>4. s \div t = k
      BY <2>4, <3>1, Quotient
    <3>5. Over(x, s) = b /\ Over(y, s) = c * k
      BY <2>1, <2>2, <2>3, <2>6, <3>4 DEF Over
    <3>6. c * k \in Nat
      BY <2>4
    <3>7. d > 2
      BY <2>5, <2>8
    <3>8. b <= c * k /\ (101 * X < 100 * Y => b < c * k)
      BY ONLY <2>1, <2>2, <3>1, <3>7, OtherDigits, X \in Nat, Y \in Nat, D \in Nat \ {0}
    <3> QED
      BY <2>3, <3>3, <3>5, <3>6, <3>8 DEF Ordering
  <2> QED
    BY <2>7, <2>8
<1> QED
  BY <1>1, <1>2, <1>3

Directs(base, cand, unit) ==
    LET diff == Diff(Mean(base, unit), Mean(cand, unit))
        b == ExactMean(base, unit)
        c == ExactMean(cand, unit)
    IN  /\ Leq(b, c) => diff.abs[1] >= 0 /\ diff.percent[1] >= 0
        /\ Leq(c, b) => diff.abs[1] <= 0 /\ diff.percent[1] <= 0
        /\ ~Leq(<<100 * c[1], c[2]>>, <<101 * b[1], b[2]>>) => diff.abs[1] > 0
        /\ ~Leq(<<100 * b[1], b[2]>>, <<101 * c[1], c[2]>>) => diff.abs[1] < 0

LEMMA DiffIs ==
    ASSUME NEW x, NEW y
    PROVE  LET scale == Larger(x[2], y[2])
               b == Over(x, scale)
               c == Over(y, scale)
           IN  /\ Diff(x, y).abs[1] = c - b
               /\ Diff(x, y).percent[1] = IF b = 0 THEN 0 ELSE 100 * (c - b)
<1> DEFINE scale == Larger(x[2], y[2])
           b == Over(x, scale)
           c == Over(y, scale)
<1>1. Diff(x, y) = [abs |-> <<c - b, scale>>,
                    percent |-> IF b = 0 THEN <<0, 1>> ELSE <<100 * (c - b), b>>]
  BY DEF Diff, Larger, Over
<1> HIDE DEF scale, b, c
<1>2. Diff(x, y).abs = <<c - b, scale>>
  BY <1>1
<1>3. Diff(x, y).percent = IF b = 0 THEN <<0, 1>> ELSE <<100 * (c - b), b>>
  BY <1>1
<1> QED
  BY <1>2, <1>3 DEF scale, b, c

LEMMA LargerSame ==
    ASSUME NEW x \in Nat, NEW y \in Nat PROVE Larger(x, y) = Larger(y, x)
BY DEF Larger

LEMMA ShowsScale ==
    ASSUME NEW num \in Nat, NEW den \in Nat \ {0}, NEW m, Shows(num, den, m) PROVE m[2] \in Nat
<1>1. CASE num = 0
  BY <1>1 DEF Shows
<1>2. CASE num # 0
  <2>1. PICK d, s, r : Rounds(num, den, d, s, r) /\ m = <<r, s>>
    BY <1>2 DEF Shows
  <2> QED
    BY <2>1 DEF Rounds
<1> QED
  BY <1>1, <1>2

LEMMA DiffOf ==
    ASSUME NEW base \in Seq(Nat), base # <<>>, Sorted(base),
           NEW cand \in Seq(Nat), cand # <<>>, Sorted(cand), NEW unit \in Units
    PROVE  Directs(base, cand, unit)
<1> DEFINE n == Sum(base)
           m == Sum(cand)
           p == Len(base) * unit
           q == Len(cand) * unit
           x == Mean(base, unit)
           y == Mean(cand, unit)
           X == n * q
           Y == m * p
           D == p * q
           scale == Larger(x[2], y[2])
           b == Over(x, scale)
           c == Over(y, scale)
<1>1. n \in Nat /\ m \in Nat /\ p \in Nat \ {0} /\ q \in Nat \ {0}
  <2>1. /\ n \in Nat /\ Len(base) \in Nat \ {0} /\ m \in Nat /\ Len(cand) \in Nat \ {0}
    BY SumNat
  <2> HIDE DEF n, m
  <2> QED
    BY <2>1 DEF Units
<1>2. /\ x = RoundSig(n, p) /\ y = RoundSig(m, q)
      /\ ExactMean(base, unit) = <<n, p>> /\ ExactMean(cand, unit) = <<m, q>>
  BY DEF Mean, ExactMean
<1> HIDE DEF n, m, p, q, x, y
<1>3. Shows(n, p, x) /\ Shows(m, q, y)
  BY <1>1, <1>2, RoundShows
<1>4. Shows(X, D, x) /\ Shows(Y, D, y)
  <2>1. Shows(n * q, p * q, x)
    BY <1>1, <1>3, ShowsExpanded
  <2>2. Shows(m * p, q * p, y)
    BY <1>1, <1>3, ShowsExpanded
  <2>3. q * p = p * q
    BY <1>1
  <2> QED
    BY <2>1, <2>2, <2>3
<1>5. X \in Nat /\ Y \in Nat /\ D \in Nat \ {0}
  BY <1>1
<1>6. /\ Leq(<<n, p>>, <<m, q>>) <=> X <= Y
      /\ Leq(<<m, q>>, <<n, p>>) <=> Y <= X
  BY DEF Leq
<1>7. /\ Leq(<<100 * m, q>>, <<101 * n, p>>) <=> 100 * Y <= 101 * X
      /\ Leq(<<100 * n, p>>, <<101 * m, q>>) <=> 100 * X <= 101 * Y
  <2>1. /\ (100 * m) * p = 100 * Y /\ (101 * n) * q = 101 * X
        /\ (100 * n) * q = 100 * X /\ (101 * m) * p = 101 * Y
    BY <1>1
  <2> QED
    BY <2>1 DEF Leq
<1>8. x[2] \in Nat /\ y[2] \in Nat
  BY <1>1, <1>3, ShowsScale
<1> HIDE DEF X, Y, D
<1>9. ASSUME X <= Y
      PROVE  b \in Nat /\ c \in Nat /\ b <= c /\ (101 * X < 100 * Y => b < c)
  <2>1. Ordering(X, Y, x, y)
    BY <1>4, <1>5, <1>9, ShownInOrder
  <2> QED
    BY <2>1 DEF Ordering
<1>10. ASSUME Y <= X
       PROVE  b \in Nat /\ c \in Nat /\ c <= b /\ (101 * Y < 100 * X => c < b)
  <2>1. Ordering(Y, X, y, x)
    BY <1>4, <1>5, <1>10, ShownInOrder
  <2>2. Larger(y[2], x[2]) = scale
    BY <1>8, LargerSame
  <2> QED
    BY <2>1, <2>2 DEF Ordering
<1> DEFINE diff == Diff(x, y)
<1>11. diff.abs[1] = c - b /\ diff.percent[1] = IF b = 0 THEN 0 ELSE 100 * (c - b)
  BY DiffIs
<1> HIDE DEF diff, b, c, scale
<1>12. X <= Y => diff.abs[1] >= 0 /\ diff.percent[1] >= 0
  BY <1>9, <1>11
<1>13. Y <= X => diff.abs[1] <= 0 /\ diff.percent[1] <= 0
  <2> SUFFICES ASSUME Y <= X PROVE diff.abs[1] <= 0 /\ diff.percent[1] <= 0
    OBVIOUS
  <2>1. b \in Nat /\ c \in Nat /\ c <= b
    BY <1>10
  <2> QED
    BY <1>11, <2>1
<1>14. ~(100 * Y <= 101 * X) => diff.abs[1] > 0
  <2> SUFFICES ASSUME ~(100 * Y <= 101 * X) PROVE diff.abs[1] > 0
    OBVIOUS
  <2>1. X <= Y /\ 101 * X < 100 * Y
    BY <1>5
  <2>2. b \in Nat /\ c \in Nat /\ b < c
    BY <1>9, <2>1
  <2> QED
    BY <1>11, <2>2
<1>15. ~(100 * X <= 101 * Y) => diff.abs[1] < 0
  <2> SUFFICES ASSUME ~(100 * X <= 101 * Y) PROVE diff.abs[1] < 0
    OBVIOUS
  <2>1. Y <= X /\ 101 * Y < 100 * X
    BY <1>5
  <2>2. b \in Nat /\ c \in Nat /\ c < b
    BY <1>10, <2>1
  <2> QED
    BY <1>11, <2>2
<1>16. Diff(Mean(base, unit), Mean(cand, unit)) = diff
  BY DEF diff, x, y
<1> QED
  BY <1>2, <1>6, <1>7, <1>12, <1>13, <1>14, <1>15, <1>16 DEF Directs
-----------------------------------------------------------------------------
(* The samples a comparison shows. *)

InOrderOf(f, order) == Sorted([i \in DOMAIN order |-> f[order[i]]])

\* The elements of a finite set can be put in the order of their values.
LEMMA OrderExists ==
    ASSUME NEW M, IsFiniteSet(M), NEW f, \A t \in M : f[t] \in Nat
    PROVE  \E order \in SetToSeqs(M) : InOrderOf(f, order)
<1> DEFINE CanOrder(S) == \E order \in SetToSeqs(S) : InOrderOf(f, order)
           T == {n \in Nat : \A S \in SUBSET M : Cardinality(S) = n => CanOrder(S)}
<1>0. \A S \in SUBSET M : IsFiniteSet(S) /\ Cardinality(S) \in Nat
  BY FS_Subset, FS_CardinalityType
<1>1. 0 \in T
  <2> SUFFICES ASSUME NEW S \in SUBSET M, Cardinality(S) = 0 PROVE CanOrder(S)
    OBVIOUS
  <2>1. S = {}
    BY <1>0, FS_EmptySet
  <2> DEFINE o == [i \in 1..0 |-> i]
  <2>2. o \in SetToSeqs(S)
    BY <2>1, FS_EmptySet DEF SetToSeqs
  <2>3. InOrderOf(f, o)
    BY DEF InOrderOf, Sorted
  <2> QED
    BY <2>2, <2>3
<1>2. ASSUME NEW n \in Nat, n \in T PROVE n + 1 \in T
  <2> SUFFICES ASSUME NEW S \in SUBSET M, Cardinality(S) = n + 1 PROVE CanOrder(S)
    OBVIOUS
  <2> DEFINE V == {f[t] : t \in S}
  <2>1. V \in SUBSET Nat /\ V # {}
    <3>1. S # {}
      BY FS_EmptySet
    <3> QED
      BY <3>1
  <2>2. PICK x \in S : \A t \in S : f[x] <= f[t]
    <3>1. PICK m \in V : \A v \in V : m <= v
      <4> HIDE DEF V
      <4> QED
        BY <2>1, Least
    <3> QED
      BY <3>1
  <2>3. S \ {x} \in SUBSET M /\ Cardinality(S \ {x}) = n
    <3>1. Cardinality(S \ {x}) = Cardinality(S) - 1
      BY <1>0, FS_RemoveElement
    <3> QED
      BY <3>1
  <2>4. CanOrder(S \ {x})
    BY <1>2, <2>3
  <2>5. PICK o \in SetToSeqs(S \ {x}) : InOrderOf(f, o)
    BY <2>4
  <2>6. o \in [1..n -> S \ {x}] /\ \A i, j \in 1..n : i # j => o[i] # o[j]
    BY <2>3, <2>5 DEF SetToSeqs
  <2> DEFINE p == [i \in 1..n + 1 |-> IF i = 1 THEN x ELSE o[i - 1]]
  <2>7. \A i \in 1..n + 1 : i # 1 => i - 1 \in 1..n
    OBVIOUS
  <2>8. p \in SetToSeqs(S)
    <3>1. p \in [1..n + 1 -> S]
      BY <2>6, <2>7
    <3>2. ASSUME NEW i \in 1..n + 1, NEW j \in 1..n + 1, i # j PROVE p[i] # p[j]
      <4>1. CASE i = 1
        BY <2>6, <2>7, <3>2, <4>1
      <4>2. CASE j = 1
        BY <2>6, <2>7, <3>2, <4>2
      <4>3. CASE i # 1 /\ j # 1
        <5>1. i - 1 \in 1..n /\ j - 1 \in 1..n /\ i - 1 # j - 1
          BY <2>7, <3>2, <4>3
        <5> QED
          BY <2>6, <4>3, <5>1
      <4> QED
        BY <4>1, <4>2, <4>3
    <3> HIDE DEF p
    <3> QED
      BY <3>1, <3>2 DEF SetToSeqs
  <2>9. \A i, j \in 1..n : i < j => f[o[i]] <= f[o[j]]
    <3> DEFINE values == [i \in 1..n |-> f[o[i]]]
    <3>1. Sorted(values)
      <4>1. DOMAIN o = 1..n
        BY <2>6
      <4> QED
        BY <2>5, <4>1 DEF InOrderOf
    <3>2. DOMAIN values = 1..n /\ \A i \in 1..n : values[i] = f[o[i]]
      OBVIOUS
    <3> HIDE DEF values
    <3> QED
      BY <3>1, <3>2 DEF Sorted
  <2>10. ASSUME NEW i \in 1..n + 1, NEW j \in 1..n + 1, i < j PROVE f[p[i]] <= f[p[j]]
    <3>1. CASE i = 1
      <4>1. p[i] = x /\ p[j] \in S
        BY <2>6, <2>7, <2>10, <3>1
      <4> HIDE DEF p
      <4> QED
        BY <2>2, <4>1
    <3>2. CASE i # 1
      <4>1. i - 1 \in 1..n /\ j - 1 \in 1..n /\ i - 1 < j - 1 /\ j # 1
        BY <2>7, <2>10, <3>2
      <4>2. p[i] = o[i - 1] /\ p[j] = o[j - 1]
        BY <3>2, <4>1
      <4> HIDE DEF p
      <4> QED
        BY <2>9, <4>1, <4>2
    <3> QED
      BY <3>1, <3>2
  <2>11. InOrderOf(f, p)
    <3> DEFINE values == [i \in 1..n + 1 |-> f[p[i]]]
    <3>1. DOMAIN p = 1..n + 1
      OBVIOUS
    <3> HIDE DEF p
    <3>2. DOMAIN values = 1..n + 1 /\ \A i \in 1..n + 1 : values[i] = f[p[i]]
      OBVIOUS
    <3>3. values = [i \in DOMAIN p |-> f[p[i]]]
      BY <3>1
    <3> HIDE DEF values
    <3>4. Sorted(values)
      BY <2>10, <3>2 DEF Sorted
    <3> QED
      BY <3>3, <3>4 DEF InOrderOf
  <2> HIDE DEF p
  <2> QED
    BY <2>8, <2>11
<1> DEFINE c == Cardinality(M)
<1>3. c \in Nat
  BY FS_CardinalityType
<1>4. c \in T
  <2> HIDE DEF T, c
  <2>1. \A m \in 0..c : m < c /\ m \in T => m + 1 \in T
    BY <1>2
  <2>2. \A m \in 0..c : m \in T
    BY <1>1, <1>3, <2>1, Induct
  <2> QED
    BY <1>3, <2>2
<1> QED
  BY <1>4

\* What computeStats sorts and summarizes is a sorted sequence of numbers.
SamplesOk(samples) == samples \in Seq(Nat) /\ Sorted(samples)

LEMMA SamplesSorted ==
    ASSUME metric \in [Trials -> Nat \cup {Nil}], NEW key PROVE SamplesOk(Samples(key))
<1> DEFINE M == Measured(key)
           order == CHOOSE o \in SetToSeqs(M) : InOrderOf(metric, o)
           values == [i \in DOMAIN order |-> metric[order[i]]]
<1>1. IsFiniteSet(M)
  BY FiniteTrials, FS_Subset DEF Measured, Group
<1>2. \A t \in M : metric[t] \in Nat
  BY DEF Measured, Group
<1>3. Samples(key) = values
  BY DEF Samples, InOrderOf
<1> HIDE DEF M
<1>4. order \in SetToSeqs(M) /\ InOrderOf(metric, order)
  BY <1>1, <1>2, OrderExists
<1> HIDE DEF order
<1>5. PICK n \in Nat : order \in [1..n -> M]
  BY <1>1, <1>4, FS_CardinalityType DEF SetToSeqs
<1>6. values \in [1..n -> Nat]
  BY <1>2, <1>5
<1>7. values \in Seq(Nat)
  <2>1. \A m \in Nat : [1..m -> Nat] \subseteq Seq(Nat)
    OBVIOUS
  <2> QED
    BY <1>6, <2>1
<1>8. Sorted(values)
  BY <1>4 DEF InOrderOf
<1> QED
  BY <1>3, <1>7, <1>8 DEF SamplesOk

ShownInv ==
    /\ metric \in [Trials -> Nat \cup {Nil}]
    /\ stage = "run" => exitCode = Nil
    /\ stage \in {"baseline", "candidate"} => baseline \in Baselines
    /\ Compared => baseline \in Baselines

LEMMA ShownInit == CompareInit => ShownInv
<1> SUFFICES ASSUME CompareInit PROVE ShownInv
  OBVIOUS
<1>1. stage = "run" /\ exitCode = Nil /\ metric = [t \in Trials |-> Nil]
  BY DEF CompareInit
<1> QED
  BY <1>1 DEF ShownInv, Compared

LEMMA ShownStep == ShownInv /\ [CompareNext]_<<vars, compareVars>> => ShownInv'
<1> SUFFICES ASSUME ShownInv, [CompareNext]_<<vars, compareVars>> PROVE ShownInv'
  OBVIOUS
<1>0. /\ metric \in [Trials -> Nat \cup {Nil}]
      /\ stage = "run" => exitCode = Nil
      /\ stage \in {"baseline", "candidate"} => baseline \in Baselines
      /\ stage = "done" /\ exitCode = 0 => baseline \in Baselines
  BY DEF ShownInv, Compared
<1>1. ASSUME NEW t \in Trials, NEW s \in Terminal, EndTrial(t, s) PROVE ShownInv'
  <2>1. /\ stage = "run" /\ stage' = stage /\ exitCode' = exitCode
        /\ \E v \in Nat \cup {Nil} : metric' = [metric EXCEPT ![t] = v]
    <3>1. ValueOf[t] \in Nat
      BY ComparisonAssumption
    <3> QED
      BY <1>1, <3>1 DEF EndTrial
  <2>2. metric' \in [Trials -> Nat \cup {Nil}]
    BY <1>0, <2>1
  <2> QED
    BY <1>0, <2>1, <2>2 DEF ShownInv, Compared
<1>2. ASSUME LoadFails PROVE ShownInv'
  <2>1. metric' = metric /\ stage' = "done" /\ exitCode' = 1
    BY <1>2 DEF LoadFails
  <2> QED
    BY <1>0, <2>1 DEF ShownInv, Compared
<1>3. ASSUME NEW summary \in Baselines, LoadSummaries(summary) PROVE ShownInv'
  <2>1. metric' = metric /\ stage' = "baseline" /\ baseline' = summary
    BY <1>3 DEF LoadSummaries
  <2> QED
    BY <1>0, <2>1 DEF ShownInv, Compared
<1>4. ASSUME NEW key, VisitBaseline(key) \/ VisitCandidate(key) PROVE ShownInv'
  <2>1. /\ stage \in {"baseline", "candidate"}
        /\ metric' = metric /\ stage' = stage /\ baseline' = baseline
    BY <1>4 DEF VisitBaseline, VisitCandidate
  <2> QED
    BY <1>0, <2>1 DEF ShownInv, Compared
<1>5. ASSUME BaselineVisited PROVE ShownInv'
  <2>1. /\ stage = "baseline" /\ stage' = "candidate"
        /\ metric' = metric /\ baseline' = baseline
    BY <1>5 DEF BaselineVisited
  <2> QED
    BY <1>0, <2>1 DEF ShownInv, Compared
<1>6. ASSUME Sort PROVE ShownInv'
  <2>1. stage = "candidate" /\ stage' = "done" /\ metric' = metric /\ baseline' = baseline
    BY <1>6 DEF Sort
  <2> QED
    BY <1>0, <2>1 DEF ShownInv, Compared
<1>7. ASSUME Returned \/ UNCHANGED <<vars, compareVars>> PROVE ShownInv'
  <2>1. UNCHANGED <<metric, baseline, stage, exitCode>>
    BY <1>7 DEF Returned, compareVars
  <2> QED
    BY <1>0, <2>1 DEF ShownInv, Compared
<1> QED
  BY <1>1, <1>2, <1>3, <1>4, <1>5, <1>6, <1>7 DEF CompareNext

\* Both summaries show sorted samples.
LEMMA ShownSorted ==
    ASSUME ShownInv
    PROVE  /\ \A samples \in Shown : SamplesOk(samples)
           /\ Compared => \A key \in DOMAIN baseline : SamplesOk(baseline[key].samples)
<1>1. \A key : SamplesOk(Samples(key))
  BY SamplesSorted DEF ShownInv
<1>2. Compared => \A key \in DOMAIN baseline : SamplesOk(baseline[key].samples)
  <2> SUFFICES ASSUME Compared, NEW key \in DOMAIN baseline
               PROVE  SamplesOk(baseline[key].samples)
    OBVIOUS
  <2>1. baseline \in Baselines
    BY DEF ShownInv
  <2> QED
    BY <2>1, ComparisonAssumption DEF SamplesOk
<1> QED
  BY <1>1, <1>2 DEF Shown

\* For every list of trials and all the values their metric can take: the
\* percentiles of a summary lie between its extremes in their order, and each
\* divides the samples as its name says (aggregator.go:176).
THEOREM PercentilesDivide == CompareSpec => []PercentilesFit
<1>1. ShownInv => PercentilesFit
  <2> SUFFICES ASSUME ShownInv, NEW samples \in Shown \ {<<>>} PROVE Fits(samples)
    BY DEF PercentilesFit, Fits
  <2>1. samples \in Seq(Nat) /\ samples # <<>> /\ Sorted(samples)
    BY ShownSorted DEF SamplesOk
  <2> QED
    BY <2>1, PercentilesOf
<1> QED
  BY ShownInit, ShownStep, <1>1, PTL DEF CompareSpec

\* And the mean of a summary is within half a percent of the real one, and that
\* of a whole-numbered metric within its extremes (aggregator.go:161).
THEOREM MeansFaithful == CompareSpec => []MeanFaithful
<1>1. ShownInv => MeanFaithful
  <2> SUFFICES ASSUME ShownInv, NEW samples \in Shown \ {<<>>} PROVE MeanFits(samples)
    BY DEF MeanFaithful, MeanFits
  <2>1. samples \in Seq(Nat) /\ samples # <<>> /\ Sorted(samples)
    BY ShownSorted DEF SamplesOk
  <2> QED
    BY <2>1, MeanOf
<1> QED
  BY ShownInit, ShownStep, <1>1, PTL DEF CompareSpec

\* Whatever digits the two means were rounded to, a difference never has the
\* wrong sign, and a change of more than one percent is never shown as none
\* (comparator.go:164-173).
THEOREM DiffsDirected == CompareSpec => []DiffDirection
<1>1. CompareInv /\ ShownInv => DiffDirection
  <2> SUFFICES ASSUME CompareInv, ShownInv, Compared,
                      NEW key \in ToSet(comparisons), NEW unit \in Units,
                      baseline[key].samples # <<>>, Samples(key) # <<>>
               PROVE  Directs(baseline[key].samples, Samples(key), unit)
    BY DEF DiffDirection, Directs
  <2>1. key \in DOMAIN baseline
    BY DEF CompareInv, EveryKeyAccounted
  <2>2. SamplesOk(baseline[key].samples)
    BY <2>1, ShownSorted
  <2>3. SamplesOk(Samples(key))
    BY SamplesSorted DEF ShownInv
  <2> QED
    BY <2>2, <2>3, DiffOf DEF SamplesOk
<1> QED
  BY AccountInit, AccountStep, ShownInit, ShownStep, <1>1, PTL DEF CompareSpec
=============================================================================
