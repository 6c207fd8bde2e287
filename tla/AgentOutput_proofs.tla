------------------------- MODULE AgentOutput_proofs -------------------------
(***************************************************************************)
(* Proofs about AgentOutput for every set of turns, every length of an     *)
(* output and every number of attempts: a result goes to the tool that was *)
(* called, thinking stays with its answer, the times of the steps lie in   *)
(* their call, reasoning is merged into the generation it belongs to, and  *)
(* the tools in the steps are those of CallLog.                            *)
(***************************************************************************)
EXTENDS AgentOutput, SequenceTheorems, FiniteSetTheorems, WellFoundedInduction, TLAPS

-----------------------------------------------------------------------------
(* The inductive invariant. *)

CallInv ==
    /\ \/ agent = "claude" /\ stamps \in EvenlyStamped \cup {{"user", "result"}}
       \/ agent = "opencode" /\ stamps = {}
    /\ attempt \in Nat
    /\ phase \in {"reading", "parsed", "finished"}
    /\ clock \in Nat /\ Started <= clock
    /\ calls \in Nat

\* The entries of the file that come first, if they are of this attempt, are
\* all of them, in the order of their generations.
FileInv ==
    /\ file \in Seq(Nat \X Nat)
    /\ agent = "claude" => file = <<>>
    /\ \A k \in 1..Len(file) :
           /\ file[k][1] <= attempt
           /\ file[1][1] = attempt => file[k] = <<attempt, k>>

\* The calls 1 to k, in order.
Calls(k) == [i \in 1..k |-> i]

\* Of the first n calls, those that are out, and then those still held.
LogIn(list, held, n) ==
    /\ Len(held) <= n
    /\ ToolCalls(list) = Calls(n - Len(held))
    /\ \A i \in 1..Len(held) : held[i].id = n - Len(held) + i

-----------------------------------------------------------------------------
(* Its part about claude. *)

ToolStep == [type : {"tool"}, id : Nat, start : Nat, end : Nat, dur : Int, answer : Nat]

GenStep == [type : {"generation"}, start : Nat, end : Nat, dur : Int, toolTime : Int,
            llm : Int, turns : Seq(Turns), by : {"assistant", "result", "end"}]

OpenGen == [start : Nat, toolTime : Int, turns : Seq(Turns), tools : Seq(ToolStep)]

ClaudeTypes ==
    /\ gen \in Seq(OpenGen) /\ Len(gen) <= 1
    /\ toolMap \in [DOMAIN toolMap -> Nat \ {0}]
    /\ resumed \in BOOLEAN /\ panicked \in BOOLEAN
    /\ steps \in Seq(ToolStep \cup GenStep)
    /\ phase # "reading" => gen = <<>>

\* The map leads to the tools of the pending generation by their ids; when no
\* generation is pending it is empty or was left behind by a result event.
MapInv ==
    phase = "reading" /\ ~resumed =>
        /\ gen # <<>> => \A id \in DOMAIN toolMap :
               /\ toolMap[id] <= Len(gen[1].tools)
               /\ gen[1].tools[toolMap[id]].id = id
        /\ gen = <<>> /\ DOMAIN toolMap # {} =>
               \E i \in 1..Len(steps) : steps[i].type = "generation" /\ steps[i].by = "result"

\* A result is in the step of its call.
OwnAnswer(s) == s.answer \in {0, s.id}

AnswersIn(list) == \A i \in 1..Len(list) : list[i].type = "tool" => OwnAnswer(list[i])

AnswerInv ==
    ~resumed =>
        /\ ~panicked /\ AnswersIn(steps)
        /\ gen # <<>> => \A n \in 1..Len(gen[1].tools) : OwnAnswer(gen[1].tools[n])

\* Only the last turn answers.
OneAnswer(turns) == \A i \in 1..Len(turns) - 1 : ~C!Answers(turns[i])

ThinkingIn(list) ==
    \A i \in 1..Len(list) : list[i].type = "generation" =>
        /\ OneAnswer(list[i].turns)
        /\ C!ThinkingOnly(list[i]) => list[i].by # "assistant"

ThinkingInv ==
    /\ gen # <<>> => OneAnswer(gen[1].turns)
    /\ ThinkingIn(steps)

\* The times of a tool, of a closed generation and of the pending one while the
\* output is read, at the time `now`, with stamps or without.
TimesOfTool(s, stamped, now) ==
    IF stamped
    THEN /\ Started <= s.start /\ s.start <= now
         /\ \/ s.end = 0 /\ s.dur = 0
            \/ s.start <= s.end /\ s.end <= now /\ s.dur = s.end - s.start
    ELSE s.start = 0 /\ s.end = 0 /\ s.dur = 0

TimesOfGen(s, stamped, now) ==
    IF stamped
    THEN /\ Started <= s.start /\ s.start <= s.end /\ s.end <= now
         /\ s.dur = s.end - s.start
         /\ 0 <= s.llm /\ s.llm <= s.dur
    ELSE s.start = 0 /\ s.end = 0 /\ s.dur = 0 /\ s.toolTime = 0 /\ s.llm = 0

\* The times of a generation that was closed by an event without a stamp, or by
\* the end of the output.
TimesOfLast(s, stamped, now) ==
    /\ s.end = 0 /\ s.dur = 0
    /\ IF stamped THEN Started <= s.start /\ s.start <= now /\ s.toolTime >= 0
       ELSE s.start = 0 /\ s.toolTime = 0

TimesKnown(s, stamped, now) ==
    /\ s.type = "tool" => TimesOfTool(s, stamped, now)
    /\ s.type = "generation" => TimesOfGen(s, stamped, now) \/ TimesOfLast(s, stamped, now)

TimesIn(list, stamped, now) == \A i \in 1..Len(list) : TimesKnown(list[i], stamped, now)

TimesOfOpen(g, stamped, now) ==
    /\ IF stamped THEN Started <= g.start /\ g.start <= now /\ g.toolTime >= 0
       ELSE g.start = 0 /\ g.toolTime = 0
    /\ \A n \in 1..Len(g.tools) : TimesOfTool(g.tools[n], stamped, now)

\* The times of any step after that.
TimesFit(s, now) ==
    /\ Started <= s.start /\ s.start <= s.end /\ s.end <= now
    /\ s.dur = s.end - s.start
    /\ s.type = "generation" => 0 <= s.llm /\ s.llm <= s.dur

TimesInv ==
    stamps \in EvenlyStamped =>
        IF phase = "reading"
        THEN /\ TimesIn(steps, stamps # {}, clock)
             /\ gen # <<>> => TimesOfOpen(gen[1], stamps # {}, clock)
        ELSE \A i \in 1..Len(steps) : TimesFit(steps[i], clock)

AllTimed(list) == \A i \in 1..Len(list) : list[i].type = "generation" => list[i].end > 0

\* The model time so far lies before the pending generation, and is known.
LatencyInv ==
    stamps = Kinds =>
        /\ O!Total(LlmTimes(steps)) <= (IF gen = <<>> THEN clock ELSE gen[1].start) - Started
        /\ phase = "reading" => AllTimed(steps)

Held == IF gen = <<>> THEN <<>> ELSE gen[1].tools

ClaudeInv ==
    agent = "claude" =>
        /\ ClaudeTypes /\ MapInv /\ AnswerInv /\ ThinkingInv /\ TimesInv /\ LatencyInv
        /\ LogIn(steps, Held, calls)

-----------------------------------------------------------------------------
(* Its part about opencode. *)

OpencodeTool == [type : {"tool"}, id : Nat, start : Nat, end : Nat, dur : Nat]

OpencodeGen == [type : {"generation"}, start : Nat, end : Nat, dur : Int,
                toolTime : Int, llm : Int, number : Nat]

\* The steps before step i, itself included, that are generations.
GensUpTo(i) == {j \in 1..i : steps[j].type = "generation"}

OpencodeInv ==
    agent = "opencode" =>
        /\ stepStart \in Nat /\ inStep \in BOOLEAN
        /\ inStep => Started <= stepStart /\ stepStart <= clock
        /\ pending \in Seq(OpencodeTool)
        /\ steps \in Seq(OpencodeTool \cup OpencodeGen)
        /\ \A i \in 1..Len(steps) : steps[i].type = "generation" =>
               steps[i].number = Cardinality(GensUpTo(i))
        /\ O!Total(LlmTimes(steps)) <= (IF inStep THEN stepStart ELSE clock) - Started
        /\ LogIn(steps, pending, calls)

IInv ==
    /\ CallInv /\ FileInv /\ ClaudeInv /\ OpencodeInv
    /\ ReasoningOfOwnGeneration

-----------------------------------------------------------------------------
(* Loops over a list. *)

\* Every set of numbers that is not empty has a least one.
LEMMA Least ==
    ASSUME NEW T \in SUBSET Nat, T # {} PROVE \E m \in T : \A n \in T : m <= n
<1> DEFINE R == OpToRel(<, Nat)
<1>1. IsWellFoundedOn(R, Nat)
  BY NatLessThanWellFounded
<1>2. \A x, y \in Nat : <<x, y>> \in R <=> x < y
  BY DEF OpToRel
<1> HIDE DEF R
<1>3. PICK x \in T : \A y \in T : <<y, x>> \notin R
  BY <1>1, WFMin
<1>4. \A y \in T : ~(y < x)
  BY <1>2, <1>3
<1>5. x \in Nat /\ \A y \in T : y \in Nat
  OBVIOUS
<1> QED
  BY <1>4, <1>5

\* Induction, for the set of the numbers that have the property in question.
LEMMA Induct ==
    ASSUME NEW a \in Nat, NEW b \in Nat, NEW T, a \in T,
           \A n \in a..b : n < b /\ n \in T => n + 1 \in T
    PROVE  \A n \in a..b : n \in T
<1> DEFINE F == {n \in a..b : n \notin T}
<1> SUFFICES ASSUME F # {} PROVE FALSE
  OBVIOUS
<1>1. PICK m \in F : \A n \in F : m <= n
  <2>1. F \in SUBSET Nat
    OBVIOUS
  <2> HIDE DEF F
  <2> QED
    BY <2>1, Least
<1>2. m \in a..b /\ m \notin T /\ m # a
  OBVIOUS
<1>3. m - 1 \in a..b /\ m - 1 < b /\ (m - 1) + 1 = m /\ ~(m <= m - 1)
  BY <1>2
<1>4. m - 1 \in T
  BY <1>1, <1>3
<1> QED
  BY <1>2, <1>3, <1>4

\* One turn of the loop of Total, where f holds what the turns before have.
AddNext(s, f, i) == IF i = 0 THEN 0 ELSE f[i - 1] + s[i]

LEMMA TotalDefined ==
    ASSUME NEW s, Len(s) \in Nat
    PROVE  \E f : /\ f = [i \in 0..Len(s) |-> AddNext(s, f, i)]
                  /\ O!Total(s) = f[Len(s)]
<1> DEFINE Defined(n) == \E f : f = [i \in 0..n |-> AddNext(s, f, i)]
           T == {n \in Nat : Defined(n)}
<1>1. Defined(0)
  <2> DEFINE f == [i \in 0..0 |-> 0]
  <2>1. f = [i \in 0..0 |-> AddNext(s, f, i)]
    BY DEF AddNext
  <2> QED
    BY <2>1
<1>2. ASSUME NEW n \in Nat, Defined(n) PROVE Defined(n + 1)
  <2>1. PICK f : f = [i \in 0..n |-> AddNext(s, f, i)]
    BY <1>2
  <2> DEFINE g == [i \in 0..n + 1 |-> IF i <= n THEN f[i] ELSE AddNext(s, f, n + 1)]
  <2>2. ASSUME NEW i \in 0..n + 1 PROVE g[i] = AddNext(s, g, i)
    <3>1. i # 0 => g[i - 1] = f[i - 1]
      OBVIOUS
    <3>2. AddNext(s, g, i) = AddNext(s, f, i)
      BY <3>1 DEF AddNext
    <3>3. CASE i = n + 1
      BY <3>2, <3>3
    <3>4. CASE i # n + 1
      <4>1. i \in 0..n
        BY <3>4
      <4>2. f[i] = AddNext(s, f, i)
        BY <2>1, <4>1
      <4> QED
        BY <3>2, <4>1, <4>2
    <3> QED
      BY <3>3, <3>4
  <2> HIDE DEF g
  <2>3. g = [i \in 0..n + 1 |-> AddNext(s, g, i)]
    BY <2>2 DEF g
  <2> QED
    BY <2>3
<1> HIDE DEF Defined
<1>3. Defined(Len(s))
  <2>1. 0 \in T /\ \A n \in 0..Len(s) : n < Len(s) /\ n \in T => n + 1 \in T
    BY <1>1, <1>2
  <2> HIDE DEF T
  <2>2. \A n \in 0..Len(s) : n \in T
    BY <2>1, Induct
  <2> QED
    BY <2>2 DEF T
<1> DEFINE f == CHOOSE f : f = [i \in 0..Len(s) |-> AddNext(s, f, i)]
<1>4. f = [i \in 0..Len(s) |-> AddNext(s, f, i)]
  BY <1>3 DEF Defined
<1>5. O!Total(s) = f[Len(s)]
  BY DEF O!Total, AddNext
<1> HIDE DEF f
<1> QED
  BY <1>4, <1>5

\* A total is an integer, and at least 0 if every part is.
LEMMA TotalType ==
    ASSUME NEW s \in Seq(Int)
    PROVE  /\ O!Total(s) \in Int
           /\ (\A i \in 1..Len(s) : s[i] >= 0) => O!Total(s) >= 0
           /\ s = <<>> => O!Total(s) = 0
<1>1. Len(s) \in Nat
  OBVIOUS
<1>2. PICK f : f = [i \in 0..Len(s) |-> AddNext(s, f, i)] /\ O!Total(s) = f[Len(s)]
  BY <1>1, TotalDefined
<1>3. f[0] = 0 /\ \A n \in 0..Len(s) : n < Len(s) => f[n + 1] = f[n] + s[n + 1]
  <2>1. ASSUME NEW n \in 0..Len(s), n < Len(s) PROVE f[n + 1] = f[n] + s[n + 1]
    <3>1. n + 1 \in 0..Len(s) /\ n + 1 # 0 /\ (n + 1) - 1 = n
      BY <1>1, <2>1
    <3>2. f[n + 1] = AddNext(s, f, n + 1)
      BY <1>2, <3>1
    <3> QED
      BY <3>1, <3>2 DEF AddNext
  <2>2. f[0] = 0
    BY <1>1, <1>2 DEF AddNext
  <2> QED
    BY <2>1, <2>2
<1> DEFINE T == {n \in Nat : f[n] \in Int /\ ((\A i \in 1..Len(s) : s[i] >= 0) => f[n] >= 0)}
<1>4. \A n \in 0..Len(s) : n \in T
  <2>1. 0 \in T
    BY <1>3
  <2>2. ASSUME NEW n \in 0..Len(s), n < Len(s), n \in T PROVE n + 1 \in T
    <3>1. n + 1 \in 1..Len(s) /\ f[n + 1] = f[n] + s[n + 1] /\ s[n + 1] \in Int
      BY <1>1, <1>3, <2>2
    <3> QED
      BY <2>2, <3>1
  <2> HIDE DEF T
  <2> QED
    BY <1>1, <2>1, <2>2, Induct
<1>5. Len(s) \in T
  BY <1>1, <1>4
<1> QED
  BY <1>2, <1>3, <1>5

\* Of a list that goes on with one more part and then with zeros.
LEMMA TotalExtended ==
    ASSUME NEW s \in Seq(Int), NEW t \in Seq(Int), Len(s) < Len(t),
           \A i \in 1..Len(s) : t[i] = s[i],
           \A i \in 1..Len(t) : i > Len(s) + 1 => t[i] = 0
    PROVE  O!Total(t) = O!Total(s) + t[Len(s) + 1]
<1>1. Len(s) \in Nat /\ Len(t) \in Nat
  OBVIOUS
<1>2. PICK f : f = [i \in 0..Len(s) |-> AddNext(s, f, i)] /\ O!Total(s) = f[Len(s)]
  BY <1>1, TotalDefined
<1>3. PICK h : h = [i \in 0..Len(t) |-> AddNext(t, h, i)] /\ O!Total(t) = h[Len(t)]
  BY <1>1, TotalDefined
<1>4. /\ f[0] = 0 /\ \A n \in 0..Len(s) : n < Len(s) => f[n + 1] = f[n] + s[n + 1]
      /\ h[0] = 0 /\ \A n \in 0..Len(t) : n < Len(t) => h[n + 1] = h[n] + t[n + 1]
  <2>1. ASSUME NEW n \in 0..Len(s), n < Len(s) PROVE f[n + 1] = f[n] + s[n + 1]
    <3>1. n + 1 \in 0..Len(s) /\ n + 1 # 0 /\ (n + 1) - 1 = n
      BY <1>1, <2>1
    <3>2. f[n + 1] = AddNext(s, f, n + 1)
      BY <1>2, <3>1
    <3> QED
      BY <3>1, <3>2 DEF AddNext
  <2>2. ASSUME NEW n \in 0..Len(t), n < Len(t) PROVE h[n + 1] = h[n] + t[n + 1]
    <3>1. n + 1 \in 0..Len(t) /\ n + 1 # 0 /\ (n + 1) - 1 = n
      BY <1>1, <2>2
    <3>2. h[n + 1] = AddNext(t, h, n + 1)
      BY <1>3, <3>1
    <3> QED
      BY <3>1, <3>2 DEF AddNext
  <2>3. f[0] = 0 /\ h[0] = 0
    BY <1>1, <1>2, <1>3 DEF AddNext
  <2> QED
    BY <2>1, <2>2, <2>3
<1>5. h[Len(s)] = f[Len(s)]
  <2> DEFINE T == {n \in Nat : h[n] = f[n]}
  <2>1. 0 \in T
    BY <1>4
  <2>2. ASSUME NEW n \in 0..Len(s), n < Len(s), n \in T PROVE n + 1 \in T
    <3>1. n + 1 \in 1..Len(s) /\ n \in 0..Len(t) /\ n < Len(t)
      BY <1>1, <2>2
    <3>2. h[n + 1] = h[n] + t[n + 1] /\ f[n + 1] = f[n] + s[n + 1] /\ t[n + 1] = s[n + 1]
      BY <1>4, <2>2, <3>1
    <3> QED
      BY <2>2, <3>1, <3>2
  <2> HIDE DEF T
  <2>3. \A n \in 0..Len(s) : n \in T
    BY <1>1, <2>1, <2>2, Induct
  <2>4. Len(s) \in T
    BY <1>1, <2>3
  <2> QED
    BY <2>4 DEF T
<1>6. h[Len(s) + 1] = f[Len(s)] + t[Len(s) + 1]
  <2>1. Len(s) \in 0..Len(t)
    BY <1>1
  <2> QED
    BY <1>4, <1>5, <2>1
<1>7. h[Len(t)] = h[Len(s) + 1]
  <2> DEFINE T == {n \in Nat : h[n] = h[Len(s) + 1]}
             a == Len(s) + 1
  <2>1. a \in Nat /\ a \in T
    BY <1>1
  <2>2. ASSUME NEW n \in a..Len(t), n < Len(t), n \in T PROVE n + 1 \in T
    <3>1. n + 1 \in 1..Len(t) /\ n + 1 > Len(s) + 1 /\ n \in 0..Len(t)
      BY <1>1, <2>2
    <3>2. h[n + 1] = h[n] + t[n + 1] /\ t[n + 1] = 0
      BY <1>4, <2>2, <3>1
    <3>3. h[Len(s) + 1] \in Int
      <4>1. t[Len(s) + 1] \in Int
        BY <1>1
      <4> QED
        BY <1>2, <1>6, <4>1, TotalType
    <3> QED
      BY <2>2, <3>1, <3>2, <3>3
  <2> HIDE DEF T
  <2>3. \A n \in a..Len(t) : n \in T
    <3> HIDE DEF a
    <3> QED
      BY <1>1, <2>1, <2>2, Induct
  <2>4. Len(t) \in T
    BY <1>1, <2>3
  <2> QED
    BY <2>4 DEF T
<1> QED
  BY <1>2, <1>3, <1>6, <1>7

\* The same for the loop of ToolCalls.
CollectNext(list, f, i) ==
    IF i = 0 THEN <<>>
    ELSE IF list[i].type = "tool" THEN Append(f[i - 1], list[i].id)
    ELSE f[i - 1]

LEMMA CallsDefined ==
    ASSUME NEW list, Len(list) \in Nat
    PROVE  \E f : /\ ToolCalls(list) = f[Len(list)] /\ f[0] = <<>>
                  /\ \A n \in 0..Len(list) : n < Len(list) =>
                         f[n + 1] = IF list[n + 1].type = "tool"
                                    THEN Append(f[n], list[n + 1].id) ELSE f[n]
<1> DEFINE Defined(n) == \E f : f = [i \in 0..n |-> CollectNext(list, f, i)]
           T == {n \in Nat : Defined(n)}
<1>1. Defined(0)
  <2> DEFINE f == [i \in 0..0 |-> <<>>]
  <2>1. f = [i \in 0..0 |-> CollectNext(list, f, i)]
    BY DEF CollectNext
  <2> QED
    BY <2>1
<1>2. ASSUME NEW n \in Nat, Defined(n) PROVE Defined(n + 1)
  <2>1. PICK f : f = [i \in 0..n |-> CollectNext(list, f, i)]
    BY <1>2
  <2> DEFINE g == [i \in 0..n + 1 |-> IF i <= n THEN f[i] ELSE CollectNext(list, f, n + 1)]
  <2>2. ASSUME NEW i \in 0..n + 1 PROVE g[i] = CollectNext(list, g, i)
    <3>1. i # 0 => g[i - 1] = f[i - 1]
      OBVIOUS
    <3>2. CollectNext(list, g, i) = CollectNext(list, f, i)
      BY <3>1 DEF CollectNext
    <3>3. CASE i = n + 1
      BY <3>2, <3>3
    <3>4. CASE i # n + 1
      <4>1. i \in 0..n
        BY <3>4
      <4>2. f[i] = CollectNext(list, f, i)
        BY <2>1, <4>1
      <4> QED
        BY <3>2, <4>1, <4>2
    <3> QED
      BY <3>3, <3>4
  <2> HIDE DEF g
  <2>3. g = [i \in 0..n + 1 |-> CollectNext(list, g, i)]
    BY <2>2 DEF g
  <2> QED
    BY <2>3
<1> HIDE DEF Defined
<1>3. Defined(Len(list))
  <2>1. 0 \in T /\ \A n \in 0..Len(list) : n < Len(list) /\ n \in T => n + 1 \in T
    BY <1>1, <1>2
  <2> HIDE DEF T
  <2>2. \A n \in 0..Len(list) : n \in T
    BY <2>1, Induct
  <2> QED
    BY <2>2 DEF T
<1> DEFINE f == CHOOSE f : f = [i \in 0..Len(list) |-> CollectNext(list, f, i)]
<1>4. f = [i \in 0..Len(list) |-> CollectNext(list, f, i)]
  BY <1>3 DEF Defined
<1>5. ToolCalls(list) = f[Len(list)]
  BY DEF ToolCalls, CollectNext
<1> HIDE DEF f
<1>6. f[0] = <<>>
  BY <1>4 DEF CollectNext
<1>7. ASSUME NEW n \in 0..Len(list), n < Len(list)
      PROVE  f[n + 1] = IF list[n + 1].type = "tool"
                        THEN Append(f[n], list[n + 1].id) ELSE f[n]
  <2>1. n + 1 \in 0..Len(list) /\ n + 1 # 0 /\ (n + 1) - 1 = n
    BY <1>7
  <2>2. f[n + 1] = CollectNext(list, f, n + 1)
    BY <1>4, <2>1
  <2> QED
    BY <2>1, <2>2 DEF CollectNext
<1> QED
  BY <1>5, <1>6, <1>7

LEMMA CallsSequence ==
    ASSUME NEW k \in Nat
    PROVE  /\ Calls(k) \in Seq(Nat) /\ Len(Calls(k)) = k
           /\ Append(Calls(k), k + 1) = Calls(k + 1)
           /\ Calls(0) = <<>>
<1>1. /\ Calls(k) \in Seq(Nat) /\ Len(Calls(k)) = k
      /\ Calls(k + 1) \in Seq(Nat) /\ Len(Calls(k + 1)) = k + 1
  BY DEF Calls
<1>2. Append(Calls(k), k + 1) = Calls(k + 1)
  <2> DEFINE s == Append(Calls(k), k + 1)
  <2>1. /\ s \in Seq(Nat) /\ Len(s) = k + 1
        /\ \A i \in 1..k : s[i] = Calls(k)[i] /\ s[k + 1] = k + 1
    BY <1>1
  <2>2. s[k + 1] = k + 1
    BY <1>1
  <2>3. \A i \in 1..k + 1 : s[i] = Calls(k + 1)[i]
    BY <2>1, <2>2 DEF Calls
  <2> HIDE DEF s
  <2>4. s = Calls(k + 1)
    BY <1>1, <2>1, <2>3, SeqEqual
  <2> QED
    BY <2>4 DEF s
<1>3. Calls(0) = <<>>
  BY DEF Calls
<1> QED
  BY <1>1, <1>2, <1>3

\* A list that goes on with a generation and the next m tools.
GoesOn(list, more, k, m) ==
    /\ \A i \in 1..Len(list) : /\ more[i].type = list[i].type
                               /\ list[i].type = "tool" => more[i].id = list[i].id
    /\ \/ Len(more) = Len(list) /\ m = 0
       \/ /\ Len(more) = Len(list) + 1 + m
          /\ more[Len(list) + 1].type # "tool"
          /\ \A n \in 1..m : /\ more[Len(list) + 1 + n].type = "tool"
                             /\ more[Len(list) + 1 + n].id = k + n

LEMMA CallsExtended ==
    ASSUME NEW list, NEW more, Len(list) \in Nat, Len(more) \in Nat,
           NEW k \in Nat, NEW m \in Nat, ToolCalls(list) = Calls(k),
           GoesOn(list, more, k, m)
    PROVE  ToolCalls(more) = Calls(k + m)
<1> DEFINE L == Len(list)
<1>1. PICK f : /\ ToolCalls(list) = f[Len(list)] /\ f[0] = <<>>
               /\ \A n \in 0..Len(list) : n < Len(list) =>
                      f[n + 1] = IF list[n + 1].type = "tool"
                                 THEN Append(f[n], list[n + 1].id) ELSE f[n]
  BY CallsDefined
<1>2. PICK h : /\ ToolCalls(more) = h[Len(more)] /\ h[0] = <<>>
               /\ \A n \in 0..Len(more) : n < Len(more) =>
                      h[n + 1] = IF more[n + 1].type = "tool"
                                 THEN Append(h[n], more[n + 1].id) ELSE h[n]
  BY CallsDefined
<1>3. h[L] = Calls(k)
  <2> DEFINE T == {n \in Nat : h[n] = f[n]}
  <2>1. 0 \in T
    BY <1>1, <1>2
  <2>2. ASSUME NEW n \in 0..L, n < L, n \in T PROVE n + 1 \in T
    <3>1. n + 1 \in 1..L /\ n \in 0..Len(more) /\ n < Len(more) /\ h[n] = f[n]
      BY <2>2 DEF GoesOn
    <3>2. f[n + 1] = IF list[n + 1].type = "tool" THEN Append(f[n], list[n + 1].id) ELSE f[n]
      BY <1>1, <2>2
    <3>3. h[n + 1] = IF more[n + 1].type = "tool" THEN Append(h[n], more[n + 1].id) ELSE h[n]
      BY <1>2, <3>1
    <3> QED
      BY <3>1, <3>2, <3>3 DEF GoesOn
  <2> HIDE DEF T
  <2>3. \A n \in 0..L : n \in T
    BY <2>1, <2>2, Induct
  <2>4. L \in T
    BY <2>3
  <2> QED
    BY <1>1, <2>4 DEF T
<1>4. CASE Len(more) = L /\ m = 0
  BY <1>2, <1>3, <1>4
<1>5. CASE /\ Len(more) = L + 1 + m
           /\ more[L + 1].type # "tool"
           /\ \A n \in 1..m : more[L + 1 + n].type = "tool" /\ more[L + 1 + n].id = k + n
  <2>1. h[L + 1] = Calls(k)
    <3>1. L \in 0..Len(more) /\ L < Len(more)
      BY <1>5
    <3> QED
      BY <1>2, <1>3, <1>5, <3>1
  <2> DEFINE T == {n \in Nat : h[L + 1 + n] = Calls(k + n)}
  <2>2. 0 \in T
    BY <2>1
  <2>3. ASSUME NEW n \in 0..m, n < m, n \in T PROVE n + 1 \in T
    <3>1. /\ L + 1 + n \in 0..Len(more) /\ L + 1 + n < Len(more) /\ n + 1 \in 1..m
          /\ (L + 1 + n) + 1 = L + 1 + (n + 1) /\ k + (n + 1) = (k + n) + 1 /\ k + n \in Nat
      BY <1>5, <2>3
    <3>2. more[L + 1 + (n + 1)].type = "tool" /\ more[L + 1 + (n + 1)].id = k + (n + 1)
      BY <1>5, <3>1
    <3>3. h[L + 1 + (n + 1)] = Append(Calls(k + n), (k + n) + 1)
      BY <1>2, <2>3, <3>1, <3>2
    <3>4. Append(Calls(k + n), (k + n) + 1) = Calls((k + n) + 1)
      BY <3>1, CallsSequence
    <3>5. h[L + 1 + (n + 1)] = Calls(k + (n + 1))
      BY <3>1, <3>3, <3>4
    <3>6. n + 1 \in Nat
      BY <3>1
    <3> QED
      BY <3>5, <3>6
  <2> HIDE DEF T
  <2>4. \A n \in 0..m : n \in T
    BY <2>2, <2>3, Induct
  <2>5. m \in T
    BY <2>4
  <2> QED
    BY <1>2, <1>5, <2>5 DEF T
<1> QED
  BY <1>4, <1>5 DEF GoesOn

-----------------------------------------------------------------------------
(* A generation and its tools are sent out. *)

Sends(list, e, tools, more) ==
    /\ Len(more) = Len(list) + 1 + Len(tools)
    /\ \A i \in 1..Len(list) : more[i] = list[i]
    /\ more[Len(list) + 1] = e
    /\ \A n \in 1..Len(tools) : more[Len(list) + 1 + n] = tools[n]
    /\ \A i \in 1..Len(more) :
           \/ i \in 1..Len(list) /\ more[i] = list[i]
           \/ i = Len(list) + 1 /\ more[i] = e
           \/ i - Len(list) - 1 \in 1..Len(tools) /\ more[i] = tools[i - Len(list) - 1]

LEMMA Sent ==
    ASSUME NEW S, NEW list \in Seq(S), NEW e \in S, NEW tools \in Seq(S), NEW more,
           more = list \o (<<e>> \o tools) \/ more = (list \o <<e>>) \o tools
    PROVE  more \in Seq(S) /\ Sends(list, e, tools, more)
<1>1. /\ more \in Seq(S) /\ Len(more) = Len(list) + 1 + Len(tools)
      /\ \A i \in 1..Len(list) : more[i] = list[i]
      /\ more[Len(list) + 1] = e
      /\ \A n \in 1..Len(tools) : more[Len(list) + 1 + n] = tools[n]
  <2> DEFINE ahead == <<e>> \o tools
             behind == list \o <<e>>
  <2>1. /\ ahead \in Seq(S) /\ Len(ahead) = 1 + Len(tools) /\ ahead[1] = e
        /\ \A n \in 1..Len(tools) : ahead[1 + n] = tools[n]
    OBVIOUS
  <2>2. /\ behind \in Seq(S) /\ Len(behind) = Len(list) + 1 /\ behind[Len(list) + 1] = e
        /\ \A i \in 1..Len(list) : behind[i] = list[i]
    OBVIOUS
  <2> HIDE DEF ahead, behind
  <2>3. CASE more = list \o ahead
    <3>1. \A i \in 1..Len(ahead) : more[Len(list) + i] = ahead[i]
      BY <2>1, <2>3
    <3>2. \A n \in 1..Len(tools) : more[Len(list) + (1 + n)] = ahead[1 + n]
      BY <2>1, <3>1
    <3>3. more[Len(list) + 1] = e
      BY <2>1, <3>1
    <3> QED
      BY <2>1, <2>3, <3>2, <3>3
  <2>4. CASE more = behind \o tools
    <3>1. \A i \in 1..Len(behind) : more[i] = behind[i]
      BY <2>2, <2>4
    <3> QED
      BY <2>2, <2>4, <3>1
  <2> QED
    BY <2>3, <2>4 DEF ahead, behind
<1>2. ASSUME NEW i \in 1..Len(more), ~(i \in 1..Len(list)), i # Len(list) + 1
      PROVE  i - Len(list) - 1 \in 1..Len(tools) /\ more[i] = tools[i - Len(list) - 1]
  <2>1. i - Len(list) - 1 \in 1..Len(tools) /\ Len(list) + 1 + (i - Len(list) - 1) = i
    BY <1>1, <1>2
  <2> QED
    BY <1>1, <2>1
<1> QED
  BY <1>1, <1>2 DEF Sends

\* The parts of the model time.
LEMMA TimesOf ==
    ASSUME NEW S, NEW list \in Seq(S), \A x \in S : x.type = "generation" => x.llm \in Int
    PROVE  /\ LlmTimes(list) \in Seq(Int) /\ Len(LlmTimes(list)) = Len(list)
           /\ \A i \in 1..Len(list) :
                  LlmTimes(list)[i] = IF list[i].type = "generation" THEN list[i].llm ELSE 0
<1>1. \A i \in 1..Len(list) : list[i] \in S
  OBVIOUS
<1>2. DOMAIN list = 1..Len(list) /\ Len(list) \in Nat
  OBVIOUS
<1>3. \A i \in 1..Len(list) : (IF list[i].type = "generation" THEN list[i].llm ELSE 0) \in Int
  BY <1>1
<1> QED
  BY <1>2, <1>3 DEF LlmTimes

\* What it adds to the model time, and to the list of calls.
LEMMA SentTimes ==
    ASSUME NEW S, NEW list \in Seq(S), NEW e \in S, NEW tools \in Seq(S), NEW more \in Seq(S),
           Sends(list, e, tools, more),
           \A x \in S : x.type = "generation" => x.llm \in Int,
           e.type = "generation", \A n \in 1..Len(tools) : tools[n].type = "tool"
    PROVE  /\ O!Total(LlmTimes(list)) \in Int
           /\ O!Total(LlmTimes(more)) = O!Total(LlmTimes(list)) + e.llm
<1> DEFINE s == LlmTimes(list)
           t == LlmTimes(more)
<1>1. /\ Len(list) \in Nat /\ Len(tools) \in Nat /\ Len(more) = Len(list) + 1 + Len(tools)
      /\ \A i \in 1..Len(list) : more[i] = list[i]
      /\ more[Len(list) + 1] = e
  BY DEF Sends
<1>2. ASSUME NEW i \in 1..Len(more), i > Len(list) + 1 PROVE more[i].type = "tool"
  <2>1. i - Len(list) - 1 \in 1..Len(tools) /\ more[i] = tools[i - Len(list) - 1]
    BY <1>1, <1>2 DEF Sends
  <2> QED
    BY <2>1
<1>3. /\ s \in Seq(Int) /\ Len(s) = Len(list)
      /\ \A i \in 1..Len(list) : s[i] = IF list[i].type = "generation" THEN list[i].llm ELSE 0
  BY TimesOf DEF s
<1>4. /\ t \in Seq(Int) /\ Len(t) = Len(more)
      /\ \A i \in 1..Len(more) : t[i] = IF more[i].type = "generation" THEN more[i].llm ELSE 0
  BY TimesOf DEF t
<1> HIDE DEF s, t
<1>5. /\ Len(s) < Len(t) /\ \A i \in 1..Len(s) : t[i] = s[i]
      /\ t[Len(s) + 1] = e.llm
  <2>1. Len(s) + 1 \in 1..Len(more) /\ Len(s) < Len(t)
    BY <1>1, <1>3, <1>4
  <2>2. t[Len(s) + 1] = e.llm
    BY <1>1, <1>3, <1>4, <2>1
  <2>3. ASSUME NEW i \in 1..Len(s) PROVE t[i] = s[i]
    <3>1. i \in 1..Len(list) /\ i \in 1..Len(more)
      BY <1>1, <1>3, <2>3
    <3>2. more[i] = list[i]
      BY <1>1, <3>1
    <3> QED
      BY <1>3, <1>4, <3>1, <3>2
  <2> QED
    BY <2>1, <2>2, <2>3
<1>6. ASSUME NEW i \in 1..Len(t), i > Len(s) + 1 PROVE t[i] = 0
  <2>1. i \in 1..Len(more) /\ more[i].type = "tool"
    BY <1>2, <1>3, <1>4, <1>6
  <2> QED
    BY <1>4, <2>1
<1>7. O!Total(s) \in Int /\ O!Total(t) = O!Total(s) + e.llm
  BY <1>3, <1>4, <1>5, <1>6, TotalType, TotalExtended
<1> QED
  BY <1>7 DEF s, t

LEMMA SentCalls ==
    ASSUME NEW S, NEW list \in Seq(S), NEW e \in S, NEW tools \in Seq(S), NEW more \in Seq(S),
           Sends(list, e, tools, more),
           e.type = "generation", \A n \in 1..Len(tools) : tools[n].type = "tool",
           NEW total \in Nat, LogIn(list, tools, total)
    PROVE  ToolCalls(more) = Calls(total)
<1> DEFINE k == total - Len(tools)
<1>1. Len(list) \in Nat /\ Len(tools) \in Nat /\ Len(more) \in Nat
  OBVIOUS
<1>2. /\ k \in Nat /\ ToolCalls(list) = Calls(k) /\ k + Len(tools) = total
      /\ \A n \in 1..Len(tools) : tools[n].id = k + n
  BY <1>1 DEF LogIn
<1> HIDE DEF k
<1>3. /\ Len(more) = Len(list) + 1 + Len(tools)
      /\ \A i \in 1..Len(list) : more[i] = list[i]
      /\ more[Len(list) + 1] = e
      /\ \A n \in 1..Len(tools) : more[Len(list) + 1 + n] = tools[n]
  BY DEF Sends
<1>4. \A i \in 1..Len(list) : more[i].type = list[i].type /\ more[i].id = list[i].id
  BY <1>3
<1>5. more[Len(list) + 1].type # "tool"
  BY <1>3
<1>6. \A n \in 1..Len(tools) : /\ more[Len(list) + 1 + n].type = "tool"
                               /\ more[Len(list) + 1 + n].id = k + n
  BY <1>3, <1>2
<1> QED
  <2>1. GoesOn(list, more, k, Len(tools))
    BY <1>3, <1>4, <1>5, <1>6 DEF GoesOn
  <2> QED
    BY <1>1, <1>2, <2>1, CallsExtended

-----------------------------------------------------------------------------
(* The steps: the call of the agent, and the enrichment file. *)

LEMMA CallStep ==
    ASSUME CallInv, [Next]_vars PROVE CallInv'
<1> USE DEF CallInv, Started
<1>1. CASE ReadAssistant
  <2>1. PICK turn \in Turns : C!Assistant(turn, Stamp("assistant"))
    BY <1>1 DEF ReadAssistant
  <2>2. turn.calls \in Nat
    BY <2>1, AgentOutputAssumption
  <2>3. calls' = calls + turn.calls
    BY <2>1 DEF C!Assistant
  <2> QED
    BY <1>1, <2>2, <2>3 DEF ReadAssistant, Read
<1>2. CASE ReadToolResult
  BY <1>2 DEF ReadToolResult, Read, C!ToolResult
<1>3. CASE ReadResult
  BY <1>3 DEF ReadResult, Read, C!Result
<1>4. CASE ReadStepStart
  BY <1>4 DEF ReadStepStart, Read, O!StepStart
<1>5. CASE ReadToolUse
  BY <1>5 DEF ReadToolUse, Read, O!ToolUse
<1>6. CASE ReadStepFinish
  BY <1>6 DEF ReadStepFinish, Read, O!StepFinish
<1>7. CASE PluginAppends
  BY <1>7 DEF PluginAppends
<1>8. CASE OutputEnds
  BY <1>8 DEF OutputEnds, C!EndOfOutput, O!EndOfOutput
<1>9. CASE Retry
  BY <1>9 DEF Retry, NewOutput
<1>10. CASE FinishTrial
  BY <1>10 DEF FinishTrial
<1>11. CASE UNCHANGED vars
  BY <1>11 DEF vars
<1> QED
  BY <1>1, <1>2, <1>3, <1>4, <1>5, <1>6, <1>7, <1>8, <1>9, <1>10, <1>11 DEF Next, Ended

\* The entries written in this attempt, as PluginAppends counts them.
LEMMA Written ==
    ASSUME file \in Seq(Nat \X Nat)
    PROVE  LET W == {i \in DOMAIN file : file[i][1] = attempt}
           IN  /\ Cardinality(W) \in Nat
               /\ file = <<>> => Cardinality(W) = 0
               /\ (\A k \in 1..Len(file) : file[k][1] = attempt) => Cardinality(W) = Len(file)
<1> DEFINE W == {i \in DOMAIN file : file[i][1] = attempt}
           D == 1..Len(file)
<1>1. Len(file) \in Nat /\ DOMAIN file = D /\ W \subseteq D
  OBVIOUS
<1>2. IsFiniteSet(D) /\ Cardinality(D) = Len(file)
  <2>1. IsFiniteSet(1..Len(file)) /\ Cardinality(1..Len(file)) = IF 1 > Len(file) THEN 0 ELSE Len(file) - 1 + 1
    BY <1>1, FS_Interval
  <2> QED
    BY <1>1, <2>1
<1>3. IsFiniteSet(W) /\ Cardinality(W) \in Nat
  BY <1>1, <1>2, FS_Subset, FS_CardinalityType
<1>4. file = <<>> => W = {}
  OBVIOUS
<1>5. (\A k \in 1..Len(file) : file[k][1] = attempt) => W = D
  BY <1>1
<1> HIDE DEF D
<1>6. file = <<>> => Cardinality(W) = 0
  BY <1>4, FS_EmptySet
<1> QED
  BY <1>2, <1>3, <1>5, <1>6

LEMMA FileStep ==
    ASSUME CallInv, FileInv, [Next]_vars PROVE FileInv'
<1>1. attempt \in Nat /\ file \in Seq(Nat \X Nat)
  BY DEF CallInv, FileInv
<1>2. CASE PluginAppends
  <2> DEFINE written == Cardinality({i \in DOMAIN file : file[i][1] = attempt})
  <2>1. /\ agent = "opencode" /\ agent' = agent /\ attempt' = attempt
        /\ file' = Append(file, <<attempt, written + 1>>)
    BY <1>2 DEF PluginAppends
  <2>2. /\ written \in Nat
        /\ file = <<>> => written = 0
        /\ (\A k \in 1..Len(file) : file[k][1] = attempt) => written = Len(file)
    BY <1>1, Written
  <2> HIDE DEF written
  <2> DEFINE more == Append(file, <<attempt, written + 1>>)
  <2>3. /\ more \in Seq(Nat \X Nat) /\ Len(more) = Len(file) + 1 /\ Len(file) \in Nat
        /\ \A k \in 1..Len(file) : more[k] = file[k]
        /\ more[Len(file) + 1] = <<attempt, written + 1>>
    BY <1>1, <2>2
  <2> HIDE DEF more
  <2>4. ASSUME NEW k \in 1..Len(more) PROVE more[k][1] <= attempt
    <3>1. \A i \in 1..Len(file) : file[i][1] <= attempt
      BY DEF FileInv
    <3>2. CASE k \in 1..Len(file)
      BY <2>3, <3>1, <3>2
    <3>3. CASE k = Len(file) + 1
      BY <1>1, <2>3, <3>3
    <3> QED
      BY <2>3, <3>2, <3>3
  <2>5. ASSUME NEW k \in 1..Len(more), more[1][1] = attempt PROVE more[k] = <<attempt, k>>
    <3>1. CASE file = <<>>
      <4>1. k = 1 /\ written = 0 /\ Len(file) = 0
        BY <2>2, <2>3, <2>5, <3>1
      <4> QED
        BY <2>3, <4>1
    <3>2. CASE file # <<>>
      <4>1. 1 \in 1..Len(file)
        BY <1>1, <3>2
      <4>2. file[1][1] = attempt
        BY <2>3, <2>5, <4>1
      <4>3. \A i \in 1..Len(file) : file[i] = <<attempt, i>>
        BY <4>2 DEF FileInv
      <4>4. written = Len(file)
        BY <2>2, <4>3
      <4>5. k \in 1..Len(file) \/ k = Len(file) + 1
        BY <2>3
      <4> QED
        BY <2>3, <4>3, <4>4, <4>5
    <3> QED
      BY <3>1, <3>2
  <2>6. file' = more
    BY <2>1 DEF more
  <2> QED
    BY <2>1, <2>3, <2>4, <2>5, <2>6 DEF FileInv
<1>3. CASE Retry
  <2>1. agent' = agent /\ file' = file /\ attempt' = attempt + 1
    BY <1>3 DEF Retry
  <2>2. \A k \in 1..Len(file) : /\ file[k][1] \in Nat /\ file[k][1] <= attempt
    BY <1>1 DEF FileInv
  <2>3. \A k \in 1..Len(file) : file[k][1] <= attempt + 1 /\ file[k][1] # attempt + 1
    BY <1>1, <2>2
  <2>4. \A k \in 1..Len(file) : 1 \in 1..Len(file)
    BY <1>1
  <2>5. agent = "claude" => file = <<>>
    BY DEF FileInv
  <2> QED
    BY <1>1, <2>1, <2>3, <2>4, <2>5 DEF FileInv
<1>4. CASE FinishTrial
  BY <1>4 DEF FileInv, FinishTrial
<1>5. CASE UNCHANGED <<agent, attempt, file>>
  BY <1>5 DEF FileInv
<1>6. ReadAssistant \/ ReadToolResult \/ ReadResult \/ ReadStepStart \/ ReadToolUse
      \/ ReadStepFinish \/ OutputEnds \/ Ended \/ UNCHANGED vars => UNCHANGED <<agent, attempt, file>>
  BY DEF ReadAssistant, ReadToolResult, ReadResult, ReadStepStart, ReadToolUse,
         ReadStepFinish, OutputEnds, Ended, Read, vars
<1> QED
  BY <1>2, <1>3, <1>4, <1>5, <1>6 DEF Next

-----------------------------------------------------------------------------
(* The steps of the parser of opencode. *)

\* A list made anew that holds no step and no call.
LEMMA NothingRead ==
    /\ ToolCalls(<<>>) = Calls(0) /\ O!Total(LlmTimes(<<>>)) = 0
    /\ O!Total(ToolTimes(<<>>)) = 0
<1>1. ToolCalls(<<>>) = <<>>
  <2>1. PICK f : ToolCalls(<<>>) = f[Len(<<>>)] /\ f[0] = <<>>
    BY CallsDefined
  <2> QED
    BY <2>1
<1>2. LlmTimes(<<>>) = <<>> /\ ToolTimes(<<>>) = <<>>
  BY DEF LlmTimes, ToolTimes
<1>3. O!Total(<<>>) = 0
  <2>1. <<>> \in Seq(Int)
    OBVIOUS
  <2> QED
    BY <2>1, TotalType
<1> QED
  BY <1>1, <1>2, <1>3, CallsSequence

\* The pending tools took some time.
LEMMA ToolTimeType ==
    ASSUME pending \in Seq(OpencodeTool)
    PROVE  O!ToolTime(pending) \in Int /\ O!ToolTime(pending) >= 0
<1> DEFINE times == [i \in DOMAIN pending |-> pending[i].dur]
<1>1. \A i \in 1..Len(pending) : pending[i].dur \in Nat
  <2>1. \A i \in 1..Len(pending) : pending[i] \in OpencodeTool
    OBVIOUS
  <2> QED
    BY <2>1 DEF OpencodeTool
<1>2. DOMAIN pending = 1..Len(pending) /\ Len(pending) \in Nat
  OBVIOUS
<1>3. times \in Seq(Int) /\ \A i \in 1..Len(times) : times[i] >= 0
  BY <1>1, <1>2
<1> HIDE DEF times
<1>4. O!Total(times) \in Int /\ O!Total(times) >= 0
  BY <1>3, TotalType
<1> QED
  BY <1>4 DEF O!ToolTime, times

LEMMA OpencodeTimes ==
    ASSUME NEW list \in Seq(OpencodeTool \cup OpencodeGen)
    PROVE  O!Total(LlmTimes(list)) \in Int
<1>1. \A x \in OpencodeTool \cup OpencodeGen : x.type = "generation" => x.llm \in Int
  BY DEF OpencodeTool, OpencodeGen
<1>2. LlmTimes(list) \in Seq(Int)
  BY <1>1, TimesOf
<1> QED
  BY <1>2, TotalType

LEMMA OpencodeStart ==
    ASSUME CallInv, OpencodeInv, ReadStepStart PROVE OpencodeInv'
<1>1. /\ agent = "opencode" /\ agent' = agent /\ clock' \in {clock, clock + 1}
      /\ stepStart' = clock' /\ inStep' = TRUE
      /\ pending' = pending /\ calls' = calls /\ steps' = steps
  BY DEF ReadStepStart, Read, O!StepStart
<1>2. /\ clock \in Nat /\ Started <= clock /\ Started \in Nat
  BY DEF CallInv, Started
<1>3. /\ stepStart \in Nat /\ inStep \in BOOLEAN
      /\ inStep => stepStart <= clock
      /\ O!Total(LlmTimes(steps)) <= (IF inStep THEN stepStart ELSE clock) - Started
      /\ pending \in Seq(OpencodeTool)
      /\ steps \in Seq(OpencodeTool \cup OpencodeGen)
      /\ \A i \in 1..Len(steps) : steps[i].type = "generation" =>
             steps[i].number = Cardinality(GensUpTo(i))
      /\ LogIn(steps, pending, calls)
  BY <1>1 DEF OpencodeInv
<1>4. O!Total(LlmTimes(steps)) \in Int
  BY <1>3, OpencodeTimes
<1>5. O!Total(LlmTimes(steps)) <= clock' - Started
  BY <1>1, <1>2, <1>3, <1>4
<1>6. stepStart' \in Nat /\ Started <= stepStart' /\ stepStart' <= clock'
  BY <1>1, <1>2
<1>7. (O!Total(LlmTimes(steps)) <= (IF inStep THEN stepStart ELSE clock) - Started)'
  BY <1>1, <1>5
<1>8. LogIn(steps, pending, calls)'
  BY <1>1, <1>3 DEF LogIn
<1>9. (\A i \in 1..Len(steps) : steps[i].type = "generation" =>
             steps[i].number = Cardinality(GensUpTo(i)))'
  BY <1>1, <1>3 DEF GensUpTo
<1> QED
  BY <1>1, <1>3, <1>6, <1>7, <1>8, <1>9 DEF OpencodeInv

LEMMA OpencodeToolUse ==
    ASSUME CallInv, OpencodeInv, ReadToolUse PROVE OpencodeInv'
<1>1. PICK since \in {0} \cup stepStart..clock : O!ToolUse(since, clock')
  BY DEF ReadToolUse
<1> DEFINE tool == [type |-> "tool", id |-> calls + 1, start |-> since,
                    end |-> IF since = 0 THEN 0 ELSE clock',
                    dur |-> IF since = 0 THEN 0 ELSE clock' - since]
<1>2. /\ agent = "opencode" /\ agent' = agent /\ clock' \in {clock, clock + 1}
      /\ inStep /\ inStep' = inStep /\ stepStart' = stepStart /\ steps' = steps
      /\ calls' = calls + 1 /\ pending' = Append(pending, tool)
  BY <1>1 DEF ReadToolUse, Read, O!ToolUse
<1>3. /\ clock \in Nat /\ Started <= clock /\ Started \in Nat /\ calls \in Nat
  BY DEF CallInv, Started
<1>4. /\ stepStart \in Nat /\ inStep \in BOOLEAN
      /\ Started <= stepStart /\ stepStart <= clock
      /\ O!Total(LlmTimes(steps)) <= stepStart - Started
      /\ pending \in Seq(OpencodeTool)
      /\ steps \in Seq(OpencodeTool \cup OpencodeGen)
      /\ \A i \in 1..Len(steps) : steps[i].type = "generation" =>
             steps[i].number = Cardinality(GensUpTo(i))
      /\ LogIn(steps, pending, calls)
  BY <1>2 DEF OpencodeInv
<1>5. tool \in OpencodeTool /\ tool.id = calls + 1
  <2>1. since \in Nat /\ (since # 0 => since <= clock)
    BY <1>3, <1>4
  <2>2. clock' \in Nat /\ clock <= clock'
    BY <1>2, <1>3
  <2>3. ASSUME since # 0 PROVE clock' - since \in Nat
    <3>1. since \in Nat /\ clock \in Nat /\ clock' \in Nat /\ since <= clock /\ clock <= clock'
      BY <1>3, <2>1, <2>2, <2>3
    <3>2. \A a, b \in Nat : a <= b => b - a \in Nat
      OBVIOUS
    <3>3. since <= clock'
      BY <3>1
    <3> QED
      BY <3>1, <3>2, <3>3
  <2>4. calls + 1 \in Nat
    BY <1>3
  <2> QED
    BY <2>1, <2>2, <2>3, <2>4 DEF OpencodeTool
<1> HIDE DEF tool
<1>6. /\ pending' \in Seq(OpencodeTool) /\ Len(pending') = Len(pending) + 1 /\ Len(pending) \in Nat
      /\ \A n \in 1..Len(pending) : pending'[n] = pending[n]
      /\ pending'[Len(pending) + 1] = tool
  BY <1>2, <1>4, <1>5
<1>7. LogIn(steps, pending, calls)'
  <2>1. /\ Len(pending) <= calls /\ ToolCalls(steps) = Calls(calls - Len(pending))
        /\ \A n \in 1..Len(pending) : pending[n].id = calls - Len(pending) + n
    BY <1>4 DEF LogIn
  <2>2. Len(pending') <= calls' /\ calls' - Len(pending') = calls - Len(pending)
    BY <1>2, <1>3, <1>6, <2>1
  <2>3. ASSUME NEW n \in 1..Len(pending')
        PROVE  pending'[n].id = calls' - Len(pending') + n
    <3>1. CASE n \in 1..Len(pending)
      BY <1>6, <2>1, <2>2, <3>1
    <3>2. CASE n = Len(pending) + 1
      <4>1. pending'[n].id = calls + 1
        BY <1>5, <1>6, <3>2
      <4> QED
        BY <1>3, <1>6, <2>2, <3>2, <4>1
    <3> QED
      BY <1>6, <3>1, <3>2
  <2> QED
    BY <1>2, <2>1, <2>2, <2>3 DEF LogIn
<1>8. (\A i \in 1..Len(steps) : steps[i].type = "generation" =>
             steps[i].number = Cardinality(GensUpTo(i)))'
  BY <1>2, <1>4 DEF GensUpTo
<1>9. stepStart' <= clock'
  BY <1>2, <1>3, <1>4
<1>10. (O!Total(LlmTimes(steps)) <= (IF inStep THEN stepStart ELSE clock) - Started)'
  BY <1>2, <1>4
<1> QED
  BY <1>2, <1>4, <1>6, <1>7, <1>8, <1>9, <1>10 DEF OpencodeInv

\* The number of the generations sent out.
LEMMA GenerationsCounted ==
    O!Generations = Cardinality({i \in DOMAIN steps : steps[i].type = "generation"})
BY DEF O!Generations, O!Cardinality, Cardinality

\* The generation sent out gets the next number.
LEMMA NextNumber ==
    ASSUME NEW S, steps \in Seq(S), NEW e \in S, NEW tools \in Seq(S), steps' \in Seq(S),
           Sends(steps, e, tools, steps'), e.type = "generation",
           \A n \in 1..Len(tools) : tools[n].type = "tool",
           e.number = O!Generations + 1,
           \A i \in 1..Len(steps) : steps[i].type = "generation" =>
               steps[i].number = Cardinality(GensUpTo(i))
    PROVE  \A i \in 1..Len(steps') : steps'[i].type = "generation" =>
               steps'[i].number = Cardinality(GensUpTo(i)')
<1> SUFFICES ASSUME NEW i \in 1..Len(steps'), steps'[i].type = "generation"
             PROVE  steps'[i].number = Cardinality(GensUpTo(i)')
  OBVIOUS
<1>1. /\ Len(steps) \in Nat /\ \A j \in 1..Len(steps) : steps'[j] = steps[j]
      /\ steps'[Len(steps) + 1] = e
      /\ \A j \in 1..Len(steps') :
             \/ j \in 1..Len(steps)
             \/ j = Len(steps) + 1
             \/ steps'[j].type = "tool"
  BY DEF Sends
<1>2. CASE i \in 1..Len(steps)
  <2>1. \A j \in 1..i : j \in 1..Len(steps)
    BY <1>1, <1>2
  <2>2. GensUpTo(i)' = GensUpTo(i)
    BY <1>1, <2>1 DEF GensUpTo
  <2>3. steps'[i] = steps[i]
    BY <1>1, <1>2
  <2> QED
    BY <1>2, <2>2, <2>3
<1>3. CASE i = Len(steps) + 1
  <2> DEFINE G == {j \in DOMAIN steps : steps[j].type = "generation"}
             D == 1..Len(steps)
  <2>1. G \subseteq D /\ DOMAIN steps = D
    OBVIOUS
  <2>2. IsFiniteSet(G)
    <3>1. IsFiniteSet(1..Len(steps))
      BY <1>1, FS_Interval
    <3> QED
      BY <2>1, <3>1, FS_Subset
  <2>3. GensUpTo(i)' = G \cup {i}
    <3>1. steps'[i].type = "generation" /\ \A j \in D : steps'[j] = steps[j]
      BY <1>1
    <3>2. \A j \in 1..i : j \in D \/ j = i
      BY <1>1, <1>3
    <3>3. i \in 1..i /\ D \subseteq 1..i
      BY <1>1, <1>3
    <3> QED
      BY <2>1, <3>1, <3>2, <3>3 DEF GensUpTo
  <2>4. i \notin G
    BY <1>1, <1>3, <2>1
  <2> HIDE DEF G
  <2>5. Cardinality(G \cup {i}) = Cardinality(G) + 1
    BY <2>2, <2>4, FS_AddElement
  <2>6. e.number = Cardinality(G) + 1
    BY GenerationsCounted DEF G
  <2> QED
    BY <1>1, <1>3, <2>3, <2>5, <2>6
<1> QED
  BY <1>1, <1>2, <1>3

LEMMA OpencodeFinish ==
    ASSUME CallInv, OpencodeInv, ReadStepFinish PROVE OpencodeInv'
<1> DEFINE S == OpencodeTool \cup OpencodeGen
           e == [type |-> "generation", start |-> stepStart, end |-> clock',
                 dur |-> clock' - stepStart, toolTime |-> O!ToolTime(pending),
                 llm |-> clock' - stepStart - O!ToolTime(pending),
                 number |-> O!Generations + 1]
<1>1. /\ agent = "opencode" /\ agent' = agent /\ clock' \in {clock, clock + 1}
      /\ inStep /\ inStep' = FALSE /\ stepStart' = stepStart /\ calls' = calls
      /\ steps' = (steps \o <<e>>) \o pending /\ pending' = <<>>
  BY DEF ReadStepFinish, Read, O!StepFinish
<1>2. /\ clock \in Nat /\ Started <= clock /\ Started \in Nat /\ calls \in Nat
  BY DEF CallInv, Started
<1>3. /\ stepStart \in Nat
      /\ Started <= stepStart /\ stepStart <= clock
      /\ O!Total(LlmTimes(steps)) <= stepStart - Started
      /\ pending \in Seq(OpencodeTool)
      /\ steps \in Seq(S)
      /\ LogIn(steps, pending, calls)
  BY <1>1 DEF OpencodeInv
<1>4. /\ \A i \in 1..Len(steps) : steps[i].type = "generation" =>
             steps[i].number = Cardinality(GensUpTo(i))
  BY <1>1 DEF OpencodeInv
<1>5. O!ToolTime(pending) \in Int /\ O!ToolTime(pending) >= 0
  BY <1>3, ToolTimeType
<1>6. O!Generations \in Nat
  <2>1. Len(steps) \in Nat /\ DOMAIN steps = 1..Len(steps)
    BY <1>3
  <2>2. IsFiniteSet(1..Len(steps))
    BY <2>1, FS_Interval
  <2>3. IsFiniteSet({i \in DOMAIN steps : steps[i].type = "generation"})
    BY <2>1, <2>2, FS_Subset
  <2> QED
    BY <2>3, FS_CardinalityType, GenerationsCounted
<1>7. clock' \in Nat /\ stepStart <= clock'
  BY <1>1, <1>2, <1>3
<1>8. e \in OpencodeGen
  <2>1. /\ clock' - stepStart \in Int /\ clock' - stepStart - O!ToolTime(pending) \in Int
        /\ O!Generations + 1 \in Nat
    BY <1>3, <1>5, <1>6, <1>7
  <2> QED
    BY <1>3, <1>5, <1>7, <2>1 DEF OpencodeGen
<1>9. /\ e.type = "generation" /\ e.number = O!Generations + 1
      /\ e.llm = clock' - stepStart - O!ToolTime(pending)
  OBVIOUS
<1> HIDE DEF e
<1>10. /\ pending \in Seq(S) /\ e \in S
       /\ \A x \in S : x.type = "generation" => x.llm \in Int
       /\ \A n \in 1..Len(pending) : pending[n].type = "tool"
  <2>1. \A n \in 1..Len(pending) : pending[n] \in OpencodeTool
    BY <1>3
  <2>2. \A n \in 1..Len(pending) : pending[n].type = "tool"
    BY <2>1 DEF OpencodeTool
  <2>3. \A x \in S : x.type = "generation" => x.llm \in Int
    BY DEF OpencodeTool, OpencodeGen
  <2>4. pending \in Seq(S)
    BY <1>3
  <2> QED
    BY <1>8, <2>2, <2>3, <2>4
<1> HIDE DEF S
<1>11. steps' \in Seq(S) /\ Sends(steps, e, pending, steps')
  BY <1>1, <1>3, <1>10, Sent
<1>12. O!Total(LlmTimes(steps')) <= clock' - Started
  <2>1. /\ O!Total(LlmTimes(steps)) \in Int
        /\ O!Total(LlmTimes(steps')) = O!Total(LlmTimes(steps)) + e.llm
    BY <1>3, <1>9, <1>10, <1>11, SentTimes
  <2> QED
    BY <1>2, <1>3, <1>5, <1>7, <1>9, <2>1
<1>13. ToolCalls(steps') = Calls(calls)
  <2>1. /\ steps \in Seq(S) /\ e \in S /\ pending \in Seq(S) /\ steps' \in Seq(S)
        /\ Sends(steps, e, pending, steps') /\ e.type = "generation"
        /\ \A n \in 1..Len(pending) : pending[n].type = "tool"
    BY <1>3, <1>9, <1>10, <1>11
  <2>2. calls \in Nat /\ LogIn(steps, pending, calls)
    BY <1>2, <1>3
  <2> QED
    BY <2>1, <2>2, SentCalls
<1>14. LogIn(steps, pending, calls)'
  <2>1. Len(pending') = 0 /\ calls' - 0 = calls /\ 0 <= calls'
    BY <1>1, <1>2
  <2> QED
    BY <1>1, <1>13, <2>1 DEF LogIn
<1>15. (\A i \in 1..Len(steps) : steps[i].type = "generation" =>
             steps[i].number = Cardinality(GensUpTo(i)))'
  BY <1>3, <1>4, <1>9, <1>10, <1>11, NextNumber
<1>16. (O!Total(LlmTimes(steps)) <= (IF inStep THEN stepStart ELSE clock) - Started)'
  BY <1>1, <1>12
<1>17. steps' \in Seq(OpencodeTool \cup OpencodeGen) /\ pending' \in Seq(OpencodeTool)
  BY <1>1, <1>11 DEF S
<1> QED
  BY <1>1, <1>3, <1>14, <1>15, <1>16, <1>17 DEF OpencodeInv

LEMMA OpencodeStep ==
    ASSUME CallInv, OpencodeInv, [Next]_vars PROVE OpencodeInv'
<1>1. CASE ReadStepStart
  BY <1>1, OpencodeStart
<1>2. CASE ReadToolUse
  BY <1>2, OpencodeToolUse
<1>3. CASE ReadStepFinish
  BY <1>3, OpencodeFinish
<1>4. CASE UNCHANGED <<agent, stepStart, inStep, pending, steps, calls, clock>>
  BY <1>4 DEF OpencodeInv, GensUpTo, LogIn
<1>5. PluginAppends \/ FinishTrial \/ Ended \/ UNCHANGED vars
      => UNCHANGED <<agent, stepStart, inStep, pending, steps, calls, clock>>
  BY DEF PluginAppends, FinishTrial, Ended, vars, opencodeVars
<1>6. CASE OutputEnds
  BY <1>4, <1>6 DEF OutputEnds, O!EndOfOutput, O!parserVars, OpencodeInv
<1>7. CASE Retry
  <2>1. /\ agent' = agent /\ stepStart' = 0 /\ inStep' = FALSE /\ pending' = <<>>
        /\ steps' = <<>> /\ calls' = 0 /\ clock' = Started
    BY <1>7 DEF Retry, NewOutput
  <2>2. Started \in Nat /\ 0 <= Started - Started
    BY DEF Started
  <2>3. LogIn(steps, pending, calls)'
    BY <2>1, NothingRead DEF LogIn
  <2>4. (O!Total(LlmTimes(steps)) <= (IF inStep THEN stepStart ELSE clock) - Started)'
    BY <2>1, <2>2, NothingRead
  <2>5. steps' \in Seq(OpencodeTool \cup OpencodeGen) /\ pending' \in Seq(OpencodeTool)
    BY <2>1
  <2>6. (\A i \in 1..Len(steps) : steps[i].type = "generation" =>
             steps[i].number = Cardinality(GensUpTo(i)))'
    BY <2>1
  <2> QED
    BY <2>1, <2>3, <2>4, <2>5, <2>6 DEF OpencodeInv
<1>8. CASE ReadAssistant \/ ReadToolResult \/ ReadResult
  BY <1>8 DEF ReadAssistant, ReadToolResult, ReadResult, Read, OpencodeInv
<1> QED
  BY <1>1, <1>2, <1>3, <1>4, <1>5, <1>6, <1>7, <1>8 DEF Next

-----------------------------------------------------------------------------
(* The merge of the file into the steps. *)

\* A generation counts itself.
LEMMA GensCounted ==
    ASSUME NEW i \in Nat \ {0}
    PROVE  /\ IsFiniteSet(GensUpTo(i)) /\ Cardinality(GensUpTo(i)) \in Nat
           /\ steps[i].type = "generation" => Cardinality(GensUpTo(i)) >= 1
<1>1. IsFiniteSet(1..i)
  BY FS_Interval
<1>2. IsFiniteSet(GensUpTo(i)) /\ Cardinality(GensUpTo(i)) \in Nat
  <2>1. GensUpTo(i) \subseteq 1..i
    BY DEF GensUpTo
  <2> QED
    BY <1>1, <2>1, FS_Subset, FS_CardinalityType
<1>3. ASSUME steps[i].type = "generation" PROVE Cardinality(GensUpTo(i)) >= 1
  <2>1. i \in GensUpTo(i)
    BY <1>3 DEF GensUpTo
  <2>2. Cardinality(GensUpTo(i)) # 0
    BY <1>2, <2>1, FS_EmptySet
  <2> QED
    BY <1>2, <2>2
<1> QED
  BY <1>2, <1>3

LEMMA ReasoningMerged ==
    ASSUME CallInv, FileInv, ClaudeInv, OpencodeInv, FinishTrial
    PROVE  ReasoningOfOwnGeneration'
<1>1. /\ merged' = [i \in DOMAIN steps |-> Merge(i)] /\ attempt' = attempt /\ steps' = steps
  BY DEF FinishTrial
<1> SUFFICES ASSUME \A i \in DOMAIN merged' : merged'[i] = <<>> \/ merged'[i][1] = attempt,
                    NEW i \in DOMAIN steps, merged'[i] # <<>>
             PROVE  merged'[i][2] = steps[i].number
  BY <1>1 DEF ReasoningOfOwnGeneration
<1>2. Len(steps) \in Nat /\ DOMAIN steps = 1..Len(steps)
  <2>1. CASE agent = "claude"
    BY <2>1 DEF ClaudeInv, ClaudeTypes
  <2>2. CASE agent = "opencode"
    BY <2>2 DEF OpencodeInv
  <2> QED
    BY <2>1, <2>2 DEF CallInv
<1>3. Len(file) \in Nat /\ file \in Seq(Nat \X Nat)
  BY DEF FileInv
<1>4. i \in Nat \ {0}
  BY <1>2
<1> DEFINE n == Cardinality(GensUpTo(i))
<1>5. /\ steps[i].type = "generation" /\ n <= Len(file) /\ merged'[i] = file[n]
  <2>1. merged'[i] = Merge(i)
    BY <1>1
  <2>2. merged'[i] = IF steps[i].type = "generation" /\ n <= Len(file) THEN file[n] ELSE <<>>
    BY <2>1 DEF Merge, GensUpTo
  <2> QED
    BY <2>2
<1>6. n \in 1..Len(file)
  BY <1>3, <1>4, <1>5, GensCounted
<1>7. agent = "opencode"
  <2>1. file # <<>>
    BY <1>3, <1>6
  <2> QED
    BY <2>1 DEF FileInv, CallInv
<1>8. steps[i].number = n
  BY <1>2, <1>5, <1>7 DEF OpencodeInv
<1>9. file[1][1] = attempt
  <2> DEFINE G == {j \in DOMAIN steps : steps[j].type = "generation"}
  <2>1. G \in SUBSET Nat /\ i \in G /\ G # {}
    BY <1>2, <1>5
  <2>2. PICK m \in G : \A j \in G : m <= j
    <3> HIDE DEF G
    <3> QED
      BY <2>1, Least
  <2>3. m \in DOMAIN steps /\ steps[m].type = "generation" /\ m \in Nat \ {0}
    BY <1>2
  <2>4. GensUpTo(m) = {m}
    <3>1. m \in GensUpTo(m)
      BY <2>3 DEF GensUpTo
    <3>2. ASSUME NEW j \in GensUpTo(m) PROVE j = m
      <4>1. j \in 1..m /\ j \in DOMAIN steps /\ steps[j].type = "generation"
        BY <1>2, <2>3 DEF GensUpTo
      <4>2. m <= j
        BY <2>2, <4>1
      <4> QED
        BY <2>3, <4>1, <4>2
    <3> QED
      BY <3>1, <3>2
  <2>5. Cardinality(GensUpTo(m)) = 1
    BY <2>4, FS_Singleton
  <2>6. merged'[m] = IF steps[m].type = "generation" /\ Cardinality(GensUpTo(m)) <= Len(file)
                     THEN file[Cardinality(GensUpTo(m))] ELSE <<>>
    BY <1>1, <2>3 DEF Merge, GensUpTo
  <2>7. 1 \in 1..Len(file) /\ 1 <= Len(file)
    BY <1>3, <1>6
  <2>8. merged'[m] = file[1]
    BY <2>3, <2>5, <2>6, <2>7
  <2>9. file[1] \in Nat \X Nat
    BY <1>3, <2>7
  <2>10. file[1] # <<>>
    <3>1. PICK a, b \in Nat : file[1] = <<a, b>>
      BY <2>9
    <3>2. Len(<<a, b>>) = 2 /\ Len(<<>>) = 0
      OBVIOUS
    <3> QED
      BY <3>1, <3>2
  <2>11. m \in DOMAIN merged'
    BY <1>1, <2>3
  <2> QED
    BY <2>8, <2>10, <2>11
<1>10. file[n] = <<attempt, n>>
  BY <1>6, <1>9 DEF FileInv
<1> QED
  BY <1>5, <1>8, <1>10

LEMMA ReasoningStep ==
    ASSUME CallInv, FileInv, ClaudeInv, OpencodeInv, ReasoningOfOwnGeneration, [Next]_vars
    PROVE  ReasoningOfOwnGeneration'
<1>1. CASE FinishTrial
  BY <1>1, ReasoningMerged
<1>2. ReadAssistant \/ ReadToolResult \/ ReadResult \/ ReadStepStart \/ ReadToolUse
      \/ ReadStepFinish \/ PluginAppends \/ OutputEnds \/ Retry => phase' # "finished"
  BY DEF ReadAssistant, ReadToolResult, ReadResult, ReadStepStart, ReadToolUse,
         ReadStepFinish, PluginAppends, OutputEnds, Retry, NewOutput, Read
<1>3. Ended \/ UNCHANGED vars => UNCHANGED <<phase, merged, attempt, steps>>
  BY DEF Ended, vars
<1> QED
  BY <1>1, <1>2, <1>3 DEF Next, ReasoningOfOwnGeneration

-----------------------------------------------------------------------------
(* A generation of claude is closed: finalizeGeneration. *)

ClaudeStep == ToolStep \cup GenStep

ClosedGen(g, ms, by) ==
    [type |-> "generation", start |-> g.start, end |-> ms,
     dur |-> IF ms > 0 THEN ms - g.start ELSE 0, toolTime |-> g.toolTime,
     llm |-> C!AtLeastZero((IF ms > 0 THEN ms - g.start ELSE 0) - g.toolTime),
     turns |-> g.turns, by |-> by]

LEMMA SentOut ==
    ASSUME NEW list \in Seq(ClaudeStep), NEW g \in OpenGen, NEW ms \in Nat,
           NEW by \in {"assistant", "result", "end"}, NEW more,
           more = list \o C!Finalize(g, ms, by)
    PROVE  /\ ClosedGen(g, ms, by) \in GenStep
           /\ g.tools \in Seq(ToolStep)
           /\ \A n \in 1..Len(g.tools) : g.tools[n] \in ToolStep
           /\ more \in Seq(ClaudeStep)
           /\ Sends(list, ClosedGen(g, ms, by), g.tools, more)
<1> DEFINE dur == IF ms > 0 THEN ms - g.start ELSE 0
           e == ClosedGen(g, ms, by)
<1>1. /\ g.start \in Nat /\ g.toolTime \in Int /\ g.turns \in Seq(Turns)
      /\ g.tools \in Seq(ToolStep)
  BY DEF OpenGen
<1>2. dur \in Int /\ C!AtLeastZero(dur - g.toolTime) \in Int
  BY <1>1 DEF C!AtLeastZero
<1>3. e \in GenStep
  BY <1>1, <1>2 DEF GenStep, ClosedGen
<1>4. more = list \o (<<e>> \o g.tools)
  BY DEF C!Finalize, ClosedGen
<1> HIDE DEF e
<1>5. e \in ClaudeStep /\ g.tools \in Seq(ClaudeStep)
  BY <1>1, <1>3 DEF ClaudeStep
<1>6. more \in Seq(ClaudeStep) /\ Sends(list, e, g.tools, more)
  BY <1>4, <1>5, Sent
<1>7. \A n \in 1..Len(g.tools) : g.tools[n] \in ToolStep
  BY <1>1
<1> QED
  BY <1>1, <1>3, <1>6, <1>7 DEF e

\* Each step of the list is an old one, the generation or one of its tools.
LEMMA SentAnswers ==
    ASSUME NEW list \in Seq(ClaudeStep), NEW e \in GenStep, NEW tools \in Seq(ToolStep), NEW more,
           Sends(list, e, tools, more), AnswersIn(list),
           \A n \in 1..Len(tools) : OwnAnswer(tools[n])
    PROVE  AnswersIn(more)
<1> SUFFICES ASSUME NEW i \in 1..Len(more), more[i].type = "tool" PROVE OwnAnswer(more[i])
  BY DEF AnswersIn
<1>1. CASE i \in 1..Len(list) /\ more[i] = list[i]
  BY <1>1 DEF AnswersIn
<1>2. CASE i = Len(list) + 1 /\ more[i] = e
  BY <1>2 DEF GenStep
<1>3. CASE i - Len(list) - 1 \in 1..Len(tools) /\ more[i] = tools[i - Len(list) - 1]
  BY <1>3
<1> QED
  BY <1>1, <1>2, <1>3 DEF Sends

LEMMA SentThinking ==
    ASSUME NEW list \in Seq(ClaudeStep), NEW e \in GenStep, NEW tools \in Seq(ToolStep), NEW more,
           Sends(list, e, tools, more), ThinkingIn(list), OneAnswer(e.turns),
           C!ThinkingOnly(e) => e.by # "assistant"
    PROVE  ThinkingIn(more)
<1> SUFFICES ASSUME NEW i \in 1..Len(more), more[i].type = "generation"
             PROVE  /\ OneAnswer(more[i].turns)
                    /\ C!ThinkingOnly(more[i]) => more[i].by # "assistant"
  BY DEF ThinkingIn
<1>1. CASE i \in 1..Len(list) /\ more[i] = list[i]
  BY <1>1 DEF ThinkingIn
<1>2. CASE i = Len(list) + 1 /\ more[i] = e
  BY <1>2
<1>3. CASE i - Len(list) - 1 \in 1..Len(tools) /\ more[i] = tools[i - Len(list) - 1]
  <2>1. more[i] \in ToolStep
    BY <1>3
  <2> QED
    BY <2>1 DEF ToolStep
<1> QED
  BY <1>1, <1>2, <1>3 DEF Sends

LEMMA SentTimed ==
    ASSUME NEW list \in Seq(ClaudeStep), NEW e \in GenStep, NEW tools \in Seq(ToolStep), NEW more,
           NEW stamped \in BOOLEAN, NEW now \in Nat,
           Sends(list, e, tools, more), TimesIn(list, stamped, now),
           TimesKnown(e, stamped, now),
           \A n \in 1..Len(tools) : TimesOfTool(tools[n], stamped, now)
    PROVE  TimesIn(more, stamped, now)
<1> SUFFICES ASSUME NEW i \in 1..Len(more) PROVE TimesKnown(more[i], stamped, now)
  BY DEF TimesIn
<1>1. CASE i \in 1..Len(list) /\ more[i] = list[i]
  BY <1>1 DEF TimesIn
<1>2. CASE i = Len(list) + 1 /\ more[i] = e
  BY <1>2
<1>3. CASE i - Len(list) - 1 \in 1..Len(tools) /\ more[i] = tools[i - Len(list) - 1]
  <2>1. more[i] \in ToolStep
    BY <1>3
  <2> QED
    BY <1>3, <2>1 DEF ToolStep, TimesKnown
<1> QED
  BY <1>1, <1>2, <1>3 DEF Sends

\* The model time and the calls after that.
LEMMA ClaudeTimes ==
    ASSUME NEW list \in Seq(ClaudeStep)
    PROVE  /\ LlmTimes(list) \in Seq(Int) /\ O!Total(LlmTimes(list)) \in Int
           /\ Len(LlmTimes(list)) = Len(list)
           /\ \A i \in 1..Len(list) :
                  LlmTimes(list)[i] = IF list[i].type = "generation" THEN list[i].llm ELSE 0
<1>1. \A x \in ClaudeStep : x.type = "generation" => x.llm \in Int
  BY DEF ClaudeStep, ToolStep, GenStep
<1>2. /\ LlmTimes(list) \in Seq(Int) /\ Len(LlmTimes(list)) = Len(list)
      /\ \A i \in 1..Len(list) :
             LlmTimes(list)[i] = IF list[i].type = "generation" THEN list[i].llm ELSE 0
  BY <1>1, TimesOf
<1> QED
  BY <1>2, TotalType

LEMMA ClaudeSentTimes ==
    ASSUME NEW list \in Seq(ClaudeStep), NEW e \in GenStep, NEW tools \in Seq(ToolStep),
           NEW more \in Seq(ClaudeStep), Sends(list, e, tools, more)
    PROVE  O!Total(LlmTimes(more)) = O!Total(LlmTimes(list)) + e.llm
<1>1. \A x \in ClaudeStep : x.type = "generation" => x.llm \in Int
  BY DEF ClaudeStep, ToolStep, GenStep
<1>2. /\ e \in ClaudeStep /\ tools \in Seq(ClaudeStep) /\ e.type = "generation"
      /\ \A n \in 1..Len(tools) : tools[n].type = "tool"
  <2>1. ToolStep \subseteq ClaudeStep /\ GenStep \subseteq ClaudeStep
    BY DEF ClaudeStep
  <2>2. tools \in Seq(ClaudeStep) /\ \A n \in 1..Len(tools) : tools[n] \in ToolStep
    BY <2>1
  <2>3. \A n \in 1..Len(tools) : tools[n].type = "tool"
    BY <2>2 DEF ToolStep
  <2>4. e.type = "generation"
    BY DEF GenStep
  <2> QED
    BY <2>1, <2>2, <2>3, <2>4
<1> QED
  BY <1>1, <1>2, SentTimes

LEMMA ClaudeSentCalls ==
    ASSUME NEW list \in Seq(ClaudeStep), NEW e \in GenStep, NEW tools \in Seq(ToolStep),
           NEW more \in Seq(ClaudeStep), Sends(list, e, tools, more),
           NEW total \in Nat, LogIn(list, tools, total)
    PROVE  ToolCalls(more) = Calls(total)
<1>1. /\ e \in ClaudeStep /\ tools \in Seq(ClaudeStep) /\ e.type = "generation"
      /\ \A n \in 1..Len(tools) : tools[n].type = "tool"
  <2>1. ToolStep \subseteq ClaudeStep /\ GenStep \subseteq ClaudeStep
    BY DEF ClaudeStep
  <2>2. tools \in Seq(ClaudeStep) /\ \A n \in 1..Len(tools) : tools[n] \in ToolStep
    BY <2>1
  <2>3. \A n \in 1..Len(tools) : tools[n].type = "tool"
    BY <2>2 DEF ToolStep
  <2>4. e.type = "generation"
    BY DEF GenStep
  <2> QED
    BY <2>1, <2>2, <2>3, <2>4
<1> QED
  BY <1>1, SentCalls

\* Times that fit fit later, too.
LEMMA ToolLater ==
    ASSUME NEW s \in ToolStep, NEW stamped \in BOOLEAN, NEW now \in Nat, NEW later \in Nat,
           now <= later, TimesOfTool(s, stamped, now)
    PROVE  TimesOfTool(s, stamped, later)
<1>1. s.start \in Nat /\ s.end \in Nat
  BY DEF ToolStep
<1>2. s.start <= now => s.start <= later
  BY <1>1
<1>3. s.end <= now => s.end <= later
  BY <1>1
<1> QED
  BY <1>2, <1>3 DEF TimesOfTool

LEMMA GenLater ==
    ASSUME NEW s \in GenStep, NEW stamped \in BOOLEAN, NEW now \in Nat, NEW later \in Nat,
           now <= later
    PROVE  /\ TimesOfGen(s, stamped, now) => TimesOfGen(s, stamped, later)
           /\ TimesOfLast(s, stamped, now) => TimesOfLast(s, stamped, later)
<1>1. s.start \in Nat /\ s.end \in Nat
  BY DEF GenStep
<1>2. s.end <= now => s.end <= later
  BY <1>1
<1>3. s.start <= now => s.start <= later
  BY <1>1
<1> QED
  BY <1>2, <1>3 DEF TimesOfGen, TimesOfLast

LEMMA TimesLater ==
    ASSUME NEW list \in Seq(ClaudeStep), NEW stamped \in BOOLEAN, NEW now \in Nat,
           NEW later \in Nat, now <= later, TimesIn(list, stamped, now)
    PROVE  TimesIn(list, stamped, later)
<1> SUFFICES ASSUME NEW i \in 1..Len(list) PROVE TimesKnown(list[i], stamped, later)
  BY DEF TimesIn
<1>1. CASE list[i] \in ToolStep
  <2>1. list[i].type = "tool" /\ list[i].type # "generation"
    BY <1>1 DEF ToolStep
  <2> QED
    BY <1>1, <2>1, ToolLater DEF TimesIn, TimesKnown
<1>2. CASE list[i] \in GenStep
  <2>1. list[i].type = "generation" /\ list[i].type # "tool"
    BY <1>2 DEF GenStep
  <2> QED
    BY <1>2, <2>1, GenLater DEF TimesIn, TimesKnown
<1>3. list[i] \in ClaudeStep
  OBVIOUS
<1> QED
  BY <1>1, <1>2, <1>3 DEF ClaudeStep

\* What the invariant says of the pending generation.
LEMMA Pending ==
    ASSUME ClaudeInv, agent = "claude", gen # <<>>
    PROVE  /\ gen[1] \in OpenGen /\ gen = <<gen[1]>>
           /\ OneAnswer(gen[1].turns)
           /\ LogIn(steps, gen[1].tools, calls)
           /\ stamps \in EvenlyStamped /\ phase = "reading" =>
                  TimesOfOpen(gen[1], stamps # {}, clock)
           /\ stamps = Kinds => O!Total(LlmTimes(steps)) <= gen[1].start - Started
<1>1. gen \in Seq(OpenGen) /\ Len(gen) <= 1
  BY DEF ClaudeInv, ClaudeTypes
<1>2. gen[1] \in OpenGen /\ gen = <<gen[1]>>
  <2>1. Len(gen) = 1
    <3>1. Len(gen) \in Nat \ {0}
      BY <1>1, EmptySeq
    <3>2. \A n \in Nat \ {0} : n <= 1 => n = 1
      OBVIOUS
    <3> QED
      BY <1>1, <3>1, <3>2
  <2> QED
    BY <1>1, <2>1
<1>3. LogIn(steps, gen[1].tools, calls)
  BY DEF ClaudeInv, Held
<1> QED
  BY <1>2, <1>3 DEF ClaudeInv, LogIn, ThinkingInv, TimesInv, LatencyInv

\* The pending generation is closed while the output is read.
LEMMA Closed ==
    ASSUME CallInv, ClaudeInv, agent = "claude", phase = "reading", gen # <<>>,
           NEW now \in Nat, clock <= now, NEW ms \in {0, now},
           stamps = Kinds => ms = now, stamps = {} => ms = 0,
           NEW by \in {"assistant", "result"}, by = "assistant" => ~C!ThinkingOnly(gen[1]),
           NEW more, more = steps \o C!Finalize(gen[1], ms, by)
    PROVE  /\ more \in Seq(ClaudeStep)
           /\ ~resumed => AnswersIn(more)
           /\ ThinkingIn(more)
           /\ stamps \in EvenlyStamped => TimesIn(more, stamps # {}, now)
           /\ stamps = Kinds => O!Total(LlmTimes(more)) <= now - Started /\ AllTimed(more)
           /\ ToolCalls(more) = Calls(calls)
           /\ by = "result" => \E i \in 1..Len(more) :
                  more[i].type = "generation" /\ more[i].by = "result"
<1> DEFINE g == gen[1]
           e == ClosedGen(g, ms, by)
<1>1. /\ g \in OpenGen /\ OneAnswer(g.turns)
      /\ LogIn(steps, g.tools, calls)
      /\ stamps \in EvenlyStamped => TimesOfOpen(g, stamps # {}, clock)
      /\ stamps = Kinds => O!Total(LlmTimes(steps)) <= g.start - Started
  BY Pending
<1>2. steps \in Seq(ClaudeStep) /\ ThinkingIn(steps)
  BY DEF ClaudeInv, ClaudeTypes, ThinkingInv, ClaudeStep
<1>3. ms \in Nat /\ by \in {"assistant", "result", "end"}
  OBVIOUS
<1>4. /\ e \in GenStep /\ g.tools \in Seq(ToolStep)
      /\ \A n \in 1..Len(g.tools) : g.tools[n] \in ToolStep
      /\ more \in Seq(ClaudeStep) /\ Sends(steps, e, g.tools, more)
  <2> HIDE DEF g
  <2>1. more = steps \o C!Finalize(g, ms, by)
    BY DEF g
  <2> QED
    BY <1>1, <1>2, <1>3, <2>1, SentOut
<1>5. /\ e.type = "generation" /\ e.start = g.start /\ e.end = ms /\ e.toolTime = g.toolTime
      /\ e.dur = IF ms > 0 THEN ms - g.start ELSE 0
      /\ e.llm = C!AtLeastZero(e.dur - g.toolTime)
      /\ e.turns = g.turns /\ e.by = by
  BY DEF ClosedGen
<1> HIDE DEF e
<1>6. g.start \in Nat /\ g.toolTime \in Int
  BY <1>1 DEF OpenGen
<1>7. clock \in Nat /\ Started <= clock /\ Started \in Nat /\ Started > 0 /\ calls \in Nat
  BY DEF CallInv, Started
<1> HIDE DEF g
<1> DEFINE tools == g.tools
<1>8. /\ steps \in Seq(ClaudeStep) /\ tools \in Seq(ToolStep)
      /\ more \in Seq(ClaudeStep) /\ Sends(steps, e, tools, more)
      /\ Len(tools) \in Nat /\ Len(steps) \in Nat
  BY <1>2, <1>4
<1> HIDE DEF tools
<1>9. ASSUME ~resumed PROVE AnswersIn(more)
  <2>1. AnswersIn(steps) /\ \A n \in 1..Len(tools) : OwnAnswer(tools[n])
    BY <1>9 DEF ClaudeInv, AnswerInv, g, tools
  <2>2. e \in GenStep
    BY <1>4
  <2> QED
    BY <1>8, <2>1, <2>2, SentAnswers
<1>10. ThinkingIn(more)
  <2>1. C!ThinkingOnly(e) <=> C!ThinkingOnly(g)
    BY <1>5 DEF C!ThinkingOnly
  <2>2. OneAnswer(e.turns) /\ (C!ThinkingOnly(e) => e.by # "assistant")
    BY <1>1, <1>5, <2>1 DEF g
  <2> QED
    BY <1>2, <1>4, <2>2, SentThinking
<1>11. ASSUME stamps \in EvenlyStamped PROVE TimesIn(more, stamps # {}, now)
  <2> DEFINE stamped == stamps # {}
  <2>1. /\ TimesIn(steps, stamped, clock) /\ TimesOfOpen(g, stamped, clock)
        /\ stamped \in BOOLEAN /\ (~stamped => ms = 0)
    BY <1>1, <1>11 DEF ClaudeInv, TimesInv
  <2> HIDE DEF stamped
  <2>2. TimesIn(steps, stamped, now)
    BY <1>2, <1>7, <2>1, TimesLater
  <2>3. \A n \in 1..Len(g.tools) : TimesOfTool(g.tools[n], stamped, now)
    BY <1>4, <1>7, <2>1, ToolLater DEF TimesOfOpen
  <2>4. TimesKnown(e, stamped, now)
    <3>0. TimesOfGen(e, stamped, now) \/ TimesOfLast(e, stamped, now) => TimesKnown(e, stamped, now)
      BY <1>5 DEF TimesKnown
    <3>1. CASE stamped /\ ms = now
      <4>1. Started <= g.start /\ g.start <= clock /\ g.toolTime >= 0 /\ ms = now
        BY <2>1, <3>1 DEF TimesOfOpen
      <4>2. e.dur = now - g.start /\ e.dur \in Int /\ g.start <= now
        BY <1>5, <1>6, <1>7, <4>1
      <4>3. 0 <= e.llm /\ e.llm <= e.dur
        BY <1>5, <1>6, <1>7, <4>1, <4>2 DEF C!AtLeastZero
      <4>4. TimesOfGen(e, stamped, now)
        BY <1>5, <3>1, <4>1, <4>2, <4>3 DEF TimesOfGen
      <4> QED
        BY <3>0, <4>4
    <3>2. CASE ~stamped
      <4>1. g.start = 0 /\ g.toolTime = 0 /\ ms = 0
        BY <2>1, <3>2 DEF TimesOfOpen
      <4>2. e.dur = 0 /\ e.llm = 0
        BY <1>5, <4>1 DEF C!AtLeastZero
      <4>3. TimesOfGen(e, stamped, now)
        BY <1>5, <3>2, <4>1, <4>2 DEF TimesOfGen
      <4> QED
        BY <3>0, <4>3
    <3>3. CASE stamped /\ ms = 0
      <4>1. Started <= g.start /\ g.start <= clock /\ g.toolTime >= 0
        BY <2>1, <3>3 DEF TimesOfOpen
      <4>2. g.start <= now
        BY <1>6, <1>7, <4>1
      <4>3. e.end = 0 /\ e.dur = 0 /\ e.start = g.start /\ e.toolTime = g.toolTime
        BY <1>5, <3>3
      <4>4. TimesOfLast(e, stamped, now)
        BY <3>3, <4>1, <4>2, <4>3 DEF TimesOfLast
      <4> QED
        BY <3>0, <4>4
    <3> QED
      BY <3>1, <3>2, <3>3
  <2>5. TimesIn(more, stamped, now)
    BY <1>2, <1>4, <2>1, <2>2, <2>3, <2>4, SentTimed
  <2> QED
    BY <2>5 DEF stamped
<1>12. ASSUME stamps = Kinds PROVE O!Total(LlmTimes(more)) <= now - Started /\ AllTimed(more)
  <2>0. AllTimed(more)
    <3> SUFFICES ASSUME NEW i \in 1..Len(more), more[i].type = "generation" PROVE more[i].end > 0
      BY DEF AllTimed
    <3>1. CASE i \in 1..Len(steps) /\ more[i] = steps[i]
      BY <1>12, <3>1 DEF ClaudeInv, LatencyInv, AllTimed
    <3>2. CASE i = Len(steps) + 1 /\ more[i] = e
      BY <1>5, <1>7, <1>12, <3>2
    <3>3. CASE i - Len(steps) - 1 \in 1..Len(tools) /\ more[i] = tools[i - Len(steps) - 1]
      <4>1. more[i] \in ToolStep
        BY <1>8, <3>3
      <4> QED
        BY <4>1 DEF ToolStep
    <3> QED
      BY <1>8, <3>1, <3>2, <3>3 DEF Sends
  <2>1. O!Total(LlmTimes(more)) = O!Total(LlmTimes(steps)) + e.llm
    BY <1>2, <1>4, ClaudeSentTimes
  <2>2. O!Total(LlmTimes(steps)) \in Int /\ O!Total(LlmTimes(steps)) <= g.start - Started
    BY <1>1, <1>2, <1>12, ClaudeTimes
  <2>3. g.start <= clock /\ g.toolTime >= 0
    <3>1. Kinds # {} /\ Kinds \in EvenlyStamped
      BY DEF Kinds, EvenlyStamped
    <3> QED
      BY <1>1, <1>12, <3>1 DEF TimesOfOpen
  <2>4. e.dur = now - g.start /\ e.dur >= 0
    BY <1>5, <1>6, <1>7, <1>12, <2>3
  <2>5. e.llm <= now - g.start /\ e.llm \in Int
    BY <1>5, <1>6, <1>7, <2>3, <2>4 DEF C!AtLeastZero
  <2> QED
    BY <1>6, <1>7, <2>0, <2>1, <2>2, <2>5
<1>13. ToolCalls(more) = Calls(calls)
  <2>1. /\ steps \in Seq(ClaudeStep) /\ e \in GenStep /\ tools \in Seq(ToolStep)
        /\ more \in Seq(ClaudeStep) /\ Sends(steps, e, tools, more)
    BY <1>4, <1>8
  <2>2. calls \in Nat /\ LogIn(steps, tools, calls)
    BY <1>1, <1>7 DEF tools
  <2> QED
    BY <2>1, <2>2, ClaudeSentCalls, ZenonT(60)
<1>14. Len(steps) + 1 \in 1..Len(more) /\ more[Len(steps) + 1] = e
  <2>1. Len(more) = Len(steps) + 1 + Len(tools) /\ more[Len(steps) + 1] = e
    BY <1>8 DEF Sends
  <2> QED
    BY <1>8, <2>1
<1> QED
  BY <1>4, <1>5, <1>9, <1>10, <1>11, <1>12, <1>13, <1>14

-----------------------------------------------------------------------------
(* claude's assistant event: it opens a generation or goes on with one that *)
(* has only thought so far, and then adds its turn.                         *)

\* The generation and the map before the turn is added.
Opened(g, old) ==
    /\ steps' \in Seq(ClaudeStep) /\ ThinkingIn(steps')
    /\ \A i \in 1..Len(g.turns) : ~C!Answers(g.turns[i])
    /\ ~resumed => /\ AnswersIn(steps')
                   /\ \A n \in 1..Len(g.tools) : OwnAnswer(g.tools[n])
    /\ stamps \in EvenlyStamped => /\ TimesIn(steps', stamps # {}, clock')
                                 /\ TimesOfOpen(g, stamps # {}, clock')
    /\ stamps = Kinds => O!Total(LlmTimes(steps')) <= g.start - Started /\ AllTimed(steps')
    /\ LogIn(steps', g.tools, calls)
    /\ old \in [DOMAIN old -> Nat \ {0}]
    /\ ~resumed' => \A id \in DOMAIN old :
           old[id] <= Len(g.tools) /\ g.tools[old[id]].id = id

MapNext(old, g, n) ==
    [id \in DOMAIN old \cup (calls + 1)..(calls + n) |->
        IF id \in (calls + 1)..(calls + n) THEN Len(g.tools) + id - calls ELSE old[id]]

TurnAdded(g, turn, ms) ==
    [g EXCEPT !.turns = Append(@, turn),
              !.tools = @ \o [i \in 1..turn.calls |-> C!NewTool(calls + i, ms)]]

\* A generation that has only now been opened.
LEMMA NewlyOpened ==
    ASSUME CallInv, NEW now \in Nat, clock <= now, NEW ms \in {0, now},
           stamps \in {Kinds, TurnKinds} => ms = now, stamps = {} => ms = 0
    PROVE  LET g == C!NewGeneration(ms)
           IN  /\ g \in OpenGen /\ g.start = ms /\ g.turns = <<>> /\ g.tools = <<>>
               /\ stamps \in EvenlyStamped => TimesOfOpen(g, stamps # {}, now)
<1> DEFINE g == C!NewGeneration(ms)
<1>1. /\ g.start = ms /\ g.turns = <<>> /\ g.tools = <<>> /\ g.toolTime = 0
      /\ g = [start |-> ms, toolTime |-> 0, turns |-> <<>>, tools |-> <<>>]
  BY DEF C!NewGeneration
<1>2. g \in OpenGen
  <2>1. ms \in Nat /\ <<>> \in Seq(Turns) /\ <<>> \in Seq(ToolStep)
    OBVIOUS
  <2> HIDE DEF g
  <2> QED
    BY <1>1, <2>1 DEF OpenGen
<1> HIDE DEF g
<1>3. ASSUME stamps \in EvenlyStamped PROVE TimesOfOpen(g, stamps # {}, now)
  <2>1. Len(g.tools) = 0
    BY <1>1
  <2>2. Started <= now /\ 0 >= 0
    BY DEF CallInv, Started
  <2>3. Kinds # {} /\ TurnKinds # {}
    BY DEF Kinds, TurnKinds
  <2>4. \A n \in 1..Len(g.tools) : TimesOfTool(g.tools[n], stamps # {}, now)
    BY <2>1
  <2>5. CASE stamps = {}
    BY <1>1, <2>4, <2>5 DEF TimesOfOpen
  <2>6. CASE stamps \in {Kinds, TurnKinds}
    BY <1>1, <2>2, <2>3, <2>4, <2>6 DEF TimesOfOpen
  <2> QED
    BY <1>3, <2>5, <2>6 DEF EvenlyStamped
<1> QED
  BY <1>1, <1>2, <1>3 DEF g

LEMMA AssistantOpens ==
    ASSUME CallInv, ClaudeInv, agent = "claude", phase = "reading",
           NEW turn \in Turns, clock' \in Nat, clock <= clock', NEW ms \in {0, clock'},
           stamps \in {Kinds, TurnKinds} => ms = clock', stamps = {} => ms = 0,
           C!Assistant(turn, ms)
    PROVE  \E g, old :
               /\ g \in OpenGen /\ Opened(g, old)
               /\ gen' = <<TurnAdded(g, turn, ms)>>
               /\ toolMap' = MapNext(old, g, turn.calls)
<1> DEFINE closes == gen # <<>> /\ ~C!ThinkingOnly(gen[1])
           g == IF gen = <<>> \/ closes THEN C!NewGeneration(ms) ELSE gen[1]
           old == C!MapBefore(closes)
<1>1. /\ steps' = IF closes THEN steps \o C!Finalize(gen[1], ms, "assistant") ELSE steps
      /\ gen' = <<TurnAdded(g, turn, ms)>>
      /\ toolMap' = MapNext(old, g, turn.calls)
  BY DEF C!Assistant, TurnAdded, MapNext
<1>2. /\ toolMap \in [DOMAIN toolMap -> Nat \ {0}]
      /\ steps \in Seq(ClaudeStep) /\ ThinkingIn(steps) /\ calls \in Nat
      /\ LogIn(steps, Held, calls)
      /\ clock \in Nat /\ Started \in Nat /\ Started <= clock
  BY DEF ClaudeInv, ClaudeTypes, ClaudeStep, ThinkingInv, CallInv, Started
<1>3. stamps \in EvenlyStamped => TimesIn(steps, stamps # {}, clock)
  BY DEF ClaudeInv, TimesInv
<1>4. stamps \in EvenlyStamped => TimesIn(steps, stamps # {}, clock')
  BY <1>2, <1>3, TimesLater
<1>5. resumed' = (resumed \/ \E i \in 1..Len(steps) :
                      steps[i].type = "generation" /\ steps[i].by = "result")
  <2>1. DOMAIN steps = 1..Len(steps)
    BY <1>2
  <2>2. resumed' = (resumed \/ \E i \in DOMAIN steps :
                        steps[i].type = "generation" /\ steps[i].by = "result")
    BY DEF C!Assistant
  <2> QED
    BY <2>1, <2>2
<1>6. ~resumed => AnswersIn(steps)
  BY DEF ClaudeInv, AnswerInv
<1>7. LET n == C!NewGeneration(ms)
      IN  /\ n \in OpenGen /\ n.start = ms /\ n.turns = <<>> /\ n.tools = <<>>
          /\ stamps \in EvenlyStamped => TimesOfOpen(n, stamps # {}, clock')
  BY <1>2, NewlyOpened
<1>8. Len(<<>>) = 0 /\ 1..0 = {} /\ C!NoTools \in [DOMAIN C!NoTools -> Nat \ {0}]
      /\ DOMAIN C!NoTools = {}
  BY DEF C!NoTools
<1>9. CASE gen = <<>>
  <2>1. /\ g = C!NewGeneration(ms) /\ steps' = steps /\ old = toolMap
    BY <1>1, <1>9 DEF C!MapBefore
  <2>2. /\ g \in OpenGen /\ g.start = ms /\ g.turns = <<>> /\ g.tools = <<>>
        /\ stamps \in EvenlyStamped => TimesOfOpen(g, stamps # {}, clock')
    BY <1>7, <2>1
  <2> HIDE DEF g, old, closes
  <2>3. LogIn(steps', g.tools, calls)
    BY <1>2, <1>9, <2>1, <2>2 DEF Held
  <2>4. ASSUME stamps = Kinds
        PROVE  O!Total(LlmTimes(steps')) <= g.start - Started /\ AllTimed(steps')
    <3>1. O!Total(LlmTimes(steps)) <= clock - Started /\ AllTimed(steps)
      BY <1>9, <2>4 DEF ClaudeInv, LatencyInv
    <3>2. O!Total(LlmTimes(steps)) \in Int
      BY <1>2, ClaudeTimes
    <3> QED
      BY <1>2, <2>1, <2>2, <2>4, <3>1, <3>2
  <2>5. ~resumed' => DOMAIN old = {}
    BY <1>5, <1>9, <2>1 DEF ClaudeInv, MapInv
  <2>6. Opened(g, old)
    BY <1>2, <1>4, <1>6, <1>8, <2>1, <2>2, <2>3, <2>4, <2>5 DEF Opened
  <2> QED
    BY <1>1, <2>2, <2>6
<1>10. CASE gen # <<>> /\ C!ThinkingOnly(gen[1])
  <2>1. /\ g = gen[1] /\ steps' = steps /\ old = toolMap
    BY <1>1, <1>10 DEF C!MapBefore
  <2>2. /\ g \in OpenGen /\ LogIn(steps', g.tools, calls)
        /\ stamps \in EvenlyStamped => TimesOfOpen(g, stamps # {}, clock)
        /\ stamps = Kinds => O!Total(LlmTimes(steps')) <= g.start - Started /\ AllTimed(steps')
    BY <1>10, <2>1, Pending DEF ClaudeInv, LatencyInv
  <2> HIDE DEF g, old, closes
  <2>3. \A i \in 1..Len(g.turns) : ~C!Answers(g.turns[i])
    <3>1. g.turns \in Seq(Turns) /\ \A i \in DOMAIN g.turns : ~C!Answers(g.turns[i])
      BY <1>10, <2>1, <2>2 DEF C!ThinkingOnly, OpenGen
    <3> QED
      BY <3>1
  <2>4. ASSUME stamps \in EvenlyStamped PROVE TimesOfOpen(g, stamps # {}, clock')
    <3>1. /\ g.start \in Nat /\ g.tools \in Seq(ToolStep)
      BY <2>2 DEF OpenGen
    <3>2. \A n \in 1..Len(g.tools) : g.tools[n] \in ToolStep
      BY <3>1
    <3>3. TimesOfOpen(g, stamps # {}, clock)
      BY <2>2, <2>4
    <3>4. \A n \in 1..Len(g.tools) : TimesOfTool(g.tools[n], stamps # {}, clock')
      BY <1>2, <3>2, <3>3, ToolLater DEF TimesOfOpen
    <3>5. g.start <= clock => g.start <= clock'
      BY <1>2, <3>1
    <3> QED
      BY <3>3, <3>4, <3>5 DEF TimesOfOpen
  <2>5. ~resumed' => \A id \in DOMAIN old :
            old[id] <= Len(g.tools) /\ g.tools[old[id]].id = id
    BY <1>5, <1>10, <2>1 DEF ClaudeInv, MapInv
  <2>6. ~resumed => \A n \in 1..Len(g.tools) : OwnAnswer(g.tools[n])
    BY <1>10, <2>1 DEF ClaudeInv, AnswerInv
  <2>7. Opened(g, old)
    BY <1>2, <1>4, <1>6, <2>1, <2>2, <2>3, <2>4, <2>5, <2>6 DEF Opened
  <2> QED
    BY <1>1, <2>2, <2>7
<1>11. CASE closes
  <2>1. /\ g = C!NewGeneration(ms) /\ old = C!NoTools
        /\ steps' = steps \o C!Finalize(gen[1], ms, "assistant")
        /\ gen # <<>> /\ ~C!ThinkingOnly(gen[1])
    BY <1>1, <1>11 DEF C!MapBefore
  <2>2. /\ g \in OpenGen /\ g.start = ms /\ g.turns = <<>> /\ g.tools = <<>>
        /\ stamps \in EvenlyStamped => TimesOfOpen(g, stamps # {}, clock')
    BY <1>7, <2>1
  <2> HIDE DEF g, old, closes
  <2>3. /\ steps' \in Seq(ClaudeStep)
        /\ ~resumed => AnswersIn(steps')
        /\ ThinkingIn(steps')
        /\ stamps \in EvenlyStamped => TimesIn(steps', stamps # {}, clock')
        /\ stamps = Kinds => O!Total(LlmTimes(steps')) <= clock' - Started /\ AllTimed(steps')
        /\ ToolCalls(steps') = Calls(calls)
    BY <2>1, Closed
  <2>4. LogIn(steps', g.tools, calls)
    <3>1. calls - 0 = calls /\ 0 <= calls
      BY <1>2
    <3> QED
      BY <1>8, <2>2, <2>3, <3>1 DEF LogIn
  <2>5. Opened(g, old)
    BY <1>8, <2>1, <2>2, <2>3, <2>4 DEF Opened
  <2> QED
    BY <1>1, <2>2, <2>5
<1> QED
  BY <1>9, <1>10, <1>11

LEMMA TurnAddedFields ==
    ASSUME calls \in Nat, NEW g \in OpenGen, NEW turn \in Turns, NEW ms \in Nat
    PROVE  LET next == TurnAdded(g, turn, ms)
           IN  /\ next \in OpenGen /\ turn.calls \in Nat
               /\ next.start = g.start /\ next.toolTime = g.toolTime
               /\ next.turns = Append(g.turns, turn)
               /\ Len(g.tools) \in Nat /\ Len(next.tools) = Len(g.tools) + turn.calls
               /\ \A n \in 1..Len(g.tools) : next.tools[n] = g.tools[n]
               /\ \A i \in 1..turn.calls :
                      next.tools[Len(g.tools) + i] = C!NewTool(calls + i, ms)
<1> DEFINE next == TurnAdded(g, turn, ms)
           new == [i \in 1..turn.calls |-> C!NewTool(calls + i, ms)]
<1>1. turn.calls \in Nat
  BY AgentOutputAssumption
<1>2. /\ g.start \in Nat /\ g.toolTime \in Int /\ g.turns \in Seq(Turns)
      /\ g.tools \in Seq(ToolStep) /\ DOMAIN g = {"start", "toolTime", "turns", "tools"}
  BY DEF OpenGen
<1>3. \A i \in 1..turn.calls : C!NewTool(calls + i, ms) \in ToolStep
  <2> SUFFICES ASSUME NEW i \in 1..turn.calls PROVE C!NewTool(calls + i, ms) \in ToolStep
    OBVIOUS
  <2>1. calls + i \in Nat
    BY <1>1
  <2> QED
    BY <2>1 DEF C!NewTool, ToolStep
<1>4. /\ new \in Seq(ToolStep) /\ Len(new) = turn.calls
      /\ \A i \in 1..turn.calls : new[i] = C!NewTool(calls + i, ms)
  BY <1>1, <1>3
<1>5. /\ next.start = g.start /\ next.toolTime = g.toolTime
      /\ next.turns = Append(g.turns, turn) /\ next.tools = g.tools \o new
      /\ next = [start |-> g.start, toolTime |-> g.toolTime,
                 turns |-> Append(g.turns, turn), tools |-> g.tools \o new]
  <2> DEFINE made == [start |-> g.start, toolTime |-> g.toolTime,
                      turns |-> Append(g.turns, turn), tools |-> g.tools \o new]
  <2>1. next = [g EXCEPT !.turns = Append(g.turns, turn), !.tools = g.tools \o new]
    BY DEF TurnAdded
  <2> HIDE DEF next, new
  <2>2. g = [start |-> g.start, toolTime |-> g.toolTime, turns |-> g.turns, tools |-> g.tools]
    BY DEF OpenGen
  <2>3. next = made
    BY <2>1, <2>2, Zenon
  <2> QED
    BY <2>3
<1> HIDE DEF next, new
<1>6. g.tools \o new \in Seq(ToolStep) /\ Append(g.turns, turn) \in Seq(Turns)
  BY <1>2, <1>4
<1>7. next \in OpenGen
  BY <1>2, <1>5, <1>6 DEF OpenGen
<1>8. /\ Len(g.tools) \in Nat /\ Len(next.tools) = Len(g.tools) + turn.calls
      /\ \A n \in 1..Len(g.tools) : next.tools[n] = g.tools[n]
      /\ \A i \in 1..turn.calls : next.tools[Len(g.tools) + i] = new[i]
  <2> DEFINE old == g.tools
             all == old \o new
  <2>1. old \in Seq(ToolStep) /\ next.tools = all
    BY <1>2, <1>5
  <2> HIDE DEF old
  <2>2. /\ Len(old) \in Nat /\ Len(all) = Len(old) + Len(new)
        /\ \A n \in 1..Len(old) : all[n] = old[n]
        /\ \A i \in 1..Len(new) : all[Len(old) + i] = new[i]
    <3>1. new \in Seq(ToolStep)
      BY <1>4
    <3> QED
      BY <2>1, <3>1
  <2> HIDE DEF all
  <2> QED
    BY <1>4, <2>1, <2>2 DEF old
<1> QED
  BY <1>1, <1>4, <1>5, <1>7, <1>8 DEF next

LEMMA AssistantStep ==
    ASSUME CallInv, ClaudeInv, ReadAssistant PROVE ClaudeInv'
<1>1. PICK turn \in Turns : C!Assistant(turn, Stamp("assistant"))
  BY DEF ReadAssistant
<1> DEFINE ms == Stamp("assistant")
<1>2. /\ agent = "claude" /\ phase = "reading" /\ ~panicked
      /\ agent' = agent /\ phase' = phase /\ stamps' = stamps
      /\ clock' \in {clock, clock + 1}
  BY DEF ReadAssistant, Read
<1>3. /\ clock \in Nat /\ calls \in Nat /\ clock' \in Nat /\ clock <= clock'
  BY <1>2 DEF CallInv
<1>4. /\ ms \in {0, clock'} /\ ms \in Nat
      /\ stamps \in {Kinds, TurnKinds} => ms = clock'
      /\ stamps = {} => ms = 0
  BY <1>3 DEF Stamp, Kinds, TurnKinds
<1>5. C!Assistant(turn, ms)
  BY <1>1
<1> HIDE DEF ms
<1>6. PICK g, old :
          /\ g \in OpenGen /\ Opened(g, old)
          /\ gen' = <<TurnAdded(g, turn, ms)>>
          /\ toolMap' = MapNext(old, g, turn.calls)
  BY <1>2, <1>3, <1>4, <1>5, AssistantOpens
<1> DEFINE next == TurnAdded(g, turn, ms)
           new == (calls + 1)..(calls + turn.calls)
           L == Len(g.tools)
<1>7. /\ next \in OpenGen /\ turn.calls \in Nat
      /\ next.start = g.start /\ next.toolTime = g.toolTime
      /\ next.turns = Append(g.turns, turn)
      /\ L \in Nat /\ Len(next.tools) = L + turn.calls
      /\ \A n \in 1..L : next.tools[n] = g.tools[n]
      /\ \A i \in 1..turn.calls : next.tools[L + i] = C!NewTool(calls + i, ms)
  BY <1>3, <1>4, <1>6, TurnAddedFields
<1>8. gen' = <<next>> /\ gen'[1] = next /\ gen' # <<>> /\ gen' \in Seq(OpenGen) /\ Len(gen') = 1
  BY <1>6, <1>7
<1>9. /\ calls' = calls + turn.calls /\ panicked' = panicked
      /\ resumed' \in BOOLEAN /\ (~resumed' => ~resumed)
  BY <1>5 DEF C!Assistant
<1>10. \A n \in 1..Len(next.tools) :
           n \in 1..L \/ (n - L \in 1..turn.calls /\ L + (n - L) = n)
  BY <1>7
<1> HIDE DEF next, L
<1>11. \A n \in 1..Len(next.tools) :
           \/ n \in 1..L /\ next.tools[n] = g.tools[n]
           \/ n - L \in 1..turn.calls /\ next.tools[n] = C!NewTool(calls + (n - L), ms)
  BY <1>7, <1>10
<1>12. ClaudeTypes'
  <2>1. toolMap' \in [DOMAIN toolMap' -> Nat \ {0}]
    <3>1. old \in [DOMAIN old -> Nat \ {0}]
      BY <1>6 DEF Opened
    <3>2. \A id \in new : L + id - calls \in Nat \ {0}
      BY <1>3, <1>7
    <3>3. toolMap' = [id \in DOMAIN old \cup new |->
                         IF id \in new THEN L + id - calls ELSE old[id]]
      BY <1>6 DEF MapNext, L
    <3> QED
      BY <3>1, <3>2, <3>3
  <2>2. steps' \in Seq(ToolStep \cup GenStep)
    BY <1>6 DEF Opened, ClaudeStep
  <2>3. panicked' \in BOOLEAN
    BY <1>2, <1>9 DEF ClaudeInv, ClaudeTypes
  <2> QED
    BY <1>2, <1>8, <1>9, <2>1, <2>2, <2>3 DEF ClaudeTypes
<1>13. MapInv'
  <2> SUFFICES ASSUME ~resumed', NEW id \in DOMAIN toolMap'
               PROVE  toolMap'[id] <= Len(next.tools) /\ next.tools[toolMap'[id]].id = id
    BY <1>8 DEF MapInv
  <2>1. toolMap' = [x \in DOMAIN old \cup new |-> IF x \in new THEN L + x - calls ELSE old[x]]
    BY <1>6 DEF MapNext, L
  <2>2. CASE id \in new
    <3>1. id - calls \in 1..turn.calls /\ toolMap'[id] = L + (id - calls) /\ calls + (id - calls) = id
      BY <1>3, <1>7, <2>1, <2>2
    <3>2. next.tools[L + (id - calls)] = C!NewTool(calls + (id - calls), ms)
      BY <1>7, <3>1
    <3>3. next.tools[toolMap'[id]].id = id
      BY <3>1, <3>2 DEF C!NewTool
    <3> QED
      BY <1>7, <3>1, <3>3
  <2>3. CASE id \notin new
    <3>1. id \in DOMAIN old /\ toolMap'[id] = old[id]
      BY <2>1, <2>3
    <3>2. old[id] \in Nat \ {0} /\ old[id] <= L /\ g.tools[old[id]].id = id
      BY <1>6, <3>1 DEF Opened, L
    <3>3. next.tools[old[id]] = g.tools[old[id]]
      BY <1>7, <3>2
    <3> QED
      BY <1>7, <3>1, <3>2, <3>3
  <2> QED
    BY <2>2, <2>3
<1>14. AnswerInv'
  <2> SUFFICES ASSUME ~resumed'
               PROVE  /\ ~panicked' /\ AnswersIn(steps')
                      /\ \A n \in 1..Len(next.tools) : OwnAnswer(next.tools[n])
    BY <1>8 DEF AnswerInv
  <2>1. AnswersIn(steps') /\ \A n \in 1..L : OwnAnswer(g.tools[n])
    BY <1>6, <1>9 DEF Opened, L
  <2>2. \A i \in 1..turn.calls : OwnAnswer(C!NewTool(calls + i, ms))
    BY DEF OwnAnswer, C!NewTool
  <2> QED
    BY <1>2, <1>9, <1>11, <2>1, <2>2
<1>15. ThinkingInv'
  <2>1. g.turns \in Seq(Turns) /\ \A i \in 1..Len(g.turns) : ~C!Answers(g.turns[i])
    BY <1>6 DEF Opened, OpenGen
  <2>2. /\ Len(next.turns) - 1 = Len(g.turns)
        /\ \A i \in 1..Len(g.turns) : next.turns[i] = g.turns[i]
    BY <1>7, <2>1
  <2>3. OneAnswer(next.turns)
    BY <2>1, <2>2 DEF OneAnswer
  <2> QED
    BY <1>6, <1>8, <2>3 DEF ThinkingInv, Opened
<1>16. TimesInv'
  <2> SUFFICES ASSUME stamps \in EvenlyStamped
               PROVE  /\ TimesIn(steps', stamps # {}, clock')
                      /\ TimesOfOpen(next, stamps # {}, clock')
    BY <1>2, <1>8 DEF TimesInv
  <2> DEFINE stamped == stamps # {}
  <2>1. stamped \in BOOLEAN /\ (stamped => ms = clock') /\ (~stamped => ms = 0)
    BY <1>4 DEF EvenlyStamped
  <2>2. TimesIn(steps', stamped, clock') /\ TimesOfOpen(g, stamped, clock')
    BY <1>6 DEF Opened
  <2> HIDE DEF stamped
  <2>3. ASSUME NEW i \in 1..turn.calls
        PROVE  TimesOfTool(C!NewTool(calls + i, ms), stamped, clock')
    <3>1. Started <= clock'
      BY <1>3 DEF CallInv, Started
    <3> QED
      BY <1>3, <2>1, <3>1 DEF TimesOfTool, C!NewTool
  <2>4. \A n \in 1..Len(next.tools) : TimesOfTool(next.tools[n], stamped, clock')
    <3>1. \A n \in 1..L : TimesOfTool(g.tools[n], stamped, clock')
      BY <2>2 DEF TimesOfOpen, L
    <3> QED
      BY <1>11, <2>3, <3>1
  <2>5. TimesOfOpen(next, stamped, clock')
    BY <1>7, <2>2, <2>4 DEF TimesOfOpen
  <2> QED
    BY <2>2, <2>5 DEF stamped
<1>17. LatencyInv'
  BY <1>2, <1>6, <1>7, <1>8 DEF LatencyInv, Opened
<1>18. LogIn(steps, Held, calls)'
  <2>1. LogIn(steps', g.tools, calls)
    BY <1>6 DEF Opened
  <2>2. calls' - Len(next.tools) = calls - L /\ (L <= calls => Len(next.tools) <= calls')
    BY <1>3, <1>7, <1>9
  <2>3. ASSUME NEW n \in 1..Len(next.tools) PROVE next.tools[n].id = calls - L + n
    <3>1. CASE n \in 1..L /\ next.tools[n] = g.tools[n]
      BY <2>1, <3>1 DEF LogIn, L
    <3>2. CASE n - L \in 1..turn.calls /\ next.tools[n] = C!NewTool(calls + (n - L), ms)
      <4>1. next.tools[n].id = calls + (n - L)
        BY <3>2 DEF C!NewTool
      <4> QED
        BY <1>3, <1>7, <4>1
    <3> QED
      BY <1>11, <3>1, <3>2
  <2>4. LogIn(steps', next.tools, calls')
    BY <2>1, <2>2, <2>3 DEF LogIn, L
  <2> QED
    BY <1>8, <2>4 DEF Held
<1> QED
  BY <1>12, <1>13, <1>14, <1>15, <1>16, <1>17, <1>18 DEF ClaudeInv

-----------------------------------------------------------------------------
(* The other events of claude. *)

\* Nothing changes but the time, or the parser panics after it was misled.
LEMMA TimePasses ==
    ASSUME CallInv, ClaudeInv, agent = "claude", phase = "reading",
           UNCHANGED <<agent, stamps, phase, gen, toolMap, resumed, steps, calls>>,
           panicked' \in BOOLEAN, ~resumed => panicked' = panicked,
           clock' \in Nat, clock <= clock'
    PROVE  ClaudeInv'
<1>1. /\ clock \in Nat /\ Started \in Nat
      /\ steps \in Seq(ClaudeStep) /\ gen \in Seq(OpenGen)
  BY DEF CallInv, Started, ClaudeInv, ClaudeTypes, ClaudeStep
<1>2. ClaudeTypes' /\ MapInv' /\ AnswerInv' /\ ThinkingInv'
  BY DEF ClaudeInv, ClaudeTypes, MapInv, AnswerInv, ThinkingInv
<1>3. TimesInv'
  <2> SUFFICES ASSUME stamps \in EvenlyStamped
               PROVE  /\ TimesIn(steps, stamps # {}, clock')
                      /\ gen # <<>> => TimesOfOpen(gen[1], stamps # {}, clock')
    BY DEF TimesInv
  <2>1. TimesIn(steps, stamps # {}, clock')
    BY <1>1, TimesLater DEF ClaudeInv, TimesInv
  <2>2. ASSUME gen # <<>> PROVE TimesOfOpen(gen[1], stamps # {}, clock')
    <3> DEFINE g == gen[1]
    <3>1. /\ g \in OpenGen /\ TimesOfOpen(g, stamps # {}, clock)
      BY <2>2, Pending
    <3> HIDE DEF g
    <3>2. g.start \in Nat /\ \A n \in 1..Len(g.tools) : g.tools[n] \in ToolStep
      BY <3>1 DEF OpenGen
    <3>3. \A n \in 1..Len(g.tools) : TimesOfTool(g.tools[n], stamps # {}, clock')
      BY <1>1, <3>1, <3>2, ToolLater DEF TimesOfOpen
    <3>4. g.start <= clock => g.start <= clock'
      BY <1>1, <3>2
    <3> QED
      BY <3>1, <3>3, <3>4 DEF TimesOfOpen, g
  <2> QED
    BY <2>1, <2>2
<1>4. LatencyInv'
  <2>1. O!Total(LlmTimes(steps)) \in Int
    BY <1>1, ClaudeTimes
  <2>2. stamps = Kinds =>
            /\ O!Total(LlmTimes(steps)) <= (IF gen = <<>> THEN clock ELSE gen[1].start) - Started
            /\ AllTimed(steps)
    BY DEF ClaudeInv, LatencyInv
  <2>3. stamps = Kinds =>
            /\ O!Total(LlmTimes(steps)) <= (IF gen = <<>> THEN clock' ELSE gen[1].start) - Started
            /\ AllTimed(steps)
    BY <1>1, <2>1, <2>2
  <2> QED
    BY <2>3 DEF LatencyInv
<1>5. LogIn(steps, Held, calls)'
  BY DEF ClaudeInv, Held
<1> QED
  BY <1>2, <1>3, <1>4, <1>5 DEF ClaudeInv

LEMMA ResultStep ==
    ASSUME CallInv, ClaudeInv, ReadResult PROVE ClaudeInv'
<1> DEFINE ms == Stamp("result")
<1>1. /\ agent = "claude" /\ phase = "reading" /\ ~panicked
      /\ agent' = agent /\ phase' = phase /\ stamps' = stamps
      /\ clock' \in {clock, clock + 1}
  BY DEF ReadResult, Read
<1>2. /\ clock \in Nat /\ calls \in Nat /\ clock' \in Nat /\ clock <= clock'
  BY <1>1 DEF CallInv
<1>3. /\ ms \in {0, clock'}
      /\ stamps = Kinds => ms = clock'
      /\ stamps = {} => ms = 0
  BY <1>2 DEF Stamp, Kinds
<1>4. C!Result(ms)
  BY DEF ReadResult
<1> HIDE DEF ms
<1>5. CASE gen = <<>>
  BY <1>1, <1>2, <1>4, <1>5, TimePasses DEF C!Result, ClaudeInv, ClaudeTypes
<1>6. CASE gen # <<>>
  <2>1. /\ steps' = steps \o C!Finalize(gen[1], ms, "result") /\ gen' = <<>>
        /\ UNCHANGED <<calls, toolMap, resumed, panicked>>
    BY <1>4, <1>6 DEF C!Result
  <2>2. /\ steps' \in Seq(ClaudeStep)
        /\ ~resumed => AnswersIn(steps')
        /\ ThinkingIn(steps')
        /\ stamps \in EvenlyStamped => TimesIn(steps', stamps # {}, clock')
        /\ stamps = Kinds => O!Total(LlmTimes(steps')) <= clock' - Started /\ AllTimed(steps')
        /\ ToolCalls(steps') = Calls(calls)
        /\ \E i \in 1..Len(steps') : steps'[i].type = "generation" /\ steps'[i].by = "result"
    <3>1. /\ agent = "claude" /\ phase = "reading" /\ clock' \in Nat /\ clock <= clock'
          /\ "result" \in {"assistant", "result"} /\ "result" # "assistant"
          /\ steps' = steps \o C!Finalize(gen[1], ms, "result")
      BY <1>1, <1>2, <2>1
    <3> QED
      BY <1>3, <1>6, <3>1, Closed
  <2>3. ClaudeTypes'
    <3>1. gen' \in Seq(OpenGen) /\ Len(gen') <= 1
      BY <2>1
    <3> QED
      BY <1>1, <2>1, <2>2, <3>1 DEF ClaudeInv, ClaudeTypes, ClaudeStep
  <2>4. MapInv' /\ ThinkingInv' /\ TimesInv' /\ LatencyInv'
    BY <1>1, <2>1, <2>2 DEF MapInv, ThinkingInv, TimesInv, LatencyInv
  <2>5. AnswerInv'
    BY <1>1, <2>1, <2>2 DEF ClaudeInv, AnswerInv
  <2>6. LogIn(steps, Held, calls)'
    <3>1. Held' = <<>> /\ calls' = calls /\ Len(<<>>) = 0 /\ calls - 0 = calls /\ 0 <= calls
      BY <1>2, <2>1 DEF Held
    <3> QED
      BY <2>2, <3>1 DEF LogIn
  <2> QED
    BY <2>3, <2>4, <2>5, <2>6 DEF ClaudeInv
<1> QED
  BY <1>5, <1>6

\* The result of call id is stored in tool n.
Stored(g, n, id, ms) ==
    LET dur == ms - g.tools[n].start
    IN  [g EXCEPT !.tools[n].end = ms, !.tools[n].dur = dur,
                  !.tools[n].answer = id, !.toolTime = @ + dur]

LEMMA StoredFields ==
    ASSUME NEW g \in OpenGen, NEW n \in 1..Len(g.tools), NEW id \in Nat, NEW ms \in Nat
    PROVE  LET next == Stored(g, n, id, ms)
               dur == ms - g.tools[n].start
           IN  /\ next \in OpenGen
               /\ next.start = g.start /\ next.toolTime = g.toolTime + dur
               /\ next.turns = g.turns /\ Len(next.tools) = Len(g.tools)
               /\ \A m \in 1..Len(g.tools) : m # n => next.tools[m] = g.tools[m]
               /\ next.tools[n].type = "tool" /\ next.tools[n].id = g.tools[n].id
               /\ next.tools[n].start = g.tools[n].start /\ next.tools[n].end = ms
               /\ next.tools[n].dur = dur /\ next.tools[n].answer = id
<1> DEFINE next == Stored(g, n, id, ms)
           t == g.tools[n]
           dur == ms - t.start
           new == [t EXCEPT !.end = ms, !.dur = dur, !.answer = id]
           tools == [g.tools EXCEPT ![n] = new]
<1>1. /\ g.start \in Nat /\ g.toolTime \in Int /\ g.turns \in Seq(Turns)
      /\ g.tools \in Seq(ToolStep)
      /\ g = [start |-> g.start, toolTime |-> g.toolTime, turns |-> g.turns, tools |-> g.tools]
  BY DEF OpenGen
<1>2. t \in ToolStep
  BY <1>1
<1>3. t.start \in Nat /\ dur \in Int
  BY <1>2 DEF ToolStep
<1>4. new \in ToolStep
  <2> HIDE DEF t, dur
  <2> QED
    BY <1>2, <1>3 DEF ToolStep
<1>5. /\ new.type = "tool" /\ new.id = t.id /\ new.start = t.start
      /\ new.end = ms /\ new.dur = dur /\ new.answer = id
  <2> HIDE DEF t, dur
  <2> QED
    BY <1>2, <1>3 DEF ToolStep
<1>6. tools = [g.tools EXCEPT ![n].end = ms, ![n].dur = dur, ![n].answer = id]
  <2>1. n \in DOMAIN g.tools
    BY <1>1
  <2> QED
    BY <2>1
<1>7. next = [g EXCEPT !.tools = tools, !.toolTime = g.toolTime + dur]
  BY <1>1, <1>6 DEF Stored
<1>8. next = [start |-> g.start, toolTime |-> g.toolTime + dur, turns |-> g.turns,
              tools |-> tools]
  BY <1>1, <1>7
<1>9. /\ tools \in Seq(ToolStep) /\ Len(tools) = Len(g.tools) /\ tools[n] = new
      /\ \A m \in 1..Len(g.tools) : m # n => tools[m] = g.tools[m]
  <2> DEFINE old == g.tools
  <2>1. old \in Seq(ToolStep) /\ n \in 1..Len(old)
    BY <1>1
  <2> HIDE DEF old, new
  <2>2. tools = [old EXCEPT ![n] = new]
    BY DEF old
  <2> HIDE DEF tools
  <2>3. /\ tools \in Seq(ToolStep) /\ Len(tools) = Len(old) /\ tools[n] = new
        /\ \A m \in 1..Len(old) : m # n => tools[m] = old[m]
    BY <1>4, <2>1, <2>2
  <2> QED
    BY <2>3 DEF old
<1>10. g.toolTime + dur \in Int
  BY <1>1, <1>3
<1> HIDE DEF next, tools, new
<1>11. next \in OpenGen
  BY <1>1, <1>8, <1>9, <1>10 DEF OpenGen
<1> QED
  BY <1>5, <1>8, <1>9, <1>11 DEF next

LEMMA ResultStored ==
    ASSUME CallInv, ClaudeInv, agent = "claude", phase = "reading", gen # <<>>,
           UNCHANGED <<agent, stamps, phase, toolMap, resumed, panicked, steps, calls>>,
           clock' \in Nat, clock <= clock', NEW ms \in {0, clock'},
           stamps \in {Kinds, TurnKinds} => ms = clock', stamps = {} => ms = 0,
           NEW id \in DOMAIN toolMap, id \in Nat, toolMap[id] <= Len(gen[1].tools),
           gen' = <<Stored(gen[1], toolMap[id], id, ms)>>
    PROVE  ClaudeInv'
<1> DEFINE g == gen[1]
           n == toolMap[id]
           next == Stored(g, n, id, ms)
           dur == ms - g.tools[n].start
<1>1. /\ g \in OpenGen /\ OneAnswer(g.turns) /\ LogIn(steps, g.tools, calls)
      /\ stamps \in EvenlyStamped => TimesOfOpen(g, stamps # {}, clock)
      /\ stamps = Kinds => O!Total(LlmTimes(steps)) <= g.start - Started
  BY Pending
<1>2. /\ clock \in Nat /\ Started \in Nat /\ steps \in Seq(ClaudeStep) /\ ms \in Nat
  BY DEF CallInv, Started, ClaudeInv, ClaudeTypes, ClaudeStep
<1>3. n \in 1..Len(g.tools) /\ g.tools \in Seq(ToolStep) /\ g.tools[n] \in ToolStep
  <2>1. n \in Nat \ {0} /\ n <= Len(g.tools)
    BY DEF ClaudeInv, ClaudeTypes
  <2>2. g.tools \in Seq(ToolStep)
    BY <1>1 DEF OpenGen
  <2>3. n \in 1..Len(g.tools)
    BY <2>1, <2>2
  <2> QED
    BY <2>2, <2>3
<1>4. gen' = <<next>>
  OBVIOUS
<1> HIDE DEF g, n
<1>5. /\ next \in OpenGen
      /\ next.start = g.start /\ next.toolTime = g.toolTime + dur
      /\ next.turns = g.turns /\ Len(next.tools) = Len(g.tools)
      /\ \A m \in 1..Len(g.tools) : m # n => next.tools[m] = g.tools[m]
      /\ next.tools[n].type = "tool" /\ next.tools[n].id = g.tools[n].id
      /\ next.tools[n].start = g.tools[n].start /\ next.tools[n].end = ms
      /\ next.tools[n].dur = dur /\ next.tools[n].answer = id
  <2>1. g \in OpenGen /\ ms \in Nat
    BY <1>1, <1>2
  <2> QED
    BY <1>3, <2>1, StoredFields
<1> HIDE DEF next
<1>6. gen' # <<>> /\ gen'[1] = next /\ gen' \in Seq(OpenGen) /\ Len(gen') = 1
  BY <1>4, <1>5
<1>7. ClaudeTypes'
  BY <1>6 DEF ClaudeInv, ClaudeTypes
<1>8. \A m \in 1..Len(g.tools) : next.tools[m].id = g.tools[m].id
  BY <1>5
<1>9. MapInv'
  <2> SUFFICES ASSUME ~resumed, NEW x \in DOMAIN toolMap
               PROVE  toolMap[x] <= Len(next.tools) /\ next.tools[toolMap[x]].id = x
    BY <1>6 DEF MapInv
  <2>1. toolMap[x] <= Len(g.tools) /\ g.tools[toolMap[x]].id = x
    BY DEF ClaudeInv, MapInv, g
  <2>2. toolMap[x] \in Nat \ {0}
    BY DEF ClaudeInv, ClaudeTypes
  <2>3. toolMap[x] \in 1..Len(g.tools)
    BY <1>3, <2>1, <2>2
  <2> QED
    BY <1>5, <1>8, <2>1, <2>3
<1>10. AnswerInv'
  <2> SUFFICES ASSUME ~resumed
               PROVE  /\ ~panicked /\ AnswersIn(steps)
                      /\ \A m \in 1..Len(next.tools) : OwnAnswer(next.tools[m])
    BY <1>6 DEF AnswerInv
  <2>1. /\ ~panicked /\ AnswersIn(steps)
        /\ \A m \in 1..Len(g.tools) : OwnAnswer(g.tools[m])
    BY DEF ClaudeInv, AnswerInv, g
  <2>2. g.tools[n].id = id
    BY DEF ClaudeInv, MapInv, g, n
  <2>3. OwnAnswer(next.tools[n])
    BY <1>5, <2>2 DEF OwnAnswer
  <2>4. \A m \in 1..Len(next.tools) : m # n => OwnAnswer(next.tools[m])
    BY <1>5, <2>1
  <2> QED
    BY <2>1, <2>3, <2>4
<1>11. ThinkingInv'
  BY <1>1, <1>5, <1>6 DEF ClaudeInv, ThinkingInv
<1>12. TimesInv'
  <2> SUFFICES ASSUME stamps \in EvenlyStamped
               PROVE  /\ TimesIn(steps, stamps # {}, clock')
                      /\ TimesOfOpen(next, stamps # {}, clock')
    BY <1>6 DEF TimesInv
  <2> DEFINE stamped == stamps # {}
  <2>1. stamped \in BOOLEAN /\ (stamped => ms = clock') /\ (~stamped => ms = 0)
    BY DEF EvenlyStamped
  <2>2. TimesIn(steps, stamped, clock) /\ TimesOfOpen(g, stamped, clock)
    BY <1>1 DEF ClaudeInv, TimesInv
  <2> HIDE DEF stamped
  <2>3. TimesIn(steps, stamped, clock')
    BY <1>2, <2>1, <2>2, TimesLater
  <2>4. ASSUME NEW m \in 1..Len(next.tools) PROVE TimesOfTool(next.tools[m], stamped, clock')
    <3>1. g.tools[m] \in ToolStep /\ TimesOfTool(g.tools[m], stamped, clock)
      BY <1>3, <1>5, <2>2, <2>4 DEF TimesOfOpen
    <3>2. TimesOfTool(g.tools[m], stamped, clock')
      BY <1>2, <2>1, <3>1, ToolLater
    <3>3. CASE m # n
      BY <1>5, <2>4, <3>2, <3>3
    <3>4. CASE m = n
      <4>1. g.tools[n].start \in Nat
        BY <1>3 DEF ToolStep
      <4>2. CASE stamped
        <5>1. Started <= g.tools[n].start /\ g.tools[n].start <= clock'
          BY <3>2, <3>4, <4>2 DEF TimesOfTool
        <5>2. ms = clock' /\ dur = ms - g.tools[n].start /\ ms <= clock'
          BY <2>1, <4>2
        <5> QED
          BY <1>5, <3>4, <4>2, <5>1, <5>2 DEF TimesOfTool
      <4>3. CASE ~stamped
        <5>1. g.tools[n].start = 0 /\ ms = 0
          BY <2>1, <3>2, <3>4, <4>3 DEF TimesOfTool
        <5>2. dur = 0
          BY <5>1
        <5> QED
          BY <1>5, <3>4, <4>3, <5>1, <5>2 DEF TimesOfTool
      <4> QED
        BY <4>2, <4>3
    <3> QED
      BY <3>3, <3>4
  <2>5. TimesOfOpen(next, stamped, clock')
    <3>1. g.start \in Nat /\ g.toolTime \in Int /\ g.tools[n].start \in Nat
      BY <1>1, <1>3 DEF OpenGen, ToolStep
    <3>2. TimesOfTool(g.tools[n], stamped, clock)
      BY <1>3, <2>2 DEF TimesOfOpen
    <3>3. CASE stamped
      <4>1. Started <= g.start /\ g.start <= clock /\ g.toolTime >= 0
        BY <2>2, <3>3 DEF TimesOfOpen
      <4>2. g.tools[n].start <= clock /\ ms = clock'
        BY <2>1, <3>2, <3>3 DEF TimesOfTool
      <4>3. dur \in Int /\ dur >= 0
        BY <1>2, <3>1, <4>2
      <4>4. next.toolTime = g.toolTime + dur
        BY <1>5
      <4> HIDE DEF dur
      <4>5. next.toolTime >= 0
        BY <3>1, <4>1, <4>3, <4>4
      <4>6. g.start <= clock'
        BY <1>2, <3>1, <4>1
      <4> QED
        BY <1>5, <2>4, <3>3, <4>1, <4>5, <4>6 DEF TimesOfOpen
    <3>4. CASE ~stamped
      <4>1. g.start = 0 /\ g.toolTime = 0 /\ g.tools[n].start = 0 /\ ms = 0
        BY <2>1, <2>2, <3>2, <3>4 DEF TimesOfOpen, TimesOfTool
      <4>2. next.toolTime = 0
        BY <1>5, <4>1
      <4> QED
        BY <1>5, <2>4, <3>4, <4>1, <4>2 DEF TimesOfOpen
    <3> QED
      BY <3>3, <3>4
  <2> QED
    BY <2>3, <2>5 DEF stamped
<1>13. LatencyInv'
  BY <1>1, <1>5, <1>6 DEF ClaudeInv, LatencyInv
<1>14. LogIn(steps, Held, calls)'
  <2>1. LogIn(steps, next.tools, calls)
    BY <1>1, <1>5, <1>8 DEF LogIn
  <2> QED
    BY <1>6, <2>1 DEF Held
<1> QED
  BY <1>7, <1>9, <1>10, <1>11, <1>12, <1>13, <1>14 DEF ClaudeInv

LEMMA ToolResultStep ==
    ASSUME CallInv, ClaudeInv, ReadToolResult PROVE ClaudeInv'
<1>1. PICK id \in (1..calls) \ answered : C!ToolResult(id, Stamp("user"))
  BY DEF ReadToolResult
<1> DEFINE ms == Stamp("user")
<1>2. /\ agent = "claude" /\ phase = "reading" /\ ~panicked
      /\ agent' = agent /\ phase' = phase /\ stamps' = stamps
      /\ clock' \in {clock, clock + 1}
  BY DEF ReadToolResult, Read
<1>3. /\ clock \in Nat /\ calls \in Nat /\ clock' \in Nat /\ clock <= clock' /\ id \in Nat
  BY <1>2 DEF CallInv
<1>4. /\ ms \in {0, clock'}
      /\ stamps \in {Kinds, TurnKinds} => ms = clock'
      /\ stamps = {} => ms = 0
  BY <1>3 DEF Stamp, Kinds, TurnKinds
<1>5. C!ToolResult(id, ms)
  BY <1>1
<1> HIDE DEF ms
<1>6. UNCHANGED <<calls, steps, toolMap, resumed>>
  BY <1>5 DEF C!ToolResult
<1>7. CASE UNCHANGED <<gen, panicked>>
  BY <1>2, <1>3, <1>6, <1>7, TimePasses DEF ClaudeInv, ClaudeTypes
<1>8. CASE gen # <<>> /\ id \in DOMAIN toolMap
  <2>1. CASE toolMap[id] > Len(gen[1].tools)
    <3>1. panicked' = TRUE /\ gen' = gen
      BY <1>5, <1>8, <2>1 DEF C!ToolResult
    <3>2. resumed
      <4>1. gen[1] \in OpenGen
        BY <1>2, <1>8, Pending
      <4>2. Len(gen[1].tools) \in Nat
        BY <4>1 DEF OpenGen
      <4>3. toolMap[id] \in Nat
        BY <1>2, <1>8 DEF ClaudeInv, ClaudeTypes
      <4>4. ~(toolMap[id] <= Len(gen[1].tools))
        BY <2>1, <4>2, <4>3
      <4> QED
        BY <1>2, <1>8, <4>4 DEF ClaudeInv, MapInv
    <3> QED
      BY <1>2, <1>3, <1>6, <3>1, <3>2, TimePasses
  <2>2. CASE ~(toolMap[id] > Len(gen[1].tools))
    <3>1. /\ gen' = <<Stored(gen[1], toolMap[id], id, ms)>> /\ panicked' = panicked
      BY <1>5, <1>8, <2>2 DEF C!ToolResult, Stored
    <3>2. toolMap[id] <= Len(gen[1].tools)
      <4>1. gen[1] \in OpenGen
        BY <1>2, <1>8, Pending
      <4>2. Len(gen[1].tools) \in Nat
        BY <4>1 DEF OpenGen
      <4>3. toolMap[id] \in Nat
        BY <1>2, <1>8 DEF ClaudeInv, ClaudeTypes
      <4> QED
        BY <2>2, <4>2, <4>3
    <3> QED
      BY <1>2, <1>3, <1>4, <1>6, <1>8, <3>1, <3>2, ResultStored
  <2> QED
    BY <2>1, <2>2
<1>9. UNCHANGED <<gen, panicked>> \/ (gen # <<>> /\ id \in DOMAIN toolMap)
  BY <1>5 DEF C!ToolResult
<1> QED
  BY <1>7, <1>8, <1>9

-----------------------------------------------------------------------------
(* The end of claude's output: the last generation is closed without a time *)
(* and the steps get the times they lack.                                   *)

LEMMA BackfilledTool ==
    ASSUME NEW s \in ToolStep, NEW now \in Nat
    PROVE  LET b == C!Backfill(s, Started, now)
           IN  /\ b \in ToolStep /\ b.id = s.id /\ b.answer = s.answer
               /\ b.start = IF s.start <= 0 THEN Started ELSE s.start
               /\ b.end = IF s.end <= 0 THEN now ELSE s.end
               /\ b.dur = IF (s.start <= 0 \/ s.end <= 0) /\ s.dur <= 0
                          THEN b.end - b.start ELSE s.dur
<1> DEFINE from == IF s.start <= 0 THEN Started ELSE s.start
           to == IF s.end <= 0 THEN now ELSE s.end
           dur == IF (s.start <= 0 \/ s.end <= 0) /\ s.dur <= 0 THEN to - from ELSE s.dur
           b == [s EXCEPT !.start = from, !.end = to, !.dur = dur]
<1>1. from \in Nat /\ to \in Nat /\ dur \in Int
  BY DEF ToolStep, Started
<1>2. C!Backfill(s, Started, now) = b
  BY DEF C!Backfill, ToolStep
<1> HIDE DEF from, to, dur
<1>3. /\ b \in ToolStep /\ b.id = s.id /\ b.answer = s.answer
      /\ b.start = from /\ b.end = to /\ b.dur = dur
  BY <1>1 DEF ToolStep
<1> QED
  BY <1>2, <1>3 DEF from, to, dur

LEMMA BackfilledGen ==
    ASSUME NEW s \in GenStep, NEW now \in Nat
    PROVE  LET b == C!Backfill(s, Started, now)
           IN  /\ b \in GenStep /\ b.turns = s.turns /\ b.by = s.by
               /\ b.start = IF s.start <= 0 THEN Started ELSE s.start
               /\ b.end = IF s.end <= 0 THEN now ELSE s.end
               /\ b.dur = IF (s.start <= 0 \/ s.end <= 0) /\ s.dur <= 0
                          THEN b.end - b.start ELSE s.dur
               /\ b.llm = IF (s.start <= 0 \/ s.end <= 0) /\ s.dur <= 0
                          THEN C!AtLeastZero(b.end - b.start - s.toolTime) ELSE s.llm
<1> DEFINE from == IF s.start <= 0 THEN Started ELSE s.start
           to == IF s.end <= 0 THEN now ELSE s.end
           lacking == (s.start <= 0 \/ s.end <= 0) /\ s.dur <= 0
           dur == IF lacking THEN to - from ELSE s.dur
           llm == C!AtLeastZero(to - from - s.toolTime)
           timed == [s EXCEPT !.start = from, !.end = to, !.dur = dur]
           more == [timed EXCEPT !.llm = llm]
<1>1. from \in Nat /\ to \in Nat /\ dur \in Int /\ llm \in Int
  BY DEF GenStep, Started, C!AtLeastZero
<1>2. C!Backfill(s, Started, now) = IF lacking THEN more ELSE timed
  BY DEF C!Backfill, GenStep
<1> HIDE DEF from, to, dur, llm
<1>3. /\ timed \in GenStep /\ timed.turns = s.turns /\ timed.by = s.by /\ timed.llm = s.llm
      /\ timed.start = from /\ timed.end = to /\ timed.dur = dur
  BY <1>1 DEF GenStep
<1> HIDE DEF timed
<1>4. /\ more \in GenStep /\ more.turns = s.turns /\ more.by = s.by /\ more.llm = llm
      /\ more.start = from /\ more.end = to /\ more.dur = dur
  BY <1>1, <1>3 DEF GenStep
<1> HIDE DEF more
<1> QED
  BY <1>2, <1>3, <1>4 DEF from, to, dur, llm

LEMMA BackfilledTimes ==
    ASSUME NEW s \in ClaudeStep, NEW now \in Nat, NEW stamped \in BOOLEAN, Started <= now,
           TimesKnown(s, stamped, now)
    PROVE  /\ TimesFit(C!Backfill(s, Started, now), now)
           /\ stamped /\ s.type = "generation" /\ TimesOfGen(s, stamped, now) =>
                  C!Backfill(s, Started, now).llm = s.llm
           /\ stamped /\ s.type = "generation" /\ TimesOfLast(s, stamped, now) =>
                  C!Backfill(s, Started, now).llm <= now - s.start
<1> DEFINE b == C!Backfill(s, Started, now)
<1> USE DEF Started
<1>1. CASE s \in ToolStep
  <2>1. /\ b.type = "tool"
        /\ b.start = IF s.start <= 0 THEN Started ELSE s.start
        /\ b.end = IF s.end <= 0 THEN now ELSE s.end
        /\ b.dur = IF (s.start <= 0 \/ s.end <= 0) /\ s.dur <= 0 THEN b.end - b.start ELSE s.dur
    BY <1>1, BackfilledTool DEF ToolStep
  <2> HIDE DEF b
  <2>2. s.type = "tool" /\ s.start \in Nat /\ s.end \in Nat /\ s.dur \in Int
    BY <1>1 DEF ToolStep
  <2>3. TimesOfTool(s, stamped, now)
    BY <2>2 DEF TimesKnown
  <2>4. TimesFit(b, now)
    BY <2>1, <2>2, <2>3 DEF TimesOfTool, TimesFit
  <2> QED
    BY <2>2, <2>4 DEF b
<1>2. CASE s \in GenStep
  <2>1. /\ b.type = "generation"
        /\ b.start = IF s.start <= 0 THEN Started ELSE s.start
        /\ b.end = IF s.end <= 0 THEN now ELSE s.end
        /\ b.dur = IF (s.start <= 0 \/ s.end <= 0) /\ s.dur <= 0 THEN b.end - b.start ELSE s.dur
        /\ b.llm = IF (s.start <= 0 \/ s.end <= 0) /\ s.dur <= 0
                   THEN C!AtLeastZero(b.end - b.start - s.toolTime) ELSE s.llm
    BY <1>2, BackfilledGen DEF GenStep
  <2> HIDE DEF b
  <2>2. /\ s.type = "generation" /\ s.start \in Nat /\ s.end \in Nat /\ s.dur \in Int
        /\ s.toolTime \in Int /\ s.llm \in Int
    BY <1>2 DEF GenStep
  <2>3. CASE stamped /\ TimesOfGen(s, stamped, now)
    <3>1. b.start = s.start /\ b.end = s.end /\ b.dur = s.dur /\ b.llm = s.llm
      BY <2>1, <2>2, <2>3 DEF TimesOfGen
    <3>2. TimesFit(b, now)
      BY <2>2, <2>3, <3>1 DEF TimesOfGen, TimesFit
    <3>3. ~TimesOfLast(s, stamped, now)
      BY <2>2, <2>3 DEF TimesOfGen, TimesOfLast
    <3> QED
      BY <2>3, <3>1, <3>2, <3>3 DEF b
  <2>4. CASE TimesOfLast(s, stamped, now) /\ (stamped => ~TimesOfGen(s, stamped, now))
    <3>1. /\ b.start = IF stamped THEN s.start ELSE Started
          /\ b.end = now /\ b.dur = now - b.start
          /\ b.llm = C!AtLeastZero(now - b.start - s.toolTime) /\ s.toolTime >= 0
          /\ Started <= b.start /\ b.start <= now /\ b.start \in Nat
      BY <2>1, <2>2, <2>4 DEF TimesOfLast
    <3>2. 0 <= b.llm /\ b.llm <= now - b.start
      BY <2>2, <3>1 DEF C!AtLeastZero
    <3>3. TimesFit(b, now)
      BY <3>1, <3>2 DEF TimesFit
    <3> QED
      BY <2>4, <3>1, <3>2, <3>3 DEF b
  <2>5. CASE ~stamped /\ TimesOfGen(s, stamped, now)
    <3>1. /\ b.start = Started /\ b.end = now /\ b.dur = now - Started
          /\ b.llm = C!AtLeastZero(now - Started - 0)
      BY <2>1, <2>2, <2>5 DEF TimesOfGen
    <3>2. 0 <= b.llm /\ b.llm <= now - Started
      BY <3>1 DEF C!AtLeastZero
    <3>3. TimesFit(b, now)
      BY <3>1, <3>2 DEF TimesFit
    <3> QED
      BY <2>5, <3>3 DEF b
  <2>6. TimesOfGen(s, stamped, now) \/ TimesOfLast(s, stamped, now)
    BY <2>2 DEF TimesKnown
  <2> QED
    BY <2>3, <2>4, <2>5, <2>6
<1> QED
  BY <1>1, <1>2 DEF ClaudeStep

\* The steps before they get the times they lack.
AllSteps == IF gen = <<>> THEN steps ELSE steps \o C!Finalize(gen[1], 0, "end")

LEMMA AllStepsFit ==
    ASSUME CallInv, ClaudeInv, agent = "claude", phase = "reading"
    PROVE  /\ AllSteps \in Seq(ClaudeStep)
           /\ ~resumed => AnswersIn(AllSteps)
           /\ ThinkingIn(AllSteps)
           /\ ToolCalls(AllSteps) = Calls(calls)
           /\ stamps \in EvenlyStamped => \A i \in 1..Len(AllSteps) :
                  TimesKnown(AllSteps[i], stamps # {}, clock)
<1>1. /\ steps \in Seq(ClaudeStep) /\ ThinkingIn(steps) /\ calls \in Nat
      /\ ~resumed => AnswersIn(steps)
      /\ stamps \in EvenlyStamped => TimesIn(steps, stamps # {}, clock)
  BY DEF CallInv, ClaudeInv, ClaudeTypes, ClaudeStep, ThinkingInv, AnswerInv, TimesInv
<1>2. stamps \in EvenlyStamped => \A i \in 1..Len(steps) : TimesKnown(steps[i], stamps # {}, clock)
  BY <1>1 DEF TimesIn
<1>3. CASE gen = <<>>
  <2>1. LogIn(steps, <<>>, calls)
    BY <1>3 DEF ClaudeInv, Held
  <2>2. ToolCalls(steps) = Calls(calls)
    <3>1. Len(<<>>) = 0 /\ calls - 0 = calls
      BY <1>1
    <3> QED
      BY <2>1, <3>1 DEF LogIn
  <2> QED
    BY <1>1, <1>2, <1>3, <2>2 DEF AllSteps
<1>4. CASE gen # <<>>
  <2> DEFINE g == gen[1]
             e == ClosedGen(g, 0, "end")
             tools == g.tools
             more == AllSteps
  <2>1. /\ g \in OpenGen /\ OneAnswer(g.turns) /\ LogIn(steps, g.tools, calls)
        /\ stamps \in EvenlyStamped => TimesOfOpen(g, stamps # {}, clock)
    BY <1>4, Pending
  <2>2. more = steps \o C!Finalize(g, 0, "end")
    BY <1>4 DEF AllSteps
  <2> HIDE DEF g, more
  <2>3. /\ e \in GenStep /\ tools \in Seq(ToolStep)
        /\ \A n \in 1..Len(tools) : tools[n] \in ToolStep
        /\ more \in Seq(ClaudeStep) /\ Sends(steps, e, tools, more)
    BY <1>1, <2>1, <2>2, SentOut
  <2>4. /\ e.type = "generation" /\ e.start = g.start /\ e.end = 0 /\ e.dur = 0
        /\ e.toolTime = g.toolTime /\ e.turns = g.turns /\ e.by = "end"
    BY DEF ClosedGen
  <2> HIDE DEF e, tools
  <2>5. ~resumed => AnswersIn(more)
    <3>1. ~resumed => \A n \in 1..Len(tools) : OwnAnswer(tools[n])
      BY <1>4 DEF ClaudeInv, AnswerInv, g, tools
    <3> QED
      BY <1>1, <2>3, <3>1, SentAnswers
  <2>6. ThinkingIn(more)
    <3>1. OneAnswer(e.turns) /\ e.by # "assistant"
      BY <2>1, <2>4
    <3> QED
      BY <1>1, <2>3, <3>1, SentThinking
  <2>7. ToolCalls(more) = Calls(calls)
    <3>1. /\ steps \in Seq(ClaudeStep) /\ e \in GenStep /\ tools \in Seq(ToolStep)
          /\ more \in Seq(ClaudeStep) /\ Sends(steps, e, tools, more)
      BY <1>1, <2>3
    <3>2. calls \in Nat /\ LogIn(steps, tools, calls)
      BY <1>1, <2>1 DEF tools
    <3> QED
      BY <3>1, <3>2, ClaudeSentCalls, ZenonT(60)
  <2>8. ASSUME stamps \in EvenlyStamped, NEW i \in 1..Len(more)
        PROVE  TimesKnown(more[i], stamps # {}, clock)
    <3> DEFINE stamped == stamps # {}
    <3>1. TimesOfOpen(g, stamped, clock)
      BY <2>1, <2>8
    <3> HIDE DEF stamped
    <3>2. CASE i \in 1..Len(steps) /\ more[i] = steps[i]
      BY <1>2, <2>8, <3>2
    <3>3. CASE i = Len(steps) + 1 /\ more[i] = e
      <4>1. TimesOfLast(e, stamped, clock)
        BY <2>4, <3>1 DEF TimesOfLast, TimesOfOpen
      <4> QED
        BY <2>4, <3>3, <4>1 DEF TimesKnown, stamped
    <3>4. CASE i - Len(steps) - 1 \in 1..Len(tools) /\ more[i] = tools[i - Len(steps) - 1]
      <4>1. more[i] \in ToolStep /\ TimesOfTool(more[i], stamped, clock)
        BY <2>3, <3>1, <3>4 DEF TimesOfOpen, tools
      <4> QED
        BY <4>1 DEF TimesKnown, ToolStep, stamped
    <3> QED
      BY <2>3, <3>2, <3>3, <3>4 DEF Sends
  <2> QED
    BY <2>3, <2>5, <2>6, <2>7, <2>8 DEF more
<1> QED
  BY <1>3, <1>4

\* The model time with the last generation.
LEMMA LastModelTime ==
    ASSUME CallInv, ClaudeInv, agent = "claude", phase = "reading", stamps = Kinds,
           NEW list \in Seq(ClaudeStep), Len(list) = Len(AllSteps),
           \A i \in 1..Len(list) : list[i] = C!Backfill(AllSteps[i], Started, clock),
           \A i \in 1..Len(list) : list[i].type = AllSteps[i].type
    PROVE  O!Total(LlmTimes(list)) <= clock - Started
<1>1. /\ steps \in Seq(ClaudeStep) /\ clock \in Nat /\ Started \in Nat /\ Started <= clock
      /\ TimesIn(steps, TRUE, clock) /\ AllTimed(steps)
  <2>1. Kinds # {} /\ Kinds \in EvenlyStamped
    BY DEF Kinds, EvenlyStamped
  <2> QED
    BY <2>1 DEF CallInv, Started, ClaudeInv, ClaudeTypes, ClaudeStep, TimesInv, LatencyInv
<1> DEFINE s == LlmTimes(steps)
           t == LlmTimes(list)
<1>2. /\ s \in Seq(Int) /\ O!Total(s) \in Int /\ Len(s) = Len(steps)
      /\ \A i \in 1..Len(steps) :
             s[i] = IF steps[i].type = "generation" THEN steps[i].llm ELSE 0
  BY <1>1, ClaudeTimes
<1>3. /\ t \in Seq(Int) /\ O!Total(t) \in Int /\ Len(t) = Len(list)
      /\ \A i \in 1..Len(list) :
             t[i] = IF list[i].type = "generation" THEN list[i].llm ELSE 0
  BY ClaudeTimes
<1>4. ASSUME NEW i \in 1..Len(steps), i \in 1..Len(list), AllSteps[i] = steps[i]
      PROVE  t[i] = s[i]
  <2>1. CASE steps[i].type = "generation"
    <3>1. steps[i] \in ClaudeStep /\ TimesOfGen(steps[i], TRUE, clock)
      <4>1. steps[i] \in ClaudeStep
        BY <1>1
      <4>2. TimesOfGen(steps[i], TRUE, clock)
        <5>1. TimesKnown(steps[i], TRUE, clock) /\ steps[i].end > 0
          BY <1>1, <2>1 DEF TimesIn, AllTimed
        <5>2. ~TimesOfLast(steps[i], TRUE, clock)
          BY <5>1 DEF TimesOfLast
        <5> QED
          BY <2>1, <5>1, <5>2 DEF TimesKnown
      <4> QED
        BY <4>1, <4>2
    <3>2. TimesKnown(steps[i], TRUE, clock)
      BY <2>1, <3>1 DEF TimesKnown
    <3>3. C!Backfill(steps[i], Started, clock).llm = steps[i].llm
      BY <1>1, <2>1, <3>1, <3>2, BackfilledTimes
    <3> QED
      BY <1>2, <1>3, <1>4, <2>1, <3>3
  <2>2. CASE steps[i].type # "generation"
    BY <1>2, <1>3, <1>4, <2>2
  <2> QED
    BY <2>1, <2>2
<1>5. CASE gen = <<>>
  <2>1. AllSteps = steps
    BY <1>5 DEF AllSteps
  <2>2. Len(t) = Len(s) /\ \A i \in 1..Len(s) : t[i] = s[i]
    BY <1>2, <1>3, <1>4, <2>1
  <2> HIDE DEF s, t
  <2>3. t = s
    BY <1>2, <1>3, <2>2, SeqEqual
  <2>4. O!Total(s) <= clock - Started
    BY <1>5 DEF ClaudeInv, LatencyInv, s
  <2> QED
    BY <2>3, <2>4 DEF t
<1>6. CASE gen # <<>>
  <2> DEFINE g == gen[1]
             e == ClosedGen(g, 0, "end")
             tools == g.tools
             more == AllSteps
             L == Len(steps)
  <2>1. /\ g \in OpenGen /\ TimesOfOpen(g, TRUE, clock)
        /\ O!Total(s) <= g.start - Started
    <3>1. Kinds # {} /\ Kinds \in EvenlyStamped
      BY DEF Kinds, EvenlyStamped
    <3> QED
      BY <1>6, <3>1, Pending
  <2>2. more = steps \o C!Finalize(g, 0, "end")
    BY <1>6 DEF AllSteps
  <2> HIDE DEF g, more, s, t
  <2>3. /\ e \in GenStep /\ tools \in Seq(ToolStep)
        /\ \A n \in 1..Len(tools) : tools[n] \in ToolStep
        /\ more \in Seq(ClaudeStep) /\ Sends(steps, e, tools, more)
    BY <1>1, <2>1, <2>2, SentOut
  <2>4. /\ e.type = "generation" /\ e.start = g.start /\ e.end = 0 /\ e.dur = 0
        /\ e.toolTime = g.toolTime
    BY DEF ClosedGen
  <2> HIDE DEF e, tools
  <2>5. /\ L \in Nat /\ Len(tools) \in Nat /\ Len(list) = L + 1 + Len(tools)
        /\ \A i \in 1..L : AllSteps[i] = steps[i]
        /\ AllSteps[L + 1] = e
        /\ \A i \in 1..Len(list) : i > L + 1 => AllSteps[i].type = "tool"
    <3>1. /\ L \in Nat /\ Len(tools) \in Nat /\ Len(list) = L + 1 + Len(tools)
          /\ \A i \in 1..L : more[i] = steps[i]
          /\ more[L + 1] = e
      BY <1>1, <2>3 DEF Sends, more
    <3>2. ASSUME NEW i \in 1..Len(list), i > L + 1 PROVE more[i].type = "tool"
      <4>1. i \in 1..Len(more) /\ ~(i \in 1..L) /\ i # L + 1
        BY <3>1, <3>2 DEF more
      <4>2. i - L - 1 \in 1..Len(tools) /\ more[i] = tools[i - L - 1]
        BY <2>3, <4>1 DEF Sends
      <4>3. more[i] \in ToolStep
        BY <2>3, <4>2
      <4> QED
        BY <4>3 DEF ToolStep
    <3> QED
      BY <3>1, <3>2 DEF more
  <2> HIDE DEF L
  <2>6. t[L + 1] = list[L + 1].llm /\ list[L + 1] = C!Backfill(e, Started, clock)
    <3>1. L + 1 \in 1..Len(list)
      BY <2>5
    <3>2. list[L + 1].type = "generation" /\ list[L + 1] = C!Backfill(e, Started, clock)
      BY <2>4, <2>5, <3>1
    <3> QED
      BY <1>3, <3>1, <3>2
  <2>7. C!Backfill(e, Started, clock).llm <= clock - g.start
    <3>1. TimesOfLast(e, TRUE, clock)
      BY <2>1, <2>4 DEF TimesOfOpen, TimesOfLast
    <3>2. e \in ClaudeStep /\ TimesKnown(e, TRUE, clock)
      BY <2>3, <2>4, <3>1 DEF TimesKnown, ClaudeStep
    <3> QED
      BY <1>1, <2>4, <3>1, <3>2, BackfilledTimes
  <2>8. /\ Len(s) < Len(t) /\ Len(s) = L
        /\ \A i \in 1..Len(s) : t[i] = s[i]
        /\ \A i \in 1..Len(t) : i > Len(s) + 1 => t[i] = 0
    <3>1. Len(s) = L /\ Len(t) = Len(list) /\ L < Len(list)
      BY <1>2, <1>3, <2>5 DEF L
    <3>2. ASSUME NEW i \in 1..L PROVE t[i] = s[i]
      <4>1. i \in 1..Len(list) /\ AllSteps[i] = steps[i] /\ i \in 1..Len(steps)
        BY <2>5, <3>2 DEF L
      <4> QED
        BY <1>4, <4>1 DEF s, t
    <3>3. ASSUME NEW i \in 1..Len(list), i > L + 1 PROVE t[i] = 0
      <4>1. list[i].type = "tool"
        BY <2>5, <3>3
      <4> QED
        BY <1>3, <4>1
    <3> QED
      BY <3>1, <3>2, <3>3
  <2>9. O!Total(t) = O!Total(s) + t[L + 1]
    BY <1>2, <1>3, <2>8, TotalExtended
  <2>10. t[L + 1] \in Int
    <3>1. L + 1 \in 1..Len(t)
      BY <1>3, <2>5
    <3> QED
      BY <1>3, <3>1
  <2>11. g.start \in Nat
    BY <2>1 DEF OpenGen
  <2>12. O!Total(t) <= clock - Started
    BY <1>1, <1>2, <1>3, <2>1, <2>6, <2>7, <2>9, <2>10, <2>11
  <2> QED
    BY <2>12 DEF t
<1> QED
  BY <1>5, <1>6

LEMMA EndStep ==
    ASSUME CallInv, ClaudeInv, agent = "claude", OutputEnds PROVE ClaudeInv'
<1>1. /\ phase = "reading" /\ ~panicked /\ phase' = "parsed" /\ clock' = clock
      /\ agent' = agent /\ stamps' = stamps /\ C!EndOfOutput(Started, clock)
  BY DEF OutputEnds
<1>2. /\ gen' = <<>> /\ UNCHANGED <<calls, toolMap, resumed, panicked>>
      /\ steps' = [i \in DOMAIN AllSteps |-> C!Backfill(AllSteps[i], Started, clock)]
  BY <1>1 DEF C!EndOfOutput, AllSteps
<1>3. /\ clock \in Nat /\ Started \in Nat /\ Started <= clock /\ calls \in Nat
  BY DEF CallInv, Started
<1> DEFINE all == AllSteps
           list == steps'
<1>4. /\ all \in Seq(ClaudeStep)
      /\ ~resumed => AnswersIn(all)
      /\ ThinkingIn(all)
      /\ ToolCalls(all) = Calls(calls)
      /\ stamps \in EvenlyStamped => \A i \in 1..Len(all) :
             TimesKnown(all[i], stamps # {}, clock)
  BY <1>1, AllStepsFit
<1> HIDE DEF all, list
<1>5. /\ Len(all) \in Nat /\ DOMAIN all = 1..Len(all)
      /\ \A i \in 1..Len(all) : all[i] \in ToolStep \/ all[i] \in GenStep
  BY <1>4 DEF ClaudeStep
<1>6. list = [i \in 1..Len(all) |-> C!Backfill(all[i], Started, clock)]
  BY <1>2, <1>5 DEF all, list
<1>7. ASSUME NEW i \in 1..Len(all)
      PROVE  LET b == C!Backfill(all[i], Started, clock)
             IN  /\ b \in ClaudeStep /\ b.type = all[i].type
                 /\ all[i].type = "tool" => b.id = all[i].id /\ b.answer = all[i].answer
                 /\ all[i].type = "generation" => b.turns = all[i].turns /\ b.by = all[i].by
  <2> DEFINE b == C!Backfill(all[i], Started, clock)
  <2>1. CASE all[i] \in ToolStep
    <3>1. b \in ToolStep /\ b.id = all[i].id /\ b.answer = all[i].answer
      BY <1>3, <2>1, BackfilledTool
    <3> QED
      BY <2>1, <3>1 DEF ClaudeStep, ToolStep
  <2>2. CASE all[i] \in GenStep
    <3>1. b \in GenStep /\ b.turns = all[i].turns /\ b.by = all[i].by
      BY <1>3, <2>2, BackfilledGen
    <3> QED
      BY <2>2, <3>1 DEF ClaudeStep, GenStep
  <2> QED
    BY <1>5, <2>1, <2>2
<1>8. /\ list \in Seq(ClaudeStep) /\ Len(list) = Len(all)
      /\ \A i \in 1..Len(list) : list[i] = C!Backfill(all[i], Started, clock)
  BY <1>5, <1>6, <1>7
<1>9. \A i \in 1..Len(list) :
          /\ list[i].type = all[i].type
          /\ all[i].type = "tool" => list[i].id = all[i].id /\ list[i].answer = all[i].answer
          /\ all[i].type = "generation" => list[i].turns = all[i].turns /\ list[i].by = all[i].by
  BY <1>7, <1>8
<1>10. ~resumed => AnswersIn(list)
  BY <1>4, <1>8, <1>9 DEF AnswersIn, OwnAnswer
<1>11. ThinkingIn(list)
  <2> SUFFICES ASSUME NEW i \in 1..Len(list), list[i].type = "generation"
               PROVE  /\ OneAnswer(list[i].turns)
                      /\ C!ThinkingOnly(list[i]) => list[i].by # "assistant"
    BY DEF ThinkingIn
  <2>1. list[i].turns = all[i].turns /\ list[i].by = all[i].by /\ all[i].type = "generation"
    BY <1>9
  <2>2. OneAnswer(all[i].turns) /\ (C!ThinkingOnly(all[i]) => all[i].by # "assistant")
    BY <1>4, <1>8, <2>1 DEF ThinkingIn
  <2>3. C!ThinkingOnly(list[i]) <=> C!ThinkingOnly(all[i])
    BY <2>1 DEF C!ThinkingOnly
  <2> QED
    BY <2>1, <2>2, <2>3
<1>12. ASSUME stamps \in EvenlyStamped PROVE \A i \in 1..Len(list) : TimesFit(list[i], clock)
  <2> SUFFICES ASSUME NEW i \in 1..Len(list) PROVE TimesFit(list[i], clock)
    OBVIOUS
  <2> DEFINE stamped == stamps # {}
  <2>1. all[i] \in ClaudeStep /\ TimesKnown(all[i], stamped, clock) /\ stamped \in BOOLEAN
    BY <1>4, <1>8, <1>12
  <2> HIDE DEF stamped
  <2>2. TimesFit(C!Backfill(all[i], Started, clock), clock)
    BY <1>3, <2>1, BackfilledTimes
  <2> QED
    BY <1>8, <2>2
<1>13. stamps = Kinds => O!Total(LlmTimes(list)) <= clock - Started
  BY <1>1, <1>8, <1>9, LastModelTime DEF all
<1>14. ToolCalls(list) = Calls(calls)
  <2>1. GoesOn(all, list, calls, 0)
    BY <1>8, <1>9 DEF GoesOn
  <2>2. ToolCalls(list) = Calls(calls + 0)
    BY <1>3, <1>4, <1>5, <1>8, <2>1, CallsExtended
  <2> QED
    BY <1>3, <2>2
<1>15. ClaudeTypes'
  <2>1. gen' \in Seq(OpenGen) /\ Len(gen') <= 1
    BY <1>2
  <2> QED
    BY <1>1, <1>2, <1>8, <2>1 DEF ClaudeInv, ClaudeTypes, ClaudeStep, list
<1>16. MapInv' /\ ThinkingInv' /\ LatencyInv' /\ TimesInv'
  BY <1>1, <1>2, <1>11, <1>12, <1>13 DEF MapInv, ThinkingInv, LatencyInv, TimesInv, list
<1>17. AnswerInv'
  BY <1>1, <1>2, <1>10 DEF ClaudeInv, AnswerInv, list
<1>18. LogIn(steps, Held, calls)'
  <2>1. Held' = <<>> /\ calls' = calls /\ Len(<<>>) = 0 /\ calls - 0 = calls /\ 0 <= calls
    BY <1>2, <1>3 DEF Held
  <2> QED
    BY <1>14, <2>1 DEF LogIn, list
<1> QED
  BY <1>15, <1>16, <1>17, <1>18 DEF ClaudeInv

LEMMA ClaudeStarts ==
    ASSUME agent = "claude", phase = "reading", clock = Started,
           C!Init, calls = 0, steps = <<>>
    PROVE  ClaudeInv
<1>1. gen = <<>> /\ toolMap = C!NoTools /\ resumed = FALSE /\ panicked = FALSE
  BY DEF C!Init
<1>2. toolMap \in [DOMAIN toolMap -> Nat \ {0}] /\ DOMAIN toolMap = {}
  BY <1>1 DEF C!NoTools
<1>3. gen \in Seq(OpenGen) /\ Len(gen) <= 1 /\ steps \in Seq(ToolStep \cup GenStep)
      /\ Len(steps) = 0 /\ 1..0 = {}
  BY <1>1
<1>4. ClaudeTypes
  BY <1>1, <1>2, <1>3 DEF ClaudeTypes
<1>5. MapInv /\ AnswerInv /\ ThinkingInv /\ TimesInv
  BY <1>1, <1>2, <1>3 DEF MapInv, AnswerInv, AnswersIn, ThinkingInv, ThinkingIn, TimesInv, TimesIn
<1>6. LatencyInv
  <2>1. 0 <= Started - Started
    BY DEF Started
  <2> QED
    BY <1>1, <1>3, <2>1, NothingRead DEF LatencyInv, AllTimed
<1>7. LogIn(steps, Held, calls)
  BY <1>1, <1>3, NothingRead DEF LogIn, Held
<1> QED
  BY <1>4, <1>5, <1>6, <1>7 DEF ClaudeInv

LEMMA ClaudeStepKept ==
    ASSUME CallInv, ClaudeInv, [Next]_vars PROVE ClaudeInv'
<1>1. CASE ReadAssistant
  BY <1>1, AssistantStep
<1>2. CASE ReadToolResult
  BY <1>2, ToolResultStep
<1>3. CASE ReadResult
  BY <1>3, ResultStep
<1>4. CASE OutputEnds
  BY <1>4, EndStep DEF OutputEnds, ClaudeInv
<1>5. CASE Retry
  <2>1. /\ agent' = agent /\ phase' = "reading" /\ clock' = Started
        /\ gen' = <<>> /\ toolMap' = C!NoTools /\ resumed' = FALSE /\ panicked' = FALSE
        /\ calls' = 0 /\ steps' = <<>>
    BY <1>5 DEF Retry, NewOutput
  <2>2. (agent = "claude" /\ phase = "reading" /\ clock = Started
         /\ C!Init /\ calls = 0 /\ steps = <<>> => ClaudeInv)'
    BY ClaudeStarts, PTL
  <2> QED
    BY <2>1, <2>2 DEF C!Init, ClaudeInv
<1>6. CASE FinishTrial
  <2>1. /\ UNCHANGED <<agent, stamps, clock, gen, toolMap, resumed, panicked, calls, steps>>
        /\ phase = "parsed" /\ phase' = "finished"
    BY <1>6 DEF FinishTrial, claudeVars
  <2> QED
    BY <2>1 DEF ClaudeInv, ClaudeTypes, MapInv, AnswerInv, ThinkingInv, TimesInv, LatencyInv, Held
<1>7. CASE UNCHANGED vars
  BY <1>7 DEF vars, claudeVars, ClaudeInv, ClaudeTypes, MapInv, AnswerInv, ThinkingInv,
              TimesInv, LatencyInv, Held
<1>8. CASE ReadStepStart \/ ReadToolUse \/ ReadStepFinish \/ PluginAppends
  BY <1>8 DEF ReadStepStart, ReadToolUse, ReadStepFinish, PluginAppends, Read, ClaudeInv
<1> QED
  BY <1>1, <1>2, <1>3, <1>4, <1>5, <1>6, <1>7, <1>8 DEF Next, Ended

-----------------------------------------------------------------------------
(* The theorems. *)

LEMMA Inductive ==
    /\ Init => IInv
    /\ IInv /\ [Next]_vars => IInv'
<1>1. ASSUME Init PROVE IInv
  <2>1. /\ attempt = 1 /\ phase = "reading" /\ clock = Started /\ C!Init /\ O!Init
        /\ calls = 0 /\ steps = <<>> /\ file = <<>>
        /\ \/ agent = "claude" /\ stamps \in EvenlyStamped \cup {{"user", "result"}}
           \/ agent = "opencode" /\ stamps = {}
    BY <1>1 DEF Init
  <2>2. CallInv
    BY <2>1 DEF CallInv, Started
  <2>3. FileInv
    BY <2>1 DEF FileInv
  <2>4. ClaudeInv
    BY <2>1, ClaudeStarts DEF ClaudeInv
  <2>5. OpencodeInv
    <3>1. /\ stepStart = 0 /\ inStep = FALSE /\ pending = <<>>
          /\ pending \in Seq(OpencodeTool) /\ steps \in Seq(OpencodeTool \cup OpencodeGen)
          /\ Len(<<>>) = 0 /\ 1..0 = {} /\ 0 <= Started - Started
      BY <2>1 DEF O!Init, Started
    <3>2. LogIn(steps, pending, calls)
      BY <2>1, <3>1, NothingRead DEF LogIn
    <3> QED
      BY <2>1, <3>1, <3>2, NothingRead DEF OpencodeInv
  <2>6. ReasoningOfOwnGeneration
    BY <2>1 DEF ReasoningOfOwnGeneration
  <2> QED
    BY <2>2, <2>3, <2>4, <2>5, <2>6 DEF IInv
<1>2. ASSUME IInv, [Next]_vars PROVE IInv'
  BY <1>2, CallStep, FileStep, ClaudeStepKept, OpencodeStep, ReasoningStep DEF IInv
<1> QED
  BY <1>1, <1>2

\* The invariant that all the others follow from.
THEOREM Invariance == Spec => []IInv
BY Inductive, PTL DEF Spec

\* A result is stored in the step of its call, and the parser does not panic,
\* as long as claude does not go on after a result event.
THEOREM ResultsFit == Spec => []ResultOnOwnTool
<1>1. IInv => ResultOnOwnTool
  <2> SUFFICES ASSUME IInv, agent = "claude", ~resumed PROVE C!ResultOnOwnTool
    BY DEF ResultOnOwnTool, C!ResultOnOwnTool
  <2>1. ~panicked /\ AnswersIn(steps) /\ steps \in Seq(ToolStep \cup GenStep)
    BY DEF IInv, ClaudeInv, AnswerInv, ClaudeTypes
  <2>2. \A i \in DOMAIN steps : steps[i].type = "tool" => steps[i].answer \in {0, steps[i].id}
    BY <2>1 DEF AnswersIn, OwnAnswer
  <2>3. ASSUME NEW g \in C!ToSet(gen), NEW n \in DOMAIN g.tools
        PROVE  g.tools[n].answer \in {0, g.tools[n].id}
    <3>1. gen # <<>>
      BY <2>3 DEF C!ToSet
    <3>2. gen = <<gen[1]>> /\ gen[1] \in OpenGen
      BY <3>1, Pending DEF IInv
    <3>3. g = gen[1]
      BY <2>3, <3>2 DEF C!ToSet
    <3>4. DOMAIN g.tools = 1..Len(g.tools)
      BY <3>2, <3>3 DEF OpenGen
    <3> QED
      BY <2>3, <3>1, <3>3, <3>4 DEF IInv, ClaudeInv, AnswerInv, OwnAnswer
  <2> QED
    BY <2>1, <2>2, <2>3 DEF C!ResultOnOwnTool
<1> QED
  BY <1>1, Invariance, PTL

\* Thinking stays in one generation with the answer it led to.
THEOREM ThinkingStays == Spec => []ThinkingWithItsAnswer
<1>1. IInv => ThinkingWithItsAnswer
  <2> SUFFICES ASSUME IInv, agent = "claude" PROVE C!ThinkingWithItsAnswer
    BY DEF ThinkingWithItsAnswer
  <2> DEFINE Closes == {steps[i] : i \in {j \in DOMAIN steps : steps[j].type = "generation"}}
  <2>1. ThinkingIn(steps) /\ steps \in Seq(ToolStep \cup GenStep)
    BY DEF IInv, ClaudeInv, ThinkingInv, ClaudeTypes
  <2>2. \A g \in Closes : OneAnswer(g.turns) /\ (C!ThinkingOnly(g) => g.by # "assistant")
    BY <2>1 DEF ThinkingIn
  <2>3. ASSUME NEW g \in C!ToSet(gen) PROVE OneAnswer(g.turns)
    <3>1. gen # <<>>
      BY <2>3 DEF C!ToSet
    <3>2. gen = <<gen[1]>> /\ OneAnswer(gen[1].turns)
      BY <3>1, Pending DEF IInv
    <3>3. g = gen[1]
      BY <2>3, <3>2 DEF C!ToSet
    <3> QED
      BY <3>2, <3>3
  <2> QED
    BY <2>2, <2>3 DEF C!ThinkingWithItsAnswer, OneAnswer
<1> QED
  BY <1>1, Invariance, PTL

\* The steps of claude have times within the call, with stamps or without.
THEOREM TimesOfSteps == Spec => []StepTimesFit
<1>1. IInv => StepTimesFit
  <2> SUFFICES ASSUME IInv, agent = "claude", stamps \in EvenlyStamped, phase # "reading",
                      NEW i \in DOMAIN steps
               PROVE  /\ Started <= steps[i].start /\ steps[i].start <= steps[i].end
                      /\ steps[i].end <= clock
                      /\ steps[i].dur = steps[i].end - steps[i].start
                      /\ steps[i].type = "generation" => steps[i].llm \in 0..steps[i].dur
    BY DEF StepTimesFit
  <2>1. steps \in Seq(ToolStep \cup GenStep)
    BY DEF IInv, ClaudeInv, ClaudeTypes
  <2>2. i \in 1..Len(steps) /\ steps[i] \in ToolStep \cup GenStep
    BY <2>1
  <2>3. TimesFit(steps[i], clock)
    BY <2>2 DEF IInv, ClaudeInv, TimesInv
  <2>4. steps[i].type = "generation" => steps[i].llm \in Int /\ steps[i].dur \in Int
    BY <2>2 DEF ToolStep, GenStep
  <2> QED
    BY <2>3, <2>4 DEF TimesFit
<1> QED
  BY <1>1, Invariance, PTL

\* The model time and the idle time of a trial fit into its call.
THEOREM LatencyFits == Spec => []LatencyWithinWall
<1>1. IInv => LatencyWithinWall
  <2> SUFFICES ASSUME IInv, phase # "reading", agent = "claude" => stamps = Kinds
               PROVE  LlmLatencyMs + IdleMs <= WallTimeMs
    BY DEF LatencyWithinWall
  <2> DEFINE sum == O!Total(LlmTimes(steps))
             tools == O!Total(ToolTimes(steps))
  <2>1. clock \in Nat /\ Started \in Nat /\ Started <= clock
    BY DEF IInv, CallInv, Started
  <2>2. sum \in Int /\ sum <= clock - Started
    <3>1. CASE agent = "claude"
      <4>1. steps \in Seq(ClaudeStep) /\ gen = <<>>
        BY <3>1 DEF IInv, ClaudeInv, ClaudeTypes, ClaudeStep
      <4> QED
        BY <3>1, <4>1, ClaudeTimes DEF IInv, ClaudeInv, LatencyInv
    <3>2. CASE agent = "opencode"
      <4>1. sum \in Int
        BY <3>2, OpencodeTimes DEF IInv, OpencodeInv
      <4>2. /\ sum <= (IF inStep THEN stepStart ELSE clock) - Started
            /\ inStep => stepStart <= clock
            /\ stepStart \in Nat
        BY <3>2 DEF IInv, OpencodeInv
      <4> QED
        BY <2>1, <4>1, <4>2
    <3> QED
      BY <3>1, <3>2 DEF IInv, CallInv
  <2>3. tools \in Int /\ tools >= 0
    <3>1. /\ Len(steps) \in Nat /\ DOMAIN steps = 1..Len(steps)
          /\ \A i \in 1..Len(steps) :
                 steps[i].type = "tool" => steps[i].dur \in Int /\ steps[i].dur >= 0
      <4>1. CASE agent = "claude"
        <5>1. /\ steps \in Seq(ToolStep \cup GenStep)
              /\ \A i \in 1..Len(steps) : TimesFit(steps[i], clock)
          BY <4>1 DEF IInv, ClaudeInv, ClaudeTypes, TimesInv, EvenlyStamped
        <5>2. \A i \in 1..Len(steps) : steps[i] \in ToolStep \cup GenStep
          BY <5>1
        <5>3. \A i \in 1..Len(steps) :
                  /\ steps[i].start \in Nat /\ steps[i].end \in Nat /\ steps[i].dur \in Int
                  /\ steps[i].start <= steps[i].end
                  /\ steps[i].dur = steps[i].end - steps[i].start
          BY <5>1, <5>2 DEF TimesFit, ToolStep, GenStep
        <5> QED
          BY <5>1, <5>3
      <4>2. CASE agent = "opencode"
        <5>1. steps \in Seq(OpencodeTool \cup OpencodeGen)
          BY <4>2 DEF IInv, OpencodeInv
        <5>2. \A i \in 1..Len(steps) : steps[i] \in OpencodeTool \cup OpencodeGen
          BY <5>1
        <5>3. \A i \in 1..Len(steps) : steps[i].type = "tool" => steps[i].dur \in Nat
          BY <5>2 DEF OpencodeTool, OpencodeGen
        <5> QED
          BY <5>1, <5>3
      <4> QED
        BY <4>1, <4>2 DEF IInv, CallInv
    <3> DEFINE times == ToolTimes(steps)
    <3>2. \A i \in 1..Len(steps) :
              LET t == IF steps[i].type = "tool" THEN steps[i].dur ELSE 0
              IN  t \in Int /\ t >= 0
      BY <3>1
    <3>3. times = [i \in 1..Len(steps) |-> IF steps[i].type = "tool" THEN steps[i].dur ELSE 0]
      BY <3>1 DEF ToolTimes
    <3> HIDE DEF times
    <3>4. times \in Seq(Int) /\ \A i \in 1..Len(times) : times[i] >= 0
      BY <3>1, <3>2, <3>3
    <3>5. O!Total(times) \in Int /\ O!Total(times) >= 0
      BY <3>4, TotalType
    <3> QED
      BY <3>5 DEF times
  <2> HIDE DEF sum, tools
  <2>4. LlmLatencyMs = IF sum > 0 THEN sum ELSE 0
    BY DEF LlmLatencyMs, sum
  <2>5. IdleMs = IF LlmLatencyMs > 0 /\ (clock - Started) - LlmLatencyMs - tools > 0
                 THEN (clock - Started) - LlmLatencyMs - tools ELSE 0
    BY DEF IdleMs, WallTimeMs, tools
  <2> QED
    BY <2>1, <2>2, <2>3, <2>4, <2>5 DEF WallTimeMs
<1> QED
  BY <1>1, Invariance, PTL

\* Reasoning is merged into its own generation, unless the file begins with
\* the entries of an earlier attempt.
THEOREM ReasoningFits == Spec => []ReasoningOfOwnGeneration
BY Invariance, PTL DEF IInv
-----------------------------------------------------------------------------
(* The tool calls: what comes out are the first calls that were read.       *)

Inside == IF agent = "claude" THEN Held ELSE pending

Out == calls - Len(Inside)

LEMMA CallsOut ==
    ASSUME IInv
    PROVE  /\ calls \in Nat /\ Len(Inside) \in Nat
           /\ Out \in Nat /\ Out <= calls /\ ToolCalls(steps) = Calls(Out)
<1>1. calls \in Nat /\ agent \in {"claude", "opencode"}
  BY DEF IInv, CallInv
<1>2. Len(Inside) \in Nat /\ LogIn(steps, Inside, calls)
  <2>1. CASE agent = "claude"
    <3>1. LogIn(steps, Held, calls) /\ gen \in Seq(OpenGen)
      BY <2>1 DEF IInv, ClaudeInv, ClaudeTypes
    <3>2. gen # <<>> => gen[1].tools \in Seq(ToolStep)
      <4>1. gen # <<>> => gen[1] \in OpenGen
        BY <2>1, Pending DEF IInv
      <4> QED
        BY <4>1 DEF OpenGen
    <3>3. Len(Held) \in Nat
      BY <3>2 DEF Held
    <3> QED
      BY <2>1, <3>1, <3>3 DEF Inside
  <2>2. CASE agent = "opencode"
    BY <2>2 DEF IInv, OpencodeInv, Inside
  <2> QED
    BY <1>1, <2>1, <2>2
<1> QED
  BY <1>1, <1>2 DEF LogIn, Out

LEMMA Prefixes ==
    ASSUME NEW a \in Nat, NEW b \in Nat, a <= b
    PROVE  ToolLog!IsPrefix(Calls(a), Calls(b))
<1>1. Calls(a) \in Seq(Nat) /\ Len(Calls(a)) = a /\ Calls(b) \in Seq(Nat) /\ Len(Calls(b)) = b
  BY CallsSequence
<1>2. SubSeq(Calls(a), 1, a) = SubSeq(Calls(b), 1, a)
  <2> DEFINE s == SubSeq(Calls(a), 1, a)
             t == SubSeq(Calls(b), 1, a)
  <2>1. /\ s \in Seq(Nat) /\ Len(s) = a /\ t \in Seq(Nat) /\ Len(t) = a
        /\ \A i \in 1..a : s[i] = Calls(a)[i] /\ t[i] = Calls(b)[i]
    BY <1>1
  <2>2. \A i \in 1..a : Calls(a)[i] = i /\ Calls(b)[i] = i
    BY DEF Calls
  <2>3. \A i \in 1..a : s[i] = t[i]
    BY <2>1, <2>2
  <2> HIDE DEF s, t
  <2>4. s = t
    BY <2>1, <2>3, SeqEqual
  <2> QED
    BY <2>4 DEF s, t
<1> QED
  BY <1>1, <1>2 DEF ToolLog!IsPrefix

\* claude's assistant event sends out what was inside, or nothing.
LEMMA AssistantSends ==
    ASSUME IInv, ReadAssistant
    PROVE  /\ calls' \in Nat /\ calls <= calls'
           /\ Out' = Out \/ Out' = calls
<1>1. PICK turn \in Turns : C!Assistant(turn, Stamp("assistant"))
  BY DEF ReadAssistant
<1> DEFINE ms == Stamp("assistant")
           closes == gen # <<>> /\ ~C!ThinkingOnly(gen[1])
           g == IF gen = <<>> \/ closes THEN C!NewGeneration(ms) ELSE gen[1]
<1>2. agent = "claude" /\ agent' = agent /\ clock' \in {clock, clock + 1}
  BY DEF ReadAssistant, Read
<1>3. CallInv /\ ClaudeInv /\ clock \in Nat /\ calls \in Nat
  BY DEF IInv, CallInv
<1>4. ms \in Nat
  BY <1>2, <1>3 DEF Stamp
<1>5. gen' = <<TurnAdded(g, turn, ms)>> /\ calls' = calls + turn.calls
  BY <1>1 DEF C!Assistant, TurnAdded
<1> HIDE DEF ms
<1>6. g \in OpenGen /\ (g.tools = <<>> \/ (gen # <<>> /\ g.tools = gen[1].tools))
  <2>1. CASE gen = <<>> \/ closes
    <3>1. g = [start |-> ms, toolTime |-> 0, turns |-> <<>>, tools |-> <<>>]
      BY <2>1 DEF C!NewGeneration
    <3>2. <<>> \in Seq(Turns) /\ <<>> \in Seq(ToolStep)
      OBVIOUS
    <3> HIDE DEF g
    <3> QED
      BY <1>4, <3>1, <3>2 DEF OpenGen
  <2>2. CASE ~(gen = <<>> \/ closes)
    <3>1. gen[1] \in OpenGen
      BY <1>2, <1>3, <2>2, Pending
    <3> QED
      BY <2>2, <3>1
  <2> QED
    BY <2>1, <2>2
<1> HIDE DEF g, closes
<1>7. /\ turn.calls \in Nat /\ Len(g.tools) \in Nat
      /\ Len(TurnAdded(g, turn, ms).tools) = Len(g.tools) + turn.calls
  BY <1>3, <1>4, <1>6, TurnAddedFields
<1>8. Inside' = TurnAdded(g, turn, ms).tools
  BY <1>2, <1>5 DEF Inside, Held
<1>9. Out' = calls - Len(g.tools)
  BY <1>3, <1>5, <1>7, <1>8 DEF Out
<1>10. gen # <<>> => Inside = gen[1].tools
  BY <1>2 DEF Inside, Held
<1>11. Len(<<>>) = 0
  OBVIOUS
<1>12. Out' = Out \/ Out' = calls
  BY <1>3, <1>6, <1>9, <1>10, <1>11 DEF Out
<1> QED
  BY <1>3, <1>5, <1>7, <1>12

\* The other events, likewise.
LEMMA LineSends ==
    ASSUME IInv, NEW by \in Agents, Read(by),
           \/ ReadAssistant \/ ReadToolResult \/ ReadResult
           \/ ReadStepStart \/ ReadToolUse \/ ReadStepFinish
    PROVE  /\ calls' \in Nat /\ calls <= calls'
           /\ Out' = Out \/ Out' = calls
<1>1. calls \in Nat /\ Len(Inside) \in Nat
  BY CallsOut
<1>2. CASE ReadAssistant
  BY <1>2, AssistantSends
<1>3. CASE ReadToolResult
  <2>1. PICK id \in (1..calls) \ answered : C!ToolResult(id, Stamp("user"))
    BY <1>3 DEF ReadToolResult
  <2> DEFINE ms == Stamp("user")
  <2>2. agent = "claude" /\ agent' = agent /\ calls' = calls /\ C!ToolResult(id, ms)
    BY <1>3, <2>1 DEF ReadToolResult, Read, C!ToolResult
  <2> HIDE DEF ms
  <2>3. \/ gen' = gen
        \/ gen # <<>> /\ gen' = <<Stored(gen[1], toolMap[id], id, ms)>>
    BY <2>2 DEF C!ToolResult, Stored
  <2>4. Len(Held') = Len(Held)
    <3>1. CASE gen' = gen
      BY <3>1 DEF Held
    <3>2. CASE gen # <<>> /\ gen' = <<Stored(gen[1], toolMap[id], id, ms)>>
      <4>1. gen[1] \in OpenGen
        BY <2>2, <3>2, Pending DEF IInv
      <4>2. Len(Stored(gen[1], toolMap[id], id, ms).tools) = Len(gen[1].tools)
        BY <4>1 DEF Stored, OpenGen
      <4> QED
        BY <3>2, <4>2 DEF Held
    <3> QED
      BY <2>3, <3>1, <3>2
  <2> QED
    BY <1>1, <2>2, <2>4 DEF Out, Inside
<1>4. CASE ReadResult
  <2>1. agent = "claude" /\ agent' = agent /\ calls' = calls /\ gen' = <<>>
    BY <1>4 DEF ReadResult, Read, C!Result
  <2>2. Inside' = <<>> /\ Len(<<>>) = 0
    BY <2>1 DEF Inside, Held
  <2> QED
    BY <1>1, <2>1, <2>2 DEF Out
<1>5. CASE ReadStepStart
  <2>1. agent = "opencode" /\ agent' = agent /\ calls' = calls /\ pending' = pending
    BY <1>5 DEF ReadStepStart, Read, O!StepStart
  <2> QED
    BY <1>1, <2>1 DEF Out, Inside
<1>6. CASE ReadToolUse
  <2>1. PICK since \in {0} \cup stepStart..clock : O!ToolUse(since, clock')
    BY <1>6 DEF ReadToolUse
  <2>2. agent = "opencode" /\ agent' = agent /\ calls' = calls + 1
    BY <1>6, <2>1 DEF ReadToolUse, Read, O!ToolUse
  <2>3. Len(pending') = Len(pending) + 1
    <3>1. pending \in Seq(OpencodeTool)
      BY <2>2 DEF IInv, OpencodeInv
    <3> QED
      BY <2>1, <3>1 DEF O!ToolUse
  <2>4. Inside' = pending' /\ Inside = pending
    BY <2>2 DEF Inside
  <2> QED
    BY <1>1, <2>2, <2>3, <2>4 DEF Out
<1>7. CASE ReadStepFinish
  <2>1. agent = "opencode" /\ agent' = agent /\ calls' = calls /\ pending' = <<>>
    BY <1>7 DEF ReadStepFinish, Read, O!StepFinish
  <2>2. Inside' = <<>> /\ Len(<<>>) = 0
    BY <2>1 DEF Inside
  <2> QED
    BY <1>1, <2>1, <2>2 DEF Out
<1> QED
  BY <1>2, <1>3, <1>4, <1>5, <1>6, <1>7

\* Every step of the parser is one that the log of calls allows.
LEMMA LogStep ==
    ASSUME IInv, IInv', [Next]_vars
    PROVE  [ToolLog!Event \/ ToolLog!End \/ ToolLog!Again]_(ToolLog!vars)
<1>1. /\ calls \in Nat /\ Out \in Nat /\ Out <= calls /\ ToolCalls(steps) = Calls(Out)
  BY CallsOut
<1>2. (/\ calls \in Nat /\ Len(Inside) \in Nat
       /\ Out \in Nat /\ Out <= calls /\ ToolCalls(steps) = Calls(Out))'
  <2>1. (IInv => /\ calls \in Nat /\ Len(Inside) \in Nat
                 /\ Out \in Nat /\ Out <= calls /\ ToolCalls(steps) = Calls(Out))'
    BY CallsOut, PTL
  <2> QED
    BY <2>1
<1>3. /\ ToolCalls(steps)' = ToolCalls(steps')
      /\ Calls(calls) = [i \in 1..calls |-> i] /\ Calls(calls') = [i \in 1..calls' |-> i]
  BY DEF ToolCalls, Calls
<1>4. ASSUME NEW by \in Agents, Read(by),
             \/ ReadAssistant \/ ReadToolResult \/ ReadResult
             \/ ReadStepStart \/ ReadToolUse \/ ReadStepFinish
      PROVE  ToolLog!Event
  <2>1. /\ calls' \in Nat /\ calls <= calls' /\ (Out' = Out \/ Out' = calls)
    BY <1>4, LineSends
  <2>2. Out' \in Nat /\ Out <= Out' /\ Out' <= calls /\ ToolCalls(steps)' = Calls(Out')
    BY <1>1, <1>2, <2>1
  <2>3. /\ ToolLog!IsPrefix(Calls(calls), Calls(calls'))
        /\ ToolLog!IsPrefix(ToolCalls(steps), ToolCalls(steps)')
        /\ ToolLog!IsPrefix(ToolCalls(steps)', Calls(calls))
    BY <1>1, <2>1, <2>2, Prefixes
  <2>4. phase = "reading" /\ phase' = phase /\ agent' = agent
    BY <1>4 DEF Read
  <2> QED
    BY <1>3, <2>3, <2>4 DEF ToolLog!Event
<1>5. CASE ReadAssistant \/ ReadToolResult \/ ReadResult
  BY <1>4, <1>5 DEF ReadAssistant, ReadToolResult, ReadResult, Agents
<1>6. CASE ReadStepStart \/ ReadToolUse \/ ReadStepFinish
  BY <1>4, <1>6 DEF ReadStepStart, ReadToolUse, ReadStepFinish, Agents
<1>7. CASE OutputEnds
  <2>1. /\ phase = "reading" /\ phase' = "parsed" /\ agent' = agent /\ calls' = calls
        /\ (agent = "claude" /\ gen' = <<>>) \/ (agent = "opencode" /\ steps' = steps)
    BY <1>7 DEF OutputEnds, C!EndOfOutput, O!EndOfOutput
  <2>2. CASE agent = "claude"
    <3>1. Inside' = <<>> /\ Len(<<>>) = 0
      BY <2>1, <2>2 DEF Inside, Held
    <3>2. Out' = calls
      BY <1>1, <2>1, <3>1 DEF Out
    <3>3. ToolCalls(steps)' = Calls(calls)
      BY <1>2, <3>2
    <3>4. /\ ToolLog!IsPrefix(ToolCalls(steps), ToolCalls(steps)')
          /\ ToolLog!IsPrefix(ToolCalls(steps)', Calls(calls))
      BY <1>1, <3>3, Prefixes
    <3> QED
      BY <1>3, <2>1, <3>3, <3>4 DEF ToolLog!End
  <2>3. CASE agent # "claude"
    <3>1. steps' = steps /\ agent = "opencode"
      BY <2>1, <2>3
    <3>2. ToolCalls(steps)' = ToolCalls(steps)
      BY <1>3, <3>1
    <3>3. /\ ToolLog!IsPrefix(ToolCalls(steps), ToolCalls(steps)')
          /\ ToolLog!IsPrefix(ToolCalls(steps)', Calls(calls))
      BY <1>1, <3>2, Prefixes
    <3> QED
      BY <1>3, <2>1, <3>1, <3>3 DEF ToolLog!End
  <2> QED
    BY <2>2, <2>3
<1>8. CASE Retry
  <2>1. /\ phase = "parsed" /\ phase' = "reading" /\ agent' = agent
        /\ calls' = 0 /\ steps' = <<>>
    BY <1>8 DEF Retry, NewOutput
  <2>2. ToolCalls(steps)' = <<>> /\ Calls(calls') = <<>>
    BY <1>3, <2>1, NothingRead, CallsSequence
  <2> QED
    BY <1>3, <2>1, <2>2 DEF ToolLog!Again
<1>9. ASSUME UNCHANGED <<agent, calls, steps>>, (phase' = "reading") = (phase = "reading")
      PROVE  UNCHANGED ToolLog!vars
  BY <1>3, <1>9 DEF ToolLog!vars
<1>10. CASE PluginAppends \/ Ended \/ UNCHANGED vars
  BY <1>9, <1>10 DEF PluginAppends, Ended, vars
<1>11. CASE FinishTrial
  BY <1>9, <1>11 DEF FinishTrial
<1> QED
  BY <1>5, <1>6, <1>7, <1>8, <1>10, <1>11 DEF Next

\* No tool call is lost in the middle of the output, repeated or put out of
\* order by either parser, over all the attempts of a trial.
THEOREM KeepsCallLog == Spec => ImplementsCallLog
<1>1. Init => ToolLog!Init
  <2> SUFFICES ASSUME Init PROVE ToolLog!Init
    OBVIOUS
  <2>1. calls = 0 /\ steps = <<>> /\ phase = "reading"
    BY DEF Init
  <2>2. ToolCalls(steps) = <<>> /\ [i \in 1..calls |-> i] = <<>>
    BY <2>1, NothingRead, CallsSequence DEF Calls
  <2> QED
    BY <2>1, <2>2 DEF ToolLog!Init
<1> QED
  BY <1>1, LogStep, Invariance, PTL DEF Spec, ImplementsCallLog, ToolLog!Spec
=============================================================================
