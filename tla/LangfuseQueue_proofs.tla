------------------------ MODULE LangfuseQueue_proofs ------------------------
(***************************************************************************)
(* Proofs about LangfuseQueue for every number of trials and events, every *)
(* size of a chunk and of the queue, and every number of retries: an event *)
(* is in exactly one place, a queue is refilled up to its limit only, what *)
(* is left behind at the end was sent as often as allowed, and the queue   *)
(* implements EventDelivery.                                               *)
(***************************************************************************)
EXTENDS LangfuseQueue, FiniteSetTheorems, SequenceTheorems, WellFoundedInduction, TLAPS

USE SizesAssumption DEF Trials, Flushers

-----------------------------------------------------------------------------
(* The inductive invariant. *)

Injective(s) == \A i, j \in 1..Len(s) : s[i] = s[j] => i = j

\* e is in one of the chunks c; no event is in two of them or twice in one.
InSome(e, c) == \E i \in 1..Len(c) : e \in Elements(c[i])
Disjoint(c) ==
    /\ \A i \in 1..Len(c) : Injective(c[i])
    /\ \A i, j \in 1..Len(c) : \A e \in Elements(c[i]) : e \in Elements(c[j]) => i = j

\* Only a flush that is sending has chunks, and it keeps what failed until it
\* has put it back.
ShapeInv ==
    \A p \in Flushers :
        /\ pc[p] = "sending" <=> chunks[p] # << >>
        /\ pc[p] \notin {"sending", "requeue"} => failed[p] = << >>
        /\ \A i \in 1..Len(chunks[p]) : Len(chunks[p][i]) <= ChunkSize
        /\ pc[p] = "waiting" => p = 0
        /\ pc[p] = "adding" => p # 0

\* No sequence holds an event twice.
OnceInv ==
    /\ Injective(batch)
    /\ \A p \in Flushers : Injective(failed[p]) /\ Disjoint(chunks[p])

\* The places an event can be at.
InBatch(e) == e \in Elements(batch)
Held(e, p) == e \in Elements(failed[p]) \/ InSome(e, chunks[p])
Settled(e) == e \in acked \/ e \in rejected \/ e \in dropped

\* A queued event is at one of them and at no other, any other at none.
PlaceInv ==
    \A e \in Events :
        /\ Queued(e) <=> InBatch(e) \/ (\E p \in Flushers : Held(e, p)) \/ Settled(e)
        /\ InBatch(e) => ~Settled(e)
        /\ \A p \in Flushers :
               /\ Held(e, p) => ~InBatch(e) /\ ~Settled(e)
               /\ \A q \in Flushers : Held(e, p) /\ Held(e, q) => p = q
               /\ ~(e \in Elements(failed[p]) /\ InSome(e, chunks[p]))
        /\ ~(e \in acked /\ e \in rejected)
        /\ ~(e \in acked /\ e \in dropped)
        /\ ~(e \in rejected /\ e \in dropped)

\* An event of the chunk being sent was sent once per attempt, one of a later
\* chunk not yet, and one that failed as often as allowed.
TriesInv ==
    \A p \in Flushers :
        /\ \A i \in 1..Len(chunks[p]) : \A e \in Elements(chunks[p][i]) :
               tries[e] = IF i = 1 THEN attempt[p] ELSE 0
        /\ \A e \in Elements(failed[p]) : tries[e] = MaxRetries + 1

\* The last Flush comes after all trials, and only it refills the batch then.
LastInv ==
    pc[0] # "waiting" =>
        /\ \A t \in Trials : pc[t] = "done"
        /\ pc[0] \in {"sending", "requeue"} => batch = << >>
        /\ pc[0] = "done" => \A e \in Elements(batch) : tries[e] = MaxRetries + 1

IInv == TypeOK /\ ShapeInv /\ OnceInv /\ PlaceInv /\ TriesInv /\ LastInv

-----------------------------------------------------------------------------
(* Sequences. *)

\* Every set of numbers that is not empty has a least one: the form in which
\* induction is used below.
LEMMA Least ==
    ASSUME NEW T \in SUBSET Nat, T # {} PROVE \E m \in T : \A n \in T : m <= n
<1> DEFINE R == OpToRel(<, Nat)
<1>1. IsWellFoundedOn(R, Nat)
  BY NatLessThanWellFounded
<1>2. \A x, y \in Nat : <<x, y>> \in R <=> x < y
  BY DEF OpToRel
<1> HIDE DEF R
<1>3. PICK x \in T : \A y \in T : <<y, x>> \notin R
  BY <1>1, WFMin
<1>4. \A y \in T : ~(y < x)
  BY <1>2, <1>3
<1>5. x \in Nat /\ \A y \in T : y \in Nat
  OBVIOUS
<1> QED
  BY <1>4, <1>5

\* The elements of a sequence, by their positions.
LEMMA ElementsAt ==
    ASSUME NEW S, NEW s \in Seq(S)
    PROVE  /\ Elements(s) = {s[i] : i \in 1..Len(s)}
           /\ Elements(s) \subseteq S
           /\ Len(s) \in Nat
           /\ s = << >> => Elements(s) = {}
  BY DEF Elements

\* One more element.
LEMMA AppendElements ==
    ASSUME NEW S, NEW s \in Seq(S), NEW e \in S
    PROVE  /\ Append(s, e) \in Seq(S)
           /\ Elements(Append(s, e)) = Elements(s) \cup {e}
           /\ Injective(s) /\ e \notin Elements(s) => Injective(Append(s, e))
<1> DEFINE c == Append(s, e)
<1>1. /\ c \in Seq(S) /\ Len(s) \in Nat /\ Len(c) = Len(s) + 1
      /\ \A i \in 1..Len(s) : c[i] = s[i]
      /\ c[Len(s) + 1] = e
  OBVIOUS
<1> HIDE DEF c
<1>2. /\ Elements(c) = {c[i] : i \in 1..Len(c)}
      /\ Elements(s) = {s[i] : i \in 1..Len(s)}
  BY <1>1, ElementsAt
<1>3. 1..Len(c) = 1..Len(s) \cup {Len(s) + 1}
  BY <1>1
<1>4. Elements(c) = Elements(s) \cup {e}
  BY <1>1, <1>2, <1>3
<1>5. ASSUME Injective(s), e \notin Elements(s) PROVE Injective(c)
  BY <1>1, <1>2, <1>3, <1>5 DEF Injective
<1> QED
  BY <1>1, <1>4, <1>5 DEF c

\* Two sequences, one after the other.
LEMMA ConcatElements ==
    ASSUME NEW S, NEW s \in Seq(S), NEW r \in Seq(S)
    PROVE  /\ s \o r \in Seq(S)
           /\ Elements(s \o r) = Elements(s) \cup Elements(r)
           /\ Injective(s) /\ Injective(r) /\ Elements(s) \cap Elements(r) = {} =>
                  Injective(s \o r)
<1>1. /\ s \o r \in Seq(S) /\ Len(s) \in Nat /\ Len(r) \in Nat
      /\ Len(s \o r) = Len(s) + Len(r)
      /\ \A i \in 1..Len(s) + Len(r) :
             (s \o r)[i] = IF i <= Len(s) THEN s[i] ELSE r[i - Len(s)]
  BY ConcatProperties
<1> DEFINE c == s \o r
<1> HIDE DEF c
<1>2. /\ Elements(c) = {c[i] : i \in 1..Len(s) + Len(r)}
      /\ Elements(s) = {s[i] : i \in 1..Len(s)} /\ Elements(r) = {r[i] : i \in 1..Len(r)}
  <2>1. c \in Seq(S) /\ Len(c) = Len(s) + Len(r)
    BY <1>1 DEF c
  <2>2. Elements(c) = {c[i] : i \in 1..Len(c)}
    BY <2>1, ElementsAt
  <2> QED
    BY <2>1, <2>2, ElementsAt
<1>3. \A i \in 1..Len(s) : c[i] = s[i]
  BY <1>1 DEF c
<1>4. \A i \in 1..Len(r) : c[Len(s) + i] = r[i] /\ Len(s) + i \in 1..Len(s) + Len(r)
  BY <1>1 DEF c
<1>5. \A i \in 1..Len(s) + Len(r) :
          \/ i \in 1..Len(s)
          \/ i - Len(s) \in 1..Len(r) /\ i = Len(s) + (i - Len(s))
  BY <1>1
<1>6. Elements(c) = Elements(s) \cup Elements(r)
  <2>1. Elements(c) \subseteq Elements(s) \cup Elements(r)
    BY <1>2, <1>3, <1>4, <1>5 DEF c
  <2>2. Elements(s) \subseteq Elements(c)
    BY <1>1, <1>2, <1>3 DEF c
  <2>3. Elements(r) \subseteq Elements(c)
    BY <1>1, <1>2, <1>4 DEF c
  <2> QED
    BY <2>1, <2>2, <2>3
<1>7. ASSUME Injective(s), Injective(r), Elements(s) \cap Elements(r) = {} PROVE Injective(c)
  <2> SUFFICES ASSUME NEW i \in 1..Len(s) + Len(r), NEW j \in 1..Len(s) + Len(r), c[i] = c[j]
               PROVE  i = j
    BY <1>1 DEF Injective, c
  <2>1. CASE i \in 1..Len(s) /\ j \in 1..Len(s)
    BY <1>3, <1>7, <2>1 DEF Injective
  <2>2. CASE i \in 1..Len(s) /\ j \notin 1..Len(s)
    <3>1. c[i] \in Elements(s)
      BY <1>2, <1>3, <2>2
    <3>2. c[j] \in Elements(r)
      BY <1>2, <1>4, <1>5, <2>2
    <3> QED
      BY <1>7, <3>1, <3>2
  <2>3. CASE i \notin 1..Len(s) /\ j \in 1..Len(s)
    <3>1. c[j] \in Elements(s)
      BY <1>2, <1>3, <2>3
    <3>2. c[i] \in Elements(r)
      BY <1>2, <1>4, <1>5, <2>3
    <3> QED
      BY <1>7, <3>1, <3>2
  <2>4. CASE i \notin 1..Len(s) /\ j \notin 1..Len(s)
    <3>1. i - Len(s) \in 1..Len(r) /\ j - Len(s) \in 1..Len(r)
      BY <1>5, <2>4
    <3>2. r[i - Len(s)] = r[j - Len(s)]
      BY <1>4, <1>5, <2>4
    <3>3. i - Len(s) = j - Len(s)
      BY <1>7, <3>1, <3>2 DEF Injective
    <3> QED
      BY <1>1, <3>3
  <2> QED
    BY <2>1, <2>2, <2>3, <2>4
<1> QED
  BY <1>1, <1>6, <1>7 DEF c

\* A piece of a sequence: its elements, by their positions in the whole.
LEMMA PieceElements ==
    ASSUME NEW S, NEW s \in Seq(S), NEW m \in Nat, NEW n \in Nat, 1 <= m, n <= Len(s)
    PROVE  /\ SubSeq(s, m, n) \in Seq(S)
           /\ Len(SubSeq(s, m, n)) = IF m <= n THEN n - m + 1 ELSE 0
           /\ Elements(SubSeq(s, m, n)) = {s[i] : i \in m..n}
           /\ Injective(s) => Injective(SubSeq(s, m, n))
<1> DEFINE r == SubSeq(s, m, n)
<1>1. \A i \in m..n : s[i] \in S
  OBVIOUS
<1>2. /\ r \in Seq(S)
      /\ Len(r) = IF m <= n THEN n - m + 1 ELSE 0
      /\ \A i \in 1..n - m + 1 : r[i] = s[m + i - 1]
  BY <1>1, SubSeqProperties
<1> HIDE DEF r
<1>3. Elements(r) = {r[i] : i \in 1..Len(r)}
  BY <1>2, ElementsAt
<1>4. \A i \in 1..Len(r) : r[i] = s[m + i - 1] /\ m + i - 1 \in m..n
  BY <1>2
<1>5. ASSUME NEW k \in m..n PROVE k - m + 1 \in 1..Len(r) /\ r[k - m + 1] = s[k]
  <2>1. k - m + 1 \in 1..n - m + 1 /\ m + (k - m + 1) - 1 = k /\ m <= n
    OBVIOUS
  <2> QED
    BY <1>2, <2>1
<1>6. Elements(r) = {s[i] : i \in m..n}
  <2>1. Elements(r) \subseteq {s[i] : i \in m..n}
    BY <1>3, <1>4
  <2>2. {s[i] : i \in m..n} \subseteq Elements(r)
    BY <1>3, <1>5
  <2> QED
    BY <2>1, <2>2
<1>7. ASSUME Injective(s) PROVE Injective(r)
  <2> SUFFICES ASSUME NEW i \in 1..Len(r), NEW j \in 1..Len(r), r[i] = r[j] PROVE i = j
    BY DEF Injective
  <2>1. m + i - 1 = m + j - 1
    <3>1. m + i - 1 \in 1..Len(s) /\ m + j - 1 \in 1..Len(s)
      BY <1>2
    <3>2. s[m + i - 1] = s[m + j - 1]
      BY <1>4
    <3> QED
      BY <1>7, <3>1, <3>2 DEF Injective
  <2> QED
    BY <1>2, <2>1
<1> QED
  BY <1>2, <1>6, <1>7 DEF r

\* A sequence cut in two.
LEMMA CutElements ==
    ASSUME NEW S, NEW s \in Seq(S), NEW k \in 0..Len(s), Injective(s)
    PROVE  LET front == SubSeq(s, 1, k)
               back == SubSeq(s, k + 1, Len(s))
           IN  /\ front \in Seq(S) /\ back \in Seq(S)
               /\ Injective(front) /\ Len(front) = k
               /\ Elements(front) \cup Elements(back) = Elements(s)
               /\ Elements(front) \cap Elements(back) = {}
<1>1. Len(s) \in Nat
  OBVIOUS
<1>2. /\ SubSeq(s, 1, k) \in Seq(S) /\ SubSeq(s, k + 1, Len(s)) \in Seq(S)
      /\ Injective(SubSeq(s, 1, k)) /\ Len(SubSeq(s, 1, k)) = k
      /\ Elements(SubSeq(s, 1, k)) = {s[i] : i \in 1..k}
      /\ Elements(SubSeq(s, k + 1, Len(s))) = {s[i] : i \in k + 1..Len(s)}
  <2>1. k \in Nat /\ k <= Len(s) /\ 1 <= k + 1 /\ Len(s) <= Len(s) /\ k + 1 \in Nat
    BY <1>1
  <2>2. /\ SubSeq(s, 1, k) \in Seq(S) /\ Injective(SubSeq(s, 1, k))
        /\ Len(SubSeq(s, 1, k)) = IF 1 <= k THEN k - 1 + 1 ELSE 0
        /\ Elements(SubSeq(s, 1, k)) = {s[i] : i \in 1..k}
    BY <2>1, PieceElements
  <2>3. /\ SubSeq(s, k + 1, Len(s)) \in Seq(S)
        /\ Elements(SubSeq(s, k + 1, Len(s))) = {s[i] : i \in k + 1..Len(s)}
    BY <1>1, <2>1, PieceElements
  <2> QED
    BY <2>1, <2>2, <2>3
<1>3. Elements(s) = {s[i] : i \in 1..Len(s)}
  BY ElementsAt
<1>4. 1..Len(s) = 1..k \cup k + 1..Len(s)
  BY <1>1
<1>5. {s[i] : i \in 1..k} \cap {s[i] : i \in k + 1..Len(s)} = {}
  BY <1>1, <1>4 DEF Injective
<1> QED
  BY <1>2, <1>3, <1>4, <1>5

-----------------------------------------------------------------------------
(* extractRetryableFailures. *)

\* One turn of its loop, where f holds what the turns before have kept.
KeepNext(s, R, f, i) ==
    IF i = 0 THEN << >>
    ELSE IF s[i] \in R THEN Append(f[i - 1], s[i])
    ELSE f[i - 1]

\* The recursive function of RetryableRest is defined by its equations.
LEMMA RestDefined ==
    ASSUME NEW s, Len(s) \in Nat, NEW R
    PROVE  \E f : /\ f = [i \in 0..Len(s) |-> KeepNext(s, R, f, i)]
                  /\ RetryableRest(s, R) = f[Len(s)]
<1> DEFINE Defined(n) == \E f : f = [i \in 0..n |-> KeepNext(s, R, f, i)]
<1>1. Defined(0)
  <2> DEFINE f == [i \in 0..0 |-> << >>]
  <2>1. f = [i \in 0..0 |-> KeepNext(s, R, f, i)]
    BY DEF KeepNext
  <2> QED
    BY <2>1
<1>2. ASSUME NEW n \in Nat, Defined(n) PROVE Defined(n + 1)
  <2>1. PICK f : f = [i \in 0..n |-> KeepNext(s, R, f, i)]
    BY <1>2
  <2> DEFINE g == [i \in 0..n + 1 |-> IF i <= n THEN f[i] ELSE KeepNext(s, R, f, n + 1)]
  <2>2. ASSUME NEW i \in 0..n + 1 PROVE g[i] = KeepNext(s, R, g, i)
    <3>1. i # 0 => g[i - 1] = f[i - 1]
      OBVIOUS
    <3>2. KeepNext(s, R, g, i) = KeepNext(s, R, f, i)
      BY <3>1 DEF KeepNext
    <3>3. CASE i = n + 1
      BY <3>2, <3>3
    <3>4. CASE i # n + 1
      <4>1. i \in 0..n
        BY <3>4
      <4>2. f[i] = KeepNext(s, R, f, i)
        BY <2>1, <4>1
      <4> QED
        BY <3>2, <4>1, <4>2
    <3> QED
      BY <3>3, <3>4
  <2> HIDE DEF g
  <2>3. g = [i \in 0..n + 1 |-> KeepNext(s, R, g, i)]
    BY <2>2 DEF g
  <2> QED
    BY <2>3
<1> HIDE DEF Defined
<1>3. \A n \in Nat : Defined(n)
  <2> DEFINE T == {n \in Nat : ~Defined(n)}
  <2> SUFFICES ASSUME T # {} PROVE FALSE
    OBVIOUS
  <2>1. PICK n \in T : \A m \in T : n <= m
    BY Least
  <2>2. n \in Nat /\ ~Defined(n) /\ n # 0
    BY <1>1
  <2>3. n - 1 \in Nat /\ ~(n <= n - 1)
    BY <2>2
  <2>4. Defined(n - 1)
    BY <2>1, <2>3
  <2>5. Defined((n - 1) + 1)
    BY <1>2, <2>3, <2>4
  <2> QED
    BY <2>2, <2>5
<1> DEFINE f == CHOOSE f : f = [i \in 0..Len(s) |-> KeepNext(s, R, f, i)]
<1>4. f = [i \in 0..Len(s) |-> KeepNext(s, R, f, i)]
  BY <1>3 DEF Defined
<1>5. RetryableRest(s, R) = f[Len(s)]
  BY DEF RetryableRest, KeepNext
<1> HIDE DEF f
<1> QED
  BY <1>4, <1>5

\* It keeps the elements that are retryable, each as often as before.
LEMMA RestElements ==
    ASSUME NEW S, NEW s \in Seq(S), Injective(s), NEW R
    PROVE  /\ RetryableRest(s, R) \in Seq(S)
           /\ Len(RetryableRest(s, R)) <= Len(s)
           /\ Elements(RetryableRest(s, R)) = Elements(s) \cap R
           /\ Injective(RetryableRest(s, R))
<1>1. Len(s) \in Nat /\ Elements(s) = {s[i] : i \in 1..Len(s)}
  BY ElementsAt
<1>2. PICK f : /\ f = [i \in 0..Len(s) |-> KeepNext(s, R, f, i)]
               /\ RetryableRest(s, R) = f[Len(s)]
  BY <1>1, RestDefined
<1> DEFINE Kept(n) == {s[i] : i \in 1..n} \cap R
           Good(n) == /\ f[n] \in Seq(S) /\ Len(f[n]) <= n
                      /\ Elements(f[n]) = Kept(n) /\ Injective(f[n])
<1>3. Good(0)
  <2>1. f[0] = << >>
    BY <1>1, <1>2 DEF KeepNext
  <2> QED
    <3>1. << >> \in Seq(S) /\ Len(<< >>) = 0
      OBVIOUS
    <3>2. Elements(<< >>) = {}
      BY <3>1, ElementsAt
    <3>3. Kept(0) = {}
      OBVIOUS
    <3>4. Injective(<< >>)
      BY <3>1 DEF Injective
    <3> QED
      BY <2>1, <3>1, <3>2, <3>3, <3>4
<1>4. ASSUME NEW n \in Nat, n + 1 <= Len(s), Good(n) PROVE Good(n + 1)
  <2>1. f[n + 1] = IF s[n + 1] \in R THEN Append(f[n], s[n + 1]) ELSE f[n]
    <3>1. n + 1 \in 0..Len(s) /\ n + 1 # 0 /\ (n + 1) - 1 = n
      BY <1>1, <1>4
    <3>2. f[n + 1] = KeepNext(s, R, f, n + 1)
      BY <1>2, <3>1
    <3> QED
      BY <3>1, <3>2 DEF KeepNext
  <2>2. 1..n + 1 = 1..n \cup {n + 1} /\ s[n + 1] \in S
    BY <1>1, <1>4
  <2>3. s[n + 1] \notin Kept(n)
    <3>1. \A i \in 1..n : i \in 1..Len(s) /\ n + 1 \in 1..Len(s) /\ i # n + 1
      BY <1>1, <1>4
    <3> QED
      BY <3>1 DEF Injective
  <2>4. CASE s[n + 1] \in R
    <3>1. f[n + 1] = Append(f[n], s[n + 1]) /\ Len(f[n + 1]) = Len(f[n]) + 1
      BY <1>4, <2>1, <2>2, <2>4
    <3>2. /\ f[n + 1] \in Seq(S) /\ Elements(f[n + 1]) = Elements(f[n]) \cup {s[n + 1]}
          /\ Injective(f[n + 1])
      BY <1>4, <2>2, <2>3, <3>1, AppendElements
    <3>3. Kept(n + 1) = Kept(n) \cup {s[n + 1]}
      BY <2>2, <2>4
    <3>4. Len(f[n]) \in Nat
      BY <1>4
    <3> QED
      BY <1>4, <3>1, <3>2, <3>3, <3>4
  <2>5. CASE s[n + 1] \notin R
    <3>1. Kept(n + 1) = Kept(n) /\ f[n + 1] = f[n]
      BY <2>1, <2>2, <2>5
    <3>2. Len(f[n]) \in Nat
      BY <1>4
    <3> QED
      BY <1>4, <3>1, <3>2
  <2> QED
    BY <2>4, <2>5
<1> HIDE DEF Good
<1>5. Good(Len(s))
  <2> DEFINE T == {n \in Nat : n <= Len(s) /\ ~Good(n)}
  <2> SUFFICES ASSUME T # {} PROVE FALSE
    BY <1>1
  <2>1. PICK n \in T : \A m \in T : n <= m
    BY Least
  <2>2. n \in Nat /\ n <= Len(s) /\ ~Good(n) /\ n # 0
    BY <1>3
  <2>3. n - 1 \in Nat /\ n - 1 <= Len(s) /\ ~(n <= n - 1) /\ (n - 1) + 1 = n
    BY <1>1, <2>2
  <2>4. Good(n - 1)
    BY <2>1, <2>3
  <2> QED
    BY <1>4, <2>2, <2>3, <2>4
<1> QED
  BY <1>1, <1>2, <1>5 DEF Good

-----------------------------------------------------------------------------
(* splitBatch. *)

\* Division, and multiplication by a size.
LEMMA Quotient ==
    ASSUME NEW a \in Nat, NEW c \in Nat \ {0}
    PROVE  a \div c \in Nat /\ (a \div c) * c <= a /\ a < (a \div c) * c + c
  OBVIOUS

LEMMA Multiples ==
    ASSUME NEW i \in Nat, NEW j \in Nat, NEW c \in Nat \ {0}
    PROVE  /\ i * c \in Nat /\ (i + 1) * c = i * c + c
           /\ i < j => i * c + c <= j * c
           /\ i * c < j * c => i < j
  OBVIOUS

\* It cuts the batch into chunks of at most the size, each event in one.
LEMMA SplitElements ==
    ASSUME NEW S, NEW s \in Seq(S), Injective(s)
    PROVE  LET c == SplitBatch(s)
           IN  /\ c \in Seq(Seq(S))
               /\ c = << >> <=> s = << >>
               /\ \A i \in 1..Len(c) : Len(c[i]) <= ChunkSize
               /\ \A e : InSome(e, c) <=> e \in Elements(s)
               /\ Disjoint(c)
<1> DEFINE L == Len(s)
           n == (L + ChunkSize - 1) \div ChunkSize
           first(i) == (i - 1) * ChunkSize + 1
           last(i) == Smaller(i * ChunkSize, L)
           c == SplitBatch(s)
<1>1. L \in Nat /\ Elements(s) = {s[k] : k \in 1..L}
  BY ElementsAt
<1>2. n \in Nat /\ n * ChunkSize <= L + ChunkSize - 1 /\ L + ChunkSize - 1 < n * ChunkSize + ChunkSize
  <2>1. L + ChunkSize - 1 \in Nat
    BY <1>1
  <2> QED
    BY <2>1, Quotient
<1>3. c = [i \in 1..n |-> SubSeq(s, first(i), last(i))]
  BY DEF SplitBatch
<1> HIDE DEF n, c
<1>4. ASSUME NEW i \in 1..n
      PROVE  /\ i * ChunkSize = (i - 1) * ChunkSize + ChunkSize /\ (i - 1) * ChunkSize \in Nat
             /\ first(i) \in Nat /\ 1 <= first(i)
             /\ last(i) \in Nat /\ last(i) <= L /\ last(i) <= i * ChunkSize
             /\ last(i) >= first(i)
  <2>1. i - 1 \in Nat /\ (i - 1) + 1 = i /\ i - 1 < n
    BY <1>2
  <2>2. i * ChunkSize = (i - 1) * ChunkSize + ChunkSize /\ (i - 1) * ChunkSize \in Nat
    BY <2>1, Multiples
  <2>3. (i - 1) * ChunkSize + ChunkSize <= n * ChunkSize /\ n * ChunkSize \in Nat
    BY <1>2, <2>1, Multiples
  <2>4. (i - 1) * ChunkSize < L
    BY <1>1, <1>2, <2>2, <2>3
  <2> QED
    BY <1>1, <2>2, <2>4 DEF Smaller
<1>5. ASSUME NEW i \in 1..n
      PROVE  /\ c[i] \in Seq(S) /\ Len(c[i]) <= ChunkSize /\ Injective(c[i])
             /\ Elements(c[i]) = {s[k] : k \in first(i)..last(i)}
  <2> DEFINE m == first(i)
             l == last(i)
  <2>1. /\ m \in Nat /\ l \in Nat /\ 1 <= m /\ l <= Len(s) /\ m <= l
        /\ c[i] = SubSeq(s, m, l) /\ l - m + 1 <= ChunkSize
    BY <1>3, <1>4
  <2> HIDE DEF m, l
  <2>2. /\ c[i] \in Seq(S) /\ Injective(c[i])
        /\ Len(c[i]) = IF m <= l THEN l - m + 1 ELSE 0
        /\ Elements(c[i]) = {s[k] : k \in m..l}
    BY <2>1, PieceElements
  <2> QED
    BY <2>1, <2>2 DEF m, l
<1>6. c \in Seq(Seq(S)) /\ Len(c) = n
  <2> DEFINE T == Seq(S)
  <2>1. c = [i \in 1..n |-> c[i]] /\ \A i \in 1..n : c[i] \in T
    BY <1>3, <1>5
  <2> HIDE DEF T
  <2>2. c \in [1..n -> T]
    BY <2>1
  <2>3. c \in Seq(T)
    BY <1>2, <2>2, SeqDef
  <2>4. Len(c) \in Nat /\ 1..Len(c) = 1..n
    BY <2>2, <2>3, LenProperties
  <2>5. Len(c) = n
    BY <1>2, <2>4
  <2> QED
    BY <2>3, <2>5 DEF T
<1>7. \A k \in 1..L : \E i \in 1..n : k \in first(i)..last(i)
  <2> SUFFICES ASSUME NEW k \in 1..L PROVE \E i \in 1..n : k \in first(i)..last(i)
    OBVIOUS
  <2> DEFINE q == (k - 1) \div ChunkSize
  <2>1. q \in Nat /\ q * ChunkSize <= k - 1 /\ k - 1 < q * ChunkSize + ChunkSize
    <3>1. k - 1 \in Nat
      BY <1>1
    <3> QED
      BY <3>1, Quotient
  <2> HIDE DEF q
  <2>2. (q + 1) * ChunkSize = q * ChunkSize + ChunkSize /\ q * ChunkSize \in Nat
    BY <2>1, Multiples
  <2>3. q < n
    <3>1. q * ChunkSize < n * ChunkSize
      <4>1. n * ChunkSize \in Nat
        BY <1>2, Multiples
      <4> QED
        BY <1>1, <1>2, <2>1, <2>2, <4>1
    <3> QED
      BY <1>2, <2>1, <3>1, Multiples
  <2>4. q + 1 \in 1..n /\ (q + 1) - 1 = q
    BY <1>2, <2>1, <2>3
  <2>5. first(q + 1) <= k /\ k <= last(q + 1)
    BY <1>1, <2>1, <2>2, <2>4 DEF Smaller
  <2> QED
    BY <1>4, <2>4, <2>5
<1>8. ASSUME NEW i \in 1..n, NEW j \in 1..n, NEW k \in first(i)..last(i), k \in first(j)..last(j),
             i < j
      PROVE  FALSE
  <2>1. i * ChunkSize <= (j - 1) * ChunkSize
    <3>1. i - 1 \in Nat /\ j - 1 \in Nat /\ i - 1 < j - 1
      BY <1>2, <1>8
    <3> QED
      BY <1>4, <3>1, Multiples
  <2>2. k <= i * ChunkSize /\ k >= (j - 1) * ChunkSize + 1
    BY <1>4, <1>8
  <2>3. i * ChunkSize \in Nat /\ (j - 1) * ChunkSize \in Nat
    BY <1>4
  <2> QED
    BY <2>1, <2>2, <2>3
<1>9. \A e : InSome(e, c) <=> e \in Elements(s)
  <2>1. ASSUME NEW e, InSome(e, c) PROVE e \in Elements(s)
    <3>1. PICK i \in 1..n : e \in Elements(c[i])
      BY <1>6, <2>1 DEF InSome
    <3>2. PICK k \in first(i)..last(i) : e = s[k]
      BY <1>5, <3>1
    <3>3. k \in 1..L
      BY <1>1, <1>4
    <3> QED
      BY <1>1, <3>2, <3>3
  <2>2. ASSUME NEW e \in Elements(s) PROVE InSome(e, c)
    <3>1. PICK k \in 1..L : e = s[k]
      BY <1>1
    <3>2. PICK i \in 1..n : k \in first(i)..last(i)
      BY <1>7
    <3>3. e \in Elements(c[i])
      BY <1>5, <3>1, <3>2
    <3> QED
      BY <1>6, <3>3 DEF InSome
  <2> QED
    BY <2>1, <2>2
<1>10. Disjoint(c)
  <2> SUFFICES ASSUME NEW i \in 1..n, NEW j \in 1..n, NEW e \in Elements(c[i]), e \in Elements(c[j])
               PROVE  i = j
    BY <1>5, <1>6 DEF Disjoint
  <2>1. PICK k \in first(i)..last(i) : e = s[k]
    BY <1>5
  <2>2. PICK l \in first(j)..last(j) : e = s[l]
    BY <1>5
  <2>3. k \in 1..L /\ l \in 1..L
    BY <1>1, <1>4
  <2>4. k = l
    BY <2>1, <2>2, <2>3 DEF Injective
  <2>5. ~(i < j) /\ ~(j < i)
    BY <1>8, <2>1, <2>2, <2>4
  <2> QED
    BY <1>2, <2>5
<1>11. c = << >> <=> s = << >>
  <2>1. n = 0 <=> L = 0
    <3>1. CASE n = 0
      BY <1>1, <1>2, <3>1
    <3>2. CASE n # 0
      BY <1>1, <1>2, <1>4, <3>2
    <3> QED
      BY <3>1, <3>2
  <2>2. c = << >> <=> Len(c) = 0
    BY <1>6
  <2>3. s = << >> <=> L = 0
    OBVIOUS
  <2> QED
    BY <1>6, <2>1, <2>2, <2>3
<1> QED
  BY <1>5, <1>6, <1>9, <1>10, <1>11 DEF c

-----------------------------------------------------------------------------
(* The chunks of a flush. *)

\* The head of the chunks and the others.
LEMMA HeadAndTail ==
    ASSUME NEW S, NEW c \in Seq(Seq(S)), c # << >>, Disjoint(c)
    PROVE  /\ Head(c) = c[1] /\ Head(c) \in Seq(S) /\ Injective(Head(c)) /\ 1 \in 1..Len(c)
           /\ Tail(c) \in Seq(Seq(S)) /\ Len(Tail(c)) = Len(c) - 1 /\ Len(c) \in Nat
           /\ \A i \in 1..Len(Tail(c)) : Tail(c)[i] = c[i + 1] /\ i + 1 \in 1..Len(c)
           /\ \A e : InSome(e, c) <=> e \in Elements(Head(c)) \/ InSome(e, Tail(c))
           /\ \A e : ~(e \in Elements(Head(c)) /\ InSome(e, Tail(c)))
           /\ Disjoint(Tail(c))
<1> DEFINE d == Tail(c)
<1>1. /\ Head(c) = c[1] /\ c[1] \in Seq(S) /\ 1 \in 1..Len(c)
      /\ d \in Seq(Seq(S)) /\ Len(d) = Len(c) - 1 /\ Len(c) \in Nat
      /\ \A i \in 1..Len(d) : d[i] = c[i + 1]
  OBVIOUS
<1> HIDE DEF d
<1>2. /\ \A i \in 1..Len(d) : i + 1 \in 1..Len(c)
      /\ \A i \in 1..Len(c) : i = 1 \/ (i - 1 \in 1..Len(d) /\ c[i] = d[i - 1])
  BY <1>1
<1>3. \A e : InSome(e, c) <=> e \in Elements(c[1]) \/ InSome(e, d)
  BY <1>1, <1>2 DEF InSome
<1>4. \A e : ~(e \in Elements(c[1]) /\ InSome(e, d))
  <2> SUFFICES ASSUME NEW i \in 1..Len(d), NEW e \in Elements(c[1]), e \in Elements(d[i])
               PROVE  FALSE
    BY DEF InSome
  <2>1. i + 1 \in 1..Len(c) /\ e \in Elements(c[i + 1]) /\ i + 1 # 1
    BY <1>1, <1>2
  <2> QED
    BY <1>1, <2>1 DEF Disjoint
<1>5. Disjoint(d)
  <2>1. \A i \in 1..Len(d) : Injective(d[i])
    BY <1>1, <1>2 DEF Disjoint
  <2>2. ASSUME NEW i \in 1..Len(d), NEW j \in 1..Len(d), NEW e \in Elements(d[i]),
               e \in Elements(d[j])
        PROVE  i = j
    <3>1. i + 1 = j + 1
      BY <1>1, <1>2, <2>2 DEF Disjoint
    <3> QED
      BY <1>1, <3>1
  <2> QED
    BY <2>1, <2>2 DEF Disjoint
<1> QED
  BY <1>1, <1>2, <1>3, <1>4, <1>5 DEF d, Disjoint

\* The head replaced by a part of it.
LEMMA HeadReplaced ==
    ASSUME NEW S, NEW c \in Seq(Seq(S)), c # << >>, Disjoint(c),
           NEW rest \in Seq(S), Injective(rest), Elements(rest) \subseteq Elements(Head(c))
    PROVE  LET d == [c EXCEPT ![1] = rest]
           IN  /\ d \in Seq(Seq(S)) /\ d # << >> /\ Len(d) = Len(c)
               /\ \A i \in 1..Len(c) : d[i] = IF i = 1 THEN rest ELSE c[i]
               /\ \A e : InSome(e, d) <=> e \in Elements(rest) \/ InSome(e, Tail(c))
               /\ Disjoint(d)
<1> DEFINE d == [c EXCEPT ![1] = rest]
<1>1. /\ d \in Seq(Seq(S)) /\ d # << >> /\ Len(d) = Len(c) /\ Len(c) \in Nat /\ 1 \in 1..Len(c)
      /\ \A i \in 1..Len(c) : d[i] = IF i = 1 THEN rest ELSE c[i]
      /\ Head(c) = c[1]
  OBVIOUS
<1> HIDE DEF d
<1>2. /\ Tail(c) \in Seq(Seq(S)) /\ Len(Tail(c)) = Len(c) - 1
      /\ \A i \in 1..Len(Tail(c)) : Tail(c)[i] = c[i + 1] /\ i + 1 \in 1..Len(c)
  BY HeadAndTail
<1>3. ASSUME NEW e PROVE InSome(e, d) <=> e \in Elements(rest) \/ InSome(e, Tail(c))
  <2>1. ASSUME NEW i \in 1..Len(d), e \in Elements(d[i])
        PROVE  e \in Elements(rest) \/ InSome(e, Tail(c))
    <3>1. CASE i = 1
      BY <1>1, <2>1, <3>1
    <3>2. CASE i # 1
      <4>1. i - 1 \in 1..Len(Tail(c)) /\ Tail(c)[i - 1] = c[i] /\ d[i] = c[i]
        BY <1>1, <1>2, <3>2
      <4> QED
        BY <2>1, <4>1 DEF InSome
    <3> QED
      BY <3>1, <3>2
  <2>2. ASSUME e \in Elements(rest) PROVE InSome(e, d)
    BY <1>1, <2>2 DEF InSome
  <2>3. ASSUME NEW i \in 1..Len(Tail(c)), e \in Elements(Tail(c)[i]) PROVE InSome(e, d)
    <3>1. i + 1 \in 1..Len(d) /\ d[i + 1] = Tail(c)[i]
      BY <1>1, <1>2
    <3> QED
      BY <2>3, <3>1 DEF InSome
  <2> QED
    BY <2>1, <2>2, <2>3 DEF InSome
<1>4. Disjoint(d)
  <2>1. \A i \in 1..Len(d) : Elements(d[i]) \subseteq Elements(c[i])
    BY <1>1
  <2> QED
    BY <1>1, <2>1 DEF Disjoint
<1> QED
  BY <1>1, <1>3, <1>4 DEF d

-----------------------------------------------------------------------------
(* Each step preserves the invariant. *)

LEMMA Nothing ==
    /\ Elements(<< >>) = {} /\ Injective(<< >>) /\ Disjoint(<< >>)
    /\ \A e : ~InSome(e, << >>)
  BY DEF Elements, Injective, Disjoint, InSome

\* What the type of a flush's state says of its parts.
LEMMA FlusherTypes ==
    ASSUME TypeOK, NEW p \in Flushers
    PROVE  /\ chunks[p] \in Seq(Seq(Events)) /\ failed[p] \in Seq(Events)
           /\ attempt[p] \in 0..MaxRetries /\ MaxRetries \in Nat
           /\ Elements(failed[p]) \subseteq Events
           /\ \A e : InSome(e, chunks[p]) => e \in Events
<1>1. chunks[p] \in Seq(Seq(Events)) /\ failed[p] \in Seq(Events) /\ attempt[p] \in 0..MaxRetries
  BY DEF TypeOK
<1>2. Elements(failed[p]) \subseteq Events
  BY <1>1, ElementsAt
<1>3. ASSUME NEW i \in 1..Len(chunks[p]) PROVE Elements(chunks[p][i]) \subseteq Events
  <2>1. chunks[p][i] \in Seq(Events)
    BY <1>1
  <2> QED
    BY <2>1, ElementsAt
<1> QED
  BY <1>1, <1>2, <1>3 DEF InSome

\* Once the last Flush has begun, no other process does anything.
LEMMA OnlyLastFlush ==
    ASSUME LastInv, NEW p \in Flushers, p # 0, pc[p] # "done"
    PROVE  pc[0] = "waiting"
  BY DEF LastInv

LEMMA InitInv == Init => IInv
<1> SUFFICES ASSUME Init PROVE IInv
  OBVIOUS
<1>1. /\ batch = << >> /\ \A p \in Flushers : chunks[p] = << >> /\ failed[p] = << >>
      /\ acked = {} /\ rejected = {} /\ dropped = {}
      /\ \A p \in Flushers : pc[p] = IF p = 0 THEN "waiting" ELSE "adding"
  BY DEF Init
<1>2. TypeOK
  BY DEF Init, TypeOK
<1>3. ShapeInv
  BY <1>1 DEF ShapeInv
<1>4. OnceInv
  BY <1>1, Nothing DEF OnceInv
<1>5. PlaceInv
  <2>1. \A e \in Events : ~Queued(e)
    BY DEF Queued, Init, Events
  <2> QED
    BY <1>1, <2>1, Nothing DEF PlaceInv, InBatch, Held, Settled
<1>6. TriesInv
  BY <1>1, Nothing DEF TriesInv
<1>7. LastInv
  BY <1>1 DEF LastInv
<1> QED
  BY <1>2, <1>3, <1>4, <1>5, <1>6, <1>7 DEF IInv

LEMMA AddEventKeeps == ASSUME IInv, NEW t \in Trials, AddEvent(t) PROVE IInv'
<1> DEFINE new == <<t, added[t] + 1>>
<1>0. /\ TypeOK /\ ShapeInv /\ OnceInv /\ PlaceInv /\ TriesInv /\ LastInv
      /\ pc[t] = "adding" /\ added[t] < EventsPerTrial
      /\ added' = [added EXCEPT ![t] = @ + 1]
      /\ batch' = Append(batch, new)
      /\ UNCHANGED <<pc, chunks, attempt, failed, acked, rejected, dropped, tries>>
  BY DEF IInv, AddEvent, sendVars, fateVars
<1>1. added[t] \in 0..EventsPerTrial /\ new \in Events /\ ~Queued(new)
  BY <1>0 DEF TypeOK, Events, Queued
<1>2. \A e \in Events : Queued(e)' <=> Queued(e) \/ e = new
  <2> SUFFICES ASSUME NEW k \in Trials, NEW n \in 1..EventsPerTrial
               PROVE  n <= added'[k] <=> n <= added[k] \/ <<k, n>> = new
    BY DEF Queued, Events
  <2>1. CASE k = t
    <3>1. added'[t] = added[t] + 1 /\ added[t] \in Nat
      BY <1>0, <1>1 DEF TypeOK
    <3>2. n <= added[t] + 1 <=> n <= added[t] \/ n = added[t] + 1
      BY <3>1
    <3> QED
      BY <2>1, <3>1, <3>2
  <2>2. CASE k # t
    BY <1>0, <2>2 DEF TypeOK
  <2> QED
    BY <2>1, <2>2
<1>3. /\ ~InBatch(new) /\ ~Settled(new)
      /\ \A p \in Flushers : ~Held(new, p)
  BY <1>0, <1>1 DEF PlaceInv
<1>4. /\ batch' \in Seq(Events) /\ Injective(batch')
      /\ Elements(batch') = Elements(batch) \cup {new}
  BY <1>0, <1>1, <1>3, AppendElements DEF InBatch, OnceInv, TypeOK
<1>5. TypeOK'
  BY <1>0, <1>1, <1>4 DEF TypeOK
<1>6. ShapeInv'
  BY <1>0 DEF ShapeInv
<1>7. OnceInv'
  BY <1>0, <1>4 DEF OnceInv
<1>8. PlaceInv'
  <2>1. \A e \in Events : InBatch(e)' <=> InBatch(e) \/ e = new
    BY <1>0, <1>4 DEF InBatch
  <2>2. \A e \in Events : Settled(e)' <=> Settled(e)
    BY <1>0 DEF Settled
  <2>3. \A e \in Events, p \in Flushers : Held(e, p)' <=> Held(e, p)
    BY <1>0 DEF Held
  <2> QED
    BY <1>0, <1>2, <1>3, <2>1, <2>2, <2>3 DEF PlaceInv
<1>9. TriesInv'
  BY <1>0 DEF TriesInv
<1>10. LastInv'
  <2>1. pc[0] = "waiting"
    BY <1>0, OnlyLastFlush
  <2> QED
    BY <1>0, <2>1 DEF LastInv
<1> QED
  BY <1>5, <1>6, <1>7, <1>8, <1>9, <1>10 DEF IInv

\* A step that only moves a flush that has nothing in its hands.
LEMMA MoveKeeps ==
    ASSUME IInv, NEW p \in Flushers, NEW place \in {"flush", "done"},
           pc[p] \notin {"sending", "requeue"}, Goto(p, place),
           UNCHANGED <<queueVars, sendVars, fateVars, tries>>
    PROVE  TypeOK' /\ ShapeInv' /\ OnceInv' /\ PlaceInv' /\ TriesInv'
<1> USE DEF IInv, Goto, queueVars, sendVars, fateVars
<1>1. TypeOK'
  BY DEF TypeOK
<1>2. ShapeInv'
  BY DEF TypeOK, ShapeInv
<1>3. OnceInv'
  BY DEF OnceInv
<1>4. PlaceInv'
  BY DEF PlaceInv, InBatch, Held, Settled, Queued
<1>5. TriesInv'
  BY DEF TriesInv
<1> QED
  BY <1>1, <1>2, <1>3, <1>4, <1>5

LEMMA EndFinishTrialKeeps == ASSUME IInv, NEW t \in Trials, EndFinishTrial(t) PROVE IInv'
<1>1. t \in Flushers /\ t # 0 /\ pc[t] = "adding"
  BY DEF EndFinishTrial
<1>2. TypeOK' /\ ShapeInv' /\ OnceInv' /\ PlaceInv' /\ TriesInv'
  <2>1. CASE FlushOnTrialEnd
    BY <1>1, <2>1, MoveKeeps DEF EndFinishTrial
  <2>2. CASE ~FlushOnTrialEnd
    BY <1>1, <2>2, MoveKeeps DEF EndFinishTrial
  <2> QED
    BY <2>1, <2>2
<1>3. LastInv'
  <2>1. pc[0] = "waiting"
    BY <1>1, OnlyLastFlush DEF IInv
  <2>2. pc'[0] = "waiting"
    BY <1>1, <2>1 DEF EndFinishTrial, Goto, IInv, TypeOK
  <2> QED
    BY <2>2 DEF LastInv
<1> QED
  BY <1>2, <1>3 DEF IInv

LEMMA AllDoneKeeps == ASSUME IInv, AllDone PROVE IInv'
<1>1. TypeOK' /\ ShapeInv' /\ OnceInv' /\ PlaceInv' /\ TriesInv'
  BY MoveKeeps DEF AllDone
<1>2. pc'[0] = "flush" /\ \A t \in Trials : pc'[t] = "done"
  BY DEF AllDone, Goto, IInv, TypeOK
<1>3. LastInv'
  BY <1>2 DEF LastInv
<1> QED
  BY <1>1, <1>3 DEF IInv

LEMMA TakeKeeps == ASSUME IInv, NEW p \in Flushers, Take(p) PROVE IInv'
<1> DEFINE split == SplitBatch(batch)
<1>0. /\ TypeOK /\ ShapeInv /\ OnceInv /\ PlaceInv /\ TriesInv /\ LastInv
      /\ pc[p] = "flush"
      /\ chunks' = [chunks EXCEPT ![p] = split]
      /\ attempt' = [attempt EXCEPT ![p] = 0]
      /\ failed' = [failed EXCEPT ![p] = << >>]
      /\ tries' = [e \in Events |-> IF e \in Elements(batch) THEN 0 ELSE tries[e]]
      /\ batch' = << >>
      /\ pc' = [pc EXCEPT ![p] = IF batch = << >> THEN "done" ELSE "sending"]
      /\ UNCHANGED <<added, acked, rejected, dropped>>
  BY DEF IInv, Take, Goto, fateVars
<1>1. /\ split \in Seq(Seq(Events))
      /\ split = << >> <=> batch = << >>
      /\ \A i \in 1..Len(split) : Len(split[i]) <= ChunkSize
      /\ \A e : InSome(e, split) <=> InBatch(e)
      /\ Disjoint(split)
  BY <1>0, SplitElements DEF TypeOK, OnceInv, InBatch
<1> HIDE DEF split
<1>2. /\ \A q \in Flushers \ {p} : /\ chunks'[q] = chunks[q] /\ failed'[q] = failed[q]
                                   /\ attempt'[q] = attempt[q] /\ pc'[q] = pc[q]
      /\ chunks'[p] = split /\ failed'[p] = << >> /\ attempt'[p] = 0
      /\ pc'[p] = IF batch = << >> THEN "done" ELSE "sending"
      /\ chunks[p] = << >> /\ failed[p] = << >>
  BY <1>0 DEF TypeOK, ShapeInv
<1>3. Elements(batch) \subseteq Events /\ Elements(batch') = {}
  BY <1>0, ElementsAt, Nothing DEF TypeOK
<1>4. TypeOK'
  <2>1. chunks' \in [Flushers -> Seq(Seq(Events))]
    <3> DEFINE T == Seq(Seq(Events))
    <3>1. chunks \in [Flushers -> T] /\ split \in T
      BY <1>0, <1>1 DEF TypeOK
    <3> HIDE DEF T
    <3>2. chunks' \in [Flushers -> T]
      BY <1>0, <3>1
    <3> QED
      BY <3>2 DEF T
  <2>2. failed' \in [Flushers -> Seq(Events)]
    <3>1. failed \in [Flushers -> Seq(Events)] /\ << >> \in Seq(Events)
      BY <1>0 DEF TypeOK
    <3> QED
      BY <1>0, <3>1
  <2>3. attempt' \in [Flushers -> 0..MaxRetries]
    <3>1. attempt \in [Flushers -> 0..MaxRetries]
      BY <1>0 DEF TypeOK
    <3>2. attempt' = [attempt EXCEPT ![p] = 0] /\ 0 \in 0..MaxRetries
      BY <1>0
    <3> QED
      BY <3>1, <3>2
  <2>4. tries' \in [Events -> 0..MaxRetries + 1]
    <3>1. tries \in [Events -> 0..MaxRetries + 1] /\ 0 \in 0..MaxRetries + 1
      BY <1>0 DEF TypeOK
    <3> QED
      BY <1>0, <3>1
  <2>5. batch' \in Seq(Events)
    BY <1>0
  <2> QED
    BY <1>0, <2>1, <2>2, <2>3, <2>4, <2>5 DEF TypeOK
<1>5. ShapeInv'
  <2> SUFFICES ASSUME NEW q \in Flushers
               PROVE  /\ pc'[q] = "sending" <=> chunks'[q] # << >>
                      /\ pc'[q] \notin {"sending", "requeue"} => failed'[q] = << >>
                      /\ \A i \in 1..Len(chunks'[q]) : Len(chunks'[q][i]) <= ChunkSize
                      /\ pc'[q] = "waiting" => q = 0
                      /\ pc'[q] = "adding" => q # 0
    BY DEF ShapeInv
  <2>1. CASE q = p
    BY <1>1, <1>2, <2>1
  <2>2. CASE q # p
    BY <1>0, <1>2, <2>2 DEF ShapeInv
  <2> QED
    BY <2>1, <2>2
<1>6. OnceInv'
  <2>1. Injective(batch')
    BY <1>0, Nothing
  <2>2. ASSUME NEW q \in Flushers PROVE Injective(failed'[q]) /\ Disjoint(chunks'[q])
    BY <1>0, <1>1, <1>2, Nothing DEF OnceInv
  <2> QED
    BY <2>1, <2>2 DEF OnceInv
<1>7. PlaceInv'
  <2>1. \A e \in Events : /\ ~InBatch(e)'
                          /\ Settled(e)' <=> Settled(e)
                          /\ Queued(e)' <=> Queued(e)
    BY <1>0, <1>3 DEF InBatch, Settled, Queued
  <2>2. \A e \in Events, q \in Flushers \ {p} : Held(e, q)' <=> Held(e, q)
    BY <1>2 DEF Held
  <2>3. \A e \in Events : (Held(e, p)' <=> InBatch(e)) /\ ~Held(e, p) /\ e \notin Elements(failed'[p])
    BY <1>1, <1>2, Nothing DEF Held
  <2>4. \A e \in Events, q \in Flushers \ {p} :
            ~(e \in Elements(failed'[q]) /\ InSome(e, chunks'[q]))
    BY <1>0, <1>2 DEF PlaceInv
  <2> SUFFICES ASSUME NEW e \in Events
               PROVE  /\ Queued(e)' <=> \/ InBatch(e)' \/ Settled(e)'
                                        \/ \E q \in Flushers : Held(e, q)'
                      /\ InBatch(e)' => ~Settled(e)'
                      /\ \A q \in Flushers :
                            /\ Held(e, q)' => ~InBatch(e)' /\ ~Settled(e)'
                            /\ \A r \in Flushers : Held(e, q)' /\ Held(e, r)' => q = r
                            /\ ~(e \in Elements(failed'[q]) /\ InSome(e, chunks'[q]))
                      /\ ~(e \in acked' /\ e \in rejected')
                      /\ ~(e \in acked' /\ e \in dropped')
                      /\ ~(e \in rejected' /\ e \in dropped')
    BY DEF PlaceInv
  <2>5. Queued(e)' <=> \/ InBatch(e)' \/ Settled(e)'
                       \/ \E q \in Flushers : Held(e, q)'
    BY <1>0, <2>1, <2>2, <2>3 DEF PlaceInv
  <2>6. ASSUME NEW q \in Flushers, Held(e, q)'
        PROVE  ~Settled(e)' /\ \A r \in Flushers : Held(e, r)' => q = r
    BY <1>0, <2>1, <2>2, <2>3, <2>6 DEF PlaceInv
  <2>7. ~(e \in acked /\ e \in rejected) /\ ~(e \in acked /\ e \in dropped)
        /\ ~(e \in rejected /\ e \in dropped)
    BY <1>0 DEF PlaceInv
  <2> QED
    BY <1>0, <2>1, <2>3, <2>4, <2>5, <2>6, <2>7
<1>8. TriesInv'
  <2> SUFFICES ASSUME NEW q \in Flushers
               PROVE  /\ \A i \in 1..Len(chunks'[q]) : \A e \in Elements(chunks'[q][i]) :
                             tries'[e] = IF i = 1 THEN attempt'[q] ELSE 0
                      /\ \A e \in Elements(failed'[q]) : tries'[e] = MaxRetries + 1
    BY DEF TriesInv
  <2>1. CASE q = p
    <3>1. ASSUME NEW i \in 1..Len(split), NEW e \in Elements(split[i]) PROVE tries'[e] = 0
      BY <1>0, <1>1, <1>3 DEF InSome, InBatch
    <3> QED
      BY <1>2, <2>1, <3>1, Nothing
  <2>2. CASE q # p
    <3>1. ASSUME NEW e, Held(e, q) PROVE tries'[e] = tries[e]
      <4>1. e \in Events
        BY <1>0, <3>1, FlusherTypes DEF Held
      <4>2. e \notin Elements(batch)
        BY <1>0, <3>1, <4>1 DEF PlaceInv, InBatch
      <4> QED
        BY <1>0, <4>1, <4>2
    <3>2. \A i \in 1..Len(chunks[q]) : \A e \in Elements(chunks[q][i]) : Held(e, q)
      BY DEF Held, InSome
    <3>3. \A e \in Elements(failed[q]) : Held(e, q)
      BY DEF Held
    <3>4. /\ \A i \in 1..Len(chunks[q]) : \A e \in Elements(chunks[q][i]) :
                 tries[e] = IF i = 1 THEN attempt[q] ELSE 0
          /\ \A e \in Elements(failed[q]) : tries[e] = MaxRetries + 1
      BY <1>0 DEF TriesInv
    <3>5. chunks'[q] = chunks[q] /\ attempt'[q] = attempt[q] /\ failed'[q] = failed[q]
      BY <1>2, <2>2
    <3> QED
      BY <3>1, <3>2, <3>3, <3>4, <3>5
  <2> QED
    BY <2>1, <2>2
<1>9. LastInv'
  <2>1. CASE p = 0
    BY <1>0, <1>2, <1>3, <2>1 DEF LastInv
  <2>2. CASE p # 0
    BY <1>0, <1>2, <2>2, OnlyLastFlush DEF LastInv
  <2> QED
    BY <2>1, <2>2
<1> QED
  BY <1>4, <1>5, <1>6, <1>7, <1>8, <1>9 DEF IInv

LEMMA RequeueKeeps == ASSUME IInv, NEW p \in Flushers, Requeue(p) PROVE IInv'
<1> DEFINE kept == Smaller(Len(failed[p]), Capacity)
           front == SubSeq(failed[p], 1, kept)
           back == SubSeq(failed[p], kept + 1, Len(failed[p]))
<1>0. /\ TypeOK /\ ShapeInv /\ OnceInv /\ PlaceInv /\ TriesInv /\ LastInv
      /\ pc[p] = "requeue"
      /\ batch' = front \o batch
      /\ dropped' = dropped \cup Elements(back)
      /\ failed' = [failed EXCEPT ![p] = << >>]
      /\ pc' = [pc EXCEPT ![p] = "done"]
      /\ UNCHANGED <<added, chunks, attempt, acked, rejected, tries>>
  BY DEF IInv, Requeue, Goto
<1>1. /\ failed[p] \in Seq(Events) /\ Injective(failed[p]) /\ batch \in Seq(Events)
      /\ Injective(batch) /\ chunks[p] = << >>
  BY <1>0 DEF TypeOK, OnceInv, ShapeInv
<1>2. kept \in 0..Len(failed[p])
  BY <1>1 DEF Smaller, Capacity
<1> HIDE DEF kept
<1>3. /\ front \in Seq(Events) /\ back \in Seq(Events) /\ Injective(front)
      /\ Elements(front) \cup Elements(back) = Elements(failed[p])
      /\ Elements(front) \cap Elements(back) = {}
  BY <1>1, <1>2, CutElements
<1> HIDE DEF front, back
<1>4. Elements(failed[p]) \subseteq Events
  BY <1>1, ElementsAt
<1>5. Elements(front) \cap Elements(batch) = {}
  BY <1>0, <1>3, <1>4 DEF PlaceInv, Held, InBatch
<1>6. /\ batch' \in Seq(Events) /\ Injective(batch')
      /\ Elements(batch') = Elements(front) \cup Elements(batch)
  BY <1>0, <1>1, <1>3, <1>5, ConcatElements
<1>7. /\ \A q \in Flushers \ {p} : failed'[q] = failed[q] /\ pc'[q] = pc[q]
      /\ failed'[p] = << >> /\ pc'[p] = "done"
  BY <1>0 DEF TypeOK
<1>8. TypeOK'
  <2>1. failed' \in [Flushers -> Seq(Events)]
    BY <1>0 DEF TypeOK
  <2>2. UNION {acked, rejected, dropped}' \subseteq Events
    BY <1>0, <1>3, <1>4 DEF TypeOK
  <2> QED
    BY <1>0, <1>6, <2>1, <2>2 DEF TypeOK
<1>9. ShapeInv'
  BY <1>0, <1>1, <1>7 DEF ShapeInv
<1>10. OnceInv'
  <2>1. \A q \in Flushers : Injective(failed'[q])
    BY <1>0, <1>7, Nothing DEF OnceInv
  <2> QED
    BY <1>0, <1>6, <2>1 DEF OnceInv
<1>11. PlaceInv'
  <2>1. \A e \in Events : /\ InBatch(e)' <=> InBatch(e) \/ e \in Elements(front)
                          /\ Settled(e)' <=> Settled(e) \/ e \in Elements(back)
                          /\ Queued(e)' <=> Queued(e)
    BY <1>0, <1>6 DEF InBatch, Settled, Queued
  <2>2. \A e \in Events, q \in Flushers \ {p} :
            /\ Held(e, q)' <=> Held(e, q)
            /\ ~(e \in Elements(failed'[q]) /\ InSome(e, chunks'[q]))
    BY <1>0, <1>7 DEF Held, PlaceInv
  <2>3. \A e \in Events : /\ ~Held(e, p)' /\ e \notin Elements(failed'[p])
                          /\ Held(e, p) <=> e \in Elements(front) \/ e \in Elements(back)
    BY <1>0, <1>1, <1>3, <1>7, Nothing DEF Held
  <2> SUFFICES ASSUME NEW e \in Events
               PROVE  /\ Queued(e)' <=> \/ InBatch(e)' \/ Settled(e)'
                                        \/ \E q \in Flushers : Held(e, q)'
                      /\ InBatch(e)' => ~Settled(e)'
                      /\ \A q \in Flushers :
                            /\ Held(e, q)' => ~InBatch(e)' /\ ~Settled(e)'
                            /\ \A r \in Flushers : Held(e, q)' /\ Held(e, r)' => q = r
                            /\ ~(e \in Elements(failed'[q]) /\ InSome(e, chunks'[q]))
                      /\ ~(e \in acked' /\ e \in rejected')
                      /\ ~(e \in acked' /\ e \in dropped')
                      /\ ~(e \in rejected' /\ e \in dropped')
    BY DEF PlaceInv
  <2>5. Queued(e)' <=> \/ InBatch(e)' \/ Settled(e)'
                       \/ \E q \in Flushers : Held(e, q)'
    BY <1>0, <2>1, <2>2, <2>3 DEF PlaceInv
  <2>6. ASSUME NEW q \in Flushers, Held(e, q)'
        PROVE  /\ ~InBatch(e)' /\ ~Settled(e)'
               /\ \A r \in Flushers : Held(e, r)' => q = r
    BY <1>0, <2>1, <2>2, <2>3, <2>6 DEF PlaceInv
  <2>7. InBatch(e)' => ~Settled(e)'
    BY <1>0, <1>3, <2>1, <2>3 DEF PlaceInv
  <2>8. /\ ~(e \in acked' /\ e \in rejected') /\ ~(e \in acked' /\ e \in dropped')
        /\ ~(e \in rejected' /\ e \in dropped')
    BY <1>0, <2>3 DEF PlaceInv, Settled
  <2> QED
    BY <2>2, <2>3, <2>5, <2>6, <2>7, <2>8
<1>12. TriesInv'
  <2>1. \A q \in Flushers : \A e \in Elements(failed'[q]) : tries[e] = MaxRetries + 1
    BY <1>0, <1>7, Nothing DEF TriesInv
  <2>2. \A q \in Flushers : \A i \in 1..Len(chunks[q]) : \A e \in Elements(chunks[q][i]) :
            tries[e] = IF i = 1 THEN attempt[q] ELSE 0
    BY <1>0 DEF TriesInv
  <2>3. chunks' = chunks /\ attempt' = attempt /\ tries' = tries
    BY <1>0
  <2> QED
    BY <2>1, <2>2, <2>3 DEF TriesInv
<1>13. LastInv'
  <2>1. CASE p = 0
    <3>1. batch = << >> /\ \A t \in Trials : pc[t] = "done"
      BY <1>0, <2>1 DEF LastInv
    <3>2. Elements(batch') \subseteq Elements(failed[p])
      BY <1>3, <1>6, <3>1, Nothing
    <3>3. \A e \in Elements(batch') : tries'[e] = MaxRetries + 1
      BY <1>0, <3>2 DEF TriesInv
    <3> QED
      BY <1>7, <2>1, <3>1, <3>3 DEF LastInv
  <2>2. CASE p # 0
    BY <1>0, <1>7, <2>2, OnlyLastFlush DEF LastInv
  <2> QED
    BY <2>1, <2>2
<1> QED
  BY <1>8, <1>9, <1>10, <1>11, <1>12, <1>13 DEF IInv

\* What a flush has in its hands after a request: the events of its head chunk
\* that are left to send are still the head, or have joined what failed.
LEMMA SentHands ==
    ASSUME IInv, NEW p \in Flushers, pc[p] = "sending",
           NEW rest \in Seq(Events), Injective(rest),
           Elements(rest) \subseteq Elements(Remaining(p)), Len(rest) <= Len(Remaining(p)),
           Sent(p), TryAgain(p, rest)
    PROVE  /\ chunks'[p] \in Seq(Seq(Events)) /\ failed'[p] \in Seq(Events)
           /\ attempt'[p] \in 0..MaxRetries
           /\ pc'[p] = "sending" <=> chunks'[p] # << >>
           /\ pc'[p] \in {"sending", "requeue", "done"}
           /\ pc'[p] = "done" => failed'[p] = << >>
           /\ \A i \in 1..Len(chunks'[p]) : Len(chunks'[p][i]) <= ChunkSize
           /\ Injective(failed'[p]) /\ Disjoint(chunks'[p])
           /\ \A e : Held(e, p)' <=> \/ e \in Elements(failed[p]) \/ e \in Elements(rest)
                                     \/ InSome(e, Tail(chunks[p]))
           /\ \A e : ~(e \in Elements(failed'[p]) /\ InSome(e, chunks'[p]))
           /\ \A i \in 1..Len(chunks'[p]) : \A e \in Elements(chunks'[p][i]) :
                  tries'[e] = IF i = 1 THEN attempt'[p] ELSE 0
           /\ \A e \in Elements(failed'[p]) : tries'[e] = MaxRetries + 1
           /\ \A q \in Flushers \ {p} :
                  /\ chunks'[q] = chunks[q] /\ failed'[q] = failed[q]
                  /\ attempt'[q] = attempt[q] /\ pc'[q] = pc[q]
           /\ pc' \in [Flushers -> {"adding", "waiting", "flush", "sending", "requeue", "done"}]
<1> DEFINE c == chunks[p]
           f == failed[p]
           H == Head(c)
           d == Tail(c)
<1>0. /\ TypeOK /\ ShapeInv /\ OnceInv /\ PlaceInv /\ TriesInv
      /\ pc \in [Flushers -> {"adding", "waiting", "flush", "sending", "requeue", "done"}]
      /\ chunks \in [Flushers -> Seq(Seq(Events))]
      /\ attempt \in [Flushers -> 0..MaxRetries]
      /\ failed \in [Flushers -> Seq(Events)]
  BY DEF IInv, TypeOK
<1>1. /\ c \in Seq(Seq(Events)) /\ c # << >> /\ Disjoint(c) /\ f \in Seq(Events) /\ Injective(f)
      /\ attempt[p] \in 0..MaxRetries
  BY <1>0 DEF ShapeInv, OnceInv
<1>2. /\ H = c[1] /\ H \in Seq(Events) /\ 1 \in 1..Len(c) /\ Len(c) \in Nat
      /\ d \in Seq(Seq(Events)) /\ Len(d) = Len(c) - 1
      /\ \A i \in 1..Len(d) : d[i] = c[i + 1] /\ i + 1 \in 1..Len(c)
      /\ \A e : InSome(e, c) <=> e \in Elements(H) \/ InSome(e, d)
      /\ \A e : ~(e \in Elements(H) /\ InSome(e, d))
      /\ Disjoint(d)
  BY <1>1, HeadAndTail
<1>3. /\ \A e : e \in Elements(f) => ~(e \in Elements(H) \/ InSome(e, d))
      /\ Elements(H) \subseteq Events /\ Elements(f) \subseteq Events
      /\ \A e : InSome(e, d) => e \in Events
      /\ Elements(rest) \subseteq Elements(H)
  BY <1>0, <1>2, FlusherTypes DEF PlaceInv, Remaining
<1>4. \A e \in Elements(H) : tries'[e] = attempt[p] + 1
  BY <1>0, <1>2, <1>3 DEF Sent, Remaining, TriesInv
<1>5. \A e \in Events : e \notin Elements(H) => tries'[e] = tries[e]
  BY <1>0 DEF Sent, Remaining, TypeOK
<1>6. /\ \A i \in 1..Len(d) : Len(d[i]) <= ChunkSize
      /\ Len(rest) <= ChunkSize
      /\ \A i \in 1..Len(c) : Len(c[i]) <= ChunkSize
  <2>1. \A i \in 1..Len(c) : Len(c[i]) <= ChunkSize
    BY <1>0 DEF ShapeInv
  <2>2. Len(rest) \in Nat /\ Len(H) \in Nat /\ Len(rest) <= Len(H)
    BY <1>2 DEF Remaining
  <2> QED
    BY <1>2, <2>1, <2>2
<1>7. /\ \A i \in 1..Len(d) : \A e \in Elements(d[i]) : tries'[e] = 0
      /\ \A e \in Elements(f) : tries'[e] = MaxRetries + 1
  <2>1. ASSUME NEW i \in 1..Len(d), NEW e \in Elements(d[i]) PROVE tries'[e] = 0
    <3>1. InSome(e, d)
      BY DEF InSome
    <3>2. tries[e] = 0
      <4>1. i + 1 \in 1..Len(c) /\ i + 1 # 1 /\ e \in Elements(c[i + 1])
        BY <1>2
      <4> QED
        BY <1>0, <4>1 DEF TriesInv
    <3> QED
      BY <1>2, <1>3, <1>5, <3>1, <3>2
  <2>2. ASSUME NEW e \in Elements(f) PROVE tries'[e] = MaxRetries + 1
    BY <1>0, <1>3, <1>5 DEF TriesInv
  <2> QED
    BY <2>1, <2>2
<1> HIDE DEF c, f, H, d
<1>8. CASE rest # << >> /\ attempt[p] < MaxRetries
  <2>1. /\ chunks' = [chunks EXCEPT ![p] = [c EXCEPT ![1] = rest]]
        /\ attempt' = [attempt EXCEPT ![p] = attempt[p] + 1]
        /\ UNCHANGED <<failed, pc>>
    BY <1>8 DEF TryAgain, c
  <2> DEFINE new == [c EXCEPT ![1] = rest]
  <2>2. /\ new \in Seq(Seq(Events)) /\ new # << >> /\ Len(new) = Len(c)
        /\ \A i \in 1..Len(c) : new[i] = IF i = 1 THEN rest ELSE c[i]
        /\ \A e : InSome(e, new) <=> e \in Elements(rest) \/ InSome(e, d)
        /\ Disjoint(new)
    BY <1>1, <1>3, HeadReplaced DEF d, H
  <2> HIDE DEF new
  <2>3. /\ chunks'[p] = new /\ failed'[p] = f /\ pc'[p] = "sending"
        /\ \A q \in Flushers \ {p} :
               chunks'[q] = chunks[q] /\ failed'[q] = failed[q] /\ pc'[q] = pc[q]
        /\ pc' \in [Flushers -> {"adding", "waiting", "flush", "sending", "requeue", "done"}]
    BY <1>0, <2>1 DEF f, new
  <2>4. /\ attempt'[p] = attempt[p] + 1 /\ attempt'[p] \in 0..MaxRetries
        /\ \A q \in Flushers \ {p} : attempt'[q] = attempt[q]
    <3> attempt \in [Flushers -> 0..MaxRetries]
      BY <1>0
    <3>1. attempt[p] + 1 \in 0..MaxRetries
      BY <1>1, <1>8
    <3>2. attempt' = [attempt EXCEPT ![p] = attempt[p] + 1]
      BY <2>1
    <3> QED
      BY <3>1, <3>2
  <2>5. \A i \in 1..Len(new) : Len(new[i]) <= ChunkSize
    BY <1>6, <2>2
  <2>6. \A e : Held(e, p)' <=> \/ e \in Elements(f) \/ e \in Elements(rest) \/ InSome(e, d)
    BY <2>2, <2>3 DEF Held
  <2>7. \A e : ~(e \in Elements(f) /\ InSome(e, new))
    BY <1>3, <2>2
  <2>8. ASSUME NEW i \in 1..Len(new), NEW e \in Elements(new[i])
        PROVE  tries'[e] = IF i = 1 THEN attempt[p] + 1 ELSE 0
    <3>1. CASE i = 1
      BY <1>3, <1>4, <2>2, <3>1
    <3>2. CASE i # 1
      <4>1. i - 1 \in 1..Len(d) /\ (i - 1) + 1 = i
        BY <1>2, <2>2, <3>2
      <4>2. new[i] = d[i - 1]
        BY <1>2, <2>2, <3>2, <4>1
      <4> QED
        BY <1>7, <3>2, <4>1, <4>2
    <3> QED
      BY <3>1, <3>2
  <2> QED
    BY <1>1, <1>7, <2>2, <2>3, <2>4, <2>5, <2>6, <2>7, <2>8 DEF c, f, d
<1>9. CASE ~(rest # << >> /\ attempt[p] < MaxRetries)
  <2>1. /\ chunks' = [chunks EXCEPT ![p] = d]
        /\ attempt' = [attempt EXCEPT ![p] = 0]
        /\ failed' = [failed EXCEPT ![p] = f \o rest]
        /\ pc' = IF Len(c) > 1 THEN pc
                 ELSE [pc EXCEPT ![p] = IF f \o rest = << >> THEN "done" ELSE "requeue"]
    BY <1>9 DEF TryAgain, NextChunk, Goto, c, d, f
  <2>2. /\ f \o rest \in Seq(Events) /\ Injective(f \o rest)
        /\ Elements(f \o rest) = Elements(f) \cup Elements(rest)
    <3>1. Elements(f) \cap Elements(rest) = {}
      BY <1>3
    <3> QED
      BY <1>1, <3>1, ConcatElements
  <2>3. d = << >> <=> ~(Len(c) > 1)
    BY <1>2
  <2>4. /\ chunks'[p] = d /\ failed'[p] = f \o rest
        /\ pc'[p] = IF Len(c) > 1 THEN "sending"
                    ELSE IF f \o rest = << >> THEN "done" ELSE "requeue"
        /\ \A q \in Flushers \ {p} :
               chunks'[q] = chunks[q] /\ failed'[q] = failed[q] /\ pc'[q] = pc[q]
        /\ pc' \in [Flushers -> {"adding", "waiting", "flush", "sending", "requeue", "done"}]
    BY <1>0, <2>1
  <2>5. /\ attempt'[p] = 0 /\ attempt'[p] \in 0..MaxRetries
        /\ \A q \in Flushers \ {p} : attempt'[q] = attempt[q]
    BY <1>0, <2>1
  <2>6. \A e : Held(e, p)' <=> \/ e \in Elements(f) \/ e \in Elements(rest) \/ InSome(e, d)
    BY <2>2, <2>4 DEF Held
  <2>7. \A e : ~(e \in Elements(f \o rest) /\ InSome(e, d))
    BY <1>2, <1>3, <2>2
  <2>8. \A e \in Elements(rest) : tries'[e] = MaxRetries + 1
    <3>1. CASE rest = << >>
      BY <3>1, Nothing
    <3>2. CASE rest # << >>
      <4>1. attempt[p] = MaxRetries
        BY <1>1, <1>9, <3>2
      <4> QED
        BY <1>3, <1>4, <4>1
    <3> QED
      BY <3>1, <3>2
  <2>9. \A e \in Elements(f \o rest) : tries'[e] = MaxRetries + 1
    BY <1>7, <2>2, <2>8
  <2>10. \A i \in 1..Len(d) : \A e \in Elements(d[i]) :
             tries'[e] = IF i = 1 THEN attempt'[p] ELSE 0
    BY <1>7, <2>5
  <2>11. /\ pc'[p] = "sending" <=> d # << >>
         /\ pc'[p] \in {"sending", "requeue", "done"}
         /\ pc'[p] = "done" => f \o rest = << >>
    BY <2>3, <2>4
  <2> DEFINE g == f \o rest
  <2> HIDE DEF g
  <2>12. /\ g \in Seq(Events) /\ Injective(g) /\ failed'[p] = g /\ chunks'[p] = d
         /\ \A e : ~(e \in Elements(g) /\ InSome(e, d))
         /\ \A e \in Elements(g) : tries'[e] = MaxRetries + 1
         /\ pc'[p] = "done" => g = << >>
         /\ \A q \in Flushers \ {p} :
                /\ chunks'[q] = chunks[q] /\ failed'[q] = failed[q] /\ pc'[q] = pc[q]
                /\ attempt'[q] = attempt[q]
    BY <2>2, <2>4, <2>5, <2>7, <2>9, <2>11 DEF g
  <2>13. /\ chunks'[p] \in Seq(Seq(Events)) /\ failed'[p] \in Seq(Events)
         /\ \A i \in 1..Len(chunks'[p]) : Len(chunks'[p][i]) <= ChunkSize
         /\ Injective(failed'[p]) /\ Disjoint(chunks'[p])
         /\ pc'[p] = "sending" <=> chunks'[p] # << >>
         /\ pc'[p] = "done" => failed'[p] = << >>
    BY <1>2, <1>6, <2>11, <2>12
  <2>14. /\ \A e : ~(e \in Elements(failed'[p]) /\ InSome(e, chunks'[p]))
         /\ \A i \in 1..Len(chunks'[p]) : \A e \in Elements(chunks'[p][i]) :
                tries'[e] = IF i = 1 THEN attempt'[p] ELSE 0
         /\ \A e \in Elements(failed'[p]) : tries'[e] = MaxRetries + 1
    BY <2>10, <2>12
  <2> HIDE DEF H
  <2> QED
    BY <2>4, <2>5, <2>6, <2>11, <2>12, <2>13, <2>14 DEF c, f, d
<1> QED
  BY <1>8, <1>9

\* A request for the head of the chunks: some of its events are taken, some are
\* refused, and the rest is left to send.
LEMMA SendKeeps ==
    ASSUME IInv, NEW p \in Flushers, pc[p] = "sending",
           NEW rest \in Seq(Events), Injective(rest), Len(rest) <= Len(Remaining(p)),
           NEW took, NEW refused,
           Elements(Remaining(p)) = UNION {took, refused, Elements(rest)},
           took \cap refused = {}, Elements(rest) \cap (took \cup refused) = {},
           Sent(p), TryAgain(p, rest),
           acked' = acked \cup took, rejected' = rejected \cup refused
    PROVE  IInv'
<1> DEFINE H == Remaining(p)
<1>0. /\ TypeOK /\ ShapeInv /\ OnceInv /\ PlaceInv /\ TriesInv /\ LastInv
      /\ added' = added /\ batch' = batch /\ dropped' = dropped
      /\ tries' = [e \in Events |-> tries[e] + (IF e \in Elements(H) THEN 1 ELSE 0)]
  BY DEF IInv, Sent, queueVars
<1>1. /\ chunks'[p] \in Seq(Seq(Events)) /\ failed'[p] \in Seq(Events)
      /\ attempt'[p] \in 0..MaxRetries
      /\ pc'[p] = "sending" <=> chunks'[p] # << >>
      /\ pc'[p] \in {"sending", "requeue", "done"}
      /\ pc'[p] = "done" => failed'[p] = << >>
      /\ \A i \in 1..Len(chunks'[p]) : Len(chunks'[p][i]) <= ChunkSize
      /\ Injective(failed'[p]) /\ Disjoint(chunks'[p])
      /\ \A e : Held(e, p)' <=> \/ e \in Elements(failed[p]) \/ e \in Elements(rest)
                                \/ InSome(e, Tail(chunks[p]))
      /\ \A e : ~(e \in Elements(failed'[p]) /\ InSome(e, chunks'[p]))
      /\ \A i \in 1..Len(chunks'[p]) : \A e \in Elements(chunks'[p][i]) :
             tries'[e] = IF i = 1 THEN attempt'[p] ELSE 0
      /\ \A e \in Elements(failed'[p]) : tries'[e] = MaxRetries + 1
      /\ \A q \in Flushers \ {p} :
             /\ chunks'[q] = chunks[q] /\ failed'[q] = failed[q]
             /\ attempt'[q] = attempt[q] /\ pc'[q] = pc[q]
      /\ pc' \in [Flushers -> {"adding", "waiting", "flush", "sending", "requeue", "done"}]
  BY SentHands
<1>2. /\ chunks[p] \in Seq(Seq(Events)) /\ chunks[p] # << >> /\ Disjoint(chunks[p])
      /\ chunks[p][1] = H /\ 1 \in 1..Len(chunks[p])
      /\ \A e : InSome(e, chunks[p]) <=> e \in Elements(H) \/ InSome(e, Tail(chunks[p]))
      /\ \A e : ~(e \in Elements(H) /\ InSome(e, Tail(chunks[p])))
  <2>1. chunks[p] \in Seq(Seq(Events)) /\ chunks[p] # << >> /\ Disjoint(chunks[p])
    BY <1>0 DEF TypeOK, ShapeInv, OnceInv
  <2> QED
    BY <2>1, HeadAndTail DEF Remaining
<1>3. /\ \A e \in Elements(H) : e \in Events /\ Held(e, p) /\ e \notin Elements(failed[p])
      /\ \A e \in Elements(H) : tries[e] = attempt[p] /\ attempt[p] \in 0..MaxRetries
  <2>1. \A e \in Elements(H) : e \in Events /\ Held(e, p)
    BY <1>0, <1>2, FlusherTypes DEF Held
  <2>2. \A e \in Elements(H) : e \notin Elements(failed[p])
    BY <1>0, <1>2, <2>1 DEF PlaceInv
  <2>3. \A e \in Elements(H) : tries[e] = attempt[p] /\ attempt[p] \in 0..MaxRetries
    BY <1>0, <1>2, FlusherTypes DEF TriesInv
  <2> QED
    BY <2>1, <2>2, <2>3
<1>4. TypeOK'
  <2>1. /\ \A q \in Flushers : /\ chunks'[q] \in Seq(Seq(Events))
                               /\ failed'[q] \in Seq(Events)
                               /\ attempt'[q] \in 0..MaxRetries
    BY <1>0, <1>1, FlusherTypes
  <2>2. /\ chunks' = [q \in Flushers |-> chunks'[q]]
        /\ failed' = [q \in Flushers |-> failed'[q]]
        /\ attempt' = [q \in Flushers |-> attempt'[q]]
    BY <1>0 DEF TypeOK, TryAgain, NextChunk
  <2>3. /\ chunks' \in [Flushers -> Seq(Seq(Events))]
        /\ failed' \in [Flushers -> Seq(Events)]
        /\ attempt' \in [Flushers -> 0..MaxRetries]
    <3> DEFINE T == Seq(Seq(Events))
               F == Seq(Events)
    <3> HIDE DEF T, F
    <3>1. \A q \in Flushers : chunks'[q] \in T /\ failed'[q] \in F
      BY <2>1 DEF T, F
    <3>2. chunks' \in [Flushers -> T] /\ failed' \in [Flushers -> F]
      BY <2>2, <3>1
    <3>3. attempt' \in [Flushers -> 0..MaxRetries]
      BY <2>1, <2>2
    <3> QED
      BY <3>2, <3>3 DEF T, F
  <2>4. tries' \in [Events -> 0..MaxRetries + 1]
    <3>1. tries \in [Events -> 0..MaxRetries + 1]
      BY <1>0 DEF TypeOK
    <3>2. ASSUME NEW e \in Events PROVE tries'[e] \in 0..MaxRetries + 1
      <4>1. tries'[e] = tries[e] + (IF e \in Elements(H) THEN 1 ELSE 0)
        BY <1>0
      <4>2. tries[e] \in 0..MaxRetries + 1
        BY <3>1
      <4>3. e \in Elements(H) => tries[e] \in 0..MaxRetries
        BY <1>3
      <4> QED
        BY <4>1, <4>2, <4>3
    <3>3. tries' = [e \in Events |-> tries'[e]]
      BY <1>0
    <3> QED
      BY <3>2, <3>3
  <2>5. UNION {acked, rejected, dropped}' \subseteq Events
    <3>1. UNION {acked, rejected, dropped} \subseteq Events
      BY <1>0 DEF TypeOK
    <3>2. took \subseteq Events /\ refused \subseteq Events
      BY <1>3
    <3> QED
      BY <1>0, <3>1, <3>2
  <2>6. added' \in [Trials -> 0..EventsPerTrial] /\ batch' \in Seq(Events)
    BY <1>0 DEF TypeOK
  <2> QED
    BY <1>1, <2>3, <2>4, <2>5, <2>6 DEF TypeOK
<1>5. ShapeInv'
  <2> SUFFICES ASSUME NEW q \in Flushers
               PROVE  /\ pc'[q] = "sending" <=> chunks'[q] # << >>
                      /\ pc'[q] \notin {"sending", "requeue"} => failed'[q] = << >>
                      /\ \A i \in 1..Len(chunks'[q]) : Len(chunks'[q][i]) <= ChunkSize
                      /\ pc'[q] = "waiting" => q = 0
                      /\ pc'[q] = "adding" => q # 0
    BY DEF ShapeInv
  <2>1. CASE q = p
    BY <1>1, <2>1
  <2>2. CASE q # p
    BY <1>0, <1>1, <2>2 DEF ShapeInv
  <2> QED
    BY <2>1, <2>2
<1>6. OnceInv'
  <2>1. ASSUME NEW q \in Flushers PROVE Injective(failed'[q]) /\ Disjoint(chunks'[q])
    <3>1. CASE q = p
      BY <1>1, <3>1
    <3>2. CASE q # p
      BY <1>0, <1>1, <3>2 DEF OnceInv
    <3> QED
      BY <3>1, <3>2
  <2> QED
    BY <1>0, <2>1 DEF OnceInv
<1>7. PlaceInv'
  <2>1. \A e \in Events : /\ InBatch(e)' <=> InBatch(e)
                          /\ Settled(e)' <=> Settled(e) \/ e \in took \/ e \in refused
                          /\ Queued(e)' <=> Queued(e)
    BY <1>0 DEF InBatch, Settled, Queued
  <2>2. \A e \in Events, q \in Flushers \ {p} :
            /\ Held(e, q)' <=> Held(e, q)
            /\ ~(e \in Elements(failed'[q]) /\ InSome(e, chunks'[q]))
    BY <1>0, <1>1 DEF Held, PlaceInv
  <2>3. \A e \in Events : /\ Held(e, p) <=> Held(e, p)' \/ e \in took \/ e \in refused
                          /\ ~(Held(e, p)' /\ (e \in took \/ e \in refused))
                          /\ ~(e \in Elements(failed'[p]) /\ InSome(e, chunks'[p]))
    <3>1. \A e : Held(e, p)' <=> \/ e \in Elements(failed[p]) \/ e \in Elements(rest)
                                 \/ InSome(e, Tail(chunks[p]))
      BY <1>1
    <3>2. \A e : Held(e, p) <=> \/ e \in Elements(failed[p]) \/ e \in Elements(H)
                                \/ InSome(e, Tail(chunks[p]))
      BY <1>2 DEF Held
    <3>3. \A e : e \in took \/ e \in refused =>
                     /\ e \in Elements(H) /\ e \notin Elements(failed[p])
                     /\ ~InSome(e, Tail(chunks[p])) /\ e \notin Elements(rest)
      BY <1>2, <1>3
    <3> QED
      BY <1>1, <3>1, <3>2, <3>3
  <2> SUFFICES ASSUME NEW e \in Events
               PROVE  /\ Queued(e)' <=> \/ InBatch(e)' \/ Settled(e)'
                                        \/ \E q \in Flushers : Held(e, q)'
                      /\ InBatch(e)' => ~Settled(e)'
                      /\ \A q \in Flushers :
                            /\ Held(e, q)' => ~InBatch(e)' /\ ~Settled(e)'
                            /\ \A r \in Flushers : Held(e, q)' /\ Held(e, r)' => q = r
                            /\ ~(e \in Elements(failed'[q]) /\ InSome(e, chunks'[q]))
                      /\ ~(e \in acked' /\ e \in rejected')
                      /\ ~(e \in acked' /\ e \in dropped')
                      /\ ~(e \in rejected' /\ e \in dropped')
    BY DEF PlaceInv
  <2>5. Queued(e)' <=> \/ InBatch(e)' \/ Settled(e)'
                       \/ \E q \in Flushers : Held(e, q)'
    BY <1>0, <2>1, <2>2, <2>3 DEF PlaceInv
  <2>6. ASSUME NEW q \in Flushers, Held(e, q)'
        PROVE  /\ ~InBatch(e)' /\ ~Settled(e)'
               /\ \A r \in Flushers : Held(e, r)' => q = r
    BY <1>0, <2>1, <2>2, <2>3, <2>6 DEF PlaceInv
  <2>7. InBatch(e)' => ~Settled(e)'
    BY <1>0, <2>1, <2>3 DEF PlaceInv
  <2>8. /\ ~(e \in acked' /\ e \in rejected') /\ ~(e \in acked' /\ e \in dropped')
        /\ ~(e \in rejected' /\ e \in dropped')
    BY <1>0, <2>3 DEF PlaceInv, Settled
  <2> QED
    BY <2>2, <2>3, <2>5, <2>6, <2>7, <2>8
<1>8. TriesInv'
  <2> SUFFICES ASSUME NEW q \in Flushers
               PROVE  /\ \A i \in 1..Len(chunks'[q]) : \A e \in Elements(chunks'[q][i]) :
                             tries'[e] = IF i = 1 THEN attempt'[q] ELSE 0
                      /\ \A e \in Elements(failed'[q]) : tries'[e] = MaxRetries + 1
    BY DEF TriesInv
  <2>1. CASE q = p
    BY <1>1, <2>1
  <2>2. CASE q # p
    <3>1. ASSUME NEW e, Held(e, q) PROVE tries'[e] = tries[e]
      <4>1. e \in Events
        BY <1>0, <3>1, FlusherTypes DEF Held
      <4>2. e \notin Elements(H)
        BY <1>0, <1>3, <2>2, <3>1, <4>1 DEF PlaceInv
      <4>3. tries[e] \in Nat
        BY <1>0, <4>1 DEF TypeOK
      <4> QED
        BY <1>0, <4>1, <4>2, <4>3
    <3>2. \A i \in 1..Len(chunks[q]) : \A e \in Elements(chunks[q][i]) : Held(e, q)
      BY DEF Held, InSome
    <3>3. \A e \in Elements(failed[q]) : Held(e, q)
      BY DEF Held
    <3>4. /\ \A i \in 1..Len(chunks[q]) : \A e \in Elements(chunks[q][i]) :
                 tries[e] = IF i = 1 THEN attempt[q] ELSE 0
          /\ \A e \in Elements(failed[q]) : tries[e] = MaxRetries + 1
      BY <1>0 DEF TriesInv
    <3>5. chunks'[q] = chunks[q] /\ attempt'[q] = attempt[q] /\ failed'[q] = failed[q]
      BY <1>1, <2>2
    <3> QED
      BY <3>1, <3>2, <3>3, <3>4, <3>5
  <2> QED
    BY <2>1, <2>2
<1>9. LastInv'
  <2>1. CASE p = 0
    <3>1. /\ batch = << >> /\ batch' = << >>
          /\ \A t \in Trials : pc[t] = "done" /\ pc'[t] = "done"
      BY <1>0, <1>1, <2>1 DEF LastInv
    <3> QED
      BY <3>1, Nothing DEF LastInv
  <2>2. CASE p # 0
    BY <1>0, <1>1, <2>2, OnlyLastFlush DEF LastInv
  <2> QED
    BY <2>1, <2>2
<1> QED
  BY <1>4, <1>5, <1>6, <1>7, <1>8, <1>9 DEF IInv

\* What is sent holds no event twice.
LEMMA RemainingIsSequence ==
    ASSUME IInv, NEW p \in Flushers, pc[p] = "sending"
    PROVE  Remaining(p) \in Seq(Events) /\ Injective(Remaining(p))
<1>1. chunks[p] \in Seq(Seq(Events)) /\ chunks[p] # << >> /\ Disjoint(chunks[p])
  BY DEF IInv, TypeOK, ShapeInv, OnceInv
<1> QED
  BY <1>1, HeadAndTail DEF Remaining

LEMMA AcceptedKeeps == ASSUME IInv, NEW p \in Flushers, Accepted(p) PROVE IInv'
<1> DEFINE H == Elements(Remaining(p))
<1>1. PICK retryable \in SUBSET H : \E permanent \in SUBSET (H \ retryable) :
          /\ Sent(p)
          /\ rejected' = rejected \cup permanent
          /\ acked' = acked \cup (H \ (retryable \cup permanent))
          /\ TryAgain(p, RetryableRest(Remaining(p), retryable))
  BY DEF Accepted
<1>2. PICK permanent \in SUBSET (H \ retryable) :
          /\ Sent(p)
          /\ rejected' = rejected \cup permanent
          /\ acked' = acked \cup (H \ (retryable \cup permanent))
          /\ TryAgain(p, RetryableRest(Remaining(p), retryable))
  BY <1>1
<1> DEFINE rest == RetryableRest(Remaining(p), retryable)
           took == H \ (retryable \cup permanent)
<1>3. pc[p] = "sending"
  BY <1>2 DEF Sent
<1>4. /\ rest \in Seq(Events) /\ Len(rest) <= Len(Remaining(p))
      /\ Elements(rest) = H \cap retryable /\ Injective(rest)
  BY <1>3, RemainingIsSequence, RestElements
<1> HIDE DEF rest
<1>5. /\ H = UNION {took, permanent, Elements(rest)}
      /\ took \cap permanent = {} /\ Elements(rest) \cap (took \cup permanent) = {}
  BY <1>4
<1>6. /\ Sent(p) /\ TryAgain(p, rest)
      /\ acked' = acked \cup took /\ rejected' = rejected \cup permanent
  BY <1>2 DEF rest
<1> HIDE DEF took
<1> QED
  BY <1>3, <1>4, <1>5, <1>6, SendKeeps

LEMMA RefusedKeeps == ASSUME IInv, NEW p \in Flushers, Refused(p) PROVE IInv'
<1>1. pc[p] = "sending"
  BY DEF Refused, Sent
<1>2. /\ << >> \in Seq(Events) /\ Injective(<< >>) /\ Len(<< >>) <= Len(Remaining(p))
      /\ Elements(<< >>) = {}
  BY <1>1, RemainingIsSequence, Nothing
<1>3. /\ Sent(p) /\ TryAgain(p, << >>)
      /\ acked' = acked \cup {} /\ rejected' = rejected \cup Elements(Remaining(p))
  BY DEF Refused, TryAgain
<1>4. Elements(Remaining(p)) = UNION {{}, Elements(Remaining(p)), Elements(<< >>)}
  BY <1>2
<1>5. {} \cap Elements(Remaining(p)) = {} /\ Elements(<< >>) \cap ({} \cup Elements(Remaining(p))) = {}
  BY <1>2
<1> QED
  BY <1>1, <1>2, <1>3, <1>4, <1>5, SendKeeps

LEMMA UnavailableKeeps == ASSUME IInv, NEW p \in Flushers, Unavailable(p) PROVE IInv'
<1>1. pc[p] = "sending"
  BY DEF Unavailable, Sent
<1>2. /\ Remaining(p) \in Seq(Events) /\ Injective(Remaining(p))
      /\ Len(Remaining(p)) <= Len(Remaining(p))
  BY <1>1, RemainingIsSequence
<1>3. /\ Sent(p) /\ TryAgain(p, Remaining(p))
      /\ acked' = acked \cup {} /\ rejected' = rejected \cup {}
  BY DEF Unavailable
<1>4. /\ Elements(Remaining(p)) = UNION {{}, {}, Elements(Remaining(p))}
      /\ {} \cap {} = {} /\ Elements(Remaining(p)) \cap ({} \cup {}) = {}
  OBVIOUS
<1> QED
  BY <1>1, <1>2, <1>3, <1>4, SendKeeps

LEMMA StutterKeeps == IInv /\ UNCHANGED vars => IInv'
<1> SUFFICES ASSUME IInv, UNCHANGED vars PROVE IInv'
  OBVIOUS
<1>0. UNCHANGED <<pc, added, batch, chunks, attempt, failed, acked, rejected, dropped, tries>>
  BY DEF vars, queueVars, sendVars, fateVars
<1>1. TypeOK' /\ ShapeInv' /\ OnceInv' /\ LastInv'
  BY <1>0 DEF IInv, TypeOK, ShapeInv, OnceInv, LastInv
<1>2. PlaceInv'
  BY <1>0 DEF IInv, PlaceInv, InBatch, Held, Settled, Queued
<1>3. TriesInv'
  BY <1>0 DEF IInv, TriesInv
<1> QED
  BY <1>1, <1>2, <1>3 DEF IInv

\* Every step of a flush keeps the invariant.
LEMMA FlushStepKeeps == ASSUME IInv, NEW p \in Flushers, FlushStep(p) PROVE IInv'
  BY TakeKeeps, AcceptedKeeps, RefusedKeeps, UnavailableKeeps, RequeueKeeps DEF FlushStep

\* Every step keeps the invariant.
LEMMA StepInv == IInv /\ [Next]_vars => IInv'
<1> SUFFICES ASSUME IInv, [Next]_vars PROVE IInv'
  OBVIOUS
<1> HIDE DEF IInv
<1>1. CASE UNCHANGED vars
  BY <1>1, StutterKeeps
<1>2. ASSUME NEW t \in Trials, TrialStep(t) PROVE IInv'
  <2>1. t \in Flushers
    OBVIOUS
  <2> QED
    BY <1>2, <2>1, AddEventKeeps, EndFinishTrialKeeps, FlushStepKeeps DEF TrialStep
<1>3. CASE AllDone
  BY <1>3, AllDoneKeeps
<1>4. CASE FlushStep(0)
  BY <1>4, FlushStepKeeps
<1>5. CASE Finished
  BY <1>5, StutterKeeps DEF Finished
<1> QED
  BY <1>1, <1>2, <1>3, <1>4, <1>5 DEF Next

-----------------------------------------------------------------------------
(* Copies of an event, counted. *)

\* A set with at most one element.
LEMMA AtMostOne ==
    ASSUME NEW T, \A x, y \in T : x = y
    PROVE  Cardinality(T) = IF T = {} THEN 0 ELSE 1
<1>1. CASE T = {}
  BY <1>1, FS_EmptySet
<1>2. CASE T # {}
  <2>1. PICK x : T = {x}
    BY <1>2
  <2> QED
    BY <2>1, FS_Singleton
<1> QED
  BY <1>1, <1>2

LEMMA OccurrencesOf ==
    ASSUME NEW S, NEW s \in Seq(S), Injective(s), NEW e
    PROVE  Occurrences(e, s) = IF e \in Elements(s) THEN 1 ELSE 0
<1> DEFINE T == {i \in DOMAIN s : s[i] = e}
<1>1. \A i, j \in T : i = j
  BY DEF Injective
<1>2. T = {} <=> e \notin Elements(s)
  BY DEF Elements
<1>3. Cardinality(T) = IF T = {} THEN 0 ELSE 1
  BY <1>1, AtMostOne
<1> QED
  BY <1>2, <1>3 DEF Occurrences

LEMMA InFlightOf ==
    ASSUME IInv, NEW e, NEW p \in Flushers, e \in Events
    PROVE  InFlight(e, p) = IF Held(e, p) THEN 1 ELSE 0
<1> DEFINE c == chunks[p]
           T == {ij \in (DOMAIN c) \X (1..ChunkSize) :
                    /\ ij[2] \in DOMAIN c[ij[1]]
                    /\ c[ij[1]][ij[2]] = e}
<1>1. /\ c \in Seq(Seq(Events)) /\ Disjoint(c) /\ failed[p] \in Seq(Events)
      /\ Injective(failed[p]) /\ DOMAIN c = 1..Len(c)
      /\ \A i \in 1..Len(c) : Len(c[i]) <= ChunkSize
      /\ \A i \in 1..Len(c) : c[i] \in Seq(Events)
  <2>1. c \in Seq(Seq(Events)) /\ failed[p] \in Seq(Events)
    BY FlusherTypes DEF IInv
  <2>2. DOMAIN c = 1..Len(c) /\ \A i \in 1..Len(c) : c[i] \in Seq(Events)
    BY <2>1
  <2>3. \A i \in 1..Len(c) : Len(c[i]) <= ChunkSize
    BY DEF IInv, ShapeInv
  <2>4. Disjoint(c) /\ Injective(failed[p])
    BY DEF IInv, OnceInv
  <2> QED
    BY <2>1, <2>2, <2>3, <2>4
<1>2. \A i \in 1..Len(c) : /\ DOMAIN c[i] = 1..Len(c[i]) /\ Len(c[i]) \in Nat
                           /\ Elements(c[i]) = {c[i][k] : k \in 1..Len(c[i])}
  BY <1>1, ElementsAt
<1> HIDE DEF c
<1>3. ASSUME NEW x \in T, NEW y \in T PROVE x = y
  <2>1. /\ x[1] \in 1..Len(c) /\ x[2] \in 1..Len(c[x[1]]) /\ c[x[1]][x[2]] = e
        /\ y[1] \in 1..Len(c) /\ y[2] \in 1..Len(c[y[1]]) /\ c[y[1]][y[2]] = e
        /\ x = <<x[1], x[2]>> /\ y = <<y[1], y[2]>>
    BY <1>1, <1>2
  <2>2. e \in Elements(c[x[1]]) /\ e \in Elements(c[y[1]])
    <3>1. DOMAIN c[x[1]] = 1..Len(c[x[1]]) /\ DOMAIN c[y[1]] = 1..Len(c[y[1]])
      BY <1>2, <2>1
    <3> HIDE DEF T
    <3> QED
      BY <2>1, <3>1 DEF Elements
  <2>3. x[1] = y[1]
    BY <1>1, <2>1, <2>2 DEF Disjoint
  <2>4. x[2] = y[2]
    BY <1>1, <2>1, <2>3 DEF Disjoint, Injective
  <2> QED
    BY <2>1, <2>3, <2>4
<1>4. T # {} <=> InSome(e, c)
  <2>1. ASSUME NEW x \in T PROVE InSome(e, c)
    <3>1. x[1] \in 1..Len(c) /\ x[2] \in 1..Len(c[x[1]]) /\ c[x[1]][x[2]] = e
      BY <1>1, <1>2
    <3> QED
      BY <1>2, <3>1 DEF InSome
  <2>2. ASSUME NEW i \in 1..Len(c), e \in Elements(c[i]) PROVE T # {}
    <3>1. PICK k \in 1..Len(c[i]) : c[i][k] = e
      BY <1>2, <2>2
    <3>2. k \in 1..ChunkSize
      BY <1>1, <1>2
    <3>3. <<i, k>> \in T
      BY <1>1, <1>2, <3>1, <3>2
    <3> QED
      BY <3>3
  <2> QED
    BY <2>1, <2>2 DEF InSome
<1>5. Cardinality(T) = IF InSome(e, c) THEN 1 ELSE 0
  <2> HIDE DEF T
  <2>1. Cardinality(T) = IF T = {} THEN 0 ELSE 1
    BY <1>3, AtMostOne
  <2> QED
    BY <1>4, <2>1
<1>6. Occurrences(e, failed[p]) = IF e \in Elements(failed[p]) THEN 1 ELSE 0
  BY <1>1, OccurrencesOf
<1>7. ~(e \in Elements(failed[p]) /\ InSome(e, c))
  BY DEF IInv, PlaceInv, c
<1>8. InFlight(e, p) = Occurrences(e, failed[p]) + Cardinality(T)
  BY DEF InFlight, c
<1> HIDE DEF T
<1> QED
  BY <1>5, <1>6, <1>7, <1>8 DEF Held, c

\* Counting copies is asking for places.
LEMMA Counted ==
    ASSUME IInv, NEW e \in Events
    PROVE  /\ Occurrences(e, batch) = IF InBatch(e) THEN 1 ELSE 0
           /\ \A p \in Flushers : InFlight(e, p) = IF Held(e, p) THEN 1 ELSE 0
<1>1. batch \in Seq(Events) /\ Injective(batch)
  BY DEF IInv, TypeOK, OnceInv
<1>2. Occurrences(e, batch) = IF InBatch(e) THEN 1 ELSE 0
  BY <1>1, OccurrencesOf DEF InBatch
<1> QED
  BY <1>2, InFlightOf

\* The fate of an event, by the places it can be at.
PlainFate(e) ==
    IF e \in acked THEN "acked"
    ELSE IF e \in rejected THEN "rejected"
    ELSE IF e \in dropped THEN "dropped"
    ELSE IF Queued(e) THEN "queued"
    ELSE "new"

FatesArePlain == \A e \in Events : Fate(e) = PlainFate(e)

LEMMA FateOf == IInv => FatesArePlain
<1> SUFFICES ASSUME IInv, NEW e \in Events
             PROVE  Pending(e) \/ Settled(e) <=> Queued(e)
  BY DEF FatesArePlain, PlainFate, Fate, Settled, IInv, PlaceInv
<1>1. Pending(e) <=> InBatch(e) \/ \E p \in Flushers : Held(e, p)
  BY Counted DEF Pending
<1> QED
  BY <1>1 DEF IInv, PlaceInv

-----------------------------------------------------------------------------
(* The theorems. *)

HIDE DEF IInv

\* IInv holds in every reachable state.
THEOREM Invariance == Spec => []IInv
  BY InitInv, StepInv, PTL DEF Spec

\* The variables of the queue have their types.
THEOREM TypeCorrect == Spec => []TypeOK
<1>1. IInv => TypeOK
  BY DEF IInv
<1> QED
  BY <1>1, Invariance, PTL

\* An event that was added is once in the batch, once in the hands of one
\* flush, or settled for one reason, and an event not yet added is nowhere.
THEOREM OnePlace == Spec => []EventInOnePlace
<1>1. IInv => EventInOnePlace
  <2> SUFFICES ASSUME IInv PROVE EventInOnePlace
    OBVIOUS
  <2> DEFINE holders(e) == {p \in Flushers : InFlight(e, p) > 0}
             fates(e) == {F \in {<<"acked", acked>>, <<"rejected", rejected>>,
                                 <<"dropped", dropped>>} : e \in F[2]}
  <2> SUFFICES ASSUME NEW e \in Events
               PROVE  /\ \A p \in Flushers : InFlight(e, p) <= 1
                      /\ Occurrences(e, batch) + Cardinality(holders(e))
                             + Cardinality(fates(e)) = IF Queued(e) THEN 1 ELSE 0
    BY DEF EventInOnePlace
  <2>1. /\ Occurrences(e, batch) = IF InBatch(e) THEN 1 ELSE 0
        /\ \A p \in Flushers : InFlight(e, p) = IF Held(e, p) THEN 1 ELSE 0
    BY Counted
  <2>2. /\ Queued(e) <=> InBatch(e) \/ (\E p \in Flushers : Held(e, p)) \/ Settled(e)
        /\ InBatch(e) => ~Settled(e)
        /\ \A p \in Flushers :
               /\ Held(e, p) => ~InBatch(e) /\ ~Settled(e)
               /\ \A q \in Flushers : Held(e, p) /\ Held(e, q) => p = q
        /\ ~(e \in acked /\ e \in rejected) /\ ~(e \in acked /\ e \in dropped)
        /\ ~(e \in rejected /\ e \in dropped)
    BY DEF IInv, PlaceInv
  <2>3. holders(e) = {p \in Flushers : Held(e, p)}
    BY <2>1
  <2>4. Cardinality(holders(e)) = IF \E p \in Flushers : Held(e, p) THEN 1 ELSE 0
    <3>1. Cardinality(holders(e)) = IF holders(e) = {} THEN 0 ELSE 1
      <4>1. \A x, y \in holders(e) : x = y
        BY <2>2, <2>3
      <4> HIDE DEF holders
      <4> QED
        BY <4>1, AtMostOne
    <3> QED
      BY <2>3, <3>1
  <2>5. Cardinality(fates(e)) = IF Settled(e) THEN 1 ELSE 0
    <3>1. Cardinality(fates(e)) = IF fates(e) = {} THEN 0 ELSE 1
      <4>1. \A x, y \in fates(e) : x = y
        BY <2>2
      <4> HIDE DEF fates
      <4> QED
        BY <4>1, AtMostOne
    <3>2. fates(e) = {} <=> ~Settled(e)
      <4>1. \A F : F \in fates(e) <=> \/ F = <<"acked", acked>> /\ e \in acked
                                      \/ F = <<"rejected", rejected>> /\ e \in rejected
                                      \/ F = <<"dropped", dropped>> /\ e \in dropped
        OBVIOUS
      <4> HIDE DEF fates
      <4> QED
        BY <4>1 DEF Settled
    <3> QED
      BY <3>1, <3>2
  <2> HIDE DEF holders, fates
  <2> QED
    BY <2>1, <2>2, <2>4, <2>5
<1> QED
  BY <1>1, Invariance, PTL

\* Whatever the last Flush leaves in the batch was sent MaxRetries + 1 times.
THEOREM AbandonedWereRetried == Spec => []AbandonedOnlyAfterRetries
<1>1. IInv => AbandonedOnlyAfterRetries
  BY DEF IInv, LastInv, AbandonedOnlyAfterRetries, Elements
<1> QED
  BY <1>1, Invariance, PTL

\* Putting back what failed leaves the batch within MaxBatchQueue, or as it was.
THEOREM RefillWithinLimit == Spec => RequeueWithinLimit
<1>1. IInv => [\A p \in Flushers : Requeue(p) =>
                   Len(batch') <= MaxBatchQueue \/ batch' = batch]_vars
  <2> SUFFICES ASSUME IInv, NEW p \in Flushers, Requeue(p)
               PROVE  Len(batch') <= MaxBatchQueue \/ batch' = batch
    OBVIOUS
  <2> DEFINE kept == Smaller(Len(failed[p]), Capacity)
             front == SubSeq(failed[p], 1, kept)
  <2>1. /\ failed[p] \in Seq(Events) /\ batch \in Seq(Events)
        /\ Len(failed[p]) \in Nat /\ Len(batch) \in Nat
    BY DEF IInv, TypeOK
  <2>2. /\ kept \in Nat /\ kept <= Len(failed[p])
        /\ Len(batch) < MaxBatchQueue => kept + Len(batch) <= MaxBatchQueue
        /\ Len(batch) >= MaxBatchQueue => kept = 0
    BY <2>1 DEF Smaller, Capacity
  <2>3. batch' = front \o batch
    BY DEF Requeue
  <2> HIDE DEF kept
  <2>4. front \in Seq(Events) /\ Len(front) = kept
    <3>1. 1 \in Nat /\ 1 <= 1
      OBVIOUS
    <3>2. /\ front \in Seq(Events)
          /\ Len(front) = IF 1 <= kept THEN kept - 1 + 1 ELSE 0
      BY <2>1, <2>2, <3>1, PieceElements
    <3> QED
      BY <2>2, <3>2
  <2> HIDE DEF front
  <2>5. Len(batch') = kept + Len(batch)
    BY <2>1, <2>3, <2>4, ConcatProperties
  <2>6. kept = 0 => batch' = batch
    <3> SUFFICES ASSUME kept = 0 PROVE front \o batch = batch
      BY <2>3
    <3>1. front = << >>
      BY <2>4
    <3> QED
      BY <2>1, <3>1, ConcatEmptySeq
  <2> QED
    BY <2>1, <2>2, <2>5, <2>6
<1> QED
  BY <1>1, Invariance, PTL DEF RequeueWithinLimit

\* The queue implements EventDelivery: every event is queued at most once and
\* leaves the queue at most once, for a reason that never changes.
THEOREM Refinement == Spec => ImplementsEventDelivery
<1> DEFINE fate == [e \in Events |-> Fate(e)]
<1>1. Init => Delivery!Init
  <2> SUFFICES ASSUME Init, NEW e \in Events PROVE Fate(e) = "new"
    BY DEF Delivery!Init
  <2>1. IInv
    BY InitInv
  <2>2. ~Queued(e)
    BY DEF Init, Queued, Events
  <2> QED
    BY <2>1, <2>2, FateOf DEF Init, FatesArePlain, PlainFate
<1>2. IInv' => FatesArePlain'
  BY FateOf, PTL
<1>3. ASSUME IInv, IInv', acked \subseteq acked', rejected \subseteq rejected',
             dropped \subseteq dropped', added' = added
      PROVE  Delivery!SettleSome
  <2>1. \A e \in Events : Queued(e)' <=> Queued(e)
    BY <1>3 DEF Queued
  <2>2. ASSUME NEW e \in Events
        PROVE  /\ Fate(e)' \in Delivery!Fates \cup {"new", "queued"}
               /\ Fate(e)' # Fate(e) => Fate(e) = "queued" /\ Fate(e)' \in Delivery!Fates
    <3>1. Fate(e)' = PlainFate(e)' /\ Fate(e) = PlainFate(e)
      BY <1>2, <1>3, FateOf DEF FatesArePlain
    <3>2. /\ ~(e \in acked' /\ e \in rejected') /\ ~(e \in acked' /\ e \in dropped')
          /\ ~(e \in rejected' /\ e \in dropped')
          /\ e \in acked' \/ e \in rejected' \/ e \in dropped' => Queued(e)'
      BY <1>3 DEF IInv, PlaceInv, Settled
    <3> QED
      BY <1>3, <2>1, <3>1, <3>2 DEF PlainFate, Delivery!Fates
  <2> QED
    BY <2>2 DEF Delivery!SettleSome
<1>4. ASSUME IInv, IInv', NEW t \in Trials, AddEvent(t)
      PROVE  \E e \in Events : Delivery!Queue(e)
  <2> DEFINE new == <<t, added[t] + 1>>
  <2>1. /\ added[t] \in 0..EventsPerTrial /\ new \in Events /\ ~Queued(new)
        /\ UNCHANGED <<acked, rejected, dropped>>
        /\ added' = [added EXCEPT ![t] = @ + 1] /\ added \in [Trials -> 0..EventsPerTrial]
    <3>1. /\ added \in [Trials -> 0..EventsPerTrial] /\ added[t] < EventsPerTrial
          /\ added' = [added EXCEPT ![t] = @ + 1]
          /\ UNCHANGED <<acked, rejected, dropped>>
      BY <1>4 DEF AddEvent, IInv, TypeOK, fateVars
    <3>2. added[t] \in 0..EventsPerTrial
      BY <3>1
    <3>3. added[t] + 1 \in 1..EventsPerTrial /\ ~(added[t] + 1 <= added[t])
      BY <3>1, <3>2
    <3>4. new \in Events /\ ~Queued(new)
      BY <3>3 DEF Events, Queued
    <3> QED
      BY <3>1, <3>2, <3>4
  <2>2. ASSUME NEW e \in Events PROVE Queued(e)' <=> Queued(e) \/ e = new
    <3>1. PICK k \in Trials, n \in 1..EventsPerTrial : e = <<k, n>>
      BY DEF Events
    <3>2. CASE k = t
      <4>1. added'[t] = added[t] + 1 /\ added[t] \in Nat
        BY <2>1
      <4>2. n <= added[t] + 1 <=> n <= added[t] \/ n = added[t] + 1
        BY <4>1
      <4> QED
        BY <3>1, <3>2, <4>1, <4>2 DEF Queued
    <3>3. CASE k # t
      BY <2>1, <3>1, <3>3 DEF Queued
    <3> QED
      BY <3>2, <3>3
  <2>3. \A e \in Events : e \in acked \/ e \in rejected \/ e \in dropped => Queued(e)
    BY <1>4 DEF IInv, PlaceInv, Settled
  <2>4. \A e \in Events : Fate(e) = PlainFate(e) /\ Fate(e)' = PlainFate(e)'
    BY <1>2, <1>4, FateOf DEF FatesArePlain
  <2>5. \A e \in Events : Fate(e)' = IF e = new THEN "queued" ELSE Fate(e)
    BY <2>1, <2>2, <2>3, <2>4 DEF PlainFate
  <2>6. Fate(new) = "new"
    BY <2>1, <2>3, <2>4 DEF PlainFate
  <2> HIDE DEF new
  <2>7. fate[new] = "new" /\ fate' = [fate EXCEPT ![new] = "queued"]
    BY <2>1, <2>5, <2>6
  <2> QED
    BY <2>1, <2>7 DEF Delivery!Queue
<1>5. IInv /\ IInv' /\ [Next]_vars => [Delivery!Next]_fate
  <2> SUFFICES ASSUME IInv, IInv', [Next]_vars PROVE Delivery!Next
    OBVIOUS
  <2>1. ASSUME NEW p \in Flushers, FlushStep(p) PROVE Delivery!SettleSome
    <3>1. /\ acked \subseteq acked' /\ rejected \subseteq rejected' /\ dropped \subseteq dropped'
          /\ added' = added
      BY <2>1 DEF FlushStep, Take, Accepted, Refused, Unavailable, Requeue, Sent, queueVars, fateVars
    <3> QED
      BY <1>3, <3>1
  <2>2. ASSUME NEW t \in Trials, TrialStep(t) PROVE Delivery!Next
    <3>1. t \in Flushers
      OBVIOUS
    <3>2. CASE AddEvent(t)
      BY <1>4, <3>2 DEF Delivery!Next
    <3>3. CASE EndFinishTrial(t)
      BY <1>3, <3>3 DEF EndFinishTrial, queueVars, fateVars, Delivery!Next
    <3> QED
      BY <2>1, <2>2, <3>1, <3>2, <3>3 DEF TrialStep, Delivery!Next
  <2>3. CASE AllDone
    BY <1>3, <2>3 DEF AllDone, queueVars, fateVars, Delivery!Next
  <2>4. CASE UNCHANGED vars
    BY <1>3, <2>4 DEF vars, queueVars, fateVars, Delivery!Next
  <2> QED
    BY <2>1, <2>2, <2>3, <2>4 DEF Next, Finished, Delivery!Next
<1> QED
  BY <1>1, <1>5, Invariance, PTL DEF Spec, ImplementsEventDelivery, Delivery!Spec
=============================================================================
