----------------------------- MODULE StreamsProofs -----------------------------
(***************************************************************************)
(* Proofs about streams (module Streams): for any program and any number   *)
(* of streams and chunks, every conjunct of ChunksKept holds in every      *)
(* reachable state.                                                        *)
(***************************************************************************)
EXTENDS Streams, SequenceTheorems, FiniteSetTheorems, WellFoundedInduction, TLAPS

-----------------------------------------------------------------------------
(* Sequences *)

LEMMA ConcatFacts ==
  ASSUME NEW T, NEW p \in Seq(T), NEW q \in Seq(T)
  PROVE  /\ p \o q \in Seq(T)
         /\ Len(p) \in Nat /\ Len(q) \in Nat /\ Len(p \o q) = Len(p) + Len(q)
         /\ Range(p \o q) = Range(p) \cup Range(q)
         /\ \A i \in 1..Len(p) : (p \o q)[i] = p[i]
         /\ \A i \in 1..Len(q) : (p \o q)[Len(p) + i] = q[i]
<1>1. /\ p \o q \in Seq(T) /\ Len(p) \in Nat /\ Len(q) \in Nat /\ Len(p \o q) = Len(p) + Len(q)
      /\ DOMAIN p = 1..Len(p) /\ DOMAIN q = 1..Len(q) /\ DOMAIN (p \o q) = 1..(Len(p) + Len(q))
  BY ConcatProperties
<1>2. \A i \in 1..Len(p) : i \in 1..(Len(p) + Len(q)) /\ (p \o q)[i] = p[i]
  BY <1>1, ConcatProperties
<1>3. \A i \in 1..Len(q) : Len(p) + i \in 1..(Len(p) + Len(q)) /\ (p \o q)[Len(p) + i] = q[i]
  <2> SUFFICES ASSUME NEW i \in 1..Len(q)
               PROVE  Len(p) + i \in 1..(Len(p) + Len(q)) /\ (p \o q)[Len(p) + i] = q[i]
    OBVIOUS
  <2>1. Len(p) + i \in 1..(Len(p) + Len(q)) /\ ~(Len(p) + i <= Len(p)) /\ Len(p) + i - Len(p) = i
    BY <1>1
  <2> QED BY <2>1, ConcatProperties
<1>4. ASSUME NEW k \in 1..(Len(p) + Len(q))
      PROVE  (p \o q)[k] \in Range(p) \cup Range(q)
  <2>1. CASE k \in 1..Len(p)
    BY <1>1, <1>2, <2>1 DEF Range
  <2>2. CASE k \notin 1..Len(p)
    <3>1. k - Len(p) \in 1..Len(q) /\ Len(p) + (k - Len(p)) = k
      BY <1>1, <2>2
    <3>2. (p \o q)[k] = q[k - Len(p)]
      BY <1>3, <3>1
    <3> QED BY <1>1, <3>1, <3>2 DEF Range
  <2> QED BY <2>1, <2>2
<1>5. Range(p \o q) \subseteq Range(p) \cup Range(q)
  BY <1>1, <1>4 DEF Range
<1>6. Range(p) \cup Range(q) \subseteq Range(p \o q)
  BY <1>1, <1>2, <1>3 DEF Range
<1> QED BY <1>1, <1>2, <1>3, <1>5, <1>6

LEMMA SecondPart ==
  ASSUME NEW T, NEW p \in Seq(T), NEW q \in Seq(T)
  PROVE  \A i \in 1..Len(q) : (p \o q)[Len(p) + i] = q[i]
BY ConcatFacts

LEMMA RangeConcat ==
  ASSUME NEW T, NEW p \in Seq(T), NEW q \in Seq(T)
  PROVE  p \o q \in Seq(T) /\ Range(p \o q) = Range(p) \cup Range(q)
BY ConcatFacts

LEMMA AppendFacts ==
  ASSUME NEW T, NEW p \in Seq(T), NEW e \in T
  PROVE  /\ Append(p, e) \in Seq(T) /\ Append(p, e) # <<>>
         /\ Len(p) \in Nat /\ Len(Append(p, e)) = Len(p) + 1
         /\ Range(Append(p, e)) = Range(p) \cup {e}
         /\ \A i \in 1..Len(p) : Append(p, e)[i] = p[i]
         /\ Append(p, e)[Len(p) + 1] = e
<1>1. Append(p, e) = p \o <<e>>
  BY AppendIsConcat
<1>2. <<e>> \in Seq(T) /\ Len(<<e>>) = 1 /\ Range(<<e>>) = {e} /\ <<e>>[1] = e
  BY DEF Range
<1>3. Append(p, e) # <<>>
  BY AppendProperties
<1> DEFINE one == <<e>>
<1> HIDE DEF one
<1>4. one \in Seq(T) /\ Len(one) = 1 /\ Range(one) = {e} /\ one[1] = e /\ Append(p, e) = p \o one
  BY <1>1, <1>2 DEF one
<1>5. 1 \in 1..Len(one)
  BY <1>4
<1> QED BY <1>3, <1>4, <1>5, ConcatFacts

LEMMA RangeAppend ==
  ASSUME NEW T, NEW p \in Seq(T), NEW e \in T
  PROVE  Append(p, e) \in Seq(T) /\ Range(Append(p, e)) = Range(p) \cup {e}
BY AppendFacts

LEMMA HeadThenTail ==
  ASSUME NEW T, NEW q \in Seq(T), q # <<>>
  PROVE  q = <<Head(q)>> \o Tail(q)
<1>1. /\ Head(q) \in T /\ Tail(q) \in Seq(T)
      /\ Len(q) \in Nat \ {0} /\ Len(Tail(q)) = Len(q) - 1
      /\ Head(q) = q[1] /\ \A i \in 1..(Len(q) - 1) : Tail(q)[i] = q[i + 1]
  BY HeadTailProperties, EmptySeq
<1> DEFINE p == <<Head(q)>> \o Tail(q)
<1>2. <<Head(q)>> \in Seq(T) /\ Len(<<Head(q)>>) = 1 /\ <<Head(q)>>[1] = Head(q)
  BY <1>1
<1>3. p \in Seq(T) /\ Len(p) = Len(q)
  BY <1>1, <1>2, ConcatFacts
<1>4. p[1] = q[1]
  BY <1>1, <1>2, ConcatFacts
<1>5. ASSUME NEW i \in 1..Len(q), i # 1
      PROVE  p[i] = q[i]
  <2>1. i - 1 \in 1..Len(Tail(q)) /\ 1 + (i - 1) = i /\ i - 1 \in 1..(Len(q) - 1)
    BY <1>1, <1>5
  <2>2. p[1 + (i - 1)] = Tail(q)[i - 1]
    BY <1>1, <1>2, <2>1, ConcatFacts
  <2>3. Tail(q)[i - 1] = q[(i - 1) + 1]
    BY <1>1, <2>1
  <2> QED BY <2>1, <2>2, <2>3
<1> HIDE DEF p
<1>6. \A i \in 1..Len(p) : p[i] = q[i]
  BY <1>3, <1>4, <1>5
<1>7. p = q
  BY <1>3, <1>6, SeqEqual
<1> QED BY <1>7 DEF p

LEMMA HeadTail ==
  ASSUME NEW T, NEW q \in Seq(T), q # <<>>
  PROVE  /\ Head(q) \in T /\ Tail(q) \in Seq(T)
         /\ Len(q) \in Nat \ {0} /\ Len(Tail(q)) = Len(q) - 1
         /\ Head(q) = q[1] /\ \A i \in 1..(Len(q) - 1) : Tail(q)[i] = q[i + 1]
         /\ Range(q) = {Head(q)} \cup Range(Tail(q))
<1>1. /\ Head(q) \in T /\ Tail(q) \in Seq(T)
      /\ Len(q) \in Nat \ {0} /\ Len(Tail(q)) = Len(q) - 1
      /\ Head(q) = q[1] /\ \A i \in 1..(Len(q) - 1) : Tail(q)[i] = q[i + 1]
  BY HeadTailProperties, EmptySeq
<1>2. PICK one : one = <<Head(q)>>
  OBVIOUS
<1>3. PICK t : t = Tail(q)
  OBVIOUS
<1>4. one \in Seq(T)
  BY <1>1, <1>2
<1>5. Range(one) = {Head(q)}
  BY <1>2 DEF Range
<1>6. q = one \o t
  BY <1>2, <1>3, HeadThenTail, Zenon
<1>7. t \in Seq(T)
  BY <1>1, <1>3
<1>8. Range(one \o t) = Range(one) \cup Range(t)
  BY <1>4, <1>7, RangeConcat
<1> QED BY <1>1, <1>3, <1>5, <1>6, <1>8

LEMMA TailParts ==
  ASSUME NEW T, NEW q \in Seq(T), q # <<>>
  PROVE  \E t \in Seq(T), n \in Nat :
           t = Tail(q) /\ Len(q) = n + 1 /\ Len(t) = n /\ q[1] = Head(q) /\ \A i \in 1..n : t[i] = q[i + 1]
<1>1. Len(q) \in Nat \ {0}
  BY HeadTailProperties, EmptySeq
<1>2. PICK n \in Nat : n = Len(q) - 1 /\ Len(q) = n + 1
  BY <1>1
<1>3. /\ Tail(q) \in Seq(T) /\ Len(Tail(q)) = Len(q) - 1
      /\ Head(q) = q[1] /\ \A i \in 1..(Len(q) - 1) : Tail(q)[i] = q[i + 1]
  BY <1>1, HeadTailProperties
<1>4. PICK t \in Seq(T) : t = Tail(q)
  BY <1>3
<1> QED BY <1>2, <1>3, <1>4, Zenon

\* A set of numbers has a least one.
LEMMA LeastOf ==
  ASSUME NEW T, T \subseteq Nat, T # {}
  PROVE  \E n \in T : \A m \in T : n <= m
<1> DEFINE Less == { p \in Nat \X Nat : p[1] < p[2] }
<1>1. IsWellFoundedOn(Less, Nat)
  <2>1. OpToRel(<, Nat) = Less
    BY DEF OpToRel
  <2> QED BY <2>1, NatLessThanWellFounded, Zenon
<1> HIDE DEF Less
<1>2. \E n \in T : \A m \in T : ~ (<<m, n>> \in Less)
  BY <1>1, WFMin
<1>3. \A n, m \in Nat : <<m, n>> \in Less <=> m < n
  BY DEF Less
<1>4. PICK n \in T : \A m \in T : ~ (<<m, n>> \in Less)
  BY <1>2
<1>5. \A m \in T : ~ (m < n)
  BY <1>3, <1>4
<1> QED BY <1>4, <1>5

\* The recursion that leaves d out of q is defined, and gives what is left.
KeptUpTo(q, d, g, m) ==
  g = [i \in 0..m |-> IF i = 0 THEN <<>> ELSE IF q[i] = d THEN g[i - 1] ELSE Append(g[i - 1], q[i])]

LEMMA KeptExists ==
  ASSUME NEW q, NEW d, NEW n \in Nat
  PROVE  \E g : KeptUpTo(q, d, g, n)
<1> DEFINE Bad == { m \in Nat : ~ \E g : KeptUpTo(q, d, g, m) }
<1>1. SUFFICES ASSUME Bad # {} PROVE FALSE
  OBVIOUS
<1>2. PICK m \in Bad : \A k \in Bad : m <= k
  <2>1. Bad \subseteq Nat
    OBVIOUS
  <2> HIDE DEF Bad
  <2> QED BY <1>1, <2>1, LeastOf
<1>3. m \in Nat /\ ~ \E g : KeptUpTo(q, d, g, m)
  OBVIOUS
<1>4. CASE m = 0
  <2> DEFINE g == [i \in 0..0 |-> <<>>]
  <2>1. \A i \in 0..0 : i = 0
    OBVIOUS
  <2>2. KeptUpTo(q, d, g, 0)
    BY <2>1 DEF KeptUpTo
  <2> QED BY <1>3, <1>4, <2>2
<1>5. CASE m # 0
  <2>1. m - 1 \in Nat /\ ~ (m <= m - 1)
    BY <1>3, <1>5
  <2>2. m - 1 \notin Bad
    BY <1>2, <2>1
  <2>3. PICK g : KeptUpTo(q, d, g, m - 1)
    BY <2>1, <2>2
  <2> DEFINE h == [i \in 0..m |-> IF i = 0 THEN <<>> ELSE IF q[i] = d THEN g[i - 1] ELSE Append(g[i - 1], q[i])]
  <2>4. \A i \in 0..m : i # 0 => i - 1 \in 0..(m - 1) /\ i - 1 \in 0..m
    BY <1>3, <1>5
  <2>5. \A i \in 0..(m - 1) : i \in 0..m
    BY <1>3
  <2>6. \A i \in 0..(m - 1) : h[i] = g[i]
    BY <2>3, <2>5 DEF KeptUpTo
  <2>7. h = [i \in 0..m |-> IF i = 0 THEN <<>> ELSE IF q[i] = d THEN h[i - 1] ELSE Append(h[i - 1], q[i])]
    BY <2>4, <2>6
  <2>8. KeptUpTo(q, d, h, m)
    BY <2>7 DEF KeptUpTo
  <2> QED BY <1>3, <2>8
<1> QED BY <1>4, <1>5

LEMMA WithoutFacts ==
  ASSUME NEW T, NEW q \in Seq(T), NEW d
  PROVE  /\ Without(q, d) \in Seq(T)
         /\ \A e \in Range(q) : e # d => e \in Range(Without(q, d))
<1> DEFINE n == Len(q)
           g == CHOOSE f : KeptUpTo(q, d, f, n)
<1>1. n \in Nat /\ DOMAIN q = 1..n
  OBVIOUS
<1>2. KeptUpTo(q, d, g, n)
  BY <1>1, KeptExists
<1>3. Without(q, d) = g[n]
  BY Zenon DEF Without, KeptUpTo
<1> HIDE DEF g, n
<1>4. /\ g[0] = <<>>
      /\ \A i \in 0..n : i # 0 => g[i] = IF q[i] = d THEN g[i - 1] ELSE Append(g[i - 1], q[i])
  <2>1. \A i \in 0..n : g[i] = IF i = 0 THEN <<>> ELSE IF q[i] = d THEN g[i - 1] ELSE Append(g[i - 1], q[i])
    BY <1>2, Zenon DEF KeptUpTo
  <2> QED BY <1>1, <2>1
<1> DEFINE Good(i) == g[i] \in Seq(T) /\ \A k \in 1..i : q[k] # d => q[k] \in Range(g[i])
           Bad == { i \in 0..n : ~Good(i) }
<1>5. Good(0)
  BY <1>4
<1>6. ASSUME NEW i \in 0..n, i # 0, Good(i - 1)
      PROVE  Good(i)
  <2>1. i \in 1..n /\ i - 1 \in 0..n /\ q[i] \in T /\ \A k \in 1..i : k = i \/ k \in 1..(i - 1)
    BY <1>1, <1>6, ElementOfSeq DEF n
  <2>2. CASE q[i] = d
    BY <1>4, <1>6, <2>1, <2>2
  <2>3. CASE q[i] # d
    <3>1. g[i] = Append(g[i - 1], q[i])
      BY <1>4, <1>6, <2>3
    <3>2. g[i] \in Seq(T) /\ Range(g[i]) = Range(g[i - 1]) \cup {q[i]}
      BY <1>6, <2>1, <3>1, RangeAppend
    <3> QED BY <1>6, <2>1, <3>2
  <2> QED BY <2>2, <2>3
<1>7. Bad = {}
  <2> SUFFICES ASSUME Bad # {} PROVE FALSE
    OBVIOUS
  <2> HIDE DEF Good
  <2>1. PICK m \in Bad : \A k \in Bad : m <= k
    <3>1. Bad \subseteq Nat
      BY <1>1
    <3> HIDE DEF Bad
    <3> QED BY <3>1, LeastOf
  <2>2. m \in 0..n /\ ~Good(m) /\ m # 0
    BY <1>5, <2>1
  <2>3. m - 1 \in 0..n /\ ~ (m <= m - 1)
    BY <1>1, <2>2
  <2>4. Good(m - 1)
    BY <2>1, <2>3
  <2> QED BY <1>6, <2>2, <2>4
<1>8. Good(n)
  BY <1>1, <1>7
<1>9. \A e \in Range(q) : e # d => e \in Range(g[n])
  BY <1>1, <1>8 DEF Range
<1> QED BY <1>3, <1>8, <1>9

\* Occurrences of an event, when one more is recorded.
Occurrences(q, ev) == Cardinality({ i \in 1..Len(q) : q[i] = ev })

LEMMA OccurrencesAppend ==
  ASSUME NEW T, NEW q \in Seq(T), NEW e \in T, NEW ev
  PROVE  /\ Occurrences(q, ev) \in Nat
         /\ Occurrences(Append(q, e), ev) = Occurrences(q, ev) + (IF e = ev THEN 1 ELSE 0)
<1> DEFINE old == { i \in 1..Len(q) : q[i] = ev }
           new == { i \in 1..Len(Append(q, e)) : Append(q, e)[i] = ev }
           n == Len(q)
<1>1. /\ n \in Nat /\ Len(Append(q, e)) = n + 1
      /\ \A i \in 1..n : Append(q, e)[i] = q[i]
      /\ Append(q, e)[n + 1] = e
  BY AppendFacts
<1>2. IsFiniteSet(old) /\ Cardinality(old) \in Nat
  <2>1. IsFiniteSet(1..n)
    BY <1>1, FS_Interval
  <2>2. old \subseteq 1..n
    OBVIOUS
  <2> HIDE DEF old, n
  <2> QED BY <2>1, <2>2, FS_Subset, FS_CardinalityType
<1>3. \A i \in 1..(n + 1) : i \in 1..n \/ i = n + 1
  BY <1>1
<1>4. \A i \in 1..n : i \in 1..(n + 1) /\ i # n + 1
  BY <1>1
<1>5. n + 1 \in 1..(n + 1) /\ n + 1 \notin 1..n
  BY <1>1
<1>6. CASE e = ev
  <2>1. new = old \cup {n + 1} /\ n + 1 \notin old
    BY <1>1, <1>3, <1>4, <1>5, <1>6
  <2> HIDE DEF old, new, n
  <2>2. Cardinality(new) = Cardinality(old) + 1
    BY <1>2, <2>1, FS_AddElement
  <2> QED BY <1>2, <1>6, <2>2 DEF Occurrences, old, new
<1>7. CASE e # ev
  <2>1. new = old
    BY <1>1, <1>3, <1>4, <1>5, <1>7
  <2>2. Occurrences(q, ev) = Cardinality(old) /\ Occurrences(Append(q, e), ev) = Cardinality(new)
    BY Zenon DEF Occurrences
  <2> HIDE DEF old, new
  <2> QED BY <1>2, <1>7, <2>1, <2>2
<1> QED BY <1>6, <1>7

\* A sequence that is within another.
LEMMA WithinEmpty ==
  ASSUME NEW p, Len(p) = 0, NEW q
  PROVE  Within(p, q)
<1>1. 1..Len(p) = {}
  OBVIOUS
<1>2. [i \in 1..Len(p) |-> 0] \in [1..Len(p) -> 1..Len(q)]
  BY <1>1
<1> QED BY <1>1, <1>2 DEF Within

LEMMA WithinGrows ==
  ASSUME NEW T, NEW p \in Seq(T), NEW q \in Seq(T), NEW e \in T, Within(p, q)
  PROVE  Within(p, Append(q, e))
<1>1. PICK at \in [1..Len(p) -> 1..Len(q)] :
        /\ \A i \in 1..Len(p) : q[at[i]] = p[i]
        /\ \A i, j \in 1..Len(p) : i < j => at[i] < at[j]
  BY DEF Within
<1>2. /\ Len(q) \in Nat /\ Len(Append(q, e)) = Len(q) + 1
      /\ \A i \in 1..Len(q) : Append(q, e)[i] = q[i]
  BY AppendFacts
<1>3. \A k \in 1..Len(q) : k \in 1..Len(Append(q, e))
  BY <1>2
<1>4. at \in [1..Len(p) -> 1..Len(Append(q, e))]
  BY <1>1, <1>3
<1>5. \A i \in 1..Len(p) : Append(q, e)[at[i]] = p[i]
  BY <1>1, <1>2
<1> QED BY <1>1, <1>4, <1>5 DEF Within

LEMMA WithinBoth ==
  ASSUME NEW T, NEW p \in Seq(T), NEW q \in Seq(T), NEW e \in T, Within(p, q)
  PROVE  Within(Append(p, e), Append(q, e))
<1> DEFINE m == Len(p)
           n == Len(q)
<1>1. PICK at \in [1..m -> 1..n] :
        /\ \A i \in 1..m : q[at[i]] = p[i]
        /\ \A i, j \in 1..m : i < j => at[i] < at[j]
  BY DEF Within
<1>2. /\ n \in Nat /\ Len(Append(q, e)) = n + 1
      /\ \A i \in 1..n : Append(q, e)[i] = q[i]
      /\ Append(q, e)[n + 1] = e
  BY AppendFacts
<1>3. /\ m \in Nat /\ Len(Append(p, e)) = m + 1
      /\ \A i \in 1..m : Append(p, e)[i] = p[i]
      /\ Append(p, e)[m + 1] = e
  BY AppendFacts
<1> DEFINE to == [i \in 1..(m + 1) |-> IF i = m + 1 THEN n + 1 ELSE at[i]]
<1> HIDE DEF m, n
<1>4. \A i \in 1..(m + 1) : i = m + 1 \/ (i \in 1..m /\ at[i] \in 1..n)
  <2>1. \A i \in 1..(m + 1) : i = m + 1 \/ i \in 1..m
    BY <1>3
  <2>2. \A i \in 1..m : at[i] \in 1..n
    BY <1>1
  <2> QED BY <2>1, <2>2
<1>5. \A k \in 1..n : k \in 1..(n + 1) /\ k < n + 1
  BY <1>2
<1>6. n + 1 \in 1..(n + 1)
  BY <1>2
<1>7. to \in [1..(m + 1) -> 1..(n + 1)]
  BY <1>4, <1>5, <1>6
<1>8. \A i \in 1..(m + 1) : Append(q, e)[to[i]] = Append(p, e)[i]
  BY <1>1, <1>2, <1>3, <1>4
<1>9. ASSUME NEW i \in 1..(m + 1), NEW j \in 1..(m + 1), i < j
      PROVE  to[i] < to[j]
  <2>1. i \in 1..m /\ i # m + 1
    BY <1>3, <1>9
  <2>2. to[i] = at[i] /\ at[i] \in 1..n
    BY <1>1, <2>1
  <2>3. CASE j = m + 1
    BY <1>5, <2>2, <2>3
  <2>4. CASE j # m + 1
    BY <1>1, <1>4, <1>9, <2>1, <2>2, <2>4
  <2> QED BY <2>3, <2>4
<1> HIDE DEF to
<1> QED BY <1>2, <1>3, <1>7, <1>8, <1>9 DEF Within

\* What was handed on and what is held, as one sequence that grows at one end.
LEMMA IncreasingGrows ==
  ASSUME NEW q \in Seq(Nat), NEW e \in Nat, Increasing(q), \A i \in 1..Len(q) : q[i] < e
  PROVE  Increasing(Append(q, e))
<1>1. /\ Len(q) \in Nat /\ Len(Append(q, e)) = Len(q) + 1
      /\ \A i \in 1..Len(q) : Append(q, e)[i] = q[i]
      /\ Append(q, e)[Len(q) + 1] = e
  BY AppendFacts
<1> SUFFICES ASSUME NEW i \in 1..(Len(q) + 1), NEW j \in 1..(Len(q) + 1), i < j
             PROVE  Append(q, e)[i] < Append(q, e)[j]
  BY <1>1 DEF Increasing
<1>2. i \in 1..Len(q) /\ (j \in 1..Len(q) \/ j = Len(q) + 1)
  BY <1>1
<1> QED BY <1>1, <1>2 DEF Increasing

LEMMA HandedOn ==
  ASSUME NEW T, NEW p \in Seq(T), NEW q \in Seq(T), q # <<>>
  PROVE  Append(p, Head(q)) \o Tail(q) = p \o q
<1>1. PICK one : one = <<Head(q)>>
  OBVIOUS
<1>2. PICK t : t = Tail(q)
  OBVIOUS
<1>3. one \in Seq(T) /\ t \in Seq(T)
  BY <1>1, <1>2, HeadTail
<1>4. q = one \o t
  BY <1>1, <1>2, HeadThenTail, Zenon
<1>5. Append(p, Head(q)) = p \o one
  <2>1. Head(q) \in T
    BY HeadTail
  <2> QED BY <1>1, <2>1, AppendIsConcat, Zenon
<1>6. (p \o one) \o t = p \o (one \o t)
  BY <1>3, ConcatAssociative
<1> QED BY <1>2, <1>4, <1>5, <1>6, Zenon

LEMMA HeldGrows ==
  ASSUME NEW T, NEW p \in Seq(T), NEW q \in Seq(T), NEW e \in T
  PROVE  p \o Append(q, e) = Append(p \o q, e)
<1>1. PICK one : one = <<e>>
  OBVIOUS
<1>2. one \in Seq(T)
  BY <1>1
<1>3. Append(q, e) = q \o one /\ p \o q \in Seq(T)
  BY <1>1, AppendIsConcat, ConcatFacts, Zenon
<1>4. Append(p \o q, e) = (p \o q) \o one
  BY <1>1, <1>3, AppendIsConcat, Zenon
<1>5. (p \o q) \o one = p \o (q \o one)
  BY <1>2, ConcatAssociative
<1> QED BY <1>3, <1>4, <1>5, Zenon

-----------------------------------------------------------------------------
(* Types *)

Chunk == 1..MaxChunks
Event == {"destroy", "end", "error", "finish", "close"}
Listener == Names \cup {"user"}
Bare == {"eof", "drain", "close", "error", "failWrite", "autoDestroy", "endUncork", "uncork",
         "ended", "finishing", "finish", "finished"}

\* The calls that may be in progress, and the timeouts that may be armed.
Frame(some) ==
  {User}
  \cup [op: {"push", "write", "writeNow"}, s: some, x: Chunk]
  \cup [op: {"end"}, s: some, x: 0..MaxChunks]
  \cup [op: Bare, s: some, x: {None}]
  \cup [op: {"flush"}, s: some, x: Seq(Chunk)]
  \cup [op: {"destroy", "destroyed"}, s: some, x: {None, "err"}]
  \cup [op: {"emit"}, s: some, x: Chunk, ev: {"data"}, to: Seq(some \cup {"user"})]
  \cup [op: {"emit"}, s: some, x: {None}, ev: {"end"}, to: Seq(some \cup {"user"})]
Timer(some) == { f \in Frame(some) : f.op \in {"drain", "finishing", "destroyed"} }

\* The callbacks the program may hold.
Awaited(make) ==
  LET all == DOMAIN make IN
  ({"write", "writev"} \X all \X Chunk)
  \cup ({"transform"} \X { s \in all : make[s].kind = "transform" } \X Chunk)
  \cup ({"final"} \X { s \in all : make[s].final } \X {None})
  \cup ({"pump"} \X all \X {None})
  \cup ({"hook"} \X all \X {None, "err"})

ReadableHalf(some) ==
  [chunks: Seq(Chunk), ended: BOOLEAN, flowing: {None, "yes", "no"}, done: BOOLEAN,
   listeners: Seq(some \cup {"user"}), delivered: Seq(Chunk), late: BOOLEAN]
WritableHalf ==
  [ended: BOOLEAN, finished: BOOLEAN, corked: Nat, corkBuf: Seq(Chunk), needDrain: BOOLEAN,
   accepted: Seq(Chunk), sunk: Seq(Chunk), overtaken: BOOLEAN, failed: BOOLEAN]

Types ==
  /\ setup \in Setups
  /\ rd \in [Streams -> ReadableHalf(Streams)]
  /\ wr \in [Streams -> WritableHalf]
  /\ destroyed \subseteq Streams /\ errored \subseteq Streams
  /\ timers \in Seq(Timer(Streams)) /\ stack \in Seq(Frame(Streams))
  /\ awaiting \subseteq Awaited(opts)
  /\ events \in [Streams -> Seq(Event)]
  /\ made \in 0..MaxChunks /\ ops \in 0..setup.max
  /\ linked \subseteq Streams \X Streams

LEMMA SetupTypes ==
  ASSUME setup \in Setups
  PROVE  /\ MaxChunks \in Nat /\ HighWater \in Nat /\ "user" \notin Streams
         /\ \A s \in Streams : opts[s] \in Options
         /\ setup.max \in Nat
         /\ setup.path \in Seq(Names)
         /\ "pipeline" \in setup.ops => setup.path # <<>> /\ Range(setup.path) \subseteq Streams
<1>1. /\ DOMAIN setup.make \subseteq Names /\ Range(setup.make) \subseteq Options
      /\ setup.max \in Nat /\ setup.path \in Seq(Names)
      /\ "pipeline" \in setup.ops => setup.path # <<>> /\ Range(setup.path) \subseteq DOMAIN setup.make
  BY StreamsAssumption
<1>2. \A s \in DOMAIN setup.make : setup.make[s] \in Range(setup.make)
  BY DEF Range
<1>3. "user" \notin Names /\ MaxChunks \in Nat /\ HighWater \in Nat
  BY StreamsAssumption
<1> QED BY <1>1, <1>2, <1>3 DEF Streams, opts

LEMMA FrameFields ==
  ASSUME NEW some, NEW f \in Frame(some)
  PROVE  /\ f.op # "user" => f.s \in some
         /\ f.op \in {"push", "write", "writeNow"} => f.x \in Chunk /\ f = Call(f.op, f.s, f.x)
         /\ f.op = "end" => f.x \in 0..MaxChunks /\ f = Call("end", f.s, f.x)
         /\ f.op \in Bare => f.x = None /\ f = Call(f.op, f.s, None)
         /\ f.op = "flush" => f.x \in Seq(Chunk) /\ f = Call("flush", f.s, f.x)
         /\ f.op \in {"destroy", "destroyed"} => f.x \in {None, "err"} /\ f = Call(f.op, f.s, f.x)
         /\ f.op = "emit" => /\ f.to \in Seq(some \cup {"user"}) /\ f = Emit(f.s, f.ev, f.x, f.to)
                             /\ (f.ev = "data" /\ f.x \in Chunk) \/ (f.ev = "end" /\ f.x = None)
         /\ f.op = "user" => f = User
         /\ f.op \in Bare \cup {"push", "write", "writeNow", "end", "flush", "destroy", "destroyed",
                                "emit", "user"}
<1>1. User.op = "user"
  BY DEF User, Call
<1>2. CASE f = User
  BY <1>1, <1>2 DEF Bare
<1>3. CASE f \in [op: {"push", "write", "writeNow"}, s: some, x: Chunk]
  BY <1>3 DEF Call, Bare
<1>4. CASE f \in [op: {"end"}, s: some, x: 0..MaxChunks]
  BY <1>4 DEF Call, Bare
<1>5. CASE f \in [op: Bare, s: some, x: {None}]
  <2>1. f.op \in Bare /\ f.s \in some /\ f.x = None /\ f = [op |-> f.op, s |-> f.s, x |-> None]
    BY <1>5
  <2> QED BY <2>1 DEF Call, Bare
<1>6. CASE f \in [op: {"flush"}, s: some, x: Seq(Chunk)]
  BY <1>6 DEF Call, Bare
<1>7. CASE f \in [op: {"destroy", "destroyed"}, s: some, x: {None, "err"}]
  BY <1>7 DEF Call, Bare
<1>8. CASE f \in [op: {"emit"}, s: some, x: Chunk, ev: {"data"}, to: Seq(some \cup {"user"})]
  BY <1>8 DEF Emit, Bare
<1>9. CASE f \in [op: {"emit"}, s: some, x: {None}, ev: {"end"}, to: Seq(some \cup {"user"})]
  BY <1>9 DEF Emit, Bare
<1> QED BY <1>2, <1>3, <1>4, <1>5, <1>6, <1>7, <1>8, <1>9 DEF Frame

LEMMA FrameTypes ==
  ASSUME NEW some
  PROVE  /\ User \in Frame(some)
         /\ \A op \in {"push", "write", "writeNow"}, s \in some, x \in Chunk : Call(op, s, x) \in Frame(some)
         /\ \A s \in some, x \in 0..MaxChunks : Call("end", s, x) \in Frame(some)
         /\ \A op \in Bare, s \in some : Call(op, s, None) \in Frame(some)
         /\ \A s \in some, x \in Seq(Chunk) : Call("flush", s, x) \in Frame(some)
         /\ \A op \in {"destroy", "destroyed"}, s \in some, x \in {None, "err"} : Call(op, s, x) \in Frame(some)
         /\ \A s \in some, x \in Chunk, to \in Seq(some \cup {"user"}) : Emit(s, "data", x, to) \in Frame(some)
         /\ \A s \in some, to \in Seq(some \cup {"user"}) : Emit(s, "end", None, to) \in Frame(some)
<1>1. User \in Frame(some)
  BY DEF Frame
<1>2. \A op \in {"push", "write", "writeNow"}, s \in some, x \in Chunk : Call(op, s, x) \in Frame(some)
  BY DEF Frame, Call
<1>3. \A s \in some, x \in 0..MaxChunks : Call("end", s, x) \in Frame(some)
  BY DEF Frame, Call
<1>4. \A op \in Bare, s \in some : Call(op, s, None) \in Frame(some)
  BY DEF Frame, Call
<1>5. \A s \in some, x \in Seq(Chunk) : Call("flush", s, x) \in Frame(some)
  BY DEF Frame, Call
<1>6. \A op \in {"destroy", "destroyed"}, s \in some, x \in {None, "err"} : Call(op, s, x) \in Frame(some)
  BY DEF Frame, Call
<1>7. \A s \in some, x \in Chunk, to \in Seq(some \cup {"user"}) : Emit(s, "data", x, to) \in Frame(some)
  BY DEF Frame, Emit
<1>8. \A s \in some, to \in Seq(some \cup {"user"}) : Emit(s, "end", None, to) \in Frame(some)
  BY DEF Frame, Emit
<1> QED BY <1>1, <1>2, <1>3, <1>4, <1>5, <1>6, <1>7, <1>8

-----------------------------------------------------------------------------
(* Calls in progress *)

\* A call of these is carried out by the step that follows its beginning.
AtOnce == {"push", "write", "writeNow", "finish"}

\* What is known of a call when it begins.
Begins(f) ==
  /\ f.op = "push" /\ opts[f.s].kind = "readable" => f.x = made' /\ made < made'
  /\ f.op = "finish" => opts[f.s].final \/ f.s \notin destroyed'
  /\ f.op = "writeNow" => f.s = S /\ (Top("write") \/ Top("flush"))
  /\ f.op = "flush" => f.s = S /\ (Top("uncork") \/ Top("flush"))

\* A step begins the calls `new` on top of `rest`: the calls in progress, when it is one of
\* the program, and else those but the innermost, which has ended.
Moves(new, rest) ==
  /\ stack' = new \o rest
  /\ \/ rest = stack /\ ProgramRuns
     \/ stack # <<>> /\ rest = Tail(stack)
  /\ \A i \in 1..Len(new) : new[i].op \in AtOnce => i = 1
  /\ \A i \in 1..Len(new) : new[i].op = "drain" => i = Len(new) /\ rest = <<>>
  /\ \A f \in Range(new) : Begins(f)
Moved == \E new, rest \in Seq(Frame(Streams)) : Moves(new, rest)

Under(rest) ==
  /\ rest \in Seq(Frame(Streams))
  /\ \/ rest = stack /\ ProgramRuns
     \/ stack # <<>> /\ rest = Tail(stack)

LEMMA MoveNone ==
  ASSUME NEW rest, Under(rest), stack' = <<>> \o rest
  PROVE  Moved /\ stack' \in Seq(Frame(Streams))
<1>1. <<>> \in Seq(Frame(Streams)) /\ rest \in Seq(Frame(Streams))
  BY DEF Under
<1>2. 1..Len(<<>>) = {} /\ Range(<<>>) = {}
  BY DEF Range
<1>3. Moves(<<>>, rest)
  BY <1>2 DEF Moves, Under
<1>4. stack' \in Seq(Frame(Streams))
  BY <1>1, ConcatFacts
<1> QED BY <1>1, <1>3, <1>4 DEF Moved

LEMMA MoveOne ==
  ASSUME NEW rest, Under(rest), NEW f \in Frame(Streams), stack' = <<f>> \o rest,
         f.op = "drain" => rest = <<>>, Begins(f)
  PROVE  Moved /\ stack' \in Seq(Frame(Streams))
<1>1. PICK new : new = <<f>>
  OBVIOUS
<1>2. new \in Seq(Frame(Streams)) /\ Len(new) = 1 /\ new[1] = f /\ Range(new) = {f}
  BY <1>1 DEF Range
<1>3. stack' = new \o rest /\ rest \in Seq(Frame(Streams))
  BY <1>1 DEF Under
<1>4. \A i \in 1..Len(new) : i = 1
  BY <1>2
<1>5. Moves(new, rest)
  BY <1>2, <1>3, <1>4 DEF Moves, Under
<1>6. stack' \in Seq(Frame(Streams))
  BY <1>2, <1>3, ConcatFacts
<1> QED BY <1>2, <1>3, <1>5, <1>6 DEF Moved

LEMMA MoveTwo ==
  ASSUME NEW rest, Under(rest), NEW f \in Frame(Streams), NEW g \in Frame(Streams),
         stack' = <<f, g>> \o rest,
         f.op # "drain", g.op = "drain" => rest = <<>>, g.op \notin AtOnce, Begins(f), Begins(g)
  PROVE  Moved /\ stack' \in Seq(Frame(Streams))
<1>1. PICK new : new = <<f, g>>
  OBVIOUS
<1>2. /\ new \in Seq(Frame(Streams)) /\ Len(new) = 2 /\ new[1] = f /\ new[2] = g
      /\ \A h \in Range(new) : h \in {f, g}
  BY <1>1 DEF Range
<1>3. stack' = new \o rest /\ rest \in Seq(Frame(Streams))
  BY <1>1 DEF Under
<1>4. \A i \in 1..Len(new) : i = 1 \/ i = 2
  BY <1>2
<1>5. Moves(new, rest)
  BY <1>2, <1>3, <1>4 DEF Moves, Under
<1>6. stack' \in Seq(Frame(Streams))
  BY <1>2, <1>3, ConcatFacts
<1> QED BY <1>2, <1>3, <1>5, <1>6 DEF Moved

LEMMA MoveThree ==
  ASSUME NEW rest, Under(rest), NEW f \in Frame(Streams), NEW g \in Frame(Streams), NEW h \in Frame(Streams),
         stack' = <<f, g, h>> \o rest,
         f.op # "drain", g.op # "drain", h.op # "drain", g.op \notin AtOnce, h.op \notin AtOnce,
         Begins(f), Begins(g), Begins(h)
  PROVE  Moved /\ stack' \in Seq(Frame(Streams))
<1>1. PICK new : new = <<f, g, h>>
  OBVIOUS
<1>2. /\ new \in Seq(Frame(Streams)) /\ Len(new) = 3 /\ new[1] = f /\ new[2] = g /\ new[3] = h
      /\ \A k \in Range(new) : k \in {f, g, h}
  BY <1>1 DEF Range
<1>3. stack' = new \o rest /\ rest \in Seq(Frame(Streams))
  BY <1>1 DEF Under
<1>4. \A i \in 1..Len(new) : i = 1 \/ i = 2 \/ i = 3
  BY <1>2
<1>5. Moves(new, rest)
  BY <1>2, <1>3, <1>4 DEF Moves, Under
<1>6. stack' \in Seq(Frame(Streams))
  BY <1>2, <1>3, ConcatFacts
<1> QED BY <1>2, <1>3, <1>5, <1>6 DEF Moved

\* The innermost call has the type of its operation, and what is under it is there to go on.
LEMMA Innermost ==
  ASSUME Types, stack # <<>>
  PROVE  Head(stack) \in Frame(Streams) /\ Under(Tail(stack))
<1>1. stack \in Seq(Frame(Streams))
  BY DEF Types
<1> QED BY <1>1, HeadTail DEF Under

LEMMA TypesKept ==
  ASSUME Types, setup' = setup,
         rd' \in [Streams -> ReadableHalf(Streams)], wr' \in [Streams -> WritableHalf],
         destroyed' \subseteq Streams, errored' \subseteq Streams,
         timers' \in Seq(Timer(Streams)), stack' \in Seq(Frame(Streams)),
         awaiting' \subseteq Awaited(opts), events' \in [Streams -> Seq(Event)],
         made' \in 0..MaxChunks, ops' \in 0..setup.max, linked' \subseteq Streams \X Streams
  PROVE  Types'
BY Zenon DEF Types, Streams, opts

LEMMA OtherCall ==
  ASSUME NEW f, f.op \notin {"push", "finish", "writeNow", "flush"}
  PROVE  Begins(f)
BY DEF Begins

LEMMA ArmOne ==
  ASSUME Types, NEW t \in Timer(Streams), timers' = timers \o <<t>>
  PROVE  timers' \in Seq(Timer(Streams))
<1>1. PICK one : one = <<t>>
  OBVIOUS
<1>2. one \in Seq(Timer(Streams)) /\ timers \in Seq(Timer(Streams)) /\ timers' = timers \o one
  BY <1>1 DEF Types
<1> QED BY <1>2, ConcatFacts

LEMMA TimerTypes ==
  ASSUME NEW some, NEW s \in some
  PROVE  /\ DrainTimer(s) \in Timer(some) /\ Call("finishing", s, None) \in Timer(some)
         /\ \A x \in {None, "err"} : Call("destroyed", s, x) \in Timer(some)
<1>1. DrainTimer(s) = Call("drain", s, None)
  BY DEF DrainTimer, Call
<1>2. \A op, x : Call(op, s, x).op = op
  BY DEF Call
<1>3. "drain" \in Bare /\ "finishing" \in Bare
  BY DEF Bare
<1> QED BY <1>1, <1>2, <1>3, FrameTypes DEF Timer

LEMMA PushChunkStep ==
  ASSUME Types, PushChunk
  PROVE  Types' /\ Moved
<1>1. S \in Streams /\ X \in Chunk /\ Under(Tail(stack))
  BY Innermost, FrameFields DEF PushChunk, Top, S, X
<1>2. rd' \in [Streams -> ReadableHalf(Streams)]
  <2>1. Append(rd[S].chunks, X) \in Seq(Chunk)
    BY <1>1, AppendProperties DEF Types, ReadableHalf
  <2>2. PICK c \in Seq(Chunk) : c = Append(rd[S].chunks, X)
    BY <2>1
  <2>3. PICK l \in BOOLEAN : l = (rd[S].late \/ rd[S].ended)
    BY <1>1 DEF Types, ReadableHalf
  <2>4. rd' = [rd EXCEPT ![S].chunks = c, ![S].late = l]
    BY <2>2, <2>3 DEF PushChunk
  <2>5. rd \in [Streams -> ReadableHalf(Streams)]
    BY DEF Types
  <2> QED BY <1>1, <2>4, <2>5 DEF ReadableHalf
<1>3. timers' \in Seq(Timer(Streams))
  BY <1>1, ArmOne, TimerTypes DEF PushChunk, Arm, Types
<1>4. Moved /\ stack' \in Seq(Frame(Streams))
  BY <1>1, MoveNone DEF PushChunk, Then
<1> QED BY <1>2, <1>3, <1>4, TypesKept DEF Types, PushChunk, Rest

LEMMA PushNullStep ==
  ASSUME Types, PushNull
  PROVE  Types' /\ Moved
<1>1. S \in Streams /\ Under(Tail(stack))
  BY Innermost, FrameFields DEF PushNull, Top, S
<1>2. rd' \in [Streams -> ReadableHalf(Streams)]
  BY <1>1 DEF Types, PushNull, ReadableHalf
<1>3. timers' \in Seq(Timer(Streams))
  BY <1>1, ArmOne, TimerTypes DEF PushNull, Arm, Types
<1>4. Moved /\ stack' \in Seq(Frame(Streams))
  BY <1>1, MoveNone DEF PushNull, Then
<1> QED BY <1>2, <1>3, <1>4, TypesKept DEF Types, PushNull, Rest

LEMMA DrainLoopStep ==
  ASSUME Types, DrainLoop, Top("drain") => Tail(stack) = <<>>
  PROVE  Types' /\ Moved
<1> DEFINE f == Emit(S, "data", Head(rd[S].chunks), rd[S].listeners)
           g == Head(stack)
<1>1. S \in Streams /\ Under(Tail(stack)) /\ g \in Frame(Streams) /\ g.op = "drain"
  BY Innermost, FrameFields DEF DrainLoop, Top, S
<1>2. rd[S].chunks \in Seq(Chunk) /\ rd[S].chunks # <<>> /\ rd[S].delivered \in Seq(Chunk)
      /\ rd[S].listeners \in Seq(Streams \cup {"user"})
  BY <1>1 DEF Types, ReadableHalf, DrainLoop
<1>3. Head(rd[S].chunks) \in Chunk /\ Tail(rd[S].chunks) \in Seq(Chunk)
  BY <1>2, HeadTail
<1>4. PICK c \in Seq(Chunk), d \in Seq(Chunk) :
        c = Tail(rd[S].chunks) /\ d = Append(rd[S].delivered, Head(rd[S].chunks))
  BY <1>2, <1>3, AppendProperties
<1>5. rd' = [rd EXCEPT ![S].chunks = c, ![S].delivered = d]
  BY <1>4 DEF DrainLoop
<1>6. rd \in [Streams -> ReadableHalf(Streams)]
  BY DEF Types
<1>7. rd' \in [Streams -> ReadableHalf(Streams)]
  <2>1. S \in Streams
    BY <1>1
  <2>2. PICK h : h = [rd[S] EXCEPT !.chunks = c, !.delivered = d]
    OBVIOUS
  <2>3. h \in ReadableHalf(Streams)
    BY <1>6, <2>1, <2>2 DEF ReadableHalf
  <2>4. rd' = [rd EXCEPT ![S] = h]
    BY <1>5, <1>6, <2>1, <2>2
  <2> QED BY <1>6, <2>1, <2>3, <2>4
<1>8. f \in Frame(Streams) /\ f.op = "emit"
  <2>1. PICK to \in Seq(Streams \cup {"user"}) : to = rd[S].listeners
    BY <1>2
  <2>2. PICK x \in Chunk : x = Head(rd[S].chunks)
    BY <1>3
  <2>3. Emit(S, "data", x, to) \in Frame(Streams) /\ Emit(S, "data", x, to).op = "emit"
    BY <1>1, FrameTypes DEF Emit
  <2> QED BY <2>1, <2>2, <2>3, Zenon
<1>9. stack' = <<f, g>> \o Tail(stack) /\ Tail(stack) = <<>>
  BY DEF DrainLoop, Then
<1> HIDE DEF f, g
<1>10. g.op \notin AtOnce /\ Begins(f) /\ Begins(g)
  BY <1>1, <1>8, OtherCall DEF AtOnce
<1>11. Moved /\ stack' \in Seq(Frame(Streams))
  BY <1>1, <1>8, <1>9, <1>10, MoveTwo
<1> QED BY <1>7, <1>11, TypesKept DEF Types, DrainLoop, Rest

LEMMA RecordType ==
  ASSUME Types, NEW s \in Streams, NEW ev \in Event, Record(s, ev)
  PROVE  events' \in [Streams -> Seq(Event)]
<1>1. Append(events[s], ev) \in Seq(Event)
  BY AppendProperties DEF Types
<1> QED BY <1>1 DEF Types, Record

LEMMA DrainEndsStep ==
  ASSUME Types, DrainEnds
  PROVE  Types' /\ Moved
<1> DEFINE f == Emit(S, "end", None, rd[S].listeners)
           g == Call("close", S, None)
<1>1. S \in Streams /\ Under(Tail(stack))
  BY Innermost, FrameFields DEF DrainEnds, Top, S
<1>2. CASE rd[S].ended /\ ~rd[S].done
  <2>1. rd' = [rd EXCEPT ![S].done = TRUE] /\ Record(S, "end") /\ stack' = <<f, g>> \o Tail(stack)
    BY <1>2 DEF DrainEnds, Then
  <2>2. rd' \in [Streams -> ReadableHalf(Streams)]
    BY <1>1, <2>1 DEF Types, ReadableHalf
  <2>3. events' \in [Streams -> Seq(Event)]
    BY <1>1, <2>1, RecordType DEF Event
  <2>4. rd[S].listeners \in Seq(Streams \cup {"user"})
    BY <1>1 DEF Types, ReadableHalf
  <2>5. f \in Frame(Streams) /\ f.op = "emit" /\ g \in Frame(Streams) /\ g.op = "close"
    BY <1>1, <2>4, FrameTypes DEF Emit, Call, Bare
  <2> HIDE DEF f, g
  <2>6. g.op \notin AtOnce /\ Begins(f) /\ Begins(g)
    BY <2>5, OtherCall DEF AtOnce
  <2>7. Moved /\ stack' \in Seq(Frame(Streams))
    BY <1>1, <2>1, <2>5, <2>6, MoveTwo
  <2> QED BY <2>2, <2>3, <2>7, TypesKept DEF Types, DrainEnds, Rest
<1>3. CASE ~(rd[S].ended /\ ~rd[S].done)
  <2>1. Moved /\ stack' \in Seq(Frame(Streams))
    BY <1>1, <1>3, MoveNone DEF DrainEnds, Then
  <2> QED BY <1>3, <2>1, TypesKept DEF Types, DrainEnds, Rest
<1> QED BY <1>2, <1>3


\* An emission that has called a listener.
Left(e, rest) == [e EXCEPT !.to = rest]

LEMMA EmitRest ==
  ASSUME NEW some, NEW e \in Frame(some), e.op = "emit", NEW rest \in Seq(some \cup {"user"})
  PROVE  /\ Left(e, rest) \in Frame(some) /\ Left(e, rest).op = "emit" /\ Left(e, rest).s = e.s
         /\ Left(e, rest).ev = e.ev /\ Left(e, rest).x = e.x /\ Left(e, rest).to = rest
<1> DEFINE g == [e EXCEPT !.to = rest]
<1>1. CASE e \in [op: {"emit"}, s: some, x: Chunk, ev: {"data"}, to: Seq(some \cup {"user"})]
  <2>1. /\ g \in [op: {"emit"}, s: some, x: Chunk, ev: {"data"}, to: Seq(some \cup {"user"})]
        /\ g.op = "emit" /\ g.s = e.s /\ g.ev = e.ev /\ g.x = e.x /\ g.to = rest
    BY <1>1
  <2> QED BY <2>1 DEF Frame, Left
<1>2. CASE e \in [op: {"emit"}, s: some, x: {None}, ev: {"end"}, to: Seq(some \cup {"user"})]
  <2>1. /\ g \in [op: {"emit"}, s: some, x: {None}, ev: {"end"}, to: Seq(some \cup {"user"})]
        /\ g.op = "emit" /\ g.s = e.s /\ g.ev = e.ev /\ g.x = e.x /\ g.to = rest
    BY <1>2
  <2> QED BY <2>1 DEF Frame, Left
<1>3. User.op # "emit"
  BY DEF User, Call
<1> QED BY <1>1, <1>2, <1>3 DEF Frame, Bare, Left

LEMMA EmitNextStep ==
  ASSUME Types, EmitNext
  PROVE  Types' /\ Moved
<1> DEFINE e == Head(stack)
           l == Head(e.to)
           f == IF l = "user" THEN User ELSE IF e.ev = "data" THEN Call("write", l, e.x) ELSE Call("end", l, NoChunk)
           g == Left(e, Tail(e.to))
<1>1. /\ S \in Streams /\ Under(Tail(stack)) /\ e \in Frame(Streams) /\ e.op = "emit" /\ e.s \in Streams
      /\ e.to \in Seq(Streams \cup {"user"}) /\ e = Emit(e.s, e.ev, e.x, e.to)
      /\ (e.ev = "data" /\ e.x \in Chunk) \/ (e.ev = "end" /\ e.x = None)
  BY Innermost, FrameFields DEF EmitNext, Top, S
<1>2. CASE e.to = <<>>
  <2>1. Moved /\ stack' \in Seq(Frame(Streams))
    BY <1>1, <1>2, MoveNone DEF EmitNext, Then
  <2> QED BY <2>1, TypesKept DEF Types, EmitNext, Rest
<1>3. CASE e.to # <<>>
  <2>1. stack' = <<f, g>> \o Tail(stack)
    BY <1>3, Zenon DEF EmitNext, Then, Left
  <2>2. l \in Streams \cup {"user"} /\ Tail(e.to) \in Seq(Streams \cup {"user"})
    BY <1>1, <1>3, HeadTail
  <2>4. g \in Frame(Streams) /\ g.op = "emit"
    <3>1. PICK rest \in Seq(Streams \cup {"user"}) : rest = Tail(e.to)
      BY <2>2
    <3>2. Left(e, rest) \in Frame(Streams) /\ Left(e, rest).op = "emit"
      BY <1>1, EmitRest
    <3> QED BY <3>1, <3>2
  <2>5. f \in Frame(Streams) /\ f.op \in {"user", "write", "end"}
    <3>1. NoChunk \in 0..MaxChunks
      BY SetupTypes DEF NoChunk, Types
    <3>2. User.op = "user" /\ Call("write", l, e.x).op = "write" /\ Call("end", l, NoChunk).op = "end"
      BY DEF User, Call
    <3>3. CASE l = "user"
      BY <3>2, <3>3, FrameTypes
    <3>4. CASE l # "user" /\ e.ev = "data"
      BY <1>1, <2>2, <3>2, <3>4, FrameTypes
    <3>5. CASE l # "user" /\ e.ev # "data"
      BY <1>1, <2>2, <3>1, <3>2, <3>5, FrameTypes
    <3> QED BY <3>3, <3>4, <3>5
  <2> HIDE DEF e, f, g, l
  <2>6. g.op \notin AtOnce /\ Begins(f) /\ Begins(g)
    BY <2>4, <2>5, OtherCall DEF AtOnce
  <2>7. Moved /\ stack' \in Seq(Frame(Streams))
    BY <1>1, <2>1, <2>4, <2>5, <2>6, MoveTwo
  <2> QED BY <2>7, TypesKept DEF Types, EmitNext, Rest
<1> QED BY <1>2, <1>3

\* A call that ends and makes none, one, or two that nothing else is known of.
Plain(f) == f.op \notin AtOnce \cup {"drain", "flush"}

LEMMA NoCall ==
  ASSUME Types, stack # <<>>, Then(<<>>)
  PROVE  Moved /\ stack' \in Seq(Frame(Streams))
BY Innermost, MoveNone DEF Then

LEMMA OneCall ==
  ASSUME Types, stack # <<>>, NEW f \in Frame(Streams), Plain(f), Then(<<f>>)
  PROVE  Moved /\ stack' \in Seq(Frame(Streams))
<1>1. stack' = <<f>> \o Tail(stack) /\ Under(Tail(stack))
  BY Innermost DEF Then
<1>2. f.op # "drain" /\ Begins(f)
  BY OtherCall DEF Plain, AtOnce
<1> QED BY <1>1, <1>2, MoveOne

LEMMA TwoCalls ==
  ASSUME Types, stack # <<>>, NEW f \in Frame(Streams), NEW g \in Frame(Streams), Plain(f), Plain(g),
         Then(<<f, g>>)
  PROVE  Moved /\ stack' \in Seq(Frame(Streams))
<1>1. stack' = <<f, g>> \o Tail(stack) /\ Under(Tail(stack))
  BY Innermost DEF Then
<1>2. f.op # "drain" /\ g.op # "drain" /\ g.op \notin AtOnce /\ Begins(f) /\ Begins(g)
  BY OtherCall DEF Plain, AtOnce
<1> QED BY <1>1, <1>2, MoveTwo

\* What a call of an operation is.
LEMMA PlainCalls ==
  ASSUME NEW s \in Streams
  PROVE  /\ User \in Frame(Streams) /\ Plain(User)
         /\ \A op \in Bare \ {"finish", "drain"} : Call(op, s, None) \in Frame(Streams) /\ Plain(Call(op, s, None))
         /\ \A x \in 0..MaxChunks : Call("end", s, x) \in Frame(Streams) /\ Plain(Call("end", s, x))
         /\ \A op \in {"destroy", "destroyed"}, x \in {None, "err"} :
              Call(op, s, x) \in Frame(Streams) /\ Plain(Call(op, s, x))
<1>1. \A op, x : Call(op, s, x).op = op
  BY DEF Call
<1>2. User.op = "user"
  BY DEF User, Call
<1> QED BY <1>1, <1>2, FrameTypes DEF Plain, AtOnce, Bare

LEMMA Pairs ==
  \A a, b, c :
    /\ <<>> \o <<a>> = <<a>> /\ <<a>> \o <<b>> = <<a, b>>
    /\ <<>> \o <<b, c>> = <<b, c>> /\ <<a>> \o <<b, c>> = <<a, b, c>> /\ <<a>> \o <<>> = <<a>>
<1> TAKE a, b, c
<1> DEFINE T == {a, b, c}
<1>1. <<a>> \in Seq(T) /\ <<b>> \in Seq(T) /\ <<b, c>> \in Seq(T) /\ <<a, b>> \in Seq(T) /\ <<a, b, c>> \in Seq(T)
  OBVIOUS
<1>2. <<>> \o <<a>> = <<a>> /\ <<>> \o <<b, c>> = <<b, c>> /\ <<a>> \o <<>> = <<a>>
  BY <1>1, ConcatEmptySeq, Zenon
<1>3. PICK s, t, u, v, w : s = <<a>> /\ t = <<b>> /\ u = <<b, c>> /\ v = <<a, b>> /\ w = <<a, b, c>>
  OBVIOUS
<1>4. /\ s \in Seq(T) /\ Len(s) = 1 /\ s[1] = a /\ t \in Seq(T) /\ Len(t) = 1 /\ t[1] = b
      /\ u \in Seq(T) /\ Len(u) = 2 /\ u[1] = b /\ u[2] = c
      /\ v \in Seq(T) /\ Len(v) = 2 /\ v[1] = a /\ v[2] = b
      /\ w \in Seq(T) /\ Len(w) = 3 /\ w[1] = a /\ w[2] = b /\ w[3] = c
  BY <1>1, <1>3
<1> HIDE DEF T
<1>5. s \o t = v
  <2>1. /\ s \o t \in Seq(T) /\ Len(s \o t) = Len(s) + Len(t)
        /\ \A i \in 1..Len(s) : (s \o t)[i] = s[i]
        /\ \A i \in 1..Len(t) : (s \o t)[Len(s) + i] = t[i]
    <3>1. s \in Seq(T) /\ t \in Seq(T)
      BY <1>4
    <3> QED BY <3>1, ConcatFacts
  <2>2. PICK p : p = s \o t
    OBVIOUS
  <2>3. /\ p \in Seq(T) /\ Len(p) = Len(s) + Len(t)
        /\ \A i \in 1..Len(s) : p[i] = s[i]
        /\ \A i \in 1..Len(t) : p[Len(s) + i] = t[i]
    BY <2>1, <2>2, Zenon
  <2>4. Len(p) = 2 /\ p[1] = a /\ p[2] = b
    BY <1>4, <2>3
  <2>5. \A i \in 1..2 : i = 1 \/ i = 2
    OBVIOUS
  <2>6. Len(p) = Len(v) /\ \A i \in 1..Len(p) : p[i] = v[i]
    BY <1>4, <2>4, <2>5
  <2>7. p = v
    BY <1>4, <2>3, <2>6, SeqEqual
  <2> QED BY <2>2, <2>7
<1>6. s \o u = w
  <2>1. /\ s \o u \in Seq(T) /\ Len(s \o u) = Len(s) + Len(u)
        /\ \A i \in 1..Len(s) : (s \o u)[i] = s[i]
        /\ \A i \in 1..Len(u) : (s \o u)[Len(s) + i] = u[i]
    <3>1. s \in Seq(T) /\ u \in Seq(T)
      BY <1>4
    <3> QED BY <3>1, ConcatFacts
  <2>2. PICK p : p = s \o u
    OBVIOUS
  <2>3. /\ p \in Seq(T) /\ Len(p) = Len(s) + Len(u)
        /\ \A i \in 1..Len(s) : p[i] = s[i]
        /\ \A i \in 1..Len(u) : p[Len(s) + i] = u[i]
    BY <2>1, <2>2, Zenon
  <2>4. Len(p) = 3 /\ p[1] = a /\ p[2] = b /\ p[3] = c
    BY <1>4, <2>3
  <2>5. \A i \in 1..3 : i = 1 \/ i = 2 \/ i = 3
    OBVIOUS
  <2>6. Len(p) = Len(w) /\ \A i \in 1..Len(p) : p[i] = w[i]
    BY <1>4, <2>4, <2>5
  <2>7. p = w
    BY <1>4, <2>3, <2>6, SeqEqual
  <2> QED BY <2>2, <2>7
<1> QED BY <1>2, <1>3, <1>5, <1>6, Zenon

LEMMA EmitCloseStep ==
  ASSUME Types, EmitClose
  PROVE  Types' /\ Moved
<1>1. S \in Streams /\ stack # <<>>
  BY Innermost, FrameFields DEF EmitClose, Top, S
<1>2. events' \in [Streams -> Seq(Event)]
  BY <1>1, RecordType DEF EmitClose, Event
<1>3. Moved /\ stack' \in Seq(Frame(Streams))
  BY <1>1, OneCall, PlainCalls DEF EmitClose
<1> QED BY <1>2, <1>3, TypesKept DEF Types, EmitClose, Rest

LEMMA EmitErrorStep ==
  ASSUME Types, EmitError
  PROVE  Types' /\ Moved
<1>1. S \in Streams /\ stack # <<>>
  BY Innermost, FrameFields DEF EmitError, Top, S
<1>2. events' \in [Streams -> Seq(Event)]
  BY <1>1, RecordType DEF EmitError, Event
<1>3. Moved /\ stack' \in Seq(Frame(Streams))
  BY <1>1, OneCall, PlainCalls DEF EmitError
<1> QED BY <1>2, <1>3, TypesKept DEF Types, EmitError, Rest

LEMMA FailWriteStep ==
  ASSUME Types, FailWrite
  PROVE  Types' /\ Moved
<1>1. S \in Streams /\ stack # <<>>
  BY Innermost, FrameFields DEF FailWrite, Top, S
<1>2. Moved /\ stack' \in Seq(Frame(Streams))
  BY <1>1, NoCall, TwoCalls, PlainCalls DEF FailWrite, Bare
<1>3. errored' \subseteq Streams
  BY <1>1 DEF FailWrite, Types
<1> QED BY <1>2, <1>3, TypesKept DEF Types, FailWrite, Rest

LEMMA AutoDestroyStep ==
  ASSUME Types, AutoDestroy
  PROVE  Types' /\ Moved
<1>1. S \in Streams /\ stack # <<>>
  BY Innermost, FrameFields DEF AutoDestroy, Top, S
<1>2. Then(<<>>) \/ Then(<<Call("destroy", S, None)>>)
  BY DEF AutoDestroy
<1>3. Moved /\ stack' \in Seq(Frame(Streams))
  BY <1>1, <1>2, NoCall, OneCall, PlainCalls
<1> QED BY <1>3, TypesKept DEF Types, AutoDestroy, Rest

LEMMA FinishedStep ==
  ASSUME Types, Finished
  PROVE  Types' /\ Moved
<1>1. S \in Streams /\ stack # <<>>
  BY Innermost, FrameFields DEF Finished, Top, S
<1>2. Then(<<Call("destroy", S, None)>>) \/ Then(<<Call("close", S, None)>>)
  BY DEF Finished
<1>3. Moved /\ stack' \in Seq(Frame(Streams))
  BY <1>1, <1>2, OneCall, PlainCalls DEF Bare
<1> QED BY <1>3, TypesKept DEF Types, Finished, Rest

LEMMA DestroyedStep ==
  ASSUME Types, Destroyed
  PROVE  Types' /\ Moved
<1>1. S \in Streams /\ stack # <<>>
  BY Innermost, FrameFields DEF Destroyed, Top, S
<1>2. Then(<<Call("error", S, None), Call("close", S, None)>>) \/ Then(<<Call("close", S, None)>>)
  BY Pairs DEF Destroyed
<1>3. Moved /\ stack' \in Seq(Frame(Streams))
  BY <1>1, <1>2, OneCall, TwoCalls, PlainCalls DEF Bare
<1> QED BY <1>3, TypesKept DEF Types, Destroyed, Rest

LEMMA ReturnStep ==
  ASSUME Types, Return
  PROVE  Types' /\ Moved
<1>1. stack # <<>>
  BY DEF Return, Top
<1>2. Moved /\ stack' \in Seq(Frame(Streams))
  BY <1>1, NoCall DEF Return
<1> QED BY <1>2, TypesKept DEF Types, Return

-----------------------------------------------------------------------------
(* The writable half *)

LEMMA WriteDoes ==
  ASSUME Types, Write
  PROVE  /\ S \in Streams /\ X \in Chunk /\ Top("write") /\ Under(Tail(stack))
         /\ \E h \in WritableHalf :
              /\ wr' = [wr EXCEPT ![S] = h]
              /\ h.failed = wr[S].failed /\ h.sunk = wr[S].sunk /\ h.corked = wr[S].corked
              /\ h.accepted = Append(wr[S].accepted, X)
              /\ \/ /\ Corked(S) /\ Then(<<>>)
                    /\ h.corkBuf = Append(wr[S].corkBuf, X) /\ h.overtaken = wr[S].overtaken
                 \/ /\ ~Corked(S) /\ Then(<<Call("writeNow", S, X)>>)
                    /\ h.corkBuf = wr[S].corkBuf /\ (wr[S].overtaken \/ Flushing(S) => h.overtaken)
<1>1. S \in Streams /\ X \in Chunk /\ stack # <<>> /\ Under(Tail(stack)) /\ Top("write")
  BY Innermost, FrameFields DEF Write, Top, S, X
<1>2. /\ wr \in [Streams -> WritableHalf] /\ wr[S] \in WritableHalf
      /\ wr[S].accepted \in Seq(Chunk) /\ wr[S].corkBuf \in Seq(Chunk)
      /\ wr[S].needDrain \in BOOLEAN /\ wr[S].overtaken \in BOOLEAN
  BY <1>1 DEF Types, WritableHalf
<1>3. PICK a \in Seq(Chunk), b \in Seq(Chunk) : a = Append(wr[S].accepted, X) /\ b = Append(wr[S].corkBuf, X)
  BY <1>1, <1>2, AppendProperties
<1>4. CASE Corked(S)
  <2>1. PICK n \in BOOLEAN : n = (wr[S].needDrain \/ Len(wr[S].corkBuf) + 1 >= HighWater)
    BY <1>2
  <2>2. PICK h : h = [wr[S] EXCEPT !.accepted = a, !.corkBuf = b, !.needDrain = n]
    OBVIOUS
  <2>3. /\ h \in WritableHalf /\ h.failed = wr[S].failed /\ h.sunk = wr[S].sunk /\ h.corked = wr[S].corked
        /\ h.accepted = a /\ h.corkBuf = b /\ h.overtaken = wr[S].overtaken
    BY <1>2, <2>2 DEF WritableHalf
  <2>4. wr' = [wr EXCEPT ![S].accepted = a, ![S].corkBuf = b, ![S].needDrain = n] /\ Then(<<>>)
    BY <1>3, <1>4, <2>1 DEF Write
  <2>5. wr' = [wr EXCEPT ![S] = h]
    BY <1>1, <1>2, <2>2, <2>4
  <2> QED BY <1>1, <1>3, <1>4, <2>3, <2>4, <2>5, Zenon
<1>5. CASE ~Corked(S)
  <2>1. PICK n \in BOOLEAN : n = (wr[S].overtaken \/ Flushing(S))
    BY <1>2
  <2>2. PICK h : h = [wr[S] EXCEPT !.accepted = a, !.overtaken = n]
    OBVIOUS
  <2>3. /\ h \in WritableHalf /\ h.failed = wr[S].failed /\ h.sunk = wr[S].sunk /\ h.corked = wr[S].corked
        /\ h.accepted = a /\ h.corkBuf = wr[S].corkBuf /\ h.overtaken = n
    BY <1>2, <2>2 DEF WritableHalf
  <2>4. wr' = [wr EXCEPT ![S].accepted = a, ![S].overtaken = n] /\ Then(<<Call("writeNow", S, X)>>)
    BY <1>3, <1>5, <2>1 DEF Write
  <2>5. wr' = [wr EXCEPT ![S] = h]
    BY <1>1, <1>2, <2>2, <2>4
  <2>6. wr[S].overtaken \/ Flushing(S) => h.overtaken
    BY <2>1, <2>3
  <2> QED BY <1>1, <1>3, <1>5, <2>3, <2>4, <2>5, <2>6, Zenon
<1> QED BY <1>4, <1>5

LEMMA WritableChanged ==
  ASSUME Types, NEW s \in Streams, NEW h \in WritableHalf, wr' = [wr EXCEPT ![s] = h]
  PROVE  /\ wr' \in [Streams -> WritableHalf]
         /\ wr'[s] = h /\ \A t \in Streams : t # s => wr'[t] = wr[t]
BY DEF Types

LEMMA WriteStep ==
  ASSUME Types, Write
  PROVE  Types' /\ Moved
<1>1. S \in Streams /\ X \in Chunk /\ Under(Tail(stack)) /\ Top("write") /\ stack # <<>>
  BY WriteDoes DEF Top
<1>2. wr' \in [Streams -> WritableHalf] /\ (Then(<<>>) \/ Then(<<Call("writeNow", S, X)>>))
  BY WriteDoes, WritableChanged
<1>3. CASE Then(<<>>)
  BY <1>1, <1>2, <1>3, NoCall, TypesKept DEF Types, Write, Rest
<1>4. CASE Then(<<Call("writeNow", S, X)>>)
  <2> DEFINE f == Call("writeNow", S, X)
  <2>1. f \in Frame(Streams) /\ f.op = "writeNow" /\ f.s = S
    BY <1>1, FrameTypes DEF Call
  <2>2. stack' = <<f>> \o Tail(stack)
    BY <1>4 DEF Then
  <2> HIDE DEF f
  <2>3. Begins(f)
    BY <1>1, <2>1 DEF Begins
  <2>4. Moved /\ stack' \in Seq(Frame(Streams))
    BY <1>1, <2>1, <2>2, <2>3, MoveOne
  <2> QED BY <1>2, <2>4, TypesKept DEF Types, Write, Rest
<1> QED BY <1>2, <1>3, <1>4

LEMMA AwaitedTypes ==
  ASSUME Types, NEW s \in Streams
  PROVE  /\ \A c \in Chunk, k \in {"write", "writev"} : <<k, s, c>> \in Awaited(opts)
         /\ \A c \in Chunk : opts[s].kind = "transform" => <<"transform", s, c>> \in Awaited(opts)
         /\ opts[s].final => <<"final", s, None>> \in Awaited(opts)
         /\ \A x \in {None, "err"} : <<"hook", s, x>> \in Awaited(opts)
<1>1. s \in DOMAIN opts
  BY DEF Streams
<1> QED BY <1>1 DEF Awaited

LEMMA WriteTransformStep ==
  ASSUME Types, WriteTransform
  PROVE  Types' /\ Moved
<1>1. S \in Streams /\ X \in Chunk /\ stack # <<>> /\ Under(Tail(stack))
  BY Innermost, FrameFields DEF WriteTransform, Top, S, X
<1>2. wr \in [Streams -> WritableHalf] /\ wr[S] \in WritableHalf /\ wr[S].accepted \in Seq(Chunk)
  BY <1>1 DEF Types, WritableHalf
<1>3. PICK a \in Seq(Chunk) : a = Append(wr[S].accepted, X)
  BY <1>1, <1>2, AppendProperties
<1>4. wr' = [wr EXCEPT ![S].accepted = a]
  BY <1>3 DEF WriteTransform
<1>5. wr' \in [Streams -> WritableHalf]
  BY <1>1, <1>2, <1>4 DEF WritableHalf
<1>6. CASE opts[S].kind = "transform" /\ opts[S].impl
  <2>1. awaiting' = awaiting \cup {<<"transform", S, X>>} /\ Then(<<User>>)
    BY <1>6 DEF WriteTransform
  <2>2. awaiting' \subseteq Awaited(opts)
    BY <1>1, <1>6, <2>1, AwaitedTypes DEF Types
  <2>3. Moved /\ stack' \in Seq(Frame(Streams))
    BY <1>1, <2>1, OneCall, PlainCalls
  <2> QED BY <1>5, <2>2, <2>3, TypesKept DEF Types, WriteTransform, Rest
<1>7. CASE ~(opts[S].kind = "transform" /\ opts[S].impl)
  <2> DEFINE f == Call("push", S, X)
  <2>1. awaiting' = awaiting /\ stack' = <<f>> \o Tail(stack)
    BY <1>7 DEF WriteTransform, Then
  <2>2. f \in Frame(Streams) /\ f.op = "push" /\ f.s = S
    BY <1>1, FrameTypes DEF Call
  <2> HIDE DEF f
  <2>3. opts[S].kind # "readable"
    BY <1>1 DEF WriteTransform, Class
  <2>4. Begins(f)
    BY <2>2, <2>3 DEF Begins
  <2>5. Moved /\ stack' \in Seq(Frame(Streams))
    BY <1>1, <2>1, <2>2, <2>4, MoveOne
  <2> QED BY <1>5, <2>1, <2>5, TypesKept DEF Types, WriteTransform, Rest
<1> QED BY <1>6, <1>7

LEMMA WriteNowStep ==
  ASSUME Types, WriteNow
  PROVE  Types' /\ Moved
<1>1. S \in Streams /\ X \in Chunk /\ stack # <<>>
  BY Innermost, FrameFields DEF WriteNow, Top, S, X
<1>2. wr \in [Streams -> WritableHalf] /\ wr[S] \in WritableHalf /\ wr[S].sunk \in Seq(Chunk)
  BY <1>1 DEF Types, WritableHalf
<1>3. PICK a \in Seq(Chunk) : a = Append(wr[S].sunk, X)
  BY <1>1, <1>2, AppendProperties
<1>4. wr' = [wr EXCEPT ![S].sunk = a]
  BY <1>3 DEF WriteNow
<1>5. wr' \in [Streams -> WritableHalf]
  BY <1>1, <1>2, <1>4 DEF WritableHalf
<1>6. awaiting' \subseteq Awaited(opts)
  BY <1>1, AwaitedTypes DEF Types, WriteNow
<1>7. Moved /\ stack' \in Seq(Frame(Streams))
  BY <1>1, OneCall, PlainCalls DEF WriteNow
<1> QED BY <1>5, <1>6, <1>7, TypesKept DEF Types, WriteNow, Rest

\* A write that end() makes before what else it calls.
LEMMA WriteThen ==
  ASSUME Types, stack # <<>>, NEW s \in Streams, NEW x \in Chunk,
         NEW g \in Frame(Streams), Plain(g), NEW h \in Frame(Streams), Plain(h),
         Then(<<Call("write", s, x), g, h>>) \/ Then(<<Call("write", s, x), g>>)
  PROVE  Moved /\ stack' \in Seq(Frame(Streams))
<1>1. PICK f \in Frame(Streams) : f = Call("write", s, x)
  BY FrameTypes
<1>2. f.op = "write"
  BY <1>1 DEF Call
<1>3. Begins(f) /\ Begins(g) /\ Begins(h) /\ Under(Tail(stack))
  BY <1>2, OtherCall, Innermost DEF Plain, AtOnce
<1>4. /\ f.op # "drain" /\ g.op # "drain" /\ h.op # "drain"
      /\ g.op \notin AtOnce /\ h.op \notin AtOnce
  BY <1>2 DEF Plain
<1>5. stack' = <<f, g, h>> \o Tail(stack) \/ stack' = <<f, g>> \o Tail(stack)
  BY <1>1 DEF Then
<1>6. CASE stack' = <<f, g, h>> \o Tail(stack)
  BY <1>3, <1>4, <1>6, MoveThree
<1>7. CASE stack' = <<f, g>> \o Tail(stack)
  BY <1>3, <1>4, <1>7, MoveTwo
<1> QED BY <1>5, <1>6, <1>7

LEMMA EndStep ==
  ASSUME Types, End
  PROVE  Types' /\ Moved
<1> DEFINE f == Call("write", S, X)
           g == Call("endUncork", S, None)
           h == Call("ended", S, None)
<1>1. S \in Streams /\ X \in 0..MaxChunks /\ stack # <<>>
  BY Innermost, FrameFields DEF End, Top, S, X
<1>2. \/ Then(<<Call("error", S, None)>>)
      \/ X = NoChunk /\ Then(<<g, h>>)
      \/ X # NoChunk /\ Then(<<f, g, h>>)
  <2>2. <<>> \o <<g, h>> = <<g, h>> /\ <<f>> \o <<g, h>> = <<f, g, h>>
    BY Pairs, Zenon
  <2>3. CASE wr[S].ended
    BY <2>3 DEF End
  <2>4. CASE ~wr[S].ended /\ X = NoChunk
    BY <2>2, <2>4 DEF End
  <2>5. CASE ~wr[S].ended /\ X # NoChunk
    BY <2>2, <2>5 DEF End
  <2> QED BY <2>3, <2>4, <2>5
<1>3. g \in Frame(Streams) /\ Plain(g) /\ h \in Frame(Streams) /\ Plain(h)
  BY <1>1, PlainCalls DEF Bare
<1>4. X # NoChunk => X \in Chunk
  BY <1>1, SetupTypes DEF NoChunk, Chunk, Types
<1>5. Moved /\ stack' \in Seq(Frame(Streams))
  <2>1. CASE Then(<<Call("error", S, None)>>)
    BY <1>1, <2>1, OneCall, PlainCalls DEF Bare
  <2>2. CASE Then(<<g, h>>)
    <3> HIDE DEF g, h
    <3> QED BY <1>1, <1>3, <2>2, TwoCalls
  <2>3. CASE X # NoChunk /\ Then(<<f, g, h>>)
    <3> HIDE DEF g, h
    <3> QED BY <1>1, <1>3, <1>4, <2>3, WriteThen
  <2> QED BY <1>2, <2>1, <2>2, <2>3
<1> QED BY <1>5, TypesKept DEF Types, End, Rest

LEMMA EndTransformStep ==
  ASSUME Types, EndTransform
  PROVE  Types' /\ Moved
<1> DEFINE f == Call("write", S, X)
           g == Call("eof", S, None)
<1>1. S \in Streams /\ X \in 0..MaxChunks /\ stack # <<>>
  BY Innermost, FrameFields DEF EndTransform, Top, S, X
<1>2. \/ X = NoChunk /\ Then(<<g>>)
      \/ X # NoChunk /\ Then(<<f, g>>)
  BY Pairs DEF EndTransform
<1>3. g \in Frame(Streams) /\ Plain(g)
  BY <1>1, PlainCalls DEF Bare
<1>4. X # NoChunk => X \in Chunk
  BY <1>1, SetupTypes DEF NoChunk, Chunk, Types
<1>5. Moved /\ stack' \in Seq(Frame(Streams))
  <2>1. CASE Then(<<g>>)
    <3> HIDE DEF g
    <3> QED BY <1>1, <1>3, <2>1, OneCall
  <2>2. CASE X # NoChunk /\ Then(<<f, g>>)
    <3> HIDE DEF g
    <3> QED BY <1>1, <1>3, <1>4, <2>2, WriteThen
  <2> QED BY <1>2, <2>1, <2>2
<1> QED BY <1>5, TypesKept DEF Types, EndTransform, Rest

LEMMA EndUncorkStep ==
  ASSUME Types, EndUncork
  PROVE  Types' /\ Moved
<1>1. S \in Streams /\ stack # <<>>
  BY Innermost, FrameFields DEF EndUncork, Top, S
<1>2. wr' \in [Streams -> WritableHalf]
  <2>1. wr' = wr \/ wr' = [wr EXCEPT ![S].corked = 1]
    BY DEF EndUncork
  <2>2. wr \in [Streams -> WritableHalf]
    BY DEF Types
  <2>3. CASE wr' = wr
    BY <2>2, <2>3
  <2>4. CASE wr' = [wr EXCEPT ![S].corked = 1]
    <3>1. wr[S] \in WritableHalf /\ [wr[S] EXCEPT !.corked = 1] \in WritableHalf
      BY <1>1, <2>2 DEF WritableHalf
    <3> QED BY <1>1, <2>2, <2>4, <3>1
  <2> QED BY <2>1, <2>3, <2>4
<1>3. Then(<<>>) \/ Then(<<Call("uncork", S, None)>>)
  BY DEF EndUncork
<1>4. Moved /\ stack' \in Seq(Frame(Streams))
  BY <1>1, <1>3, NoCall, OneCall, PlainCalls DEF Bare
<1> QED BY <1>2, <1>4, TypesKept DEF Types, EndUncork, Rest

LEMMA EndedStep ==
  ASSUME Types, Ended
  PROVE  Types' /\ Moved
<1>1. S \in Streams /\ stack # <<>>
  BY Innermost, FrameFields DEF Ended, Top, S
<1>2. wr' \in [Streams -> WritableHalf]
  BY <1>1 DEF Types, Ended, WritableHalf
<1>3. timers' \in Seq(Timer(Streams))
  BY <1>1, ArmOne, TimerTypes DEF Ended, Arm
<1>4. Moved /\ stack' \in Seq(Frame(Streams))
  BY <1>1, NoCall DEF Ended
<1> QED BY <1>2, <1>3, <1>4, TypesKept DEF Types, Ended, Rest

LEMMA FinishingStep ==
  ASSUME Types, Finishing
  PROVE  Types' /\ Moved
<1>1. S \in Streams /\ stack # <<>> /\ Under(Tail(stack))
  BY Innermost, FrameFields DEF Finishing, Top, S
<1>2. awaiting' \subseteq Awaited(opts)
  <2>1. awaiting' = awaiting \/ (awaiting' = awaiting \cup {<<"final", S, None>>} /\ opts[S].final)
    BY DEF Finishing
  <2>2. opts[S].final => <<"final", S, None>> \in Awaited(opts)
    BY <1>1, AwaitedTypes
  <2> QED BY <2>1, <2>2 DEF Types
<1>3. CASE S \in destroyed \/ opts[S].final
  <2>1. Then(<<User>>)
    BY <1>3 DEF Finishing
  <2>2. Moved /\ stack' \in Seq(Frame(Streams))
    BY <1>1, <2>1, OneCall, PlainCalls
  <2> QED BY <1>2, <2>2, TypesKept DEF Types, Finishing, Rest
<1>4. CASE ~(S \in destroyed \/ opts[S].final)
  <2> DEFINE f == Call("finish", S, None)
  <2>1. stack' = <<f>> \o Tail(stack) /\ destroyed' = destroyed
    BY <1>4 DEF Finishing, Then
  <2>2. f \in Frame(Streams) /\ f.op = "finish" /\ f.s = S
    BY <1>1, FrameTypes DEF Call, Bare
  <2> HIDE DEF f
  <2>3. Begins(f)
    BY <1>4, <2>1, <2>2 DEF Begins
  <2>4. Moved /\ stack' \in Seq(Frame(Streams))
    BY <1>1, <2>1, <2>2, <2>3, MoveOne
  <2> QED BY <1>2, <2>4, TypesKept DEF Types, Finishing, Rest
<1> QED BY <1>3, <1>4

LEMMA FinishStep ==
  ASSUME Types, Finish
  PROVE  Types' /\ Moved
<1>1. S \in Streams /\ stack # <<>>
  BY Innermost, FrameFields DEF Finish, Top, S
<1>2. wr' \in [Streams -> WritableHalf]
  BY <1>1 DEF Types, Finish, WritableHalf
<1>3. events' \in [Streams -> Seq(Event)]
  BY <1>1, RecordType DEF Finish, Event
<1>4. Moved /\ stack' \in Seq(Frame(Streams))
  BY <1>1, TwoCalls, PlainCalls DEF Finish, Bare
<1> QED BY <1>2, <1>3, <1>4, TypesKept DEF Types, Finish, Rest

LEMMA UncorkDoes ==
  ASSUME Types, Uncork
  PROVE  /\ S \in Streams /\ Top("uncork") /\ Under(Tail(stack))
         /\ \E h \in WritableHalf :
              /\ wr' = [wr EXCEPT ![S] = h]
              /\ h.failed = wr[S].failed /\ h.accepted = wr[S].accepted
              /\ \/ /\ Then(<<>>) /\ h.sunk = wr[S].sunk /\ h.corkBuf = wr[S].corkBuf
                    /\ h.overtaken = wr[S].overtaken
                    /\ h.corked = wr[S].corked \/ h.corked # 0 \/ wr[S].corkBuf = <<>>
                 \/ /\ h.corkBuf = <<>> /\ (wr[S].overtaken \/ Flushing(S) => h.overtaken)
                    /\ \/ Then(<<User>>) /\ h.sunk = wr[S].sunk \o wr[S].corkBuf
                       \/ Then(<<Call("flush", S, wr[S].corkBuf)>>) /\ h.sunk = wr[S].sunk
<1> DEFINE held == wr[S].corkBuf
<1>1. S \in Streams /\ stack # <<>> /\ Under(Tail(stack)) /\ Top("uncork")
  BY Innermost, FrameFields DEF Uncork, Top, S
<1>2. /\ wr \in [Streams -> WritableHalf] /\ wr[S] \in WritableHalf
      /\ wr[S].corked \in Nat /\ held \in Seq(Chunk) /\ wr[S].sunk \in Seq(Chunk)
      /\ wr[S].overtaken \in BOOLEAN
  BY <1>1 DEF Types, WritableHalf
<1>3. PICK o \in BOOLEAN : o = (wr[S].overtaken \/ Flushing(S))
  BY <1>2
<1>8. PICK none \in Seq(Chunk) : none = <<>>
  BY EmptySeq
<1>4. CASE ~Corked(S)
  <2>1. wr' = wr /\ Then(<<>>)
    BY <1>4 DEF Uncork
  <2>2. wr' = [wr EXCEPT ![S] = wr[S]]
    BY <1>2, <2>1
  <2> QED BY <1>1, <1>2, <2>1, <2>2
<1>5. CASE Corked(S) /\ (wr[S].corked > 1 \/ held = <<>>)
  <2>1. wr' = [wr EXCEPT ![S].corked = @ - 1] /\ Then(<<>>)
    BY <1>5 DEF Uncork
  <2>2. PICK n \in Nat : n = wr[S].corked - 1
    BY <1>2, <1>5 DEF Corked
  <2>3. PICK h : h = [wr[S] EXCEPT !.corked = n]
    OBVIOUS
  <2>4. /\ h \in WritableHalf /\ h.failed = wr[S].failed /\ h.accepted = wr[S].accepted
        /\ h.sunk = wr[S].sunk /\ h.corkBuf = wr[S].corkBuf /\ h.overtaken = wr[S].overtaken /\ h.corked = n
    BY <1>2, <2>3 DEF WritableHalf
  <2>5. wr' = [wr EXCEPT ![S] = h]
    BY <1>1, <1>2, <2>1, <2>2, <2>3
  <2>6. n # 0 \/ held = <<>>
    BY <1>2, <1>5, <2>2
  <2> QED BY <1>1, <2>1, <2>4, <2>5, <2>6, Zenon
<1>6. CASE Corked(S) /\ ~(wr[S].corked > 1 \/ held = <<>>) /\ opts[S].writev /\ Len(held) > 1
  <2>1. PICK k \in Seq(Chunk) : k = wr[S].sunk \o held
    BY <1>2, ConcatFacts
  <2>2. PICK h : h = [wr[S] EXCEPT !.corked = 0, !.corkBuf = none, !.sunk = k, !.overtaken = o]
    OBVIOUS
  <2>3. /\ h \in WritableHalf /\ h.failed = wr[S].failed /\ h.accepted = wr[S].accepted
        /\ h.sunk = k /\ h.corkBuf = none /\ h.overtaken = o
    BY <1>2, <2>2 DEF WritableHalf
  <2>4. /\ wr' = [wr EXCEPT ![S].corked = 0, ![S].corkBuf = none, ![S].sunk = k, ![S].overtaken = o]
        /\ Then(<<User>>)
    <3>1. /\ wr' = [wr EXCEPT ![S].corked = 0, ![S].corkBuf = <<>>, ![S].sunk = @ \o held,
                              ![S].overtaken = @ \/ Flushing(S)]
          /\ Then(<<User>>)
      BY <1>6, Zenon DEF Uncork
    <3> QED BY <1>3, <1>8, <2>1, <3>1
  <2>5. wr' = [wr EXCEPT ![S] = h]
    BY <1>1, <1>2, <2>2, <2>4
  <2>6. wr[S].overtaken \/ Flushing(S) => h.overtaken
    BY <1>3, <2>3
  <2> QED BY <1>1, <1>8, <2>1, <2>3, <2>4, <2>5, <2>6, Zenon
<1>7. CASE Corked(S) /\ ~(wr[S].corked > 1 \/ held = <<>>) /\ ~(opts[S].writev /\ Len(held) > 1)
  <2>2. PICK h : h = [wr[S] EXCEPT !.corked = 0, !.corkBuf = none, !.overtaken = o]
    OBVIOUS
  <2>3. /\ h \in WritableHalf /\ h.failed = wr[S].failed /\ h.accepted = wr[S].accepted
        /\ h.sunk = wr[S].sunk /\ h.corkBuf = none /\ h.overtaken = o
    BY <1>2, <2>2 DEF WritableHalf
  <2>4. /\ wr' = [wr EXCEPT ![S].corked = 0, ![S].corkBuf = none, ![S].overtaken = o]
        /\ Then(<<Call("flush", S, held)>>)
    <3>1. /\ wr' = [wr EXCEPT ![S].corked = 0, ![S].corkBuf = <<>>, ![S].overtaken = @ \/ Flushing(S)]
          /\ Then(<<Call("flush", S, held)>>)
      BY <1>7, Zenon DEF Uncork
    <3> QED BY <1>3, <1>8, <3>1
  <2>5. wr' = [wr EXCEPT ![S] = h]
    BY <1>1, <1>2, <2>2, <2>4
  <2>6. wr[S].overtaken \/ Flushing(S) => h.overtaken
    BY <1>3, <2>3
  <2> QED BY <1>1, <1>8, <2>3, <2>4, <2>5, <2>6, Zenon
<1> QED BY <1>4, <1>5, <1>6, <1>7

LEMMA UncorkStep ==
  ASSUME Types, Uncork
  PROVE  Types' /\ Moved
<1>1. S \in Streams /\ Under(Tail(stack)) /\ Top("uncork") /\ stack # <<>> /\ wr[S].corkBuf \in Seq(Chunk)
  BY UncorkDoes DEF Top, Types, WritableHalf
<1>2. /\ wr' \in [Streams -> WritableHalf]
      /\ Then(<<>>) \/ Then(<<User>>) \/ Then(<<Call("flush", S, wr[S].corkBuf)>>)
  BY UncorkDoes, WritableChanged
<1>3. awaiting' \subseteq Awaited(opts)
  <2>1. awaiting' = awaiting \/ (wr[S].corkBuf # <<>> /\ awaiting' = awaiting \cup {<<"writev", S, Head(wr[S].corkBuf)>>})
    BY Zenon DEF Uncork
  <2>2. wr[S].corkBuf # <<>> => Head(wr[S].corkBuf) \in Chunk
    BY <1>1, HeadTail
  <2>3. CASE awaiting' = awaiting
    BY <2>3 DEF Types
  <2>4. CASE awaiting' # awaiting
    <3>1. PICK c \in Chunk : c = Head(wr[S].corkBuf)
      BY <2>1, <2>2, <2>4
    <3>2. awaiting' = awaiting \cup {<<"writev", S, c>>}
      BY <2>1, <2>4, <3>1
    <3> QED BY <1>1, <3>2, AwaitedTypes DEF Types
  <2> QED BY <2>3, <2>4
<1>4. Moved /\ stack' \in Seq(Frame(Streams))
  <2>1. CASE Then(<<>>)
    BY <1>1, <2>1, NoCall
  <2>2. CASE Then(<<User>>)
    BY <1>1, <2>2, OneCall, PlainCalls
  <2>3. CASE Then(<<Call("flush", S, wr[S].corkBuf)>>)
    <3> DEFINE f == Call("flush", S, wr[S].corkBuf)
    <3>1. f \in Frame(Streams) /\ f.op = "flush" /\ f.s = S
      BY <1>1, FrameTypes DEF Call
    <3>2. stack' = <<f>> \o Tail(stack)
      BY <2>3 DEF Then
    <3> HIDE DEF f
    <3>3. Begins(f)
      BY <1>1, <3>1 DEF Begins
    <3> QED BY <1>1, <3>1, <3>2, <3>3, MoveOne
  <2> QED BY <1>2, <2>1, <2>2, <2>3
<1> QED BY <1>2, <1>3, <1>4, TypesKept DEF Types, Uncork, Rest

LEMMA FlushStep ==
  ASSUME Types, Flush
  PROVE  Types' /\ Moved
<1>1. S \in Streams /\ X \in Seq(Chunk) /\ stack # <<>> /\ Under(Tail(stack)) /\ Top("flush")
  BY Innermost, FrameFields DEF Flush, Top, S, X
<1>2. CASE X = <<>>
  <2>1. Then(<<>>)
    BY <1>2 DEF Flush
  <2> QED BY <1>1, <2>1, NoCall, TypesKept DEF Types, Flush, Rest
<1>3. CASE X # <<>>
  <2> DEFINE f == Call("writeNow", S, Head(X))
             g == Call("flush", S, Tail(X))
  <2>1. stack' = <<f, g>> \o Tail(stack)
    BY <1>3 DEF Flush, Then
  <2>2. PICK c \in Chunk, t \in Seq(Chunk) : c = Head(X) /\ t = Tail(X)
    BY <1>1, <1>3, HeadTail
  <2>3. f = Call("writeNow", S, c) /\ g = Call("flush", S, t)
    BY <2>2
  <2> HIDE DEF f, g
  <2>4. /\ f \in Frame(Streams) /\ f.op = "writeNow" /\ f.s = S
        /\ g \in Frame(Streams) /\ g.op = "flush" /\ g.s = S
    BY <1>1, <2>3, FrameTypes DEF Call
  <2>5. Begins(f) /\ Begins(g) /\ g.op \notin AtOnce
    BY <1>1, <2>4 DEF Begins, AtOnce
  <2>6. Moved /\ stack' \in Seq(Frame(Streams))
    BY <1>1, <2>1, <2>4, <2>5, MoveTwo
  <2> QED BY <2>6, TypesKept DEF Types, Flush, Rest
<1> QED BY <1>2, <1>3

LEMMA DestroyStep ==
  ASSUME Types, Destroy
  PROVE  Types' /\ Moved
<1>1. S \in Streams /\ X \in {None, "err"} /\ stack # <<>>
  BY Innermost, FrameFields DEF Destroy, Top, S, X
<1>2. CASE S \in destroyed
  <2>1. Then(<<>>)
    BY <1>2 DEF Destroy
  <2> QED BY <1>1, <1>2, <2>1, NoCall, TypesKept DEF Types, Destroy, Rest
<1>3. CASE S \notin destroyed
  <2>1. Record(S, "destroy") /\ destroyed' \subseteq Streams /\ errored' \subseteq Streams
    BY <1>1, <1>3 DEF Destroy, Types
  <2>2. events' \in [Streams -> Seq(Event)]
    BY <1>1, <2>1, RecordType DEF Event
  <2>3. CASE opts[S].hook
    <3>1. awaiting' = awaiting \cup {<<"hook", S, X>>} /\ Then(<<User>>) /\ timers' = timers
      BY <1>3, <2>3 DEF Destroy
    <3>2. awaiting' \subseteq Awaited(opts)
      BY <1>1, <3>1, AwaitedTypes DEF Types
    <3>3. Moved /\ stack' \in Seq(Frame(Streams))
      BY <1>1, <3>1, OneCall, PlainCalls
    <3> QED BY <2>1, <2>2, <3>1, <3>2, <3>3, TypesKept DEF Types, Destroy, Rest
  <2>4. CASE ~opts[S].hook
    <3>1. awaiting' = awaiting /\ Then(<<>>) /\ Arm(<<Call("destroyed", S, X)>>)
      BY <1>3, <2>4 DEF Destroy
    <3>2. timers' \in Seq(Timer(Streams))
      BY <1>1, <3>1, ArmOne, TimerTypes DEF Arm
    <3>3. Moved /\ stack' \in Seq(Frame(Streams))
      BY <1>1, <3>1, NoCall
    <3> QED BY <2>1, <2>2, <3>1, <3>2, <3>3, TypesKept DEF Types, Destroy, Rest
  <2> QED BY <2>3, <2>4
<1> QED BY <1>2, <1>3

-----------------------------------------------------------------------------
(* The loop and the program *)

LEMMA FireTimerStep ==
  ASSUME Types, FireTimer
  PROVE  Types' /\ Moved
<1> DEFINE f == Head(timers)
<1>1. f \in Timer(Streams) /\ timers' \in Seq(Timer(Streams)) /\ stack = <<>>
  BY HeadTail DEF FireTimer, Types
<1>2. f \in Frame(Streams) /\ f.op \in {"drain", "finishing", "destroyed"}
  BY <1>1 DEF Timer
<1>3. stack' = <<f>> \o stack
  <2>1. stack' = <<f>>
    BY DEF FireTimer
  <2> QED BY <1>1, <2>1, Pairs, Zenon
<1>4. Under(stack)
  BY <1>1 DEF Under, ProgramRuns, Types
<1> HIDE DEF f
<1>5. Begins(f)
  BY <1>2, OtherCall
<1>6. Moved /\ stack' \in Seq(Frame(Streams))
  BY <1>1, <1>2, <1>3, <1>4, <1>5, MoveOne
<1> QED BY <1>1, <1>6, TypesKept DEF Types, FireTimer, Rest

\* Calls the program makes, or that a callback it calls makes.
LEMMA ProgramCalls ==
  ASSUME Types, ProgramRuns, NEW f \in Frame(Streams), f.op # "drain", Begins(f), stack' = <<f>> \o stack
  PROVE  Moved /\ stack' \in Seq(Frame(Streams))
<1>1. Under(stack)
  BY DEF Under, Types
<1> QED BY <1>1, MoveOne

LEMMA AwaitedFields ==
  ASSUME Types, NEW a \in awaiting
  PROVE  /\ a[2] \in Streams
         /\ a[1] \in {"write", "writev", "transform", "final", "pump", "hook"}
         /\ a[1] \in {"write", "writev", "transform"} => a[3] \in Chunk
         /\ a[1] = "transform" => opts[a[2]].kind = "transform"
         /\ a[1] = "final" => opts[a[2]].final
         /\ a[1] = "hook" => a[3] \in {None, "err"}
<1>1. a \in Awaited(opts)
  BY DEF Types
<1> QED BY <1>1 DEF Awaited, Streams

LEMMA AnswerStep ==
  ASSUME Types, NEW a \in awaiting, NEW err \in BOOLEAN, Answer(a, err)
  PROVE  Types' /\ Moved
<1> DEFINE s == a[2]
<1>1. /\ s \in Streams /\ a[1] \in {"write", "writev", "transform", "final", "hook"}
      /\ a[1] = "transform" => a[3] \in Chunk /\ opts[s].kind = "transform"
      /\ a[1] = "final" => opts[s].final
      /\ a[1] = "hook" => a[3] \in {None, "err"}
  BY AwaitedFields DEF Answer
<1>2. Under(stack) /\ ProgramRuns
  BY DEF Answer, Under, Types
<1>3. wr' \in [Streams -> WritableHalf]
  <2>1. wr \in [Streams -> WritableHalf]
    BY DEF Types
  <2>2. wr' = wr \/ wr' = [wr EXCEPT ![s].failed = TRUE]
    BY DEF Answer
  <2>3. CASE wr' = [wr EXCEPT ![s].failed = TRUE]
    <3>1. [wr[s] EXCEPT !.failed = TRUE] \in WritableHalf
      BY <1>1, <2>1 DEF WritableHalf
    <3> QED BY <1>1, <2>1, <2>3, <3>1
  <2> QED BY <2>1, <2>2, <2>3
<1>4. timers' \in Seq(Timer(Streams))
  <2>1. timers' = timers \/ (a[1] = "hook" /\ Arm(<<Call("destroyed", s, IF err THEN "err" ELSE a[3])>>))
    BY DEF Answer
  <2>2. PICK x : x = IF err THEN "err" ELSE a[3]
    OBVIOUS
  <2>3. CASE timers' = timers
    BY <2>3 DEF Types
  <2>4. CASE a[1] = "hook" /\ Arm(<<Call("destroyed", s, x)>>)
    <3>1. Call("destroyed", s, x) \in Timer(Streams)
      BY <1>1, <2>2, <2>4, TimerTypes
    <3> QED BY <2>4, <3>1, ArmOne DEF Arm
  <2> QED BY <2>1, <2>2, <2>3, <2>4
<1>5. Moved /\ stack' \in Seq(Frame(Streams))
  <2>1. CASE a[1] = "write"
    <3>1. stack' = (<<User>> \o (IF err THEN <<Call("failWrite", s, None)>> ELSE <<>>)) \o stack
      BY <2>1, Zenon DEF Answer
    <3>2. stack' = <<User>> \o stack \/ stack' = <<User, Call("failWrite", s, None)>> \o stack
      BY <3>1, Pairs
    <3>3. PICK f \in Frame(Streams), g \in Frame(Streams) :
            f = User /\ g = Call("failWrite", s, None) /\ Plain(f) /\ Plain(g)
      BY <1>1, PlainCalls DEF Bare
    <3>4. f.op # "drain" /\ g.op # "drain" /\ g.op \notin AtOnce /\ Begins(f) /\ Begins(g)
      BY <3>3, OtherCall DEF Plain, AtOnce
    <3>5. stack' = <<f>> \o stack \/ stack' = <<f, g>> \o stack
      BY <3>2, <3>3
    <3>6. CASE stack' = <<f>> \o stack
      BY <1>2, <3>4, <3>6, MoveOne
    <3>7. CASE stack' = <<f, g>> \o stack
      BY <1>2, <3>4, <3>7, MoveTwo
    <3> QED BY <3>5, <3>6, <3>7
  <2>2. CASE a[1] = "writev"
    <3>1. stack' = <<User>> \o stack
      BY <2>2 DEF Answer
    <3>2. PICK f \in Frame(Streams) : f = User /\ Plain(f)
      BY <1>1, PlainCalls
    <3>3. f.op # "drain" /\ Begins(f)
      BY <3>2, OtherCall DEF Plain, AtOnce
    <3> QED BY <1>2, <3>1, <3>2, <3>3, ProgramCalls
  <2>3. CASE a[1] = "transform"
    <3>1. stack' = <<>> \o stack \/ stack' = <<Call("push", s, a[3])>> \o stack
      BY <2>3 DEF Answer
    <3>2. PICK f \in Frame(Streams) : f = Call("push", s, a[3])
      BY <1>1, <2>3, FrameTypes
    <3>3. f.op = "push" /\ f.s = s
      BY <3>2 DEF Call
    <3>4. f.op # "drain" /\ Begins(f)
      BY <1>1, <2>3, <3>3 DEF Begins
    <3>5. stack' = <<>> \o stack \/ stack' = <<f>> \o stack
      BY <3>1, <3>2
    <3> QED BY <1>2, <3>4, <3>5, ProgramCalls, MoveNone
  <2>4. CASE a[1] = "final"
    <3>1. stack' = <<Call(IF err THEN "error" ELSE "finish", s, None)>> \o stack
      BY <2>4 DEF Answer
    <3>2. PICK f \in Frame(Streams) : f = Call(IF err THEN "error" ELSE "finish", s, None)
      BY <1>1, FrameTypes DEF Bare
    <3>3. f.op \in {"error", "finish"} /\ f.s = s
      BY <3>2 DEF Call
    <3>4. f.op # "drain" /\ Begins(f)
      BY <1>1, <2>4, <3>3 DEF Begins
    <3>5. stack' = <<f>> \o stack
      BY <3>1, <3>2
    <3> QED BY <1>2, <3>4, <3>5, ProgramCalls
  <2>5. CASE a[1] = "hook"
    <3>1. stack' = <<>> \o stack
      BY <2>5 DEF Answer
    <3> QED BY <1>2, <3>1, MoveNone
  <2> QED BY <1>1, <2>1, <2>2, <2>3, <2>4, <2>5
<1>6. awaiting' \subseteq Awaited(opts)
  BY DEF Answer, Types
<1> QED BY <1>3, <1>4, <1>5, <1>6, TypesKept DEF Types, Answer, Rest

\* The chunk a program makes.
LEMMA NextChunk ==
  ASSUME Types, made < MaxChunks, made' = made + 1
  PROVE  made' \in 0..MaxChunks /\ made' \in Chunk /\ made < made'
BY SetupTypes DEF Types, Chunk

LEMMA PumpStep ==
  ASSUME Types, NEW a \in awaiting, Pump(a)
  PROVE  Types' /\ Moved
<1>1. a[2] \in Streams /\ ProgramRuns /\ stack = <<>>
  BY AwaitedFields DEF Pump, ProgramRuns
<1>2. awaiting' \subseteq Awaited(opts)
  BY DEF Pump, Types
<1>3. CASE made < MaxChunks /\ made' = made + 1 /\ stack' = <<Call("push", a[2], made')>>
  <2>1. made' \in 0..MaxChunks /\ made' \in Chunk /\ made < made'
    BY <1>3, NextChunk
  <2>2. PICK f \in Frame(Streams) : f = Call("push", a[2], made')
    BY <1>1, <2>1, FrameTypes
  <2>3. f.op = "push" /\ f.x = made'
    BY <2>2 DEF Call
  <2>4. f.op # "drain" /\ Begins(f)
    BY <2>1, <2>3 DEF Begins
  <2>5. stack' = <<f>> \o stack
    <3>1. <<f>> \o <<>> = <<f>>
      BY Pairs, Zenon
    <3> QED BY <1>1, <1>3, <2>2, <3>1
  <2>6. Moved /\ stack' \in Seq(Frame(Streams))
    BY <1>1, <2>4, <2>5, ProgramCalls
  <2> QED BY <1>2, <2>1, <2>6, TypesKept DEF Types, Pump
<1>4. CASE (\E end \in {"eof", "error"} : stack' = <<Call(end, a[2], None)>>) /\ made' = made
  <2>1. PICK end \in {"eof", "error"} : stack' = <<Call(end, a[2], None)>>
    BY <1>4
  <2>2. PICK f \in Frame(Streams) : f = Call(end, a[2], None)
    BY <1>1, FrameTypes DEF Bare
  <2>3. f.op \in {"eof", "error"}
    BY <2>2 DEF Call
  <2>4. f.op # "drain" /\ Begins(f)
    BY <2>3, OtherCall
  <2>5. stack' = <<f>> \o stack
    <3>1. <<f>> \o <<>> = <<f>>
      BY Pairs, Zenon
    <3> QED BY <1>1, <2>1, <2>2, <3>1
  <2>6. Moved /\ stack' \in Seq(Frame(Streams))
    BY <1>1, <2>4, <2>5, ProgramCalls
  <2> QED BY <1>2, <1>4, <2>6, TypesKept DEF Types, Pump
<1> QED BY <1>3, <1>4 DEF Pump

\* An operation counts among those of the program.
LEMMA OpsTypes ==
  ASSUME Types, NEW op, Starts(op)
  PROVE  ops' \in 0..setup.max /\ ProgramRuns
BY SetupTypes DEF Types, Starts

LEMMA CallWithChunkStep ==
  ASSUME Types, CallWithChunk
  PROVE  Types' /\ Moved
<1>1. made' \in 0..MaxChunks /\ made' \in Chunk /\ made < made'
  BY NextChunk DEF CallWithChunk
<1>2. PICK op \in {"push", "write", "end"}, s \in Streams :
        Starts(op) /\ stack' = <<Call(op, s, made')>> \o stack
  BY DEF CallWithChunk, Readables, Writables
<1>3. PICK f \in Frame(Streams) : f = Call(op, s, made')
  BY <1>1, FrameTypes
<1>4. f.op = op /\ f.x = made'
  BY <1>3 DEF Call
<1>5. f.op # "drain" /\ Begins(f)
  BY <1>1, <1>4 DEF Begins
<1>6. ops' \in 0..setup.max /\ ProgramRuns
  BY <1>2, OpsTypes
<1>7. Moved /\ stack' \in Seq(Frame(Streams))
  BY <1>2, <1>3, <1>5, <1>6, ProgramCalls
<1> QED BY <1>1, <1>6, <1>7, TypesKept DEF Types, CallWithChunk

LEMMA CallPlainStep ==
  ASSUME Types, CallPlain
  PROVE  Types' /\ Moved
<1>1. PICK op \in {"eof", "end", "uncork", "destroy"}, s \in Streams, x \in {None, NoChunk, "err"} :
        /\ Starts(op) /\ stack' = <<Call(op, s, x)>> \o stack
        /\ op \in {"eof", "uncork"} => x = None
        /\ op = "end" => x = NoChunk
        /\ op = "destroy" => x \in {None, "err"}
  BY DEF CallPlain, Readables, Writables, Corkables
<1>2. NoChunk \in 0..MaxChunks
  BY SetupTypes DEF Types, NoChunk
<1>3. PICK f \in Frame(Streams) : f = Call(op, s, x)
  BY <1>1, <1>2, FrameTypes DEF Bare
<1>4. f.op = op
  BY <1>3 DEF Call
<1>5. f.op # "drain" /\ Begins(f)
  BY <1>4, OtherCall
<1>6. ops' \in 0..setup.max /\ ProgramRuns
  BY <1>1, OpsTypes
<1>7. Moved /\ stack' \in Seq(Frame(Streams))
  BY <1>1, <1>3, <1>5, <1>6, ProgramCalls
<1> QED BY <1>6, <1>7, TypesKept DEF Types, CallPlain

LEMMA SameStack ==
  ASSUME Types, ProgramRuns, stack' = stack
  PROVE  Moved /\ stack' \in Seq(Frame(Streams))
<1>1. Under(stack)
  BY DEF Under, Types
<1>2. stack' = <<>> \o stack
  BY ConcatEmptySeq DEF Types
<1> QED BY <1>1, <1>2, MoveNone

LEMMA CorkStep ==
  ASSUME Types, NEW d \in Streams, Cork(d)
  PROVE  Types' /\ Moved
<1>1. wr' \in [Streams -> WritableHalf]
  <2>1. wr \in [Streams -> WritableHalf] /\ wr' = [wr EXCEPT ![d].corked = @ + 1]
    BY DEF Types, Cork
  <2>2. wr[d].corked + 1 \in Nat
    BY <2>1 DEF WritableHalf
  <2>3. PICK k \in Nat : k = wr[d].corked + 1
    BY <2>2
  <2>4. [wr[d] EXCEPT !.corked = k] \in WritableHalf
    BY <2>1 DEF WritableHalf
  <2> QED BY <2>1, <2>3, <2>4
<1>2. ops' \in 0..setup.max /\ ProgramRuns
  BY OpsTypes DEF Cork
<1>3. Moved /\ stack' \in Seq(Frame(Streams))
  BY <1>2, SameStack DEF Cork
<1> QED BY <1>1, <1>2, <1>3, TypesKept DEF Types, Cork

LEMMA ReadableChanged ==
  ASSUME Types, NEW s \in Streams, NEW h \in ReadableHalf(Streams), rd' = [rd EXCEPT ![s] = h]
  PROVE  rd' \in [Streams -> ReadableHalf(Streams)]
BY DEF Types

LEMMA ListenersType ==
  ASSUME Types, NEW s \in Streams, NEW l \in Streams \cup {"user"}
  PROVE  Append(rd[s].listeners, l) \in Seq(Streams \cup {"user"})
<1>1. rd[s].listeners \in Seq(Streams \cup {"user"})
  BY DEF Types, ReadableHalf
<1> QED BY <1>1, AppendProperties

LEMMA CallReadableStep ==
  ASSUME Types, NEW s \in Streams, CallReadable(s)
  PROVE  Types' /\ Moved
<1>1. rd \in [Streams -> ReadableHalf(Streams)] /\ rd[s] \in ReadableHalf(Streams)
  BY DEF Types
<1>2. ops' \in 0..setup.max /\ ProgramRuns
  BY OpsTypes DEF CallReadable
<1>3. Moved /\ stack' \in Seq(Frame(Streams))
  BY <1>2, SameStack DEF CallReadable
<1>4. DrainTimer(s) \in Timer(Streams)
  BY TimerTypes
<1>5. CASE Listen(s) /\ linked' = linked
  <2>1. PICK l \in Seq(Streams \cup {"user"}) : l = Append(rd[s].listeners, "user")
    BY ListenersType
  <2>2. PICK h : h = [rd[s] EXCEPT !.listeners = l, !.flowing = "yes"]
    OBVIOUS
  <2>3. h \in ReadableHalf(Streams)
    BY <1>1, <2>2 DEF ReadableHalf
  <2>4. rd' = [rd EXCEPT ![s].listeners = l, ![s].flowing = "yes"]
    BY <1>5, <2>1 DEF Listen
  <2>5. rd' = [rd EXCEPT ![s] = h]
    BY <1>1, <2>2, <2>4
  <2>6. rd' \in [Streams -> ReadableHalf(Streams)]
    BY <2>3, <2>5, ReadableChanged
  <2>7. timers' \in Seq(Timer(Streams))
    BY <1>4, <1>5, ArmOne DEF Listen, Arm
  <2> QED BY <1>2, <1>3, <1>5, <2>6, <2>7, TypesKept DEF Types, CallReadable
<1>6. CASE Resume(s) /\ linked' = linked
  <2>1. [rd[s] EXCEPT !.flowing = "yes"] \in ReadableHalf(Streams)
    BY <1>1 DEF ReadableHalf
  <2>2. rd' \in [Streams -> ReadableHalf(Streams)]
    BY <1>6, <2>1, ReadableChanged DEF Resume
  <2>3. timers' \in Seq(Timer(Streams))
    BY <1>4, <1>6, ArmOne DEF Resume, Arm
  <2> QED BY <1>2, <1>3, <1>6, <2>2, <2>3, TypesKept DEF Types, CallReadable
<1>7. CASE Pause(s) /\ linked' = linked
  <2>1. [rd[s] EXCEPT !.flowing = "no"] \in ReadableHalf(Streams)
    BY <1>1 DEF ReadableHalf
  <2>2. rd' \in [Streams -> ReadableHalf(Streams)]
    BY <1>7, <2>1, ReadableChanged DEF Pause
  <2> QED BY <1>2, <1>3, <1>7, <2>2, TypesKept DEF Types, CallReadable, Pause
<1>8. CASE Read(s) /\ linked' = linked
  <2>1. rd[s].chunks \in Seq(Chunk) /\ rd[s].chunks # <<>>
    BY <1>1, <1>8 DEF ReadableHalf, Read
  <2>2. PICK c \in Seq(Chunk) : c = Tail(rd[s].chunks)
    BY <2>1, HeadTail
  <2>3. [rd[s] EXCEPT !.chunks = c] \in ReadableHalf(Streams)
    BY <1>1 DEF ReadableHalf
  <2>4. rd' = [rd EXCEPT ![s].chunks = c]
    BY <1>8, <2>2 DEF Read
  <2>5. rd' \in [Streams -> ReadableHalf(Streams)]
    BY <2>3, <2>4, ReadableChanged
  <2> QED BY <1>2, <1>3, <1>8, <2>5, TypesKept DEF Types, CallReadable, Read
<1>9. ASSUME NEW d \in Streams, Pipe(s, d)
      PROVE  Types' /\ Moved
  <2>1. PICK l \in Seq(Streams \cup {"user"}) : l = Append(rd[s].listeners, d)
    BY ListenersType
  <2>2. PICK h : h = [rd[s] EXCEPT !.listeners = l, !.flowing = "yes"]
    OBVIOUS
  <2>3. h \in ReadableHalf(Streams)
    BY <1>1, <2>2 DEF ReadableHalf
  <2>4. rd' = [rd EXCEPT ![s].listeners = l, ![s].flowing = "yes"]
    BY <1>9, <2>1 DEF Pipe
  <2>5. rd' = [rd EXCEPT ![s] = h]
    BY <1>1, <2>2, <2>4
  <2>6. rd' \in [Streams -> ReadableHalf(Streams)]
    BY <2>3, <2>5, ReadableChanged
  <2>7. timers' \in Seq(Timer(Streams))
    <3>1. PICK two : two = <<DrainTimer(s), DrainTimer(s)>>
      OBVIOUS
    <3>2. two \in Seq(Timer(Streams)) /\ timers \in Seq(Timer(Streams)) /\ timers' = timers \o two
      BY <1>4, <1>9, <3>1 DEF Types, Pipe, Arm
    <3> QED BY <3>2, ConcatFacts
  <2>8. linked' \subseteq Streams \X Streams
    BY <1>9 DEF Pipe, Types
  <2> QED BY <1>2, <1>3, <2>6, <2>7, <2>8, TypesKept DEF Types, CallReadable
<1>10. ASSUME NEW d \in Streams, Unpipe(s, d)
       PROVE  Types' /\ Moved
  <2>1. rd[s].listeners \in Seq(Streams \cup {"user"})
    BY <1>1 DEF ReadableHalf
  <2>2. PICK l \in Seq(Streams \cup {"user"}) : l = Without(rd[s].listeners, d)
    BY <2>1, WithoutFacts
  <2>3. [rd[s] EXCEPT !.listeners = l] \in ReadableHalf(Streams)
    BY <1>1 DEF ReadableHalf
  <2>4. rd' = [rd EXCEPT ![s].listeners = l]
    BY <1>10, <2>2 DEF Unpipe
  <2>5. rd' \in [Streams -> ReadableHalf(Streams)]
    BY <2>3, <2>4, ReadableChanged
  <2>6. linked' \subseteq Streams \X Streams
    BY <1>10 DEF Unpipe, Types
  <2> QED BY <1>2, <1>3, <1>10, <2>5, <2>6, TypesKept DEF Types, CallReadable, Unpipe
<1> QED BY <1>5, <1>6, <1>7, <1>8, <1>9, <1>10 DEF CallReadable, Writables

\* The places a stream has in the path of the pipeline, and what it is piped to.
Feeds(s) == { i \in 1..Len(setup.path) - 1 : setup.path[i] = s }
FedTo(s) == setup.path[1 + CHOOSE i \in Feeds(s) : TRUE]
Laid == { << s, FedTo(s) >> : s \in { t \in Range(setup.path) : Feeds(t) # {} /\ rd[t].delivered = <<>> } }

LEMMA PipelineDoes ==
  ASSUME Pipeline
  PROVE  /\ Starts("pipeline")
         /\ rd' = [s \in Streams |->
                     IF Feeds(s) = {} THEN rd[s]
                     ELSE [rd[s] EXCEPT !.listeners = Append(@, FedTo(s)), !.flowing = "yes"]]
         /\ linked' = linked \cup Laid
         /\ timers' = timers \o [i \in 1..2 * (Len(setup.path) - 1) |-> DrainTimer(setup.path[(i + 1) \div 2])]
         /\ UNCHANGED << setup, wr, destroyed, errored, stack, awaiting, events, made >>
BY Zenon DEF Pipeline, Feeds, FedTo, Laid, Arm

LEMMA PathFacts ==
  ASSUME Types, Starts("pipeline")
  PROVE  /\ Len(setup.path) \in Nat \ {0}
         /\ \A i \in 1..Len(setup.path) : setup.path[i] \in Streams
         /\ Range(setup.path) \subseteq Streams
         /\ \A s : Feeds(s) # {} => FedTo(s) \in Streams
<1>1. setup.path \in Seq(Names) /\ setup.path # <<>> /\ Range(setup.path) \subseteq Streams
  BY SetupTypes DEF Types, Starts
<1>2. Len(setup.path) \in Nat \ {0} /\ DOMAIN setup.path = 1..Len(setup.path)
  BY <1>1, EmptySeq
<1>3. \A i \in 1..Len(setup.path) : setup.path[i] \in Streams
  BY <1>1, <1>2 DEF Range
<1>4. ASSUME NEW s, Feeds(s) # {}
      PROVE  FedTo(s) \in Streams
  <2>1. PICK i : i = CHOOSE j \in Feeds(s) : TRUE
    OBVIOUS
  <2>2. i \in Feeds(s)
    BY <1>4, <2>1
  <2>3. 1 + i \in 1..Len(setup.path)
    BY <1>2, <2>2 DEF Feeds
  <2> QED BY <1>3, <2>1, <2>3 DEF FedTo
<1> QED BY <1>1, <1>2, <1>3, <1>4

LEMMA PipelineStep ==
  ASSUME Types, Pipeline
  PROVE  Types' /\ Moved
<1>1. /\ Len(setup.path) \in Nat \ {0}
      /\ \A i \in 1..Len(setup.path) : setup.path[i] \in Streams
      /\ Range(setup.path) \subseteq Streams
      /\ \A s : Feeds(s) # {} => FedTo(s) \in Streams
  BY PipelineDoes, PathFacts
<1>2. ops' \in 0..setup.max /\ ProgramRuns
  BY PipelineDoes, OpsTypes
<1>3. Moved /\ stack' \in Seq(Frame(Streams))
  BY <1>2, PipelineDoes, SameStack
<1>4. rd \in [Streams -> ReadableHalf(Streams)]
  BY DEF Types
<1>5. rd' \in [Streams -> ReadableHalf(Streams)]
  <2> DEFINE h(s) == [rd[s] EXCEPT !.listeners = Append(@, FedTo(s)), !.flowing = "yes"]
  <2>1. ASSUME NEW s \in Streams, Feeds(s) # {}
        PROVE  h(s) \in ReadableHalf(Streams)
    <3>1. PICK l \in Seq(Streams \cup {"user"}) : l = Append(rd[s].listeners, FedTo(s))
      BY <1>1, <2>1, ListenersType
    <3>2. [rd[s] EXCEPT !.listeners = l, !.flowing = "yes"] \in ReadableHalf(Streams)
      BY <1>4, <2>1 DEF ReadableHalf
    <3> QED BY <3>1, <3>2
  <2>2. rd' = [s \in Streams |-> IF Feeds(s) = {} THEN rd[s] ELSE h(s)]
    BY PipelineDoes, Zenon
  <2> HIDE DEF h
  <2> QED BY <1>4, <2>1, <2>2
<1>6. timers' \in Seq(Timer(Streams))
  <2>1. PICK m \in Nat : m = Len(setup.path) - 1
    BY <1>1
  <2>2. PICK new : new = [i \in 1..2 * m |-> DrainTimer(setup.path[(i + 1) \div 2])]
    OBVIOUS
  <2>3. ASSUME NEW i \in 1..2 * m
        PROVE  DrainTimer(setup.path[(i + 1) \div 2]) \in Timer(Streams)
    <3>1. (i + 1) \div 2 \in 1..Len(setup.path)
      BY <1>1, <2>1
    <3>2. PICK s \in Streams : s = setup.path[(i + 1) \div 2]
      BY <1>1, <3>1
    <3> QED BY <3>2, TimerTypes
  <2>4. 2 * m \in Nat
    OBVIOUS
  <2>5. new \in Seq(Timer(Streams))
    BY <2>2, <2>3, <2>4
  <2>6. timers' = timers \o new /\ timers \in Seq(Timer(Streams))
    BY <2>1, <2>2, PipelineDoes DEF Types
  <2> QED BY <2>5, <2>6, ConcatFacts
<1>7. linked' \subseteq Streams \X Streams
  <2>1. Laid \subseteq Streams \X Streams
    BY <1>1 DEF Laid
  <2> QED BY <2>1, PipelineDoes DEF Types
<1> QED BY <1>2, <1>3, <1>5, <1>6, <1>7, PipelineDoes, TypesKept DEF Types

-----------------------------------------------------------------------------
(* Every step *)

\* A call carried out at once is the innermost; a drain, which only the loop begins, is the
\* outermost.
StackInv ==
  \A i \in 1..Len(stack) : /\ stack[i].op \in AtOnce => i = 1
                           /\ stack[i].op = "drain" => i = Len(stack)

\* A call to be carried out at once has just begun.
NewTop == stack' # <<>> /\ Head(stack').op \in AtOnce => Begins(Head(stack'))

LEMMA RestFacts ==
  ASSUME Types, StackInv, NEW rest, Under(rest)
  PROVE  /\ Len(rest) \in Nat
         /\ \A i \in 1..Len(rest) : /\ rest[i].op \notin AtOnce
                                    /\ rest[i].op = "drain" => i = Len(rest)
<1>1. stack \in Seq(Frame(Streams)) /\ Len(stack) \in Nat /\ rest \in Seq(Frame(Streams))
  BY DEF Types, Under
<1>2. CASE rest = stack /\ ProgramRuns
  <2>1. \A i \in 1..Len(stack) : stack[i].op \in AtOnce => FALSE
    <3> SUFFICES ASSUME NEW i \in 1..Len(stack), stack[i].op \in AtOnce
                 PROVE  FALSE
      OBVIOUS
    <3>1. i = 1 /\ stack # <<>>
      BY <1>1 DEF StackInv
    <3>2. Head(stack).op = "user" /\ Head(stack) = stack[1]
      BY <1>1, <1>2, <3>1, HeadTail DEF ProgramRuns, Top
    <3> QED BY <3>1, <3>2 DEF AtOnce
  <2> QED BY <1>1, <1>2, <2>1 DEF StackInv
<1>3. CASE stack # <<>> /\ rest = Tail(stack)
  <2>1. Len(rest) = Len(stack) - 1 /\ \A i \in 1..(Len(stack) - 1) : rest[i] = stack[i + 1]
    BY <1>1, <1>3, HeadTail
  <2>2. Len(stack) \in Nat \ {0}
    BY <1>1, <1>3, HeadTail
  <2>3. \A i \in 1..Len(rest) : i + 1 \in 1..Len(stack) /\ i + 1 # 1 /\ (i + 1 = Len(stack) => i = Len(rest))
    BY <2>1, <2>2
  <2> QED BY <2>1, <2>2, <2>3 DEF StackInv
<1> QED BY <1>2, <1>3 DEF Under

LEMMA MovedStack ==
  ASSUME Types, StackInv, Moved
  PROVE  StackInv' /\ NewTop
<1>1. PICK new \in Seq(Frame(Streams)), rest \in Seq(Frame(Streams)) : Moves(new, rest)
  BY DEF Moved
<1>2. Under(rest)
  BY <1>1 DEF Moves, Under
<1>3. /\ Len(rest) \in Nat
      /\ \A i \in 1..Len(rest) : rest[i].op \notin AtOnce /\ (rest[i].op = "drain" => i = Len(rest))
  BY <1>2, RestFacts
<1>4. PICK q : q = new \o rest
  OBVIOUS
<1>5. /\ q \in Seq(Frame(Streams)) /\ Len(new) \in Nat /\ Len(q) = Len(new) + Len(rest)
      /\ \A i \in 1..Len(new) : q[i] = new[i]
      /\ \A i \in 1..Len(rest) : q[Len(new) + i] = rest[i]
  BY <1>4, ConcatFacts
<1>6. stack' = q
  BY <1>1, <1>4 DEF Moves
<1>7. \A i \in 1..Len(new) : /\ new[i].op \in AtOnce => i = 1
                             /\ new[i].op = "drain" => i = Len(new) /\ rest = <<>>
  BY <1>1 DEF Moves
<1>8. ASSUME NEW i \in 1..Len(q)
      PROVE  (q[i].op \in AtOnce => i = 1) /\ (q[i].op = "drain" => i = Len(q))
  <2>1. CASE i \in 1..Len(new)
    <3>1. rest = <<>> => Len(rest) = 0
      BY EmptySeq
    <3> QED BY <1>5, <1>7, <2>1, <3>1
  <2>2. CASE i \notin 1..Len(new)
    <3>1. i - Len(new) \in 1..Len(rest) /\ Len(new) + (i - Len(new)) = i
      BY <1>3, <1>5, <2>2
    <3>2. q[i] = rest[i - Len(new)]
      BY <1>5, <3>1
    <3> QED BY <1>3, <1>5, <3>1, <3>2
  <2> QED BY <2>1, <2>2
<1>9. StackInv'
  BY <1>6, <1>8 DEF StackInv
<1>10. ASSUME q # <<>>, Head(q).op \in AtOnce
       PROVE  Begins(Head(q))
  <2>1. Head(q) = q[1] /\ Len(q) \in Nat \ {0}
    BY <1>5, <1>10, HeadTail
  <2>2. CASE Len(new) = 0
    <3>1. 1 \in 1..Len(rest) /\ Len(new) + 1 = 1
      BY <1>3, <1>5, <2>1, <2>2
    <3>2. q[1] = rest[1]
      BY <1>5, <3>1
    <3> QED BY <1>3, <1>10, <2>1, <3>1, <3>2
  <2>3. CASE Len(new) # 0
    <3>1. 1 \in 1..Len(new)
      BY <1>5, <2>3
    <3>2. Head(q) = new[1]
      BY <1>5, <2>1, <3>1
    <3>3. new[1] \in Range(new)
      BY <3>1 DEF Range
    <3> QED BY <1>1, <3>2, <3>3 DEF Moves
  <2> QED BY <2>2, <2>3
<1>11. NewTop
  BY <1>6, <1>10 DEF NewTop
<1> QED BY <1>9, <1>11

\* Where the frames under the innermost stay.
LEMMA MovedFrames ==
  ASSUME Types, Moved, NEW f \in Range(stack)
  PROVE  f \in Range(stack') \/ (stack # <<>> /\ ~ProgramRuns /\ f = Head(stack)) \/ f = User
<1>1. PICK new \in Seq(Frame(Streams)), rest \in Seq(Frame(Streams)) : Moves(new, rest)
  BY DEF Moved
<1>2. stack' = new \o rest
  BY <1>1 DEF Moves
<1>3. Range(stack') = Range(new) \cup Range(rest)
  BY <1>2, RangeConcat
<1>4. CASE rest = stack
  BY <1>3, <1>4
<1>5. CASE stack # <<>> /\ rest = Tail(stack)
  <2>1. stack \in Seq(Frame(Streams))
    BY DEF Types
  <2>2. f = Head(stack) \/ f \in Range(rest)
    BY <1>5, <2>1, HeadTail
  <2>3. ProgramRuns => Head(stack) = User
    <3>1. Head(stack) \in Frame(Streams)
      BY <1>5, <2>1, HeadTail
    <3> QED BY <1>5, <3>1, FrameFields DEF ProgramRuns, Top
  <2> QED BY <1>3, <1>5, <2>2, <2>3
<1> QED BY <1>1, <1>4, <1>5 DEF Moves

\* The callback of a drain stands alone when it goes on.
LEMMA DrainAlone ==
  ASSUME Types, StackInv, Top("drain")
  PROVE  Len(stack) = 1 /\ Tail(stack) = <<>> /\ Range(stack) = {Head(stack)}
<1>1. stack \in Seq(Frame(Streams)) /\ stack # <<>>
  BY DEF Types, Top
<1>2. /\ Len(stack) \in Nat \ {0} /\ Head(stack) = stack[1] /\ Tail(stack) \in Seq(Frame(Streams))
      /\ Len(Tail(stack)) = Len(stack) - 1 /\ Range(stack) = {Head(stack)} \cup Range(Tail(stack))
  BY <1>1, HeadTail
<1>3. 1 \in 1..Len(stack) /\ stack[1].op = "drain"
  BY <1>2 DEF Top
<1>4. Len(stack) = 1
  BY <1>3 DEF StackInv
<1>5. Tail(stack) = <<>>
  <2>1. PICK rest \in Seq(Frame(Streams)) : rest = Tail(stack)
    BY <1>2
  <2>2. Len(rest) = 0
    BY <1>2, <1>4, <2>1
  <2>3. rest # <<>> => Len(rest) \in Nat \ {0}
    BY EmptySeq
  <2> QED BY <2>1, <2>2, <2>3
<1>6. Range(<<>>) = {}
  BY DEF Range
<1> QED BY <1>2, <1>4, <1>5, <1>6

LEMMA LibraryStep ==
  ASSUME Types, StackInv, Library
  PROVE  Types' /\ Moved
<1>1. CASE PushChunk \/ PushNull \/ DrainEnds \/ EmitNext \/ EmitClose \/ EmitError
  BY <1>1, PushChunkStep, PushNullStep, DrainEndsStep, EmitNextStep, EmitCloseStep, EmitErrorStep
<1>2. CASE DrainLoop
  <2>1. Top("drain") => Tail(stack) = <<>>
    BY DrainAlone
  <2> QED BY <1>2, <2>1, DrainLoopStep
<1>3. CASE Write \/ WriteTransform \/ WriteNow \/ FailWrite \/ AutoDestroy
  BY <1>3, WriteStep, WriteTransformStep, WriteNowStep, FailWriteStep, AutoDestroyStep
<1>4. CASE End \/ EndUncork \/ Ended \/ EndTransform \/ Finishing \/ Finish \/ Finished
  BY <1>4, EndStep, EndUncorkStep, EndedStep, EndTransformStep, FinishingStep, FinishStep, FinishedStep
<1>5. CASE Uncork \/ Flush \/ Destroy \/ Destroyed
  BY <1>5, UncorkStep, FlushStep, DestroyStep, DestroyedStep
<1> QED BY <1>1, <1>2, <1>3, <1>4, <1>5 DEF Library

LEMMA ProgramStep ==
  ASSUME Types, Program
  PROVE  Types' /\ Moved
<1>1. ASSUME NEW s \in Readables, CallReadable(s)
      PROVE  Types' /\ Moved
  BY <1>1, CallReadableStep DEF Readables
<1>2. CASE CallWithChunk \/ CallPlain \/ Pipeline
  BY <1>2, CallWithChunkStep, CallPlainStep, PipelineStep
<1>3. ASSUME NEW d \in Corkables, Cork(d)
      PROVE  Types' /\ Moved
  BY <1>3, CorkStep DEF Corkables
<1>4. ASSUME NEW a \in awaiting, NEW err \in BOOLEAN, Answer(a, err)
      PROVE  Types' /\ Moved
  BY <1>4, AnswerStep
<1>5. ASSUME NEW a \in awaiting, Pump(a)
      PROVE  Types' /\ Moved
  BY <1>5, PumpStep
<1> QED BY <1>1, <1>2, <1>3, <1>4, <1>5 DEF Program

Shape == Types /\ StackInv

LEMMA InitShape == Init => Shape
<1> SUFFICES ASSUME Init PROVE Shape
  OBVIOUS
<1>1. setup \in Setups /\ MaxChunks \in Nat /\ setup.max \in Nat
  BY SetupTypes DEF Init
<1>2. <<>> \in Seq(Chunk) /\ <<>> \in Seq(Streams \cup {"user"}) /\ <<>> \in Seq(Event)
      /\ <<>> \in Seq(Timer(Streams)) /\ <<>> \in Seq(Frame(Streams))
  BY EmptySeq, Zenon
<1>3. NewReadable \in ReadableHalf(Streams)
  <2>1. PICK c \in Seq(Chunk), l \in Seq(Streams \cup {"user"}) : c = <<>> /\ l = <<>>
    BY <1>2
  <2>2. [chunks |-> c, ended |-> FALSE, flowing |-> None, done |-> FALSE, listeners |-> l,
         delivered |-> c, late |-> FALSE] \in ReadableHalf(Streams)
    BY DEF ReadableHalf
  <2> QED BY <2>1, <2>2, Zenon DEF NewReadable
<1>4. NewWritable \in WritableHalf
  <2>1. PICK c \in Seq(Chunk) : c = <<>>
    BY <1>2
  <2>2. [ended |-> FALSE, finished |-> FALSE, corked |-> 0, corkBuf |-> c, needDrain |-> FALSE,
         accepted |-> c, sunk |-> c, overtaken |-> FALSE, failed |-> FALSE] \in WritableHalf
    BY DEF WritableHalf
  <2> QED BY <2>1, <2>2, Zenon DEF NewWritable
<1>5. rd \in [Streams -> ReadableHalf(Streams)] /\ wr \in [Streams -> WritableHalf]
      /\ events \in [Streams -> Seq(Event)]
  BY <1>2, <1>3, <1>4 DEF Init
<1>6. awaiting \subseteq Awaited(opts)
  <2>1. \A s \in Streams : <<"pump", s, None>> \in Awaited(opts)
    BY DEF Awaited, Streams
  <2> QED BY <2>1 DEF Init, Readables
<1>7. Types
  BY <1>1, <1>2, <1>5, <1>6 DEF Types, Init
<1>8. StackInv
  <2>1. Len(stack) = 0
    BY EmptySeq DEF Init
  <2> QED BY <2>1 DEF StackInv
<1> QED BY <1>7, <1>8 DEF Shape

\* A step keeps types and stack, moves the stack as said, or changes nothing.
LEMMA StepShape ==
  ASSUME Shape, Next
  PROVE  Shape' /\ Moved /\ NewTop
<1>1. Types' /\ Moved
  BY LibraryStep, ProgramStep, ReturnStep, FireTimerStep DEF Next, Shape
<1> QED BY <1>1, MovedStack DEF Shape

LEMMA StutterShape ==
  ASSUME Shape, UNCHANGED vars
  PROVE  Shape'
<1>1. Streams' = Streams /\ opts' = opts
  BY DEF vars, Streams, opts
<1>2. Types'
  BY <1>1 DEF vars, Types, Shape
<1>3. StackInv'
  BY DEF vars, StackInv, Shape
<1> QED BY <1>2, <1>3 DEF Shape

LEMMA ShapeAlways == Spec => []Shape
<1>1. Shape /\ [Next]_vars => Shape'
  BY StepShape, StutterShape
<1> QED BY <1>1, InitShape, PTL DEF Spec

\* Every variable keeps its type.
THEOREM TypeCorrect == Spec => []TypeOK
<1>1. Shape => TypeOK
  <2> SUFFICES ASSUME Shape PROVE TypeOK
    OBVIOUS
  <2>1. Types
    BY DEF Shape
  <2>2. ASSUME NEW s \in Streams
        PROVE  /\ rd[s].flowing \in {None, "yes", "no"} /\ rd[s].chunks \in Seq(1..MaxChunks)
               /\ wr[s].corked \in Nat /\ wr[s].sunk \in Seq(1..MaxChunks)
               /\ events[s] \in Seq({"destroy", "end", "error", "finish", "close"})
    <3>1. rd[s] \in ReadableHalf(Streams) /\ wr[s] \in WritableHalf /\ events[s] \in Seq(Event)
      BY <2>1 DEF Types
    <3> QED BY <3>1 DEF ReadableHalf, WritableHalf, Chunk, Event
  <2> QED BY <2>1, <2>2 DEF Types, TypeOK
<1> QED BY <1>1, ShapeAlways, PTL

-----------------------------------------------------------------------------
(* Who acts, and what each action touches *)

LEMMA LibraryTops ==
  /\ PushChunk => Top("push")
  /\ DrainLoop \/ DrainEnds => Top("drain")
  /\ EmitNext => Top("emit")
  /\ Write \/ WriteTransform => Top("write")
  /\ WriteNow => Top("writeNow")
  /\ FailWrite => Top("failWrite")
  /\ Finish => Top("finish")
  /\ Flush => Top("flush")
  /\ Uncork => Top("uncork")
  /\ Library => \/ PushChunk \/ DrainLoop \/ DrainEnds \/ EmitNext \/ Write \/ WriteTransform \/ WriteNow
                \/ FailWrite \/ Finish \/ Flush \/ Uncork
                \/ \E op \in {"eof", "close", "error", "autoDestroy", "end", "endUncork", "ended",
                              "finishing", "finished", "destroy", "destroyed"} : Top(op)
<1>1. /\ PushNull => Top("eof")
      /\ EmitClose => Top("close")
      /\ EmitError => Top("error")
      /\ AutoDestroy => Top("autoDestroy")
      /\ End \/ EndTransform => Top("end")
      /\ EndUncork => Top("endUncork")
      /\ Ended => Top("ended")
      /\ Finishing => Top("finishing")
      /\ Finished => Top("finished")
      /\ Uncork => Top("uncork")
      /\ Destroy => Top("destroy")
      /\ Destroyed => Top("destroyed")
  BY DEF PushNull, EmitClose, EmitError, AutoDestroy, End, EndTransform, EndUncork, Ended, Finishing,
         Finished, Uncork, Destroy, Destroyed
<1>2. /\ PushChunk => Top("push")
      /\ DrainLoop \/ DrainEnds => Top("drain")
      /\ EmitNext => Top("emit")
      /\ Write \/ WriteTransform => Top("write")
      /\ WriteNow => Top("writeNow")
      /\ FailWrite => Top("failWrite")
      /\ Finish => Top("finish")
      /\ Flush => Top("flush")
  BY DEF PushChunk, DrainLoop, DrainEnds, EmitNext, Write, WriteTransform, WriteNow, FailWrite, Finish, Flush
<1> QED BY <1>1, <1>2 DEF Library

LEMMA ProgramActs == Program => ProgramRuns
<1>1. ASSUME NEW s \in Readables, CallReadable(s)
      PROVE  ProgramRuns
  BY <1>1 DEF CallReadable, Starts
<1>2. CallWithChunk => ProgramRuns
  BY DEF CallWithChunk, Starts
<1>3. CallPlain => ProgramRuns
  BY DEF CallPlain, Starts
<1>4. ASSUME NEW d \in Corkables, Cork(d)
      PROVE  ProgramRuns
  BY <1>4 DEF Cork, Starts
<1>5. Pipeline => ProgramRuns
  BY PipelineDoes DEF Starts
<1>6. ASSUME NEW a \in awaiting, NEW err \in BOOLEAN, Answer(a, err)
      PROVE  ProgramRuns
  BY <1>6 DEF Answer
<1>7. ASSUME NEW a \in awaiting, Pump(a)
      PROVE  ProgramRuns
  BY <1>7 DEF Pump, ProgramRuns
<1> QED BY <1>1, <1>2, <1>3, <1>4, <1>5, <1>6, <1>7 DEF Program

\* The innermost call is the one that goes on.
LEMMA WhoActs ==
  ASSUME Next
  PROVE  /\ Top("push") => PushChunk
         /\ Top("drain") => DrainLoop \/ DrainEnds
         /\ Top("emit") => EmitNext
         /\ Top("write") => Write \/ WriteTransform
         /\ Top("writeNow") => WriteNow
         /\ Top("failWrite") => FailWrite
         /\ Top("finish") => Finish
         /\ Top("flush") => Flush
         /\ Top("uncork") => Uncork
<1>1. FireTimer => stack = <<>>
  BY DEF FireTimer
<1>2. Return => Top("user")
  BY DEF Return
<1>3. Program => stack = <<>> \/ Top("user")
  BY ProgramActs DEF ProgramRuns
<1>4. Library \/ stack = <<>> \/ Top("user")
  BY <1>1, <1>2, <1>3 DEF Next
<1>5. \A op1, op2 : Top(op1) /\ Top(op2) => op1 = op2
  BY DEF Top
<1>6. \A op : Top(op) => stack # <<>>
  BY DEF Top
<1> HIDE DEF Top
<1> QED BY <1>4, <1>5, <1>6, LibraryTops

\* Who changes what.
LEMMA LibraryTouches ==
  ASSUME Library
  PROVE  /\ UNCHANGED Rest
         /\ rd' = rd \/ PushChunk \/ PushNull \/ DrainLoop \/ DrainEnds
         /\ wr' = wr \/ Write \/ WriteTransform \/ WriteNow \/ EndUncork \/ Ended \/ Finish \/ Uncork
         /\ (events' = events /\ destroyed' = destroyed)
              \/ DrainEnds \/ EmitClose \/ EmitError \/ Finish \/ Destroy
         /\ errored' = errored \/ FailWrite \/ Destroy
         /\ ~Destroy => destroyed' = destroyed
<1>1. CASE PushChunk
  BY <1>1 DEF PushChunk
<1>2. CASE PushNull
  BY <1>2 DEF PushNull
<1>3. CASE DrainLoop
  BY <1>3 DEF DrainLoop
<1>4. CASE DrainEnds
  BY <1>4 DEF DrainEnds
<1>5. CASE EmitNext
  BY <1>5 DEF EmitNext
<1>6. CASE EmitClose
  BY <1>6 DEF EmitClose
<1>7. CASE EmitError
  BY <1>7 DEF EmitError
<1>8. CASE Write
  BY <1>8 DEF Write
<1>9. CASE WriteTransform
  BY <1>9 DEF WriteTransform
<1>10. CASE WriteNow
  BY <1>10 DEF WriteNow
<1>11. CASE FailWrite
  BY <1>11 DEF FailWrite
<1>12. CASE AutoDestroy
  BY <1>12 DEF AutoDestroy
<1>13. CASE End
  BY <1>13 DEF End
<1>14. CASE EndUncork
  BY <1>14 DEF EndUncork
<1>15. CASE Ended
  BY <1>15 DEF Ended
<1>16. CASE EndTransform
  BY <1>16 DEF EndTransform
<1>17. CASE Finishing
  BY <1>17 DEF Finishing
<1>18. CASE Finish
  BY <1>18 DEF Finish
<1>19. CASE Finished
  BY <1>19 DEF Finished
<1>20. CASE Uncork
  BY <1>20 DEF Uncork
<1>21. CASE Flush
  BY <1>21 DEF Flush
<1>22. CASE Destroy
  BY <1>22 DEF Destroy
<1>23. CASE Destroyed
  BY <1>23 DEF Destroyed
<1> QED BY <1>1, <1>2, <1>3, <1>4, <1>5, <1>6, <1>7, <1>8, <1>9, <1>10, <1>11, <1>12, <1>13, <1>14,
           <1>15, <1>16, <1>17, <1>18, <1>19, <1>20, <1>21, <1>22, <1>23 DEF Library

LEMMA ProgramTouches ==
  ASSUME Program
  PROVE  /\ setup' = setup /\ events' = events /\ destroyed' = destroyed /\ errored' = errored
         /\ (rd' = rd /\ linked' = linked) \/ (\E s \in Readables : CallReadable(s)) \/ Pipeline
         /\ \/ wr' = wr
            \/ \E d \in Corkables : Cork(d)
            \/ \E a \in awaiting, err \in BOOLEAN : Answer(a, err)
         /\ made' = made \/ CallWithChunk \/ (\E a \in awaiting : Pump(a))
<1>1. ASSUME NEW s \in Readables, CallReadable(s)
      PROVE  UNCHANGED <<setup, wr, events, destroyed, errored, made>>
  BY <1>1 DEF CallReadable
<1>2. CallWithChunk => UNCHANGED <<setup, rd, linked, wr, events, destroyed, errored>>
  BY DEF CallWithChunk
<1>3. CallPlain => UNCHANGED <<setup, rd, linked, wr, events, destroyed, errored, made>>
  BY DEF CallPlain
<1>4. ASSUME NEW d \in Corkables, Cork(d)
      PROVE  UNCHANGED <<setup, rd, linked, events, destroyed, errored, made>>
  BY <1>4 DEF Cork
<1>5. Pipeline => UNCHANGED <<setup, wr, events, destroyed, errored, made>>
  BY PipelineDoes
<1>6. ASSUME NEW a \in awaiting, NEW err \in BOOLEAN, Answer(a, err)
      PROVE  UNCHANGED <<setup, rd, linked, events, destroyed, errored, made>>
  BY <1>6 DEF Answer, Rest
<1>7. ASSUME NEW a \in awaiting, Pump(a)
      PROVE  UNCHANGED <<setup, rd, linked, wr, events, destroyed, errored>>
  BY <1>7 DEF Pump
<1>8. CASE \E s \in Readables : CallReadable(s)
  BY <1>1, <1>8
<1>9. CASE \E d \in Corkables : Cork(d)
  BY <1>4, <1>9
<1>10. CASE \E a \in awaiting, err \in BOOLEAN : Answer(a, err)
  BY <1>6, <1>10
<1>11. CASE \E a \in awaiting : Pump(a)
  BY <1>7, <1>11
<1> QED BY <1>2, <1>3, <1>5, <1>8, <1>9, <1>10, <1>11 DEF Program

LEMMA OthersTouch ==
  ASSUME Return \/ FireTimer
  PROVE  UNCHANGED <<setup, rd, linked, wr, events, destroyed, errored, made>>
BY DEF Return, FireTimer, Rest

-----------------------------------------------------------------------------
(* The end of a stream *)

\* What calls of the program leave of a readable half.
LEMMA CallKeeps ==
  ASSUME Types, (\E s \in Readables : CallReadable(s)) \/ Pipeline, NEW t \in Streams
  PROVE  /\ rd'[t].ended = rd[t].ended /\ rd'[t].done = rd[t].done /\ rd'[t].late = rd[t].late
         /\ rd'[t].delivered = rd[t].delivered
         /\ \/ rd'[t].chunks = rd[t].chunks
            \/ rd[t].chunks # <<>> /\ rd'[t].chunks = Tail(rd[t].chunks)
<1>1. rd \in [Streams -> ReadableHalf(Streams)]
  BY DEF Types
<1>2. ASSUME NEW s \in Streams, NEW l,
             \/ rd' = [rd EXCEPT ![s].listeners = l, ![s].flowing = "yes"]
             \/ rd' = [rd EXCEPT ![s].listeners = l]
             \/ rd' = [rd EXCEPT ![s].flowing = l]
      PROVE  /\ rd'[t].ended = rd[t].ended /\ rd'[t].done = rd[t].done /\ rd'[t].late = rd[t].late
             /\ rd'[t].delivered = rd[t].delivered /\ rd'[t].chunks = rd[t].chunks
  BY <1>1, <1>2 DEF ReadableHalf
<1>3. ASSUME NEW s \in Readables, CallReadable(s)
      PROVE  /\ rd'[t].ended = rd[t].ended /\ rd'[t].done = rd[t].done /\ rd'[t].late = rd[t].late
             /\ rd'[t].delivered = rd[t].delivered
             /\ \/ rd'[t].chunks = rd[t].chunks
                \/ rd[t].chunks # <<>> /\ rd'[t].chunks = Tail(rd[t].chunks)
  <2>1. s \in Streams
    BY DEF Readables
  <2>2. CASE Listen(s) \/ Resume(s) \/ Pause(s) \/ \E d \in Writables \ {s} : Pipe(s, d) \/ Unpipe(s, d)
    <3>1. \E l : \/ rd' = [rd EXCEPT ![s].listeners = l, ![s].flowing = "yes"]
                 \/ rd' = [rd EXCEPT ![s].listeners = l]
                 \/ rd' = [rd EXCEPT ![s].flowing = l]
      BY <2>2, Zenon DEF Listen, Resume, Pause, Pipe, Unpipe
    <3> QED BY <1>2, <2>1, <3>1
  <2>3. CASE Read(s)
    <3>1. PICK c : c = Tail(rd[s].chunks)
      OBVIOUS
    <3>2. rd' = [rd EXCEPT ![s].chunks = c] /\ rd[s].chunks # <<>>
      BY <2>3, <3>1 DEF Read
    <3>3. /\ rd'[t].ended = rd[t].ended /\ rd'[t].done = rd[t].done /\ rd'[t].late = rd[t].late
          /\ rd'[t].delivered = rd[t].delivered
          /\ rd'[t].chunks = IF t = s THEN c ELSE rd[t].chunks
      BY <1>1, <2>1, <3>2 DEF ReadableHalf
    <3> QED BY <3>1, <3>2, <3>3
  <2> QED BY <1>3, <2>2, <2>3 DEF CallReadable
<1>4. ASSUME Pipeline
      PROVE  /\ rd'[t].ended = rd[t].ended /\ rd'[t].done = rd[t].done /\ rd'[t].late = rd[t].late
             /\ rd'[t].delivered = rd[t].delivered /\ rd'[t].chunks = rd[t].chunks
  <2>1. rd'[t] = IF Feeds(t) = {} THEN rd[t]
                 ELSE [rd[t] EXCEPT !.listeners = Append(@, FedTo(t)), !.flowing = "yes"]
    BY <1>4, PipelineDoes
  <2>2. PICK l : l = Append(rd[t].listeners, FedTo(t))
    OBVIOUS
  <2>3. rd'[t] = rd[t] \/ rd'[t] = [rd[t] EXCEPT !.listeners = l, !.flowing = "yes"]
    BY <2>1, <2>2
  <2> QED BY <1>1, <2>3 DEF ReadableHalf
<1> QED BY <1>3, <1>4

LEMMA RecordCounts ==
  ASSUME Types, NEW s \in Streams, NEW ev \in Event, Record(s, ev), NEW t \in Streams, NEW e
  PROVE  /\ Occurrences(events[t], e) \in Nat
         /\ Occurrences(events'[t], e) = Occurrences(events[t], e) + (IF t = s /\ ev = e THEN 1 ELSE 0)
<1>1. events \in [Streams -> Seq(Event)] /\ events[t] \in Seq(Event)
  BY DEF Types
<1>2. Occurrences(events[t], e) \in Nat
  BY <1>1, OccurrencesAppend
<1>3. CASE t = s
  <2>1. events'[t] = Append(events[t], ev)
    BY <1>1, <1>3 DEF Record
  <2> QED BY <1>1, <1>3, <2>1, OccurrencesAppend
<1>4. CASE t # s
  <2>1. events'[t] = events[t]
    BY <1>1, <1>4 DEF Record
  <2> QED BY <1>2, <1>4, <2>1
<1> QED BY <1>3, <1>4

EndInv ==
  \A s \in Streams :
    /\ Occurrences(events[s], "end") = IF rd[s].done THEN 1 ELSE 0
    /\ rd[s].done => rd[s].ended
    /\ rd[s].done /\ ~rd[s].late => rd[s].chunks = <<>>

\* Where an event that is not 'end' is recorded, and readable halves stay.
LEMMA OtherEvents ==
  ASSUME Types, EndInv, setup' = setup, rd' = rd,
         NEW s \in Streams, NEW ev \in Event \ {"end"}, Record(s, ev)
  PROVE  EndInv'
<1>1. Streams' = Streams
  BY DEF Streams, opts
<1>2. \A t \in Streams : Occurrences(events'[t], "end") = Occurrences(events[t], "end")
  BY RecordCounts
<1> QED BY <1>1, <1>2 DEF EndInv

LEMMA StepEnd ==
  ASSUME Shape, EndInv, Next
  PROVE  EndInv'
<1>1. Types /\ Types'
  BY StepShape DEF Shape
<1>2. /\ rd \in [Streams -> ReadableHalf(Streams)] /\ events \in [Streams -> Seq(Event)]
      /\ stack \in Seq(Frame(Streams))
  BY <1>1 DEF Types
<1>3. setup' = setup /\ Streams' = Streams
  <2>1. setup' = setup
    BY LibraryTouches, ProgramTouches, OthersTouch DEF Next, Rest
  <2> QED BY <2>1 DEF Streams, opts
<1>4. CASE Library
  <2>1. CASE PushChunk
    <3>1. S \in Streams /\ events' = events
      BY <1>1, <2>1, Innermost, FrameFields DEF PushChunk, Top, S
    <3>2. PICK c, l : c = Append(rd[S].chunks, X) /\ l = (rd[S].late \/ rd[S].ended)
      OBVIOUS
    <3>3. rd' = [rd EXCEPT ![S].chunks = c, ![S].late = l]
      BY <2>1, <3>2 DEF PushChunk
    <3>4. \A t \in Streams : /\ rd'[t].done = rd[t].done /\ rd'[t].ended = rd[t].ended
                             /\ t # S => rd'[t] = rd[t]
                             /\ t = S => rd'[t].late = l
      BY <1>2, <3>1, <3>3 DEF ReadableHalf
    <3> QED BY <1>3, <3>1, <3>2, <3>4 DEF EndInv
  <2>2. CASE PushNull
    <3>1. S \in Streams /\ events' = events /\ rd' = [rd EXCEPT ![S].ended = TRUE]
      BY <1>1, <2>2, Innermost, FrameFields DEF PushNull, Top, S
    <3>2. \A t \in Streams : /\ rd'[t].done = rd[t].done /\ (rd[t].ended => rd'[t].ended)
                             /\ rd'[t].late = rd[t].late /\ rd'[t].chunks = rd[t].chunks
      BY <1>2, <3>1 DEF ReadableHalf
    <3> QED BY <1>3, <3>1, <3>2 DEF EndInv
  <2>3. CASE DrainLoop
    <3>1. S \in Streams /\ events' = events /\ rd[S].chunks # <<>>
      BY <1>1, <2>3, Innermost, FrameFields DEF DrainLoop, Top, S
    <3>2. PICK c, d : c = Tail(rd[S].chunks) /\ d = Append(rd[S].delivered, Head(rd[S].chunks))
      OBVIOUS
    <3>3. rd' = [rd EXCEPT ![S].chunks = c, ![S].delivered = d]
      BY <2>3, <3>2 DEF DrainLoop
    <3>4. \A t \in Streams : /\ rd'[t].done = rd[t].done /\ rd'[t].ended = rd[t].ended
                             /\ rd'[t].late = rd[t].late /\ (t # S => rd'[t].chunks = rd[t].chunks)
      BY <1>2, <3>1, <3>3 DEF ReadableHalf
    <3> QED BY <1>3, <3>1, <3>4 DEF EndInv
  <2>4. CASE DrainEnds
    <3>1. S \in Streams /\ rd[S].chunks = <<>>
      BY <1>1, <2>4, Innermost, FrameFields DEF DrainEnds, Top, S
    <3>2. CASE rd[S].ended /\ ~rd[S].done
      <4>1. rd' = [rd EXCEPT ![S].done = TRUE] /\ Record(S, "end")
        BY <2>4, <3>2 DEF DrainEnds
      <4>2. \A t \in Streams : /\ t # S => rd'[t] = rd[t]
                               /\ t = S => rd'[t].done /\ rd'[t].ended = rd[t].ended /\ rd'[t].chunks = rd[t].chunks
        BY <1>2, <3>1, <4>1 DEF ReadableHalf
      <4>3. \A t \in Streams : Occurrences(events'[t], "end")
                                 = Occurrences(events[t], "end") + (IF t = S THEN 1 ELSE 0)
                               /\ Occurrences(events[t], "end") \in Nat
        BY <1>1, <3>1, <4>1, RecordCounts DEF Event
      <4> QED BY <1>3, <3>1, <3>2, <4>2, <4>3 DEF EndInv
    <3>3. CASE ~(rd[S].ended /\ ~rd[S].done)
      <4>1. rd' = rd /\ events' = events
        BY <2>4, <3>3 DEF DrainEnds
      <4> QED BY <1>3, <4>1 DEF EndInv
    <3> QED BY <3>2, <3>3
  <2>5. CASE rd' = rd /\ events' = events
    BY <1>3, <2>5 DEF EndInv
  <2>6. ASSUME EmitClose \/ EmitError \/ Finish \/ Destroy, rd' = rd
        PROVE  EndInv'
    <3>1. S \in Streams
      BY <1>1, <2>6, Innermost, FrameFields DEF EmitClose, EmitError, Finish, Destroy, Top, S
    <3>2. CASE events' = events
      BY <1>3, <2>6, <3>2 DEF EndInv
    <3>3. CASE events' # events
      <4>1. \E ev \in Event \ {"end"} : Record(S, ev)
        BY <2>6, <3>3 DEF EmitClose, EmitError, Finish, Destroy, Event
      <4> QED BY <1>1, <1>3, <2>6, <3>1, <4>1, OtherEvents
    <3> QED BY <3>2, <3>3
  <2> QED BY <1>4, <2>1, <2>2, <2>3, <2>4, <2>5, <2>6, LibraryTouches
<1>5. CASE Program
  <2>1. CASE (\E s \in Readables : CallReadable(s)) \/ Pipeline
    <3>1. \A t \in Streams :
            /\ rd'[t].ended = rd[t].ended /\ rd'[t].done = rd[t].done /\ rd'[t].late = rd[t].late
            /\ rd[t].chunks = <<>> => rd'[t].chunks = <<>>
      BY <1>1, <2>1, CallKeeps
    <3>2. events' = events
      BY <1>5, ProgramTouches
    <3> QED BY <1>3, <3>1, <3>2 DEF EndInv
  <2>2. CASE rd' = rd
    BY <1>3, <1>5, <2>2, ProgramTouches DEF EndInv
  <2> QED BY <1>5, <2>1, <2>2, ProgramTouches
<1>6. CASE Return \/ FireTimer
  BY <1>3, <1>6, OthersTouch DEF EndInv
<1> QED BY <1>4, <1>5, <1>6 DEF Next

LEMMA SetupKept ==
  ASSUME Next \/ UNCHANGED vars
  PROVE  setup' = setup /\ Streams' = Streams /\ opts' = opts /\ Readables' = Readables
         /\ Writables' = Writables /\ Corkables' = Corkables
<1>1. setup' = setup
  <2>1. UNCHANGED vars => setup' = setup
    BY DEF vars
  <2> QED BY <2>1, LibraryTouches, ProgramTouches, OthersTouch DEF Next, Rest
<1> QED BY <1>1 DEF Streams, opts, Readables, Writables, Corkables, Class

LEMMA InitEnd == Init => EndInv
<1> SUFFICES ASSUME Init, NEW s \in Streams
             PROVE  /\ Occurrences(events[s], "end") = 0
                    /\ ~rd[s].done
  BY DEF EndInv
<1>1. events[s] = <<>> /\ rd[s] = NewReadable
  BY DEF Init
<1>2. 1..Len(events[s]) = {}
  BY <1>1
<1>3. { i \in 1..Len(events[s]) : events[s][i] = "end" } = {}
  BY <1>2
<1> QED BY <1>1, <1>3, FS_EmptySet DEF Occurrences, NewReadable

LEMMA EndAlways == Spec => []EndInv
<1>1. Shape /\ EndInv /\ [Next]_vars => EndInv'
  <2>1. EndInv /\ UNCHANGED vars => EndInv'
    BY SetupKept DEF vars, EndInv
  <2> QED BY <2>1, StepEnd
<1> QED BY <1>1, InitEnd, ShapeAlways, PTL DEF Spec

-----------------------------------------------------------------------------
(* The order of what is handed on *)

\* What a step does to what a stream holds and has handed on.
LEMMA ReadableStep ==
  ASSUME Shape, Next, NEW t \in Streams
  PROVE  \/ rd'[t].delivered = rd[t].delivered /\ rd'[t].chunks = rd[t].chunks
         \/ /\ Top("push") /\ S = t
            /\ rd'[t].delivered = rd[t].delivered /\ rd'[t].chunks = Append(rd[t].chunks, X)
         \/ /\ DrainLoop /\ S = t /\ rd[t].chunks # <<>>
            /\ rd'[t].delivered = Append(rd[t].delivered, Head(rd[t].chunks))
            /\ rd'[t].chunks = Tail(rd[t].chunks)
         \/ rd'[t].delivered = rd[t].delivered /\ rd[t].chunks # <<>> /\ rd'[t].chunks = Tail(rd[t].chunks)
<1>1. rd \in [Streams -> ReadableHalf(Streams)] /\ Types
  BY DEF Types, Shape
<1>2. CASE rd' = rd
  BY <1>2
<1>3. CASE (\E s \in Readables : CallReadable(s)) \/ Pipeline
  BY <1>1, <1>3, CallKeeps
<1>4. CASE PushChunk
  <2>1. S \in Streams
    BY <1>1, <1>4, Innermost, FrameFields DEF PushChunk, Top, S
  <2>2. PICK c, l : c = Append(rd[S].chunks, X) /\ l = (rd[S].late \/ rd[S].ended)
    OBVIOUS
  <2>3. rd' = [rd EXCEPT ![S].chunks = c, ![S].late = l] /\ Top("push")
    BY <1>4, <2>2 DEF PushChunk
  <2>4. (t # S => rd'[t] = rd[t]) /\ (t = S => rd'[t].delivered = rd[t].delivered /\ rd'[t].chunks = c)
    BY <1>1, <2>1, <2>3 DEF ReadableHalf
  <2> QED BY <2>2, <2>3, <2>4
<1>5. CASE PushNull \/ DrainEnds
  <2>1. S \in Streams
    BY <1>1, <1>5, Innermost, FrameFields DEF PushNull, DrainEnds, Top, S
  <2>2. rd' = rd \/ rd' = [rd EXCEPT ![S].ended = TRUE] \/ rd' = [rd EXCEPT ![S].done = TRUE]
    BY <1>5 DEF PushNull, DrainEnds
  <2>3. rd'[t].delivered = rd[t].delivered /\ rd'[t].chunks = rd[t].chunks
    BY <1>1, <2>1, <2>2 DEF ReadableHalf
  <2> QED BY <2>3
<1>6. CASE DrainLoop
  <2>1. S \in Streams /\ rd[S].chunks # <<>>
    BY <1>1, <1>6, Innermost, FrameFields DEF DrainLoop, Top, S
  <2>2. PICK c, d : c = Tail(rd[S].chunks) /\ d = Append(rd[S].delivered, Head(rd[S].chunks))
    OBVIOUS
  <2>3. rd' = [rd EXCEPT ![S].chunks = c, ![S].delivered = d]
    BY <1>6, <2>2 DEF DrainLoop
  <2>4. (t # S => rd'[t] = rd[t]) /\ (t = S => rd'[t].delivered = d /\ rd'[t].chunks = c)
    BY <1>1, <2>1, <2>3 DEF ReadableHalf
  <2> QED BY <1>6, <2>1, <2>2, <2>4
<1> QED BY <1>2, <1>3, <1>4, <1>5, <1>6, LibraryTouches, ProgramTouches, OthersTouch DEF Next

LEMMA MadeGrows ==
  ASSUME Next
  PROVE  made' = made \/ rd' = rd
<1>1. CallWithChunk => rd' = rd
  BY DEF CallWithChunk
<1>2. ASSUME NEW a \in awaiting, Pump(a)
      PROVE  rd' = rd
  BY <1>2 DEF Pump
<1> QED BY <1>1, <1>2, LibraryTouches, ProgramTouches, OthersTouch DEF Next, Rest

Up(q, n) == Increasing(q) /\ \A i \in 1..Len(q) : q[i] <= n

LEMMA FirstDropped ==
  ASSUME NEW p \in Seq(Chunk), NEW q \in Seq(Chunk), q # <<>>, NEW n \in Nat, MaxChunks \in Nat, Up(p \o q, n)
  PROVE  Up(p \o Tail(q), n)
<1>1. PICK t \in Seq(Chunk) : t = Tail(q)
  BY HeadTail
<1>2. /\ Len(q) \in Nat \ {0} /\ Len(t) = Len(q) - 1
      /\ \A i \in 1..(Len(q) - 1) : t[i] = q[i + 1]
  BY <1>1, HeadTail
<1>3. PICK w \in Seq(Chunk), r \in Seq(Chunk) : w = p \o q /\ r = p \o t
  BY <1>1, ConcatFacts
<1>4. /\ Len(p) \in Nat /\ Len(w) = Len(p) + Len(q) /\ Len(r) = Len(p) + Len(t)
      /\ \A i \in 1..Len(p) : w[i] = p[i] /\ r[i] = p[i]
  BY <1>1, <1>3, ConcatFacts
<1>5. /\ \A i \in 1..Len(q) : w[Len(p) + i] = q[i]
      /\ \A i \in 1..Len(t) : r[Len(p) + i] = t[i]
  <2>1. \A i \in 1..Len(q) : (p \o q)[Len(p) + i] = q[i]
    BY SecondPart
  <2>2. \A i \in 1..Len(t) : (p \o t)[Len(p) + i] = t[i]
    BY SecondPart
  <2> QED BY <1>3, <2>1, <2>2, Zenon
<1> DEFINE at(i) == IF i <= Len(p) THEN i ELSE i + 1
<1>6. ASSUME NEW i \in 1..Len(r)
      PROVE  at(i) \in 1..Len(w) /\ r[i] = w[at(i)]
  <2>1. CASE i <= Len(p)
    BY <1>2, <1>4, <2>1
  <2>2. CASE ~(i <= Len(p))
    <3>1. PICK k \in 1..Len(t) : i = Len(p) + k
      <4>1. i - Len(p) \in 1..Len(t) /\ i = Len(p) + (i - Len(p))
        BY <1>2, <1>4, <2>2
      <4> QED BY <4>1
    <3>2. k + 1 \in 1..Len(q) /\ k \in 1..(Len(q) - 1) /\ i + 1 = Len(p) + (k + 1)
      BY <1>2, <1>4, <3>1
    <3>3. r[i] = t[k] /\ t[k] = q[k + 1] /\ w[i + 1] = q[k + 1]
      BY <1>2, <1>5, <3>1, <3>2
    <3> QED BY <1>2, <1>4, <2>2, <3>3
  <2> QED BY <2>1, <2>2
<1>7. \A i, j \in 1..Len(r) : i < j => at(i) < at(j)
  BY <1>4
<1> HIDE DEF at
<1>8. Increasing(r)
  BY <1>3, <1>6, <1>7 DEF Up, Increasing
<1>9. \A i \in 1..Len(r) : r[i] <= n
  BY <1>3, <1>6 DEF Up
<1> QED BY <1>1, <1>3, <1>8, <1>9 DEF Up

Ahead(s) == rd[s].delivered \o rd[s].chunks

\* What a source has handed on and what it holds go up to the last chunk made, which is the
\* one being pushed, if one is.
InOrder(s) ==
  /\ Up(Ahead(s), made)
  /\ Top("push") /\ S = s => X = made /\ Up(Ahead(s), made - 1)
OrderInv == \A s \in Streams : opts[s].kind = "readable" => InOrder(s)

LEMMA AheadTypes ==
  ASSUME Types, NEW s \in Streams
  PROVE  /\ rd[s].delivered \in Seq(Chunk) /\ rd[s].chunks \in Seq(Chunk) /\ Ahead(s) \in Seq(Chunk)
         /\ MaxChunks \in Nat /\ made \in Nat /\ Chunk \subseteq Nat
<1>1. rd[s].delivered \in Seq(Chunk) /\ rd[s].chunks \in Seq(Chunk)
  BY DEF Types, ReadableHalf
<1>2. MaxChunks \in Nat /\ made \in 0..MaxChunks
  BY SetupTypes DEF Types
<1> QED BY <1>1, <1>2, ConcatFacts DEF Ahead, Chunk

LEMMA UpFurther ==
  ASSUME NEW p \in Seq(Chunk), MaxChunks \in Nat, NEW m \in Nat, NEW n \in Nat, m <= n, Up(p, m)
  PROVE  Up(p, n)
<1>1. \A i \in 1..Len(p) : p[i] \in Nat
  BY ElementOfSeq DEF Chunk
<1> QED BY <1>1 DEF Up

LEMMA PushedLast ==
  ASSUME Types, NEW s \in Streams, NEW p \in Seq(Chunk), NEW x \in Chunk, Up(p, made - 1), x = made
  PROVE  Up(Append(p, x), made)
<1>1. MaxChunks \in Nat /\ made \in Nat /\ Chunk \subseteq Nat /\ p \in Seq(Nat) /\ x \in Nat
  BY AheadTypes DEF Chunk
<1>2. p \in Seq(Nat)
  BY <1>1
<1>3. /\ Len(p) \in Nat /\ Len(Append(p, x)) = Len(p) + 1
      /\ \A i \in 1..Len(p) : Append(p, x)[i] = p[i]
      /\ Append(p, x)[Len(p) + 1] = x
  BY AppendFacts
<1>4. \A i \in 1..Len(p) : p[i] \in Nat /\ p[i] < x
  BY <1>1, ElementOfSeq DEF Up
<1>5. Increasing(Append(p, x))
  BY <1>1, <1>2, <1>4, IncreasingGrows DEF Up
<1>6. \A i \in 1..(Len(p) + 1) : i \in 1..Len(p) \/ i = Len(p) + 1
  BY <1>3
<1> QED BY <1>1, <1>3, <1>4, <1>5, <1>6 DEF Up

LEMMA StepOrder ==
  ASSUME Shape, OrderInv, Next
  PROVE  OrderInv'
<1>1. Types /\ NewTop /\ Types'
  BY StepShape DEF Shape
<1>2. SUFFICES ASSUME NEW s \in Streams, opts[s].kind = "readable"
               PROVE  InOrder(s)'
  BY SetupKept DEF OrderInv
<1>3. InOrder(s)
  BY <1>2 DEF OrderInv
<1>4. /\ rd[s].delivered \in Seq(Chunk) /\ rd[s].chunks \in Seq(Chunk) /\ Ahead(s) \in Seq(Chunk)
      /\ MaxChunks \in Nat /\ made \in Nat /\ Chunk \subseteq Nat
  BY <1>1, AheadTypes
<1>5. made' = made \/ rd' = rd
  BY MadeGrows
<1>6. made' \in Nat /\ (made' # made => made < made')
  <2>1. CallWithChunk => made' = made + 1
    BY DEF CallWithChunk
  <2>2. ASSUME NEW a \in awaiting, Pump(a)
        PROVE  made' = made + 1 \/ made' = made
    BY <2>2 DEF Pump
  <2>3. made' = made + 1 \/ made' = made
    BY <2>1, <2>2, LibraryTouches, ProgramTouches, OthersTouch DEF Next, Rest
  <2> QED BY <1>4, <2>3
<1>7. CASE rd'[s].delivered = rd[s].delivered /\ rd'[s].chunks = rd[s].chunks
  <2>1. Ahead(s)' = Ahead(s)
    BY <1>7 DEF Ahead
  <2>2. Up(Ahead(s)', made')
    <3>1. made <= made'
      BY <1>4, <1>6
    <3>2. Up(Ahead(s), made')
      BY <1>3, <1>4, <1>6, <3>1, UpFurther DEF InOrder
    <3> QED BY <2>1, <3>2
  <2>3. ASSUME Top("push")', S' = s
        PROVE  X' = made' /\ Up(Ahead(s)', made' - 1)
    <3>1. Begins(Head(stack')) /\ Head(stack').op = "push" /\ Head(stack').s = s
      BY <1>1, <2>3 DEF NewTop, AtOnce, Top, S
    <3>2. X' = made' /\ made < made'
      BY <1>2, <3>1 DEF Begins, X
    <3>3. made <= made' - 1 /\ made' - 1 \in Nat
      <4>1. PICK n \in Nat : n = made'
        BY <1>6
      <4>2. made \in Nat /\ made < n
        BY <1>4, <3>2, <4>1
      <4>3. made <= n - 1 /\ n - 1 \in Nat
        BY <4>2
      <4> QED BY <4>1, <4>3
    <3>4. Up(Ahead(s), made' - 1)
      BY <1>3, <1>4, <3>3, UpFurther DEF InOrder
    <3> QED BY <2>1, <3>2, <3>4
  <2> QED BY <2>2, <2>3 DEF InOrder
<1>8. CASE ~(rd'[s].delivered = rd[s].delivered /\ rd'[s].chunks = rd[s].chunks)
  <2>1. made' = made
    BY <1>5, <1>8
  <2>2. Up(Ahead(s)', made)
    <3>1. CASE Top("push") /\ S = s /\ rd'[s].delivered = rd[s].delivered /\ rd'[s].chunks = Append(rd[s].chunks, X)
      <4>1. X = made /\ Up(Ahead(s), made - 1) /\ X \in Chunk
        <5>1. X \in Chunk
          BY <1>1, <3>1, Innermost, FrameFields DEF Top, X
        <5> QED BY <1>3, <3>1, <5>1 DEF InOrder
      <4>2. Ahead(s)' = Append(Ahead(s), X)
        <5>1. PICK x \in Chunk : x = X
          BY <4>1
        <5>2. rd[s].delivered \o Append(rd[s].chunks, x) = Append(rd[s].delivered \o rd[s].chunks, x)
          <6>1. PICK p \in Seq(Chunk), q \in Seq(Chunk) : p = rd[s].delivered /\ q = rd[s].chunks
            BY <1>4
          <6>2. p \o Append(q, x) = Append(p \o q, x)
            BY HeldGrows
          <6> QED BY <6>1, <6>2, Zenon
        <5> QED BY <3>1, <5>1, <5>2, Zenon DEF Ahead
      <4> QED BY <1>1, <1>4, <4>1, <4>2, PushedLast
    <3>2. CASE /\ rd[s].chunks # <<>> /\ rd'[s].delivered = Append(rd[s].delivered, Head(rd[s].chunks))
               /\ rd'[s].chunks = Tail(rd[s].chunks)
      <4>1. Append(rd[s].delivered, Head(rd[s].chunks)) \o Tail(rd[s].chunks) = rd[s].delivered \o rd[s].chunks
        BY <1>4, <3>2, HandedOn
      <4>2. Ahead(s)' = Ahead(s)
        BY <3>2, <4>1, Zenon DEF Ahead
      <4> QED BY <1>3, <4>2 DEF InOrder
    <3>3. CASE rd'[s].delivered = rd[s].delivered /\ rd[s].chunks # <<>> /\ rd'[s].chunks = Tail(rd[s].chunks)
      <4>1. Up(rd[s].delivered \o Tail(rd[s].chunks), made)
        BY <1>3, <1>4, <3>3, FirstDropped DEF InOrder, Ahead
      <4>2. Ahead(s)' = rd[s].delivered \o Tail(rd[s].chunks)
        BY <3>3, Zenon DEF Ahead
      <4> QED BY <4>1, <4>2
    <3> QED BY <1>8, <3>1, <3>2, <3>3, ReadableStep
  <2>3. ~(Top("push")' /\ S' = s)
    <3> SUFFICES ASSUME Top("push")', S' = s PROVE FALSE
      OBVIOUS
    <3>1. Begins(Head(stack')) /\ Head(stack').op = "push" /\ Head(stack').s = s
      BY <1>1 DEF NewTop, AtOnce, Top, S
    <3>2. made < made'
      BY <1>2, <3>1 DEF Begins
    <3> QED BY <1>4, <2>1, <3>2
  <2> QED BY <2>1, <2>2, <2>3 DEF InOrder
<1> QED BY <1>7, <1>8

LEMMA OrderAlways == Spec => []OrderInv
<1>1. Init => OrderInv
  <2> SUFFICES ASSUME Init, NEW s \in Streams
               PROVE  InOrder(s)
    BY DEF OrderInv
  <2>1. rd[s].delivered = <<>> /\ rd[s].chunks = <<>> /\ ~Top("push")
    BY DEF Init, NewReadable, Top
  <2>2. Ahead(s) = <<>>
    BY <2>1 DEF Ahead
  <2>3. 1..Len(Ahead(s)) = {}
    BY <2>2
  <2> QED BY <2>1, <2>3 DEF InOrder, Up, Increasing
<1>2. Shape /\ OrderInv /\ [Next]_vars => OrderInv'
  <2>1. ASSUME OrderInv, UNCHANGED vars
        PROVE  OrderInv'
    BY <2>1, SetupKept DEF vars, OrderInv, InOrder, Ahead, Top, S, X
  <2> QED BY <2>1, StepOrder
<1> QED BY <1>1, <1>2, ShapeAlways, PTL DEF Spec

-----------------------------------------------------------------------------
(* 'finish' and destroy() *)

LEMMA RecordStep ==
  ASSUME Types, Next
  PROVE  \/ events' = events /\ destroyed' = destroyed
         \/ \E s \in Streams, ev \in Event :
              /\ Record(s, ev)
              /\ destroyed \subseteq destroyed' /\ (ev = "destroy" => s \in destroyed')
              /\ ev = "finish" => Top("finish") /\ S = s
<1>1. CASE DrainEnds \/ EmitClose \/ EmitError \/ Finish
  <2>1. S \in Streams
    BY <1>1, Innermost, FrameFields DEF DrainEnds, EmitClose, EmitError, Finish, Top, S
  <2>2. destroyed' = destroyed
    BY <1>1 DEF DrainEnds, EmitClose, EmitError, Finish
  <2>3. events' = events \/ Record(S, "end") \/ Record(S, "close") \/ Record(S, "error")
        \/ (Record(S, "finish") /\ Top("finish"))
    BY <1>1 DEF DrainEnds, EmitClose, EmitError, Finish
  <2> QED BY <2>1, <2>2, <2>3 DEF Event
<1>2. CASE Destroy
  <2>1. S \in Streams
    BY <1>2, Innermost, FrameFields DEF Destroy, Top, S
  <2>2. (events' = events /\ destroyed' = destroyed) \/ (Record(S, "destroy") /\ destroyed' = destroyed \cup {S})
    BY <1>2 DEF Destroy
  <2> QED BY <2>1, <2>2 DEF Event
<1> QED BY <1>1, <1>2, LibraryTouches, ProgramTouches, OthersTouch DEF Next

\* No stream whose destroy() is recorded is left out of the destroyed ones, and the
\* innermost call does not finish one of them.
FinishInv ==
  /\ \A d \in Streams : "destroy" \in Range(events[d]) => d \in destroyed
  /\ Top("finish") => opts[S].final \/ S \notin destroyed
  /\ NoFinishAfterDestroy

LEMMA StepFinish ==
  ASSUME Shape, FinishInv, Next
  PROVE  FinishInv'
<1>1. Types /\ NewTop
  BY StepShape DEF Shape
<1>2. events \in [Streams -> Seq(Event)]
  BY <1>1 DEF Types
<1>3. Streams' = Streams /\ Writables' = Writables /\ opts' = opts /\ Writables \subseteq Streams
  BY SetupKept DEF Writables
<1>4. ASSUME Top("finish")'
      PROVE  opts'[S'].final \/ S' \notin destroyed'
  BY <1>1, <1>3, <1>4 DEF NewTop, AtOnce, Begins, Top, S
<1>5. CASE events' = events /\ destroyed' = destroyed
  BY <1>3, <1>4, <1>5 DEF FinishInv, NoFinishAfterDestroy
<1>6. ASSUME NEW s \in Streams, NEW ev \in Event, Record(s, ev),
             destroyed \subseteq destroyed', ev = "destroy" => s \in destroyed',
             ev = "finish" => Top("finish") /\ S = s
      PROVE  FinishInv'
  <2>1. PICK n \in Nat : n = Len(events[s])
    BY <1>2
  <2>2. /\ Range(events'[s]) = Range(events[s]) \cup {ev} /\ Len(events'[s]) = n + 1
        /\ \A i \in 1..n : events'[s][i] = events[s][i]
        /\ events'[s][n + 1] = ev
    <3>1. events[s] \in Seq(Event) /\ events'[s] = Append(events[s], ev)
      BY <1>2, <1>6 DEF Record
    <3> QED BY <2>1, <3>1, AppendFacts
  <2>3. \A d \in Streams : d # s => events'[d] = events[d]
    BY <1>2, <1>6 DEF Record
  <2>4. \A d \in Streams : "destroy" \in Range(events'[d]) => d \in destroyed'
    BY <1>6, <2>2, <2>3 DEF FinishInv
  <2>5. ASSUME NEW d \in Writables, ~opts[d].final,
               NEW i \in 1..Len(events'[d]), NEW j \in 1..Len(events'[d]),
               events'[d][i] = "destroy", events'[d][j] = "finish"
        PROVE  j < i
    <3>1. CASE d # s
      BY <1>3, <2>3, <2>5, <3>1 DEF FinishInv, NoFinishAfterDestroy
    <3>2. CASE d = s /\ j = n + 1
      <4>1. ev = "finish" /\ s \notin destroyed
        BY <1>6, <2>2, <2>5, <3>2 DEF FinishInv
      <4>2. i \in 1..n /\ events[s][i] = "destroy"
        BY <2>1, <2>2, <2>5, <3>2, <4>1
      <4>3. "destroy" \in Range(events[s])
        BY <1>2, <2>1, <4>2 DEF Range
      <4> QED BY <4>1, <4>3 DEF FinishInv
    <3>3. CASE d = s /\ j # n + 1
      <4>1. j \in 1..n /\ j < n + 1
        BY <2>1, <2>2, <2>5, <3>3
      <4>2. i = n + 1 \/ i \in 1..n
        BY <2>1, <2>2, <2>5, <3>3
      <4>3. CASE i = n + 1
        BY <4>1, <4>3
      <4>4. CASE i \in 1..n
        <5>1. events[d][i] = "destroy" /\ events[d][j] = "finish"
          BY <2>2, <2>5, <3>3, <4>1, <4>4
        <5>2. i \in 1..Len(events[d]) /\ j \in 1..Len(events[d])
          BY <2>1, <3>3, <4>1, <4>4
        <5> QED BY <2>5, <5>1, <5>2 DEF FinishInv, NoFinishAfterDestroy
      <4> QED BY <4>2, <4>3, <4>4
    <3> QED BY <3>1, <3>2, <3>3
  <2> QED BY <1>3, <1>4, <2>4, <2>5 DEF FinishInv, NoFinishAfterDestroy
<1> QED BY <1>1, <1>5, <1>6, RecordStep

LEMMA FinishAlways == Spec => []FinishInv
<1>1. Init => FinishInv
  <2> SUFFICES ASSUME Init PROVE FinishInv
    OBVIOUS
  <2>1. \A d \in Streams : Range(events[d]) = {} /\ 1..Len(events[d]) = {}
    BY DEF Init, Range
  <2>2. ~Top("finish")
    BY DEF Init, Top
  <2> QED BY <2>1, <2>2 DEF FinishInv, NoFinishAfterDestroy, Writables
<1>2. Shape /\ FinishInv /\ [Next]_vars => FinishInv'
  <2>1. ASSUME FinishInv, UNCHANGED vars
        PROVE  FinishInv'
    BY <2>1, SetupKept DEF vars, FinishInv, NoFinishAfterDestroy, Top, S
  <2> QED BY <2>1, StepFinish
<1> QED BY <1>1, <1>2, ShapeAlways, PTL DEF Spec

-----------------------------------------------------------------------------
(* What is written *)

LEMMA TransformDoes ==
  ASSUME Types, WriteTransform
  PROVE  /\ S \in Streams /\ Class(S) = "transform"
         /\ \E h \in WritableHalf :
              wr' = [wr EXCEPT ![S] = h] /\ h.failed = wr[S].failed /\ h.accepted = Append(wr[S].accepted, X)
<1>1. S \in Streams /\ X \in Chunk
  BY Innermost, FrameFields DEF WriteTransform, Top, S, X
<1>2. wr \in [Streams -> WritableHalf] /\ wr[S] \in WritableHalf /\ wr[S].accepted \in Seq(Chunk)
  BY <1>1 DEF Types, WritableHalf
<1>3. PICK a \in Seq(Chunk) : a = Append(wr[S].accepted, X)
  BY <1>1, <1>2, AppendProperties
<1>4. PICK h : h = [wr[S] EXCEPT !.accepted = a]
  OBVIOUS
<1>5. h \in WritableHalf /\ h.failed = wr[S].failed /\ h.accepted = a
  BY <1>2, <1>4 DEF WritableHalf
<1>6. wr' = [wr EXCEPT ![S].accepted = a]
  BY <1>3 DEF WriteTransform
<1>7. wr' = [wr EXCEPT ![S] = h]
  BY <1>1, <1>2, <1>4, <1>6
<1> QED BY <1>1, <1>3, <1>5, <1>7 DEF WriteTransform

LEMMA WriteNowDoes ==
  ASSUME Types, WriteNow
  PROVE  /\ S \in Streams /\ X \in Chunk /\ Top("writeNow") /\ Then(<<User>>)
         /\ \E h \in WritableHalf :
              /\ wr' = [wr EXCEPT ![S] = h]
              /\ h.failed = wr[S].failed /\ h.accepted = wr[S].accepted /\ h.corkBuf = wr[S].corkBuf
              /\ h.corked = wr[S].corked /\ h.overtaken = wr[S].overtaken
              /\ h.sunk = Append(wr[S].sunk, X)
<1>1. S \in Streams /\ X \in Chunk
  BY Innermost, FrameFields DEF WriteNow, Top, S, X
<1>2. wr \in [Streams -> WritableHalf] /\ wr[S] \in WritableHalf /\ wr[S].sunk \in Seq(Chunk)
  BY <1>1 DEF Types, WritableHalf
<1>3. PICK a \in Seq(Chunk) : a = Append(wr[S].sunk, X)
  BY <1>1, <1>2, AppendProperties
<1>4. PICK h : h = [wr[S] EXCEPT !.sunk = a]
  OBVIOUS
<1>5. /\ h \in WritableHalf
      /\ h.failed = wr[S].failed /\ h.accepted = wr[S].accepted /\ h.corkBuf = wr[S].corkBuf
      /\ h.corked = wr[S].corked /\ h.overtaken = wr[S].overtaken /\ h.sunk = a
  BY <1>2, <1>4 DEF WritableHalf
<1>6. wr' = [wr EXCEPT ![S].sunk = a]
  BY <1>3 DEF WriteNow
<1>7. wr' = [wr EXCEPT ![S] = h]
  BY <1>1, <1>2, <1>4, <1>6
<1> QED BY <1>1, <1>3, <1>5, <1>7 DEF WriteNow

\* A failed write that the program reports is on its way to be told.
LEMMA FailedStep ==
  ASSUME Types, NEW a \in awaiting, NEW err \in BOOLEAN, Answer(a, err), NEW t \in Streams
  PROVE  /\ \/ wr'[t].failed = wr[t].failed
            \/ Call("failWrite", t, None) \in Range(stack')
         /\ wr'[t].accepted = wr[t].accepted /\ wr'[t].sunk = wr[t].sunk /\ wr'[t].corkBuf = wr[t].corkBuf
         /\ wr'[t].corked = wr[t].corked /\ wr'[t].overtaken = wr[t].overtaken
<1>1. wr \in [Streams -> WritableHalf] /\ stack \in Seq(Frame(Streams))
  BY DEF Types
<1>2. wr' = wr \/ (wr' = [wr EXCEPT ![a[2]].failed = TRUE] /\ a[1] = "write" /\ err)
  BY Zenon DEF Answer
<1>3. CASE wr' = wr
  BY <1>3
<1>4. CASE wr' = [wr EXCEPT ![a[2]].failed = TRUE] /\ a[1] = "write" /\ err
  <2>1. stack' = (<<User>> \o <<Call("failWrite", a[2], None)>>) \o stack
    BY <1>4 DEF Answer
  <2>2. PICK f : f = Call("failWrite", a[2], None)
    OBVIOUS
  <2>3. a[2] \in Streams
    BY <1>4, AwaitedFields DEF Types
  <2>4. f \in Frame(Streams) /\ User \in Frame(Streams)
    BY <2>2, <2>3, FrameTypes DEF Bare
  <2>5. PICK new : new = <<User, f>>
    OBVIOUS
  <2>6. new \in Seq(Frame(Streams)) /\ f \in Range(new)
    BY <2>4, <2>5 DEF Range
  <2>7. stack' = new \o stack
    BY <2>1, <2>2, <2>5
  <2>8. f \in Range(stack')
    BY <1>1, <2>6, <2>7, RangeConcat
  <2>9. (t # a[2] => wr'[t] = wr[t]) /\ (wr'[t].accepted = wr[t].accepted /\ wr'[t].sunk = wr[t].sunk /\ wr'[t].corkBuf = wr[t].corkBuf
         /\ wr'[t].corked = wr[t].corked /\ wr'[t].overtaken = wr[t].overtaken)
    BY <1>1, <1>4, <2>3 DEF WritableHalf
  <2> QED BY <2>2, <2>8, <2>9
<1> QED BY <1>2, <1>3, <1>4

\* What a step does to a writable half that the innermost call does not write to.
SameSink(t) ==
  /\ wr'[t].accepted = wr[t].accepted /\ wr'[t].sunk = wr[t].sunk /\ wr'[t].corkBuf = wr[t].corkBuf
  /\ wr'[t].overtaken = wr[t].overtaken
  /\ wr'[t].corked = wr[t].corked \/ wr'[t].corked # 0

LEMMA WritableStep ==
  ASSUME Types, Next, NEW t \in Streams
  PROVE  /\ wr'[t].failed = wr[t].failed \/ Call("failWrite", t, None) \in Range(stack')
         /\ SameSink(t) \/ (S = t /\ (Write \/ WriteTransform \/ WriteNow \/ Uncork))
<1>1. wr \in [Streams -> WritableHalf]
  BY DEF Types
<1>2. CASE wr' = wr
  BY <1>2 DEF SameSink
<1>3. CASE Write \/ WriteTransform \/ WriteNow \/ Uncork
  <2>1. S \in Streams /\ \E h \in WritableHalf : wr' = [wr EXCEPT ![S] = h] /\ h.failed = wr[S].failed
    BY <1>3, WriteDoes, TransformDoes, WriteNowDoes, UncorkDoes
  <2>2. t # S => wr'[t] = wr[t]
    BY <2>1, WritableChanged
  <2>3. wr'[t].failed = wr[t].failed
    BY <2>1, <2>2, WritableChanged
  <2> QED BY <1>3, <2>2, <2>3 DEF SameSink
<1>4. CASE EndUncork \/ Ended \/ Finish
  <2>1. S \in Streams
    BY <1>4, Innermost, FrameFields DEF EndUncork, Ended, Finish, Top, S
  <2>2. wr' = wr \/ wr' = [wr EXCEPT ![S].corked = 1] \/ wr' = [wr EXCEPT ![S].ended = TRUE]
        \/ wr' = [wr EXCEPT ![S].finished = TRUE]
    BY <1>4 DEF EndUncork, Ended, Finish
  <2>3. CASE wr' = [wr EXCEPT ![S].corked = 1]
    BY <1>1, <2>1, <2>3 DEF WritableHalf, SameSink
  <2>4. CASE wr' = [wr EXCEPT ![S].ended = TRUE]
    BY <1>1, <2>1, <2>4 DEF WritableHalf, SameSink
  <2>5. CASE wr' = [wr EXCEPT ![S].finished = TRUE]
    BY <1>1, <2>1, <2>5 DEF WritableHalf, SameSink
  <2> QED BY <1>2, <2>2, <2>3, <2>4, <2>5
<1>5. ASSUME NEW d \in Corkables, Cork(d)
      PROVE  wr'[t].failed = wr[t].failed /\ SameSink(t)
  <2>1. d \in Streams /\ wr' = [wr EXCEPT ![d].corked = @ + 1]
    BY <1>5 DEF Corkables, Cork
  <2>2. PICK n \in Nat : n = wr[d].corked + 1 /\ n # 0
    BY <1>1, <2>1 DEF WritableHalf
  <2>3. wr' = [wr EXCEPT ![d].corked = n]
    BY <2>1, <2>2
  <2> QED BY <1>1, <2>1, <2>2, <2>3 DEF WritableHalf, SameSink
<1>6. ASSUME NEW a \in awaiting, NEW err \in BOOLEAN, Answer(a, err)
      PROVE  /\ wr'[t].failed = wr[t].failed \/ Call("failWrite", t, None) \in Range(stack')
             /\ SameSink(t)
  BY <1>6, FailedStep DEF SameSink
<1> QED BY <1>2, <1>3, <1>4, <1>5, <1>6, LibraryTouches, ProgramTouches, OthersTouch DEF Next

-----------------------------------------------------------------------------
(* A failed write is reported *)

FailInv == \A d \in Streams : wr[d].failed => d \in errored \/ Call("failWrite", d, None) \in Range(stack)

LEMMA StepFail ==
  ASSUME Shape, FailInv, Next
  PROVE  FailInv'
<1>1. Types /\ Moved
  BY StepShape DEF Shape
<1>2. SUFFICES ASSUME NEW d \in Streams, wr'[d].failed
               PROVE  d \in errored' \/ Call("failWrite", d, None) \in Range(stack')
  BY SetupKept DEF FailInv
<1>3. errored \subseteq errored'
  <2>1. FailWrite => errored \subseteq errored'
    BY DEF FailWrite
  <2>2. Destroy => errored \subseteq errored'
    BY DEF Destroy
  <2> QED BY <2>1, <2>2, LibraryTouches, ProgramTouches, OthersTouch DEF Next
<1>4. SUFFICES ASSUME Call("failWrite", d, None) \in Range(stack), Call("failWrite", d, None) \notin Range(stack')
               PROVE  d \in errored'
  BY <1>1, <1>2, <1>3, WritableStep DEF FailInv
<1>5. PICK f : f = Call("failWrite", d, None)
  OBVIOUS
<1>6. f.op = "failWrite" /\ f.s = d /\ f # User
  BY <1>5 DEF Call, User
<1>7. stack # <<>> /\ f = Head(stack)
  BY <1>1, <1>4, <1>5, <1>6, MovedFrames
<1>8. Top("failWrite") /\ S = d
  BY <1>6, <1>7 DEF Top, S
<1>9. FailWrite
  BY <1>8, WhoActs
<1> QED BY <1>3, <1>8, <1>9 DEF FailWrite

LEMMA FailAlways == Spec => []FailInv
<1>1. Init => FailInv
  <2> SUFFICES ASSUME Init, NEW d \in Streams PROVE ~wr[d].failed
    BY DEF FailInv
  <2> QED BY DEF Init, NewWritable
<1>2. Shape /\ FailInv /\ [Next]_vars => FailInv'
  <2>1. ASSUME FailInv, UNCHANGED vars
        PROVE  FailInv'
    BY <2>1, SetupKept DEF vars, FailInv
  <2> QED BY <2>1, StepFail
<1> QED BY <1>1, <1>2, ShapeAlways, PTL DEF Spec

-----------------------------------------------------------------------------
(* The chunks of a flush in progress *)

IsFlush(f, d) == f.op = "flush" /\ f.s = d
NoFlush(q, d) == \A i \in 1..Len(q) : ~IsFlush(q[i], d)

\* Either nothing is being flushed and h is empty, or one call flushes and h is left to it.
Holding(q, d, h) ==
  \/ h = <<>> /\ NoFlush(q, d)
  \/ \E k \in 1..Len(q) : q[k] = Call("flush", d, h) /\ \A i \in 1..Len(q) : IsFlush(q[i], d) => i = k

LEMMA FlushCall ==
  ASSUME NEW d, NEW h
  PROVE  IsFlush(Call("flush", d, h), d) /\ Call("flush", d, h).x = h
BY DEF IsFlush, Call

LEMMA HoldingUnder ==
  ASSUME NEW T, NEW new \in Seq(T), NEW rest \in Seq(T), NEW d, NEW h, NoFlush(new, d), Holding(rest, d, h)
  PROVE  Holding(new \o rest, d, h)
<1>1. PICK q : q = new \o rest
  OBVIOUS
<1>2. PICK m \in Nat, n \in Nat : m = Len(new) /\ n = Len(rest) /\ Len(q) = m + n
  BY <1>1, ConcatFacts
<1>3. (\A i \in 1..m : q[i] = new[i]) /\ (\A i \in 1..n : q[m + i] = rest[i])
  BY <1>1, <1>2, ConcatFacts
<1>4. \A i \in 1..Len(q) : i \in 1..m \/ (i - m \in 1..n /\ i = m + (i - m))
  BY <1>2
<1>5. \A i \in 1..n : m + i \in 1..Len(q)
  BY <1>2
<1>6. \A i \in 1..Len(q) : IsFlush(q[i], d) => i - m \in 1..n /\ i = m + (i - m) /\ IsFlush(rest[i - m], d)
  BY <1>2, <1>3, <1>4 DEF NoFlush
<1>7. CASE h = <<>> /\ NoFlush(rest, d)
  BY <1>1, <1>2, <1>6, <1>7 DEF NoFlush, Holding
<1>8. CASE \E k \in 1..Len(rest) : rest[k] = Call("flush", d, h) /\ \A i \in 1..Len(rest) : IsFlush(rest[i], d) => i = k
  <2>1. PICK k \in 1..n : rest[k] = Call("flush", d, h) /\ \A i \in 1..n : IsFlush(rest[i], d) => i = k
    BY <1>2, <1>8
  <2>2. m + k \in 1..Len(q) /\ q[m + k] = Call("flush", d, h)
    BY <1>3, <1>5, <2>1
  <2>3. \A i \in 1..Len(q) : IsFlush(q[i], d) => i = m + k
    BY <1>6, <2>1
  <2> QED BY <1>1, <2>2, <2>3 DEF Holding
<1> QED BY <1>7, <1>8 DEF Holding

LEMMA HoldingTail ==
  ASSUME NEW T, NEW q \in Seq(T), q # <<>>, NEW d, NEW h, ~IsFlush(Head(q), d), Holding(q, d, h)
  PROVE  Holding(Tail(q), d, h)
<1>1. PICK t \in Seq(T), n \in Nat :
        t = Tail(q) /\ Len(q) = n + 1 /\ Len(t) = n /\ q[1] = Head(q) /\ \A i \in 1..n : t[i] = q[i + 1]
  BY TailParts
<1>2. \A i \in 1..n : i + 1 \in 1..Len(q)
  BY <1>1
<1>3. CASE h = <<>> /\ NoFlush(q, d)
  BY <1>1, <1>2, <1>3 DEF NoFlush, Holding
<1>4. CASE \E k \in 1..Len(q) : q[k] = Call("flush", d, h) /\ \A i \in 1..Len(q) : IsFlush(q[i], d) => i = k
  <2>1. PICK k \in 1..Len(q) : q[k] = Call("flush", d, h) /\ \A i \in 1..Len(q) : IsFlush(q[i], d) => i = k
    BY <1>4
  <2>2. k # 1
    BY <1>1, <2>1, FlushCall
  <2>3. k - 1 \in 1..n /\ k = (k - 1) + 1
    BY <1>1, <2>1, <2>2
  <2>4. t[k - 1] = Call("flush", d, h)
    BY <1>1, <2>1, <2>3
  <2>5. \A i \in 1..n : IsFlush(t[i], d) => i = k - 1
    BY <1>1, <1>2, <2>1, <2>3
  <2> QED BY <1>1, <2>3, <2>4, <2>5 DEF Holding
<1> QED BY <1>3, <1>4 DEF Holding

LEMMA HoldingHead ==
  ASSUME NEW T, NEW q \in Seq(T), q # <<>>, NEW d, NEW h, NEW x, Head(q) = Call("flush", d, x), Holding(q, d, h)
  PROVE  h = x /\ NoFlush(Tail(q), d)
<1>1. PICK t \in Seq(T), n \in Nat :
        t = Tail(q) /\ Len(q) = n + 1 /\ Len(t) = n /\ q[1] = Head(q) /\ \A i \in 1..n : t[i] = q[i + 1]
  BY TailParts
<1>2. 1 \in 1..Len(q) /\ \A i \in 1..n : i + 1 \in 1..Len(q) /\ i + 1 # 1
  BY <1>1
<1>3. IsFlush(q[1], d) /\ q[1].x = x
  BY <1>1, FlushCall
<1>4. PICK k \in 1..Len(q) : q[k] = Call("flush", d, h) /\ \A i \in 1..Len(q) : IsFlush(q[i], d) => i = k
  BY <1>2, <1>3 DEF Holding, NoFlush
<1>5. k = 1 /\ h = x
  BY <1>2, <1>3, <1>4, FlushCall
<1> QED BY <1>1, <1>2, <1>4, <1>5 DEF NoFlush

LEMMA HoldingNew ==
  ASSUME NEW T, NEW new \in Seq(T), NEW rest \in Seq(T), NEW d, NEW h, NoFlush(rest, d),
         NEW k \in 1..Len(new), new[k] = Call("flush", d, h), \A i \in 1..Len(new) : i # k => ~IsFlush(new[i], d)
  PROVE  Holding(new \o rest, d, h)
<1>1. PICK q : q = new \o rest
  OBVIOUS
<1>2. PICK m \in Nat, n \in Nat : m = Len(new) /\ n = Len(rest) /\ Len(q) = m + n
  BY <1>1, ConcatFacts
<1>3. (\A i \in 1..m : q[i] = new[i]) /\ (\A i \in 1..n : q[m + i] = rest[i])
  BY <1>1, <1>2, ConcatFacts
<1>4. \A i \in 1..Len(q) : i \in 1..m \/ (i - m \in 1..n /\ i = m + (i - m))
  BY <1>2
<1>5. \A i \in 1..Len(q) : IsFlush(q[i], d) => i = k
  BY <1>2, <1>3, <1>4 DEF NoFlush
<1>6. k \in 1..Len(q) /\ q[k] = Call("flush", d, h)
  BY <1>2, <1>3
<1> QED BY <1>1, <1>5, <1>6 DEF Holding

-----------------------------------------------------------------------------
(* What is accepted is what the sink has, then what is on its way, then what is held *)

LEMMA SeqOne ==
  ASSUME NEW T, NEW x \in T
  PROVE  <<x>> \in Seq(T)
OBVIOUS

InTurn(acc, snk, now, h, buf) == acc = (snk \o now) \o (h \o buf)

Associates(T) == \A p, q, r \in Seq(T) : (p \o q) \o r = p \o (q \o r)

LEMMA Joined == \A T : Associates(T)
BY ConcatAssociative DEF Associates

LEMMA HeadMoved ==
  ASSUME NEW T, NEW p \in Seq(T), NEW q \in Seq(T), NEW r \in Seq(T), q # <<>>
  PROVE  p \o (q \o r) = (p \o <<Head(q)>>) \o (Tail(q) \o r)
<1>1. PICK one, t : one = <<Head(q)>> /\ t = Tail(q)
  OBVIOUS
<1>2. one \in Seq(T) /\ t \in Seq(T)
  BY <1>1, HeadTail
<1>3. q = one \o t
  BY <1>1, HeadThenTail, Zenon
<1>4. Associates(T)
  BY Joined
<1>5. (one \o t) \o r = one \o (t \o r)
  BY <1>2, <1>4, Zenon DEF Associates
<1>6. PICK u : u = t \o r
  OBVIOUS
<1>7. u \in Seq(T)
  <2>1. \A a, b \in Seq(T) : a \o b \in Seq(T)
    BY ConcatProperties
  <2> QED BY <1>2, <1>6, <2>1, Zenon
<1>8. (p \o one) \o u = p \o (one \o u)
  BY <1>2, <1>4, <1>7, Zenon DEF Associates
<1> QED BY <1>1, <1>3, <1>5, <1>6, <1>8, Zenon

LEMMA TurnHeld ==
  ASSUME NEW T, NEW acc \in Seq(T), NEW snk \in Seq(T), NEW now \in Seq(T), NEW h \in Seq(T), NEW buf \in Seq(T),
         NEW x \in T, InTurn(acc, snk, now, h, buf)
  PROVE  InTurn(Append(acc, x), snk, now, h, Append(buf, x))
<1>1. PICK p \in Seq(T), q \in Seq(T) : p = snk \o now /\ q = h \o buf
  BY ConcatFacts
<1>2. h \o Append(buf, x) = Append(q, x)
  BY <1>1, HeldGrows
<1>3. p \o Append(q, x) = Append(p \o q, x)
  BY HeldGrows
<1> QED BY <1>1, <1>2, <1>3, Zenon DEF InTurn

LEMMA TurnGiven ==
  ASSUME NEW T, NEW acc \in Seq(T), NEW snk \in Seq(T), NEW none \in Seq(T), none = <<>>,
         NEW x \in T, InTurn(acc, snk, none, none, none)
  PROVE  InTurn(Append(acc, x), snk, <<x>>, none, none)
<1>1. snk \o none = snk /\ none \o none = none
  BY ConcatEmptySeq
<1>2. acc = snk
  BY <1>1 DEF InTurn
<1>3. PICK one \in Seq(T) : one = <<x>>
  BY SeqOne
<1>4. PICK p \in Seq(T) : p = snk \o one
  BY ConcatFacts
<1>5. Append(snk, x) = p
  BY <1>3, <1>4, AppendIsConcat, Zenon
<1>6. p \o none = p
  BY ConcatEmptySeq
<1> QED BY <1>1, <1>2, <1>3, <1>4, <1>5, <1>6, Zenon DEF InTurn

LEMMA TurnSunk ==
  ASSUME NEW T, NEW acc \in Seq(T), NEW snk \in Seq(T), NEW none \in Seq(T), none = <<>>, NEW h \in Seq(T), NEW buf \in Seq(T),
         NEW x \in T, InTurn(acc, snk, <<x>>, h, buf)
  PROVE  InTurn(acc, Append(snk, x), none, h, buf)
<1>1. PICK one \in Seq(T) : one = <<x>>
  BY SeqOne
<1>2. PICK p \in Seq(T) : p = snk \o one
  BY ConcatFacts
<1>3. Append(snk, x) = p
  BY <1>1, <1>2, AppendIsConcat, Zenon
<1>4. p \o none = p
  BY ConcatEmptySeq
<1> QED BY <1>1, <1>2, <1>3, <1>4, Zenon DEF InTurn

LEMMA TurnFlushed ==
  ASSUME NEW T, NEW acc, NEW snk \in Seq(T), NEW h \in Seq(T), NEW buf \in Seq(T),
         h # <<>>, InTurn(acc, snk, <<>>, h, buf)
  PROVE  InTurn(acc, snk, <<Head(h)>>, Tail(h), buf)
<1>1. snk \o <<>> = snk
  BY ConcatEmptySeq
<1>2. snk \o (h \o buf) = (snk \o <<Head(h)>>) \o (Tail(h) \o buf)
  BY HeadMoved
<1> QED BY <1>1, <1>2, Zenon DEF InTurn

LEMMA TurnTaken ==
  ASSUME NEW T, NEW acc \in Seq(T), NEW snk \in Seq(T), NEW none \in Seq(T), none = <<>>, NEW buf \in Seq(T),
         InTurn(acc, snk, none, none, buf)
  PROVE  InTurn(acc, snk \o buf, none, none, none) /\ InTurn(acc, snk, none, buf, none)
<1>1. snk \o none = snk /\ none \o buf = buf /\ buf \o none = buf /\ none \o none = none
  BY ConcatEmptySeq
<1>2. PICK p \in Seq(T) : p = snk \o buf
  BY ConcatFacts
<1>3. p \o none = p
  BY ConcatEmptySeq
<1> QED BY <1>1, <1>2, <1>3, Zenon DEF InTurn

\* The chunks that calls in progress are about to give to a sink.
Carries(f, d, x) == f.s = d /\ ((f.op = "writeNow" /\ f.x = x) \/ (f.op = "flush" /\ x \in Range(f.x)))
OnTheWay(q, d, x) == \E f \in Range(q) : Carries(f, d, x)

LEMMA WayConcat ==
  ASSUME NEW T, NEW p \in Seq(T), NEW q \in Seq(T), NEW d, NEW x
  PROVE  OnTheWay(p \o q, d, x) <=> OnTheWay(p, d, x) \/ OnTheWay(q, d, x)
<1>1. Range(p \o q) = Range(p) \cup Range(q)
  BY RangeConcat
<1> QED BY <1>1 DEF OnTheWay

LEMMA WayHead ==
  ASSUME NEW T, NEW q \in Seq(T), q # <<>>, NEW d, NEW x
  PROVE  OnTheWay(q, d, x) <=> Carries(Head(q), d, x) \/ OnTheWay(Tail(q), d, x)
<1>1. Range(q) = {Head(q)} \cup Range(Tail(q))
  BY HeadTail
<1> QED BY <1>1 DEF OnTheWay

\* Nothing is given to the sink of d by a call that begins, nor by the one that ends.
Passive(new, d) == \A f \in Range(new) : f.s = d => f.op \notin {"writeNow", "flush"}

LEMMA PassiveFacts ==
  ASSUME NEW T, NEW new \in Seq(T), NEW d, Passive(new, d)
  PROVE  NoFlush(new, d) /\ \A x : ~OnTheWay(new, d, x)
<1>1. \A i \in 1..Len(new) : new[i] \in Range(new)
  BY DEF Range
<1> QED BY <1>1 DEF Passive, NoFlush, IsFlush, OnTheWay, Carries

\* The innermost call gives something to the sink of d, or takes something for it.
ActsOn(d) == stack # <<>> /\ S = d /\ Head(stack).op \in {"write", "writeNow", "flush", "uncork"}

LEMMA OthersPassive ==
  ASSUME Types, Moved, NEW d \in Streams, ~ActsOn(d)
  PROVE  \E new, rest \in Seq(Frame(Streams)) :
           /\ stack' = new \o rest /\ Passive(new, d)
           /\ \/ rest = stack
              \/ stack # <<>> /\ rest = Tail(stack) /\ (Head(stack).s = d => Head(stack).op \notin {"writeNow", "flush"})
<1>1. PICK new \in Seq(Frame(Streams)), rest \in Seq(Frame(Streams)) : Moves(new, rest)
  BY DEF Moved
<1>2. ASSUME NEW f \in Range(new), f.s = d
      PROVE  f.op \notin {"writeNow", "flush"}
  <2>1. Begins(f)
    BY <1>1 DEF Moves
  <2> QED BY <1>2, <2>1 DEF Begins, ActsOn, Top
<1>3. Passive(new, d)
  BY <1>2 DEF Passive
<1>4. stack # <<>> => (Head(stack).s = d => Head(stack).op \notin {"writeNow", "flush"})
  BY DEF ActsOn, S
<1> QED BY <1>1, <1>3, <1>4 DEF Moves

\* One call, or two, on top of others.
LEMMA OneOn ==
  ASSUME NEW T, NEW q \in Seq(T), NEW f \in T, NEW d
  PROVE  /\ <<f>> \o q # <<>> /\ Head(<<f>> \o q) = f
         /\ \A x : OnTheWay(<<f>> \o q, d, x) <=> Carries(f, d, x) \/ OnTheWay(q, d, x)
         /\ \A h : ~IsFlush(f, d) /\ Holding(q, d, h) => Holding(<<f>> \o q, d, h)
<1>1. PICK one : one = <<f>>
  OBVIOUS
<1>2. one \in Seq(T) /\ Len(one) = 1 /\ one[1] = f /\ Range(one) = {f}
  BY <1>1 DEF Range
<1>3. PICK p \in Seq(T) : p = one \o q
  BY <1>2, ConcatFacts
<1>4. Len(p) = 1 + Len(q) /\ Len(q) \in Nat /\ p[1] = f
  BY <1>2, <1>3, ConcatFacts
<1>5. p # <<>> /\ Head(p) = f
  <2>1. p # <<>>
    BY <1>4, EmptySeq
  <2> QED BY <1>4, <2>1, HeadTailProperties
<1>6. \A x : OnTheWay(one \o q, d, x) <=> Carries(f, d, x) \/ OnTheWay(q, d, x)
  <2>1. \A x : OnTheWay(one, d, x) <=> Carries(f, d, x)
    BY <1>2 DEF OnTheWay
  <2> QED BY <1>2, <2>1, WayConcat
<1>7. ASSUME NEW h, ~IsFlush(f, d), Holding(q, d, h)
      PROVE  Holding(one \o q, d, h)
  <2>1. NoFlush(one, d)
    BY <1>2, <1>7 DEF NoFlush
  <2> QED BY <1>2, <1>7, <2>1, HoldingUnder
<1> QED BY <1>1, <1>3, <1>5, <1>6, <1>7, Zenon

LEMMA TwoOn ==
  ASSUME NEW T, NEW q \in Seq(T), NEW f \in T, NEW g \in T, NEW d
  PROVE  /\ <<f, g>> \o q # <<>> /\ Head(<<f, g>> \o q) = f
         /\ \A x : OnTheWay(<<f, g>> \o q, d, x) <=> Carries(f, d, x) \/ Carries(g, d, x) \/ OnTheWay(q, d, x)
         /\ \A h : ~IsFlush(f, d) /\ g = Call("flush", d, h) /\ NoFlush(q, d) => Holding(<<f, g>> \o q, d, h)
<1>1. PICK two : two = <<f, g>>
  OBVIOUS
<1>2. two \in Seq(T) /\ Len(two) = 2 /\ two[1] = f /\ two[2] = g /\ Range(two) = {f, g}
  BY <1>1 DEF Range
<1>3. two \in Seq(T)
  BY <1>2
<1>4. /\ two \o q \in Seq(T) /\ Len(q) \in Nat /\ Len(two \o q) = Len(two) + Len(q)
      /\ \A i \in 1..Len(two) : (two \o q)[i] = two[i]
  BY <1>3, ConcatFacts
<1>5. PICK p \in Seq(T) : p = two \o q
  BY <1>4
<1>6. Len(p) = 2 + Len(q) /\ Len(q) \in Nat /\ p[1] = f
  BY <1>2, <1>5, <1>4
<1>7. p # <<>> /\ Head(p) = f
  <2>1. p # <<>>
    BY <1>6, EmptySeq
  <2> QED BY <1>6, <2>1, HeadTailProperties
<1>8. \A x : OnTheWay(two \o q, d, x) <=> Carries(f, d, x) \/ Carries(g, d, x) \/ OnTheWay(q, d, x)
  <2>1. \A x : OnTheWay(two, d, x) <=> Carries(f, d, x) \/ Carries(g, d, x)
    BY <1>2 DEF OnTheWay
  <2> QED BY <1>2, <2>1, WayConcat
<1>9. ASSUME NEW h, ~IsFlush(f, d), g = Call("flush", d, h), NoFlush(q, d)
      PROVE  Holding(two \o q, d, h)
  <2>1. 2 \in 1..Len(two) /\ two[2] = Call("flush", d, h) /\ \A i \in 1..Len(two) : i # 2 => ~IsFlush(two[i], d)
    BY <1>2, <1>9
  <2> QED BY <1>2, <1>9, <2>1, HoldingNew
<1> QED BY <1>1, <1>5, <1>7, <1>8, <1>9, Zenon

\* The chunk that is given to the sink of d now.
Now(d) == IF Top("writeNow") /\ S = d THEN <<X>> ELSE <<>>

Given(d) ==
  /\ \A x \in Chunk : x \in Range(wr[d].accepted)
                        <=> x \in Range(wr[d].sunk) \/ x \in Range(wr[d].corkBuf) \/ OnTheWay(stack, d, x)
  /\ ~wr[d].overtaken =>
       \E h \in Seq(Chunk) : Holding(stack, d, h) /\ InTurn(wr[d].accepted, wr[d].sunk, Now(d), h, wr[d].corkBuf)
  /\ wr[d].corked = 0 => wr[d].corkBuf = <<>>

LEMMA GivenUntouched ==
  ASSUME Shape, Next, NEW d \in Streams, ~ActsOn(d), SameSink(d), Given(d)
  PROVE  Given(d)'
<1>1. Types /\ Moved /\ NewTop /\ stack \in Seq(Frame(Streams))
  BY StepShape DEF Shape, Types
<1>2. PICK new \in Seq(Frame(Streams)), rest \in Seq(Frame(Streams)) :
        /\ stack' = new \o rest /\ Passive(new, d)
        /\ \/ rest = stack
           \/ stack # <<>> /\ rest = Tail(stack) /\ (Head(stack).s = d => Head(stack).op \notin {"writeNow", "flush"})
  BY <1>1, OthersPassive
<1>3. ASSUME NEW x
      PROVE  OnTheWay(stack', d, x) <=> OnTheWay(stack, d, x)
  <2>1. OnTheWay(new \o rest, d, x) <=> OnTheWay(new, d, x) \/ OnTheWay(rest, d, x)
    BY <1>2, WayConcat
  <2>2. ~OnTheWay(new, d, x)
    BY <1>2, PassiveFacts
  <2>3. OnTheWay(rest, d, x) <=> OnTheWay(stack, d, x)
    <3>1. CASE rest = stack
      BY <3>1
    <3>2. CASE stack # <<>> /\ rest = Tail(stack) /\ (Head(stack).s = d => Head(stack).op \notin {"writeNow", "flush"})
      <4>1. ~Carries(Head(stack), d, x)
        BY <3>2 DEF Carries
      <4>2. OnTheWay(stack, d, x) <=> Carries(Head(stack), d, x) \/ OnTheWay(Tail(stack), d, x)
        BY <1>1, <3>2, WayHead
      <4> QED BY <3>2, <4>1, <4>2
    <3> QED BY <1>2, <3>1, <3>2
  <2> QED BY <1>2, <2>1, <2>2, <2>3
<1>4. ASSUME NEW h, Holding(stack, d, h)
      PROVE  Holding(stack', d, h)
  <2>1. NoFlush(new, d)
    BY <1>2, PassiveFacts
  <2>2. Holding(rest, d, h)
    <3>1. CASE rest = stack
      BY <1>4, <3>1
    <3>2. CASE stack # <<>> /\ rest = Tail(stack) /\ (Head(stack).s = d => Head(stack).op \notin {"writeNow", "flush"})
      <4>1. ~IsFlush(Head(stack), d)
        BY <3>2 DEF IsFlush
      <4>2. Holding(Tail(stack), d, h)
        BY <1>1, <1>4, <3>2, <4>1, HoldingTail
      <4> QED BY <3>2, <4>2
    <3> QED BY <1>2, <3>1, <3>2
  <2>3. Holding(new \o rest, d, h)
    BY <2>1, <2>2, HoldingUnder
  <2> QED BY <1>2, <2>3
<1>5. Now(d) = <<>>
  BY DEF Now, ActsOn, Top
<1>6. Now(d)' = <<>>
  <2> SUFFICES ASSUME Top("writeNow")', S' = d PROVE FALSE
    BY DEF Now
  <2>1. Begins(Head(stack')) /\ Head(stack').op = "writeNow" /\ Head(stack').s = d
    BY <1>1 DEF NewTop, AtOnce, Top, S
  <2> QED BY <2>1 DEF Begins, ActsOn, Top
<1>7. wr'[d].corked = 0 => wr'[d].corkBuf = <<>>
  BY DEF SameSink, Given
<1>8. \A x \in Chunk : x \in Range(wr'[d].accepted)
                         <=> x \in Range(wr'[d].sunk) \/ x \in Range(wr'[d].corkBuf) \/ OnTheWay(stack', d, x)
  BY <1>3 DEF SameSink, Given
<1>9. ~wr'[d].overtaken =>
        \E h \in Seq(Chunk) : Holding(stack', d, h) /\ InTurn(wr'[d].accepted, wr'[d].sunk, Now(d)', h, wr'[d].corkBuf)
  BY <1>4, <1>5, <1>6, Zenon DEF SameSink, Given
<1> QED BY <1>7, <1>8, <1>9 DEF Given

\* The innermost call that ends, and what it leaves.
LEMMA TopEnds ==
  ASSUME Shape, NEW op, Top(op)
  PROVE  /\ stack \in Seq(Frame(Streams)) /\ stack # <<>> /\ Tail(stack) \in Seq(Frame(Streams))
         /\ Head(stack).op = op /\ Head(stack).s = S /\ Head(stack).x = X
         /\ \A i \in 1..Len(Tail(stack)) : Tail(stack)[i].op \notin AtOnce
         /\ Tail(stack) # <<>> => Head(Tail(stack)).op \notin AtOnce
<1>1. Types /\ StackInv /\ stack \in Seq(Frame(Streams)) /\ stack # <<>>
  BY DEF Shape, Types, Top
<1>2. Tail(stack) \in Seq(Frame(Streams)) /\ Under(Tail(stack))
  BY <1>1, HeadTail, Innermost
<1>3. \A i \in 1..Len(Tail(stack)) : Tail(stack)[i].op \notin AtOnce
  BY <1>1, <1>2, RestFacts
<1>4. PICK t : t = Tail(stack)
  OBVIOUS
<1>5. ASSUME t # <<>>
      PROVE  Head(t).op \notin AtOnce
  <2>1. t \in Seq(Frame(Streams))
    BY <1>2, <1>4
  <2>2. 1 \in 1..Len(t) /\ Head(t) = t[1]
    BY <1>5, <2>1, HeadTailProperties, EmptySeq
  <2> QED BY <1>3, <1>4, <2>2
<1> QED BY <1>1, <1>2, <1>3, <1>4, <1>5, Zenon DEF Top, S, X

LEMMA WritableTypes ==
  ASSUME Types, NEW d \in Streams
  PROVE  /\ wr[d] \in WritableHalf /\ wr[d].accepted \in Seq(Chunk) /\ wr[d].sunk \in Seq(Chunk)
         /\ wr[d].corkBuf \in Seq(Chunk) /\ wr[d].corked \in Nat /\ wr[d].overtaken \in BOOLEAN
BY DEF Types, WritableHalf

LEMMA GivenWriteHeld ==
  ASSUME Shape, Write, NEW d \in Streams, S = d, Given(d), Corked(d)
  PROVE  Given(d)'
<1>1. Types /\ X \in Chunk /\ Top("write")
  BY WriteDoes DEF Shape
<1>2. PICK h \in WritableHalf :
        /\ wr' = [wr EXCEPT ![S] = h] /\ h.sunk = wr[S].sunk /\ h.corked = wr[S].corked
        /\ h.accepted = Append(wr[S].accepted, X)
        /\ Then(<<>>) /\ h.corkBuf = Append(wr[S].corkBuf, X) /\ h.overtaken = wr[S].overtaken
  BY <1>1, WriteDoes
<1>3. wr'[d] = h
  BY <1>1, <1>2, WritableChanged
<1>4. PICK acc \in Seq(Chunk), snk \in Seq(Chunk), buf \in Seq(Chunk) :
        acc = wr[d].accepted /\ snk = wr[d].sunk /\ buf = wr[d].corkBuf
  BY <1>1, WritableTypes
<1>5. Range(Append(acc, X)) = Range(acc) \cup {X} /\ Range(Append(buf, X)) = Range(buf) \cup {X}
  BY <1>1, RangeAppend
<1>6. PICK t \in Seq(Frame(Streams)) : t = Tail(stack)
  BY <1>1, TopEnds
<1>7. stack' = t
  BY <1>2, <1>6, ConcatEmptySeq DEF Then
<1>8. \A x : OnTheWay(stack, d, x) <=> OnTheWay(t, d, x)
  <2>1. \A x : ~Carries(Head(stack), d, x)
    BY <1>1 DEF Carries, Top
  <2> QED BY <1>1, <1>6, <2>1, TopEnds, WayHead
<1>9. \A g : Holding(stack, d, g) => Holding(t, d, g)
  <2>1. ~IsFlush(Head(stack), d)
    BY <1>1 DEF IsFlush, Top
  <2> QED BY <1>1, <1>6, <2>1, TopEnds, HoldingTail
<1>10. Now(d) = <<>> /\ Now(d)' = <<>>
  <2>1. ~Top("writeNow")
    BY <1>1 DEF Top
  <2>2. ~Top("writeNow")'
    BY <1>1, <1>6, <1>7, TopEnds DEF Top, AtOnce
  <2> QED BY <2>1, <2>2 DEF Now
<1>11. wr'[d].corked # 0
  BY <1>1, <1>2, <1>3, WritableTypes DEF Corked
<1>12. ~h.overtaken => \E g \in Seq(Chunk) : Holding(t, d, g) /\ InTurn(Append(acc, X), snk, <<>>, g, Append(buf, X))
  <2> SUFFICES ASSUME ~h.overtaken
               PROVE  \E g \in Seq(Chunk) : Holding(t, d, g) /\ InTurn(Append(acc, X), snk, <<>>, g, Append(buf, X))
    OBVIOUS
  <2>1. PICK g \in Seq(Chunk) : Holding(stack, d, g) /\ InTurn(acc, snk, <<>>, g, buf)
    BY <1>2, <1>4, <1>10, Zenon DEF Given
  <2>2. PICK none \in Seq(Chunk) : none = <<>>
    BY EmptySeq
  <2>3. InTurn(Append(acc, X), snk, none, g, Append(buf, X))
    BY <1>1, <2>1, <2>2, TurnHeld
  <2> QED BY <1>9, <2>1, <2>2, <2>3, Zenon
<1>13. \A x \in Chunk : x \in Range(Append(acc, X)) <=> x \in Range(snk) \/ x \in Range(Append(buf, X)) \/ OnTheWay(t, d, x)
  BY <1>4, <1>5, <1>8 DEF Given
<1> QED BY <1>2, <1>3, <1>4, <1>7, <1>10, <1>11, <1>12, <1>13, Zenon DEF Given

LEMMA GivenWriteOn ==
  ASSUME Shape, Write, NEW d \in Streams, S = d, Given(d), ~Corked(d)
  PROVE  Given(d)'
<1>1. Types /\ X \in Chunk /\ Top("write")
  BY WriteDoes DEF Shape
<1>2. PICK h \in WritableHalf :
        /\ wr' = [wr EXCEPT ![S] = h] /\ h.sunk = wr[S].sunk /\ h.corked = wr[S].corked
        /\ h.accepted = Append(wr[S].accepted, X)
        /\ Then(<<Call("writeNow", S, X)>>) /\ h.corkBuf = wr[S].corkBuf
        /\ (wr[S].overtaken \/ Flushing(S) => h.overtaken)
  BY <1>1, WriteDoes
<1>3. wr'[d] = h
  BY <1>1, <1>2, WritableChanged
<1>4. PICK acc \in Seq(Chunk), snk \in Seq(Chunk), none \in Seq(Chunk) :
        acc = wr[d].accepted /\ snk = wr[d].sunk /\ none = <<>>
  BY <1>1, WritableTypes, EmptySeq
<1>5. wr[d].corkBuf = none /\ h.corkBuf = none
  <2>1. wr[d].corked = 0
    BY <1>1, WritableTypes DEF Corked
  <2> QED BY <1>2, <1>4, <2>1 DEF Given
<1>6. Range(Append(acc, X)) = Range(acc) \cup {X}
  BY <1>1, RangeAppend
<1>7. PICK t \in Seq(Frame(Streams)) : t = Tail(stack)
  BY <1>1, TopEnds
<1>8. PICK f \in Frame(Streams) : f = Call("writeNow", d, X)
  BY <1>1, FrameTypes
<1>9. f.op = "writeNow" /\ f.s = d /\ f.x = X
  BY <1>8 DEF Call
<1>10. stack' = <<f>> \o t
  BY <1>2, <1>7, <1>8 DEF Then
<1>11. stack' # <<>> /\ Head(stack') = f
  BY <1>10, OneOn
<1>12. \A x : OnTheWay(stack', d, x) <=> x = X \/ OnTheWay(stack, d, x)
  <2>1. \A x : ~Carries(Head(stack), d, x) /\ (Carries(f, d, x) <=> x = X)
    BY <1>1, <1>9 DEF Carries, Top
  <2>2. \A x : OnTheWay(stack, d, x) <=> OnTheWay(t, d, x)
    BY <1>1, <1>7, <2>1, TopEnds, WayHead
  <2>3. \A x : OnTheWay(stack', d, x) <=> Carries(f, d, x) \/ OnTheWay(t, d, x)
    BY <1>10, OneOn
  <2> QED BY <2>1, <2>2, <2>3
<1>13. \A g : Holding(stack, d, g) => Holding(stack', d, g)
  <2>1. ~IsFlush(Head(stack), d) /\ ~IsFlush(f, d)
    BY <1>1, <1>9 DEF IsFlush, Top
  <2>2. \A g : Holding(stack, d, g) => Holding(t, d, g)
    BY <1>1, <1>7, <2>1, TopEnds, HoldingTail
  <2> QED BY <1>10, <2>1, <2>2, OneOn
<1>14. Now(d) = <<>> /\ Now(d)' = <<X>>
  <2>1. ~Top("writeNow")
    BY <1>1 DEF Top
  <2>2. Top("writeNow")' /\ S' = d /\ X' = X
    BY <1>9, <1>11 DEF Top, S, X
  <2> QED BY <2>1, <2>2 DEF Now
<1>15. ~h.overtaken => \E g \in Seq(Chunk) : Holding(stack', d, g) /\ InTurn(Append(acc, X), snk, <<X>>, g, none)
  <2> SUFFICES ASSUME ~h.overtaken
               PROVE  \E g \in Seq(Chunk) : Holding(stack', d, g) /\ InTurn(Append(acc, X), snk, <<X>>, g, none)
    OBVIOUS
  <2>1. PICK g \in Seq(Chunk) : Holding(stack, d, g) /\ InTurn(acc, snk, none, g, none)
    BY <1>2, <1>4, <1>5, <1>14, Zenon DEF Given
  <2>2. NoFlush(stack, d)
    BY <1>2 DEF Flushing, NoFlush, IsFlush
  <2>3. g = none
    <3>1. \A k \in 1..Len(stack) : stack[k] # Call("flush", d, g)
      BY <2>2, FlushCall DEF NoFlush
    <3> QED BY <1>4, <2>1, <3>1 DEF Holding
  <2>4. InTurn(Append(acc, X), snk, <<X>>, none, none)
    BY <1>1, <1>4, <2>1, <2>3, TurnGiven
  <2> QED BY <1>13, <2>1, <2>3, <2>4, Zenon
<1>16. \A x \in Chunk : x \in Range(Append(acc, X)) <=> x \in Range(snk) \/ x \in Range(none) \/ OnTheWay(stack', d, x)
  BY <1>4, <1>5, <1>6, <1>12 DEF Given
<1> QED BY <1>2, <1>3, <1>4, <1>5, <1>14, <1>15, <1>16, Zenon DEF Given

LEMMA GivenWriteNow ==
  ASSUME Shape, WriteNow, NEW d \in Streams, S = d, Given(d)
  PROVE  Given(d)'
<1>1. Types /\ X \in Chunk /\ Top("writeNow")
  BY WriteNowDoes DEF Shape
<1>2. PICK h \in WritableHalf :
        /\ wr' = [wr EXCEPT ![S] = h]
        /\ h.accepted = wr[S].accepted /\ h.corkBuf = wr[S].corkBuf /\ h.corked = wr[S].corked
        /\ h.overtaken = wr[S].overtaken /\ h.sunk = Append(wr[S].sunk, X) /\ Then(<<User>>)
  BY <1>1, WriteNowDoes
<1>3. wr'[d] = h
  BY <1>1, <1>2, WritableChanged
<1>4. PICK acc \in Seq(Chunk), snk \in Seq(Chunk), buf \in Seq(Chunk) :
        acc = wr[d].accepted /\ snk = wr[d].sunk /\ buf = wr[d].corkBuf
  BY <1>1, WritableTypes
<1>6. Range(Append(snk, X)) = Range(snk) \cup {X}
  BY <1>1, RangeAppend
<1>7. PICK t \in Seq(Frame(Streams)) : t = Tail(stack)
  BY <1>1, TopEnds
<1>8. PICK f \in Frame(Streams) : f = User
  BY <1>1, FrameTypes
<1>9. f.op = "user"
  BY <1>8 DEF User, Call
<1>10. stack' = <<f>> \o t
  BY <1>2, <1>7, <1>8 DEF Then
<1>11. stack' # <<>> /\ Head(stack') = f
  BY <1>10, OneOn
<1>12. \A x : OnTheWay(stack, d, x) <=> x = X \/ OnTheWay(stack', d, x)
  <2>1. \A x : (Carries(Head(stack), d, x) <=> x = X) /\ ~Carries(f, d, x)
    BY <1>1, <1>9 DEF Carries, Top, S, X
  <2>2. \A x : OnTheWay(stack, d, x) <=> Carries(Head(stack), d, x) \/ OnTheWay(t, d, x)
    BY <1>1, <1>7, TopEnds, WayHead
  <2>3. \A x : OnTheWay(stack', d, x) <=> Carries(f, d, x) \/ OnTheWay(t, d, x)
    BY <1>10, OneOn
  <2> QED BY <2>1, <2>2, <2>3
<1>13. \A g : Holding(stack, d, g) => Holding(stack', d, g)
  <2>1. ~IsFlush(Head(stack), d) /\ ~IsFlush(f, d)
    BY <1>1, <1>9 DEF IsFlush, Top
  <2>2. \A g : Holding(stack, d, g) => Holding(t, d, g)
    BY <1>1, <1>7, <2>1, TopEnds, HoldingTail
  <2> QED BY <1>10, <2>1, <2>2, OneOn
<1>14. Now(d) = <<X>> /\ Now(d)' = <<>>
  <2>1. ~Top("writeNow")'
    BY <1>9, <1>11 DEF Top
  <2> QED BY <1>1, <2>1 DEF Now
<1>15. ~h.overtaken => \E g \in Seq(Chunk) : Holding(stack', d, g) /\ InTurn(acc, Append(snk, X), <<>>, g, buf)
  <2> SUFFICES ASSUME ~h.overtaken
               PROVE  \E g \in Seq(Chunk) : Holding(stack', d, g) /\ InTurn(acc, Append(snk, X), <<>>, g, buf)
    OBVIOUS
  <2>1. PICK g \in Seq(Chunk) : Holding(stack, d, g) /\ InTurn(acc, snk, <<X>>, g, buf)
    BY <1>2, <1>4, <1>14, Zenon DEF Given
  <2>2. PICK none \in Seq(Chunk) : none = <<>>
    BY EmptySeq
  <2>3. InTurn(acc, Append(snk, X), none, g, buf)
    BY <1>1, <2>1, <2>2, TurnSunk
  <2> QED BY <1>13, <2>1, <2>2, <2>3, Zenon
<1>16. \A x \in Chunk : x \in Range(acc) <=> x \in Range(Append(snk, X)) \/ x \in Range(buf) \/ OnTheWay(stack', d, x)
  BY <1>4, <1>6, <1>12 DEF Given
<1>17. h.corked = 0 => buf = <<>>
  BY <1>2, <1>4 DEF Given
<1> QED BY <1>2, <1>3, <1>4, <1>14, <1>15, <1>16, <1>17, Zenon DEF Given

LEMMA GivenFlush ==
  ASSUME Shape, Flush, NEW d \in Streams, S = d, Given(d)
  PROVE  Given(d)'
<1>1. Types /\ Top("flush") /\ wr' = wr
  BY DEF Shape, Flush
<1>2. Head(stack) \in Frame(Streams) /\ Head(stack).op = "flush" /\ Head(stack).s = d /\ Head(stack).x = X
  BY <1>1, Innermost DEF Top, S, X
<1>3. X \in Seq(Chunk) /\ Head(stack) = Call("flush", d, X)
  BY <1>2, FrameFields
<1>4. PICK t \in Seq(Frame(Streams)) : t = Tail(stack)
  BY <1>1, TopEnds
<1>5. PICK acc \in Seq(Chunk), snk \in Seq(Chunk), buf \in Seq(Chunk) :
        acc = wr[d].accepted /\ snk = wr[d].sunk /\ buf = wr[d].corkBuf
  BY <1>1, WritableTypes
<1>6. Now(d) = <<>>
  BY <1>1 DEF Now, Top
<1>7. \A g : Holding(stack, d, g) => g = X /\ NoFlush(t, d)
  BY <1>1, <1>3, <1>4, TopEnds, HoldingHead
<1>8. \A x : OnTheWay(stack, d, x) <=> x \in Range(X) \/ OnTheWay(t, d, x)
  <2>1. \A x : Carries(Head(stack), d, x) <=> x \in Range(X)
    BY <1>2 DEF Carries
  <2>2. \A x : OnTheWay(stack, d, x) <=> Carries(Head(stack), d, x) \/ OnTheWay(t, d, x)
    BY <1>1, <1>4, TopEnds, WayHead
  <2> QED BY <2>1, <2>2
<1>9. CASE X = <<>>
  <2>1. stack' = t
    BY <1>4, <1>9, ConcatEmptySeq DEF Flush, Then
  <2>2. \A x : OnTheWay(stack, d, x) <=> OnTheWay(t, d, x)
    BY <1>8, <1>9 DEF Range
  <2>3. \A g : Holding(stack, d, g) => Holding(t, d, g)
    BY <1>7, <1>9 DEF Holding
  <2>4. Now(d)' = <<>>
    <3>1. ~Top("writeNow")'
      BY <1>1, <1>4, <2>1, TopEnds DEF Top, AtOnce
    <3> QED BY <3>1 DEF Now
  <2> QED BY <1>1, <1>6, <2>1, <2>2, <2>3, <2>4, Zenon DEF Given
<1>10. CASE X # <<>>
  <2>1. PICK c \in Chunk, rest \in Seq(Chunk) : c = Head(X) /\ rest = Tail(X)
    BY <1>3, <1>10, HeadTail
  <2>2. Range(X) = {c} \cup Range(rest)
    BY <1>3, <1>10, <2>1, HeadTail
  <2>3. PICK f \in Frame(Streams), g \in Frame(Streams) : f = Call("writeNow", d, c) /\ g = Call("flush", d, rest)
    BY FrameTypes
  <2>4. f.op = "writeNow" /\ f.s = d /\ f.x = c /\ g.op = "flush" /\ g.s = d /\ g.x = rest
    BY <2>3 DEF Call
  <2>5. stack' = <<f, g>> \o t
    BY <1>4, <1>10, <2>1, <2>3 DEF Flush, Then
  <2>6. stack' # <<>> /\ Head(stack') = f
    BY <2>5, TwoOn
  <2>7. \A x : OnTheWay(stack', d, x) <=> OnTheWay(stack, d, x)
    <3>1. \A x : (Carries(f, d, x) <=> x = c) /\ (Carries(g, d, x) <=> x \in Range(rest))
      BY <2>4 DEF Carries
    <3>2. \A x : OnTheWay(stack', d, x) <=> Carries(f, d, x) \/ Carries(g, d, x) \/ OnTheWay(t, d, x)
      BY <2>5, TwoOn
    <3> QED BY <1>8, <2>2, <3>1, <3>2
  <2>8. Now(d)' = <<c>>
    BY <2>4, <2>6 DEF Now, Top, S, X
  <2>9. ASSUME NEW h, Holding(stack, d, h)
        PROVE  h = X /\ Holding(stack', d, rest)
    <3>1. ~IsFlush(f, d)
      BY <2>4 DEF IsFlush
    <3> QED BY <1>7, <2>3, <2>5, <2>9, <3>1, TwoOn
  <2>10. ~wr[d].overtaken => \E h \in Seq(Chunk) : Holding(stack', d, h) /\ InTurn(acc, snk, <<c>>, h, buf)
    <3> SUFFICES ASSUME ~wr[d].overtaken
                 PROVE  Holding(stack', d, rest) /\ InTurn(acc, snk, <<c>>, rest, buf)
      OBVIOUS
    <3>1. PICK h \in Seq(Chunk) : Holding(stack, d, h) /\ InTurn(acc, snk, <<>>, h, buf)
      BY <1>5, <1>6, Zenon DEF Given
    <3>2. h = X /\ Holding(stack', d, rest)
      BY <2>9, <3>1
    <3>3. InTurn(acc, snk, <<Head(h)>>, Tail(h), buf)
      BY <1>10, <3>1, <3>2, TurnFlushed
    <3> QED BY <2>1, <3>2, <3>3, Zenon
  <2>11. \A x \in Chunk : x \in Range(acc) <=> x \in Range(snk) \/ x \in Range(buf) \/ OnTheWay(stack', d, x)
    BY <1>5, <2>7 DEF Given
  <2>12. wr[d].corked = 0 => buf = <<>>
    BY <1>5 DEF Given
  <2> QED BY <1>1, <1>5, <2>8, <2>10, <2>11, <2>12, Zenon DEF Given
<1> QED BY <1>9, <1>10

LEMMA GivenUncork ==
  ASSUME Shape, Uncork, NEW d \in Streams, S = d, Given(d)
  PROVE  Given(d)'
<1>1. Types /\ Top("uncork")
  BY UncorkDoes DEF Shape
<1>2. PICK h \in WritableHalf :
        /\ wr' = [wr EXCEPT ![S] = h] /\ h.accepted = wr[S].accepted
        /\ \/ /\ Then(<<>>) /\ h.sunk = wr[S].sunk /\ h.corkBuf = wr[S].corkBuf
              /\ h.overtaken = wr[S].overtaken
              /\ h.corked = wr[S].corked \/ h.corked # 0 \/ wr[S].corkBuf = <<>>
           \/ /\ h.corkBuf = <<>> /\ (wr[S].overtaken \/ Flushing(S) => h.overtaken)
              /\ \/ Then(<<User>>) /\ h.sunk = wr[S].sunk \o wr[S].corkBuf
                 \/ Then(<<Call("flush", S, wr[S].corkBuf)>>) /\ h.sunk = wr[S].sunk
  BY <1>1, UncorkDoes
<1>3. wr'[d] = h
  BY <1>1, <1>2, WritableChanged
<1>4. PICK acc \in Seq(Chunk), snk \in Seq(Chunk), buf \in Seq(Chunk), none \in Seq(Chunk) :
        acc = wr[d].accepted /\ snk = wr[d].sunk /\ buf = wr[d].corkBuf /\ none = <<>>
  BY <1>1, WritableTypes, EmptySeq
<1>5. PICK t \in Seq(Frame(Streams)) : t = Tail(stack)
  BY <1>1, TopEnds
<1>6. \A x : OnTheWay(stack, d, x) <=> OnTheWay(t, d, x)
  <2>1. \A x : ~Carries(Head(stack), d, x)
    BY <1>1 DEF Carries, Top
  <2> QED BY <1>1, <1>5, <2>1, TopEnds, WayHead
<1>7. \A g : Holding(stack, d, g) => Holding(t, d, g)
  <2>1. ~IsFlush(Head(stack), d)
    BY <1>1 DEF IsFlush, Top
  <2> QED BY <1>1, <1>5, <2>1, TopEnds, HoldingTail
<1>8. Now(d) = <<>>
  BY <1>1 DEF Now, Top
\* When nothing of d is being flushed, what is accepted is with the sink or held.
<1>9. ~Flushing(d) /\ ~wr[d].overtaken => NoFlush(t, d) /\ InTurn(acc, snk, none, none, buf)
  <2> SUFFICES ASSUME ~Flushing(d), ~wr[d].overtaken
               PROVE  NoFlush(t, d) /\ InTurn(acc, snk, none, none, buf)
    OBVIOUS
  <2>1. PICK g \in Seq(Chunk) : Holding(stack, d, g) /\ InTurn(acc, snk, <<>>, g, buf)
    BY <1>4, <1>8, Zenon DEF Given
  <2>2. NoFlush(stack, d)
    BY DEF Flushing, NoFlush, IsFlush
  <2>3. g = none
    <3>1. \A k \in 1..Len(stack) : stack[k] # Call("flush", d, g)
      BY <2>2, FlushCall DEF NoFlush
    <3> QED BY <1>4, <2>1, <3>1 DEF Holding
  <2>4. NoFlush(t, d)
    <3>1. Holding(stack, d, <<>>)
      BY <2>2 DEF Holding
    <3>2. Holding(t, d, <<>>)
      BY <1>7, <3>1
    <3>3. PICK m \in Nat : Len(t) = m /\ Len(stack) = m + 1 /\ \A i \in 1..m : t[i] = stack[i + 1]
      <4>1. stack \in Seq(Frame(Streams)) /\ stack # <<>>
        BY <1>1, TopEnds
      <4> QED BY <1>5, <4>1, TailParts
    <3>4. \A i \in 1..m : i + 1 \in 1..Len(stack)
      BY <3>3
    <3> QED BY <2>2, <3>3, <3>4 DEF NoFlush
  <2> QED BY <1>4, <2>1, <2>3, <2>4, Zenon
<1>10. CASE /\ Then(<<>>) /\ h.sunk = wr[S].sunk /\ h.corkBuf = wr[S].corkBuf
            /\ h.overtaken = wr[S].overtaken
            /\ h.corked = wr[S].corked \/ h.corked # 0 \/ wr[S].corkBuf = <<>>
  <2>1. stack' = t
    BY <1>5, <1>10, ConcatEmptySeq DEF Then
  <2>2. Now(d)' = <<>>
    <3>1. ~Top("writeNow")'
      BY <1>1, <1>5, <2>1, TopEnds DEF Top, AtOnce
    <3> QED BY <3>1 DEF Now
  <2>3. h.corked = 0 => h.corkBuf = <<>>
    BY <1>10 DEF Given
  <2> QED BY <1>2, <1>3, <1>6, <1>7, <1>8, <1>10, <2>1, <2>2, <2>3, Zenon DEF Given
<1>11. CASE h.corkBuf = <<>> /\ (wr[S].overtaken \/ Flushing(S) => h.overtaken)
            /\ Then(<<User>>) /\ h.sunk = wr[S].sunk \o wr[S].corkBuf
  <2>1. PICK f \in Frame(Streams) : f = User
    BY FrameTypes
  <2>2. f.op = "user"
    BY <2>1 DEF User, Call
  <2>3. stack' = <<f>> \o t
    BY <1>5, <1>11, <2>1 DEF Then
  <2>4. stack' # <<>> /\ Head(stack') = f
    BY <2>3, OneOn
  <2>5. \A x : OnTheWay(stack', d, x) <=> OnTheWay(stack, d, x)
    <3>1. \A x : ~Carries(f, d, x)
      BY <2>2 DEF Carries
    <3> QED BY <1>6, <2>3, <3>1, OneOn
  <2>6. Now(d)' = <<>>
    BY <2>2, <2>4 DEF Now, Top
  <2>7. Range(snk \o buf) = Range(snk) \cup Range(buf)
    BY RangeConcat
  <2>8. ~h.overtaken => \E g \in Seq(Chunk) : Holding(stack', d, g) /\ InTurn(acc, snk \o buf, <<>>, g, <<>>)
    <3> SUFFICES ASSUME ~h.overtaken
                 PROVE  Holding(stack', d, none) /\ InTurn(acc, snk \o buf, <<>>, none, <<>>)
      BY <1>4
    <3>1. NoFlush(t, d) /\ InTurn(acc, snk, none, none, buf)
      BY <1>9, <1>11
    <3>2. Holding(t, d, none) /\ ~IsFlush(f, d)
      BY <1>4, <2>2, <3>1 DEF Holding, IsFlush
    <3>3. Holding(stack', d, none)
      BY <2>3, <3>2, OneOn
    <3>4. InTurn(acc, snk \o buf, none, none, none)
      BY <1>4, <3>1, TurnTaken
    <3> QED BY <1>4, <3>3, <3>4, Zenon
  <2>9. \A x \in Chunk : x \in Range(acc) <=> x \in Range(snk \o buf) \/ x \in Range(<<>>) \/ OnTheWay(stack', d, x)
    <3>1. Range(<<>>) = {}
      BY DEF Range
    <3> QED BY <1>4, <2>5, <2>7, <3>1 DEF Given
  <2> QED BY <1>2, <1>3, <1>4, <1>11, <2>6, <2>8, <2>9, Zenon DEF Given
<1>12. CASE h.corkBuf = <<>> /\ (wr[S].overtaken \/ Flushing(S) => h.overtaken)
            /\ Then(<<Call("flush", S, wr[S].corkBuf)>>) /\ h.sunk = wr[S].sunk
  <2>1. PICK f \in Frame(Streams) : f = Call("flush", d, buf)
    BY FrameTypes
  <2>2. f.op = "flush" /\ f.s = d /\ f.x = buf
    BY <2>1 DEF Call
  <2>3. stack' = <<f>> \o t
    BY <1>4, <1>5, <1>12, <2>1 DEF Then
  <2>4. stack' # <<>> /\ Head(stack') = f
    BY <2>3, OneOn
  <2>5. \A x : OnTheWay(stack', d, x) <=> x \in Range(buf) \/ OnTheWay(stack, d, x)
    <3>1. \A x : Carries(f, d, x) <=> x \in Range(buf)
      BY <2>2 DEF Carries
    <3> QED BY <1>6, <2>3, <3>1, OneOn
  <2>6. Now(d)' = <<>>
    BY <2>2, <2>4 DEF Now, Top
  <2>7. ~h.overtaken => \E g \in Seq(Chunk) : Holding(stack', d, g) /\ InTurn(acc, snk, <<>>, g, <<>>)
    <3> SUFFICES ASSUME ~h.overtaken
                 PROVE  Holding(stack', d, buf) /\ InTurn(acc, snk, <<>>, buf, <<>>)
      OBVIOUS
    <3>1. NoFlush(t, d) /\ InTurn(acc, snk, none, none, buf)
      BY <1>9, <1>12
    <3>2. Holding(stack', d, buf)
      <4>1. PICK one : one = <<f>>
        OBVIOUS
      <4>2. one \in Seq(Frame(Streams)) /\ Len(one) = 1 /\ one[1] = f
        BY <4>1
      <4>3. 1 \in 1..Len(one) /\ \A i \in 1..Len(one) : i # 1 => ~IsFlush(one[i], d)
        BY <4>2
      <4>4. Holding(one \o t, d, buf)
        BY <2>1, <3>1, <4>2, <4>3, HoldingNew
      <4> QED BY <2>3, <4>1, <4>4
    <3>3. InTurn(acc, snk, none, buf, none)
      BY <1>4, <3>1, TurnTaken
    <3> QED BY <1>4, <3>2, <3>3, Zenon
  <2>8. \A x \in Chunk : x \in Range(acc) <=> x \in Range(snk) \/ x \in Range(<<>>) \/ OnTheWay(stack', d, x)
    <3>1. Range(<<>>) = {}
      BY DEF Range
    <3> QED BY <1>4, <2>5, <3>1 DEF Given
  <2> QED BY <1>2, <1>3, <1>4, <1>12, <2>6, <2>7, <2>8, Zenon DEF Given
<1> QED BY <1>2, <1>10, <1>11, <1>12

\* What a writable stream was given its sink has, in turn, or what is held has, or it is on
\* its way.
WriteInv == \A d \in Corkables : Given(d)

LEMMA StepWrite ==
  ASSUME Shape, WriteInv, Next
  PROVE  WriteInv'
<1>1. Types
  BY DEF Shape
<1>2. SUFFICES ASSUME NEW d \in Corkables
               PROVE  Given(d)'
  BY SetupKept DEF WriteInv
<1>3. d \in Streams /\ Class(d) = "writable" /\ Given(d)
  BY DEF Corkables, WriteInv
<1>4. CASE S = d /\ Top("write")
  <2>1. Write
    BY <1>3, <1>4, WhoActs, TransformDoes, <1>1
  <2> QED BY <1>3, <1>4, <2>1, GivenWriteHeld, GivenWriteOn
<1>5. CASE S = d /\ Top("writeNow")
  BY <1>3, <1>5, WhoActs, GivenWriteNow
<1>6. CASE S = d /\ Top("flush")
  BY <1>3, <1>6, WhoActs, GivenFlush
<1>7. CASE S = d /\ Top("uncork")
  BY <1>3, <1>7, WhoActs, GivenUncork
<1>8. CASE ~ActsOn(d)
  <2>1. ~(S = d /\ (Write \/ WriteTransform \/ WriteNow \/ Uncork))
    BY <1>8 DEF ActsOn, Write, WriteTransform, WriteNow, Uncork, Top
  <2>2. SameSink(d)
    BY <1>1, <1>3, <2>1, WritableStep
  <2> QED BY <1>3, <1>8, <2>2, GivenUntouched
<1> QED BY <1>4, <1>5, <1>6, <1>7, <1>8 DEF ActsOn, Top

LEMMA WriteAlways == Spec => []WriteInv
<1>1. Init => WriteInv
  <2> SUFFICES ASSUME Init, NEW d \in Corkables
               PROVE  Given(d)
    BY DEF WriteInv
  <2>1. d \in Streams /\ stack = <<>>
    BY DEF Corkables, Init
  <2>2. /\ wr[d].accepted = <<>> /\ wr[d].sunk = <<>> /\ wr[d].corkBuf = <<>> /\ Now(d) = <<>>
    BY <2>1 DEF Init, NewWritable, Now, Top
  <2>3. PICK none \in Seq(Chunk) : none = <<>> /\ Len(none) = 0 /\ Range(none) = {}
    <3>1. <<>> \in Seq(Chunk) /\ Len(<<>>) = 0
      BY EmptySeq
    <3>2. Range(<<>>) = {}
      BY DEF Range
    <3> QED BY <3>1, <3>2
  <2>4. Holding(none, d, none) /\ \A x : ~OnTheWay(none, d, x)
    BY <2>3 DEF Holding, NoFlush, OnTheWay
  <2>5. InTurn(none, none, none, none, none)
    <3>1. none \o none = none
      BY <2>3, ConcatEmptySeq
    <3> QED BY <3>1 DEF InTurn
  <2> QED BY <2>1, <2>2, <2>3, <2>4, <2>5, Zenon DEF Given
<1>2. Shape /\ WriteInv /\ [Next]_vars => WriteInv'
  <2>1. ASSUME WriteInv, UNCHANGED vars
        PROVE  WriteInv'
    BY <2>1, SetupKept DEF vars, WriteInv, Given, Now, Top, S, X
  <2> QED BY <2>1, StepWrite
<1> QED BY <1>1, <1>2, ShapeAlways, PTL DEF Spec

-----------------------------------------------------------------------------
(* What a stream is piped to *)

\* Chunk x of s is about to be written to d.
Due(s, d, x) ==
  \/ \E e \in Range(stack) : e.op = "emit" /\ e.ev = "data" /\ e.s = s /\ e.x = x /\ d \in Range(e.to)
  \/ Top("write") /\ S = d /\ X = x

\* What s has handed on was written to d, but for the last chunk when it is due.
Passed(s, d) ==
  \/ Within(rd[s].delivered, wr[d].accepted)
  \/ \E prev \in Seq(Chunk), x \in Chunk :
       rd[s].delivered = Append(prev, x) /\ Within(prev, wr[d].accepted) /\ Due(s, d, x)

PipeInv == \A s, d \in Streams : <<s, d>> \in linked => d \in Range(rd[s].listeners) /\ Passed(s, d)

\* What a step does to what a stream was given.
LEMMA AcceptedStep ==
  ASSUME Types, Next, NEW d \in Streams
  PROVE  /\ \/ wr'[d].accepted = wr[d].accepted
            \/ X \in Chunk /\ wr'[d].accepted = Append(wr[d].accepted, X)
         /\ Top("write") /\ S = d => wr'[d].accepted = Append(wr[d].accepted, X)
<1>1. ASSUME Write \/ WriteTransform, S = d
      PROVE  X \in Chunk /\ wr'[d].accepted = Append(wr[d].accepted, X)
  <2>1. \E h \in WritableHalf : wr' = [wr EXCEPT ![S] = h] /\ h.accepted = Append(wr[S].accepted, X)
    BY <1>1, WriteDoes, TransformDoes
  <2>2. X \in Chunk
    BY <1>1, Innermost, FrameFields DEF Write, WriteTransform, Top, X
  <2> QED BY <1>1, <2>1, <2>2, WritableChanged
<1>2. ASSUME WriteNow \/ Uncork, S = d
      PROVE  wr'[d].accepted = wr[d].accepted
  <2>1. \E h \in WritableHalf : wr' = [wr EXCEPT ![S] = h] /\ h.accepted = wr[S].accepted
    BY <1>2, WriteNowDoes, UncorkDoes
  <2> QED BY <1>2, <2>1, WritableChanged
<1>3. SameSink(d) => wr'[d].accepted = wr[d].accepted
  BY DEF SameSink
<1>4. Top("write") => Write \/ WriteTransform
  BY WhoActs
<1> QED BY <1>1, <1>2, <1>3, <1>4, WritableStep

\* A chunk that is due stays so until it is written.
LEMMA DueStays ==
  ASSUME Shape, Next, NEW s, NEW d \in Streams, NEW x, Due(s, d, x)
  PROVE  Due(s, d, x)' \/ (Top("write") /\ S = d /\ X = x)
<1>1. Types /\ Moved /\ stack \in Seq(Frame(Streams))
  BY StepShape DEF Shape, Types
<1>2. SUFFICES ASSUME NEW e \in Range(stack), e.op = "emit", e.ev = "data", e.s = s, e.x = x, d \in Range(e.to)
               PROVE  Due(s, d, x)'
  BY DEF Due
<1>3. CASE e \in Range(stack')
  BY <1>2, <1>3 DEF Due
<1>4. CASE stack # <<>> /\ e = Head(stack)
  <2>1. EmitNext
    BY <1>2, <1>4, WhoActs DEF Top
  <2>2. /\ e \in Frame(Streams) /\ e.to \in Seq(Streams \cup {"user"}) /\ x \in Chunk
    BY <1>1, <1>2, <1>4, Innermost, FrameFields
  <2>3. e.to # <<>>
    <3>1. Range(<<>>) = {}
      BY DEF Range
    <3> QED BY <1>2, <3>1
  <2>4. PICK l, rest : l = Head(e.to) /\ rest = Tail(e.to)
    OBVIOUS
  <2>5. l \in Streams \cup {"user"} /\ rest \in Seq(Streams \cup {"user"}) /\ Range(e.to) = {l} \cup Range(rest)
    BY <2>2, <2>3, <2>4, HeadTail
  <2>6. PICK g : g = Left(e, rest)
    OBVIOUS
  <2>7. g \in Frame(Streams) /\ g.op = "emit" /\ g.s = s /\ g.ev = "data" /\ g.x = x /\ g.to = rest
    BY <1>2, <2>2, <2>5, <2>6, EmitRest
  <2>8. PICK f : f = IF l = "user" THEN User ELSE Call("write", l, x)
    OBVIOUS
  <2>9. stack' = <<f, g>> \o Tail(stack)
    <3>1. stack' = << IF l = "user" THEN User ELSE IF e.ev = "data" THEN Call("write", l, e.x) ELSE Call("end", l, NoChunk),
                      [e EXCEPT !.to = Tail(e.to)] >> \o Tail(stack)
      BY <1>4, <2>1, <2>3, <2>4, Zenon DEF EmitNext, Then
    <3>2. f = IF l = "user" THEN User ELSE IF e.ev = "data" THEN Call("write", l, e.x) ELSE Call("end", l, NoChunk)
      BY <1>2, <2>8
    <3>3. g = [e EXCEPT !.to = Tail(e.to)]
      BY <2>4, <2>6 DEF Left
    <3> QED BY <3>1, <3>2, <3>3, Zenon
  <2>10. f \in Frame(Streams)
    <3>1. CASE l = "user"
      BY <2>8, <3>1, FrameTypes
    <3>2. CASE l # "user"
      BY <2>2, <2>5, <2>8, <3>2, FrameTypes
    <3> QED BY <3>1, <3>2
  <2>11. PICK two, t : two = <<f, g>> /\ t = Tail(stack)
    OBVIOUS
  <2>12. two \in Seq(Frame(Streams)) /\ Range(two) = {f, g} /\ t \in Seq(Frame(Streams))
    BY <1>1, <1>4, <2>7, <2>10, <2>11, HeadTail DEF Range
  <2>13. Range(stack') = {f, g} \cup Range(t)
    <3>1. stack' = two \o t
      BY <2>9, <2>11, Zenon
    <3> QED BY <2>12, <3>1, RangeConcat
  <2>14. CASE d \in Range(rest)
    BY <2>7, <2>13, <2>14 DEF Due
  <2>15. CASE d = l
    <3>1. d # "user"
      BY <1>1, SetupTypes DEF Types
    <3>2. f.op = "write" /\ f.s = d /\ f.x = x
      BY <2>8, <2>15, <3>1 DEF Call
    <3>3. stack' # <<>> /\ Head(stack') = f
      BY <2>7, <2>9, <2>10, <2>11, <2>12, TwoOn
    <3> QED BY <3>2, <3>3 DEF Due, Top, S, X
  <2> QED BY <1>2, <2>5, <2>14, <2>15
<1>5. e # User
  BY <1>2 DEF User, Call
<1> QED BY <1>1, <1>3, <1>4, <1>5, MovedFrames

\* What a step does to what is linked, and to who listens.
LEMMA LinkedStep ==
  ASSUME Types, Next, NEW s \in Streams, NEW d \in Streams, <<s, d>> \in linked',
         <<s, d>> \in linked => d \in Range(rd[s].listeners)
  PROVE  /\ d \in Range(rd'[s].listeners)
         /\ \/ <<s, d>> \in linked
            \/ rd[s].delivered = <<>> /\ rd'[s].delivered = <<>>
<1>1. rd \in [Streams -> ReadableHalf(Streams)] /\ \A t \in Streams : rd[t].listeners \in Seq(Streams \cup {"user"})
  BY DEF Types, ReadableHalf
<1>2. CASE rd' = rd /\ linked' = linked
  BY <1>2
<1>3. CASE linked' = linked /\ (PushChunk \/ PushNull \/ DrainLoop \/ DrainEnds)
  <2>1. S \in Streams
    BY <1>3, Innermost, FrameFields DEF PushChunk, PushNull, DrainLoop, DrainEnds, Top, S
  <2>2. PICK c, l : \/ rd' = rd
                    \/ rd' = [rd EXCEPT ![S].chunks = c, ![S].late = l]
                    \/ rd' = [rd EXCEPT ![S].ended = TRUE]
                    \/ rd' = [rd EXCEPT ![S].chunks = c, ![S].delivered = l]
                    \/ rd' = [rd EXCEPT ![S].done = TRUE]
    BY <1>3, Zenon DEF PushChunk, PushNull, DrainLoop, DrainEnds
  <2>3. rd'[s].listeners = rd[s].listeners
    <3>1. rd \in [Streams -> ReadableHalf(Streams)]
      BY <1>1
    <3>2. CASE rd' = [rd EXCEPT ![S].chunks = c, ![S].late = l]
      BY <2>1, <3>1, <3>2 DEF ReadableHalf
    <3>3. CASE rd' = [rd EXCEPT ![S].chunks = c, ![S].delivered = l]
      BY <2>1, <3>1, <3>3 DEF ReadableHalf
    <3>4. CASE rd' = [rd EXCEPT ![S].ended = TRUE]
      BY <2>1, <3>1, <3>4 DEF ReadableHalf
    <3>5. CASE rd' = [rd EXCEPT ![S].done = TRUE]
      BY <2>1, <3>1, <3>5 DEF ReadableHalf
    <3> QED BY <2>2, <3>2, <3>3, <3>4, <3>5
  <2> QED BY <1>3, <2>3
<1>4. ASSUME NEW t \in Readables, CallReadable(t)
      PROVE  /\ d \in Range(rd'[s].listeners)
             /\ <<s, d>> \in linked \/ rd[s].delivered = <<>>
  <2>1. t \in Streams
    BY DEF Readables
  <2>2. CASE linked' = linked /\ (Resume(t) \/ Pause(t) \/ Read(t))
    <3>1. PICK c : rd' = [rd EXCEPT ![t].flowing = c] \/ rd' = [rd EXCEPT ![t].chunks = c]
      BY <2>2, Zenon DEF Resume, Pause, Read
    <3>2. rd \in [Streams -> ReadableHalf(Streams)]
      BY <1>1
    <3>3. rd' = [rd EXCEPT ![t].flowing = c] => rd'[s].listeners = rd[s].listeners
      BY <2>1, <3>2 DEF ReadableHalf
    <3>4. rd' = [rd EXCEPT ![t].chunks = c] => rd'[s].listeners = rd[s].listeners
      BY <2>1, <3>2 DEF ReadableHalf
    <3>5. rd'[s].listeners = rd[s].listeners
      BY <3>1, <3>3, <3>4
    <3> QED BY <2>2, <3>5
  <2>3. ASSUME NEW l \in Streams \cup {"user"},
               rd' = [rd EXCEPT ![t].listeners = Append(@, l), ![t].flowing = "yes"]
        PROVE  /\ d \in Range(rd[s].listeners) => d \in Range(rd'[s].listeners)
               /\ l \in Range(rd'[t].listeners)
    <3>1. PICK q : q = Append(rd[t].listeners, l)
      OBVIOUS
    <3>2. Range(q) = Range(rd[t].listeners) \cup {l}
      BY <1>1, <2>1, <3>1, RangeAppend
    <3>3. rd' = [rd EXCEPT ![t].listeners = q, ![t].flowing = "yes"]
      BY <2>3, <3>1
    <3>4. rd'[t].listeners = q /\ (s # t => rd'[s] = rd[s])
      BY <1>1, <2>1, <3>3 DEF ReadableHalf
    <3> QED BY <3>2, <3>4
  <2>4. CASE linked' = linked /\ Listen(t)
    BY <2>3, <2>4 DEF Listen
  <2>5. ASSUME NEW e \in Writables, Pipe(t, e)
        PROVE  /\ d \in Range(rd'[s].listeners)
               /\ <<s, d>> \in linked \/ rd[s].delivered = <<>>
    <3>1. e \in Streams /\ rd' = [rd EXCEPT ![t].listeners = Append(@, e), ![t].flowing = "yes"]
      BY <2>5 DEF Writables, Pipe
    <3>2. linked' = linked \/ (linked' = linked \cup {<<t, e>>} /\ rd[t].delivered = <<>>)
      BY <2>5 DEF Pipe
    <3>3. <<s, d>> \in linked \/ (s = t /\ d = e /\ rd[s].delivered = <<>>)
      BY <3>2
    <3> QED BY <2>3, <3>1, <3>3
  <2>6. ASSUME NEW e \in Writables, Unpipe(t, e)
        PROVE  <<s, d>> \in linked /\ d \in Range(rd'[s].listeners)
    <3>1. <<s, d>> \in linked /\ (s = t => d # e)
      BY <2>6 DEF Unpipe
    <3>2. PICK q : q = Without(rd[t].listeners, e)
      OBVIOUS
    <3>3. \A x \in Range(rd[t].listeners) : x # e => x \in Range(q)
      BY <1>1, <2>1, <3>2, WithoutFacts
    <3>4. rd' = [rd EXCEPT ![t].listeners = q]
      BY <2>6, <3>2 DEF Unpipe
    <3>5. rd'[t].listeners = q /\ (s # t => rd'[s] = rd[s])
      BY <1>1, <2>1, <3>4 DEF ReadableHalf
    <3> QED BY <3>1, <3>3, <3>5
  <2>7. \/ linked' = linked /\ (Listen(t) \/ Resume(t) \/ Pause(t) \/ Read(t))
        \/ \E e \in Writables : Pipe(t, e)
        \/ \E e \in Writables : Unpipe(t, e)
    BY <1>4, Zenon DEF CallReadable
  <2> QED BY <2>2, <2>4, <2>5, <2>6, <2>7
<1>5. ASSUME Pipeline
      PROVE  /\ d \in Range(rd'[s].listeners)
             /\ <<s, d>> \in linked \/ rd[s].delivered = <<>>
  <2>1. /\ rd'[s] = IF Feeds(s) = {} THEN rd[s]
                    ELSE [rd[s] EXCEPT !.listeners = Append(@, FedTo(s)), !.flowing = "yes"]
        /\ linked' = linked \cup Laid /\ Starts("pipeline")
    BY <1>5, PipelineDoes
  <2>2. CASE Feeds(s) = {}
    <3>1. <<s, d>> \notin Laid
      BY <2>2 DEF Laid
    <3> QED BY <2>1, <2>2, <3>1
  <2>3. CASE Feeds(s) # {}
    <3>1. FedTo(s) \in Streams
      BY <2>1, <2>3, PathFacts
    <3>2. PICK q : q = Append(rd[s].listeners, FedTo(s))
      OBVIOUS
    <3>3. Range(q) = Range(rd[s].listeners) \cup {FedTo(s)}
      BY <1>1, <3>1, <3>2, RangeAppend
    <3>4. rd'[s] = [rd[s] EXCEPT !.listeners = q, !.flowing = "yes"]
      BY <2>1, <2>3, <3>2
    <3>5. rd'[s].listeners = q
      BY <1>1, <3>4 DEF ReadableHalf
    <3>6. <<s, d>> \in linked \/ (d = FedTo(s) /\ rd[s].delivered = <<>>)
      BY <2>1 DEF Laid
    <3> QED BY <3>3, <3>5, <3>6
  <2> QED BY <2>2, <2>3
<1>6. CASE (\E t \in Readables : CallReadable(t)) \/ Pipeline
  <2>1. rd'[s].delivered = rd[s].delivered
    BY <1>6, CallKeeps
  <2> QED BY <1>4, <1>5, <1>6, <2>1
<1>7. UNCHANGED Rest => linked' = linked
  BY DEF Rest
<1> QED BY <1>2, <1>3, <1>6, <1>7, LibraryTouches, ProgramTouches, OthersTouch DEF Next

LEMMA StepPipe ==
  ASSUME Shape, PipeInv, Next
  PROVE  PipeInv'
<1>1. Types /\ StackInv /\ Types'
  BY StepShape DEF Shape
<1>2. SUFFICES ASSUME NEW s \in Streams, NEW d \in Streams, <<s, d>> \in linked'
               PROVE  d \in Range(rd'[s].listeners) /\ Passed(s, d)'
  BY SetupKept DEF PipeInv
<1>3. <<s, d>> \in linked => d \in Range(rd[s].listeners) /\ Passed(s, d)
  BY DEF PipeInv
<1>4. /\ d \in Range(rd'[s].listeners)
      /\ <<s, d>> \in linked \/ (rd[s].delivered = <<>> /\ rd'[s].delivered = <<>>)
  BY <1>1, <1>2, <1>3, LinkedStep
<1>5. rd[s].delivered \in Seq(Chunk) /\ rd[s].chunks \in Seq(Chunk) /\ wr[d].accepted \in Seq(Chunk)
  BY <1>1 DEF Types, ReadableHalf, WritableHalf
<1>6. \A p \in Seq(Chunk) : Within(p, wr[d].accepted) => Within(p, wr'[d].accepted)
  BY <1>1, <1>5, AcceptedStep, WithinGrows
<1>7. CASE rd'[s].delivered = <<>>
  <2>1. Len(rd'[s].delivered) = 0
    BY <1>7, EmptySeq
  <2> QED BY <1>4, <2>1, WithinEmpty DEF Passed
<1>8. CASE <<s, d>> \in linked /\ rd'[s].delivered = rd[s].delivered
  <2>1. CASE Within(rd[s].delivered, wr[d].accepted)
    BY <1>4, <1>5, <1>6, <1>8, <2>1 DEF Passed
  <2>2. ASSUME NEW prev \in Seq(Chunk), NEW x \in Chunk,
               rd[s].delivered = Append(prev, x), Within(prev, wr[d].accepted), Due(s, d, x)
        PROVE  Passed(s, d)'
    <3>1. Within(prev, wr'[d].accepted)
      BY <1>6, <2>2
    <3>2. CASE Due(s, d, x)'
      BY <1>8, <2>2, <3>1, <3>2, Zenon DEF Passed
    <3>3. CASE Top("write") /\ S = d /\ X = x
      <4>1. wr'[d].accepted = Append(wr[d].accepted, x)
        BY <1>1, <3>3, AcceptedStep
      <4>2. Within(rd'[s].delivered, wr'[d].accepted)
        <5>1. Within(Append(prev, x), Append(wr[d].accepted, x))
          BY <1>5, <2>2, WithinBoth
        <5> QED BY <1>8, <2>2, <4>1, <5>1, Zenon
      <4> QED BY <4>2 DEF Passed
    <3> QED BY <2>2, <3>2, <3>3, DueStays
  <2> QED BY <1>3, <1>4, <1>8, <2>1, <2>2, Zenon DEF Passed
<1>9. CASE /\ <<s, d>> \in linked /\ DrainLoop /\ S = s /\ rd[s].chunks # <<>>
           /\ rd'[s].delivered = Append(rd[s].delivered, Head(rd[s].chunks))
  <2>1. Top("drain")
    BY <1>9 DEF DrainLoop
  <2>2. Tail(stack) = <<>> /\ Range(stack) = {Head(stack)} /\ Head(stack).op = "drain"
    BY <1>1, <2>1, DrainAlone DEF Top
  <2>3. \A x : ~Due(s, d, x)
    BY <2>1, <2>2 DEF Due, Top
  <2>4. Within(rd[s].delivered, wr[d].accepted)
    BY <1>3, <1>9, <2>3, Zenon DEF Passed
  <2>5. wr' = wr
    BY <1>9 DEF DrainLoop
  <2>6. PICK x \in Chunk : x = Head(rd[s].chunks)
    BY <1>5, <1>9, HeadTail
  <2>7. Due(s, d, x)'
    <3>1. PICK f : f = Emit(s, "data", x, rd[s].listeners)
      OBVIOUS
    <3>2. PICK g : g = Head(stack)
      OBVIOUS
    <3>3. PICK t : t = Tail(stack)
      OBVIOUS
    <3>4. PICK two : two = <<f, g>>
      OBVIOUS
    <3>5. stack' = two \o t
      BY <1>9, <2>6, <3>1, <3>2, <3>3, <3>4, Zenon DEF DrainLoop, Then
    <3>6. f \in Frame(Streams) /\ g \in Frame(Streams) /\ t \in Seq(Frame(Streams))
      <4>1. rd[s].listeners \in Seq(Streams \cup {"user"})
        BY <1>1 DEF Types, ReadableHalf
      <4>2. stack # <<>> /\ stack \in Seq(Frame(Streams))
        BY <1>1, <2>1 DEF Types, Top
      <4> QED BY <3>1, <3>2, <3>3, <4>1, <4>2, FrameTypes, HeadTail
    <3>7. two \in Seq(Frame(Streams)) /\ f \in Range(two)
      BY <3>4, <3>6 DEF Range
    <3>8. f \in Range(stack')
      BY <3>5, <3>6, <3>7, RangeConcat
    <3>9. f.op = "emit" /\ f.ev = "data" /\ f.s = s /\ f.x = x /\ f.to = rd[s].listeners
      BY <3>1 DEF Emit
    <3> QED BY <1>3, <1>9, <3>8, <3>9 DEF Due
  <2>8. Passed(s, d)'
    BY <1>5, <1>9, <2>4, <2>5, <2>6, <2>7, Zenon DEF Passed
  <2> QED BY <1>4, <2>8
<1> QED BY <1>1, <1>4, <1>7, <1>8, <1>9, ReadableStep

LEMMA PipeAlways == Spec => []PipeInv
<1>1. Init => PipeInv
  BY DEF Init, PipeInv
<1>2. Shape /\ PipeInv /\ [Next]_vars => PipeInv'
  <2>1. ASSUME PipeInv, UNCHANGED vars
        PROVE  PipeInv'
    BY <2>1, SetupKept DEF vars, PipeInv, Passed, Due, Top, S, X
  <2> QED BY <2>1, StepPipe
<1> QED BY <1>1, <1>2, ShapeAlways, PTL DEF Spec

-----------------------------------------------------------------------------
(* What the runs check *)

\* No chunk is lost, repeated or overtaken between a source and what it was piped to or a
\* writer and its sink; the end comes after them; a failure is reported, not a finish: what
\* push, _drain, pipe, write, uncork, end and destroy do together.
THEOREM ChunksAreKept == Spec => []ChunksKept
<1>1. OrderInv => BufferedInOrder
  BY DEF OrderInv, InOrder, Up, Ahead, BufferedInOrder, Readables
<1>2. ASSUME EndInv
      PROVE  EndIsLast
  <2>1. \A s \in Streams : Count(s, "end") = Occurrences(events[s], "end")
    BY DEF Count, Occurrences
  <2>2. ASSUME NEW s \in Streams
        PROVE  Count(s, "end") <= 1 /\ (Count(s, "end") = 1 /\ ~rd[s].late => rd[s].chunks = <<>>)
    BY <1>2, <2>1 DEF EndInv
  <2> QED BY <2>2 DEF EndIsLast, Readables
<1>3. ASSUME Shape, PipeInv
      PROVE  PipeComplete
  <2> SUFFICES ASSUME stack = <<>>, NEW p \in linked
               PROVE  Within(rd[p[1]].delivered, wr[p[2]].accepted)
    BY DEF PipeComplete, Quiet
  <2>1. p[1] \in Streams /\ p[2] \in Streams /\ p = <<p[1], p[2]>>
    BY <1>3 DEF Shape, Types
  <2>2. Passed(p[1], p[2])
    BY <1>3, <2>1 DEF PipeInv
  <2>3. Range(stack) = {}
    BY DEF Range
  <2>4. \A x : ~Due(p[1], p[2], x)
    BY <2>3 DEF Due, Top
  <2> QED BY <2>2, <2>4 DEF Passed
<1>4. ASSUME Shape, WriteInv
      PROVE  WritesInOrder
  <2> SUFFICES ASSUME stack = <<>>, NEW d \in Corkables
               PROVE  /\ ToSet(wr[d].accepted) = ToSet(wr[d].sunk) \cup ToSet(wr[d].corkBuf)
                      /\ wr[d].overtaken \/ wr[d].accepted = wr[d].sunk \o wr[d].corkBuf
    BY DEF WritesInOrder, Quiet
  <2>1. PICK acc \in Seq(Chunk), snk \in Seq(Chunk), buf \in Seq(Chunk), none \in Seq(Chunk) :
          acc = wr[d].accepted /\ snk = wr[d].sunk /\ buf = wr[d].corkBuf /\ none = <<>>
    BY <1>3, <1>4, WritableTypes, EmptySeq DEF Shape, Corkables
  <2>2. Given(d)
    BY <1>4 DEF WriteInv
  <2>3. \A x : ~OnTheWay(stack, d, x)
    <3>1. Range(stack) = {}
      BY DEF Range
    <3> QED BY <3>1 DEF OnTheWay
  <2>4. \A q \in Seq(Chunk) : ToSet(q) = Range(q) /\ Range(q) \subseteq Chunk
    BY ElementOfSeq DEF ToSet, Range
  <2>5. ToSet(acc) = ToSet(snk) \cup ToSet(buf)
    <3>1. \A x \in Chunk : x \in Range(acc) <=> x \in Range(snk) \/ x \in Range(buf)
      BY <2>1, <2>2, <2>3 DEF Given
    <3> QED BY <2>1, <2>4, <3>1
  <2>6. ASSUME ~wr[d].overtaken
        PROVE  acc = snk \o buf
    <3>1. Now(d) = none
      BY <2>1 DEF Now, Top
    <3>2. PICK h \in Seq(Chunk) : Holding(stack, d, h) /\ InTurn(acc, snk, none, h, buf)
      BY <2>1, <2>2, <2>6, <3>1, Zenon DEF Given
    <3>3. h = none
      <4>1. Len(stack) = 0
        BY EmptySeq
      <4> QED BY <2>1, <3>2, <4>1 DEF Holding
    <3>4. none \o buf = buf /\ snk \o none = snk
      BY <2>1, ConcatEmptySeq
    <3> QED BY <3>2, <3>3, <3>4 DEF InTurn
  <2> QED BY <2>1, <2>5, <2>6
<1>5. ASSUME FailInv
      PROVE  FailureReported
  <2> SUFFICES ASSUME stack = <<>>, NEW d \in Writables, wr[d].failed
               PROVE  d \in errored
    BY DEF FailureReported, Quiet
  <2>1. Range(stack) = {}
    BY DEF Range
  <2> QED BY <1>5, <2>1 DEF FailInv, Writables
<1>6. FinishInv => NoFinishAfterDestroy
  BY DEF FinishInv
<1>7. Shape /\ OrderInv /\ EndInv /\ PipeInv /\ WriteInv /\ FailInv /\ FinishInv => ChunksKept
  BY <1>1, <1>2, <1>3, <1>4, <1>5, <1>6 DEF ChunksKept
<1> QED BY <1>7, ShapeAlways, OrderAlways, EndAlways, PipeAlways, WriteAlways, FailAlways, FinishAlways, PTL
=============================================================================
