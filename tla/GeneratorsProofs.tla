--------------------------- MODULE GeneratorsProofs ---------------------------
(***************************************************************************)
(* Proofs about generators (module Generators).  Records are kept in a     *)
(* sequence, searched by generator and by task address; what is proved of  *)
(* them is said of the set of records, which the lemmas of the first part  *)
(* relate to the sequence.                                                 *)
(***************************************************************************)
EXTENDS Generators, SequenceTheorems, FiniteSetTheorems, WellFoundedInduction, TLAPS

-----------------------------------------------------------------------------
(* Sequences of records *)

\* No generator has two records.
Distinct(q) == \A i, j \in DOMAIN q : q[i].gen = q[j].gen => i = j

LEMMA AppendRow ==
  ASSUME NEW q \in Seq(Record), NEW r \in Record
  PROVE  /\ Append(q, r) \in Seq(Record)
         /\ Range(Append(q, r)) = Range(q) \cup {r}
         /\ Distinct(q) /\ (\A s \in Range(q) : s.gen # r.gen) => Distinct(Append(q, r))
<1>1. /\ Len(q) \in Nat /\ DOMAIN q = 1..Len(q) /\ DOMAIN Append(q, r) = 1..(Len(q) + 1)
      /\ Append(q, r) \in Seq(Record)
      /\ \A i \in 1..Len(q) : Append(q, r)[i] = q[i]
      /\ Append(q, r)[Len(q) + 1] = r
  BY AppendProperties
<1>2. \A i \in DOMAIN Append(q, r) : i \in DOMAIN q \/ i = Len(q) + 1
  BY <1>1
<1>3. \A i \in DOMAIN q : i \in DOMAIN Append(q, r)
  BY <1>1
<1>4. Range(Append(q, r)) = Range(q) \cup {r}
  BY <1>1, <1>2, <1>3 DEF Range
<1>5. ASSUME Distinct(q), \A s \in Range(q) : s.gen # r.gen
      PROVE  Distinct(Append(q, r))
  <2>1. \A i \in DOMAIN q : q[i].gen # r.gen
    BY <1>5 DEF Range
  <2> QED BY <1>1, <1>2, <1>5, <2>1 DEF Distinct
<1> QED BY <1>1, <1>4, <1>5

\* A record changes, of the same generator.
LEMMA ReplaceRow ==
  ASSUME NEW q \in Seq(Record), NEW i \in DOMAIN q, NEW r \in Record, r.gen = q[i].gen, Distinct(q)
  PROVE  /\ [q EXCEPT ![i] = r] \in Seq(Record)
         /\ Distinct([q EXCEPT ![i] = r])
         /\ Range([q EXCEPT ![i] = r]) = (Range(q) \ {q[i]}) \cup {r}
<1> DEFINE p == [q EXCEPT ![i] = r]
<1>1. /\ p \in Seq(Record) /\ DOMAIN p = DOMAIN q /\ p[i] = r
      /\ \A j \in DOMAIN q : j # i => p[j] = q[j]
  OBVIOUS
<1>2. \A j \in DOMAIN q : j # i => q[j] # q[i]
  BY DEF Distinct
<1> HIDE DEF p
<1>3. Distinct(p)
  BY <1>1 DEF Distinct
<1>4. Range(p) = (Range(q) \ {q[i]}) \cup {r}
  <2>1. ASSUME NEW x \in Range(p)
        PROVE  x \in (Range(q) \ {q[i]}) \cup {r}
    <3>1. PICK j \in DOMAIN q : p[j] = x
      BY <1>1, <2>1 DEF Range
    <3> QED BY <1>1, <1>2, <3>1 DEF Range
  <2>2. ASSUME NEW x \in (Range(q) \ {q[i]}) \cup {r}
        PROVE  x \in Range(p)
    BY <1>1, <2>2 DEF Range
  <2> QED BY <2>1, <2>2
<1> QED BY <1>1, <1>3, <1>4 DEF p

\* A record goes.
LEMMA RemoveRow ==
  ASSUME NEW q \in Seq(Record), NEW i \in DOMAIN q, Distinct(q)
  PROVE  /\ RemoveAt(q, i) \in Seq(Record)
         /\ Distinct(RemoveAt(q, i))
         /\ Range(RemoveAt(q, i)) = Range(q) \ {q[i]}
<1> DEFINE n == Len(q)
           p == RemoveAt(q, i)
           front == SubSeq(q, 1, i - 1)
           back == SubSeq(q, i + 1, n)
<1>1. n \in Nat /\ DOMAIN q = 1..n /\ i \in 1..n
  OBVIOUS
<1>2. /\ front \in Seq(Record) /\ Len(front) = i - 1
      /\ \A j \in 1..(i - 1) : front[j] = q[j]
  BY <1>1, SubSeqProperties
<1>3. /\ back \in Seq(Record) /\ Len(back) = n - i
      /\ \A j \in 1..(n - i) : back[j] = q[i + j]
  BY <1>1, SubSeqProperties, SMTT(30)
<1>4. p = front \o back
  BY DEF RemoveAt
<1> HIDE DEF n, p, front, back
<1>5. /\ p \in Seq(Record) /\ DOMAIN p = 1..(n - 1)
      /\ \A j \in 1..(n - 1) : p[j] = IF j < i THEN q[j] ELSE q[j + 1]
  <2>1. p \in Seq(Record) /\ Len(p) = Len(front) + Len(back)
    BY <1>2, <1>3, <1>4, ConcatProperties
  <2>2. Len(p) = n - 1
    BY <1>1, <1>2, <1>3, <2>1
  <2>3. ASSUME NEW j \in 1..(n - 1), j < i
        PROVE  p[j] = q[j]
    BY <1>1, <1>2, <1>3, <1>4, <2>3, ConcatProperties
  <2>4. ASSUME NEW j \in 1..(n - 1), ~(j < i)
        PROVE  p[j] = q[j + 1]
    <3>1. p[j] = back[j - (i - 1)] /\ j - (i - 1) \in 1..(n - i)
      BY <1>1, <1>2, <1>3, <1>4, <2>4, ConcatProperties, SMTT(30)
    <3>2. i + (j - (i - 1)) = j + 1
      BY <1>1
    <3> QED BY <1>3, <3>1, <3>2
  <2> QED BY <1>1, <2>1, <2>2, <2>3, <2>4
<1>6. \A j \in DOMAIN p : \E k \in DOMAIN q : k # i /\ k = (IF j < i THEN j ELSE j + 1) /\ p[j] = q[k]
  BY <1>1, <1>5
<1>7. Distinct(p)
  <2> SUFFICES ASSUME NEW j \in DOMAIN p, NEW k \in DOMAIN p, p[j].gen = p[k].gen
               PROVE  j = k
    BY DEF Distinct
  <2>1. PICK a \in DOMAIN q : a = (IF j < i THEN j ELSE j + 1) /\ p[j] = q[a]
    BY <1>6
  <2>2. PICK b \in DOMAIN q : b = (IF k < i THEN k ELSE k + 1) /\ p[k] = q[b]
    BY <1>6
  <2>3. a = b
    BY <2>1, <2>2 DEF Distinct
  <2> QED BY <1>1, <1>5, <2>1, <2>2, <2>3
<1>8. Range(p) = Range(q) \ {q[i]}
  <2>1. ASSUME NEW x \in Range(p)
        PROVE  x \in Range(q) \ {q[i]}
    <3>1. PICK j \in DOMAIN p : p[j] = x
      BY <2>1 DEF Range
    <3>2. PICK k \in DOMAIN q : k # i /\ p[j] = q[k]
      BY <1>6, <3>1
    <3>3. q[k] # q[i]
      BY <3>2 DEF Distinct
    <3> QED BY <3>1, <3>2, <3>3 DEF Range
  <2>2. ASSUME NEW x \in Range(q) \ {q[i]}
        PROVE  x \in Range(p)
    <3>1. PICK k \in DOMAIN q : q[k] = x /\ k # i
      BY <2>2 DEF Range
    <3>2. CASE k < i
      <4>1. k \in DOMAIN p /\ p[k] = q[k]
        BY <1>1, <1>5, <3>2
      <4> QED BY <3>1, <4>1 DEF Range
    <3>3. CASE k > i
      <4>1. k - 1 \in DOMAIN p /\ p[k - 1] = q[(k - 1) + 1] /\ (k - 1) + 1 = k
        BY <1>1, <1>5, <3>3
      <4> QED BY <3>1, <4>1 DEF Range
    <3> QED BY <1>1, <3>1, <3>2, <3>3
  <2> QED BY <2>1, <2>2
<1> QED BY <1>5, <1>7, <1>8 DEF p

\* The searches find what is there: the record of a generator, and the record of
\* an address that no other record has.
LEMMA SearchByGen ==
  ASSUME recs \in Seq(Record), Distinct(recs), NEW g
  PROVE  \/ IndexOf(g) = 0 /\ \A r \in Range(recs) : r.gen # g
         \/ /\ IndexOf(g) \in DOMAIN recs /\ IndexOf(g) # 0
            /\ recs[IndexOf(g)].gen = g /\ recs[IndexOf(g)] \in Range(recs)
            /\ \A r \in Range(recs) : r.gen = g => r = recs[IndexOf(g)]
<1> DEFINE I == {i \in 1..Len(recs) : recs[i].gen = g}
<1>1. DOMAIN recs = 1..Len(recs) /\ Len(recs) \in Nat
  OBVIOUS
<1>2. IndexOf(g) = IF I # {} THEN Min(I) ELSE 0
  BY DEF IndexOf, SelectInSeq
<1>3. CASE I = {}
  <2>1. \A i \in DOMAIN recs : recs[i].gen # g
    BY <1>1, <1>3
  <2> QED BY <1>2, <1>3, <2>1 DEF Range
<1>4. CASE I # {}
  <2>1. PICK i \in I : TRUE
    BY <1>4
  <2>2. I = {i}
    BY <1>1, <2>1 DEF Distinct
  <2>3. i \in Nat /\ i # 0 /\ i \in DOMAIN recs /\ recs[i].gen = g
    BY <1>1, <2>1
  <2> HIDE DEF I
  <2>4. Min({i}) = i
    BY <2>3 DEF Min
  <2>5. IndexOf(g) = i
    BY <1>2, <1>4, <2>2, <2>4
  <2>6. \A r \in Range(recs) : r.gen = g => r = recs[i]
    BY <2>3 DEF Range, Distinct
  <2> QED BY <2>3, <2>5, <2>6 DEF Range
<1> QED BY <1>3, <1>4

LEMMA SearchByTask ==
  ASSUME recs \in Seq(Record), Distinct(recs), NEW r \in Range(recs),
         \A s \in Range(recs) : s.cell = r.cell => s = r
  PROVE  /\ IndexOfTask(r.cell) \in DOMAIN recs /\ IndexOfTask(r.cell) # 0
         /\ recs[IndexOfTask(r.cell)] = r
<1> DEFINE I == {i \in 1..Len(recs) : recs[i].cell = r.cell}
<1>1. DOMAIN recs = 1..Len(recs) /\ Len(recs) \in Nat
  OBVIOUS
<1>2. IndexOfTask(r.cell) = IF I # {} THEN Min(I) ELSE 0
  BY DEF IndexOfTask, SelectInSeq
<1>3. PICK i \in DOMAIN recs : recs[i] = r
  BY DEF Range
<1>4. \A j \in I : recs[j] = r
  BY <1>1 DEF Range
<1>5. I = {i}
  BY <1>1, <1>3, <1>4 DEF Distinct
<1>6. i \in Nat /\ i # 0
  BY <1>1
<1> HIDE DEF I
<1>7. Min({i}) = i
  BY <1>6 DEF Min
<1>8. IndexOfTask(r.cell) = i
  BY <1>2, <1>5, <1>7
<1> QED BY <1>3, <1>6, <1>8

\* Without more than the types: a search answers 0 or a place that matches.
LEMMA SmallestIn ==
  ASSUME NEW I \in SUBSET Nat, I # {}
  PROVE  Min(I) \in I
<1> DEFINE Less == {p \in Nat \X Nat : p[1] < p[2]}
<1>1. IsWellFoundedOn(Less, Nat)
  BY NatLessThanWellFounded DEF OpToRel
<1> HIDE DEF Less
<1>2. I \subseteq Nat
  OBVIOUS
<1>3. PICK x \in I : \A y \in I : ~(<<y, x>> \in Less)
  BY <1>1, <1>2, WFMin, Zenon
<1>4. ASSUME NEW y \in I
      PROVE  x <= y
  <2>1. x \in Nat /\ y \in Nat /\ <<y, x>> \notin Less
    BY <1>2, <1>3
  <2>2. <<y, x>> \in Nat \X Nat /\ <<y, x>>[1] = y /\ <<y, x>>[2] = x
    BY <2>1
  <2>3. ~(y < x)
    BY <2>1, <2>2 DEF Less
  <2> QED BY <2>1, <2>3
<1> QED BY <1>4 DEF Min

LEMMA SearchType ==
  ASSUME recs \in Seq(Record)
  PROVE  /\ \A g : IndexOf(g) # 0 => IndexOf(g) \in DOMAIN recs /\ recs[IndexOf(g)].gen = g
         /\ \A c : IndexOfTask(c) # 0 => IndexOfTask(c) \in DOMAIN recs /\ recs[IndexOfTask(c)].cell = c
<1>1. DOMAIN recs = 1..Len(recs) /\ Len(recs) \in Nat
  OBVIOUS
<1>2. ASSUME NEW g, IndexOf(g) # 0
      PROVE  IndexOf(g) \in DOMAIN recs /\ recs[IndexOf(g)].gen = g
  <2> DEFINE I == {i \in 1..Len(recs) : recs[i].gen = g}
  <2>1. I # {} /\ IndexOf(g) = Min(I)
    BY <1>2 DEF IndexOf, SelectInSeq
  <2>2. I \in SUBSET Nat
    BY <1>1
  <2>3. Min(I) \in I
    BY <2>1, <2>2, SmallestIn
  <2> QED BY <1>1, <2>1, <2>3
<1>3. ASSUME NEW c, IndexOfTask(c) # 0
      PROVE  IndexOfTask(c) \in DOMAIN recs /\ recs[IndexOfTask(c)].cell = c
  <2> DEFINE I == {i \in 1..Len(recs) : recs[i].cell = c}
  <2>1. I # {} /\ IndexOfTask(c) = Min(I)
    BY <1>3 DEF IndexOfTask, SelectInSeq
  <2>2. I \in SUBSET Nat
    BY <1>1
  <2>3. Min(I) \in I
    BY <2>1, <2>2, SmallestIn
  <2> QED BY <1>1, <2>1, <2>3
<1> QED BY <1>2, <1>3

-----------------------------------------------------------------------------
(* The records and what each action does to them *)

Rows == Range(recs)

\* What holds of the records whatever the program does.
RowsInv ==
  /\ TypeOK
  /\ Distinct(recs)
  /\ \A r \in Rows : r.gen \in made

\* One record changes, or goes.
Changes(r, s) ==
  /\ r \in Rows /\ s \in Record /\ s.gen = r.gen
  /\ recs' \in Seq(Record) /\ Distinct(recs')
  /\ Rows' = (Rows \ {r}) \cup {s}
Drops(r) ==
  /\ r \in Rows
  /\ recs' \in Seq(Record) /\ Distinct(recs')
  /\ Rows' = Rows \ {r}

LEMMA RowFacts ==
  ASSUME RowsInv
  PROVE  /\ recs \in Seq(Record)
         /\ \A r \in Rows : r \in Record
         /\ \A i \in DOMAIN recs : recs[i] \in Rows
         /\ \A r, s \in Rows : r.gen = s.gen => r = s
<1>1. recs \in Seq(Record) /\ Distinct(recs)
  BY DEF RowsInv, TypeOK
<1> QED BY <1>1 DEF Rows, Range, Distinct

LEMMA ChangeAt ==
  ASSUME RowsInv, NEW i \in DOMAIN recs, NEW s \in Record, s.gen = recs[i].gen,
         recs' = [recs EXCEPT ![i] = s]
  PROVE  Changes(recs[i], s)
<1>1. recs \in Seq(Record) /\ Distinct(recs) /\ recs[i] \in Rows
  BY RowFacts DEF RowsInv
<1> QED BY <1>1, ReplaceRow DEF Changes, Rows

LEMMA DropAt ==
  ASSUME RowsInv, NEW i \in DOMAIN recs, recs' = RemoveGen(i)
  PROVE  Drops(recs[i])
<1>1. recs \in Seq(Record) /\ Distinct(recs) /\ recs[i] \in Rows
  BY RowFacts DEF RowsInv
<1> QED BY <1>1, RemoveRow DEF Drops, Rows, RemoveGen

\* The record of a generator that the search finds.
LEMMA FoundRow ==
  ASSUME RowsInv, NEW g
  PROVE  /\ IndexOf(g) # 0 => /\ IndexOf(g) \in DOMAIN recs /\ recs[IndexOf(g)] \in Rows
                              /\ recs[IndexOf(g)].gen = g
         /\ IndexOf(g) = 0 => \A r \in Rows : r.gen # g
         /\ \A r \in Rows : r.gen = g => IndexOf(g) # 0 /\ recs[IndexOf(g)] = r
<1>1. recs \in Seq(Record) /\ Distinct(recs)
  BY DEF RowsInv, TypeOK
<1>2. \/ IndexOf(g) = 0 /\ \A r \in Range(recs) : r.gen # g
      \/ /\ IndexOf(g) \in DOMAIN recs /\ IndexOf(g) # 0
         /\ recs[IndexOf(g)].gen = g /\ recs[IndexOf(g)] \in Range(recs)
         /\ \A r \in Range(recs) : r.gen = g => r = recs[IndexOf(g)]
  BY <1>1, SearchByGen
<1> QED BY <1>2 DEF Rows

LEMMA MadeRow ==
  ASSUME RowsInv, NEW t \in Task, NEW g \in Gens, MakeGenerator(t, g)
  PROVE  \E s \in Record :
           /\ s.gen = g /\ s.cell = None /\ ~s.started /\ ~s.done /\ ~s.threw
           /\ recs' \in Seq(Record) /\ Distinct(recs') /\ Rows' = Rows \cup {s}
<1> DEFINE s == [gen |-> g, scope |-> IF g \in Defaults THEN None ELSE g, cell |-> None, caller |-> None,
                 started |-> FALSE, done |-> FALSE, threw |-> FALSE, step |-> None]
<1>1. recs' = Append(recs, s) /\ g \notin made
  BY DEF MakeGenerator
<1>2. s \in Record /\ s.gen = g /\ s.cell = None /\ ~s.started /\ ~s.done /\ ~s.threw
  BY DEF Record
<1> HIDE DEF s
<1>3. recs \in Seq(Record) /\ Distinct(recs) /\ \A r \in Range(recs) : r.gen # s.gen
  BY <1>1, <1>2 DEF RowsInv, TypeOK, Rows
<1> QED BY <1>1, <1>2, <1>3, AppendRow DEF Rows

LEMMA BoundRow ==
  ASSUME RowsInv, NEW t \in Task, BindDone(t)
  PROVE  \E r \in Rows : Changes(r, [r EXCEPT !.scope = binding[t]])
<1> DEFINE i == held[t].bind
<1>1. i \in DOMAIN recs /\ recs' = [recs EXCEPT ![i].scope = binding[t]] /\ binding[t] \in Gens \cup {None}
  BY DEF BindDone, RowsInv, TypeOK
<1> HIDE DEF i
<1> DEFINE s == [recs[i] EXCEPT !.scope = binding[t]]
<1>2. recs \in Seq(Record) /\ recs[i] \in Rows /\ recs[i] \in Record
  BY <1>1, RowFacts
<1>3. s \in Record /\ s.gen = recs[i].gen
  BY <1>1, <1>2 DEF Record
<1>4. recs' = [recs EXCEPT ![i] = s]
  BY <1>1, <1>2
<1> HIDE DEF s
<1>5. Changes(recs[i], s)
  BY <1>1, <1>3, <1>4, ChangeAt
<1> QED BY <1>2, <1>5 DEF s

LEMMA EndedRow ==
  ASSUME RowsInv, NEW t \in Task, NEW g \in Gens, NEW abrupt \in BOOLEAN, CallEnded(t, g, abrupt)
  PROVE  \E r \in Rows : r.gen = g /\ (r.done \/ ~r.started) /\ Drops(r)
<1>1. /\ IndexOf(g) # 0 /\ (Rec(g).done \/ ~Rec(g).started)
      /\ recs' = RemoveGen(IndexOf(g))
  BY DEF CallEnded
<1>2. IndexOf(g) \in DOMAIN recs /\ recs[IndexOf(g)] \in Rows /\ recs[IndexOf(g)].gen = g
  BY <1>1, FoundRow
<1>3. Drops(recs[IndexOf(g)])
  BY <1>1, <1>2, DropAt
<1> QED BY <1>1, <1>2, <1>3 DEF Rec

LEMMA FirstRow ==
  ASSUME RowsInv, NEW t \in Task, NEW g \in Gens, NEW c \in Cells, CallFirst(t, g, c)
  PROVE  \E r \in Rows :
           /\ r.gen = g /\ ~r.done /\ ~r.started
           /\ Changes(r, [r EXCEPT !.started = TRUE, !.caller = t, !.cell = c])
<1> DEFINE i == IndexOf(g)
<1>1. /\ i # 0 /\ ~recs[i].done /\ ~recs[i].started
      /\ recs' = [recs EXCEPT ![i].started = TRUE, ![i].caller = t, ![i].cell = c]
  BY DEF CallFirst, Rec
<1>2. i \in DOMAIN recs /\ recs[i] \in Rows /\ recs[i].gen = g
  BY <1>1, FoundRow
<1> HIDE DEF i
<1> DEFINE s == [recs[i] EXCEPT !.started = TRUE, !.caller = t, !.cell = c]
<1>3. recs \in Seq(Record) /\ recs[i] \in Record
  BY <1>2, RowFacts
<1>4. s \in Record /\ s.gen = recs[i].gen
  BY <1>3 DEF Record
<1>5. recs' = [recs EXCEPT ![i] = s]
  BY <1>1, <1>2, <1>3
<1> HIDE DEF s
<1>6. Changes(recs[i], s)
  BY <1>2, <1>4, <1>5, ChangeAt
<1> QED BY <1>1, <1>2, <1>6 DEF s

LEMMA CalledRow ==
  ASSUME RowsInv, NEW t \in Task, NEW g \in Gens, Call(t, g)
  PROVE  \E r \in Rows :
           /\ r.gen = g /\ ~r.done /\ r.started /\ Rec(g) = r
           /\ Changes(r, [r EXCEPT !.caller = t])
<1> DEFINE i == IndexOf(g)
<1>1. /\ i # 0 /\ ~recs[i].done /\ recs[i].started
      /\ recs' = [recs EXCEPT ![i].caller = t]
  BY DEF Call, Rec
<1>2. i \in DOMAIN recs /\ recs[i] \in Rows /\ recs[i].gen = g /\ Rec(g) = recs[i]
  BY <1>1, FoundRow DEF Rec
<1> HIDE DEF i
<1> DEFINE s == [recs[i] EXCEPT !.caller = t]
<1>3. recs \in Seq(Record) /\ recs[i] \in Record
  BY <1>2, RowFacts
<1>4. s \in Record /\ s.gen = recs[i].gen
  BY <1>3 DEF Record
<1>5. recs' = [recs EXCEPT ![i] = s]
  BY <1>1, <1>2, <1>3
<1> HIDE DEF s
<1>6. Changes(recs[i], s)
  BY <1>2, <1>4, <1>5, ChangeAt
<1> QED BY <1>1, <1>2, <1>6 DEF s

LEMMA AnsweredRow ==
  ASSUME RowsInv, NEW t \in Task, Answer(t)
  PROVE  \/ /\ \A r \in Rows : r.gen # asked[t]
            /\ recs' = recs /\ taken' = taken /\ answer' = [answer EXCEPT ![t] = None]
         \/ \E r \in Rows :
              /\ r.gen = asked[t] /\ IF r.threw \/ r.done THEN Drops(r) ELSE recs' = recs
              /\ taken' = [taken EXCEPT ![asked[t]] = @ + 1] /\ answer' = [answer EXCEPT ![t] = r.step]
<1> DEFINE g == asked[t]
           i == IndexOf(g)
<1>1. /\ recs' = IF i # 0 /\ (recs[i].threw \/ recs[i].done) THEN RemoveGen(i) ELSE recs
      /\ taken' = IF i = 0 THEN taken ELSE [taken EXCEPT ![g] = @ + 1]
      /\ answer' = [answer EXCEPT ![t] = IF i = 0 THEN None ELSE recs[i].step]
  BY DEF Answer
<1>2. CASE i = 0
  BY <1>1, <1>2, FoundRow
<1>3. CASE i # 0
  <2>1. i \in DOMAIN recs /\ recs[i] \in Rows /\ recs[i].gen = g
    BY <1>3, FoundRow
  <2> HIDE DEF i
  <2>2. IF recs[i].threw \/ recs[i].done THEN Drops(recs[i]) ELSE recs' = recs
    BY <1>1, <1>3, <2>1, DropAt
  <2> QED BY <1>1, <1>3, <2>1, <2>2
<1> QED BY <1>2, <1>3

LEMMA HandedRow ==
  ASSUME RowsInv, NEW b \in Gens, NEW i \in DOMAIN recs, HandOut(b, i)
  PROVE  recs[i] \in Rows /\ Changes(recs[i], [recs[i] EXCEPT !.step = b, !.done = FALSE])
<1> DEFINE s == [recs[i] EXCEPT !.step = b, !.done = FALSE]
<1>1. recs' = [recs EXCEPT ![i].step = b, ![i].done = FALSE]
  BY DEF HandOut
<1>2. recs \in Seq(Record) /\ recs[i] \in Record /\ recs[i] \in Rows
  BY RowFacts
<1>3. s \in Record /\ s.gen = recs[i].gen
  BY <1>2 DEF Record
<1>4. recs' = [recs EXCEPT ![i] = s]
  BY <1>1, <1>2
<1> HIDE DEF s
<1>5. Changes(recs[i], s)
  BY <1>3, <1>4, ChangeAt
<1> QED BY <1>2, <1>5 DEF s

LEMMA FinishedRow ==
  ASSUME RowsInv, NEW b \in Gens, NEW thrown \in BOOLEAN, Finish(b, thrown)
  PROVE  \/ /\ \A r \in Rows : r.gen # b
            /\ recs' = recs /\ task' = [Unpark({}, task) EXCEPT ![b] = "dead"]
         \/ \E r \in Rows :
              /\ r.gen = b /\ task' = [Unpark({r.caller}, task) EXCEPT ![b] = "dead"]
              /\ Changes(r, [r EXCEPT !.step = b, !.done = TRUE, !.threw = thrown])
<1> DEFINE i == IndexOf(b)
<1>1. /\ recs' = IF i = 0 THEN recs
                 ELSE [recs EXCEPT ![i].step = b, ![i].done = TRUE, ![i].threw = thrown]
      /\ task' = [Unpark(IF i = 0 THEN {} ELSE {recs[i].caller}, task) EXCEPT ![b] = "dead"]
  BY DEF Finish
<1>2. CASE i = 0
  BY <1>1, <1>2, FoundRow
<1>3. CASE i # 0
  <2>1. i \in DOMAIN recs /\ recs[i] \in Rows /\ recs[i].gen = b
    BY <1>3, FoundRow
  <2> HIDE DEF i
  <2> DEFINE s == [recs[i] EXCEPT !.step = b, !.done = TRUE, !.threw = thrown]
  <2>2. recs \in Seq(Record) /\ recs[i] \in Record
    BY <2>1, RowFacts
  <2>3. s \in Record /\ s.gen = recs[i].gen
    BY <2>2 DEF Record
  <2>4. recs' = [recs EXCEPT ![i] = s]
    BY <1>1, <1>3, <2>1, <2>2
  <2> HIDE DEF s
  <2>5. Changes(recs[i], s)
    BY <2>1, <2>3, <2>4, ChangeAt
  <2>6. task' = [Unpark({recs[i].caller}, task) EXCEPT ![b] = "dead"]
    BY <1>1, <1>3
  <2> QED BY <2>1, <2>5, <2>6 DEF s
<1> QED BY <1>2, <1>3

-----------------------------------------------------------------------------
(* The types, and one record a generator, whatever the program does *)

States == {"none", "running", "runnable", "parked", "dead"}
Places == {"unborn", "start", "code", "spawning", "asking", "yielded", "awaiting", "loop", "ended"}

\* The types of all but the records.
RestOK ==
  /\ task \in [Task -> States]
  /\ pc \in [Task -> Places]
  /\ steps \in [Task -> 0..MaxSteps]
  /\ made \subseteq Gens
  /\ cell \in [Gens -> Cells \cup {None}]
  /\ asked \in [Task -> Gens \cup {None}]
  /\ binding \in [Task -> Gens \cup {None}]
  /\ held \in [Task -> [bind : Nat, yield : Nat]]
  /\ waiting \subseteq Task
  /\ creator \in [Acts -> Task \cup {None}]
  /\ handed \in [Gens -> Nat]
  /\ taken \in [Gens -> Nat]
  /\ answer \in [Task -> Gens \cup {None}]
  /\ astray \in BOOLEAN

LEMMA TypesSplit ==
  /\ TypeOK <=> RestOK /\ recs \in Seq(Record)
  /\ TypeOK' <=> RestOK' /\ recs' \in Seq(Record)
BY DEF TypeOK, RestOK, States, Places

LEMMA UnparkType ==
  ASSUME NEW W, NEW sched \in [Task -> States]
  PROVE  /\ Unpark(W, sched) \in [Task -> States]
         /\ \A t \in Task : Unpark(W, sched)[t] = IF t \in W /\ sched[t] = "parked" THEN "runnable" ELSE sched[t]
BY DEF Unpark, States

LEMMA SpendType ==
  ASSUME RestOK, NEW t \in Task, Spend(t)
  PROVE  steps' \in [Task -> 0..MaxSteps]
<1>1. steps \in [Task -> 0..MaxSteps] /\ steps[t] > 0 /\ steps' = [steps EXCEPT ![t] = @ - 1]
  BY DEF RestOK, Spend
<1>2. steps[t] \in 0..MaxSteps
  BY <1>1
<1>3. MaxSteps \in Nat
  BY ConstantsAssumption
<1>4. steps[t] - 1 \in 0..MaxSteps
  BY <1>1, <1>2, <1>3
<1> QED BY <1>1, <1>4

\* The records keep what is said of them if they stay, one changes or one goes.
LEMMA RowsKept ==
  ASSUME RowsInv, recs' = recs, RestOK', made \subseteq made'
  PROVE  RowsInv'
BY TypesSplit DEF RowsInv, Rows, Distinct

LEMMA RowsChanged ==
  ASSUME RowsInv, NEW r, NEW s, Changes(r, s), RestOK', made' = made
  PROVE  RowsInv'
<1>1. recs' \in Seq(Record) /\ Distinct(recs)' /\ \A x \in Rows' : x.gen \in made'
  BY DEF Changes, RowsInv, Distinct
<1> QED BY <1>1, TypesSplit DEF RowsInv

LEMMA RowsDropped ==
  ASSUME RowsInv, NEW r, Drops(r), RestOK', made' = made
  PROVE  RowsInv'
<1>1. recs' \in Seq(Record) /\ Distinct(recs)' /\ \A x \in Rows' : x.gen \in made'
  BY DEF Drops, RowsInv, Distinct
<1> QED BY <1>1, TypesSplit DEF RowsInv

LEMMA AskAstray ==
  ASSUME NEW t, NEW g, MayCall(t, g)
  PROVE  astray' \in BOOLEAN
BY Zenon DEF MayCall

LEMMA AskRows ==
  ASSUME RowsInv, NEW t \in Task, Ask(t)
  PROVE  RowsInv'
<1>1. RestOK
  BY TypesSplit DEF RowsInv
<1>2. ASSUME NEW g \in Gens, MakeGenerator(t, g)
      PROVE  RowsInv'
  <2>1. PICK s \in Record :
          /\ s.gen = g
          /\ recs' \in Seq(Record) /\ Distinct(recs') /\ Rows' = Rows \cup {s}
    BY <1>2, MadeRow
  <2>2. Len(recs) + 1 \in Nat
    BY TypesSplit DEF RowsInv
  <2>3. held' \in [Task -> [bind : Nat, yield : Nat]]
    <3>1. CASE g \in Defaults
      <4>1. held' = [held EXCEPT ![t].bind = Len(recs) + 1]
        BY <1>2, <3>1 DEF MakeGenerator
      <4> QED BY <1>1, <2>2, <4>1 DEF RestOK
    <3>2. CASE g \notin Defaults
      BY <1>1, <1>2, <3>2 DEF MakeGenerator, RestOK
    <3> QED BY <3>1, <3>2
  <2>4. binding' \in [Task -> Gens \cup {None}] /\ made' = made \cup {g}
    BY <1>1, <1>2 DEF MakeGenerator, RestOK
  <2>5. RestOK'
    BY <1>1, <1>2, <2>3, <2>4 DEF MakeGenerator, RestOK, history, told
  <2>6. Distinct(recs)' /\ \A r \in Rows' : r.gen \in made'
    BY <2>1, <2>4 DEF RowsInv, Distinct
  <2> QED BY <2>1, <2>5, <2>6, TypesSplit DEF RowsInv
<1>3. ASSUME NEW g \in Gens, NEW abrupt \in BOOLEAN, CallEnded(t, g, abrupt)
      PROVE  RowsInv'
  <2>1. PICK r \in Rows : Drops(r)
    BY <1>3, EndedRow
  <2>2. RestOK' /\ made' = made
    BY <1>1, <1>3, AskAstray DEF CallEnded, RestOK, native, history, told
  <2> QED BY <2>1, <2>2, RowsDropped
<1>4. ASSUME NEW g \in Gens, NEW c \in Cells, CallFirst(t, g, c)
      PROVE  RowsInv'
  <2>1. PICK r \in Rows : Changes(r, [r EXCEPT !.started = TRUE, !.caller = t, !.cell = c])
    BY <1>4, FirstRow
  <2>2. steps' \in [Task -> 0..MaxSteps]
    BY <1>1, <1>4, SpendType DEF CallFirst
  <2>3. task' \in [Task -> States] /\ pc' \in [Task -> Places]
    BY <1>1, <1>4 DEF CallFirst, RestOK, States, Places
  <2>4. RestOK' /\ made' = made
    BY <1>1, <1>4, <2>2, <2>3, AskAstray DEF CallFirst, RestOK, native, history, told
  <2> QED BY <2>1, <2>4, RowsChanged
<1>5. ASSUME NEW g \in Gens, Call(t, g)
      PROVE  RowsInv'
  <2>1. PICK r \in Rows : Changes(r, [r EXCEPT !.caller = t])
    BY <1>5, CalledRow
  <2>2. steps' \in [Task -> 0..MaxSteps]
    BY <1>1, <1>5, SpendType DEF Call
  <2>3. task' \in [Task -> States]
    <3> DEFINE woken == Unpark(BodyAt(Rec(g).cell), task)
    <3>1. woken \in [Task -> States]
      BY <1>1, UnparkType DEF RestOK
    <3>2. task' = [woken EXCEPT ![t] = "parked"]
      BY <1>5 DEF Call, Parked
    <3> HIDE DEF woken
    <3> QED BY <3>1, <3>2 DEF States
  <2>4. pc' \in [Task -> Places]
    BY <1>1, <1>5 DEF Call, RestOK, Places
  <2>5. RestOK' /\ made' = made
    BY <1>1, <1>5, <2>2, <2>3, <2>4, AskAstray DEF Call, RestOK, native, history, told
  <2> QED BY <2>1, <2>5, RowsChanged
<1> QED BY <1>2, <1>3, <1>4, <1>5 DEF Ask

LEMMA GiveBackRows ==
  ASSUME RowsInv, NEW b \in Task, GiveBack(b)
  PROVE  RowsInv'
<1>1. RestOK /\ recs \in Seq(Record)
  BY TypesSplit DEF RowsInv
<1>2. b \in Gens
  BY DEF GiveBack, Yield, YieldOperand, YieldAwaited, Finish, MayYield
<1>3. ASSUME NEW i \in DOMAIN recs, HandOut(b, i), held' \in [Task -> [bind : Nat, yield : Nat]]
      PROVE  RowsInv'
  <2>1. Changes(recs[i], [recs[i] EXCEPT !.step = b, !.done = FALSE])
    BY <1>2, <1>3, HandedRow
  <2>2. task' \in [Task -> States]
    <3> DEFINE woken == Unpark({recs[i].caller}, task)
    <3>1. woken \in [Task -> States]
      BY <1>1, UnparkType DEF RestOK
    <3>2. task' = [woken EXCEPT ![b] = "parked"]
      BY <1>3 DEF HandOut, Parked
    <3> HIDE DEF woken
    <3> QED BY <3>1, <3>2 DEF States
  <2>3. pc' \in [Task -> Places] /\ handed' \in [Gens -> Nat]
    BY <1>1, <1>2, <1>3 DEF HandOut, RestOK, Places
  <2>4. RestOK' /\ made' = made
    BY <1>1, <1>3, <2>2, <2>3 DEF HandOut, RestOK
  <2> QED BY <2>1, <2>4, RowsChanged
<1>4. CASE Yield(b)
  <2>1. IndexOfTask(cell[b]) \in DOMAIN recs
    BY <1>1, <1>4, SearchType DEF Yield
  <2> QED BY <1>1, <1>3, <1>4, <2>1 DEF Yield, RestOK
<1>5. CASE YieldOperand(b)
  <2>1. IndexOfTask(cell[b]) \in DOMAIN recs
    BY <1>1, <1>5, SearchType DEF YieldOperand
  <2>2. IndexOfTask(cell[b]) \in Nat
    BY <1>1, <2>1
  <2>3. held' \in [Task -> [bind : Nat, yield : Nat]]
    BY <1>1, <1>5, <2>2 DEF YieldOperand, RestOK
  <2>4. recs' = recs /\ RestOK' /\ made \subseteq made'
    BY <1>1, <1>5, <2>3 DEF YieldOperand, RestOK, history, told
  <2> QED BY <2>4, RowsKept
<1>6. CASE YieldAwaited(b)
  <2>1. held' \in [Task -> [bind : Nat, yield : Nat]]
    BY <1>1, <1>6 DEF YieldAwaited, RestOK
  <2> QED BY <1>3, <1>6, <2>1 DEF YieldAwaited
<1>7. ASSUME NEW thrown \in BOOLEAN, Finish(b, thrown)
      PROVE  RowsInv'
  <2>1. task' \in [Task -> States]
    <3>1. PICK W : task' = [Unpark(W, task) EXCEPT ![b] = "dead"]
      BY <1>7 DEF Finish
    <3>2. Unpark(W, task) \in [Task -> States]
      BY <1>1, UnparkType DEF RestOK
    <3> QED BY <3>1, <3>2 DEF States
  <2>2. pc' \in [Task -> Places] /\ handed' \in [Gens -> Nat]
    BY <1>1, <1>2, <1>7 DEF Finish, RestOK, Places
  <2>3. RestOK' /\ made' = made
    BY <1>1, <1>7, <2>1, <2>2 DEF Finish, RestOK, native
  <2>4. CASE recs' = recs
    BY <2>3, <2>4, RowsKept
  <2>5. CASE \E r \in Rows : Changes(r, [r EXCEPT !.step = b, !.done = TRUE, !.threw = thrown])
    <3>1. PICK r \in Rows : Changes(r, [r EXCEPT !.step = b, !.done = TRUE, !.threw = thrown])
      BY <2>5
    <3> QED BY <2>3, <3>1, RowsChanged
  <2> QED BY <1>2, <1>7, <2>4, <2>5, FinishedRow
<1> QED BY <1>4, <1>5, <1>6, <1>7 DEF GiveBack

LEMMA OtherRows ==
  ASSUME RowsInv, NEW t \in Task,
         BindDone(t) \/ Abort(t) \/ Answer(t) \/ Proceed(t) \/ Surround(t) \/ Dispatch(t) \/ MainLoop \/ Exited
  PROVE  RowsInv'
<1>1. RestOK /\ recs \in Seq(Record)
  BY TypesSplit DEF RowsInv
<1>2. CASE BindDone(t)
  <2>1. PICK r \in Rows : Changes(r, [r EXCEPT !.scope = binding[t]])
    BY <1>2, BoundRow
  <2>2. held' \in [Task -> [bind : Nat, yield : Nat]]
    BY <1>1, <1>2 DEF BindDone, RestOK
  <2>3. RestOK' /\ made' = made
    BY <1>1, <1>2, <2>2 DEF BindDone, RestOK, history, told
  <2> QED BY <2>1, <2>3, RowsChanged
<1>3. CASE Abort(t)
  <2>1. RestOK' /\ recs' = recs /\ made' = made
    BY <1>1, <1>3 DEF Abort, RestOK, States, native, history, told
  <2> QED BY <2>1, RowsKept
<1>4. CASE Answer(t)
  <2>1. /\ taken' \in [Gens -> Nat] /\ answer' \in [Task -> Gens \cup {None}]
        /\ recs' = recs \/ \E r \in Rows : Drops(r)
    <3>1. CASE recs' = recs /\ taken' = taken /\ answer' = [answer EXCEPT ![t] = None]
      BY <1>1, <3>1 DEF RestOK
    <3>2. ASSUME NEW r \in Rows, r.gen = asked[t], IF r.threw \/ r.done THEN Drops(r) ELSE recs' = recs,
                 taken' = [taken EXCEPT ![asked[t]] = @ + 1], answer' = [answer EXCEPT ![t] = r.step]
          PROVE  <2>1
      <4>1. r.gen \in Gens /\ r.step \in Gens \cup {None}
        BY RowFacts DEF Record
      <4> QED BY <1>1, <3>2, <4>1 DEF RestOK
    <3> QED BY <1>4, <3>1, <3>2, AnsweredRow
  <2>2. pc' \in [Task -> Places]
    BY <1>1, <1>4 DEF Answer, RestOK, Places
  <2>3. RestOK' /\ made' = made
    BY <1>1, <1>4, <2>1, <2>2 DEF Answer, RestOK, native
  <2> QED BY <2>1, <2>3, RowsKept, RowsDropped
<1>5. CASE Proceed(t)
  <2>1. RestOK' /\ recs' = recs /\ made' = made
    BY <1>1, <1>5 DEF Proceed, RestOK, Places, native, history, told
  <2> QED BY <2>1, RowsKept
<1>6. CASE Await(t)
  <2>1. task' \in [Task -> States]
    <3>1. PICK W : task' = [Unpark(W, task) EXCEPT ![t] = "parked"]
      BY <1>6 DEF Await, Parked
    <3>2. Unpark(W, task) \in [Task -> States]
      BY <1>1, UnparkType DEF RestOK
    <3> QED BY <3>1, <3>2 DEF States
  <2>2. pc' \in [Task -> Places] /\ steps' \in [Task -> 0..MaxSteps]
    BY <1>1, <1>6, SpendType DEF Await, RestOK, Places
  <2>3. creator' \in [Acts -> Task \cup {None}]
    BY <1>1, <1>6 DEF Await, RestOK
  <2>4. RestOK' /\ recs' = recs /\ made' = made
    BY <1>1, <1>6, <2>1, <2>2, <2>3 DEF Await, RestOK, native, history, told
  <2> QED BY <2>4, RowsKept
<1>7. CASE EndActivation(t)
  <2>1. task' \in [Task -> States]
    <3>1. PICK W : task' = [Unpark(W, task) EXCEPT ![t] = "dead"]
      BY <1>7 DEF EndActivation
    <3>2. Unpark(W, task) \in [Task -> States]
      BY <1>1, UnparkType DEF RestOK
    <3> QED BY <3>1, <3>2 DEF States
  <2>2. pc' \in [Task -> Places] /\ creator' \in [Acts -> Task \cup {None}]
    BY <1>1, <1>7 DEF EndActivation, RestOK, Places
  <2>3. RestOK' /\ recs' = recs /\ made' = made
    BY <1>1, <1>7, <2>1, <2>2 DEF EndActivation, RestOK, native, history, told
  <2> QED BY <2>3, RowsKept
<1>8. ASSUME NEW u \in Task, Settle(t, u)
      PROVE  RowsInv'
  <2>1. task' \in [Task -> States]
    BY <1>1, <1>8, UnparkType DEF Settle, RestOK
  <2>2. RestOK' /\ recs' = recs /\ made' = made
    BY <1>1, <1>8, <2>1 DEF Settle, RestOK, native, history, told
  <2> QED BY <2>2, RowsKept
<1>9. ASSUME NEW a \in Acts, Spawn(t, a)
      PROVE  RowsInv'
  <2>1. /\ task' \in [Task -> States] /\ pc' \in [Task -> Places]
        /\ creator' \in [Acts -> Task \cup {None}]
    BY <1>1, <1>9 DEF Spawn, RestOK, States, Places
  <2>2. RestOK' /\ recs' = recs /\ made' = made
    BY <1>1, <1>9, <2>1 DEF Spawn, RestOK, native, history, told
  <2> QED BY <2>2, RowsKept
<1>10. CASE Dispatch(t)
  <2>1. RestOK' /\ recs' = recs /\ made' = made
    BY <1>1, <1>10 DEF Dispatch, RestOK, States, native, history, told
  <2> QED BY <2>1, RowsKept
<1>11. CASE MainLoop
  <2>1. task' \in [Task -> States] /\ pc' \in [Task -> Places]
    BY <1>1, <1>11 DEF MainLoop, ToLoop, BeginCallback, LoopYield, LoopExit, RestOK, States, Places
  <2>2. steps' \in [Task -> 0..MaxSteps]
    <3>1. Main \in Task
      BY DEF Task
    <3> QED BY <1>1, <1>11, <3>1, SpendType DEF MainLoop, ToLoop, BeginCallback, LoopYield, LoopExit, RestOK
  <2>3. RestOK' /\ recs' = recs /\ made' = made
    BY <1>1, <1>11, <2>1, <2>2
       DEF MainLoop, ToLoop, BeginCallback, LoopYield, LoopExit, RestOK, native, history, told
  <2> QED BY <2>3, RowsKept
<1>12. CASE Exited
  <2>1. RestOK' /\ recs' = recs /\ made' = made
    BY <1>1, <1>12 DEF Exited, RestOK, vars, native, history, told
  <2> QED BY <2>1, RowsKept
<1> QED BY <1>2, <1>3, <1>4, <1>5, <1>6, <1>7, <1>8, <1>9, <1>10, <1>11, <1>12 DEF Surround

LEMMA InitRows == Init => RowsInv
<1> SUFFICES ASSUME Init
             PROVE  RowsInv
  OBVIOUS
<1>1. MaxSteps \in 0..MaxSteps
  BY ConstantsAssumption
<1>2. recs \in Seq(Record) /\ Rows = {} /\ Distinct(recs)
  BY DEF Init, Rows, Range, Distinct
<1>3. RestOK
  BY <1>1 DEF Init, RestOK, States, Places
<1> QED BY <1>2, <1>3, TypesSplit DEF RowsInv

LEMMA StepRows ==
  ASSUME RowsInv, [Next]_vars
  PROVE  RowsInv'
<1>1. CASE Next
  BY <1>1, AskRows, GiveBackRows, OtherRows DEF Next, Task
<1>2. CASE UNCHANGED vars
  <2>1. RestOK' /\ recs' = recs /\ made' = made
    BY <1>2, TypesSplit DEF RowsInv, RestOK, vars, native, history, told
  <2> QED BY <2>1, RowsKept
<1> QED BY <1>1, <1>2

\* Every record is of a generator that exists, and no generator has two.
THEOREM RowsAlways == Spec => []RowsInv
BY InitRows, StepRows, PTL DEF Spec

\* Every variable keeps its type, and every position in the records is one.
THEOREM TypeCorrect == Spec => []TypeOK
<1>1. RowsInv => TypeOK
  BY DEF RowsInv
<1> QED BY <1>1, RowsAlways, PTL

-----------------------------------------------------------------------------
(* A body that lives keeps its record *)

\* A body that lives has a record, which bears its address and has not ended; no two
\* bodies that live have one address.
Owns(g, r) ==
  /\ r.gen = g /\ r.cell = cell[g] /\ r.cell # None
  /\ r.started /\ ~r.done /\ ~r.threw
BodiesInv ==
  /\ \A r \in Rows : r.cell # None => r.cell = cell[r.gen]
  /\ \A g, h \in Gens : Live(g) /\ Live(h) /\ cell[g] = cell[h] => g = h
  /\ \A r \in Rows : ~r.started => ~r.threw
  /\ \A g \in Gens : Live(g) => \E r \in Rows : Owns(g, r)

\* Nobody comes to life.
NoneBorn == \A g \in Gens : Live(g)' => Live(g)

\* Waking, parking, ending and dispatching bring nobody to life.
LEMMA UnparkLives ==
  ASSUME RowsInv, NEW W, NEW t \in Task, Running(t), NEW to \in States
  PROVE  /\ task' = Unpark(W, task) => NoneBorn
         /\ task' = [Unpark(W, task) EXCEPT ![t] = to] => NoneBorn
<1>1. task \in [Task -> States]
  BY TypesSplit DEF RowsInv, RestOK
<1> DEFINE woken == Unpark(W, task)
<1>2. /\ woken \in [Task -> States]
      /\ \A u \in Task : woken[u] = IF u \in W /\ task[u] = "parked" THEN "runnable" ELSE task[u]
  BY <1>1, UnparkType
<1> HIDE DEF woken
<1>3. \A g \in Gens : g \in Task
  BY DEF Task
<1>4. task' = woken => NoneBorn
  BY <1>2, <1>3 DEF NoneBorn, Live
<1>5. task' = [woken EXCEPT ![t] = to] => NoneBorn
  BY <1>2, <1>3 DEF NoneBorn, Live, Running
<1> QED BY <1>4, <1>5 DEF woken

LEMMA BodiesKept ==
  ASSUME RowsInv, BodiesInv, recs' = recs, cell' = cell, NoneBorn
  PROVE  BodiesInv'
BY DEF BodiesInv, Rows, Owns, NoneBorn

\* A record changes in nothing that this is about.
LEMMA BodiesChanged ==
  ASSUME RowsInv, BodiesInv, NEW r, NEW s, Changes(r, s), cell' = cell, NoneBorn,
         s.cell = r.cell, s.started = r.started, s.threw = r.threw, s.done => r.done
  PROVE  BodiesInv'
<1>1. \A x \in Rows' : x = s \/ (x \in Rows /\ x # r)
  BY DEF Changes
<1>2. r \in Rows
  BY DEF Changes
<1>3. \A x \in Rows' : x.cell # None => x.cell = cell'[x.gen]
  BY <1>1, <1>2 DEF BodiesInv, Changes
<1>4. /\ \A x \in Rows' : ~x.started => ~x.threw
      /\ \A g, h \in Gens : Live(g)' /\ Live(h)' /\ cell'[g] = cell'[h] => g = h
  BY <1>1, <1>2 DEF BodiesInv, NoneBorn
<1>5. ASSUME NEW g \in Gens, Live(g)'
      PROVE  \E x \in Rows' : Owns(g, x)'
  <2>1. PICK x \in Rows : Owns(g, x)
    BY <1>5 DEF BodiesInv, NoneBorn
  <2>2. CASE x = r
    BY <2>1, <2>2 DEF Owns, Changes
  <2>3. CASE x # r
    BY <2>1, <2>3 DEF Owns, Changes
  <2> QED BY <2>2, <2>3
<1> QED BY <1>3, <1>4, <1>5 DEF BodiesInv

\* A record that goes is of nobody who lives.
LEMMA BodiesDropped ==
  ASSUME RowsInv, BodiesInv, NEW r, Drops(r), cell' = cell, NoneBorn, r.done \/ r.threw \/ ~r.started
  PROVE  BodiesInv'
<1>1. \A x \in Rows' : x \in Rows
  BY DEF Drops
<1>2. ASSUME NEW g \in Gens, Live(g)'
      PROVE  \E x \in Rows' : Owns(g, x)'
  <2>1. PICK x \in Rows : Owns(g, x)
    BY <1>2 DEF BodiesInv, NoneBorn
  <2>2. x # r
    BY <2>1 DEF Owns
  <2> QED BY <2>1, <2>2 DEF Owns, Drops
<1>3. \A g, h \in Gens : Live(g)' /\ Live(h)' /\ cell'[g] = cell'[h] => g = h
  BY DEF BodiesInv, NoneBorn
<1> QED BY <1>1, <1>2, <1>3 DEF BodiesInv

LEMMA AskBodies ==
  ASSUME RowsInv, BodiesInv, NEW t \in Task, Ask(t)
  PROVE  BodiesInv'
<1>1. RestOK /\ recs \in Seq(Record)
  BY TypesSplit DEF RowsInv
<1>2. ASSUME NEW g \in Gens, MakeGenerator(t, g)
      PROVE  BodiesInv'
  <2>1. PICK s \in Record :
          /\ s.gen = g /\ s.cell = None /\ ~s.started /\ ~s.threw /\ Rows' = Rows \cup {s}
    BY <1>2, MadeRow
  <2>2. cell' = cell /\ task' = task
    BY <1>2 DEF MakeGenerator
  <2> QED BY <2>1, <2>2 DEF BodiesInv, Owns, Live
<1>3. ASSUME NEW g \in Gens, NEW abrupt \in BOOLEAN, CallEnded(t, g, abrupt)
      PROVE  BodiesInv'
  <2>1. PICK r \in Rows : (r.done \/ ~r.started) /\ Drops(r)
    BY <1>3, EndedRow
  <2>2. cell' = cell /\ NoneBorn
    BY <1>3 DEF CallEnded, NoneBorn, Live
  <2> QED BY <2>1, <2>2, BodiesDropped
<1>4. ASSUME NEW g \in Gens, NEW c \in Cells, CallFirst(t, g, c)
      PROVE  BodiesInv'
  <2>1. PICK r \in Rows : /\ r.gen = g /\ ~r.done /\ ~r.started
                          /\ Changes(r, [r EXCEPT !.started = TRUE, !.caller = t, !.cell = c])
    BY <1>4, FirstRow
  <2> DEFINE s == [r EXCEPT !.started = TRUE, !.caller = t, !.cell = c]
  <2>2. r \in Record
    BY RowFacts
  <2>3. s.gen = g /\ s.started /\ s.cell = c /\ s.done = r.done /\ s.threw = r.threw
    BY <2>1, <2>2 DEF Record
  <2>4. Changes(r, s)
    BY <2>1
  <2> HIDE DEF s
  <2>5. \A x \in Rows' : x = s \/ (x \in Rows /\ x # r)
    BY <2>4 DEF Changes
  <2>6. c # None /\ \A h \in Gens : Live(h) => cell[h] # c
    BY <1>4, ConstantsAssumption DEF CallFirst, FreeCells, BodyAt
  <2>7. cell' = [cell EXCEPT ![g] = c] /\ cell \in [Gens -> Cells \cup {None}]
    BY <1>1, <1>4 DEF CallFirst, RestOK
  <2>8. \A h \in Gens : h # g => (Live(h)' => Live(h))
    <3>1. \A h \in Gens : h \in Task
      BY DEF Task
    <3> QED BY <1>1, <1>4, <3>1 DEF CallFirst, RestOK, Live, MayCall, Code, Running
  <2>9. \A x \in Rows' : x.cell # None => x.cell = cell'[x.gen]
    <3>1. \A x \in Rows : x # r => x.gen # g
      BY <2>1, RowFacts
    <3> QED BY <2>3, <2>5, <2>7, <3>1, RowFacts DEF BodiesInv, Record
  <2>10. /\ \A x \in Rows' : ~x.started => ~x.threw
         /\ \A h, k \in Gens : Live(h)' /\ Live(k)' /\ cell'[h] = cell'[k] => h = k
    <3>1. \A x \in Rows' : ~x.started => ~x.threw
      BY <2>3, <2>5 DEF BodiesInv
    <3>2. \A h \in Gens : cell'[h] = IF h = g THEN c ELSE cell[h]
      BY <2>7
    <3>3. \A h, k \in Gens : Live(h)' /\ Live(k)' /\ cell'[h] = cell'[k] => h = k
      BY <2>6, <2>8, <3>2 DEF BodiesInv
    <3> QED BY <3>1, <3>3
  <2>11. ASSUME NEW h \in Gens, Live(h)'
         PROVE  \E x \in Rows' : Owns(h, x)'
    <3>1. CASE h = g
      <4>1. ~r.threw
        BY <2>1 DEF BodiesInv
      <4> QED BY <2>1, <2>3, <2>4, <2>6, <2>7, <3>1, <4>1 DEF Owns, Changes
    <3>2. CASE h # g
      <4>1. PICK x \in Rows : Owns(h, x)
        BY <2>8, <2>11, <3>2 DEF BodiesInv
      <4>2. x # r
        BY <2>1, <3>2, <4>1 DEF Owns
      <4> QED BY <2>4, <2>7, <3>2, <4>1, <4>2 DEF Owns, Changes
    <3> QED BY <3>1, <3>2
  <2> QED BY <2>9, <2>10, <2>11 DEF BodiesInv
<1>5. ASSUME NEW g \in Gens, Call(t, g)
      PROVE  BodiesInv'
  <2>1. PICK r \in Rows : Changes(r, [r EXCEPT !.caller = t])
    BY <1>5, CalledRow
  <2> DEFINE s == [r EXCEPT !.caller = t]
  <2>2. r \in Record
    BY RowFacts
  <2>3. s.cell = r.cell /\ s.started = r.started /\ s.threw = r.threw /\ s.done = r.done
    BY <2>2 DEF Record
  <2>4. Changes(r, s)
    BY <2>1
  <2> HIDE DEF s
  <2>5. cell' = cell /\ NoneBorn
    BY <1>5, UnparkLives DEF Call, Parked, MayCall, Code, States
  <2> QED BY <2>3, <2>4, <2>5, BodiesChanged
<1> QED BY <1>2, <1>3, <1>4, <1>5 DEF Ask

LEMMA GiveBackBodies ==
  ASSUME RowsInv, BodiesInv, NEW b \in Task, GiveBack(b)
  PROVE  BodiesInv'
<1>1. RestOK /\ recs \in Seq(Record)
  BY TypesSplit DEF RowsInv
<1>2. b \in Gens /\ Running(b)
  BY DEF GiveBack, Yield, YieldOperand, YieldAwaited, Finish, MayYield, Code
<1>3. ASSUME NEW i \in DOMAIN recs, HandOut(b, i)
      PROVE  BodiesInv'
  <2> DEFINE r == recs[i]
             s == [r EXCEPT !.step = b, !.done = FALSE]
  <2>1. Changes(r, s) /\ r \in Record
    BY <1>2, <1>3, HandedRow, RowFacts
  <2>2. s.cell = r.cell /\ s.started = r.started /\ s.threw = r.threw /\ ~s.done
    BY <2>1 DEF Record
  <2> HIDE DEF r, s
  <2>3. cell' = cell /\ NoneBorn
    BY <1>2, <1>3, UnparkLives DEF HandOut, Parked, States
  <2> QED BY <2>1, <2>2, <2>3, BodiesChanged
<1>4. CASE Yield(b)
  <2>1. IndexOfTask(cell[b]) \in DOMAIN recs
    BY <1>1, <1>4, SearchType DEF Yield
  <2> QED BY <1>3, <1>4, <2>1 DEF Yield
<1>5. CASE YieldOperand(b)
  <2>1. recs' = recs /\ cell' = cell /\ NoneBorn
    BY <1>5 DEF YieldOperand, NoneBorn, Live
  <2> QED BY <2>1, BodiesKept
<1>6. CASE YieldAwaited(b)
  BY <1>3, <1>6 DEF YieldAwaited
<1>7. ASSUME NEW thrown \in BOOLEAN, Finish(b, thrown)
      PROVE  BodiesInv'
  <2>1. cell' = cell /\ NoneBorn
    BY <1>2, <1>7, UnparkLives DEF Finish, States
  <2>2. CASE recs' = recs
    BY <2>1, <2>2, BodiesKept
  <2>3. ASSUME NEW r \in Rows, r.gen = b, task' = [Unpark({r.caller}, task) EXCEPT ![b] = "dead"],
               Changes(r, [r EXCEPT !.step = b, !.done = TRUE, !.threw = thrown])
        PROVE  BodiesInv'
    <3> DEFINE s == [r EXCEPT !.step = b, !.done = TRUE, !.threw = thrown]
    <3>1. r \in Record /\ Changes(r, s)
      BY <2>3, RowFacts
    <3>2. s.cell = r.cell /\ s.started = r.started /\ s.gen = b
      BY <2>3, <3>1 DEF Record
    <3> HIDE DEF s
    <3>3. \A x \in Rows' : x = s \/ (x \in Rows /\ x # r)
      BY <3>1 DEF Changes
    <3>4. /\ \A x \in Rows' : x.cell # None => x.cell = cell'[x.gen]
          /\ \A g, h \in Gens : Live(g)' /\ Live(h)' /\ cell'[g] = cell'[h] => g = h
      BY <2>1, <2>3, <3>2, <3>3 DEF BodiesInv, NoneBorn
    <3>5. r.started
      <4>1. PICK x \in Rows : Owns(b, x)
        BY <1>2 DEF BodiesInv, Live, Running
      <4> QED BY <2>3, <4>1, RowFacts DEF Owns
    <3>6. \A x \in Rows' : ~x.started => ~x.threw
      BY <3>2, <3>3, <3>5 DEF BodiesInv
    <3>7. ASSUME NEW h \in Gens, Live(h)'
          PROVE  \E x \in Rows' : Owns(h, x)'
      <4>1. h # b
        <5>1. Unpark({r.caller}, task) \in [Task -> States]
          BY <1>1, UnparkType DEF RestOK
        <5> QED BY <2>3, <3>7, <5>1 DEF Live
      <4>2. PICK x \in Rows : Owns(h, x)
        BY <2>1, <3>7 DEF BodiesInv, NoneBorn
      <4>3. x # r
        BY <2>3, <4>1, <4>2 DEF Owns
      <4> QED BY <2>1, <3>1, <4>2, <4>3 DEF Owns, Changes
    <3> QED BY <3>4, <3>6, <3>7 DEF BodiesInv
  <2> QED BY <1>2, <1>7, <2>2, <2>3, FinishedRow
<1> QED BY <1>4, <1>5, <1>6, <1>7 DEF GiveBack

LEMMA OtherBodies ==
  ASSUME RowsInv, BodiesInv, NEW t \in Task,
         BindDone(t) \/ Abort(t) \/ Answer(t) \/ Proceed(t) \/ Surround(t) \/ Dispatch(t) \/ MainLoop \/ Exited
  PROVE  BodiesInv'
<1>1. RestOK /\ recs \in Seq(Record)
  BY TypesSplit DEF RowsInv
<1>2. CASE BindDone(t)
  <2>1. PICK r \in Rows : Changes(r, [r EXCEPT !.scope = binding[t]])
    BY <1>2, BoundRow
  <2> DEFINE s == [r EXCEPT !.scope = binding[t]]
  <2>2. Changes(r, s) /\ r \in Record
    BY <2>1, RowFacts
  <2>3. s.cell = r.cell /\ s.started = r.started /\ s.threw = r.threw /\ s.done = r.done
    BY <2>2 DEF Record
  <2> HIDE DEF s
  <2>4. cell' = cell /\ NoneBorn
    BY <1>2 DEF BindDone, NoneBorn, Live
  <2> QED BY <2>2, <2>3, <2>4, BodiesChanged
<1>3. CASE Answer(t)
  <2>1. cell' = cell /\ NoneBorn
    BY <1>3 DEF Answer, NoneBorn, Live
  <2>2. recs' = recs \/ \E r \in Rows : (r.done \/ r.threw) /\ Drops(r)
    BY <1>3, AnsweredRow
  <2> QED BY <2>1, <2>2, BodiesKept, BodiesDropped
<1>4. CASE Await(t)
  <2>1. recs' = recs /\ cell' = cell /\ Running(t)
    BY <1>4 DEF Await, Code
  <2>2. PICK W : task' = [Unpark(W, task) EXCEPT ![t] = "parked"]
    BY <1>4 DEF Await, Parked
  <2>3. NoneBorn
    BY <2>1, <2>2, UnparkLives DEF States
  <2> QED BY <2>1, <2>3, BodiesKept
<1>5. CASE EndActivation(t)
  <2>1. recs' = recs /\ cell' = cell /\ Running(t)
    BY <1>5 DEF EndActivation, Code
  <2>2. NoneBorn
    BY <1>5, <2>1, UnparkLives DEF EndActivation, States
  <2> QED BY <2>1, <2>2, BodiesKept
<1>6. ASSUME NEW u \in Task, Settle(t, u)
      PROVE  BodiesInv'
  <2>1. recs' = recs /\ cell' = cell /\ Running(t)
    BY <1>6 DEF Settle
  <2>2. NoneBorn
    BY <1>6, <2>1, UnparkLives DEF Settle, States
  <2> QED BY <2>1, <2>2, BodiesKept
<1>7. \A g \in Gens : g \in Task /\ g # Main /\ g \notin Acts
  BY ConstantsAssumption DEF Task
<1>8. ASSUME NEW a \in Acts, Spawn(t, a)
      PROVE  BodiesInv'
  <2>1. recs' = recs /\ cell' = cell /\ NoneBorn
    BY <1>1, <1>7, <1>8 DEF Spawn, RestOK, NoneBorn, Live, Code, Running
  <2> QED BY <2>1, BodiesKept
<1>9. CASE Abort(t) \/ Proceed(t) \/ Dispatch(t) \/ Exited
  <2>1. recs' = recs /\ cell' = cell /\ NoneBorn
    BY <1>1, <1>7, <1>9 DEF Abort, Proceed, Dispatch, Exited, vars, RestOK, NoneBorn, Live
  <2> QED BY <2>1, BodiesKept
<1>10. CASE MainLoop
  <2>1. recs' = recs /\ cell' = cell /\ NoneBorn
    BY <1>1, <1>7, <1>10
       DEF MainLoop, ToLoop, BeginCallback, LoopYield, LoopExit, RestOK, NoneBorn, Live
  <2> QED BY <2>1, BodiesKept
<1> QED BY <1>2, <1>3, <1>4, <1>5, <1>6, <1>8, <1>9, <1>10 DEF Surround

LEMMA InitBodies == Init => BodiesInv
<1> SUFFICES ASSUME Init
             PROVE  BodiesInv
  OBVIOUS
<1>1. Rows = {}
  BY DEF Init, Rows, Range
<1>2. \A g \in Gens : ~Live(g)
  BY ConstantsAssumption DEF Init, Live, Task
<1> QED BY <1>1, <1>2 DEF BodiesInv

LEMMA StepBodies ==
  ASSUME RowsInv, BodiesInv, [Next]_vars
  PROVE  BodiesInv'
<1>1. CASE Next
  BY <1>1, AskBodies, GiveBackBodies, OtherBodies DEF Next, Task
<1>2. CASE UNCHANGED vars
  <2>1. recs' = recs /\ cell' = cell /\ NoneBorn
    BY <1>2 DEF vars, NoneBorn, Live
  <2> QED BY <2>1, BodiesKept
<1> QED BY <1>1, <1>2

LEMMA BodiesAlways == Spec => []BodiesInv
<1>1. RowsInv /\ BodiesInv /\ [Next]_vars => BodiesInv'
  BY StepBodies
<1> QED BY <1>1, InitBodies, RowsAlways, PTL DEF Spec

\* A body that lives has a record of its own, whatever the program calls and whatever
\* addresses are reused; a record it may be taken for by its address is of a body
\* that lives no longer.
THEOREM BodiesKeepRecords == Spec => []BodyKeepsRecord
<1>1. ASSUME RowsInv, BodiesInv
      PROVE  BodyKeepsRecord
  <2> SUFFICES ASSUME NEW b \in Gens, Live(b)
               PROVE  /\ \E i \in DOMAIN recs : recs[i].gen = b /\ recs[i].cell = cell[b] /\ ~recs[i].done
                      /\ \A i \in DOMAIN recs : recs[i].cell = cell[b] /\ recs[i].gen # b => ~Live(recs[i].gen)
    BY DEF BodyKeepsRecord
  <2>1. PICK r \in Rows : Owns(b, r)
    BY <1>1 DEF BodiesInv
  <2>2. PICK i \in DOMAIN recs : recs[i] = r
    BY DEF Rows, Range
  <2>3. ASSUME NEW j \in DOMAIN recs, recs[j].cell = cell[b], recs[j].gen # b, Live(recs[j].gen)
        PROVE  FALSE
    <3>1. PICK x \in Rows : x = recs[j]
      BY DEF Rows, Range
    <3>2. x.gen \in Gens
      BY <1>1, RowFacts DEF Record
    <3>3. cell[x.gen] = cell[b]
      BY <1>1, <2>1, <2>3, <3>1 DEF BodiesInv, Owns
    <3> QED BY <1>1, <2>3, <3>1, <3>2, <3>3 DEF BodiesInv
  <2> QED BY <2>1, <2>2, <2>3 DEF Owns
<1> QED BY <1>1, BodiesAlways, RowsAlways, PTL

-----------------------------------------------------------------------------
(* Calls and answers stay paired *)

\* A body parked at a yield; a generator nobody asks.
AtYield(g) == pc[g] = "yielded" /\ task[g] = "parked"
Unasked(g) == \A t \in Task : asked[t] # g

\* Who asks is in a call, lives, and is the caller on record of the one it asks.
AskInv ==
  \A t \in Task :
    IF asked[t] = None THEN pc[t] # "asking"
    ELSE /\ pc[t] = "asking" /\ Live(t)
         /\ \E r \in Rows : r.gen = asked[t] /\ r.caller = t /\ r.started
OneAsker == \A t, u \in Task : asked[t] = asked[u] /\ asked[t] # None => t = u

\* A record is of a generator never called; of one nobody asks, whose body is parked at
\* a yield; of one whose body works while its caller is parked; or of one that has
\* answered a caller that is awake.
RowInv(r) ==
  /\ ~r.started => ~r.done /\ ~r.threw /\ task[r.gen] = "none" /\ Unasked(r.gen)
  /\ r.started /\ Unasked(r.gen) => ~r.done /\ ~r.threw /\ AtYield(r.gen)
  /\ \A t \in Task : asked[t] = r.gen =>
       IF task[t] = "parked" THEN ~r.done /\ ~r.threw /\ Live(r.gen) /\ ~AtYield(r.gen)
       ELSE r.step = r.gen /\ IF r.done THEN task[r.gen] = "dead" ELSE ~r.threw /\ AtYield(r.gen)

\* What else may wake a parked task wakes no caller and no body at a yield.
WaitInv == \A t \in waiting : pc[t] = "awaiting" /\ task[t] = "parked"
CreatorInv ==
  /\ \A a \in Acts : creator[a] # None => pc[creator[a]] = "spawning" /\ task[creator[a]] = "parked"
  /\ \A a, b \in Acts : creator[a] = creator[b] /\ creator[a] # None => a = b
NoneInv == \A g \in Gens : g \notin made => task[g] = "none"

\* A step is on its way from the moment the caller is woken until it has read it.
HandedOne(g) ==
  handed[g] = taken[g] + (IF \E t \in Task : asked[t] = g /\ task[t] # "parked" THEN 1 ELSE 0)

Core ==
  /\ AskInv
  /\ OneAsker
  /\ \A r \in Rows : RowInv(r)
  /\ WaitInv
  /\ CreatorInv
  /\ NoneInv
  /\ \A g \in Gens : HandedOne(g)

\* A program that an index no longer valid has stopped.
Aborted == \A t \in Task : task[t] = "dead"

Paired == OneAsker /\ StepsReceivedOnce /\ (Aborted \/ Core)
CallsInv == ~astray => Paired

\* The scheduler's view of a body, and of those who ask a generator, does not change in
\* what the records say of it.
BodyKept(g) ==
  /\ AtYield(g)' <=> AtYield(g)
  /\ Live(g)' <=> Live(g)
  /\ task[g] = "none" => task'[g] = "none"
  /\ task[g] = "dead" => task'[g] = "dead"
AskersKept(g) ==
  \A t \in Task : /\ asked'[t] = g <=> asked[t] = g
                  /\ asked[t] = g => (task'[t] = "parked" <=> task[t] = "parked")
Elsewhere(g) ==
  \A h \in Gens : h # g => /\ BodyKept(h) /\ AskersKept(h)
                           /\ handed'[h] = handed[h] /\ taken'[h] = taken[h]

LEMMA RowStays ==
  ASSUME NEW r, RowInv(r), BodyKept(r.gen), AskersKept(r.gen)
  PROVE  RowInv(r)'
<1>1. Unasked(r.gen)' <=> Unasked(r.gen)
  BY DEF AskersKept, Unasked
<1>2. ~r.started => ~r.done /\ ~r.threw /\ task'[r.gen] = "none" /\ Unasked(r.gen)'
  BY <1>1 DEF RowInv, BodyKept
<1>3. r.started /\ Unasked(r.gen)' => ~r.done /\ ~r.threw /\ AtYield(r.gen)'
  BY <1>1 DEF RowInv, BodyKept
<1>4. ASSUME NEW t \in Task, asked'[t] = r.gen
      PROVE  IF task'[t] = "parked" THEN ~r.done /\ ~r.threw /\ Live(r.gen)' /\ ~AtYield(r.gen)'
             ELSE r.step = r.gen /\ IF r.done THEN task'[r.gen] = "dead" ELSE ~r.threw /\ AtYield(r.gen)'
  <2>1. asked[t] = r.gen /\ (task'[t] = "parked" <=> task[t] = "parked")
    BY <1>4 DEF AskersKept
  <2> QED BY <2>1 DEF RowInv, BodyKept
<1> QED BY <1>2, <1>3, <1>4 DEF RowInv

LEMMA HandedStays ==
  ASSUME NEW g, HandedOne(g), AskersKept(g), handed'[g] = handed[g], taken'[g] = taken[g]
  PROVE  HandedOne(g)'
<1>1. (\E t \in Task : asked'[t] = g /\ task'[t] # "parked")
      <=> \E t \in Task : asked[t] = g /\ task[t] # "parked"
  BY DEF AskersKept
<1> QED BY <1>1 DEF HandedOne

\* An action on one generator leaves the records of the others true.
LEMMA OthersStay ==
  ASSUME RowsInv, Core, NEW g \in Gens, Elsewhere(g),
         \A r \in Rows' : r.gen # g => r \in Rows,
         \A r \in Rows' : r.gen = g => RowInv(r)', HandedOne(g)'
  PROVE  /\ \A r \in Rows' : RowInv(r)'
         /\ \A h \in Gens : HandedOne(h)'
<1>1. ASSUME NEW r \in Rows', r.gen # g
      PROVE  RowInv(r)'
  <2>1. r \in Rows /\ r.gen \in Gens
    BY <1>1, RowFacts DEF Record
  <2>2. RowInv(r) /\ BodyKept(r.gen) /\ AskersKept(r.gen)
    BY <1>1, <2>1 DEF Core, Elsewhere
  <2> QED BY <2>2, RowStays
<1>2. ASSUME NEW h \in Gens, h # g
      PROVE  HandedOne(h)'
  <2>1. HandedOne(h) /\ AskersKept(h) /\ handed'[h] = handed[h] /\ taken'[h] = taken[h]
    BY <1>2 DEF Core, Elsewhere
  <2> QED BY <2>1, HandedStays
<1> QED BY <1>1, <1>2

\* An action that is not about calls leaves all of them true.
LEMMA CallsStay ==
  ASSUME RowsInv, Core, asked' = asked, handed' = handed, taken' = taken, made' = made,
         \A r \in Rows' : \E x \in Rows : /\ x.gen = r.gen /\ x.caller = r.caller /\ x.started = r.started
                                          /\ x.done = r.done /\ x.threw = r.threw /\ x.step = r.step,
         \A x \in Rows : \E r \in Rows' : r.gen = x.gen /\ r.caller = x.caller /\ r.started = x.started,
         \A g \in Gens : BodyKept(g),
         \A t \in Task : IF asked[t] = None THEN pc'[t] # "asking"
                         ELSE /\ pc'[t] = "asking" /\ Live(t)'
                              /\ (task'[t] = "parked" <=> task[t] = "parked"),
         WaitInv', CreatorInv'
  PROVE  Core'
<1>1. None \notin Gens
  BY ConstantsAssumption DEF Task
<1>2. \A g \in Gens : AskersKept(g)
  BY <1>1 DEF AskersKept
<1>3. AskInv'
  BY DEF Core, AskInv
<1>4. OneAsker'
  BY DEF Core, OneAsker
<1>5. ASSUME NEW r \in Rows'
      PROVE  RowInv(r)'
  <2>1. PICK x \in Rows : /\ x.gen = r.gen /\ x.caller = r.caller /\ x.started = r.started
                          /\ x.done = r.done /\ x.threw = r.threw /\ x.step = r.step
    OBVIOUS
  <2>2. x.gen \in Gens
    BY RowFacts DEF Record
  <2>3. RowInv(x) /\ BodyKept(x.gen) /\ AskersKept(x.gen)
    BY <1>2, <2>2 DEF Core
  <2>4. RowInv(x)'
    BY <2>3, RowStays
  <2> QED BY <2>1, <2>4 DEF RowInv
<1>6. NoneInv'
  BY DEF Core, NoneInv, BodyKept
<1>7. ASSUME NEW g \in Gens
      PROVE  HandedOne(g)'
  <2>1. HandedOne(g) /\ AskersKept(g)
    BY <1>2 DEF Core
  <2> QED BY <2>1, HandedStays
<1> QED BY <1>3, <1>4, <1>5, <1>6, <1>7 DEF Core

\* Waking some and moving one.
LEMMA Woken ==
  ASSUME RowsInv, NEW W, NEW t \in Task, NEW to \in States
  PROVE  /\ task' = Unpark(W, task) =>
              \A u \in Task : task'[u] = IF u \in W /\ task[u] = "parked" THEN "runnable" ELSE task[u]
         /\ task' = [Unpark(W, task) EXCEPT ![t] = to] =>
              \A u \in Task : task'[u] = IF u = t THEN to
                                         ELSE IF u \in W /\ task[u] = "parked" THEN "runnable" ELSE task[u]
<1> DEFINE woken == Unpark(W, task)
<1>1. /\ woken \in [Task -> States]
      /\ \A u \in Task : woken[u] = IF u \in W /\ task[u] = "parked" THEN "runnable" ELSE task[u]
  BY UnparkType, TypesSplit DEF RowsInv, RestOK
<1> HIDE DEF woken
<1>2. task' = woken =>
        \A u \in Task : task'[u] = IF u \in W /\ task[u] = "parked" THEN "runnable" ELSE task[u]
  BY <1>1
<1>3. task' = [woken EXCEPT ![t] = to] =>
        \A u \in Task : task'[u] = IF u = t THEN to
                                   ELSE IF u \in W /\ task[u] = "parked" THEN "runnable" ELSE task[u]
  BY <1>1
<1> QED BY <1>2, <1>3 DEF woken

\* A program that has stopped does nothing more.
LEMMA DeadStops ==
  ASSUME Aborted, Next
  PROVE  UNCHANGED vars
<1>1. \A t \in Task : ~Running(t) /\ task[t] # "runnable"
  BY DEF Aborted, Running
<1>2. Main \in Task
  BY ZenonT(30) DEF Task
<1>3. \A t \in Task : ~Ask(t)
  <2> SUFFICES ASSUME NEW t \in Task, ~Code(t)
               PROVE  ~Ask(t)
    BY <1>1 DEF Code
  <2>1. \A g \in Gens : ~MakeGenerator(t, g) /\ ~MayCall(t, g)
    BY DEF MakeGenerator, MayCall
  <2> QED BY <2>1 DEF Ask, CallEnded, CallFirst, Call
<1>4. \A t \in Task : ~BindDone(t) /\ ~Abort(t) /\ ~Answer(t) /\ ~Proceed(t) /\ ~Dispatch(t)
  BY <1>1 DEF BindDone, Abort, Answer, Proceed, Dispatch, Code
<1>5. \A t \in Task : ~GiveBack(t)
  BY <1>1 DEF GiveBack, Yield, YieldOperand, YieldAwaited, Finish, MayYield, Code
<1>6. \A t \in Task : ~Surround(t)
  BY <1>1 DEF Surround, Await, EndActivation, Settle, Spawn, Code
<1>7. ~MainLoop
  BY <1>1, <1>2 DEF MainLoop, ToLoop, BeginCallback, LoopYield, LoopExit, Loop, Code
<1> QED BY <1>3, <1>4, <1>5, <1>6, <1>7 DEF Next, Exited

\* The records stay, or one is bound its scope.
SameRows ==
  /\ \A r \in Rows' : \E x \in Rows : /\ x.gen = r.gen /\ x.caller = r.caller /\ x.started = r.started
                                      /\ x.done = r.done /\ x.threw = r.threw /\ x.step = r.step
  /\ \A x \in Rows : \E r \in Rows' : r.gen = x.gen /\ r.caller = x.caller /\ r.started = x.started

LEMMA KeptRows ==
  ASSUME recs' = recs
  PROVE  SameRows
BY DEF SameRows, Rows

LEMMA BindCalls ==
  ASSUME RowsInv, Core, NEW t \in Task, BindDone(t)
  PROVE  Core'
<1>1. PICK r \in Rows : Changes(r, [r EXCEPT !.scope = binding[t]])
  BY BoundRow
<1>2. PICK s : s = [r EXCEPT !.scope = binding[t]]
  OBVIOUS
<1>3. r \in Record /\ Changes(r, s)
  BY <1>1, <1>2, RowFacts
<1>4. /\ s.gen = r.gen /\ s.caller = r.caller /\ s.started = r.started
      /\ s.done = r.done /\ s.threw = r.threw /\ s.step = r.step
  BY <1>2, <1>3 DEF Record
<1>5. SameRows
  BY <1>3, <1>4 DEF SameRows, Changes
<1>6. /\ asked' = asked /\ handed' = handed /\ taken' = taken /\ made' = made
      /\ pc' = pc /\ task' = task /\ waiting' = waiting /\ creator' = creator
  BY DEF BindDone, history, told
<1>7. \A g \in Gens : BodyKept(g)
  BY <1>6 DEF BodyKept, AtYield, Live
<1>8. \A u \in Task : IF asked[u] = None THEN pc'[u] # "asking"
                      ELSE /\ pc'[u] = "asking" /\ Live(u)'
                           /\ (task'[u] = "parked" <=> task[u] = "parked")
  BY <1>6 DEF Core, AskInv, Live
<1>9. WaitInv' /\ CreatorInv'
  BY <1>6 DEF Core, WaitInv, CreatorInv
<1> QED BY <1>5, <1>6, <1>7, <1>8, <1>9, CallsStay DEF SameRows

\* Who runs code of the program waits for nobody.
LEMMA RunsAlone ==
  ASSUME RowsInv, Core, NEW t \in Task, Running(t)
  PROVE  /\ t \notin waiting /\ \A a \in Acts : creator[a] # t
         /\ pc[t] # "asking" => asked[t] = None /\ \A g \in Gens : asked[t] # g
         /\ ~AtYield(t) /\ Live(t)
<1>1. None \notin Gens /\ None # t
  BY ConstantsAssumption DEF Task
<1>2. t \notin waiting
  BY DEF Core, WaitInv, Running
<1>3. \A a \in Acts : creator[a] # t
  BY <1>1 DEF Core, CreatorInv, Running
<1> QED BY <1>1, <1>2, <1>3 DEF Core, AskInv, Running, AtYield, Live

LEMMA ProceedCalls ==
  ASSUME RowsInv, Core, NEW t \in Task, Proceed(t)
  PROVE  Core'
<1>1. RestOK
  BY TypesSplit DEF RowsInv
<1>2. /\ asked' = asked /\ handed' = handed /\ taken' = taken /\ made' = made
      /\ recs' = recs /\ task' = task /\ waiting' = waiting /\ creator' = creator
      /\ \A u \in Task : pc'[u] = IF u = t THEN "code" ELSE pc[u]
      /\ pc[t] # "asking" /\ Running(t)
  BY <1>1 DEF Proceed, history, told, RestOK
<1>3. /\ t \notin waiting /\ \A a \in Acts : creator[a] # t
      /\ asked[t] = None /\ ~AtYield(t)
  BY <1>2, RunsAlone
<1>4. \A g \in Gens : g \in Task
  BY DEF Task
<1>5. \A g \in Gens : BodyKept(g)
  BY <1>2, <1>3, <1>4 DEF BodyKept, AtYield, Live, Running
<1>6. \A u \in Task : IF asked[u] = None THEN pc'[u] # "asking"
                      ELSE /\ pc'[u] = "asking" /\ Live(u)'
                           /\ (task'[u] = "parked" <=> task[u] = "parked")
  BY <1>2, <1>3 DEF Core, AskInv, Live
<1>7. WaitInv'
  BY <1>1, <1>2, <1>3 DEF Core, WaitInv, RestOK
<1>8. CreatorInv'
  <2>1. \A a \in Acts : creator[a] \in Task \cup {None}
    BY <1>1 DEF RestOK
  <2> QED BY <1>2, <1>3, <2>1 DEF Core, CreatorInv
<1> QED BY <1>2, <1>5, <1>6, <1>7, <1>8, KeptRows, CallsStay DEF SameRows

LEMMA AwaitCalls ==
  ASSUME RowsInv, Core, NEW t \in Task, Await(t)
  PROVE  Core'
<1>1. RestOK
  BY TypesSplit DEF RowsInv
<1>2. /\ asked' = asked /\ handed' = handed /\ taken' = taken /\ made' = made
      /\ recs' = recs /\ waiting' = waiting \cup {t}
      /\ \A u \in Task : pc'[u] = IF u = t THEN "awaiting" ELSE pc[u]
      /\ pc[t] = "code" /\ Running(t)
      /\ \A a \in Acts : creator'[a] = IF a = t THEN None ELSE creator[a]
  BY <1>1 DEF Await, history, told, RestOK, Code
<1>3. /\ t \notin waiting /\ \A a \in Acts : creator[a] # t
      /\ asked[t] = None /\ ~AtYield(t) /\ Live(t)
  BY <1>2, RunsAlone
<1>4. \A g \in Gens : g \in Task
  BY DEF Task
<1>5. PICK W : /\ task' = [Unpark(W, task) EXCEPT ![t] = "parked"]
               /\ \A u \in W : t \in Acts /\ u = creator[t]
  <2> DEFINE V == IF t \in Acts THEN {creator[t]} ELSE {}
  <2>1. task' = [Unpark(V, task) EXCEPT ![t] = "parked"]
    BY DEF Await, Parked
  <2>2. \A u \in V : t \in Acts /\ u = creator[t]
    OBVIOUS
  <2> HIDE DEF V
  <2> QED BY <2>1, <2>2
<1>6. \A u \in Task : task'[u] = IF u = t THEN "parked"
                                 ELSE IF u \in W /\ task[u] = "parked" THEN "runnable" ELSE task[u]
  BY <1>5, Woken DEF States
<1>7. \A u \in Task : u \in W => u # t /\ pc[u] = "spawning" /\ t \in Acts /\ u = creator[t]
  <2>1. None \notin Task
    BY ConstantsAssumption DEF Task
  <2> QED BY <1>3, <1>5, <2>1 DEF Core, CreatorInv
<1>8. \A g \in Gens : BodyKept(g)
  BY <1>2, <1>3, <1>4, <1>6, <1>7 DEF BodyKept, AtYield, Live
<1>9. \A u \in Task : IF asked[u] = None THEN pc'[u] # "asking"
                      ELSE /\ pc'[u] = "asking" /\ Live(u)'
                           /\ (task'[u] = "parked" <=> task[u] = "parked")
  BY <1>2, <1>3, <1>6, <1>7 DEF Core, AskInv, Live
<1>10. WaitInv'
  <2>1. \A u \in waiting : u \in Task /\ u # t /\ u \notin W
    BY <1>1, <1>3, <1>7 DEF Core, WaitInv, RestOK
  <2> QED BY <1>2, <1>6, <2>1 DEF Core, WaitInv
<1>11. CreatorInv'
  <2>1. \A a \in Acts : creator[a] \in Task \cup {None}
    BY <1>1 DEF RestOK
  <2>2. ASSUME NEW a \in Acts, creator'[a] # None
        PROVE  pc'[creator'[a]] = "spawning" /\ task'[creator'[a]] = "parked"
    <3>1. a # t /\ creator'[a] = creator[a] /\ creator[a] \in Task /\ creator[a] # t
      BY <1>2, <1>3, <2>1, <2>2
    <3>2. creator[a] \notin W
      BY <1>7, <2>2, <3>1 DEF Core, CreatorInv
    <3> QED BY <1>2, <1>6, <2>2, <3>1, <3>2 DEF Core, CreatorInv
  <2>3. \A a, b \in Acts : creator'[a] = creator'[b] /\ creator'[a] # None => a = b
    BY <1>2 DEF Core, CreatorInv
  <2> QED BY <2>2, <2>3 DEF CreatorInv
<1> QED BY <1>2, <1>8, <1>9, <1>10, <1>11, KeptRows, CallsStay DEF SameRows

LEMMA EndCalls ==
  ASSUME RowsInv, Core, NEW a \in Task, EndActivation(a)
  PROVE  Core'
<1>1. RestOK /\ a \in Acts
  BY TypesSplit DEF RowsInv, EndActivation
<1>2. /\ asked' = asked /\ handed' = handed /\ taken' = taken /\ made' = made
      /\ recs' = recs /\ waiting' = waiting
      /\ \A u \in Task : pc'[u] = IF u = a THEN "ended" ELSE pc[u]
      /\ pc[a] = "code" /\ Running(a)
      /\ \A b \in Acts : creator'[b] = IF b = a THEN None ELSE creator[b]
      /\ task' = [Unpark({creator[a]}, task) EXCEPT ![a] = "dead"]
  BY <1>1 DEF EndActivation, history, told, RestOK, Code
<1>3. a \notin waiting /\ (\A b \in Acts : creator[b] # a) /\ asked[a] = None
  BY <1>2, RunsAlone
<1>4. \A g \in Gens : g \in Task /\ g # a
  BY <1>1, ConstantsAssumption DEF Task
<1>5. \A u \in Task : task'[u] = IF u = a THEN "dead"
                                 ELSE IF u = creator[a] /\ task[u] = "parked" THEN "runnable" ELSE task[u]
  <2>1. "dead" \in States
    BY DEF States
  <2>2. \A u \in Task : task'[u] = IF u = a THEN "dead"
                                   ELSE IF u \in {creator[a]} /\ task[u] = "parked" THEN "runnable" ELSE task[u]
    BY <1>2, <2>1, Woken, SMTT(30)
  <2> QED BY <2>2
<1>6. \A u \in Task : u = creator[a] => pc[u] = "spawning"
  <2>1. None \notin Task
    BY ConstantsAssumption DEF Task
  <2> QED BY <1>1, <2>1 DEF Core, CreatorInv
<1>7. \A g \in Gens : BodyKept(g)
  BY <1>2, <1>4, <1>5, <1>6 DEF BodyKept, AtYield, Live
<1>8. \A u \in Task : IF asked[u] = None THEN pc'[u] # "asking"
                      ELSE /\ pc'[u] = "asking" /\ Live(u)'
                           /\ (task'[u] = "parked" <=> task[u] = "parked")
  BY <1>2, <1>3, <1>5, <1>6 DEF Core, AskInv, Live
<1>9. WaitInv'
  <2>1. \A u \in waiting : u \in Task /\ u # a /\ u # creator[a]
    BY <1>1, <1>3, <1>6 DEF Core, WaitInv, RestOK
  <2> QED BY <1>2, <1>5, <2>1 DEF Core, WaitInv
<1>10. CreatorInv'
  <2>1. \A b \in Acts : creator[b] \in Task \cup {None}
    BY <1>1 DEF RestOK
  <2>2. ASSUME NEW b \in Acts, creator'[b] # None
        PROVE  pc'[creator'[b]] = "spawning" /\ task'[creator'[b]] = "parked"
    <3>1. b # a /\ creator'[b] = creator[b] /\ creator[b] \in Task /\ creator[b] # a
      BY <1>2, <1>3, <2>1, <2>2
    <3>2. creator[b] # creator[a]
      BY <1>1, <2>2, <3>1 DEF Core, CreatorInv
    <3> QED BY <1>2, <1>5, <2>2, <3>1, <3>2 DEF Core, CreatorInv
  <2>3. \A b, c \in Acts : creator'[b] = creator'[c] /\ creator'[b] # None => b = c
    BY <1>2 DEF Core, CreatorInv
  <2> QED BY <2>2, <2>3 DEF CreatorInv
<1> QED BY <1>2, <1>7, <1>8, <1>9, <1>10, KeptRows, CallsStay DEF SameRows

LEMMA SettleCalls ==
  ASSUME RowsInv, Core, NEW t \in Task, NEW v \in Task, Settle(t, v)
  PROVE  Core'
<1>1. RestOK
  BY TypesSplit DEF RowsInv
<1>2. /\ asked' = asked /\ handed' = handed /\ taken' = taken /\ made' = made
      /\ recs' = recs /\ pc' = pc /\ creator' = creator /\ waiting' = waiting \ {v}
      /\ task' = Unpark({v}, task) /\ v \in waiting
  BY DEF Settle, history, told
<1>3. pc[v] = "awaiting" /\ task[v] = "parked"
  BY <1>2 DEF Core, WaitInv
<1>4. \A g \in Gens : g \in Task
  BY DEF Task
<1>5. \A u \in Task : task'[u] = IF u = v THEN "runnable" ELSE task[u]
  <2>1. "runnable" \in States
    BY DEF States
  <2>2. \A u \in Task : task'[u] = IF u \in {v} /\ task[u] = "parked" THEN "runnable" ELSE task[u]
    BY <1>2, <2>1, Woken
  <2> QED BY <1>3, <2>2
<1>6. \A g \in Gens : BodyKept(g)
  BY <1>2, <1>3, <1>4, <1>5 DEF BodyKept, AtYield, Live
<1>7. \A u \in Task : IF asked[u] = None THEN pc'[u] # "asking"
                      ELSE /\ pc'[u] = "asking" /\ Live(u)'
                           /\ (task'[u] = "parked" <=> task[u] = "parked")
  BY <1>2, <1>3, <1>5 DEF Core, AskInv, Live
<1>8. WaitInv'
  <2>1. \A u \in waiting : u \in Task
    BY <1>1 DEF RestOK
  <2> QED BY <1>2, <1>5, <2>1 DEF Core, WaitInv
<1>9. CreatorInv'
  <2>1. \A a \in Acts : creator[a] \in Task \cup {None}
    BY <1>1 DEF RestOK
  <2> QED BY <1>2, <1>3, <1>5, <2>1 DEF Core, CreatorInv
<1> QED BY <1>2, <1>6, <1>7, <1>8, <1>9, KeptRows, CallsStay DEF SameRows

LEMMA SpawnCalls ==
  ASSUME RowsInv, Core, NEW t \in Task, NEW a \in Acts, Spawn(t, a)
  PROVE  Core'
<1>1. RestOK
  BY TypesSplit DEF RowsInv
<1>2. a \in Task /\ \A g \in Gens : g \in Task /\ g # a
  BY ConstantsAssumption DEF Task
<1>3. /\ asked' = asked /\ handed' = handed /\ taken' = taken /\ made' = made
      /\ recs' = recs /\ waiting' = waiting
      /\ pc[t] = "code" /\ pc[a] = "unborn" /\ Running(t)
      /\ \A u \in Task : pc'[u] = IF u = a THEN "start" ELSE IF u = t THEN "spawning" ELSE pc[u]
      /\ \A u \in Task : task'[u] = IF u = a THEN "runnable" ELSE IF u = t THEN "parked" ELSE task[u]
      /\ \A b \in Acts : creator'[b] = IF b = a THEN t ELSE creator[b]
  BY <1>1, <1>2 DEF Spawn, history, told, RestOK, Code
<1>4. t \notin waiting /\ (\A b \in Acts : creator[b] # t) /\ asked[t] = None /\ ~AtYield(t) /\ Live(t)
  BY <1>3, RunsAlone
<1>5. asked[a] = None /\ a \notin waiting /\ \A b \in Acts : creator[b] # a
  <2>1. a # None
    BY <1>2, ConstantsAssumption DEF Task
  <2> QED BY <1>2, <1>3, <2>1 DEF Core, AskInv, WaitInv, CreatorInv
<1>6. \A g \in Gens : BodyKept(g)
  BY <1>2, <1>3, <1>4 DEF BodyKept, AtYield, Live
<1>7. \A u \in Task : IF asked[u] = None THEN pc'[u] # "asking"
                      ELSE /\ pc'[u] = "asking" /\ Live(u)'
                           /\ (task'[u] = "parked" <=> task[u] = "parked")
  BY <1>3, <1>4, <1>5 DEF Core, AskInv, Live
<1>8. WaitInv'
  <2>1. \A u \in waiting : u \in Task
    BY <1>1 DEF RestOK
  <2> QED BY <1>3, <1>4, <1>5, <2>1 DEF Core, WaitInv
<1>9. CreatorInv'
  <2>1. \A b \in Acts : creator[b] \in Task \cup {None}
    BY <1>1 DEF RestOK
  <2>2. t # a
    BY <1>3
  <2> QED BY <1>3, <1>4, <1>5, <2>1, <2>2 DEF Core, CreatorInv
<1> QED BY <1>3, <1>6, <1>7, <1>8, <1>9, KeptRows, CallsStay DEF SameRows

\* The scheduler, the event loop, and the search a yield makes before its operand.
LEMMA QuietCalls ==
  ASSUME RowsInv, Core, NEW t \in Task, Dispatch(t) \/ MainLoop \/ Exited \/ YieldOperand(t) \/ UNCHANGED vars
  PROVE  Core'
<1>1. RestOK
  BY TypesSplit DEF RowsInv
<1>2. Main \in Task /\ \A g \in Gens : g \in Task /\ g # Main
  BY ConstantsAssumption DEF Task
<1>3. /\ asked' = asked /\ handed' = handed /\ taken' = taken /\ made' = made
      /\ recs' = recs /\ waiting' = waiting /\ creator' = creator
  BY DEF Dispatch, MainLoop, ToLoop, BeginCallback, LoopYield, LoopExit, Exited, YieldOperand, vars, history, told
<1>4. \/ pc' = pc /\ task' = task
      \/ pc' = pc /\ task[t] = "runnable" /\ \A u \in Task : task'[u] = IF u = t THEN "running" ELSE task[u]
      \/ /\ Running(Main) /\ pc[Main] \in {"code", "loop"}
         /\ \A u \in Task \ {Main} : task'[u] = task[u] /\ pc'[u] = pc[u]
         /\ pc'[Main] \in {"loop", "code", "ended"}
  <2>1. CASE Dispatch(t)
    BY <1>1, <2>1 DEF Dispatch, RestOK
  <2>2. CASE MainLoop
    BY <1>1, <1>2, <2>2 DEF MainLoop, ToLoop, BeginCallback, LoopYield, LoopExit, Loop, Code, RestOK
  <2>3. CASE Exited \/ YieldOperand(t) \/ UNCHANGED vars
    BY <2>3 DEF Exited, YieldOperand, vars
  <2> QED BY <2>1, <2>2, <2>3
<1>5. Running(Main) /\ pc[Main] \in {"code", "loop"} =>
        Main \notin waiting /\ (\A a \in Acts : creator[a] # Main) /\ asked[Main] = None
  BY <1>2, RunsAlone
<1>6. \A g \in Gens : BodyKept(g)
  BY <1>2, <1>4 DEF BodyKept, AtYield, Live
<1>7. \A u \in Task : IF asked[u] = None THEN pc'[u] # "asking"
                      ELSE /\ pc'[u] = "asking" /\ Live(u)'
                           /\ (task'[u] = "parked" <=> task[u] = "parked")
  BY <1>3, <1>4, <1>5 DEF Core, AskInv, Live
<1>8. WaitInv'
  <2>1. \A u \in waiting : u \in Task
    BY <1>1 DEF RestOK
  <2> QED BY <1>3, <1>4, <1>5, <2>1 DEF Core, WaitInv
<1>9. CreatorInv'
  <2>1. \A b \in Acts : creator[b] \in Task \cup {None}
    BY <1>1 DEF RestOK
  <2> QED BY <1>3, <1>4, <1>5, <2>1 DEF Core, CreatorInv
<1> QED BY <1>3, <1>6, <1>7, <1>8, <1>9, KeptRows, CallsStay DEF SameRows

\* Whoever asks a generator is the caller on its record.
LEMMA AskerOf ==
  ASSUME RowsInv, Core, NEW t \in Task, NEW r \in Rows, asked[t] = r.gen
  PROVE  /\ r.caller = t /\ r.started /\ pc[t] = "asking" /\ Live(t)
         /\ \A u \in Task : asked[u] = r.gen => u = t
<1>1. r.gen \in Gens /\ None \notin Gens
  BY RowFacts, ConstantsAssumption DEF Record, Task
<1>2. PICK x \in Rows : x.gen = asked[t] /\ x.caller = t /\ x.started
  BY <1>1 DEF Core, AskInv
<1>3. x = r
  BY <1>2, RowFacts
<1>4. pc[t] = "asking" /\ Live(t)
  BY <1>1 DEF Core, AskInv
<1> QED BY <1>1, <1>2, <1>3, <1>4 DEF Core, OneAsker

LEMMA MakeCalls ==
  ASSUME RowsInv, Core, NEW t \in Task, NEW g \in Gens, MakeGenerator(t, g)
  PROVE  Core'
<1>1. /\ asked' = asked /\ handed' = handed /\ taken' = taken /\ made' = made \cup {g}
      /\ pc' = pc /\ task' = task /\ waiting' = waiting /\ creator' = creator /\ g \notin made
  BY DEF MakeGenerator, history, told
<1>2. PICK s \in Record : s.gen = g /\ ~s.started /\ ~s.done /\ ~s.threw /\ Rows' = Rows \cup {s}
  BY MadeRow
<1>3. AskInv'
  BY <1>1, <1>2 DEF Core, AskInv, Live
<1>4. OneAsker'
  BY <1>1 DEF Core, OneAsker
<1>5. task[g] = "none" /\ Unasked(g)
  <2>1. task[g] = "none"
    BY <1>1 DEF Core, NoneInv
  <2>2. ASSUME NEW u \in Task, asked[u] = g
        PROVE  FALSE
    <3>1. None \notin Gens
      BY ConstantsAssumption DEF Task
    <3>2. PICK x \in Rows : x.gen = g
      BY <2>2, <3>1 DEF Core, AskInv
    <3> QED BY <1>1, <3>2 DEF RowsInv
  <2> QED BY <2>1, <2>2 DEF Unasked
<1>6. ASSUME NEW r \in Rows'
      PROVE  RowInv(r)'
  <2>1. CASE r \in Rows
    BY <1>1, <2>1 DEF Core, RowInv, Unasked, AtYield, Live
  <2>2. CASE r = s
    BY <1>1, <1>2, <1>5, <2>2 DEF RowInv, Unasked
  <2> QED BY <1>2, <2>1, <2>2
<1>7. WaitInv' /\ CreatorInv' /\ NoneInv'
  BY <1>1 DEF Core, WaitInv, CreatorInv, NoneInv
<1>8. \A h \in Gens : HandedOne(h)'
  BY <1>1 DEF Core, HandedOne
<1> QED BY <1>3, <1>4, <1>6, <1>7, <1>8 DEF Core

\* A program that does not go astray calls no generator that has a call in progress.
LEMMA NobodyAsks ==
  ASSUME ~astray', NEW t, NEW g, MayCall(t, g)
  PROVE  Unasked(g) /\ Running(t) /\ pc[t] = "code"
BY DEF MayCall, Code, Unasked

LEMMA EndedCalls ==
  ASSUME ~astray', RowsInv, Core, NEW t \in Task, NEW g \in Gens, NEW abrupt \in BOOLEAN,
         CallEnded(t, g, abrupt)
  PROVE  Core'
<1>1. /\ asked' = asked /\ handed' = handed /\ taken' = taken /\ made' = made
      /\ pc' = pc /\ task' = task /\ waiting' = waiting /\ creator' = creator
  BY DEF CallEnded, history, told
<1>2. Unasked(g)
  BY NobodyAsks DEF CallEnded
<1>3. PICK r \in Rows : r.gen = g /\ Drops(r)
  BY EndedRow
<1>4. Rows' = Rows \ {r}
  BY <1>3 DEF Drops
<1>5. AskInv'
  BY <1>1, <1>2, <1>3, <1>4 DEF Core, AskInv, Live, Unasked
<1>6. OneAsker' /\ WaitInv' /\ CreatorInv' /\ NoneInv'
  BY <1>1 DEF Core, OneAsker, WaitInv, CreatorInv, NoneInv
<1>7. \A x \in Rows' : RowInv(x)'
  BY <1>1, <1>4 DEF Core, RowInv, Unasked, AtYield, Live
<1>8. \A h \in Gens : HandedOne(h)'
  BY <1>1 DEF Core, HandedOne
<1> QED BY <1>5, <1>6, <1>7, <1>8 DEF Core

\* A call, the first or a later one: the caller parks, is put on record, and the body
\* can run.
LEMMA CallerParks ==
  ASSUME RowsInv, Core, NEW t \in Task, NEW g \in Gens, NEW r \in Rows, NEW s,
         r.gen = g, Changes(r, s), Running(t), pc[t] = "code", Unasked(g),
         s.caller = t, s.started, ~s.done, ~s.threw,
         t # g, asked[g] = None,
         g \notin waiting, \A a \in Acts : creator[a] # g,
         asked' = [asked EXCEPT ![t] = g],
         made' = made, handed' = handed, taken' = taken, waiting' = waiting, creator' = creator,
         \A u \in Task : task'[u] = IF u = t THEN "parked" ELSE IF u = g THEN "runnable" ELSE task[u],
         pc'[t] = "asking", pc'[g] # "asking",
         \A u \in Task : u # t /\ u # g => pc'[u] = pc[u]
  PROVE  Core'
<1>1. RestOK /\ None \notin Gens
  BY TypesSplit, ConstantsAssumption DEF RowsInv, Task
<1>2. /\ t \notin waiting /\ (\A a \in Acts : creator[a] # t) /\ asked[t] = None
      /\ ~AtYield(t) /\ Live(t)
  BY RunsAlone
<1>3. /\ s.gen = g /\ s \in Rows' /\ \A x \in Rows' : x = s \/ (x \in Rows /\ x # r)
      /\ \A x \in Rows : x # r => x \in Rows'
  BY DEF Changes
<1>4. g \in Task /\ asked[g] = None
  BY DEF Task
<1>5. \A u \in Task : asked'[u] = IF u = t THEN g ELSE asked[u]
  BY <1>1 DEF RestOK
<1>6. AskInv'
  <2> SUFFICES ASSUME NEW u \in Task
               PROVE  IF asked'[u] = None THEN pc'[u] # "asking"
                      ELSE /\ pc'[u] = "asking" /\ Live(u)'
                           /\ \E x \in Rows' : x.gen = asked'[u] /\ x.caller = u /\ x.started
    BY DEF AskInv
  <2>1. CASE u = t
    BY <1>1, <1>3, <1>5, <2>1 DEF Live
  <2>2. CASE u = g
    BY <1>4, <1>5, <2>2 DEF Core, AskInv
  <2>3. CASE u # t /\ u # g
    <3>1. CASE asked[u] = None
      BY <1>5, <2>3, <3>1 DEF Core, AskInv
    <3>2. CASE asked[u] # None
      <4>1. PICK x \in Rows : x.gen = asked[u] /\ x.caller = u /\ x.started
        BY <3>2 DEF Core, AskInv
      <4>2. x # r
        BY <4>1 DEF Unasked
      <4>3. pc[u] = "asking" /\ Live(u)
        BY <3>2 DEF Core, AskInv
      <4> QED BY <1>3, <1>5, <2>3, <3>2, <4>1, <4>2, <4>3 DEF Live
    <3> QED BY <3>1, <3>2
  <2> QED BY <2>1, <2>2, <2>3
<1>7. OneAsker'
  BY <1>5 DEF Core, OneAsker, Unasked
<1>8. \A r0 \in Rows' : r0.gen = g => RowInv(r0)'
  <2>1. \A x \in Rows' : x.gen = g => x = s
    BY <1>3, RowFacts
  <2>2. ~Unasked(g)'
    BY <1>5 DEF Unasked
  <2>3. Live(g)' /\ ~AtYield(g)'
    BY <1>4 DEF Live, AtYield
  <2>4. \A u \in Task : asked'[u] = g => u = t
    BY <1>5 DEF Unasked
  <2>5. RowInv(s)'
    BY <1>3, <2>2, <2>3, <2>4 DEF RowInv
  <2> QED BY <2>1, <2>5
<1>9. Elsewhere(g)
  <2> SUFFICES ASSUME NEW h \in Gens, h # g
               PROVE  BodyKept(h) /\ AskersKept(h)
    BY DEF Elsewhere
  <2>1. h \in Task
    BY DEF Task
  <2>2. BodyKept(h)
    BY <1>2, <2>1 DEF BodyKept, AtYield, Live, Running
  <2>3. AskersKept(h)
    BY <1>1, <1>2, <1>4, <1>5 DEF AskersKept
  <2> QED BY <2>2, <2>3
<1>10. HandedOne(g)'
  <2>1. handed[g] = taken[g] + 0
    BY DEF Core, HandedOne, Unasked
  <2>2. ~\E u \in Task : asked'[u] = g /\ task'[u] # "parked"
    BY <1>5 DEF Unasked
  <2> QED BY <2>1, <2>2 DEF HandedOne
<1>11. WaitInv'
  <2>1. \A u \in waiting : u \in Task
    BY <1>1 DEF RestOK
  <2> QED BY <1>2, <2>1 DEF Core, WaitInv
<1>12. CreatorInv'
  <2>1. \A b \in Acts : creator[b] \in Task \cup {None}
    BY <1>1 DEF RestOK
  <2> QED BY <1>2, <2>1 DEF Core, CreatorInv
<1>13. NoneInv'
  <2>1. g \in made
    BY DEF RowsInv
  <2>2. \A h \in Gens : h \in Task
    BY DEF Task
  <2> QED BY <2>1, <2>2, <1>2 DEF Core, NoneInv, Live
<1>14. (\A x \in Rows' : RowInv(x)') /\ \A h \in Gens : HandedOne(h)'
  BY <1>3, <1>8, <1>9, <1>10, OthersStay
<1> QED BY <1>6, <1>7, <1>11, <1>12, <1>13, <1>14 DEF Core

LEMMA FirstCalls ==
  ASSUME ~astray', RowsInv, Core, NEW t \in Task, NEW g \in Gens, NEW c \in Cells, CallFirst(t, g, c)
  PROVE  Core'
<1>1. RestOK /\ None \notin Gens /\ g \in Task /\ None # g
  BY TypesSplit, ConstantsAssumption DEF RowsInv, Task
<1>2. Unasked(g) /\ Running(t) /\ pc[t] = "code"
  BY NobodyAsks DEF CallFirst
<1>3. PICK r \in Rows : /\ r.gen = g /\ ~r.done /\ ~r.started
                        /\ Changes(r, [r EXCEPT !.started = TRUE, !.caller = t, !.cell = c])
  BY FirstRow
<1>4. PICK s : s = [r EXCEPT !.started = TRUE, !.caller = t, !.cell = c]
  OBVIOUS
<1>5. r \in Record /\ Changes(r, s)
  BY <1>3, <1>4, RowFacts
<1>6. s.caller = t /\ s.started /\ s.done = r.done /\ s.threw = r.threw
  BY <1>4, <1>5 DEF Record
<1>7. ~r.threw /\ task[g] = "none"
  BY <1>3 DEF Core, RowInv
<1>8. t # g
  BY <1>2, <1>7 DEF Running
<1>9. asked[g] = None /\ g \notin waiting /\ \A a \in Acts : creator[a] # g
  BY <1>1, <1>7 DEF Core, AskInv, Live, WaitInv, CreatorInv
<1>10. /\ asked' = [asked EXCEPT ![t] = g]
       /\ made' = made /\ handed' = handed /\ taken' = taken /\ waiting' = waiting /\ creator' = creator
  BY DEF CallFirst, history, told
<1>11. /\ \A u \in Task : task'[u] = IF u = t THEN "parked" ELSE IF u = g THEN "runnable" ELSE task[u]
       /\ pc'[t] = "asking" /\ pc'[g] # "asking"
       /\ \A u \in Task : u # t /\ u # g => pc'[u] = pc[u]
  <2>1. task \in [Task -> States] /\ pc \in [Task -> Places]
    BY <1>1 DEF RestOK
  <2>2. \A u \in Task : task'[u] = IF u = t THEN "parked" ELSE IF u = g THEN "runnable" ELSE task[u]
    BY <1>8, <2>1 DEF CallFirst
  <2>3. \A u \in Task : pc'[u] = IF u = t THEN "asking" ELSE IF u = g THEN "start" ELSE pc[u]
    BY <1>8, <2>1 DEF CallFirst
  <2>4. pc'[t] = "asking" /\ pc'[g] = "start"
    BY <1>1, <1>8, <2>3
  <2>5. \A u \in Task : u # t /\ u # g => pc'[u] = pc[u]
    BY <2>3
  <2> QED BY <2>2, <2>4, <2>5
<1> QED BY <1>2, <1>3, <1>5, <1>6, <1>7, <1>8, <1>9, <1>10, <1>11, CallerParks

LEMMA LaterCalls ==
  ASSUME ~astray', RowsInv, BodiesInv, Core, NEW t \in Task, NEW g \in Gens, Call(t, g)
  PROVE  Core'
<1>1. RestOK /\ None \notin Gens /\ g \in Task /\ None # g
  BY TypesSplit, ConstantsAssumption DEF RowsInv, Task
<1>2. Unasked(g) /\ Running(t) /\ pc[t] = "code"
  BY NobodyAsks DEF Call
<1>3. PICK r \in Rows : /\ r.gen = g /\ ~r.done /\ r.started /\ Rec(g) = r
                        /\ Changes(r, [r EXCEPT !.caller = t])
  BY CalledRow
<1>4. PICK s : s = [r EXCEPT !.caller = t]
  OBVIOUS
<1>5. r \in Record /\ Changes(r, s)
  BY <1>3, <1>4, RowFacts
<1>6. s.caller = t /\ s.started = r.started /\ s.done = r.done /\ s.threw = r.threw
  BY <1>4, <1>5 DEF Record
<1>7. ~r.threw /\ pc[g] = "yielded" /\ task[g] = "parked"
  BY <1>2, <1>3 DEF Core, RowInv, AtYield
<1>8. t # g
  BY <1>2, <1>7
<1>9. asked[g] = None /\ g \notin waiting /\ \A a \in Acts : creator[a] # g
  BY <1>1, <1>7 DEF Core, AskInv, WaitInv, CreatorInv
<1>10. /\ asked' = [asked EXCEPT ![t] = g]
       /\ made' = made /\ handed' = handed /\ taken' = taken /\ waiting' = waiting /\ creator' = creator
       /\ task' = [Unpark(BodyAt(r.cell), task) EXCEPT ![t] = "parked"]
       /\ pc' = [pc EXCEPT ![t] = "asking"]
  BY <1>3 DEF Call, history, told, Parked
<1>11. \A u \in Task : u \in BodyAt(r.cell) <=> u = g
  <2>1. Live(g)
    BY <1>7 DEF Live
  <2>2. PICK x \in Rows : Owns(g, x)
    BY <2>1 DEF BodiesInv
  <2>3. x = r
    BY <1>3, <2>2, RowFacts DEF Owns
  <2>4. \A h \in Gens : Live(h) /\ cell[h] = r.cell => h = g
    BY <2>1, <2>2, <2>3 DEF BodiesInv, Owns
  <2> QED BY <2>1, <2>2, <2>3, <2>4 DEF BodyAt, Owns
<1>12. \A u \in Task : task'[u] = IF u = t THEN "parked" ELSE IF u = g THEN "runnable" ELSE task[u]
  <2>1. "parked" \in States
    BY DEF States
  <2>2. \A u \in Task : task'[u] = IF u = t THEN "parked"
                                   ELSE IF u \in BodyAt(r.cell) /\ task[u] = "parked" THEN "runnable" ELSE task[u]
    BY <1>10, <2>1, Woken
  <2> QED BY <1>7, <1>11, <2>2
<1>13. /\ pc'[t] = "asking" /\ pc'[g] # "asking"
       /\ \A u \in Task : u # t /\ u # g => pc'[u] = pc[u]
  BY <1>1, <1>7, <1>8, <1>10 DEF RestOK
<1> QED BY <1>2, <1>3, <1>5, <1>6, <1>7, <1>8, <1>9, <1>10, <1>12, <1>13, CallerParks

LEMMA AnswerCalls ==
  ASSUME RowsInv, Core, NEW t \in Task, Answer(t)
  PROVE  Core'
<1>1. RestOK /\ None \notin Gens
  BY TypesSplit, ConstantsAssumption DEF RowsInv, Task
<1>2. pc[t] = "asking" /\ task[t] = "running" /\ asked[t] # None
  BY DEF Core, AskInv, Answer, Running
<1>3. PICK g \in Gens : g = asked[t]
  BY <1>1, <1>2 DEF RestOK
<1>4. PICK r \in Rows : /\ r.gen = g /\ IF r.threw \/ r.done THEN Drops(r) ELSE recs' = recs
                        /\ taken' = [taken EXCEPT ![g] = @ + 1]
  <2>1. \E x \in Rows : x.gen = g
    BY <1>2, <1>3 DEF Core, AskInv
  <2> QED BY <1>3, <2>1, AnsweredRow
<1>5. /\ task' = task /\ made' = made /\ handed' = handed /\ waiting' = waiting /\ creator' = creator
      /\ asked' = [asked EXCEPT ![t] = None] /\ pc' = [pc EXCEPT ![t] = "code"]
  BY DEF Answer
<1>6. /\ \A u \in Task : asked'[u] = IF u = t THEN None ELSE asked[u]
      /\ \A u \in Task : pc'[u] = IF u = t THEN "code" ELSE pc[u]
  BY <1>1, <1>5 DEF RestOK
<1>7. \A u \in Task : asked[u] = g => u = t
  BY <1>3, <1>4, AskerOf
<1>8. /\ r.started /\ IF r.done THEN task[g] = "dead" ELSE ~r.threw /\ AtYield(g)
  BY <1>2, <1>3, <1>4, AskerOf DEF Core, RowInv
<1>9. IF r.done THEN Rows' = Rows \ {r} ELSE Rows' = Rows
  BY <1>4, <1>8 DEF Drops, Rows
<1>10. AskInv'
  <2> SUFFICES ASSUME NEW u \in Task
               PROVE  IF asked'[u] = None THEN pc'[u] # "asking"
                      ELSE /\ pc'[u] = "asking" /\ Live(u)'
                           /\ \E x \in Rows' : x.gen = asked'[u] /\ x.caller = u /\ x.started
    BY DEF AskInv
  <2>1. CASE u = t
    BY <1>6, <2>1
  <2>2. CASE u # t /\ asked[u] = None
    BY <1>6, <2>2 DEF Core, AskInv
  <2>3. CASE u # t /\ asked[u] # None
    <3>1. PICK x \in Rows : x.gen = asked[u] /\ x.caller = u /\ x.started
      BY <2>3 DEF Core, AskInv
    <3>2. x # r
      BY <1>4, <1>7, <2>3, <3>1
    <3>3. pc[u] = "asking" /\ Live(u)
      BY <2>3 DEF Core, AskInv
    <3>4. x \in Rows'
      BY <1>9, <3>1, <3>2
    <3> QED BY <1>5, <1>6, <2>3, <3>1, <3>3, <3>4 DEF Live
  <2> QED BY <2>1, <2>2, <2>3
<1>11. OneAsker'
  BY <1>6 DEF Core, OneAsker
<1>12. Elsewhere(g)
  <2> SUFFICES ASSUME NEW h \in Gens, h # g
               PROVE  BodyKept(h) /\ AskersKept(h) /\ taken'[h] = taken[h]
    BY <1>5 DEF Elsewhere
  <2>1. h \in Task
    BY DEF Task
  <2>2. BodyKept(h)
    BY <1>2, <1>5, <1>6, <2>1 DEF BodyKept, AtYield, Live
  <2>3. AskersKept(h)
    BY <1>1, <1>3, <1>5, <1>6 DEF AskersKept
  <2>4. taken'[h] = taken[h]
    BY <1>1, <1>4 DEF RestOK
  <2> QED BY <2>2, <2>3, <2>4
<1>13. Unasked(g)'
  BY <1>1, <1>6, <1>7 DEF Unasked
<1>14. \A x \in Rows' : x.gen = g => RowInv(x)'
  <2> SUFFICES ASSUME NEW x \in Rows', x.gen = g
               PROVE  RowInv(x)'
    OBVIOUS
  <2>1. x \in Rows
    BY <1>9
  <2>2. x = r /\ ~r.done
    BY <1>4, <1>9, <2>1, RowFacts
  <2>3. g \in Task /\ g # t
    BY <1>2, <1>8, <2>2 DEF AtYield, Task
  <2>4. AtYield(g)'
    BY <1>5, <1>6, <1>8, <2>2, <2>3 DEF AtYield
  <2> QED BY <1>4, <1>8, <1>13, <2>2, <2>4 DEF RowInv, Unasked
<1>15. HandedOne(g)'
  <2>1. handed[g] = taken[g] + 1
    BY <1>2, <1>3 DEF Core, HandedOne
  <2>2. handed[g] \in Nat /\ taken[g] \in Nat /\ taken'[g] = taken[g] + 1
    BY <1>1, <1>4 DEF RestOK
  <2>3. ~\E u \in Task : asked'[u] = g /\ task'[u] # "parked"
    BY <1>13 DEF Unasked
  <2> QED BY <1>5, <2>1, <2>2, <2>3 DEF HandedOne
<1>16. WaitInv' /\ CreatorInv'
  <2>1. \A u \in waiting : u \in Task /\ u # t
    BY <1>1, <1>2 DEF Core, WaitInv, RestOK
  <2>2. \A a \in Acts : creator[a] \in Task \cup {None} /\ (creator[a] # None => creator[a] # t)
    BY <1>1, <1>2 DEF Core, CreatorInv, RestOK
  <2> QED BY <1>5, <1>6, <2>1, <2>2 DEF Core, WaitInv, CreatorInv
<1>17. NoneInv'
  BY <1>5 DEF Core, NoneInv
<1>18. (\A x \in Rows' : RowInv(x)') /\ \A h \in Gens : HandedOne(h)'
  <2>1. \A x \in Rows' : x \in Rows
    BY <1>9
  <2> QED BY <1>12, <1>14, <1>15, <2>1, OthersStay
<1> QED BY <1>10, <1>11, <1>16, <1>17, <1>18 DEF Core

\* A body hands out a step, or its last one and ends: its caller is woken and reads it.
LEMMA CallerWakes ==
  ASSUME RowsInv, BodiesInv, Core, NEW b \in Gens, NEW r \in Rows, NEW s, NEW to \in States, NEW at,
         r.gen = b, Changes(r, s), Running(b), pc[b] = "code",
         s.caller = r.caller, s.started = r.started, s.step = b,
         \/ to = "parked" /\ at = "yielded" /\ ~s.done /\ s.threw = r.threw
         \/ to = "dead" /\ at = "ended" /\ s.done,
         task' = [Unpark({r.caller}, task) EXCEPT ![b] = to], pc' = [pc EXCEPT ![b] = at],
         handed' = [handed EXCEPT ![b] = @ + 1],
         asked' = asked, made' = made, taken' = taken, waiting' = waiting, creator' = creator
  PROVE  Core'
<1>1. RestOK /\ None \notin Gens /\ b \in Task
  BY TypesSplit, ConstantsAssumption DEF RowsInv, Task
<1>2. b \notin waiting /\ (\A a \in Acts : creator[a] # b) /\ asked[b] = None /\ ~AtYield(b) /\ Live(b)
  BY <1>1, RunsAlone
<1>3. r.started /\ ~r.done /\ ~r.threw
  <2>1. PICK x \in Rows : Owns(b, x)
    BY <1>2 DEF BodiesInv
  <2> QED BY <2>1, RowFacts DEF Owns
<1>4. PICK t \in Task : asked[t] = b
  BY <1>2, <1>3 DEF Core, RowInv, Unasked
<1>5. task[t] = "parked"
  BY <1>2, <1>3, <1>4 DEF Core, RowInv
<1>6. r.caller = t /\ pc[t] = "asking" /\ \A u \in Task : asked[u] = b => u = t
  BY <1>4, AskerOf
<1>7. t # b
  BY <1>5 DEF Running
<1>8. \A u \in Task : task'[u] = IF u = b THEN to ELSE IF u = t THEN "runnable" ELSE task[u]
  <2>1. \A u \in Task : task'[u] = IF u = b THEN to
                                   ELSE IF u \in {r.caller} /\ task[u] = "parked" THEN "runnable" ELSE task[u]
    BY <1>1, Woken, SMTT(30)
  <2> QED BY <1>5, <1>6, <2>1
<1>9. \A u \in Task : pc'[u] = IF u = b THEN at ELSE pc[u]
  BY <1>1 DEF RestOK
<1>10. /\ s.gen = b /\ s \in Rows' /\ \A x \in Rows' : x = s \/ (x \in Rows /\ x # r)
       /\ \A x \in Rows : x # r => x \in Rows'
  BY DEF Changes
<1>11. AskInv'
  <2> SUFFICES ASSUME NEW u \in Task
               PROVE  IF asked[u] = None THEN pc'[u] # "asking"
                      ELSE /\ pc'[u] = "asking" /\ Live(u)'
                           /\ \E x \in Rows' : x.gen = asked[u] /\ x.caller = u /\ x.started
    BY DEF AskInv
  <2>1. CASE asked[u] = None
    BY <1>9, <2>1 DEF Core, AskInv
  <2>2. CASE asked[u] # None
    <3>1. PICK x \in Rows : x.gen = asked[u] /\ x.caller = u /\ x.started
      BY <2>2 DEF Core, AskInv
    <3>2. pc[u] = "asking" /\ Live(u) /\ u # b
      BY <1>2, <2>2 DEF Core, AskInv
    <3>3. \E y \in Rows' : y.gen = x.gen /\ y.caller = x.caller /\ y.started = x.started
      <4>1. CASE x = r
        BY <1>10, <4>1
      <4>2. CASE x # r
        BY <1>10, <4>2
      <4> QED BY <4>1, <4>2
    <3> QED BY <1>8, <1>9, <2>2, <3>1, <3>2, <3>3 DEF Live
  <2> QED BY <2>1, <2>2
<1>12. OneAsker' /\ NoneInv'
  <2>1. \A h \in Gens : h \in Task
    BY DEF Task
  <2>2. b \in made
    BY DEF RowsInv
  <2> QED BY <1>5, <1>8, <2>1, <2>2 DEF Core, OneAsker, NoneInv
<1>13. Elsewhere(b)
  <2> SUFFICES ASSUME NEW h \in Gens, h # b
               PROVE  BodyKept(h) /\ AskersKept(h) /\ handed'[h] = handed[h]
    BY DEF Elsewhere
  <2>1. h \in Task
    BY DEF Task
  <2>2. BodyKept(h)
    <3>1. pc'[h] = pc[h]
      BY <1>9, <2>1
    <3>2. CASE h = t
      <4>1. task'[h] = "runnable" /\ task[h] = "parked" /\ pc[h] = "asking"
        BY <1>5, <1>6, <1>8, <2>1, <3>2
      <4> QED BY <3>1, <4>1 DEF BodyKept, AtYield, Live
    <3>3. CASE h # t
      <4>1. task'[h] = task[h]
        BY <1>8, <2>1, <3>3
      <4> QED BY <3>1, <4>1 DEF BodyKept, AtYield, Live
    <3> QED BY <3>2, <3>3
  <2>3. AskersKept(h)
    <3>1. \A u \in Task : asked[u] = h => u # b /\ u # t
      BY <1>1, <1>2, <1>4
    <3>2. \A u \in Task : asked[u] = h => task'[u] = task[u]
      BY <1>8, <3>1
    <3> QED BY <3>2 DEF AskersKept
  <2>4. handed'[h] = handed[h]
    BY <1>1 DEF RestOK
  <2> QED BY <2>2, <2>3, <2>4
<1>14. RowInv(s)'
  <2>1. ~Unasked(b)'
    BY <1>4 DEF Unasked
  <2>2. ASSUME NEW u \in Task, asked'[u] = b
        PROVE  task'[u] # "parked"
    BY <1>6, <1>7, <1>8, <2>2
  <2>3. to = "parked" => AtYield(b)' /\ ~s.done /\ ~s.threw
    BY <1>1, <1>3, <1>8, <1>9 DEF AtYield
  <2>4. to = "dead" => task'[b] = "dead" /\ s.done
    BY <1>1, <1>8
  <2> QED BY <1>3, <1>10, <2>1, <2>2, <2>3, <2>4 DEF RowInv
<1>15. \A x \in Rows' : x.gen = b => RowInv(x)'
  <2>1. \A x \in Rows' : x.gen = b => x = s
    BY <1>10, RowFacts
  <2> QED BY <1>14, <2>1
<1>16. HandedOne(b)'
  <2>1. handed[b] = taken[b] + 0
    BY <1>5, <1>6 DEF Core, HandedOne
  <2>2. handed[b] \in Nat /\ taken[b] \in Nat /\ handed'[b] = handed[b] + 1
    <3>1. handed \in [Gens -> Nat] /\ taken \in [Gens -> Nat]
      BY <1>1 DEF RestOK
    <3> QED BY <3>1
  <2>3. asked'[t] = b /\ task'[t] # "parked"
    <3>1. asked[t] = b
      BY <1>4
    <3>2. task'[t] # "parked"
      BY <1>7, <1>8, SMTT(30)
    <3> QED BY <1>8, <3>1, <3>2
  <2> QED BY <2>1, <2>2, <2>3 DEF HandedOne
<1>17. WaitInv' /\ CreatorInv'
  <2>1. \A u \in waiting : u \in Task /\ u # b /\ u # t
    BY <1>1, <1>2, <1>6 DEF Core, WaitInv, RestOK
  <2>2. \A a \in Acts : creator[a] \in Task \cup {None} /\ (creator[a] # None => creator[a] # b /\ creator[a] # t)
    BY <1>1, <1>2, <1>6 DEF Core, CreatorInv, RestOK
  <2> QED BY <1>8, <1>9, <2>1, <2>2, SMTT(30) DEF Core, WaitInv, CreatorInv
<1>18. (\A x \in Rows' : RowInv(x)') /\ \A h \in Gens : HandedOne(h)'
  BY <1>10, <1>13, <1>15, <1>16, OthersStay
<1> QED BY <1>11, <1>12, <1>17, <1>18 DEF Core

LEMMA HandOutCalls ==
  ASSUME RowsInv, BodiesInv, Core, NEW b \in Gens, NEW i \in DOMAIN recs, recs[i].gen = b,
         MayYield(b), HandOut(b, i)
  PROVE  Core'
<1>1. PICK r : r = recs[i]
  OBVIOUS
<1>2. PICK s : s = [r EXCEPT !.step = b, !.done = FALSE]
  OBVIOUS
<1>3. r \in Rows /\ r \in Record /\ Changes(r, s)
  BY <1>1, <1>2, HandedRow, RowFacts
<1>4. s.caller = r.caller /\ s.started = r.started /\ s.step = b /\ ~s.done /\ s.threw = r.threw
  BY <1>2, <1>3 DEF Record
<1>5. /\ Running(b) /\ pc[b] = "code"
      /\ task' = [Unpark({r.caller}, task) EXCEPT ![b] = "parked"] /\ pc' = [pc EXCEPT ![b] = "yielded"]
      /\ handed' = [handed EXCEPT ![b] = @ + 1]
      /\ asked' = asked /\ made' = made /\ taken' = taken /\ waiting' = waiting /\ creator' = creator
  BY <1>1 DEF MayYield, Code, HandOut, Parked
<1>6. "parked" \in States
  BY DEF States
<1> QED BY <1>1, <1>3, <1>4, <1>5, <1>6, CallerWakes

LEMMA FinishCalls ==
  ASSUME RowsInv, BodiesInv, Core, NEW b \in Gens, NEW thrown \in BOOLEAN, Finish(b, thrown)
  PROVE  Core'
<1>1. /\ Running(b) /\ pc[b] = "code" /\ pc' = [pc EXCEPT ![b] = "ended"]
      /\ handed' = [handed EXCEPT ![b] = @ + 1]
      /\ asked' = asked /\ made' = made /\ taken' = taken /\ waiting' = waiting /\ creator' = creator
  BY DEF Finish, MayYield, Code
<1>2. \E x \in Rows : x.gen = b
  BY <1>1 DEF BodiesInv, Live, Running, Owns
<1>3. PICK r \in Rows :
        /\ r.gen = b /\ task' = [Unpark({r.caller}, task) EXCEPT ![b] = "dead"]
        /\ Changes(r, [r EXCEPT !.step = b, !.done = TRUE, !.threw = thrown])
  BY <1>2, FinishedRow
<1>4. PICK s : s = [r EXCEPT !.step = b, !.done = TRUE, !.threw = thrown]
  OBVIOUS
<1>5. r \in Record /\ Changes(r, s)
  BY <1>3, <1>4, RowFacts
<1>6. s.caller = r.caller /\ s.started = r.started /\ s.step = b /\ s.done
  BY <1>4, <1>5 DEF Record
<1>7. "dead" \in States
  BY DEF States
<1> QED BY <1>1, <1>3, <1>5, <1>6, <1>7, CallerWakes

LEMMA InitCalls == Init => CallsInv
<1> SUFFICES ASSUME Init
             PROVE  CallsInv
  OBVIOUS
<1>1. Rows = {}
  BY DEF Init, Rows, Range
<1>2. \A g \in Gens : g # Main /\ g \in Task
  BY ConstantsAssumption DEF Task
<1>3. \A t \in Task : asked[t] = None /\ pc[t] # "asking"
  BY DEF Init
<1>4. None \notin Gens
  BY ConstantsAssumption DEF Task
<1>5. AskInv /\ OneAsker /\ NoneInv
  BY <1>2, <1>3 DEF AskInv, OneAsker, NoneInv, Init
<1>6. WaitInv /\ CreatorInv
  BY DEF Init, WaitInv, CreatorInv
<1>7. \A g \in Gens : HandedOne(g)
  BY <1>3, <1>4 DEF Init, HandedOne
<1>8. StepsReceivedOnce
  BY DEF Init, StepsReceivedOnce
<1> QED BY <1>1, <1>5, <1>6, <1>7, <1>8 DEF Core, CallsInv, Paired

\* At most one step of a generator is on its way.
LEMMA OnTheWay ==
  ASSUME RowsInv, Core
  PROVE  StepsReceivedOnce
<1> SUFFICES ASSUME NEW g \in Gens
             PROVE  taken[g] <= handed[g] /\ handed[g] <= taken[g] + 1
  BY DEF StepsReceivedOnce
<1>1. handed[g] \in Nat /\ taken[g] \in Nat
  BY DEF RowsInv, TypeOK
<1>2. handed[g] = taken[g] + 1 \/ handed[g] = taken[g] + 0
  BY DEF Core, HandedOne
<1> QED BY <1>1, <1>2

LEMMA NextCalls ==
  ASSUME ~astray', RowsInv, BodiesInv, Core, Next, NEW t \in Task, ~Abort(t)
  PROVE  Ask(t) \/ BindDone(t) \/ Answer(t) \/ Proceed(t) \/ GiveBack(t) \/ Surround(t) \/ Dispatch(t)
           \/ MainLoop \/ Exited
         => Core'
<1>1. recs \in Seq(Record)
  BY DEF RowsInv, TypeOK
<1>2. CASE Ask(t)
  BY <1>2, MakeCalls, EndedCalls, FirstCalls, LaterCalls DEF Ask
<1>3. CASE Yield(t)
  <2>1. t \in Gens /\ Live(t) /\ MayYield(t)
    BY <1>3 DEF Yield, MayYield, Code, Running, Live
  <2>3. IndexOfTask(cell[t]) \in DOMAIN recs
    BY <1>1, <1>3, SearchType DEF Yield
  <2>4. recs[IndexOfTask(cell[t])].gen = t
    BY <1>3 DEF Yield, HandOut
  <2> QED BY <1>3, <2>1, <2>3, <2>4, HandOutCalls DEF Yield
<1>4. CASE YieldAwaited(t)
  <2>1. t \in Gens /\ Live(t) /\ MayYield(t)
    BY <1>4 DEF YieldAwaited, MayYield, Code, Running, Live
  <2>2. recs[held[t].yield].gen = t
    BY <1>4 DEF YieldAwaited, HandOut
  <2> QED BY <1>4, <2>1, <2>2, HandOutCalls DEF YieldAwaited
<1>5. ASSUME NEW thrown \in BOOLEAN, Finish(t, thrown)
      PROVE  Core'
  <2>1. t \in Gens
    BY <1>5 DEF Finish, MayYield
  <2> QED BY <1>5, <2>1, FinishCalls
<1>6. CASE YieldOperand(t)
  BY <1>6, QuietCalls
<1>7. CASE GiveBack(t)
  BY <1>3, <1>4, <1>5, <1>6, <1>7 DEF GiveBack
<1>8. CASE Surround(t)
  BY <1>8, AwaitCalls, EndCalls, SettleCalls, SpawnCalls DEF Surround
<1>9. CASE Dispatch(t) \/ MainLoop \/ Exited
  BY <1>9, QuietCalls
<1> QED BY <1>2, <1>7, <1>8, <1>9, BindCalls, AnswerCalls, ProceedCalls

\* Who has gone astray stays so.
LEMMA StaysAstray ==
  ASSUME [Next]_vars, astray
  PROVE  astray'
<1>1. ASSUME NEW t \in Task, Ask(t) \/ GiveBack(t)
      PROVE  astray'
  BY <1>1, Zenon DEF Ask, MakeGenerator, CallEnded, CallFirst, Call, MayCall, GiveBack, Yield, YieldOperand,
                     YieldAwaited, HandOut, Finish, history
<1>2. ASSUME NEW t \in Task, BindDone(t) \/ Abort(t) \/ Answer(t) \/ Proceed(t) \/ Surround(t) \/ Dispatch(t)
      PROVE  astray'
  BY <1>2, Zenon DEF BindDone, Abort, Answer, Proceed, Surround, Await, EndActivation, Settle, Spawn, Dispatch,
                     history, told
<1>3. ASSUME MainLoop \/ Exited \/ UNCHANGED vars
      PROVE  astray'
  BY <1>3, Zenon DEF MainLoop, ToLoop, BeginCallback, LoopYield, LoopExit, Exited, vars, history, told
<1> QED BY <1>1, <1>2, <1>3 DEF Next, Task

LEMMA StepCalls ==
  ASSUME RowsInv, RowsInv', BodiesInv, CallsInv, [Next]_vars
  PROVE  CallsInv'
<1> SUFFICES ASSUME ~astray'
             PROVE  Paired'
  BY DEF CallsInv
<1>4. Paired
  BY StaysAstray DEF CallsInv
<1>1. ASSUME UNCHANGED vars
      PROVE  Paired'
  <2>1. asked' = asked /\ handed' = handed /\ taken' = taken /\ task' = task
    BY <1>1 DEF vars, history, told
  <2>2. Aborted => Aborted'
    BY <2>1 DEF Aborted
  <2>3. Core => Core'
    <3>1. Main \in Task
      BY DEF Task
    <3> QED BY <1>1, <3>1, QuietCalls
  <2> QED BY <1>4, <2>1, <2>2, <2>3 DEF Paired, OneAsker, StepsReceivedOnce
<1>2. ASSUME Core, Core'
      PROVE  Paired'
  <2>1. StepsReceivedOnce'
    BY <1>2, OnTheWay, PTL
  <2> QED BY <1>2, <2>1 DEF Paired, Core
<1>3. ASSUME Next
      PROVE  Paired'
  <2>1. CASE Aborted
    BY <1>1, <1>3, <2>1, DeadStops
  <2>2. ASSUME NEW t \in Task, Abort(t)
        PROVE  Paired'
    <3>1. asked' = asked /\ handed' = handed /\ taken' = taken /\ Aborted'
      BY <2>2 DEF Abort, history, told, Aborted
    <3> QED BY <1>4, <3>1 DEF Paired, OneAsker, StepsReceivedOnce
  <2>3. CASE Core /\ \A t \in Task : ~Abort(t)
    <3>1. PICK t \in Task : Ask(t) \/ BindDone(t) \/ Answer(t) \/ Proceed(t) \/ GiveBack(t) \/ Surround(t)
                              \/ Dispatch(t) \/ MainLoop \/ Exited
      BY <1>3, <2>3 DEF Next, Task
    <3>2. Core'
      BY <1>3, <2>3, <3>1, NextCalls
    <3> QED BY <1>2, <2>3, <3>2
  <2> QED BY <1>4, <2>1, <2>2, <2>3 DEF Paired
<1> QED BY <1>1, <1>3

\* Until a call overlaps another of the same generator or a body hands its step to
\* another's record, calls and answers stay paired, or the program has stopped.
THEOREM CallsPaired == Spec => []CallsInv
<1>1. RowsInv /\ RowsInv' /\ BodiesInv /\ CallsInv /\ [Next]_vars => CallsInv'
  BY StepCalls
<1> QED BY <1>1, InitCalls, BodiesAlways, RowsAlways, PTL DEF Spec

\* What the pairing says of each state.
LEMMA PairedStates ==
  ASSUME RowsInv, BodiesInv, Paired
  PROVE  /\ OneSideRuns /\ AnswerFromAsked /\ StepsReceivedOnce /\ DeadRecordsAwaitReader
         /\ WokenBySettle
<1>1. Main \in Task /\ None \notin Gens /\ \A g \in Gens : g \in Task
  BY ConstantsAssumption DEF Task
<1>2. OneSideRuns
  <2> SUFFICES ASSUME NEW g \in Gens
               PROVE  /\ Cardinality({t \in Task : asked[t] = g}) <= 1
                      /\ Live(g) /\ ~(pc[g] = "yielded" /\ task[g] = "parked") =>
                           \E t \in Task : /\ asked[t] = g
                                           /\ task[t] = "parked"
                                           /\ IndexOf(g) # 0 /\ Rec(g).caller = t
    BY DEF OneSideRuns
  <2>1. Cardinality({t \in Task : asked[t] = g}) <= 1
    <3>1. CASE \A t \in Task : asked[t] # g
      <4>1. {t \in Task : asked[t] = g} = {}
        BY <3>1
      <4> QED BY <4>1, FS_EmptySet
    <3>2. ASSUME NEW t \in Task, asked[t] = g
          PROVE  Cardinality({u \in Task : asked[u] = g}) <= 1
      <4>1. {u \in Task : asked[u] = g} = {t}
        BY <1>1, <3>2 DEF Paired, OneAsker
      <4>2. Cardinality({t}) = 1
        BY FS_Singleton
      <4> QED BY <4>1, <4>2
    <3> QED BY <3>1, <3>2
  <2>2. ASSUME Live(g), ~AtYield(g)
        PROVE  \E t \in Task : asked[t] = g /\ task[t] = "parked" /\ IndexOf(g) # 0 /\ Rec(g).caller = t
    <3>1. Core
      BY <1>1, <2>2 DEF Paired, Aborted, Live
    <3>2. PICK r \in Rows : Owns(g, r)
      BY <2>2 DEF BodiesInv
    <3>3. PICK t \in Task : asked[t] = g
      BY <2>2, <3>1, <3>2 DEF Core, RowInv, Owns, Unasked
    <3>4. task[t] = "parked"
      BY <2>2, <3>1, <3>2, <3>3 DEF Core, RowInv, Owns
    <3>5. r.caller = t
      BY <3>1, <3>2, <3>3, AskerOf DEF Owns
    <3>6. IndexOf(g) # 0 /\ Rec(g) = r
      BY <3>2, FoundRow DEF Owns, Rec
    <3> QED BY <3>3, <3>4, <3>5, <3>6
  <2> QED BY <2>1, <2>2 DEF AtYield
<1>3. AnswerFromAsked
  <2> SUFFICES ASSUME NEW t \in Task, Running(t), pc[t] = "asking"
               PROVE  IndexOf(asked[t]) # 0 /\ Rec(asked[t]).step = asked[t]
    BY DEF AnswerFromAsked
  <2>1. Core
    BY DEF Paired, Aborted, Running
  <2>2. asked[t] # None
    BY <2>1 DEF Core, AskInv
  <2>3. PICK r \in Rows : r.gen = asked[t]
    BY <2>1, <2>2 DEF Core, AskInv
  <2>4. r.step = asked[t]
    BY <2>1, <2>3 DEF Core, RowInv, Running
  <2> QED BY <2>3, <2>4, FoundRow DEF Rec
<1>4. StepsReceivedOnce
  BY DEF Paired
<1>5. DeadRecordsAwaitReader
  <2> SUFFICES ASSUME task[Main] # "dead", NEW i \in DOMAIN recs, recs[i].done
               PROVE  \E t \in Task : asked[t] = recs[i].gen /\ task[t] \in {"runnable", "running"}
    BY DEF DeadRecordsAwaitReader
  <2>1. Core
    BY <1>1 DEF Paired, Aborted
  <2>2. PICK r \in Rows : r = recs[i]
    BY RowFacts
  <2>3. PICK t \in Task : asked[t] = r.gen
    BY <2>1, <2>2 DEF Core, RowInv, Unasked
  <2>4. task[t] # "parked"
    BY <2>1, <2>2, <2>3 DEF Core, RowInv
  <2>5. Live(t)
    BY <2>1, <2>2, <2>3, AskerOf
  <2> QED BY <2>2, <2>3, <2>4, <2>5 DEF Live
<1>6. WokenBySettle
  <2>1. Aborted \/ WaitInv
    BY DEF Paired, Core
  <2> QED BY <2>1 DEF WokenBySettle, Aborted, WaitInv
<1> QED BY <1>2, <1>3, <1>4, <1>5, <1>6

\* Until a call overlaps another of the same generator or a body hands its step to
\* another's record: body and caller never both can run, an answer is the step of the
\* generator that was called, each step is received once and before the next, a record
\* outlives its body only until its caller has read it, and only the settlement of a
\* promise wakes who awaits it.
THEOREM AnswersPaired ==
  Spec => [](~astray => /\ OneSideRuns /\ AnswerFromAsked /\ StepsReceivedOnce
                        /\ DeadRecordsAwaitReader /\ WokenBySettle)
<1>1. ASSUME RowsInv, BodiesInv, CallsInv, ~astray
      PROVE  /\ OneSideRuns /\ AnswerFromAsked /\ StepsReceivedOnce
             /\ DeadRecordsAwaitReader /\ WokenBySettle
  BY <1>1, PairedStates DEF CallsInv
<1>2. RowsInv /\ BodiesInv /\ CallsInv =>
        (~astray => /\ OneSideRuns /\ AnswerFromAsked /\ StepsReceivedOnce
                    /\ DeadRecordsAwaitReader /\ WokenBySettle)
  BY <1>1
<1> QED BY <1>2, BodiesAlways, CallsPaired, RowsAlways, PTL
=============================================================================
