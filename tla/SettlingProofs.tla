---------------------------- MODULE SettlingProofs ----------------------------
(* What is begun ends in order and accounted for: the invariants of promise        *)
(* combinators, disposable stacks, web streams, datagram sockets, child processes  *)
(* and the sweep over Node's tests, for every number of elements, resources,        *)
(* chunks, sockets, processes, cases and workers.  A section per component states   *)
(* its inductive invariant, shows that it begins and that a step keeps it, and      *)
(* draws from it the properties the runs check; the last puts them side by side.    *)
EXTENDS MCSettling, SequenceTheorems, FiniteSetTheorems, WellFoundedInduction, TLAPS

\* A sequence and one more.
LEMMA AppendFacts ==
  ASSUME NEW T, NEW p \in Seq(T), NEW e \in T
  PROVE  /\ Append(p, e) \in Seq(T) /\ Append(p, e) # <<>>
         /\ Len(p) \in Nat /\ Len(Append(p, e)) = Len(p) + 1
         /\ DOMAIN p = 1..Len(p) /\ DOMAIN Append(p, e) = DOMAIN p \cup {Len(p) + 1} /\ Len(p) + 1 \notin DOMAIN p
         /\ \A i \in DOMAIN p : Append(p, e)[i] = p[i] /\ p[i] \in T
         /\ Append(p, e)[Len(p) + 1] = e
         /\ p # <<>> => Head(Append(p, e)) = Head(p)
         /\ p = <<>> => Head(Append(p, e)) = e
<1>1. /\ Append(p, e) \in Seq(T) /\ Append(p, e) # <<>> /\ Len(p) \in Nat /\ Len(Append(p, e)) = Len(p) + 1
      /\ \A i \in 1..Len(p) : Append(p, e)[i] = p[i] /\ p[i] \in T
      /\ Append(p, e)[Len(p) + 1] = e
      /\ DOMAIN p = 1..Len(p)
  BY AppendProperties, ElementOfSeq, LenProperties
<1>2. DOMAIN Append(p, e) = 1..(Len(p) + 1)
  BY <1>1, LenProperties
<1>3. 1..(Len(p) + 1) = 1..Len(p) \cup {Len(p) + 1} /\ Len(p) + 1 \notin 1..Len(p)
  BY <1>1
<1>4. Head(Append(p, e)) = Append(p, e)[1]
  BY <1>1
<1>5. p # <<>> => Len(p) \in Nat \ {0} /\ Head(p) = p[1] /\ 1 \in 1..Len(p)
  BY <1>1, EmptySeq
<1>6. p = <<>> => Len(p) = 0
  OBVIOUS
<1> QED BY <1>1, <1>2, <1>3, <1>4, <1>5, <1>6

\* A sequence without its first element.
LEMMA TailFacts ==
  ASSUME NEW T, NEW p \in Seq(T), p # <<>>
  PROVE  /\ Tail(p) \in Seq(T) /\ Len(Tail(p)) = Len(p) - 1 /\ Len(p) \in Nat \ {0}
         /\ DOMAIN Tail(p) = 1..(Len(p) - 1) /\ DOMAIN p = 1..Len(p)
         /\ \A k \in DOMAIN Tail(p) : k + 1 \in DOMAIN p /\ Tail(p)[k] = p[k + 1]
         /\ Head(p) = p[1] /\ 1 \in DOMAIN p /\ Head(p) \in T
<1>1. /\ Tail(p) \in Seq(T) /\ Len(Tail(p)) = Len(p) - 1 /\ Head(p) \in T
      /\ \A k \in 1..Len(Tail(p)) : Tail(p)[k] = p[k + 1]
  BY HeadTailProperties
<1>2. Len(p) \in Nat \ {0} /\ DOMAIN p = 1..Len(p) /\ Head(p) = p[1]
  BY EmptySeq, LenProperties
<1>3. DOMAIN Tail(p) = 1..(Len(p) - 1)
  BY <1>1, LenProperties
<1>4. \A k \in 1..(Len(p) - 1) : k + 1 \in 1..Len(p)
  BY <1>2
<1>5. 1 \in 1..Len(p)
  BY <1>2
<1>6. \A k \in DOMAIN Tail(p) : k + 1 \in DOMAIN p /\ Tail(p)[k] = p[k + 1]
  BY <1>1, <1>2, <1>3, <1>4
<1> QED BY <1>1, <1>2, <1>3, <1>5, <1>6

\* A sequence without its last element.
LEMMA FrontFacts ==
  ASSUME NEW T, NEW p \in Seq(T), p # <<>>
  PROVE  /\ Front(p) \in Seq(T) /\ Len(Front(p)) = Len(p) - 1 /\ Len(p) \in Nat \ {0}
         /\ \A k \in 1..Len(Front(p)) : Front(p)[k] = p[k]
         /\ Last(p) = p[Len(p)] /\ Last(p) \in T
<1>1. Len(p) \in Nat \ {0} /\ \A k \in 1..Len(p) : p[k] \in T
  BY EmptySeq, ElementOfSeq, LenProperties
<1>2. \A k \in 1..(Len(p) - 1) : p[k] \in T
  BY <1>1
<1>3. /\ SubSeq(p, 1, Len(p) - 1) \in Seq(T)
      /\ Len(SubSeq(p, 1, Len(p) - 1)) = (IF 1 <= Len(p) - 1 THEN Len(p) - 1 - 1 + 1 ELSE 0)
      /\ \A k \in 1..(Len(p) - 1 - 1 + 1) : SubSeq(p, 1, Len(p) - 1)[k] = p[1 + k - 1]
  <2>1. 1 \in Int /\ Len(p) - 1 \in Int
    BY <1>1
  <2> QED BY <1>2, <2>1, SubSeqProperties
<1>4. Front(p) \in Seq(T) /\ Len(Front(p)) = Len(p) - 1
  <2> DEFINE f == SubSeq(p, 1, Len(p) - 1)
  <2> HIDE DEF f
  <2>1. f \in Seq(T) /\ Len(f) = (IF 1 <= Len(p) - 1 THEN Len(p) - 1 - 1 + 1 ELSE 0)
    BY <1>3 DEF f
  <2>2. Len(f) = Len(p) - 1
    <3>1. ASSUME NEW a \in Nat \ {0} PROVE (IF 1 <= a - 1 THEN a - 1 - 1 + 1 ELSE 0) = a - 1
      OBVIOUS
    <3> QED BY <1>1, <2>1, <3>1
  <2> QED BY <2>1, <2>2 DEF f, Front
<1>5. \A k \in 1..(Len(p) - 1) : Front(p)[k] = p[k]
  <2>1. \A k \in 1..(Len(p) - 1) : k \in 1..(Len(p) - 1 - 1 + 1) /\ 1 + k - 1 = k
    BY <1>1
  <2> QED BY <1>3, <2>1 DEF Front
<1> QED BY <1>1, <1>4, <1>5 DEF Last

\* A set of numbers has a least one.
LEMMA LeastOf ==
  ASSUME NEW T, T \subseteq Nat, T # {}
  PROVE  \E least \in T : \A m \in T : least <= m
<1> DEFINE Less == { p \in Nat \X Nat : p[1] < p[2] }
<1>1. IsWellFoundedOn(Less, Nat)
  <2>1. OpToRel(<, Nat) = Less
    BY DEF OpToRel
  <2> QED BY <2>1, NatLessThanWellFounded, Zenon
<1> HIDE DEF Less
<1>2. \E least \in T : \A m \in T : ~ (<<m, least>> \in Less)
  BY <1>1, WFMin
<1>3. \A least, m \in Nat : <<m, least>> \in Less <=> m < least
  BY DEF Less
<1>4. PICK least \in T : \A m \in T : ~ (<<m, least>> \in Less)
  BY <1>2
<1>5. \A m \in T : ~ (m < least)
  BY <1>3, <1>4
<1> QED BY <1>4, <1>5

-----------------------------------------------------------------------------
(* Promise combinators (Combinators) *)

Outcome == [way : {"resolve", "reject"}, by : {"whole", "one", "throw"},
            what : Nat \cup Seq(Sides \cup {Hole})]

CombTypes ==
  /\ method \in Methods
  /\ n \in Nat /\ kinds \in [1..n -> {"promise", "foreign", "throws"}]
  /\ subscribed \in 0..n /\ looping \in BOOLEAN
  /\ remaining \in Int
  /\ out \in [1..n -> Sides \cup {Hole}]
  /\ cap \in Seq(Outcome)
  /\ called \in Seq((1..n) \X Sides)

\* No element has called back twice.
CalledOnce == \A j, k \in DOMAIN called : called[j][1] = called[k][1] => j = k
\* The elements that have not called back.
Silent == {i \in 1..n : \A k \in DOMAIN called : called[k][1] # i}
NoneDecides == \A k \in DOMAIN called : ~ Decides(called[k])
NoneThrew == \A k \in DOMAIN cap : cap[k].by # "throw"

WholeInv ==
  /\ \A j, k \in DOMAIN cap : cap[j].by = "whole" /\ cap[k].by = "whole" => j = k
  /\ n > 0 => ((\E k \in DOMAIN cap : cap[k].by = "whole") <=> remaining <= 0)
  /\ n = 0 /\ looping => cap = <<>>

CountInv ==
  CalledOnce => /\ remaining >= Cardinality(Silent)
                /\ NoneDecides => remaining = Cardinality(Silent)
                /\ \A k \in DOMAIN called : ~ Decides(called[k]) => out[called[k][1]] = called[k][2]

One(c) == [way |-> Short(c[2]), by |-> "one", what |-> c[1]]
All_(o) == [way |-> IF method = "any" THEN "reject" ELSE "resolve", by |-> "whole", what |-> o]

RuleInv ==
  CalledOnce /\ n > 0 /\ NoneThrew =>
    \/ /\ \E k \in DOMAIN called : /\ Decides(called[k]) /\ \A j \in DOMAIN called : Decides(called[j]) => k <= j
                                   /\ cap # <<>> /\ Head(cap) = One(called[k])
    \/ NoneDecides /\ method # "race" /\ Silent = {} /\ cap # <<>> /\ Head(cap) = All_(out)
    \/ NoneDecides /\ (method = "race" \/ Silent # {}) /\ cap = <<>>

CombInv == CombTypes /\ WholeInv /\ CountInv /\ RuleInv

\* No element has answered and nothing is handed over.
LEMMA CombStarts == CombInit => CombInv
<1> SUFFICES ASSUME CombInit PROVE CombInv
  OBVIOUS
<1>1. PICK k \in 0..Elements : kinds \in [1..k -> {"promise", "foreign", "throws"}]
  BY DEF CombInit
<1>2. k \in Nat
  BY CombinatorAssumption
<1>3. kinds \in Seq({"promise", "foreign", "throws"}) /\ n = k
  BY <1>1, <1>2 DEF n
<1>4. CombTypes
  BY <1>1, <1>2, <1>3 DEF CombTypes, CombInit
<1>5. DOMAIN called = {} /\ DOMAIN cap = {} /\ Silent = 1..n /\ Cardinality(1..n) = n
  BY <1>2, <1>3, FS_Interval DEF CombInit, Silent
<1>6. WholeInv
  BY <1>2, <1>3, <1>5 DEF WholeInv, CombInit
<1>7. CountInv
  BY <1>2, <1>3, <1>5 DEF CountInv, CombInit
<1>8. RuleInv
  <2>1. n > 0 => Silent # {}
    BY <1>2, <1>3, <1>5
  <2> QED BY <1>5, <2>1 DEF RuleInv, CombInit, NoneDecides
<1> QED BY <1>4, <1>6, <1>7, <1>8 DEF CombInv

\* What one callback does to the variables the callbacks share.
Calls(i, side) ==
  /\ i \in 1..n /\ side \in Sides
  /\ called' = Append(called, <<i, side>>)
  /\ Apply(Callback(Shared, i, side))

\* What the callback of one element does to the array, the count and the capability.
LEMMA CallbackDoes ==
  ASSUME CombTypes, NEW i, NEW side, Calls(i, side)
  PROVE  \/ /\ Decides(<<i, side>>)
            /\ remaining' = remaining /\ out' = out /\ cap' = Append(cap, One(<<i, side>>))
         \/ /\ ~ Decides(<<i, side>>) /\ method # "race"
            /\ remaining' = remaining - 1 /\ out' = [out EXCEPT ![i] = side]
            /\ cap' = IF remaining = 1 THEN Append(cap, All_(out')) ELSE cap
<1>5. ASSUME NEW way, Apply(CountDown(Shared, i, side, way))
      PROVE  /\ remaining' = remaining - 1 /\ out' = [out EXCEPT ![i] = side]
             /\ cap' = IF remaining = 1 THEN Append(cap, [way |-> way, by |-> "whole", what |-> out']) ELSE cap
  <2> DEFINE t == [Shared EXCEPT !.out[i] = side, !.remaining = @ - 1]
  <2>0. Shared.remaining = remaining /\ Shared.out = out /\ Shared.cap = cap
        /\ DOMAIN Shared = {"remaining", "out", "cap"}
    BY DEF Shared
  <2>1. t.remaining = remaining - 1 /\ t.out = [out EXCEPT ![i] = side] /\ t.cap = cap
        /\ DOMAIN t = {"remaining", "out", "cap"}
    BY <2>0
  <2>5. remaining \in Int
    BY DEF CombTypes
  <2>2. t.remaining = 0 <=> remaining = 1
    <3> HIDE DEF t
    <3> QED BY <2>1, <2>5
  <2>3. CASE remaining = 1
    <3>1. Apply(Settled(t, way, "whole", t.out))
      BY <1>5, <2>2, <2>3 DEF CountDown
    <3> HIDE DEF t
    <3> QED BY <2>1, <2>3, <3>1 DEF Apply, Settled
  <2>4. CASE remaining # 1
    <3>1. Apply(t)
      BY <1>5, <2>2, <2>4 DEF CountDown
    <3> HIDE DEF t
    <3> QED BY <2>1, <2>4, <3>1 DEF Apply
  <2> QED BY <2>3, <2>4
<1>6. ASSUME NEW way, Apply(Settled(Shared, way, "one", i))
      PROVE  remaining' = remaining /\ out' = out /\ cap' = Append(cap, [way |-> way, by |-> "one", what |-> i])
  BY <1>6 DEF Apply, Settled, Shared
<1>7. side = "f" \/ side = "r"
  BY DEF Calls, Sides
<1> USE DEF Callback, Decides, One, All_, Short
<1>8. Apply(Callback(Shared, i, side))
  BY DEF Calls
<1> HIDE DEF Calls, Apply
<1>1. CASE method = "all"
  BY <1>1, <1>5, <1>6, <1>7, <1>8 DEF All
<1>2. CASE method = "allSettled"
  BY <1>2, <1>5, <1>8 DEF AllSettled
<1>3. CASE method = "any"
  BY <1>3, <1>5, <1>6, <1>7, <1>8 DEF Any
<1>4. CASE method = "race"
  BY <1>4, <1>6, <1>8 DEF Race
<1> QED BY <1>1, <1>2, <1>3, <1>4 DEF CombTypes, Methods

\* Each action is one of four things.
CombQuiet == UNCHANGED <<method, host, unread, kinds, remaining, out, cap, called>> /\ subscribed' \in 0..n /\ (looping' => looping) /\ looping' \in BOOLEAN
CombThrows == /\ UNCHANGED <<method, host, unread, kinds, subscribed, remaining, out, called>> /\ looping' = FALSE
              /\ cap' = Append(cap, [way |-> "reject", by |-> "throw", what |-> subscribed])
CombEmpty == /\ UNCHANGED <<method, host, unread, kinds, subscribed, remaining, out, called>> /\ looping' = FALSE
             /\ n = 0 /\ cap = <<>> /\ cap' = Emptied(method)
CombCalls == \E i, side : Calls(i, side) /\ UNCHANGED <<method, host, unread, kinds, looping>> /\ subscribed' \in 0..n

\* Every step is the loop subscribing the next element, or one callback of one element.
LEMMA CombActs ==
  ASSUME CombInv, [CombNext]_combVars
  PROVE  CombQuiet \/ CombThrows \/ CombEmpty \/ CombCalls
<1> USE DEF CombInv, CombTypes
<1>1. CASE Subscribe
  <2>1. subscribed + 1 \in 1..n /\ subscribed' \in 0..n
    BY <1>1 DEF Subscribe
  <2>2. CASE UNCHANGED <<called, remaining, out, cap>>
    BY <1>1, <2>1, <2>2 DEF Subscribe, CombQuiet
  <2>3. CASE ~ UNCHANGED <<called, remaining, out, cap>>
    <3>1. PICK side \in Sides : Calls(subscribed + 1, side)
      BY <1>1, <2>1, <2>3 DEF Subscribe, Calls
    <3> QED BY <1>1, <2>1, <3>1 DEF Subscribe, CombCalls
  <2> QED BY <2>2, <2>3
<1>2. CASE SubscribeThrows
  BY <1>2 DEF SubscribeThrows, Apply, Settled, Shared, CombThrows
<1>3. CASE Return
  <2>1. CASE n = 0
    BY <1>3, <2>1 DEF Return, CombEmpty, WholeInv
  <2>2. CASE n # 0
    BY <1>3, <2>2 DEF Return, CombQuiet
  <2> QED BY <2>1, <2>2
<1>4. ASSUME NEW i \in 1..Elements, ElementCalls(i)
      PROVE  CombCalls
  <2>1. i \in 1..n
    BY <1>4, CombinatorAssumption DEF ElementCalls
  <2>2. PICK side \in Sides : Calls(i, side)
    BY <1>4, <2>1 DEF ElementCalls, Calls
  <2> QED BY <1>4, <2>1, <2>2 DEF ElementCalls, CombCalls
<1>5. CASE UNCHANGED combVars
  BY <1>5 DEF combVars, CombQuiet
<1> QED BY <1>1, <1>2, <1>3, <1>4, <1>5 DEF CombNext

\* A callback when no element had called back twice, before or after.
LEMMA CalledAgain ==
  ASSUME CombTypes, NEW i, NEW side, Calls(i, side), UNCHANGED <<method, host, unread, kinds>>
  PROVE  /\ CalledOnce' => CalledOnce /\ i \in Silent
         /\ Silent' = Silent \ {i}
         /\ DOMAIN called' = DOMAIN called \cup {Len(called) + 1} /\ Len(called) + 1 \notin DOMAIN called
         /\ \A k \in DOMAIN called : called'[k] = called[k] /\ k < Len(called) + 1
         /\ called'[Len(called) + 1] = <<i, side>>
         /\ called' \in Seq((1..n) \X Sides)
         /\ NoneDecides' <=> \A k \in DOMAIN called' : ~ Decides(called'[k])
<1> DEFINE c == <<i, side>>
           m == Len(called) + 1
<1>1. c \in (1..n) \X Sides /\ c[1] = i /\ called \in Seq((1..n) \X Sides)
  BY DEF Calls, CombTypes
<1>2. called' = Append(called, c) /\ n' = n /\ i \in 1..n
  BY DEF Calls, n
<1> HIDE DEF c
<1>3. /\ Append(called, c) \in Seq((1..n) \X Sides)
      /\ DOMAIN Append(called, c) = DOMAIN called \cup {m} /\ m \notin DOMAIN called
      /\ \A k \in DOMAIN called : Append(called, c)[k] = called[k]
      /\ Append(called, c)[m] = c
      /\ Len(called) \in Nat /\ DOMAIN called = 1..Len(called)
  BY <1>1, AppendFacts
<1>4. /\ DOMAIN called' = DOMAIN called \cup {m} /\ m \notin DOMAIN called
      /\ \A k \in DOMAIN called : called'[k] = called[k] /\ k < m
      /\ called'[m] = c /\ called' \in Seq((1..n) \X Sides)
  BY <1>2, <1>3
<1>5. CalledOnce' => CalledOnce /\ i \in Silent
  <2> HIDE DEF m
  <2> QED BY <1>1, <1>2, <1>4 DEF CalledOnce, Silent
<1>6. Silent' = Silent \ {i}
  <2> HIDE DEF m
  <2> QED BY <1>1, <1>2, <1>4 DEF Silent
<1>7. NoneDecides' <=> \A k \in DOMAIN called' : ~ Decides(called'[k])
  BY DEF NoneDecides, Decides
<1> QED BY <1>4, <1>5, <1>6, <1>7 DEF c

\* A callback keeps the types and the bookkeeping of who has called.
LEMMA CallsKeepTypes ==
  ASSUME CombInv, CombCalls
  PROVE  CombTypes' /\ WholeInv'
<1> USE DEF CombInv
<1>1. PICK i, side : Calls(i, side) /\ UNCHANGED <<method, host, unread, kinds, looping>> /\ subscribed' \in 0..n
  BY DEF CombCalls
<1>2. /\ CombTypes /\ n' = n /\ n \in Nat /\ i \in 1..n /\ side \in Sides /\ remaining \in Int /\ remaining' \in Int
      /\ out \in [1..n -> Sides \cup {Hole}] /\ cap \in Seq(Outcome)
  <2>1. remaining' = remaining \/ remaining' = remaining - 1
    BY <1>1, CallbackDoes
  <2> QED BY <1>1, <2>1 DEF CombTypes, Calls, n
<1>3. called' \in Seq((1..n) \X Sides)
  BY <1>1, CalledAgain DEF CombInv
<1>4. out' \in [1..n -> Sides \cup {Hole}]
  <2>1. out' = out \/ out' = [out EXCEPT ![i] = side]
    BY <1>1, <1>2, CallbackDoes
  <2> QED BY <1>2, <2>1
<1>5. One(<<i, side>>) \in Outcome /\ One(<<i, side>>).by = "one"
  BY <1>2 DEF One, Outcome, Short
<1>6. All_(out') \in Outcome /\ All_(out').by = "whole"
  <2>1. out' \in Seq(Sides \cup {Hole})
    BY <1>2, <1>4
  <2> QED BY <2>1 DEF All_, Outcome
<1>7. ASSUME NEW r \in Outcome
      PROVE  /\ Append(cap, r) \in Seq(Outcome) 
             /\ (\A k \in DOMAIN cap : cap[k].by # "whole") \/ r.by # "whole" =>
                   \A j, k \in DOMAIN Append(cap, r) : Append(cap, r)[j].by = "whole" /\ Append(cap, r)[k].by = "whole" => j = k
             /\ (\E k \in DOMAIN Append(cap, r) : Append(cap, r)[k].by = "whole")
                   <=> (r.by = "whole" \/ \E k \in DOMAIN cap : cap[k].by = "whole")
  <2> DEFINE p == Append(cap, r)
             m == Len(cap) + 1
  <2>1. /\ p \in Seq(Outcome) /\ DOMAIN p = DOMAIN cap \cup {m} /\ m \notin DOMAIN cap
        /\ \A k \in DOMAIN cap : p[k] = cap[k]
        /\ p[m] = r
    BY <1>2, AppendFacts
  <2>2. \A j, k \in DOMAIN cap : cap[j].by = "whole" /\ cap[k].by = "whole" => j = k
    BY DEF WholeInv
  <2> HIDE DEF p, m
  <2>3. (\A k \in DOMAIN cap : cap[k].by # "whole") \/ r.by # "whole" =>
                   \A j, k \in DOMAIN p : p[j].by = "whole" /\ p[k].by = "whole" => j = k
    BY <2>1, <2>2
  <2>4. (\E k \in DOMAIN p : p[k].by = "whole")
                   <=> (r.by = "whole" \/ \E k \in DOMAIN cap : cap[k].by = "whole")
    BY <2>1
  <2> QED BY <2>1, <2>3, <2>4 DEF p
<1>8. n > 0 /\ ((\E k \in DOMAIN cap : cap[k].by = "whole") <=> remaining <= 0)
      /\ \A j, k \in DOMAIN cap : cap[j].by = "whole" /\ cap[k].by = "whole" => j = k
  BY <1>2 DEF WholeInv
<1>9. CASE remaining' = remaining /\ cap' = Append(cap, One(<<i, side>>))
  <2> DEFINE r == One(<<i, side>>)
  <2> HIDE DEF r
  <2>1. r \in Outcome /\ r.by = "one" /\ cap' = Append(cap, r)
    BY <1>5, <1>9 DEF r
  <2>2. cap' \in Seq(Outcome) /\ \A j, k \in DOMAIN cap' : cap'[j].by = "whole" /\ cap'[k].by = "whole" => j = k
    BY <1>7, <2>1
  <2>3. (\E k \in DOMAIN cap' : cap'[k].by = "whole") <=> remaining' <= 0
    BY <1>7, <1>8, <1>9, <2>1
  <2> QED BY <1>1, <1>2, <1>3, <1>4, <2>2, <2>3 DEF CombTypes, WholeInv
<1>10. CASE remaining' = remaining - 1 /\ cap' = IF remaining = 1 THEN Append(cap, All_(out')) ELSE cap
  <2> DEFINE r == All_(out')
  <2> HIDE DEF r
  <2>1. r \in Outcome /\ r.by = "whole" /\ cap' = IF remaining = 1 THEN Append(cap, r) ELSE cap
    BY <1>6, <1>10 DEF r
  <2>2. CASE remaining = 1
    <3>1. \A k \in DOMAIN cap : cap[k].by # "whole"
      BY <1>8, <2>2
    <3>2. cap' \in Seq(Outcome) /\ \A j, k \in DOMAIN cap' : cap'[j].by = "whole" /\ cap'[k].by = "whole" => j = k
      BY <1>7, <2>1, <2>2, <3>1
    <3>3. (\E k \in DOMAIN cap' : cap'[k].by = "whole") /\ remaining' <= 0
      BY <1>7, <1>10, <2>1, <2>2
    <3> QED BY <1>1, <1>2, <1>3, <1>4, <3>2, <3>3 DEF CombTypes, WholeInv
  <2>3. CASE remaining # 1
    <3>1. cap' = cap /\ (remaining' <= 0 <=> remaining <= 0)
      BY <1>2, <1>10, <2>1, <2>3
    <3> QED BY <1>1, <1>2, <1>3, <1>4, <1>8, <3>1 DEF CombTypes, WholeInv
  <2> QED BY <2>2, <2>3
<1> QED BY <1>1, <1>2, <1>9, <1>10, CallbackDoes

\* A callback keeps what the array and the capability owe to the calls made.
LEMMA CallsKeepRule ==
  ASSUME CombInv, CombCalls
  PROVE  CountInv' /\ RuleInv'
<1> USE DEF CombInv
<1>1. PICK i, side : Calls(i, side) /\ UNCHANGED <<method, host, unread, kinds, looping>> /\ subscribed' \in 0..n
  BY DEF CombCalls
<1> DEFINE c == <<i, side>>
           m == Len(called) + 1
<1>2. /\ CombTypes /\ n' = n /\ n \in Nat /\ i \in 1..n /\ remaining \in Int /\ c[1] = i /\ c[2] = side
      /\ out \in [1..n -> Sides \cup {Hole}] /\ cap \in Seq(Outcome) /\ method' = method
      /\ \A k \in DOMAIN called : called[k][1] \in 1..n
  <2>1. \A k \in DOMAIN called : called[k] \in (1..n) \X Sides
    BY DEF CombTypes
  <2> QED BY <1>1, <2>1 DEF CombTypes, Calls, n
<1>3. /\ CalledOnce' => CalledOnce /\ i \in Silent
      /\ Silent' = Silent \ {i}
      /\ DOMAIN called' = DOMAIN called \cup {m} /\ m \notin DOMAIN called
      /\ \A k \in DOMAIN called : called'[k] = called[k] /\ k < m
      /\ called'[m] = c
      /\ NoneDecides' <=> \A k \in DOMAIN called' : ~ Decides(called'[k])
  BY <1>1, <1>2, CalledAgain
<1>4. \/ Decides(c) /\ remaining' = remaining /\ out' = out /\ cap' = Append(cap, One(c))
      \/ /\ ~ Decides(c) /\ method # "race" /\ remaining' = remaining - 1 /\ out' = [out EXCEPT ![i] = side]
         /\ cap' = IF remaining = 1 THEN Append(cap, All_(out')) ELSE cap
  BY <1>1, <1>2, CallbackDoes
<1> HIDE DEF c, m
<1>5. NoneDecides' <=> NoneDecides /\ ~ Decides(c)
  BY <1>3 DEF NoneDecides
<1>6. SUFFICES ASSUME CalledOnce' PROVE CountInv' /\ (n > 0 /\ NoneThrew' => RuleInv')
  BY <1>2 DEF CountInv, RuleInv
<1>7. /\ CalledOnce /\ i \in Silent /\ IsFiniteSet(Silent) /\ Cardinality(Silent) \in Nat \ {0}
      /\ Cardinality(Silent') = Cardinality(Silent) - 1
      /\ Silent' = {} <=> Cardinality(Silent) = 1
  <2>1. IsFiniteSet(Silent)
    BY <1>2, FS_Interval, FS_Subset DEF Silent
  <2>2. CalledOnce /\ i \in Silent
    BY <1>3, <1>6
  <2>3. Cardinality(Silent \ {i}) = Cardinality(Silent) - 1 /\ IsFiniteSet(Silent \ {i})
    BY <2>1, <2>2, FS_RemoveElement
  <2>4. Cardinality(Silent) \in Nat \ {0} /\ (Silent \ {i} = {} <=> Cardinality(Silent \ {i}) = 0)
    BY <2>1, <2>2, <2>3, FS_EmptySet, FS_CardinalityType
  <2> QED BY <1>3, <2>1, <2>2, <2>3, <2>4
<1>8. /\ remaining >= Cardinality(Silent)
      /\ NoneDecides => remaining = Cardinality(Silent)
      /\ \A k \in DOMAIN called : ~ Decides(called[k]) => out[called[k][1]] = called[k][2]
  BY <1>7 DEF CountInv
<1>9. CountInv'
  <2>1. remaining' >= Cardinality(Silent') /\ (NoneDecides' => remaining' = Cardinality(Silent'))
    BY <1>2, <1>4, <1>5, <1>7, <1>8
  <2>2. \A k \in DOMAIN called' : ~ Decides(called'[k]) => out'[called'[k][1]] = called'[k][2]
    <3>1. \A k \in DOMAIN called : called[k][1] # i
      BY <1>7 DEF Silent
    <3>2. \A k \in DOMAIN called : out'[called[k][1]] = out[called[k][1]]
      BY <1>2, <1>4, <3>1
    <3>3. ~ Decides(c) => out'[i] = side
      BY <1>2, <1>4
    <3> QED BY <1>2, <1>3, <1>8, <3>2, <3>3
  <2>3. \A k \in DOMAIN called' : Decides(called[k])' <=> Decides(called'[k])
    BY <1>2 DEF Decides
  <2> QED BY <2>1, <2>2, <2>3 DEF CountInv
<1>10. ASSUME n > 0, NoneThrew' PROVE RuleInv'
  <2> DEFINE H(k) == /\ k \in DOMAIN called' /\ Decides(called'[k])
                     /\ \A j \in DOMAIN called' : Decides(called'[j]) => k <= j
                     /\ cap' # <<>> /\ Head(cap') = One(called'[k])
  <2>1. (\E k : H(k)) => RuleInv'
    BY <1>2 DEF RuleInv, Decides, One
  <2>2. ASSUME NEW r \in Outcome
        PROVE  Append(cap, r) # <<>> /\ (cap = <<>> => Head(Append(cap, r)) = r)
               /\ (cap # <<>> => Head(Append(cap, r)) = Head(cap))
               /\ DOMAIN cap \subseteq DOMAIN Append(cap, r) /\ \A k \in DOMAIN cap : Append(cap, r)[k] = cap[k]
    BY <1>2, AppendFacts
  <2>3. One(c) \in Outcome
    BY <1>1, <1>2 DEF One, Outcome, Short, Calls
  <2>4. All_(out') \in Outcome
    <3>1. out' \in [1..n -> Sides \cup {Hole}]
      BY <1>1, <1>2, <1>4 DEF Calls
    <3> QED BY <1>2, <3>1 DEF All_, Outcome
  <2>5. /\ DOMAIN cap \subseteq DOMAIN cap' /\ \A k \in DOMAIN cap : cap'[k] = cap[k]
        /\ cap # <<>> => cap' # <<>> /\ Head(cap') = Head(cap)
    BY <1>4, <2>2, <2>3, <2>4
  <2>6. NoneThrew
    BY <1>10, <2>5 DEF NoneThrew
  <2>7. Silent # {}
    BY <1>7
  <2>8. CASE \E k \in DOMAIN called : /\ Decides(called[k]) /\ \A j \in DOMAIN called : Decides(called[j]) => k <= j
                                      /\ cap # <<>> /\ Head(cap) = One(called[k])
    <3>1. PICK k \in DOMAIN called : /\ Decides(called[k]) /\ \A j \in DOMAIN called : Decides(called[j]) => k <= j
                                     /\ cap # <<>> /\ Head(cap) = One(called[k])
      BY <2>8
    <3>2. \A j \in DOMAIN called' : Decides(called'[j]) => k <= j
      <4>1. k \in Int /\ m \in Int
        BY DEF m, CombTypes
      <4> QED BY <1>3, <3>1, <4>1
    <3>3. H(k)
      BY <1>3, <2>5, <3>1, <3>2
    <3> QED BY <2>1, <3>3
  <2>9. CASE NoneDecides /\ (method = "race" \/ Silent # {}) /\ cap = <<>>
    <3>1. CASE Decides(c)
      <4>1. cap' = Append(cap, One(c))
        BY <1>4, <3>1
      <4>2. \A j \in DOMAIN called' : Decides(called'[j]) => j = m
        BY <1>3, <2>9 DEF NoneDecides
      <4>3. m <= m
        BY DEF m, CombTypes
      <4>4. H(m)
        BY <1>3, <2>2, <2>3, <2>9, <3>1, <4>1, <4>2, <4>3
      <4> QED BY <2>1, <4>4
    <3>2. CASE ~ Decides(c)
      <4>1. NoneDecides' /\ remaining = Cardinality(Silent) /\ method' # "race"
        BY <1>2, <1>4, <1>5, <1>8, <2>9, <3>2
      <4>2. CASE remaining = 1
        <5>1. Silent' = {} /\ cap' = Append(cap, All_(out'))
          BY <1>4, <1>7, <3>2, <4>1, <4>2
        <5>2. cap' # <<>> /\ Head(cap') = All_(out')
          BY <2>2, <2>4, <2>9, <5>1
        <5>3. All_(out)' = All_(out')
          BY <1>2 DEF All_
        <5> QED BY <4>1, <5>1, <5>2, <5>3 DEF RuleInv
      <4>3. CASE remaining # 1
        <5>1. Silent' # {} /\ cap' = <<>>
          BY <1>4, <1>7, <2>9, <3>2, <4>1, <4>3
        <5> QED BY <4>1, <5>1 DEF RuleInv
      <4> QED BY <4>2, <4>3
    <3> QED BY <3>1, <3>2
  <2> QED BY <1>7, <1>10, <2>6, <2>7, <2>8, <2>9 DEF RuleInv
<1> QED BY <1>9, <1>10

\* One step keeps the invariant of a combinator.
LEMMA CombSteps ==
  ASSUME CombInv, [CombNext]_combVars
  PROVE  CombInv'
<1>1. CASE CombQuiet
  <2>1. n' = n /\ CombTypes'
    BY <1>1 DEF CombQuiet, CombInv, CombTypes, n
  <2>2. Silent' = Silent /\ CalledOnce' = CalledOnce /\ NoneDecides' = NoneDecides /\ NoneThrew' = NoneThrew
    BY <1>1, <2>1 DEF CombQuiet, Silent, CalledOnce, NoneDecides, NoneThrew, Decides
  <2>3. WholeInv'
    BY <1>1, <2>1 DEF CombQuiet, CombInv, WholeInv
  <2>4. CountInv'
    BY <1>1, <2>1, <2>2 DEF CombQuiet, CombInv, CountInv, Decides
  <2>5. RuleInv'
    BY <1>1, <2>1, <2>2 DEF CombQuiet, CombInv, RuleInv, Decides, One, All_
  <2> QED BY <2>1, <2>3, <2>4, <2>5 DEF CombInv
<1>2. CASE CombThrows
  <2> DEFINE r == [way |-> "reject", by |-> "throw", what |-> subscribed]
             m == Len(cap) + 1
  <2>1. r \in Outcome /\ r.by = "throw" /\ cap \in Seq(Outcome) /\ cap' = Append(cap, r) /\ n' = n
    BY <1>2 DEF CombThrows, CombInv, CombTypes, Outcome, n
  <2> HIDE DEF r, m
  <2>2. /\ cap' \in Seq(Outcome) /\ DOMAIN cap' = DOMAIN cap \cup {m} /\ m \notin DOMAIN cap
        /\ \A k \in DOMAIN cap : cap'[k] = cap[k]
        /\ cap'[m] = r
    BY <2>1, AppendFacts DEF m
  <2>3. CombTypes'
    BY <1>2, <2>1, <2>2 DEF CombThrows, CombInv, CombTypes
  <2>4. WholeInv'
    BY <1>2, <2>1, <2>2 DEF CombThrows, CombInv, WholeInv
  <2>5. ~ NoneThrew'
    BY <2>1, <2>2 DEF NoneThrew
  <2>6. CountInv'
    BY <1>2, <2>1 DEF CombThrows, CombInv, CountInv, CalledOnce, Silent, NoneDecides, Decides
  <2> QED BY <2>3, <2>4, <2>5, <2>6 DEF CombInv, RuleInv
<1>3. CASE CombEmpty
  <2>1. n' = n /\ n = 0
    BY <1>3 DEF CombEmpty, n
  <2>2. PICK w \in {"resolve", "reject"} : cap' = <<>> \/ cap' = <<[way |-> w, by |-> "whole", what |-> <<>>]>>
    BY <1>3 DEF CombEmpty, Emptied
  <2> DEFINE r == [way |-> w, by |-> "whole", what |-> <<>>]
  <2>3. r \in Outcome
    BY DEF Outcome
  <2>4. cap' = <<>> \/ cap' = <<r>>
    BY <2>2
  <2> HIDE DEF r
  <2>5. cap' \in Seq(Outcome) /\ \A j, k \in DOMAIN cap' : j = k
    <3>1. <<>> \in Seq(Outcome) /\ DOMAIN <<>> = {}
      OBVIOUS
    <3>2. ASSUME cap' = <<r>> PROVE cap' \in Seq(Outcome) /\ DOMAIN cap' = {1}
      <4>1. Len(cap') = 1 /\ cap' \in Seq(Outcome)
        BY <2>3, <3>2
      <4>2. DOMAIN cap' = 1..1
        BY <4>1, LenProperties
      <4> QED BY <4>1, <4>2
    <3> QED BY <2>4, <3>1, <3>2
  <2>6. CombTypes'
    BY <1>3, <2>1, <2>5 DEF CombEmpty, CombInv, CombTypes
  <2>7. WholeInv'
    BY <1>3, <2>1, <2>5 DEF CombEmpty, WholeInv
  <2>8. CountInv'
    BY <1>3, <2>1 DEF CombEmpty, CombInv, CountInv, CalledOnce, Silent, NoneDecides, Decides
  <2> QED BY <2>1, <2>6, <2>7, <2>8 DEF CombInv, RuleInv
<1>4. CASE CombCalls
  BY <1>4, CallsKeepTypes, CallsKeepRule DEF CombInv
<1> QED BY <1>1, <1>2, <1>3, <1>4, CombActs

\* Elements that answer once each have turns of at most one.
LEMMA OrdinaryOnce ==
  ASSUME CombTypes, Ordinary
  PROVE  CalledOnce
<1>1. SUFFICES ASSUME NEW j \in DOMAIN called, NEW k \in DOMAIN called, called[j][1] = called[k][1], j # k
               PROVE  FALSE
  BY DEF CalledOnce
<1> DEFINE i == called[j][1]
           A == {q \in DOMAIN called : called[q][1] = i}
<1>2. called[j] \in (1..n) \X Sides /\ DOMAIN called = 1..Len(called) /\ Len(called) \in Nat
  BY DEF CombTypes
<1>3. i \in 1..n /\ IsFiniteSet(A)
  <2>1. IsFiniteSet(1..Len(called))
    BY <1>2, FS_Interval
  <2>2. IsFiniteSet(A)
    <3>1. A \subseteq 1..Len(called)
      BY <1>2
    <3> HIDE DEF A
    <3> QED BY <2>1, <3>1, FS_Subset
  <2> QED BY <1>2, <2>2
<1>4. Cardinality(A) <= 1
  BY <1>3 DEF Ordinary, Turns
<1>5. {j, k} \subseteq A /\ Cardinality({j, k}) = 2
  <2>1. IsFiniteSet({j}) /\ Cardinality({j}) = 1 /\ k \notin {j} /\ {j, k} = {j} \cup {k}
    BY <1>1, FS_Singleton
  <2>2. Cardinality({j} \cup {k}) = 2
    BY <2>1, FS_AddElement
  <2> QED BY <1>1, <2>1, <2>2
<1>6. Cardinality({j, k}) <= Cardinality(A)
  BY <1>3, <1>5, FS_Subset
<1>7. Cardinality(A) \in Nat
  BY <1>3, FS_CardinalityType
<1> HIDE DEF A
<1> QED BY <1>4, <1>5, <1>6, <1>7

\* A combinator answers by its rule: a consequence of its invariant.
LEMMA CombKeepsRule == CombInv => CombinesByRule
<1> SUFFICES ASSUME CombInv, Ordinary, n > 0, NoneThrew
             PROVE  IF Due THEN cap # <<>> /\ Head(cap) = Verdict ELSE cap = <<>>
  BY DEF CombinesByRule, NoneThrew
<1>1. CalledOnce
  BY OrdinaryOnce DEF CombInv
<1> DEFINE D == {k \in DOMAIN called : Decides(called[k])}
<1>2. CASE \E k \in DOMAIN called : /\ Decides(called[k]) /\ \A j \in DOMAIN called : Decides(called[j]) => k <= j
                                    /\ cap # <<>> /\ Head(cap) = One(called[k])
  <2>1. PICK k \in DOMAIN called : /\ Decides(called[k]) /\ \A j \in DOMAIN called : Decides(called[j]) => k <= j
                                    /\ cap # <<>> /\ Head(cap) = One(called[k])
    BY <1>2
  <2>2. Due /\ D # {}
    BY <2>1 DEF Due
  <2>3. \A j \in DOMAIN called : j \in Int
    BY DEF CombInv, CombTypes
  <2>4. \A q \in D : (\A j \in D : q <= j) => q = k
    BY <2>1, <2>3
  <2>5. (CHOOSE q \in D : \A j \in D : q <= j) = k
    <3>1. k \in D /\ \A j \in D : k <= j
      BY <2>1
    <3> HIDE DEF D
    <3> QED BY <2>4, <3>1
  <2>6. Verdict = One(called[k])
    <3>1. Verdict = LET q == CHOOSE q \in D : \A j \in D : q <= j
                    IN  [way |-> Short(called[q][2]), by |-> "one", what |-> called[q][1]]
      BY <2>2 DEF Verdict
    <3> HIDE DEF D
    <3> QED BY <2>5, <3>1 DEF One
  <2> QED BY <2>1, <2>2, <2>6
<1>3. CASE NoneDecides /\ method # "race" /\ Silent = {} /\ cap # <<>> /\ Head(cap) = All_(out)
  <2>0. /\ n \in Nat /\ out \in [1..n -> Sides \cup {Hole}]
        /\ \A k \in DOMAIN called : called[k] \in (1..n) \X Sides
    BY DEF CombInv, CombTypes
  <2>1. {called[k][1] : k \in DOMAIN called} = 1..n
    BY <1>3, <2>0 DEF Silent
  <2>2. Due /\ D = {}
    BY <1>3, <2>1 DEF Due, NoneDecides
  <2>3. \A k \in DOMAIN called : out[called[k][1]] = called[k][2]
    BY <1>1, <1>3 DEF CombInv, CountInv, NoneDecides
  <2>4. ASSUME NEW i \in 1..n
        PROVE  (CHOOSE c \in {called[k] : k \in DOMAIN called} : c[1] = i)[2] = out[i]
    <3>1. PICK k \in DOMAIN called : called[k][1] = i
      BY <2>1
    <3>2. \A c \in {called[q] : q \in DOMAIN called} : c[1] = i => c = called[k]
      BY <1>1, <3>1 DEF CalledOnce
    <3>3. (CHOOSE c \in {called[q] : q \in DOMAIN called} : c[1] = i) = called[k]
      <4> DEFINE C == {called[q] : q \in DOMAIN called}
      <4>1. called[k] \in C /\ called[k][1] = i /\ \A c \in C : c[1] = i => c = called[k]
        BY <3>1, <3>2
      <4> HIDE DEF C
      <4>2. (CHOOSE c \in C : c[1] = i) = called[k]
        BY <4>1
      <4> QED BY <4>2 DEF C
    <3> QED BY <2>3, <3>1, <3>3
  <2>5. Whole = out
    BY <2>0, <2>4 DEF Whole
  <2>6. Verdict = All_(out)
    BY <2>2, <2>5 DEF Verdict, All_
  <2> QED BY <1>3, <2>2, <2>6
<1>4. CASE NoneDecides /\ (method = "race" \/ Silent # {}) /\ cap = <<>>
  <2>1. {called[k][1] : k \in DOMAIN called} # 1..n \/ method = "race"
    BY <1>4 DEF Silent
  <2>2. ~ Due
    BY <1>4, <2>1 DEF Due, NoneDecides
  <2> QED BY <1>4, <2>2
<1> QED BY <1>1, <1>2, <1>3, <1>4 DEF CombInv, RuleInv

\* The whole array is handed over once.
LEMMA CombHandsOnce == CombInv => WholeOnce
<1> SUFFICES ASSUME CombInv PROVE WholeOnce
  OBVIOUS
<1> DEFINE A == {k \in DOMAIN cap : cap[k].by = "whole"}
<1>1. \A j, k \in A : j = k
  BY DEF CombInv, WholeInv
<1>2. CASE A = {}
  BY <1>2, FS_EmptySet DEF WholeOnce
<1>3. CASE A # {}
  <2>1. PICK k : k \in A
    BY <1>3
  <2>2. A = {k}
    BY <1>1, <2>1
  <2>3. Cardinality(A) = 1
    BY <2>2, FS_Singleton
  <2> QED BY <2>3 DEF WholeOnce
<1> QED BY <1>2, <1>3

\* After the array has been handed over no step of ordinary elements writes it.
LEMMA CombKeepsResult ==
  ASSUME CombInv, [CombNext]_combVars, \E k \in DOMAIN cap : cap[k].by = "whole", Ordinary'
  PROVE  out' = out
<1>1. CombInv'
  BY CombSteps
<1>2. CombTypes' /\ CalledOnce'
  <2>1. ASSUME CombTypes', Ordinary' PROVE CalledOnce'
    BY <2>1, OrdinaryOnce, PTL
  <2> QED BY <1>1, <2>1 DEF CombInv
<1>3. CASE CombCalls
  <2>1. PICK i, side : Calls(i, side) /\ UNCHANGED <<method, host, unread, kinds>>
    BY <1>3 DEF CombCalls
  <2>2. CalledOnce /\ i \in Silent
    BY <1>2, <2>1, CalledAgain DEF CombInv
  <2>3. IsFiniteSet(Silent) /\ n \in Nat /\ n > 0 /\ remaining \in Int
    <3>1. n \in Nat /\ i \in 1..n /\ remaining \in Int
      BY <2>1 DEF CombInv, CombTypes, Calls
    <3>2. IsFiniteSet(1..n) /\ Silent \subseteq 1..n
      BY <3>1, FS_Interval DEF Silent
    <3>3. IsFiniteSet(Silent)
      BY <3>2, FS_Subset
    <3> QED BY <3>1, <3>3
  <2>4. Cardinality(Silent) \in Nat \ {0}
    BY <2>2, <2>3, FS_EmptySet, FS_CardinalityType
  <2>5. remaining >= Cardinality(Silent) /\ remaining <= 0
    BY <2>2, <2>3 DEF CombInv, CountInv, WholeInv
  <2> QED BY <2>3, <2>4, <2>5
<1>4. CASE ~ CombCalls
  BY <1>4, CombActs DEF CombQuiet, CombThrows, CombEmpty
<1> QED BY <1>3, <1>4

-----------------------------------------------------------------------------
(* Disposable stacks (Disposables) *)

DispTypes ==
  /\ mode \in {"sync", "async"} /\ born \subseteq Stacks
  /\ disposed \in [Stacks -> BOOLEAN]
  /\ stack \in [Stacks -> Seq(Nat)] /\ running \in [Stacks -> Seq(Nat)] /\ order \in [Stacks -> Seq(Nat)]
  /\ calls \in Seq(Stacks) /\ ran \in Seq(Nat) /\ given \in Nat
  /\ awaiting \in [Stacks -> {NoOne, "step", "promise"}]
  /\ DOMAIN verdict = Stacks

\* Where the disposers of one stack are.
Placed(s) ==
  /\ s \notin born => ~ disposed[s] /\ order[s] = <<>>
  /\ ~ disposed[s] => /\ stack[s] = order[s] /\ running[s] = <<>>
                      /\ verdict[s] = NotYet /\ awaiting[s] = NoOne
                      /\ \A k \in DOMAIN calls : calls[k] # s
  /\ disposed[s] => stack[s] = <<>>
  /\ Len(running[s]) <= Len(order[s])
  /\ \A k \in DOMAIN running[s] : running[s][k] = order[s][k]
  /\ verdict[s] # NotYet => running[s] = <<>>

\* What each stack was given it alone was given, and once.
GivenOnce ==
  /\ \A s \in Stacks : \A k \in DOMAIN order[s] : order[s][k] <= given
  /\ \A s, t \in Stacks : \A k \in DOMAIN order[s] : \A l \in DOMAIN order[t] :
        order[s][k] = order[t][l] => s = t /\ k = l

\* What ran is what was taken off the end of a list.
RanFromEnd ==
  /\ \A i, j \in DOMAIN ran : ran[i] = ran[j] => i = j
  /\ \A i \in DOMAIN ran : ran[i] <= given
  /\ \A s \in Stacks : \A k \in DOMAIN order[s] :
        (\E i \in DOMAIN ran : ran[i] = order[s][k]) <=> k > Len(running[s]) /\ disposed[s]
  /\ \A s \in Stacks : InReverse(s)

DispInv == /\ DispTypes /\ GivenOnce /\ RanFromEnd
           /\ \A s \in Stacks : Placed(s)
           /\ mode = "async" => calls = <<>>

\* Empty stacks, nothing called.
LEMMA DispStarts == DispInit => DispInv
<1> SUFFICES ASSUME DispInit PROVE DispInv
  OBVIOUS
<1> USE DEF DispInit
<1>1. DispTypes
  BY DEF DispTypes, NoOne, NotYet
<1>2. \A s \in Stacks : order[s] = <<>> /\ stack[s] = <<>> /\ running[s] = <<>> /\ ~ disposed[s]
  OBVIOUS
<1>3. DOMAIN ran = {} /\ DOMAIN calls = {} /\ Len(<<>>) = 0 /\ DOMAIN <<>> = {}
  OBVIOUS
<1>4. GivenOnce
  BY <1>2, <1>3 DEF GivenOnce
<1>5. RanFromEnd
  BY <1>2, <1>3 DEF RanFromEnd, InReverse
<1>6. \A s \in Stacks : Placed(s)
  BY <1>2, <1>3 DEF Placed
<1> QED BY <1>1, <1>4, <1>5, <1>6 DEF DispInv

\* What each action does to the lists.
Pushed(s) == /\ s \in Stacks /\ Open(s) /\ given' = given + 1
             /\ stack' = [stack EXCEPT ![s] = Append(@, given')]
             /\ order' = [order EXCEPT ![s] = Append(@, given')]
             /\ UNCHANGED <<mode, born, disposed, running, calls, awaiting, verdict, ran>>
Moved(s, t) == /\ s \in Stacks /\ t \in Stacks \ born /\ Open(s) /\ born' = born \cup {t}
               /\ stack' = [stack EXCEPT ![t] = stack[s], ![s] = <<>>]
               /\ order' = [order EXCEPT ![t] = order[s], ![s] = <<>>]
               /\ disposed' = [disposed EXCEPT ![s] = TRUE]
               /\ UNCHANGED <<mode, running, calls, awaiting, verdict, given, ran>>
Begun(s) == /\ s \in Stacks /\ Begin(s)
            /\ \/ mode = "sync" /\ calls' = Append(calls, s) /\ awaiting' = awaiting
               \/ mode = "async" /\ calls' = calls /\ awaiting' = [awaiting EXCEPT ![s] = "step"]
            /\ UNCHANGED <<mode, born, verdict, given, ran, order>>
Next_(s) == /\ s \in Stacks /\ disposed[s] /\ running[s] # <<>>
            /\ ran' = Append(ran, Last(running[s]))
            /\ running' = [running EXCEPT ![s] = Front(@)]
            /\ \/ calls # <<>> /\ awaiting' = awaiting
               \/ awaiting[s] = "step" /\ awaiting' = [awaiting EXCEPT ![s] = "promise"]
            /\ UNCHANGED <<mode, born, disposed, stack, calls, verdict, given, order>>
Rests == /\ UNCHANGED <<mode, born, disposed, stack, running, given, ran, order>>
         /\ calls' \in Seq(Stacks) /\ Len(calls') <= Len(calls) /\ \A k \in DOMAIN calls' : k \in DOMAIN calls /\ calls'[k] = calls[k]
         /\ awaiting' \in [Stacks -> {NoOne, "step", "promise"}]
         /\ \A s \in Stacks : awaiting[s] = NoOne => awaiting'[s] = NoOne
         /\ DOMAIN verdict' = Stacks
         /\ \A s \in Stacks : verdict'[s] = verdict[s] \/ (disposed[s] /\ running[s] = <<>>)

\* Every step is one of five: a resource pushed, a stack moved, a disposal begun, its next resource, or nothing a property sees.
LEMMA DispActs ==
  ASSUME DispInv, [DispNext]_dispVars
  PROVE  \/ \E s : Pushed(s) \/ Begun(s) \/ Next_(s)
         \/ \E s, t : Moved(s, t)
         \/ Rests
<1> USE DEF DispInv, DispTypes
<1>10. ASSUME calls' = calls
       PROVE  calls' \in Seq(Stacks) /\ Len(calls') <= Len(calls) /\ \A k \in DOMAIN calls' : k \in DOMAIN calls /\ calls'[k] = calls[k]
  BY <1>10
<1>11. ASSUME calls # <<>>
       PROVE  /\ Last(calls) \in Stacks /\ Len(calls) \in DOMAIN calls /\ calls[Len(calls)] = Last(calls)
              /\ Front(calls) \in Seq(Stacks) /\ Len(Front(calls)) = Len(calls) - 1
              /\ \A k \in 1..Len(Front(calls)) : Front(calls)[k] = calls[k]
  <2>1. /\ Last(calls) \in Stacks /\ Len(calls) \in Nat \ {0} /\ calls[Len(calls)] = Last(calls)
        /\ Front(calls) \in Seq(Stacks) /\ Len(Front(calls)) = Len(calls) - 1
        /\ \A k \in 1..Len(Front(calls)) : Front(calls)[k] = calls[k]
    BY <1>11, FrontFacts
  <2>2. DOMAIN calls = 1..Len(calls)
    BY LenProperties
  <2> QED BY <2>1, <2>2
<1>1. ASSUME NEW s \in Stacks, use(s)
      PROVE  Pushed(s)
  BY <1>1 DEF use, Pushed
<1>2. ASSUME NEW s \in Stacks, move(s)
      PROVE  \E t : Moved(s, t)
  BY <1>2 DEF move, Moved
<1>3. ASSUME NEW s \in Stacks, dispose(s)
      PROVE  Begun(s)
  BY <1>3 DEF dispose, Begun
<1>4. ASSUME NEW s \in Stacks, disposeAsync(s)
      PROVE  Begun(s)
  BY <1>4 DEF disposeAsync, Begun
<1>5. ASSUME NEW s \in Stacks, Step(s)
      PROVE  Next_(s) \/ Rests
  <2>1. disposed[s]
    BY <1>5 DEF Step, Placed, NoOne
  <2>2. CASE running[s] = <<>>
    <3>1. /\ awaiting' = [awaiting EXCEPT ![s] = NoOne] /\ verdict' = [verdict EXCEPT ![s] = threw[s]]
          /\ UNCHANGED <<mode, born, disposed, stack, running, calls, given, ran, order>>
      BY <1>5, <2>2 DEF Step
    <3>2. /\ awaiting' \in [Stacks -> {NoOne, "step", "promise"}]
          /\ \A r \in Stacks : awaiting[r] = NoOne => awaiting'[r] = NoOne
      BY <3>1
    <3>3. /\ DOMAIN verdict' = Stacks
          /\ \A r \in Stacks : verdict'[r] = verdict[r] \/ (disposed[r] /\ running[r] = <<>>)
      BY <2>1, <2>2, <3>1
    <3> QED BY <1>10, <3>1, <3>2, <3>3 DEF Rests
  <2>3. CASE running[s] # <<>>
    BY <1>5, <2>1, <2>3 DEF Step, Next_
  <2> QED BY <2>2, <2>3
<1>6. ASSUME NEW s \in Stacks, Answers(s)
      PROVE  Rests
  BY <1>6 DEF Answers, Rests, NoOne
<1>7. ASSUME RunNext
      PROVE  \E s : Next_(s)
  <2>1. Last(calls) \in Stacks /\ Len(calls) \in DOMAIN calls /\ calls[Len(calls)] = Last(calls)
    BY <1>7, <1>11 DEF RunNext
  <2>2. disposed[Last(calls)]
    BY <1>7, <2>1 DEF RunNext, Placed
  <2>3. Next_(Last(calls))
    BY <1>7, <2>1, <2>2 DEF RunNext, Next_
  <2> QED BY <2>3
<1>8. ASSUME Leave
      PROVE  Rests
  <2>1. /\ Last(calls) \in Stacks /\ Len(calls) \in DOMAIN calls /\ calls[Len(calls)] = Last(calls)
        /\ calls' = Front(calls) /\ Front(calls) \in Seq(Stacks) /\ Len(Front(calls)) = Len(calls) - 1
        /\ \A k \in 1..Len(Front(calls)) : Front(calls)[k] = calls[k]
    BY <1>8, <1>11 DEF Leave
  <2>2. disposed[Last(calls)] /\ running[Last(calls)] = <<>>
    BY <1>8, <2>1 DEF Leave, Placed
  <2>3. /\ DOMAIN verdict' = Stacks
        /\ \A s \in Stacks : verdict'[s] = verdict[s] \/ (disposed[s] /\ running[s] = <<>>)
    BY <1>8, <2>2 DEF Leave
  <2>4. calls' \in Seq(Stacks) /\ Len(calls') <= Len(calls) /\ \A k \in DOMAIN calls' : k \in DOMAIN calls /\ calls'[k] = calls[k]
    <3> DEFINE f == Front(calls)
    <3> HIDE DEF f
    <3>1. /\ calls' = f /\ f \in Seq(Stacks) /\ Len(f) = Len(calls) - 1 /\ \A k \in 1..Len(f) : f[k] = calls[k]
          /\ Len(calls) \in Nat /\ DOMAIN calls = 1..Len(calls) /\ DOMAIN f = 1..Len(f)
      BY <2>1, LenProperties DEF f
    <3>2. \A k \in 1..Len(f) : k \in 1..Len(calls)
      BY <3>1
    <3>3. \A k \in DOMAIN calls' : k \in DOMAIN calls /\ calls'[k] = calls[k]
      BY <3>1, <3>2
    <3>4. calls' \in Seq(Stacks) /\ Len(calls') <= Len(calls)
      BY <3>1
    <3> QED BY <3>3, <3>4
  <2> QED BY <1>8, <2>3, <2>4 DEF Leave, Rests
<1>9. ASSUME UNCHANGED dispVars
      PROVE  Rests
  BY <1>9, LenProperties DEF dispVars, Rests
<1> QED BY <1>1, <1>2, <1>3, <1>4, <1>5, <1>6, <1>7, <1>8, <1>9 DEF DispNext

\* A resource added (use, adopt, defer) keeps the invariant.
LEMMA PushedKeeps ==
  ASSUME DispInv, NEW s, Pushed(s)
  PROVE  DispInv'
<1> DEFINE e == given + 1
           m == Len(order[s]) + 1
<1>1. /\ s \in Stacks /\ s \in born /\ ~ disposed[s] /\ e \in Nat /\ given \in Nat
      /\ order \in [Stacks -> Seq(Nat)] /\ stack[s] = order[s] /\ running[s] = <<>> /\ stack \in [Stacks -> Seq(Nat)]
      /\ given' = e /\ UNCHANGED <<mode, born, disposed, running, calls, awaiting, verdict, ran>>
      /\ stack' = [stack EXCEPT ![s] = Append(@, e)] /\ order' = [order EXCEPT ![s] = Append(@, e)]
  <2>1. /\ s \in Stacks /\ s \in born /\ ~ disposed[s] /\ e \in Nat /\ given \in Nat
        /\ order \in [Stacks -> Seq(Nat)] /\ stack \in [Stacks -> Seq(Nat)] /\ Placed(s)
    BY DEF Pushed, Open, DispInv, DispTypes
  <2>2. stack[s] = order[s] /\ running[s] = <<>>
    BY <2>1 DEF Placed
  <2>3. given' = e /\ UNCHANGED <<mode, born, disposed, running, calls, awaiting, verdict, ran>>
        /\ stack' = [stack EXCEPT ![s] = Append(@, e)] /\ order' = [order EXCEPT ![s] = Append(@, e)]
    <3>1. /\ given' = e /\ stack' = [stack EXCEPT ![s] = Append(@, given')] /\ order' = [order EXCEPT ![s] = Append(@, given')]
      BY DEF Pushed
    <3> QED BY <3>1 DEF Pushed
  <2> QED BY <2>1, <2>2, <2>3
<1>2. /\ Append(order[s], e) \in Seq(Nat) /\ DOMAIN order[s] = 1..Len(order[s]) /\ Len(order[s]) \in Nat
      /\ Len(Append(order[s], e)) = m
      /\ DOMAIN Append(order[s], e) = DOMAIN order[s] \cup {m} /\ m \notin DOMAIN order[s]
      /\ \A k \in DOMAIN order[s] : Append(order[s], e)[k] = order[s][k]
      /\ Append(order[s], e)[m] = e
  BY <1>1, AppendFacts
<1> HIDE DEF m, e
<1>3. /\ order'[s] = Append(order[s], e) /\ stack'[s] = Append(order[s], e)
      /\ \A r \in Stacks : r # s => order'[r] = order[r] /\ stack'[r] = stack[r]
      /\ order' \in [Stacks -> Seq(Nat)] /\ stack' \in [Stacks -> Seq(Nat)]
  BY <1>1, <1>2
<1>4. \A r \in Stacks : \A k \in DOMAIN order'[r] :
         \/ k \in DOMAIN order[r] /\ order'[r][k] = order[r][k]
         \/ r = s /\ k = m /\ order'[r][k] = e
  BY <1>2, <1>3
<1>5. \A r \in Stacks : \A k \in DOMAIN order[r] : order[r][k] <= given /\ order[r][k] \in Nat
  <2>1. ASSUME NEW r \in Stacks, NEW k \in DOMAIN order[r] PROVE order[r][k] \in Nat
    BY <1>1, <2>1, ElementOfSeq, LenProperties
  <2> QED BY <2>1 DEF DispInv, GivenOnce
<1>6. e = given + 1
  BY DEF e
<1>7. DispTypes'
  BY <1>1, <1>3 DEF DispInv, DispTypes
<1>8. GivenOnce'
  <2>1. \A r \in Stacks : \A k \in DOMAIN order'[r] : order'[r][k] <= e
    BY <1>1, <1>4, <1>5, <1>6
  <2>2. ASSUME NEW r \in Stacks, NEW t \in Stacks, NEW k \in DOMAIN order'[r], NEW l \in DOMAIN order'[t], order'[r][k] = order'[t][l]
        PROVE  r = t /\ k = l
    BY <1>1, <1>4, <1>5, <1>6, <2>2 DEF DispInv, GivenOnce
  <2> QED BY <1>1, <2>1, <2>2 DEF GivenOnce
<1>9. \A i \in DOMAIN ran : ran[i] <= given /\ ran[i] \in Nat
  <2>1. ASSUME NEW i \in DOMAIN ran PROVE ran[i] \in Nat
    BY <2>1, ElementOfSeq, LenProperties DEF DispInv, DispTypes
  <2> QED BY <2>1 DEF DispInv, RanFromEnd
<1>10. RanFromEnd'
  <2>1. \A k \in DOMAIN order'[s] : \A i \in DOMAIN ran : ran[i] # order'[s][k]
    BY <1>1, <1>4, <1>6, <1>9 DEF DispInv, RanFromEnd
  <2>2. \A i \in DOMAIN ran : ran[i] <= given'
    BY <1>1, <1>6, <1>9
  <2>3. \A r \in Stacks : \A k \in DOMAIN order'[r] :
           (\E i \in DOMAIN ran : ran[i] = order'[r][k]) <=> k > Len(running[r]) /\ disposed[r]
    BY <1>1, <1>3, <2>1 DEF DispInv, RanFromEnd
  <2>4. ASSUME NEW r \in Stacks PROVE InReverse(r)'
    BY <1>1, <1>3, <2>1 DEF DispInv, RanFromEnd, InReverse
  <2> QED BY <1>1, <2>2, <2>3, <2>4 DEF DispInv, RanFromEnd
<1>11. ASSUME NEW r \in Stacks PROVE Placed(r)'
  <2>1. Placed(r)
    BY DEF DispInv
  <2>2. CASE r = s
    BY <1>1, <1>2, <1>3, <2>1, <2>2 DEF Placed
  <2>3. CASE r # s
    BY <1>1, <1>3, <2>1, <2>3 DEF Placed
  <2> QED BY <2>2, <2>3
<1> QED BY <1>1, <1>7, <1>8, <1>10, <1>11 DEF DispInv

\* move() keeps the invariant: the resources change hands whole.
LEMMA MovedKeeps ==
  ASSUME DispInv, NEW s, NEW t, Moved(s, t)
  PROVE  DispInv'
<1>1. /\ s \in Stacks /\ s \in born /\ ~ disposed[s] /\ t \in Stacks /\ t \notin born /\ t # s /\ ~ disposed[t]
      /\ order \in [Stacks -> Seq(Nat)] /\ stack \in [Stacks -> Seq(Nat)] /\ disposed \in [Stacks -> BOOLEAN]
      /\ stack[s] = order[s] /\ running[s] = <<>> /\ order[t] = <<>> /\ running[t] = <<>> /\ stack[t] = <<>>
      /\ verdict[s] = NotYet /\ awaiting[s] = NoOne
      /\ UNCHANGED <<mode, running, calls, awaiting, verdict, given, ran>> /\ born' = born \cup {t}
      /\ stack' = [stack EXCEPT ![t] = stack[s], ![s] = <<>>]
      /\ order' = [order EXCEPT ![t] = order[s], ![s] = <<>>]
      /\ disposed' = [disposed EXCEPT ![s] = TRUE]
  BY DEF Moved, Open, DispInv, DispTypes, Placed
<1>0. <<>> \in Seq(Nat) /\ DOMAIN <<>> = {} /\ Len(<<>>) = 0
  OBVIOUS
<1>2. PICK z : z = <<>>
  OBVIOUS
<1>3. /\ order'[s] = z /\ stack'[s] = z /\ order'[t] = order[s] /\ stack'[t] = order[s]
      /\ disposed'[s] /\ ~ disposed'[t] /\ DOMAIN z = {} /\ Len(z) = 0
      /\ \A r \in Stacks : r # s /\ r # t => order'[r] = order[r] /\ stack'[r] = stack[r] /\ disposed'[r] = disposed[r]
      /\ order' \in [Stacks -> Seq(Nat)] /\ stack' \in [Stacks -> Seq(Nat)] /\ disposed' \in [Stacks -> BOOLEAN]
  BY <1>0, <1>1, <1>2
<1>4. DispTypes'
  BY <1>1, <1>3 DEF DispInv, DispTypes
<1> DEFINE Of(r) == IF r = t THEN s ELSE r
<1>5. \A r \in Stacks : \A k \in DOMAIN order'[r] :
         r # s /\ Of(r) \in Stacks /\ k \in DOMAIN order[Of(r)] /\ order'[r][k] = order[Of(r)][k]
  BY <1>1, <1>3
<1>6. GivenOnce'
  <2>1. ASSUME NEW r \in Stacks, NEW q \in Stacks, NEW k \in DOMAIN order'[r], NEW l \in DOMAIN order'[q], order'[r][k] = order'[q][l]
        PROVE  r = q /\ k = l
    <3>1. Of(r) = Of(q) /\ k = l
      <4> HIDE DEF Of
      <4> QED BY <1>5, <2>1 DEF DispInv, GivenOnce
    <3> QED BY <1>5, <3>1
  <2>2. \A r \in Stacks : \A k \in DOMAIN order'[r] : order'[r][k] <= given
    <3> HIDE DEF Of
    <3> QED BY <1>5 DEF DispInv, GivenOnce
  <2> QED BY <1>1, <2>1, <2>2 DEF GivenOnce
<1>7. \A k \in DOMAIN order[s] : \A i \in DOMAIN ran : ran[i] # order[s][k]
  BY <1>1 DEF DispInv, RanFromEnd
<1>8. RanFromEnd'
  <2>1. \A r \in Stacks : \A k \in DOMAIN order'[r] :
           (\E i \in DOMAIN ran : ran[i] = order'[r][k]) <=> k > Len(running[r]) /\ disposed'[r]
    <3>1. \A r \in Stacks : \A k \in DOMAIN order[r] :
             (\E i \in DOMAIN ran : ran[i] = order[r][k]) <=> k > Len(running[r]) /\ disposed[r]
      BY DEF DispInv, RanFromEnd
    <3>2. \A k \in DOMAIN order'[t] : ~ \E i \in DOMAIN ran : ran[i] = order'[t][k]
      BY <1>3, <1>7
    <3>3. s \in Stacks /\ t \in Stacks /\ \A k \in DOMAIN order'[s] : FALSE
      BY <1>1, <1>3
    <3>4. ~ disposed'[t] /\ \A r \in Stacks : r # s /\ r # t => order'[r] = order[r] /\ disposed'[r] = disposed[r]
      BY <1>3
    <3>5. ASSUME NEW r \in Stacks, NEW k \in DOMAIN order'[r]
          PROVE  (\E i \in DOMAIN ran : ran[i] = order'[r][k]) <=> k > Len(running[r]) /\ disposed'[r]
      <4>1. CASE r = t
        BY <3>2, <3>4, <3>5, <4>1
      <4>2. CASE r = s
        BY <3>3, <3>5, <4>2
      <4>3. CASE r # s /\ r # t
        BY <3>1, <3>4, <3>5, <4>3
      <4> QED BY <4>1, <4>2, <4>3
    <3> QED BY <3>5
  <2>2. ASSUME NEW r \in Stacks PROVE InReverse(r)'
    <3>1. CASE r = s \/ r = t
      BY <1>1, <1>3, <1>7, <3>1 DEF InReverse
    <3>2. CASE r # s /\ r # t
      BY <1>1, <1>3, <3>2 DEF DispInv, RanFromEnd, InReverse
    <3> QED BY <3>1, <3>2
  <2>3. UNCHANGED <<ran, running, given>>
    BY <1>1
  <2> QED BY <2>1, <2>2, <2>3 DEF DispInv, RanFromEnd
<1>9. ASSUME NEW r \in Stacks PROVE Placed(r)'
  <2>1. Placed(r) /\ Placed(t) /\ Placed(s)
    BY <1>1 DEF DispInv
  <2>2. Len(order[s]) \in Nat
    BY <1>1, LenProperties
  <2>3. CASE r = s
    BY <1>0, <1>1, <1>2, <1>3, <2>1, <2>3 DEF Placed
  <2>4. CASE r = t
    BY <1>0, <1>1, <1>3, <2>1, <2>2, <2>4 DEF Placed
  <2>5. CASE r # s /\ r # t
    BY <1>1, <1>3, <2>1, <2>5 DEF Placed
  <2> QED BY <2>3, <2>4, <2>5
<1> QED BY <1>1, <1>4, <1>6, <1>8, <1>9 DEF DispInv

\* The beginning of a disposal, re-entrant or not, keeps the invariant.
LEMMA BegunKeeps ==
  ASSUME DispInv, NEW s, Begun(s)
  PROVE  DispInv'
<1>1. /\ s \in Stacks /\ s \in born /\ ~ disposed[s]
      /\ order \in [Stacks -> Seq(Nat)] /\ stack \in [Stacks -> Seq(Nat)] /\ disposed \in [Stacks -> BOOLEAN]
      /\ running \in [Stacks -> Seq(Nat)] /\ calls \in Seq(Stacks)
      /\ stack[s] = order[s] /\ running[s] = <<>> /\ verdict[s] = NotYet /\ awaiting[s] = NoOne
      /\ UNCHANGED <<mode, born, verdict, given, ran, order>>
      /\ running' = [running EXCEPT ![s] = stack[s]] /\ stack' = [stack EXCEPT ![s] = <<>>]
      /\ disposed' = [disposed EXCEPT ![s] = TRUE]
      /\ Len(order[s]) \in Nat /\ DOMAIN order[s] = 1..Len(order[s])
  BY LenProperties DEF Begun, Begin, Open, DispInv, DispTypes, Placed
<1>0. <<>> \in Seq(Nat)
  OBVIOUS
<1>2. PICK z \in Seq(Nat) : z = <<>>
  BY <1>0, Zenon
<1>3. /\ running'[s] = order[s] /\ stack'[s] = z /\ disposed'[s]
      /\ \A r \in Stacks : r # s => running'[r] = running[r] /\ stack'[r] = stack[r] /\ disposed'[r] = disposed[r]
      /\ running' \in [Stacks -> Seq(Nat)] /\ stack' \in [Stacks -> Seq(Nat)] /\ disposed' \in [Stacks -> BOOLEAN]
  BY <1>1, <1>2
<1>4. /\ calls' \in Seq(Stacks) /\ (mode = "async" => calls' = calls)
      /\ \A r \in Stacks : r # s /\ (\A k \in DOMAIN calls : calls[k] # r) => \A k \in DOMAIN calls' : calls'[k] # r
  <2>1. CASE calls' = calls
    BY <1>1, <2>1
  <2>2. CASE mode = "sync" /\ calls' = Append(calls, s)
    <3>1. /\ Append(calls, s) \in Seq(Stacks) /\ DOMAIN Append(calls, s) = DOMAIN calls \cup {Len(calls) + 1}
          /\ \A k \in DOMAIN calls : Append(calls, s)[k] = calls[k]
          /\ Append(calls, s)[Len(calls) + 1] = s
      BY <1>1, AppendFacts
    <3>2. PICK c : c = Append(calls, s)
      OBVIOUS
    <3>3. PICK m : m = Len(calls) + 1
      OBVIOUS
    <3> QED BY <2>2, <3>1, <3>2, <3>3
  <2> QED BY <2>1, <2>2 DEF Begun
<1>5. /\ awaiting' \in [Stacks -> {NoOne, "step", "promise"}]
      /\ \A r \in Stacks : r # s => awaiting'[r] = awaiting[r]
  BY DEF Begun, DispInv, DispTypes
<1>6. DispTypes'
  BY <1>1, <1>3, <1>4, <1>5 DEF DispInv, DispTypes
<1>7. GivenOnce'
  BY <1>1 DEF DispInv, GivenOnce
<1>8. \A k \in DOMAIN order[s] : \A i \in DOMAIN ran : ran[i] # order[s][k]
  BY <1>1 DEF DispInv, RanFromEnd
<1>9. RanFromEnd'
  <2>1. \A r \in Stacks : \A k \in DOMAIN order[r] :
           (\E i \in DOMAIN ran : ran[i] = order[r][k]) <=> k > Len(running'[r]) /\ disposed'[r]
    <3>1. \A k \in DOMAIN order[s] : ~ (k > Len(running'[s]))
      BY <1>1, <1>3
    <3>2. \A r \in Stacks : \A k \in DOMAIN order[r] :
             (\E i \in DOMAIN ran : ran[i] = order[r][k]) <=> k > Len(running[r]) /\ disposed[r]
      BY DEF DispInv, RanFromEnd
    <3>3. \A r \in Stacks : r # s => running'[r] = running[r] /\ disposed'[r] = disposed[r]
      BY <1>3
    <3> QED BY <1>8, <3>1, <3>2, <3>3
  <2>2. UNCHANGED <<ran, order, given>>
    BY <1>1
  <2> QED BY <2>1, <2>2 DEF DispInv, RanFromEnd, InReverse
<1>10. ASSUME NEW r \in Stacks PROVE Placed(r)'
  <2>1. Placed(r)
    BY DEF DispInv
  <2>2. CASE r = s
    BY <1>1, <1>2, <1>3, <2>1, <2>2 DEF Placed
  <2>3. CASE r # s
    BY <1>1, <1>3, <1>4, <1>5, <2>1, <2>3 DEF Placed
  <2> QED BY <2>2, <2>3
<1> QED BY <1>1, <1>4, <1>6, <1>7, <1>9, <1>10 DEF DispInv

\* The disposal of the resource on top keeps the invariant.
LEMMA NextKeeps ==
  ASSUME DispInv, NEW s, Next_(s)
  PROVE  DispInv'
<1> DEFINE m == Len(running[s])
           x == order[s][m]
           w == Len(ran) + 1
<1>1. /\ s \in Stacks /\ disposed[s] /\ running[s] # <<>> /\ ran \in Seq(Nat)
      /\ order \in [Stacks -> Seq(Nat)] /\ running \in [Stacks -> Seq(Nat)]
      /\ running[s] \in Seq(Nat) /\ order[s] \in Seq(Nat)
      /\ UNCHANGED <<mode, born, disposed, stack, calls, verdict, given, order>>
      /\ ran' = Append(ran, Last(running[s])) /\ running' = [running EXCEPT ![s] = Front(@)]
      /\ verdict[s] = NotYet
  BY DEF Next_, DispInv, DispTypes, Placed
<1>2. /\ Front(running[s]) \in Seq(Nat) /\ Len(Front(running[s])) = m - 1 /\ m \in Nat \ {0}
      /\ \A k \in 1..(m - 1) : Front(running[s])[k] = running[s][k]
      /\ Last(running[s]) = running[s][m]
  BY <1>1, FrontFacts
<1>3. DOMAIN running[s] = 1..m /\ DOMAIN order[s] = 1..Len(order[s]) /\ Len(order[s]) \in Nat
  BY <1>1, LenProperties
<1>4. m \in DOMAIN order[s] /\ running[s][m] = x /\ x \in Nat /\ x <= given
      /\ \A k \in 1..m : running[s][k] = order[s][k]
  <2>1. m <= Len(order[s]) /\ \A k \in DOMAIN running[s] : running[s][k] = order[s][k]
    BY <1>1 DEF DispInv, Placed
  <2>2. m \in DOMAIN order[s]
    BY <1>2, <1>3, <2>1
  <2>3. x \in Nat
    BY <1>1, <1>3, <2>2, ElementOfSeq
  <2>4. x <= given
    BY <1>1, <2>2 DEF DispInv, GivenOnce
  <2>5. \A k \in 1..m : running[s][k] = order[s][k]
    BY <1>3, <2>1
  <2>6. m \in 1..m
    BY <1>2
  <2> QED BY <2>2, <2>3, <2>4, <2>5, <2>6
<1>5. /\ Append(ran, x) \in Seq(Nat) /\ DOMAIN Append(ran, x) = DOMAIN ran \cup {w} /\ w \notin DOMAIN ran
      /\ \A k \in DOMAIN ran : Append(ran, x)[k] = ran[k]
      /\ Append(ran, x)[w] = x
      /\ Len(ran) \in Nat /\ DOMAIN ran = 1..Len(ran)
  BY <1>1, <1>4, AppendFacts
<1>6. ran' = Append(ran, x)
  BY <1>1, <1>2, <1>4
<1>7. \A i \in DOMAIN ran : i < w
  BY <1>5
<1>8. PICK f : f = Front(running[s])
  OBVIOUS
<1> HIDE DEF m, x, w
<1>9. /\ running'[s] = f /\ f \in Seq(Nat) /\ Len(f) = m - 1 /\ DOMAIN f = 1..(m - 1)
      /\ \A k \in 1..(m - 1) : f[k] = order[s][k]
      /\ \A r \in Stacks : r # s => running'[r] = running[r]
      /\ running' \in [Stacks -> Seq(Nat)]
  <2>1. f \in Seq(Nat) /\ Len(f) = m - 1 /\ \A k \in 1..(m - 1) : f[k] = order[s][k]
    <3>1. \A k \in 1..(m - 1) : k \in 1..m
      BY <1>2
    <3> QED BY <1>2, <1>4, <1>8, <3>1
  <2>2. DOMAIN f = 1..(m - 1)
    BY <2>1, LenProperties
  <2> QED BY <1>1, <1>8, <2>1, <2>2
<1>10. /\ ran' \in Seq(Nat) /\ DOMAIN ran' = DOMAIN ran \cup {w} /\ w \notin DOMAIN ran
       /\ \A k \in DOMAIN ran : ran'[k] = ran[k] /\ k < w
       /\ ran'[w] = x
  BY <1>5, <1>6, <1>7
<1>11. awaiting' \in [Stacks -> {NoOne, "step", "promise"}] /\ \A r \in Stacks : r # s => awaiting'[r] = awaiting[r]
  BY DEF Next_, DispInv, DispTypes
<1>12. DispTypes'
  BY <1>1, <1>9, <1>10, <1>11 DEF DispInv, DispTypes
<1>13. GivenOnce'
  BY <1>1 DEF DispInv, GivenOnce
<1>14. \A i \in DOMAIN ran : ran[i] # x
  <2>1. ~ (m > Len(running[s]))
    BY <1>2 DEF m
  <2> QED BY <1>1, <1>4, <2>1 DEF DispInv, RanFromEnd, x
<1>15. \A r \in Stacks : \A k \in DOMAIN order[r] : order[r][k] = x => r = s /\ k = m
  BY <1>1, <1>4 DEF DispInv, GivenOnce, x
<1>16. RanFromEnd'
  <2>1. \A i, j \in DOMAIN ran' : ran'[i] = ran'[j] => i = j
    BY <1>10, <1>14 DEF DispInv, RanFromEnd
  <2>2. \A i \in DOMAIN ran' : ran'[i] <= given
    BY <1>4, <1>10 DEF DispInv, RanFromEnd
  <2>3. \A r \in Stacks : \A k \in DOMAIN order[r] :
           (\E i \in DOMAIN ran' : ran'[i] = order[r][k]) <=> (\E i \in DOMAIN ran : ran[i] = order[r][k]) \/ order[r][k] = x
    BY <1>10
  <2>4. \A k \in DOMAIN order[s] : k > m - 1 <=> k > m \/ k = m
    BY <1>2, <1>3
  <2>5. ASSUME NEW r \in Stacks, NEW k \in DOMAIN order[r]
        PROVE  (\E i \in DOMAIN ran' : ran'[i] = order[r][k]) <=> k > Len(running'[r]) /\ disposed[r]
    <3>1. (\E i \in DOMAIN ran : ran[i] = order[r][k]) <=> k > Len(running[r]) /\ disposed[r]
      BY DEF DispInv, RanFromEnd
    <3>2. CASE r = s
      <4>1. order[r][k] = x <=> k = m
        BY <1>15, <3>2 DEF x
      <4> QED BY <1>1, <1>9, <2>3, <2>4, <3>1, <3>2, <4>1 DEF m
    <3>3. CASE r # s
      BY <1>9, <1>15, <2>3, <3>1, <3>3
    <3> QED BY <3>2, <3>3
  <2>6. ASSUME NEW r \in Stacks PROVE InReverse(r)'
    <3>1. SUFFICES ASSUME NEW k \in DOMAIN order[r], NEW l \in DOMAIN order[r], k < l, NEW i \in DOMAIN ran', ran'[i] = order[r][k]
                   PROVE  \E j \in DOMAIN ran' : j < i /\ ran'[j] = order[r][l]
      <4>1. order' = order
        BY <1>1
      <4> QED BY <4>1 DEF InReverse
    <3>2. CASE i \in DOMAIN ran
      <4>1. PICK j \in DOMAIN ran : j < i /\ ran[j] = order[r][l]
        BY <1>10, <3>1, <3>2 DEF DispInv, RanFromEnd, InReverse
      <4> QED BY <1>10, <4>1
    <3>3. CASE i = w
      <4>1. r = s /\ k = m
        BY <1>10, <1>15, <3>1, <3>3
      <4>2. PICK j \in DOMAIN ran : ran[j] = order[r][l]
        BY <1>1, <3>1, <4>1 DEF DispInv, RanFromEnd, m
      <4> QED BY <1>10, <3>3, <4>2
    <3> QED BY <1>10, <3>2, <3>3
  <2>7. UNCHANGED <<order, given, disposed>>
    BY <1>1
  <2> QED BY <2>1, <2>2, <2>5, <2>6, <2>7 DEF RanFromEnd
<1>17. ASSUME NEW r \in Stacks PROVE Placed(r)'
  <2>1. Placed(r)
    BY DEF DispInv
  <2>2. CASE r = s
    <3>1. m - 1 <= Len(order[s])
      BY <1>2, <1>3, <1>4
    <3> QED BY <1>1, <1>9, <2>1, <2>2, <3>1 DEF Placed
  <2>3. CASE r # s
    BY <1>1, <1>9, <1>11, <2>1, <2>3 DEF Placed
  <2> QED BY <2>2, <2>3
<1> QED BY <1>1, <1>12, <1>13, <1>16, <1>17 DEF DispInv

\* One step keeps the invariant of the stacks.
LEMMA DispSteps ==
  ASSUME DispInv, [DispNext]_dispVars
  PROVE  DispInv'
<1>1. ASSUME Rests PROVE DispInv'
  <2>1. DispTypes'
    BY <1>1 DEF Rests, DispInv, DispTypes
  <2>2. GivenOnce' /\ RanFromEnd'
    BY <1>1 DEF Rests, DispInv, GivenOnce, RanFromEnd, InReverse
  <2>3. ASSUME NEW s \in Stacks PROVE Placed(s)'
    BY <1>1 DEF Rests, DispInv, Placed
  <2>4. mode' = "async" => calls' = <<>>
    <3>1. calls = <<>> => calls' = <<>>
      <4>1. calls = <<>> => Len(calls) = 0
        OBVIOUS
      <4>2. calls' \in Seq(Stacks) /\ Len(calls') <= Len(calls) /\ Len(calls') \in Nat
        BY <1>1, LenProperties DEF Rests
      <4> QED BY <4>1, <4>2, EmptySeq
    <3> QED BY <1>1, <3>1 DEF Rests, DispInv
  <2> QED BY <2>1, <2>2, <2>3, <2>4 DEF DispInv
<1> QED BY <1>1, DispActs, PushedKeeps, MovedKeeps, BegunKeeps, NextKeeps

\* Once each, in reverse, all of them, held by one stack: consequences of the invariant.
LEMMA DispKeepsOrder == DispInv => DisposedOnceInReverse /\ DisposalComplete /\ HeldOnce
<1> SUFFICES ASSUME DispInv PROVE DisposedOnceInReverse /\ DisposalComplete /\ HeldOnce
  OBVIOUS
<1>1. DisposedOnceInReverse
  BY DEF DispInv, DispTypes, RanFromEnd, DisposedOnceInReverse
<1>2. ASSUME NEW s \in born, verdict[s] # NotYet
      PROVE  /\ stack[s] = <<>> /\ running[s] = <<>>
             /\ {order[s][k] : k \in DOMAIN order[s]} \subseteq {ran[k] : k \in DOMAIN ran}
  <2>1. s \in Stacks /\ stack[s] = <<>> /\ running[s] = <<>> /\ disposed[s]
    BY <1>2 DEF DispInv, DispTypes, Placed
  <2>2. ASSUME NEW k \in DOMAIN order[s] PROVE \E i \in DOMAIN ran : ran[i] = order[s][k]
    <3>1. Len(running[s]) = 0
      BY <2>1
    <3>2. order[s] \in Seq(Nat) /\ k \in 1..Len(order[s])
      BY <2>1, LenProperties DEF DispInv, DispTypes
    <3>3. k > Len(running[s])
      BY <3>1, <3>2
    <3> QED BY <2>1, <3>3 DEF DispInv, RanFromEnd
  <2> QED BY <2>1, <2>2
<1>3. ASSUME NEW s \in born, NEW t \in born, s # t
      PROVE  {stack[s][k] : k \in DOMAIN stack[s]} \cap {stack[t][k] : k \in DOMAIN stack[t]} = {}
  <2>1. s \in Stacks /\ t \in Stacks
    BY DEF DispInv, DispTypes
  <2>2. DOMAIN <<>> = {}
    OBVIOUS
  <2>3. CASE disposed[s] \/ disposed[t]
    BY <2>1, <2>2, <2>3 DEF DispInv, Placed
  <2>4. CASE ~ disposed[s] /\ ~ disposed[t]
    <3>1. stack[s] = order[s] /\ stack[t] = order[t]
      BY <2>1, <2>4 DEF DispInv, Placed
    <3>2. \A k \in DOMAIN order[s] : \A l \in DOMAIN order[t] : order[s][k] # order[t][l]
      BY <1>3, <2>1 DEF DispInv, GivenOnce
    <3> QED BY <3>1, <3>2
  <2> QED BY <2>3, <2>4
<1> QED BY <1>1, <1>2, <1>3 DEF DisposalComplete, HeldOnce

\* While the promise of a disposer is awaited no other of its stack is called.
LEMMA DispNoOverlap ==
  ASSUME DispInv, [DispNext]_dispVars, NEW s \in Stacks, mode = "async", awaiting[s] = "promise"
  PROVE  running'[s] = running[s]
<1>1. disposed[s] /\ calls = <<>>
  BY DEF DispInv, Placed, NoOne
<1>2. ASSUME NEW r, Next_(r) PROVE running'[s] = running[s]
  BY <1>1, <1>2 DEF Next_, DispInv, DispTypes
<1>3. ASSUME NEW r, Begun(r) PROVE running'[s] = running[s]
  BY <1>1, <1>3 DEF Begun, Begin, Open, DispInv, DispTypes
<1> QED BY <1>2, <1>3, DispActs DEF Pushed, Moved, Rests

-----------------------------------------------------------------------------
(* Web streams (WebStreams) *)

TextStates == {"none", "waits", "step", "done", "failed"}

WebTypes ==
  /\ chunks \in Seq(Nat) /\ taken \in Seq(Nat) /\ waiters \in Seq({Program} \cup Texts)
  /\ put \in Nat /\ reads \in Nat
  /\ closed \in BOOLEAN /\ err \in BOOLEAN /\ mute \in BOOLEAN /\ cancelled \in BOOLEAN /\ ended \in BOOLEAN
  /\ text \in [Texts -> [state : TextStates, acc : Seq(Nat)]]

\* Every chunk has been taken or is queued, in the order of enqueue().
InLine ==
  /\ Len(taken) + Len(chunks) = put
  /\ \A k \in DOMAIN taken : taken[k] = k
  /\ \A k \in DOMAIN chunks : chunks[k] = Len(taken) + k

\* Whoever waits does so on an empty stream that goes on, or that failed without a reason.
WaitInv ==
  /\ waiters # <<>> => chunks = <<>> /\ (ended => mute) /\ ~ err
  /\ err => ended
  /\ mute => ended /\ ~ err
  /\ ended => closed \/ err \/ mute
  /\ closed /\ ~ cancelled => ended
  /\ \A k \in DOMAIN waiters : IF waiters[k] = Program THEN reads > 0 ELSE text[waiters[k]].state = "waits"
  /\ \A j, k \in DOMAIN waiters : waiters[j] = waiters[k] /\ waiters[j] # Program => j = k

\* The only consumer of the body.
Alone(t) == reads = 0 /\ \A u \in Texts : u # t => text[u].state = "none"
AloneInv ==
  /\ \A t \in Texts : Alone(t) => text[t].acc = taken
  /\ \A t \in Texts : text[t].state = "done" /\ ~ cancelled => ended /\ chunks = <<>>

WebInv == WebTypes /\ InLine /\ WaitInv /\ AloneInv

\* An open stream with nothing in it.
LEMMA WebStarts == WebInit => WebInv
<1> SUFFICES ASSUME WebInit PROVE WebInv
  OBVIOUS
<1> USE DEF WebInit
<1>0. <<>> \in Seq(Nat) /\ <<>> \in Seq({Program} \cup Texts)
  OBVIOUS
<1>1. WebTypes
  <2>1. PICK z : z = <<>>
    OBVIOUS
  <2>2. text = [t \in Texts |-> [state |-> "none", acc |-> z]] /\ z \in Seq(Nat)
    BY <1>0, <2>1
  <2>3. text \in [Texts -> [state : TextStates, acc : Seq(Nat)]]
    BY <2>2 DEF TextStates
  <2> QED BY <1>0, <2>3 DEF WebTypes
<1>2. DOMAIN <<>> = {} /\ Len(<<>>) = 0
  OBVIOUS
<1>3. InLine
  BY <1>2 DEF InLine
<1>4. WaitInv
  BY <1>2 DEF WaitInv
<1>5. AloneInv
  BY DEF AloneInv
<1> QED BY <1>1, <1>3, <1>4, <1>5 DEF WebInv

\* What an answer does to the text() calls.
LEMMA AfterFacts ==
  ASSUME WebTypes, NEW r \in Texts, NEW x \in Int
  PROVE  /\ After(text, r, x) \in [Texts -> [state : TextStates, acc : Seq(Nat)]]
         /\ \A u \in Texts : u # r => After(text, r, x)[u] = text[u]
         /\ x > 0 => After(text, r, x)[r].state = "step" /\ After(text, r, x)[r].acc = Append(text[r].acc, x)
         /\ x = 0 => After(text, r, x)[r].state = "done" /\ After(text, r, x)[r].acc = text[r].acc
         /\ x < 0 => After(text, r, x)[r].state = "failed" /\ After(text, r, x)[r].acc = text[r].acc
<1>1. r # Program /\ text[r] \in [state : TextStates, acc : Seq(Nat)] /\ text \in [Texts -> [state : TextStates, acc : Seq(Nat)]]
  BY WebStreamsAssumption DEF Program, WebTypes
<1>2. text[r].acc \in Seq(Nat)
  BY <1>1
<1>3. CASE x > 0
  <2>1. PICK y : y = [state |-> "step", acc |-> Append(text[r].acc, x)]
    OBVIOUS
  <2>2. y \in [state : TextStates, acc : Seq(Nat)] /\ y.state = "step" /\ y.acc = Append(text[r].acc, x)
    <3>1. Append(text[r].acc, x) \in Seq(Nat)
      <4>1. x \in Nat
        BY <1>3
      <4> QED BY <1>2, <4>1, AppendFacts
    <3>2. PICK z : z = Append(text[r].acc, x)
      OBVIOUS
    <3>3. y = [state |-> "step", acc |-> z] /\ z \in Seq(Nat)
      BY <2>1, <3>1, <3>2
    <3> QED BY <3>2, <3>3 DEF TextStates
  <2>3. After(text, r, x) = [text EXCEPT ![r] = y]
    BY <1>1, <1>3, <2>1 DEF After
  <2> QED BY <1>1, <1>3, <2>2, <2>3
<1>4. CASE x <= 0
  <2>1. PICK s \in TextStates : s = IF x = 0 THEN "done" ELSE "failed"
    BY DEF TextStates
  <2>2. After(text, r, x) = [text EXCEPT ![r].state = s]
    BY <1>1, <1>4, <2>1 DEF After
  <2> QED BY <1>1, <1>4, <2>1, <2>2
<1> QED BY <1>3, <1>4

\* A reader is handed the next chunk: from the queue, or as it is enqueued.
Gets(r) ==
  /\ r \in {Program} \cup Texts
  /\ taken' = Append(taken, Len(taken) + 1) /\ text' = After(text, r, Len(taken) + 1)
  /\ r = Program => reads' > 0
  /\ UNCHANGED <<closed, err, mute, cancelled, ended>>
  /\ \/ /\ waiters = <<>> /\ waiters' = <<>> /\ chunks # <<>> /\ chunks' = Tail(chunks) /\ put' = put
        /\ reads' = IF r = Program THEN reads + 1 ELSE reads
     \/ /\ waiters # <<>> /\ r = Head(waiters) /\ waiters' = Tail(waiters) /\ chunks' = <<>> /\ chunks = <<>>
        /\ put' = put + 1 /\ reads' = reads
\* One asks, and is told of the end or the failure.
Told(r) ==
  /\ r \in {Program} \cup Texts
  /\ UNCHANGED <<chunks, closed, err, mute, waiters, put, taken, cancelled, ended>>
  /\ \/ r = Program /\ reads' = reads + 1 /\ text' = text
     \/ r # Program /\ reads' = reads /\ text[r].state # "waits" /\ err /\ text' = After(text, r, Lost)
     \/ r # Program /\ reads' = reads /\ text[r].state # "waits" /\ closed /\ chunks = <<>> /\ text' = After(text, r, End)
Waits(r) ==
  /\ r \in {Program} \cup Texts
  /\ UNCHANGED <<chunks, closed, err, mute, put, taken, cancelled, ended>>
  /\ chunks = <<>> /\ ~ err /\ ~ closed
  /\ waiters' = Append(waiters, r)
  /\ \/ r = Program /\ reads' = reads + 1 /\ text' = text
     \/ r # Program /\ reads' = reads /\ text[r].state # "waits" /\ text' = [text EXCEPT ![r].state = "waits"]
Queued ==
  /\ waiters = <<>> /\ ~ ended /\ put' = put + 1 /\ chunks' = Append(chunks, put + 1)
  /\ UNCHANGED <<closed, err, mute, waiters, taken, text, reads, cancelled, ended>>
Ends(x) ==
  /\ x \in {End, Lost} /\ ~ ended /\ ended' /\ waiters' = <<>> /\ text' = AfterAll(text, waiters, x)
  /\ x = End => closed' = TRUE /\ err' = err /\ mute' = mute
  /\ x = Lost => err' \in BOOLEAN /\ mute' = ~ err' /\ closed' = closed
  /\ UNCHANGED <<chunks, put, taken, reads, cancelled>>
Cancels ==
  /\ closed' = TRUE /\ cancelled' = TRUE
  /\ UNCHANGED <<chunks, err, mute, waiters, put, taken, text, reads, ended>>

\* What a read finds: a chunk, the end, an error, or a wait.
LEMMA ReadActs ==
  ASSUME WebInv, NEW r \in {Program} \cup Texts, Read(r), UNCHANGED <<closed, err, mute, put, cancelled, ended>>,
         \/ r = Program /\ reads' = reads + 1
         \/ r # Program /\ reads' = reads /\ text[r].state # "waits"
  PROVE  Gets(r) \/ Told(r) \/ Waits(r)
<1> USE DEF WebInv, WebTypes
<1>0. r = Program => \A x : After(text, r, x) = text
  BY DEF After
<1>1. CASE err
  BY <1>0, <1>1 DEF Read, Told
<1>2. CASE ~ err /\ chunks # <<>>
  <2>1. Head(chunks) = Len(taken) + 1
    <3>1. Len(chunks) \in Nat \ {0} /\ DOMAIN chunks = 1..Len(chunks) /\ Head(chunks) = chunks[1] /\ Len(taken) \in Nat
      BY <1>2, EmptySeq, LenProperties
    <3>2. 1 \in DOMAIN chunks
      BY <3>1
    <3> QED BY <3>1, <3>2 DEF InLine
  <2>2. waiters = <<>>
    BY <1>2 DEF WaitInv
  <2>3. /\ text' = After(text, r, Head(chunks)) /\ taken' = Append(taken, Head(chunks))
        /\ chunks' = Tail(chunks) /\ UNCHANGED waiters
    BY <1>2 DEF Read
  <2>4. r = Program => reads' > 0
    <3>1. ASSUME r = Program PROVE reads' = reads + 1 /\ reads \in Nat
      BY <3>1
    <3> QED BY <3>1
  <2> HIDE DEF WebInv, WebTypes
  <2>5. reads' = IF r = Program THEN reads + 1 ELSE reads
    OBVIOUS
  <2> QED BY <1>2, <2>1, <2>2, <2>3, <2>4, <2>5 DEF Gets
<1>3. CASE ~ err /\ chunks = <<>> /\ closed
  BY <1>0, <1>3 DEF Read, Told
<1>4. CASE ~ err /\ chunks = <<>> /\ ~ closed
  BY <1>4 DEF Read, Waits
<1> QED BY <1>1, <1>2, <1>3, <1>4

\* Every step is one of six: a chunk taken, an end told, a wait, a chunk queued, an end, or a cancellation.
LEMMA WebActs ==
  ASSUME WebInv, [WebNext]_webVars
  PROVE  \/ \E r : Gets(r) \/ Told(r) \/ Waits(r)
         \/ \E x : Ends(x)
         \/ Queued \/ Cancels \/ UNCHANGED webVars
<1>1. CASE enqueue
  <2>1. CASE waiters # <<>>
    <3>1. chunks = <<>> /\ put + 1 = Len(taken) + 1 /\ Len(chunks) = 0
      <4>1. chunks = <<>>
        BY <2>1 DEF WebInv, WaitInv
      <4>2. Len(chunks) = 0
        BY <4>1
      <4> QED BY <4>1, <4>2, LenProperties DEF WebInv, InLine, WebTypes
    <3>2. Head(waiters) \in {Program} \cup Texts /\ (Head(waiters) = Program => reads > 0)
      <4>1. Len(waiters) \in Nat \ {0} /\ DOMAIN waiters = 1..Len(waiters) /\ Head(waiters) = waiters[1]
        BY <2>1, EmptySeq, LenProperties DEF WebInv, WebTypes
      <4>2. 1 \in DOMAIN waiters
        BY <4>1
      <4> QED BY <4>1, <4>2, ElementOfSeq DEF WebInv, WebTypes, WaitInv
    <3> QED BY <1>1, <2>1, <3>1, <3>2 DEF enqueue, Gets
  <2>2. CASE waiters = <<>>
    BY <1>1, <2>2 DEF enqueue, Queued
  <2> QED BY <2>1, <2>2
<1>2. CASE close
  <2>1. Ends(End)
    BY <1>2 DEF close, Ends, End, Lost
  <2> QED BY <2>1
<1>3. CASE error
  <2>1. Ends(Lost)
    BY <1>3 DEF error, Ends, End, Lost
  <2> QED BY <2>1
<1>4. CASE cancel
  BY <1>4 DEF cancel, Cancels
<1>5. CASE read
  <2>1. Gets(Program) \/ Told(Program) \/ Waits(Program)
    BY <1>5, ReadActs DEF read
  <2> QED BY <2>1
<1>6. ASSUME NEW t \in Texts, textBegins(t) \/ textStep(t)
      PROVE  Gets(t) \/ Told(t) \/ Waits(t)
  <2>1. t # Program
    BY WebStreamsAssumption DEF Program
  <2> QED BY <1>6, <2>1, ReadActs DEF textBegins, textStep
<1> QED BY <1>1, <1>2, <1>3, <1>4, <1>5, <1>6 DEF WebNext

\* A consumer that takes a chunk, waiting or not, keeps the invariant.
LEMMA GetsKeeps ==
  ASSUME WebInv, NEW r, Gets(r)
  PROVE  WebInv'
<1> DEFINE m == Len(taken) + 1
<1>1. /\ r \in {Program} \cup Texts /\ taken \in Seq(Nat) /\ chunks \in Seq(Nat) /\ waiters \in Seq({Program} \cup Texts)
      /\ put \in Nat /\ reads \in Nat /\ text \in [Texts -> [state : TextStates, acc : Seq(Nat)]]
      /\ Len(taken) \in Nat /\ m \in Nat /\ m > 0 /\ 0 \notin Texts
      /\ UNCHANGED <<closed, err, mute, cancelled, ended>> /\ (r = Program => reads' > 0) /\ (r # Program => reads' = reads)
      /\ reads' \in Nat /\ put' \in Nat
  <2>1. (r = Program => reads' > 0) /\ (r # Program => reads' = reads) /\ (reads' = reads \/ reads' = reads + 1)
    BY DEF Gets
  <2>2. put' = put \/ put' = put + 1
    BY DEF Gets
  <2>3. UNCHANGED <<closed, err, mute, cancelled, ended>> /\ r \in {Program} \cup Texts
    BY DEF Gets
  <2>4. Len(taken) \in Nat
    BY LenProperties DEF WebInv, WebTypes
  <2> QED BY <2>1, <2>2, <2>3, <2>4, WebStreamsAssumption DEF WebInv, WebTypes
<1>2. /\ Append(taken, m) \in Seq(Nat) /\ Len(Append(taken, m)) = m
      /\ DOMAIN Append(taken, m) = DOMAIN taken \cup {m}
      /\ \A k \in DOMAIN taken : Append(taken, m)[k] = taken[k]
      /\ Append(taken, m)[m] = m
  BY <1>1, AppendFacts
<1>3. taken' = Append(taken, m)
  BY DEF Gets
<1>4. /\ r = Program => text' = text
      /\ r # Program => /\ r \in Texts /\ text'[r].state = "step" /\ text'[r].acc = Append(text[r].acc, m)
                        /\ \A u \in Texts : u # r => text'[u] = text[u]
      /\ text' \in [Texts -> [state : TextStates, acc : Seq(Nat)]]
  <2>1. text' = After(text, r, m)
    BY DEF Gets
  <2>2. CASE r = Program
    <3>1. text' = text
      BY <2>1, <2>2 DEF After
    <3> QED BY <1>1, <2>2, <3>1
  <2>3. CASE r # Program
    <3>1. r \in Texts /\ m \in Int /\ WebTypes
      BY <1>1, <2>3 DEF WebInv
    <3>2. /\ After(text, r, m) \in [Texts -> [state : TextStates, acc : Seq(Nat)]]
          /\ \A u \in Texts : u # r => After(text, r, m)[u] = text[u]
          /\ After(text, r, m)[r].state = "step" /\ After(text, r, m)[r].acc = Append(text[r].acc, m)
      <4> HIDE DEF m
      <4> QED BY <1>1, <3>1, AfterFacts
    <3> HIDE DEF m
    <3>3. PICK y : y = After(text, r, m)
      OBVIOUS
    <3> QED BY <2>1, <2>3, <3>1, <3>2, <3>3
  <2> QED BY <2>2, <2>3
<1> HIDE DEF m
<1>5. /\ \A k \in DOMAIN taken' : taken'[k] = k
      /\ Len(taken') = m /\ taken' \in Seq(Nat)
  <2>1. PICK q : q = Append(taken, m)
    OBVIOUS
  <2> QED BY <1>2, <1>3, <2>1 DEF WebInv, InLine
<1>6. AloneInv' /\ text' \in [Texts -> [state : TextStates, acc : Seq(Nat)]] /\ chunks' \in Seq(Nat)
      /\ Len(taken') + Len(chunks') = put' /\ (\A k \in DOMAIN chunks' : chunks'[k] = Len(taken') + k)
  <2>1. ASSUME NEW t \in Texts, Alone(t)'
        PROVE  text'[t].acc = taken'
    <3>1. reads' = 0 /\ \A u \in Texts : u # t => text'[u].state = "none"
      BY <2>1 DEF Alone
    <3>2. r # Program /\ r = t
      BY <1>1, <1>4, <3>1
    <3>3. Alone(t)
      BY <1>1, <1>4, <3>1, <3>2 DEF Alone
    <3>4. text[t].acc = taken
      BY <3>3 DEF WebInv, AloneInv
    <3> QED BY <1>3, <1>4, <3>2, <3>4
  <2>2. ASSUME NEW t \in Texts, text'[t].state = "done"
        PROVE  text[t].state = "done"
    BY <1>4, <2>2
  <2>3. /\ chunks' \in Seq(Nat)
        /\ Len(taken') + Len(chunks') = put' /\ (\A k \in DOMAIN chunks' : chunks'[k] = Len(taken') + k)
        /\ chunks = <<>> => chunks' = <<>>
    <3>1. CASE chunks # <<>> /\ chunks' = Tail(chunks) /\ put' = put
      <4>1. /\ Tail(chunks) \in Seq(Nat) /\ Len(Tail(chunks)) = Len(chunks) - 1 /\ Len(chunks) \in Nat \ {0}
            /\ DOMAIN Tail(chunks) = 1..(Len(chunks) - 1)
            /\ \A k \in DOMAIN Tail(chunks) : k + 1 \in DOMAIN chunks /\ Tail(chunks)[k] = chunks[k + 1]
        BY <1>1, <3>1, TailFacts
      <4>2. PICK q : q = Tail(chunks)
        OBVIOUS
      <4>3. chunks' \in Seq(Nat) /\ Len(chunks') = Len(chunks) - 1 /\ Len(chunks) \in Nat \ {0} /\ DOMAIN chunks' = 1..(Len(chunks) - 1)
            /\ \A k \in DOMAIN chunks' : k + 1 \in DOMAIN chunks /\ chunks'[k] = chunks[k + 1]
        BY <3>1, <4>1, <4>2
      <4>4. Len(taken) + Len(chunks) = put /\ \A k \in DOMAIN chunks : chunks[k] = Len(taken) + k
        BY DEF WebInv, InLine
      <4>5. Len(taken') = Len(taken) + 1
        BY <1>5 DEF m
      <4>6. ASSUME NEW k \in DOMAIN chunks' PROVE chunks'[k] = Len(taken') + k
        <5>1. k \in Int /\ chunks'[k] = Len(taken) + (k + 1)
          BY <4>3, <4>4
        <5> QED BY <1>1, <4>5, <5>1
      <4> QED BY <1>1, <3>1, <4>3, <4>4, <4>5, <4>6
    <3>2. CASE chunks = <<>> /\ chunks' = <<>> /\ put' = put + 1
      <4>1. Len(chunks) = 0 /\ Len(chunks') = 0 /\ DOMAIN chunks' = {} /\ chunks' \in Seq(Nat)
        BY <1>1, <3>2
      <4>2. Len(taken) + Len(chunks) = put /\ Len(taken') = Len(taken) + 1
        BY <1>5 DEF WebInv, InLine, m
      <4>3. Len(taken) = put /\ Len(taken') + Len(chunks') = put'
        BY <1>1, <3>2, <4>1, <4>2
      <4> QED BY <3>2, <4>1, <4>3
    <3> QED BY <3>1, <3>2 DEF Gets
  <2> QED BY <1>1, <1>4, <2>1, <2>2, <2>3 DEF WebInv, AloneInv
<1>7. InLine'
  BY <1>5, <1>6 DEF InLine
<1>8. /\ waiters' \in Seq({Program} \cup Texts)
      /\ waiters' # <<>> => waiters # <<>> /\ chunks' = <<>>
      /\ \A k \in DOMAIN waiters' : k \in Int /\ k + 1 \in DOMAIN waiters /\ waiters'[k] = waiters[k + 1] /\ waiters[1] = r /\ 1 \in DOMAIN waiters /\ k # 0
  <2>1. CASE waiters' = <<>>
    <3>1. DOMAIN waiters' = {} /\ waiters' \in Seq({Program} \cup Texts)
      BY <1>1, <2>1
    <3> QED BY <2>1, <3>1
  <2>2. CASE waiters # <<>> /\ r = Head(waiters) /\ waiters' = Tail(waiters) /\ chunks' = <<>>
    <3>1. /\ Tail(waiters) \in Seq({Program} \cup Texts) /\ Len(waiters) \in Nat \ {0}
          /\ DOMAIN Tail(waiters) = 1..(Len(waiters) - 1)
          /\ \A k \in DOMAIN Tail(waiters) : k + 1 \in DOMAIN waiters /\ Tail(waiters)[k] = waiters[k + 1]
          /\ Head(waiters) = waiters[1] /\ 1 \in DOMAIN waiters
      BY <1>1, <2>2, TailFacts
    <3>2. PICK q : q = Tail(waiters)
      OBVIOUS
    <3>3. \A k \in 1..(Len(waiters) - 1) : k \in Int /\ k # 0
      BY <3>1
    <3> QED BY <2>2, <3>1, <3>2, <3>3
  <2> QED BY <2>1, <2>2 DEF Gets
<1>9. WaitInv'
  <2>1. ASSUME NEW k \in DOMAIN waiters'
        PROVE  IF waiters'[k] = Program THEN reads' > 0 ELSE text'[waiters'[k]].state = "waits"
    <3>1. CASE waiters'[k] = Program
      <4>1. reads > 0
        BY <1>8, <3>1 DEF WebInv, WaitInv
      <4> QED BY <1>1, <3>1, <4>1
    <3>2. CASE waiters'[k] # Program
      <4>1. text[waiters'[k]].state = "waits" /\ waiters'[k] \in Texts
        <5>1. waiters[k + 1] \in {Program} \cup Texts
          BY <1>1, <1>8, ElementOfSeq, LenProperties
        <5> QED BY <1>8, <3>2, <5>1 DEF WebInv, WaitInv
      <4>2. waiters'[k] # r
        <5>1. waiters'[k] = waiters[k + 1] /\ waiters[1] = r /\ 1 \in DOMAIN waiters /\ k + 1 \in DOMAIN waiters /\ k + 1 # 1
          BY <1>8
        <5> QED BY <3>2, <5>1 DEF WebInv, WaitInv
      <4> QED BY <1>4, <3>2, <4>1, <4>2
    <3> QED BY <3>1, <3>2
  <2>2. ASSUME NEW j \in DOMAIN waiters', NEW k \in DOMAIN waiters', waiters'[j] = waiters'[k], waiters'[j] # Program
        PROVE  j = k
    <3>1. j + 1 = k + 1 /\ j \in Int /\ k \in Int
      BY <1>8, <2>2 DEF WebInv, WaitInv
    <3> QED BY <3>1
  <2>3. /\ waiters' # <<>> => chunks' = <<>> /\ (ended => mute) /\ ~ err
        /\ err => ended
        /\ mute => ended /\ ~ err
        /\ ended => closed \/ err \/ mute
        /\ closed /\ ~ cancelled => ended
    BY <1>8 DEF WebInv, WaitInv
  <2> QED BY <1>1, <2>1, <2>2, <2>3 DEF WaitInv
<1> QED BY <1>1, <1>5, <1>6, <1>7, <1>8, <1>9 DEF WebInv, WebTypes

\* A consumer that is told of the end or the error keeps the invariant.
LEMMA ToldKeeps ==
  ASSUME WebInv, NEW r, Told(r)
  PROVE  WebInv'
<1>1. /\ r \in {Program} \cup Texts /\ UNCHANGED <<chunks, closed, err, mute, waiters, put, taken, cancelled, ended>>
      /\ reads \in Nat /\ reads' \in Nat /\ (reads' = 0 => reads = 0) /\ (reads > 0 => reads' > 0)
      /\ r = Program => text' = text
  <2>1. reads' = reads \/ reads' = reads + 1
    BY DEF Told
  <2>2. r \in {Program} \cup Texts /\ UNCHANGED <<chunks, closed, err, mute, waiters, put, taken, cancelled, ended>>
        /\ (r = Program => text' = text)
    BY DEF Told
  <2> QED BY <2>1, <2>2 DEF WebInv, WebTypes
<1>2. ASSUME r # Program
      PROVE  /\ r \in Texts /\ text[r].state # "waits" /\ text'[r].acc = text[r].acc
             /\ text'[r].state \in {"done", "failed"} /\ \A u \in Texts : u # r => text'[u] = text[u]
             /\ text' \in [Texts -> [state : TextStates, acc : Seq(Nat)]]
             /\ text'[r].state = "done" => closed /\ chunks = <<>>
  <2>1. r \in Texts /\ WebTypes
    BY <1>1, <1>2 DEF WebInv
  <2>2. CASE text[r].state # "waits" /\ err /\ text' = After(text, r, Lost)
    BY <2>1, <2>2, AfterFacts DEF Lost
  <2>3. CASE text[r].state # "waits" /\ closed /\ chunks = <<>> /\ text' = After(text, r, End)
    BY <2>1, <2>3, AfterFacts DEF End
  <2> QED BY <1>2, <2>2, <2>3 DEF Told
<1>3. text' \in [Texts -> [state : TextStates, acc : Seq(Nat)]]
  BY <1>1, <1>2 DEF WebInv, WebTypes
<1>4. InLine' /\ WebTypes'
  BY <1>1, <1>3 DEF WebInv, WebTypes, InLine
<1>5. WaitInv'
  <2>1. ASSUME NEW k \in DOMAIN waiters, waiters[k] # Program
        PROVE  text'[waiters[k]].state = "waits"
    <3>1. waiters[k] \in Texts /\ text[waiters[k]].state = "waits"
      <4>1. waiters[k] \in {Program} \cup Texts
        BY ElementOfSeq, LenProperties DEF WebInv, WebTypes
      <4> QED BY <2>1, <4>1 DEF WebInv, WaitInv
    <3> QED BY <1>1, <1>2, <3>1
  <2> QED BY <1>1, <2>1 DEF WebInv, WaitInv
<1>6. AloneInv'
  <2>1. ASSUME NEW t \in Texts, Alone(t)' PROVE text'[t].acc = taken
    <3>1. reads' = 0 /\ \A u \in Texts : u # t => text'[u].state = "none"
      BY <2>1 DEF Alone
    <3>2. Alone(t)
      BY <1>1, <1>2, <3>1 DEF Alone
    <3>3. text[t].acc = taken
      BY <3>2 DEF WebInv, AloneInv
    <3> QED BY <1>1, <1>2, <3>3
  <2>2. ASSUME NEW t \in Texts, text'[t].state = "done", ~ cancelled PROVE ended /\ chunks = <<>>
    <3>1. CASE r # Program /\ t = r
      BY <1>2, <2>2, <3>1 DEF WebInv, WaitInv
    <3>2. CASE r = Program \/ t # r
      BY <1>1, <1>2, <2>2, <3>2 DEF WebInv, AloneInv
    <3> QED BY <3>1, <3>2
  <2> QED BY <1>1, <2>1, <2>2 DEF AloneInv
<1> QED BY <1>4, <1>5, <1>6 DEF WebInv

\* A consumer that begins to wait keeps the invariant.
LEMMA WaitsKeeps ==
  ASSUME WebInv, NEW r, Waits(r)
  PROVE  WebInv'
<1> DEFINE m == Len(waiters) + 1
<1>1. /\ r \in {Program} \cup Texts /\ UNCHANGED <<chunks, closed, err, mute, put, taken, cancelled, ended>>
      /\ chunks = <<>> /\ ~ err /\ ~ closed /\ (ended => mute)
      /\ reads \in Nat /\ reads' \in Nat /\ (reads' = 0 => reads = 0) /\ (reads > 0 => reads' > 0)
      /\ r = Program => text' = text /\ reads' > 0
      /\ waiters' = Append(waiters, r) /\ waiters \in Seq({Program} \cup Texts)
  <2>1. (reads' = reads \/ reads' = reads + 1) /\ (r = Program => reads' = reads + 1) /\ reads \in Nat
    BY DEF Waits, WebInv, WebTypes
  <2>2. r \in {Program} \cup Texts /\ UNCHANGED <<chunks, closed, err, mute, put, taken, cancelled, ended>>
        /\ (r = Program => text' = text) /\ waiters' = Append(waiters, r) /\ chunks = <<>> /\ ~ err /\ ~ closed
    BY DEF Waits
  <2>3. (ended => mute) /\ waiters \in Seq({Program} \cup Texts)
    BY <2>2 DEF WebInv, WaitInv, WebTypes
  <2> QED BY <2>1, <2>2, <2>3
<1>2. ASSUME r # Program
      PROVE  /\ r \in Texts /\ text[r].state # "waits" /\ text'[r].acc = text[r].acc
             /\ text'[r].state = "waits" /\ \A u \in Texts : u # r => text'[u] = text[u]
             /\ text' \in [Texts -> [state : TextStates, acc : Seq(Nat)]]
  <2>1. r \in Texts /\ text \in [Texts -> [state : TextStates, acc : Seq(Nat)]] /\ "waits" \in TextStates
    BY <1>1, <1>2 DEF WebInv, WebTypes, TextStates
  <2>2. text[r].state # "waits" /\ text' = [text EXCEPT ![r].state = "waits"]
    BY <1>2 DEF Waits
  <2> QED BY <2>1, <2>2
<1>3. text' \in [Texts -> [state : TextStates, acc : Seq(Nat)]]
  BY <1>1, <1>2 DEF WebInv, WebTypes
<1>4. /\ Append(waiters, r) \in Seq({Program} \cup Texts)
      /\ DOMAIN Append(waiters, r) = DOMAIN waiters \cup {m} /\ m \notin DOMAIN waiters
      /\ \A k \in DOMAIN waiters : Append(waiters, r)[k] = waiters[k] /\ waiters[k] \in {Program} \cup Texts
      /\ Append(waiters, r)[m] = r
  BY <1>1, AppendFacts
<1> HIDE DEF m
<1>5. PICK q : q = Append(waiters, r)
  OBVIOUS
<1>6. /\ waiters' \in Seq({Program} \cup Texts)
      /\ DOMAIN waiters' = DOMAIN waiters \cup {m} /\ m \notin DOMAIN waiters
      /\ \A k \in DOMAIN waiters : waiters'[k] = waiters[k] /\ waiters[k] \in {Program} \cup Texts
      /\ waiters'[m] = r
  BY <1>1, <1>4, <1>5
<1>7. InLine' /\ WebTypes'
  BY <1>1, <1>3, <1>6 DEF WebInv, WebTypes, InLine
<1>8. \A k \in DOMAIN waiters : waiters[k] # Program => waiters[k] \in Texts /\ text[waiters[k]].state = "waits"
  BY <1>6 DEF WebInv, WaitInv
<1>9. WaitInv'
  <2>1. ASSUME NEW k \in DOMAIN waiters'
        PROVE  IF waiters'[k] = Program THEN reads' > 0 ELSE text'[waiters'[k]].state = "waits"
    <3>1. CASE k = m
      BY <1>1, <1>2, <1>6, <3>1
    <3>2. CASE k \in DOMAIN waiters
      <4>1. waiters'[k] = waiters[k] /\ (waiters[k] = Program => reads > 0)
        BY <1>6, <3>2 DEF WebInv, WaitInv
      <4> QED BY <1>1, <1>2, <1>8, <3>2, <4>1
    <3> QED BY <1>6, <3>1, <3>2
  <2>2. ASSUME NEW j \in DOMAIN waiters', NEW k \in DOMAIN waiters', waiters'[j] = waiters'[k], waiters'[j] # Program
        PROVE  j = k
    <3>1. r # Program => \A i \in DOMAIN waiters : waiters[i] # r
      BY <1>2, <1>8
    <3> QED BY <1>6, <2>2, <3>1 DEF WebInv, WaitInv
  <2> QED BY <1>1, <2>1, <2>2 DEF WebInv, WaitInv
<1>10. AloneInv'
  <2>1. ASSUME NEW t \in Texts, Alone(t)' PROVE text'[t].acc = taken
    <3>1. reads' = 0 /\ \A u \in Texts : u # t => text'[u].state = "none"
      BY <2>1 DEF Alone
    <3>2. Alone(t)
      BY <1>1, <1>2, <3>1 DEF Alone
    <3>3. text[t].acc = taken
      BY <3>2 DEF WebInv, AloneInv
    <3> QED BY <1>1, <1>2, <3>3
  <2>2. ASSUME NEW t \in Texts, text'[t].state = "done", ~ cancelled PROVE ended /\ chunks = <<>>
    BY <1>1, <1>2, <2>2 DEF WebInv, AloneInv
  <2> QED BY <1>1, <2>1, <2>2 DEF AloneInv
<1> QED BY <1>7, <1>9, <1>10 DEF WebInv

\* A chunk put in the queue keeps the invariant.
LEMMA QueuedKeeps ==
  ASSUME WebInv, Queued
  PROVE  WebInv'
<1>1. /\ chunks \in Seq(Nat) /\ put + 1 \in Nat /\ put \in Nat /\ Len(taken) \in Nat
      /\ put' = put + 1 /\ chunks' = Append(chunks, put + 1) /\ waiters = <<>> /\ waiters' = waiters
      /\ UNCHANGED <<closed, err, mute, taken, text, reads, cancelled, ended>> /\ ~ ended
  BY LenProperties DEF Queued, WebInv, WebTypes
<1>2. /\ Append(chunks, put + 1) \in Seq(Nat) /\ Len(Append(chunks, put + 1)) = Len(chunks) + 1 /\ Len(chunks) \in Nat
      /\ DOMAIN Append(chunks, put + 1) = DOMAIN chunks \cup {Len(chunks) + 1}
      /\ \A k \in DOMAIN chunks : Append(chunks, put + 1)[k] = chunks[k]
      /\ Append(chunks, put + 1)[Len(chunks) + 1] = put + 1
  BY <1>1, AppendFacts
<1>3. Len(taken) + Len(chunks) = put /\ \A k \in DOMAIN chunks : chunks[k] = Len(taken) + k
  BY DEF WebInv, InLine
<1>4. PICK q : q = Append(chunks, put + 1)
  OBVIOUS
<1>5. chunks' \in Seq(Nat) /\ Len(chunks') = Len(chunks) + 1 /\ \A k \in DOMAIN chunks' : chunks'[k] = Len(taken) + k
  <2>1. put + 1 = Len(taken) + (Len(chunks) + 1)
    BY <1>1, <1>2, <1>3
  <2> QED BY <1>1, <1>2, <1>3, <1>4, <2>1
<1>6. InLine'
  <2>1. Len(taken) + Len(chunks') = put'
    BY <1>1, <1>2, <1>3, <1>5
  <2> QED BY <1>1, <1>5, <2>1 DEF WebInv, InLine
<1>7. WebTypes'
  BY <1>1, <1>5 DEF WebInv, WebTypes
<1>8. WaitInv'
  BY <1>1 DEF WebInv, WaitInv
<1>9. AloneInv'
  BY <1>1 DEF WebInv, AloneInv, Alone
<1> QED BY <1>6, <1>7, <1>8, <1>9 DEF WebInv

\* The end of the stream keeps the invariant.
LEMMA EndsKeeps ==
  ASSUME WebInv, NEW x, Ends(x)
  PROVE  WebInv'
<1>1. /\ x \in {0, -1} /\ ~ ended /\ ended' /\ waiters' = <<>>
      /\ UNCHANGED <<chunks, put, taken, reads, cancelled>>
      /\ x = 0 => closed' = TRUE /\ err' = err /\ mute' = mute
      /\ x = -1 => err' \in BOOLEAN /\ mute' = ~ err' /\ closed' = closed
      /\ text' = AfterAll(text, waiters, x) /\ WebTypes
  BY DEF Ends, End, Lost, WebInv
<1>2. \A u \in Texts : text'[u] = IF \E k \in DOMAIN waiters : waiters[k] = u THEN After(text, u, x)[u] ELSE text[u]
  BY <1>1 DEF AfterAll
<1>3. ASSUME NEW u \in Texts, \E k \in DOMAIN waiters : waiters[k] = u
      PROVE  /\ chunks = <<>> /\ text[u].state = "waits" /\ text'[u].acc = text[u].acc
             /\ text'[u].state \in {"done", "failed"} /\ text'[u] \in [state : TextStates, acc : Seq(Nat)]
  <2>1. x \in Int
    BY <1>1
  <2>2. text'[u] = After(text, u, x)[u]
    BY <1>2, <1>3
  <2>3. /\ After(text, u, x)[u] \in [state : TextStates, acc : Seq(Nat)] /\ After(text, u, x)[u].acc = text[u].acc
        /\ After(text, u, x)[u].state \in {"done", "failed"}
    BY <1>1, <2>1, AfterFacts
  <2>4. u # Program /\ waiters # <<>>
    <3>1. DOMAIN <<>> = {}
      OBVIOUS
    <3> QED BY <1>3, <3>1, WebStreamsAssumption DEF Program
  <2>5. chunks = <<>> /\ text[u].state = "waits"
    BY <1>3, <2>4 DEF WebInv, WaitInv
  <2> QED BY <2>2, <2>3, <2>5
<1>4. \A u \in Texts : /\ text'[u] \in [state : TextStates, acc : Seq(Nat)] /\ text'[u].acc = text[u].acc
                       /\ text'[u] = text[u] \/ (chunks = <<>> /\ text[u].state = "waits" /\ text'[u].state \in {"done", "failed"})
  <2>1. \A u \in Texts : text[u] \in [state : TextStates, acc : Seq(Nat)]
    BY DEF WebInv, WebTypes
  <2> QED BY <1>2, <1>3, <2>1
<1>5. text' \in [Texts -> [state : TextStates, acc : Seq(Nat)]]
  <2>1. text' = [u \in Texts |-> text'[u]]
    BY <1>1 DEF AfterAll
  <2> QED BY <1>4, <2>1
<1>6. waiters' \in Seq({Program} \cup Texts) /\ DOMAIN waiters' = {}
  BY <1>1
<1>7. WebTypes' /\ InLine'
  <2>1. closed' \in BOOLEAN /\ err' \in BOOLEAN /\ mute' \in BOOLEAN /\ ended' \in BOOLEAN
    BY <1>1 DEF Ends, WebTypes, End, Lost
  <2> QED BY <1>1, <1>5, <1>6, <2>1 DEF WebInv, WebTypes, InLine
<1>8. WaitInv'
  <2>1. ~ err /\ ~ mute /\ (closed => cancelled)
    BY <1>1 DEF WebInv, WaitInv
  <2>2. /\ err' => ended'
        /\ mute' => ended' /\ ~ err'
        /\ ended' => closed' \/ err' \/ mute'
        /\ closed' /\ ~ cancelled' => ended'
    <3>1. CASE x = 0
      BY <1>1, <2>1, <3>1
    <3>2. CASE x = -1
      BY <1>1, <2>1, <3>2
    <3> QED BY <1>1, <3>1, <3>2
  <2>3. waiters' = <<>>
    BY <1>1
  <2> QED BY <1>6, <2>2, <2>3 DEF WaitInv
<1>9. AloneInv'
  <2>1. ASSUME NEW t \in Texts, Alone(t)' PROVE text'[t].acc = taken
    <3>1. Alone(t)
      BY <1>1, <1>4, <2>1 DEF Alone
    <3> QED BY <1>4, <3>1 DEF WebInv, AloneInv
  <2>2. ASSUME NEW t \in Texts, text'[t].state = "done", ~ cancelled PROVE ended' /\ chunks = <<>>
    BY <1>1, <1>4, <2>2 DEF WebInv, AloneInv
  <2> QED BY <1>1, <2>1, <2>2 DEF AloneInv
<1> QED BY <1>7, <1>8, <1>9 DEF WebInv

\* One step keeps the invariant of a stream and its consumers.
LEMMA WebSteps ==
  ASSUME WebInv, [WebNext]_webVars
  PROVE  WebInv'
<1>1. ASSUME Cancels PROVE WebInv'
  BY <1>1 DEF Cancels, WebInv, WebTypes, InLine, WaitInv, AloneInv, Alone
<1>2. ASSUME UNCHANGED webVars PROVE WebInv'
  BY <1>2 DEF webVars, WebInv, WebTypes, InLine, WaitInv, AloneInv, Alone
<1> QED BY <1>1, <1>2, WebActs, GetsKeeps, ToldKeeps, WaitsKeeps, QueuedKeeps, EndsKeeps

\* In order, whole, and nobody left waiting: consequences of the invariant.
LEMMA WebKeepsOrder == WebInv => ChunksInOrder /\ TextIsWhole /\ NoneLeftWaiting
<1> SUFFICES ASSUME WebInv PROVE ChunksInOrder /\ TextIsWhole /\ NoneLeftWaiting
  OBVIOUS
<1>1. /\ taken \in Seq(Nat) /\ chunks \in Seq(Nat) /\ put \in Nat /\ Len(taken) + Len(chunks) = put
      /\ DOMAIN taken = 1..Len(taken) /\ DOMAIN chunks = 1..Len(chunks) /\ Len(taken) \in Nat /\ Len(chunks) \in Nat
      /\ \A k \in DOMAIN taken : taken[k] = k
      /\ \A k \in DOMAIN chunks : chunks[k] = Len(taken) + k
  BY LenProperties DEF WebInv, WebTypes, InLine
<1>2. taken \o chunks = [k \in 1..put |-> k]
  <2>1. /\ taken \o chunks \in Seq(Nat) /\ Len(taken \o chunks) = put
        /\ \A i \in 1..put : (taken \o chunks)[i] = IF i <= Len(taken) THEN taken[i] ELSE chunks[i - Len(taken)]
    BY <1>1, ConcatProperties
  <2>2. \A i \in 1..put : (taken \o chunks)[i] = i
    <3>1. SUFFICES ASSUME NEW i \in 1..put PROVE (taken \o chunks)[i] = i
      OBVIOUS
    <3>2. CASE i <= Len(taken)
      <4>1. i \in DOMAIN taken
        BY <1>1, <3>2
      <4> QED BY <1>1, <2>1, <3>2, <4>1
    <3>3. CASE ~ (i <= Len(taken))
      <4>1. i - Len(taken) \in DOMAIN chunks /\ Len(taken) + (i - Len(taken)) = i
        BY <1>1, <3>3
      <4> QED BY <1>1, <2>1, <3>3, <4>1
    <3> QED BY <3>2, <3>3
  <2>3. taken \o chunks = [i \in 1..put |-> (taken \o chunks)[i]]
    BY <2>1, LenProperties
  <2>4. PICK q : q = taken \o chunks
    OBVIOUS
  <2> QED BY <2>2, <2>3, <2>4
<1>3. ASSUME NEW t \in Texts, text[t].state = "done", ~ cancelled, Alone(t)
      PROVE  text[t].acc = [k \in 1..put |-> k]
  <2>1. text[t].acc = taken /\ chunks = <<>>
    BY <1>3 DEF WebInv, AloneInv
  <2>2. Len(chunks) = 0 /\ Len(taken) = put
    <3>1. chunks = <<>> => Len(chunks) = 0
      OBVIOUS
    <3> QED BY <1>1, <2>1, <3>1
  <2>3. taken = [k \in 1..put |-> taken[k]]
    BY <1>1, <2>2
  <2>4. taken = [k \in 1..put |-> k]
    BY <1>1, <2>2, <2>3
  <2> QED BY <2>1, <2>4
<1>4. ChunksInOrder
  BY <1>2 DEF ChunksInOrder, WebInv, WaitInv
<1>5. TextIsWhole
  BY <1>3 DEF TextIsWhole, Alone
<1>6. NoneLeftWaiting
  BY DEF NoneLeftWaiting, WebInv, WaitInv
<1> QED BY <1>4, <1>5, <1>6

-----------------------------------------------------------------------------
(* Datagram sockets (Datagrams) *)

\* A sequence without the element at one place.
LEMMA RemoveAtFacts ==
  ASSUME NEW T, NEW p \in Seq(T), NEW i \in 1..Len(p)
  PROVE  /\ RemoveAt(p, i) \in Seq(T) /\ Len(p) \in Nat /\ Len(RemoveAt(p, i)) = Len(p) - 1
         /\ DOMAIN p = 1..Len(p) /\ DOMAIN RemoveAt(p, i) = 1..(Len(p) - 1)
         /\ \A k \in DOMAIN RemoveAt(p, i) : RemoveAt(p, i)[k] = IF k < i THEN p[k] ELSE p[k + 1]
<1>1. Len(p) \in Nat /\ DOMAIN p = 1..Len(p) /\ i \in Int /\ i >= 1 /\ i <= Len(p)
  BY LenProperties
<1> DEFINE a == SubSeq(p, 1, i - 1)
           b == SubSeq(p, i + 1, Len(p))
<1>2. /\ a \in Seq(T) /\ Len(a) = i - 1 /\ \A k \in 1..(i - 1) : a[k] = p[k]
  <2>1. \A k \in 1..(i - 1) : p[k] \in T
    BY <1>1, ElementOfSeq
  <2>2. 1 \in Int /\ i - 1 \in Int
    BY <1>1
  <2>3. /\ a \in Seq(T) /\ Len(a) = (IF 1 <= i - 1 THEN i - 1 - 1 + 1 ELSE 0)
        /\ \A k \in 1..(i - 1 - 1 + 1) : a[k] = p[1 + k - 1]
    BY <2>1, <2>2, SubSeqProperties
  <2> HIDE DEF a
  <2>4. (IF 1 <= i - 1 THEN i - 1 - 1 + 1 ELSE 0) = i - 1
    BY <1>1
  <2>5. \A k \in 1..(i - 1) : k \in 1..(i - 1 - 1 + 1) /\ 1 + k - 1 = k
    BY <1>1
  <2> QED BY <2>3, <2>4, <2>5
<1>3. /\ b \in Seq(T) /\ Len(b) = Len(p) - i /\ \A k \in 1..(Len(p) - i) : b[k] = p[i + k]
  <2>1. \A k \in (i + 1)..Len(p) : p[k] \in T
    BY <1>1, ElementOfSeq
  <2>2. i + 1 \in Int /\ Len(p) \in Int
    BY <1>1
  <2>3. /\ b \in Seq(T) /\ Len(b) = (IF i + 1 <= Len(p) THEN Len(p) - (i + 1) + 1 ELSE 0)
        /\ \A k \in 1..(Len(p) - (i + 1) + 1) : b[k] = p[(i + 1) + k - 1]
    <3> DEFINE c == i + 1
    <3>1. c \in Int /\ \A k \in c..Len(p) : p[k] \in T
      BY <2>1, <2>2
    <3> HIDE DEF c
    <3>2. /\ SubSeq(p, c, Len(p)) \in Seq(T) /\ Len(SubSeq(p, c, Len(p))) = (IF c <= Len(p) THEN Len(p) - c + 1 ELSE 0)
          /\ \A k \in 1..(Len(p) - c + 1) : SubSeq(p, c, Len(p))[k] = p[c + k - 1]
      BY <2>2, <3>1, SubSeqProperties
    <3> QED BY <3>2 DEF c
  <2> HIDE DEF b
  <2>4. (IF i + 1 <= Len(p) THEN Len(p) - (i + 1) + 1 ELSE 0) = Len(p) - i
    <3> DEFINE l == Len(p)
    <3>2. l \in Int /\ i \in Int /\ i <= l
      BY <1>1
    <3> HIDE DEF l
    <3>3. (IF i + 1 <= l THEN l - (i + 1) + 1 ELSE 0) = l - i
      BY <3>2
    <3> QED BY <3>3 DEF l
  <2>5. \A k \in 1..(Len(p) - i) : k \in 1..(Len(p) - (i + 1) + 1) /\ (i + 1) + k - 1 = i + k
    BY <1>1
  <2> QED BY <2>3, <2>4, <2>5
<1> DEFINE q == RemoveAt(p, i)
<1>4. q = a \o b
  BY DEF RemoveAt
<1> HIDE DEF a, b, q
<1>5. Len(a) + Len(b) = Len(p) - 1 /\ Len(a) \in Nat /\ Len(b) \in Nat
  BY <1>1, <1>2, <1>3
<1>6. /\ q \in Seq(T) /\ Len(q) = Len(p) - 1
      /\ \A k \in 1..(Len(p) - 1) : q[k] = IF k <= Len(a) THEN a[k] ELSE b[k - Len(a)]
  <2>1. /\ a \o b \in Seq(T) /\ Len(a \o b) = Len(a) + Len(b)
        /\ \A k \in 1..(Len(a) + Len(b)) : (a \o b)[k] = IF k <= Len(a) THEN a[k] ELSE b[k - Len(a)]
    BY <1>2, <1>3, ConcatProperties
  <2>2. PICK c : c = a \o b
    OBVIOUS
  <2> QED BY <1>4, <1>5, <2>1, <2>2
<1>7. DOMAIN q = 1..(Len(p) - 1)
  BY <1>6, LenProperties
<1>8. ASSUME NEW k \in 1..(Len(p) - 1)
      PROVE  q[k] = IF k < i THEN p[k] ELSE p[k + 1]
  <2>1. CASE k < i
    <3>1. k \in 1..(i - 1) /\ k <= Len(a)
      BY <1>1, <1>2, <2>1
    <3> QED BY <1>2, <1>6, <2>1, <3>1
  <2>2. CASE ~ (k < i)
    <3>1. k - Len(a) \in 1..(Len(p) - i) /\ ~ (k <= Len(a)) /\ i + (k - Len(a)) = k + 1
      BY <1>1, <1>2, <2>2
    <3>2. q[k] = b[k - Len(a)]
      BY <1>6, <3>1
    <3>3. b[k - Len(a)] = p[k + 1]
      BY <1>3, <3>1
    <3> QED BY <2>2, <3>2, <3>3
  <2> QED BY <2>1, <2>2
<1> QED BY <1>1, <1>6, <1>7, <1>8 DEF q

DgramTypes ==
  /\ fd \in [Socks -> 0..MaxFd] /\ bound \in [Socks -> BOOLEAN] /\ sockClosed \in [Socks -> BOOLEAN]
  /\ opened \in 0..MaxFd /\ pendingSocks \in Seq(Socks) /\ polled \in BOOLEAN /\ at \in Nat
  /\ wire \in [1..MaxFd -> Seq(Nat)] /\ sent \in Nat /\ got \in [Socks -> Seq(Nat)]

\* The list and its registration.
PollInv ==
  /\ \A j, k \in DOMAIN pendingSocks : pendingSocks[j] = pendingSocks[k] => j = k
  /\ \A k \in DOMAIN pendingSocks : bound[pendingSocks[k]]
  /\ \A s \in Socks : bound[s] /\ ~ sockClosed[s] => fd[s] # 0 /\ \E k \in DOMAIN pendingSocks : pendingSocks[k] = s
  /\ at <= Len(pendingSocks)
  /\ pendingSocks # <<>> => polled
  /\ polled /\ at = 0 => pendingSocks # <<>>

Rising(q) == \A i, j \in DOMAIN q : i < j => q[i] < q[j]

\* What has arrived was sent before what waits.
OrderInv ==
  /\ ~ late
  /\ \A s \in Socks : /\ fd[s] # 0 => bound[s] /\ fd[s] <= opened
                      /\ ~ bound[s] => got[s] = <<>>
                      /\ Rising(got[s])
                      /\ fd[s] # 0 => \A i \in DOMAIN got[s] : \A j \in DOMAIN wire[fd[s]] : got[s][i] < wire[fd[s]][j]
                      /\ \A i \in DOMAIN got[s] : got[s][i] <= sent
  /\ \A f \in 1..MaxFd : /\ Rising(wire[f])
                         /\ \A i \in DOMAIN wire[f] : wire[f][i] <= sent
                         /\ f > opened => wire[f] = <<>>

DgramInv == DgramTypes /\ PollInv /\ OrderInv

\* The descriptors are bounded by a number.
LEMMA MaxFdNat == MaxFd \in Nat
BY DatagramsAssumption, FS_CardinalityType DEF MaxFd

\* No socket is open.
LEMMA DgramStarts == DgramInit => DgramInv
<1> SUFFICES ASSUME DgramInit PROVE DgramInv
  OBVIOUS
<1>1. <<>> \in Seq(Nat) /\ <<>> \in Seq(Socks) /\ DOMAIN <<>> = {} /\ Len(<<>>) = 0
  OBVIOUS
<1>2. PICK z : z = <<>>
  OBVIOUS
<1>3. /\ fd = [s \in Socks |-> 0] /\ bound = [s \in Socks |-> FALSE] /\ sockClosed = [s \in Socks |-> FALSE]
      /\ opened = 0 /\ pendingSocks = z /\ polled = FALSE /\ at = 0 /\ sent = 0 /\ late = FALSE
      /\ wire = [f \in 1..MaxFd |-> z] /\ got = [s \in Socks |-> z]
      /\ z \in Seq(Nat) /\ z \in Seq(Socks) /\ DOMAIN z = {} /\ Len(z) = 0
  <2>1. z \in Seq(Nat) /\ z \in Seq(Socks) /\ DOMAIN z = {} /\ Len(z) = 0
    BY <1>1, <1>2
  <2>2. wire = [f \in 1..MaxFd |-> z] /\ got = [s \in Socks |-> z] /\ pendingSocks = z
    BY <1>2 DEF DgramInit
  <2> QED BY <2>1, <2>2 DEF DgramInit
<1>4. DgramTypes
  <2>1. 0 \in 0..MaxFd
    BY MaxFdNat
  <2>2. fd \in [Socks -> 0..MaxFd] /\ bound \in [Socks -> BOOLEAN] /\ sockClosed \in [Socks -> BOOLEAN]
    BY <1>3, <2>1
  <2>3. wire \in [1..MaxFd -> Seq(Nat)] /\ got \in [Socks -> Seq(Nat)]
    BY <1>3
  <2> QED BY <1>3, <2>1, <2>2, <2>3 DEF DgramTypes
<1>5. PollInv
  BY <1>3, <1>2 DEF PollInv
<1>6. OrderInv
  BY <1>2, <1>3 DEF OrderInv, Rising
<1> QED BY <1>4, <1>5, <1>6 DEF DgramInv

\* A socket bound keeps the invariant.
LEMMA BoundKeeps ==
  ASSUME DgramInv, NEW s \in Socks, Bound(s), UNCHANGED <<sockClosed, at, wire, got, late>>, sent' \in {sent, sent + 1}
  PROVE  DgramInv'
<1> DEFINE m == Len(pendingSocks) + 1
<1>1. /\ DgramTypes /\ MaxFd \in Nat /\ sent' \in Nat /\ sent' >= sent /\ sent \in Nat /\ opened \in Nat
      /\ ~ bound[s] /\ opened < MaxFd /\ opened' = opened + 1 /\ fd' = [fd EXCEPT ![s] = opened + 1]
      /\ bound' = [bound EXCEPT ![s] = TRUE]
      /\ pendingSocks' = Append(pendingSocks, s)
      /\ polled' = (polled \/ pendingSocks = <<>>)
  BY MaxFdNat DEF Bound, register, DgramInv, DgramTypes
<1>2. /\ Append(pendingSocks, s) \in Seq(Socks) /\ Append(pendingSocks, s) # <<>>
      /\ DOMAIN Append(pendingSocks, s) = DOMAIN pendingSocks \cup {m} /\ m \notin DOMAIN pendingSocks
      /\ \A k \in DOMAIN pendingSocks : Append(pendingSocks, s)[k] = pendingSocks[k] /\ pendingSocks[k] \in Socks
      /\ Append(pendingSocks, s)[m] = s
      /\ Len(Append(pendingSocks, s)) = m /\ Len(pendingSocks) \in Nat
  BY <1>1, AppendFacts DEF DgramTypes
<1>3. PICK q : q = Append(pendingSocks, s)
  OBVIOUS
<1>4. /\ pendingSocks' \in Seq(Socks) /\ pendingSocks' # <<>>
      /\ DOMAIN pendingSocks' = DOMAIN pendingSocks \cup {m} /\ m \notin DOMAIN pendingSocks
      /\ \A k \in DOMAIN pendingSocks : pendingSocks'[k] = pendingSocks[k] /\ pendingSocks[k] \in Socks
      /\ pendingSocks'[m] = s /\ Len(pendingSocks') = Len(pendingSocks) + 1 /\ Len(pendingSocks) \in Nat
  BY <1>1, <1>2, <1>3
<1> HIDE DEF m
<1>5. /\ fd' \in [Socks -> 0..MaxFd] /\ fd'[s] = opened + 1 /\ \A t \in Socks : t # s => fd'[t] = fd[t]
      /\ bound' \in [Socks -> BOOLEAN] /\ bound'[s] /\ \A t \in Socks : t # s => bound'[t] = bound[t]
      /\ opened' \in 0..MaxFd
  <2>1. opened + 1 \in 0..MaxFd
    BY <1>1
  <2> QED BY <1>1, <2>1 DEF DgramTypes
<1>6. DgramTypes'
  <2>1. polled' \in BOOLEAN
    BY <1>1
  <2> QED BY <1>1, <1>4, <1>5, <2>1 DEF DgramTypes
<1>7. PollInv'
  <2>1. \A k \in DOMAIN pendingSocks : pendingSocks[k] # s
    BY <1>1 DEF DgramInv, PollInv
  <2>2. \A j, k \in DOMAIN pendingSocks' : pendingSocks'[j] = pendingSocks'[k] => j = k
    BY <1>4, <2>1 DEF DgramInv, PollInv
  <2>3. \A k \in DOMAIN pendingSocks' : bound'[pendingSocks'[k]]
    BY <1>4, <1>5, <2>1 DEF DgramInv, PollInv
  <2>4. ASSUME NEW t \in Socks, bound'[t], ~ sockClosed[t] PROVE fd'[t] # 0 /\ \E k \in DOMAIN pendingSocks' : pendingSocks'[k] = t
    <3>1. opened + 1 # 0
      BY <1>1
    <3> QED BY <1>4, <1>5, <2>4, <3>1 DEF DgramInv, PollInv
  <2>5. polled' /\ at <= Len(pendingSocks')
    <3>1. polled \/ pendingSocks = <<>>
      BY DEF DgramInv, PollInv
    <3>2. at <= Len(pendingSocks) /\ at \in Nat
      BY DEF DgramInv, PollInv, DgramTypes
    <3>3. polled' = (polled \/ pendingSocks = <<>>) /\ Len(pendingSocks') = Len(pendingSocks) + 1 /\ Len(pendingSocks) \in Nat
      BY <1>1, <1>4
    <3> DEFINE l == Len(pendingSocks)
           l2 == Len(pendingSocks')
    <3>5. l2 = l + 1 /\ l \in Nat /\ at <= l
      BY <3>2, <3>3
    <3> HIDE DEF l, l2
    <3>6. at <= l2
      BY <3>2, <3>5
    <3> QED BY <3>1, <3>3, <3>6 DEF l2
  <2>6. UNCHANGED <<sockClosed, at>>
    OBVIOUS
  <2> QED BY <1>4, <2>2, <2>3, <2>4, <2>5, <2>6 DEF PollInv
<1>8. OrderInv'
  <2>1. wire[opened + 1] = <<>> /\ got[s] = <<>> /\ DOMAIN <<>> = {}
    <3>1. opened + 1 \in 1..MaxFd /\ opened + 1 > opened
      BY <1>1
    <3>2. DOMAIN <<>> = {}
      OBVIOUS
    <3> QED BY <1>1, <3>1, <3>2 DEF DgramInv, OrderInv
  <2>2. ASSUME NEW t \in Socks
        PROVE  /\ fd'[t] # 0 => bound'[t] /\ fd'[t] <= opened'
               /\ ~ bound'[t] => got[t] = <<>>
               /\ Rising(got[t])
               /\ fd'[t] # 0 => \A i \in DOMAIN got[t] : \A j \in DOMAIN wire[fd'[t]] : got[t][i] < wire[fd'[t]][j]
               /\ \A i \in DOMAIN got[t] : got[t][i] <= sent'
    <3>1. \A i \in DOMAIN got[t] : got[t][i] <= sent'
      <4>1. \A i \in DOMAIN got[t] : got[t][i] <= sent /\ got[t][i] \in Nat
        BY ElementOfSeq, LenProperties DEF DgramInv, DgramTypes, OrderInv
      <4> QED BY <1>1, <4>1
    <3>2. CASE t = s
      BY <1>1, <1>5, <2>1, <3>1, <3>2 DEF Rising
    <3>3. CASE t # s
      <4>1. fd[t] \in Int /\ Rising(got[t])
        BY DEF DgramInv, DgramTypes, OrderInv
      <4> QED BY <1>1, <1>5, <3>1, <3>3, <4>1 DEF DgramInv, OrderInv
    <3> QED BY <3>2, <3>3
  <2>3. ASSUME NEW f \in 1..MaxFd
        PROVE  /\ Rising(wire[f])
               /\ \A i \in DOMAIN wire[f] : wire[f][i] <= sent'
               /\ f > opened' => wire[f] = <<>>
    <3>1. \A i \in DOMAIN wire[f] : wire[f][i] <= sent /\ wire[f][i] \in Nat
      BY ElementOfSeq, LenProperties DEF DgramInv, DgramTypes, OrderInv
    <3>2. f \in Int /\ (f > opened' => f > opened)
      BY <1>1
    <3>3. \A i \in DOMAIN wire[f] : wire[f][i] <= sent'
      BY <1>1, <3>1
    <3> QED BY <3>2, <3>3 DEF DgramInv, OrderInv
  <2> QED BY <2>2, <2>3 DEF DgramInv, OrderInv, Rising
<1> QED BY <1>6, <1>7, <1>8 DEF DgramInv

\* A datagram sent keeps the invariant, whether it arrives or not.
LEMMA SendKeeps ==
  ASSUME DgramInv, NEW s \in Socks, NEW t \in Socks, send(s, t)
  PROVE  DgramInv'
<1>1. /\ DgramTypes /\ sent' = sent + 1 /\ sent \in Nat /\ fd[t] # 0 /\ fd[t] \in 1..MaxFd /\ fd[t] <= opened
      /\ UNCHANGED <<fd, bound, sockClosed, opened, pendingSocks, polled, at, got, late>>
      /\ wire' = [wire EXCEPT ![fd[t]] = Append(@, sent + 1)] \/ wire' = wire
  <2>1. fd[t] # 0 /\ fd[t] \in 0..MaxFd /\ fd[t] <= opened
    BY DEF send, Carry, DgramInv, DgramTypes, OrderInv
  <2>2. fd[t] \in 1..MaxFd
    BY <2>1, MaxFdNat
  <2> QED BY <2>1, <2>2 DEF send, Carry, DgramInv, DgramTypes
<1> DEFINE f == fd[t]
<1>2. /\ Append(wire[f], sent + 1) \in Seq(Nat)
      /\ DOMAIN Append(wire[f], sent + 1) = DOMAIN wire[f] \cup {Len(wire[f]) + 1} /\ Len(wire[f]) \in Nat
      /\ DOMAIN wire[f] = 1..Len(wire[f])
      /\ \A k \in DOMAIN wire[f] : Append(wire[f], sent + 1)[k] = wire[f][k] /\ wire[f][k] \in Nat
      /\ Append(wire[f], sent + 1)[Len(wire[f]) + 1] = sent + 1
  <2>1. wire[f] \in Seq(Nat) /\ sent + 1 \in Nat
    BY <1>1 DEF DgramTypes
  <2> DEFINE w == wire[f]
             e == sent + 1
  <2>2. w \in Seq(Nat) /\ e \in Nat
    BY <2>1
  <2> HIDE DEF w, e
  <2>3. /\ Append(w, e) \in Seq(Nat)
        /\ DOMAIN Append(w, e) = DOMAIN w \cup {Len(w) + 1} /\ Len(w) \in Nat
        /\ DOMAIN w = 1..Len(w)
        /\ \A k \in DOMAIN w : Append(w, e)[k] = w[k] /\ w[k] \in Nat
        /\ Append(w, e)[Len(w) + 1] = e
    BY <2>2, AppendFacts
  <2> QED BY <2>3 DEF w, e
<1>3. \A r \in Socks : \A i \in DOMAIN got[r] : got[r][i] \in Nat /\ got[r][i] <= sent
  <2>1. ASSUME NEW r \in Socks, NEW i \in DOMAIN got[r] PROVE got[r][i] \in Nat
    BY <2>1, ElementOfSeq, LenProperties DEF DgramInv, DgramTypes
  <2> QED BY <2>1 DEF DgramInv, OrderInv
<1>4. \A g \in 1..MaxFd : \A i \in DOMAIN wire[g] : wire[g][i] \in Nat /\ wire[g][i] <= sent
  <2>1. ASSUME NEW g \in 1..MaxFd, NEW i \in DOMAIN wire[g] PROVE wire[g][i] \in Nat
    BY <2>1, ElementOfSeq, LenProperties DEF DgramInv, DgramTypes
  <2> QED BY <2>1 DEF DgramInv, OrderInv
<1>5. /\ wire' \in [1..MaxFd -> Seq(Nat)] /\ \A g \in 1..MaxFd : g # f => wire'[g] = wire[g]
      /\ \/ wire'[f] = wire[f]
         \/ /\ DOMAIN wire'[f] = DOMAIN wire[f] \cup {Len(wire[f]) + 1}
            /\ \A k \in DOMAIN wire[f] : wire'[f][k] = wire[f][k] /\ k < Len(wire[f]) + 1
            /\ wire'[f][Len(wire[f]) + 1] = sent + 1
  <2>1. PICK q : q = Append(wire[f], sent + 1)
    OBVIOUS
  <2>2. \A k \in DOMAIN wire[f] : k < Len(wire[f]) + 1
    BY <1>2
  <2>3. CASE wire' = wire
    BY <1>1, <2>3 DEF DgramTypes
  <2>4. CASE wire' = [wire EXCEPT ![f] = q]
    <3>1. wire'[f] = q /\ wire' \in [1..MaxFd -> Seq(Nat)] /\ \A g \in 1..MaxFd : g # f => wire'[g] = wire[g]
      BY <1>1, <1>2, <2>1, <2>4 DEF DgramTypes
    <3> QED BY <1>2, <2>1, <2>2, <3>1
  <2> QED BY <1>1, <2>1, <2>3, <2>4
<1>6. \A g \in 1..MaxFd : \A i \in DOMAIN wire'[g] : (i \in DOMAIN wire[g] /\ wire'[g][i] = wire[g][i]) \/ (g = f /\ wire'[g][i] = sent + 1)
  BY <1>5
<1>7. DgramTypes' /\ PollInv'
  BY <1>1, <1>5 DEF DgramInv, DgramTypes, PollInv
<1>8. OrderInv'
  <2>1. ASSUME NEW g \in 1..MaxFd
        PROVE  /\ Rising(wire'[g])
               /\ \A i \in DOMAIN wire'[g] : wire'[g][i] <= sent + 1
               /\ g > opened => wire'[g] = <<>>
    <3>1. \A i \in DOMAIN wire'[g] : wire'[g][i] <= sent + 1
      BY <1>1, <1>4, <1>6
    <3>2. g > opened => wire'[g] = <<>>
      <4>1. g > opened => g # f
        BY <1>1 DEF DgramTypes
      <4> QED BY <1>5, <4>1 DEF DgramInv, OrderInv
    <3>3. Rising(wire'[g])
      <4>1. Rising(wire[g])
        BY DEF DgramInv, OrderInv
      <4>2. CASE wire'[g] = wire[g]
        BY <4>1, <4>2
      <4>3. CASE g = f /\ wire'[f] # wire[f]
        <5> DEFINE m == Len(wire[f]) + 1
        <5>1. /\ DOMAIN wire'[f] = DOMAIN wire[f] \cup {m}
              /\ \A k \in DOMAIN wire[f] : wire'[f][k] = wire[f][k] /\ k < m
              /\ wire'[f][m] = sent + 1 /\ m \in Int
          BY <1>2, <1>5, <4>3
        <5> HIDE DEF m, f
        <5>2. \A k \in DOMAIN wire[f] : wire[f][k] < sent + 1 /\ k \in Int
          BY <1>1, <1>2, <1>4, <4>3
        <5>3. ASSUME NEW i \in DOMAIN wire'[f], NEW j \in DOMAIN wire'[f], i < j
              PROVE  wire'[f][i] < wire'[f][j]
          <6>1. i # m
            BY <5>1, <5>2, <5>3
          <6> QED BY <4>1, <4>3, <5>1, <5>2, <5>3, <6>1 DEF Rising
        <5> QED BY <4>3, <5>3 DEF Rising
      <4> QED BY <1>5, <4>2, <4>3
    <3> QED BY <3>1, <3>2, <3>3
  <2>2. ASSUME NEW r \in Socks
        PROVE  /\ fd[r] # 0 => bound[r] /\ fd[r] <= opened
               /\ ~ bound[r] => got[r] = <<>>
               /\ Rising(got[r])
               /\ fd[r] # 0 => \A i \in DOMAIN got[r] : \A j \in DOMAIN wire'[fd[r]] : got[r][i] < wire'[fd[r]][j]
               /\ \A i \in DOMAIN got[r] : got[r][i] <= sent + 1
    <3>1. \A i \in DOMAIN got[r] : got[r][i] <= sent + 1 /\ got[r][i] < sent + 1
      BY <1>1, <1>3
    <3>2. ASSUME fd[r] # 0, NEW i \in DOMAIN got[r], NEW j \in DOMAIN wire'[fd[r]]
          PROVE  got[r][i] < wire'[fd[r]][j]
      <4>1. fd[r] \in 1..MaxFd
        BY <3>2, MaxFdNat DEF DgramInv, DgramTypes
      <4> HIDE DEF f
      <4>2. (j \in DOMAIN wire[fd[r]] /\ wire'[fd[r]][j] = wire[fd[r]][j]) \/ wire'[fd[r]][j] = sent + 1
        BY <1>6, <3>2, <4>1
      <4> QED BY <3>1, <3>2, <4>2 DEF DgramInv, OrderInv
    <3> QED BY <3>1, <3>2 DEF DgramInv, OrderInv
  <2>3. UNCHANGED <<fd, bound, opened, got, late>> /\ sent' = sent + 1
    BY <1>1
  <2> QED BY <2>1, <2>2, <2>3 DEF DgramInv, OrderInv, Rising
<1> QED BY <1>7, <1>8 DEF DgramInv

\* A socket closed keeps the invariant.
LEMMA CloseKeeps ==
  ASSUME DgramInv, NEW s \in Socks, closeSocket(s)
  PROVE  DgramInv'
<1>1. /\ UNCHANGED <<bound, opened, pendingSocks, polled, at, wire, sent, got, late>> /\ DgramTypes
      /\ fd' = [fd EXCEPT ![s] = 0] /\ sockClosed' = [sockClosed EXCEPT ![s] = TRUE] /\ 0 \in 0..MaxFd
  BY MaxFdNat DEF closeSocket, DgramInv
<1>2. /\ fd' \in [Socks -> 0..MaxFd] /\ fd'[s] = 0 /\ \A t \in Socks : t # s => fd'[t] = fd[t] /\ sockClosed'[t] = sockClosed[t]
      /\ sockClosed' \in [Socks -> BOOLEAN] /\ sockClosed'[s]
  BY <1>1 DEF DgramTypes
<1>3. UNCHANGED <<bound, opened, pendingSocks, polled, at, wire, sent, got, late>>
  BY <1>1
<1>4. DgramTypes'
  BY <1>1, <1>2, <1>3 DEF DgramTypes
<1>5. PollInv'
  <2>1. ASSUME NEW t \in Socks, bound[t], ~ sockClosed'[t] PROVE fd'[t] # 0 /\ \E k \in DOMAIN pendingSocks : pendingSocks[k] = t
    <3>1. t # s
      BY <1>2, <2>1
    <3> QED BY <1>2, <2>1, <3>1 DEF DgramInv, PollInv
  <2> QED BY <1>3, <2>1 DEF DgramInv, PollInv
<1>6. OrderInv'
  <2>1. ASSUME NEW t \in Socks
        PROVE  /\ fd'[t] # 0 => fd'[t] = fd[t]
               /\ fd[t] # 0 => bound[t] /\ fd[t] <= opened
               /\ ~ bound[t] => got[t] = <<>>
               /\ Rising(got[t])
               /\ fd[t] # 0 => \A i \in DOMAIN got[t] : \A j \in DOMAIN wire[fd[t]] : got[t][i] < wire[fd[t]][j]
               /\ \A i \in DOMAIN got[t] : got[t][i] <= sent
    BY <1>2 DEF DgramInv, OrderInv
  <2>2. \A t \in Socks : fd'[t] # 0 => /\ bound[t] /\ fd'[t] <= opened
                                       /\ \A i \in DOMAIN got[t] : \A j \in DOMAIN wire[fd'[t]] : got[t][i] < wire[fd'[t]][j]
    BY <2>1
  <2> QED BY <1>3, <2>1, <2>2 DEF DgramInv, OrderInv, Rising
<1> QED BY <1>4, <1>5, <1>6 DEF DgramInv

\* One socket polled, and the callback its message runs, keep the invariant.
LEMMA PollOneKeeps ==
  ASSUME DgramInv, pollOne
  PROVE  DgramInv'
<1> DEFINE s == pendingSocks[at]
<1>1. /\ at \in 1..Len(pendingSocks) /\ at' = at - 1 /\ at' \in Nat /\ Len(pendingSocks) \in Nat
      /\ pendingSocks \in Seq(Socks) /\ DOMAIN pendingSocks = 1..Len(pendingSocks)
      /\ UNCHANGED <<fd, bound, sockClosed, opened, sent>> /\ DgramTypes
  <2>1. at > 0 /\ at \in Nat /\ at <= Len(pendingSocks) /\ pendingSocks \in Seq(Socks) /\ DgramTypes
    BY DEF pollOne, DgramInv, DgramTypes, PollInv
  <2>2. Len(pendingSocks) \in Nat /\ DOMAIN pendingSocks = 1..Len(pendingSocks)
    BY <2>1, LenProperties
  <2>3. UNCHANGED <<fd, bound, sockClosed, opened, sent>> /\ at' = at - 1
    BY DEF pollOne
  <2> QED BY <2>1, <2>2, <2>3
<1>2. s \in Socks /\ pendingSocks # <<>> /\ polled
  <2>1. s \in Socks
    BY <1>1, ElementOfSeq
  <2>2. pendingSocks = <<>> => Len(pendingSocks) = 0
    OBVIOUS
  <2>3. pendingSocks # <<>>
    BY <1>1, <2>2
  <2> QED BY <2>1, <2>3 DEF DgramInv, PollInv
<1> HIDE DEF s
<1>3. polled' = IF at' = 0 /\ pendingSocks' = <<>> THEN FALSE ELSE polled
  BY DEF pollOne, Leaves
<1>4. polled' \in BOOLEAN /\ (pendingSocks' # <<>> => polled') /\ (polled' /\ at' = 0 => pendingSocks' # <<>>)
  BY <1>2, <1>3 DEF DgramInv, DgramTypes
<1>5. CASE Gone(s)
  <2>1. pendingSocks' = RemoveAt(pendingSocks, at) /\ UNCHANGED <<wire, got, late>>
    BY <1>5 DEF pollOne, s
  <2>2. /\ RemoveAt(pendingSocks, at) \in Seq(Socks) /\ Len(RemoveAt(pendingSocks, at)) = Len(pendingSocks) - 1
        /\ DOMAIN RemoveAt(pendingSocks, at) = 1..(Len(pendingSocks) - 1)
        /\ \A k \in DOMAIN RemoveAt(pendingSocks, at) : RemoveAt(pendingSocks, at)[k] = IF k < at THEN pendingSocks[k] ELSE pendingSocks[k + 1]
    BY <1>1, RemoveAtFacts
  <2>3. PICK q : q = RemoveAt(pendingSocks, at)
    OBVIOUS
  <2>4. /\ pendingSocks' \in Seq(Socks) /\ Len(pendingSocks') = Len(pendingSocks) - 1
        /\ DOMAIN pendingSocks' = 1..(Len(pendingSocks) - 1)
        /\ \A k \in DOMAIN pendingSocks' : pendingSocks'[k] = IF k < at THEN pendingSocks[k] ELSE pendingSocks[k + 1]
    BY <2>1, <2>2, <2>3
  <2> DEFINE Was(k) == IF k < at THEN k ELSE k + 1
  <2>5. \A k \in DOMAIN pendingSocks' : Was(k) \in DOMAIN pendingSocks /\ pendingSocks'[k] = pendingSocks[Was(k)]
    BY <1>1, <2>4
  <2>6. \A j, k \in DOMAIN pendingSocks' : Was(j) = Was(k) => j = k
    BY <1>1, <2>4
  <2>7. \A k \in DOMAIN pendingSocks : k # at => \E j \in DOMAIN pendingSocks' : Was(j) = k
    <3>1. SUFFICES ASSUME NEW k \in DOMAIN pendingSocks, k # at PROVE \E j \in DOMAIN pendingSocks' : Was(j) = k
      OBVIOUS
    <3>2. CASE k < at
      <4>1. k \in DOMAIN pendingSocks' /\ Was(k) = k
        BY <1>1, <2>4, <3>1, <3>2
      <4> QED BY <4>1
    <3>3. CASE ~ (k < at)
      <4>1. k - 1 \in DOMAIN pendingSocks' /\ Was(k - 1) = k
        BY <1>1, <2>4, <3>1, <3>3
      <4> QED BY <4>1
    <3> QED BY <3>2, <3>3
  <2> HIDE DEF Was
  <2>8. \A j, k \in DOMAIN pendingSocks' : pendingSocks'[j] = pendingSocks'[k] => j = k
    BY <2>5, <2>6 DEF DgramInv, PollInv
  <2>9. \A k \in DOMAIN pendingSocks' : bound[pendingSocks'[k]]
    BY <2>5 DEF DgramInv, PollInv
  <2>10. ASSUME NEW t \in Socks, bound[t], ~ sockClosed[t] PROVE \E k \in DOMAIN pendingSocks' : pendingSocks'[k] = t
    <3>1. PICK k \in DOMAIN pendingSocks : pendingSocks[k] = t
      BY <2>10 DEF DgramInv, PollInv
    <3>2. t # s
      <4>1. CASE sockClosed[s]
        BY <2>10, <4>1
      <4>2. CASE ~ sockClosed[s]
        <5>1. fd[s] = 0
          BY <1>5, <4>2 DEF Gone
        <5>2. \A r \in Socks : bound[r] /\ ~ sockClosed[r] => fd[r] # 0
          BY DEF DgramInv, PollInv
        <5> QED BY <1>2, <2>10, <5>1, <5>2
      <4> QED BY <4>1, <4>2
    <3>3. k # at
      BY <3>1, <3>2 DEF s
    <3> QED BY <2>5, <2>7, <3>1, <3>3
  <2>11. at' <= Len(pendingSocks')
    BY <1>1, <2>4
  <2>15. \A t \in Socks : bound[t] /\ ~ sockClosed[t] => fd[t] # 0
    BY DEF DgramInv, PollInv
  <2>12. PollInv'
    BY <1>1, <1>4, <2>8, <2>9, <2>10, <2>11, <2>15 DEF PollInv
  <2>13. DgramTypes'
    BY <1>1, <1>4, <2>1, <2>4 DEF DgramTypes
  <2>14. OrderInv'
    BY <1>1, <2>1 DEF DgramInv, OrderInv, Rising
  <2> QED BY <2>12, <2>13, <2>14 DEF DgramInv
<1>6. CASE ~ Gone(s)
  <2>1. pendingSocks' = pendingSocks /\ ~ sockClosed[s] /\ fd[s] # 0
    BY <1>6 DEF pollOne, s, Gone
  <2>2. PollInv'
    <3>1. at' <= Len(pendingSocks)
      BY <1>1
    <3> QED BY <1>1, <1>4, <2>1, <3>1 DEF DgramInv, PollInv
  <2> DEFINE f == fd[s]
             w == wire[f]
  <2>3. f \in 1..MaxFd /\ w \in Seq(Nat) /\ f # 0
    <3>1. f \in 0..MaxFd
      BY <1>1, <1>2 DEF DgramTypes
    <3>2. f \in 1..MaxFd
      BY <2>1, <3>1, MaxFdNat
    <3> QED BY <1>1, <2>1, <3>2 DEF DgramTypes
  <2>4. CASE w = <<>>
    <3>1. UNCHANGED <<wire, got, late>>
      BY <1>6, <2>4 DEF pollOne, s
    <3>2. DgramTypes' /\ OrderInv'
      BY <1>1, <1>4, <2>1, <3>1 DEF DgramInv, DgramTypes, OrderInv, Rising
    <3> QED BY <2>2, <3>2 DEF DgramInv
  <2>5. CASE w # <<>>
    <3>1. /\ wire' = [wire EXCEPT ![f] = Tail(w)] /\ got' = [got EXCEPT ![s] = Append(@, Head(w))]
          /\ late' = (late \/ sockClosed[s])
      BY <1>6, <2>5 DEF pollOne, s
    <3> HIDE DEF w, f
    <3>2. PICK l : l = Tail(w)
      OBVIOUS
    <3>3. PICK h : h = Head(w)
      OBVIOUS
    <3>4. /\ l \in Seq(Nat) /\ DOMAIN w = 1..Len(w) /\ Len(w) \in Nat \ {0} /\ DOMAIN l = 1..(Len(w) - 1)
          /\ \A k \in DOMAIN l : k + 1 \in DOMAIN w /\ l[k] = w[k + 1]
          /\ h = w[1] /\ 1 \in DOMAIN w /\ h \in Nat
      BY <2>3, <2>5, <3>2, <3>3, TailFacts
    <3> DEFINE g == got[s]
               m == Len(g) + 1
    <3>5. g \in Seq(Nat)
      BY <1>1, <1>2 DEF DgramTypes
    <3> HIDE DEF g
    <3>6. PICK g2 : g2 = Append(g, h)
      OBVIOUS
    <3>7. /\ g2 \in Seq(Nat) /\ DOMAIN g2 = DOMAIN g \cup {m} /\ m \notin DOMAIN g
          /\ \A k \in DOMAIN g : g2[k] = g[k] /\ g[k] \in Nat
          /\ g2[m] = h /\ DOMAIN g = 1..Len(g) /\ Len(g) \in Nat
      BY <3>4, <3>5, <3>6, AppendFacts
    <3>8. \A k \in DOMAIN g : k < m
      BY <3>7
    <3>8a. m \in Int
      BY <3>7
    <3> HIDE DEF m
    <3>9. /\ wire' \in [1..MaxFd -> Seq(Nat)] /\ wire'[f] = l /\ \A r \in 1..MaxFd : r # f => wire'[r] = wire[r]
          /\ got' \in [Socks -> Seq(Nat)] /\ got'[s] = g2 /\ \A t \in Socks : t # s => got'[t] = got[t]
      BY <1>1, <1>2, <2>3, <3>1, <3>2, <3>3, <3>4, <3>6, <3>7 DEF DgramTypes, g
    <3>10. DgramTypes'
      BY <1>1, <1>4, <2>1, <3>9 DEF DgramTypes
    <3>11. /\ Rising(w) /\ (\A i \in DOMAIN w : w[i] <= sent) /\ Rising(g) /\ (\A i \in DOMAIN g : g[i] <= sent)
           /\ (\A i \in DOMAIN g : \A j \in DOMAIN w : g[i] < w[j]) /\ bound[s] /\ f <= opened /\ ~ late
           /\ (f > opened => w = <<>>)
      BY <1>2, <2>3 DEF DgramInv, OrderInv, f, g, w
    <3>12. Rising(l) /\ (\A i \in DOMAIN l : l[i] <= sent /\ h < l[i] /\ \E j \in DOMAIN w : l[i] = w[j])
      <4>1. \A i \in DOMAIN l : i \in Int /\ 1 < i + 1
        BY <3>4
      <4>2. ASSUME NEW i \in DOMAIN l, NEW j \in DOMAIN l, i < j PROVE l[i] < l[j]
        <5>1. i + 1 < j + 1
          BY <4>1, <4>2
        <5> QED BY <3>4, <3>11, <4>2, <5>1 DEF Rising
      <4>3. \A i \in DOMAIN l : l[i] <= sent /\ h < l[i] /\ \E j \in DOMAIN w : l[i] = w[j]
        BY <3>4, <3>11, <4>1 DEF Rising
      <4> QED BY <4>2, <4>3 DEF Rising
    <3>13. Rising(g2) /\ (\A i \in DOMAIN g2 : g2[i] <= sent) /\ (\A i \in DOMAIN g2 : \A j \in DOMAIN l : g2[i] < l[j])
      <4>1. \A i \in DOMAIN g : g[i] < h
        BY <3>4, <3>11
      <4>2. ASSUME NEW i \in DOMAIN g2, NEW j \in DOMAIN g2, i < j PROVE g2[i] < g2[j]
        <5>1. i \in DOMAIN g
          BY <3>7, <3>8, <3>8a, <4>2
        <5> QED BY <3>7, <3>11, <4>1, <4>2, <5>1 DEF Rising
      <4>3. \A i \in DOMAIN g2 : g2[i] <= sent
        BY <3>4, <3>7, <3>11
      <4>4. \A i \in DOMAIN g2 : \A j \in DOMAIN l : g2[i] < l[j]
        BY <3>7, <3>11, <3>12
      <4> QED BY <4>2, <4>3, <4>4 DEF Rising
    <3>14. ASSUME NEW t \in Socks
           PROVE  /\ fd[t] # 0 => bound[t] /\ fd[t] <= opened
                  /\ ~ bound[t] => got'[t] = <<>>
                  /\ Rising(got'[t])
                  /\ fd[t] # 0 => \A i \in DOMAIN got'[t] : \A j \in DOMAIN wire'[fd[t]] : got'[t][i] < wire'[fd[t]][j]
                  /\ \A i \in DOMAIN got'[t] : got'[t][i] <= sent
      <4>1. fd[t] # 0 => fd[t] \in 1..MaxFd
        BY <1>1, MaxFdNat DEF DgramTypes
      <4>2. CASE t = s
        BY <2>3, <3>9, <3>11, <3>13, <4>2 DEF f
      <4>3. CASE t # s
        <5>1. got'[t] = got[t]
          BY <3>9, <4>3
        <5>2. ASSUME fd[t] # 0, NEW i \in DOMAIN got[t], NEW j \in DOMAIN wire'[fd[t]] PROVE got[t][i] < wire'[fd[t]][j]
          <6>1. \A k \in DOMAIN wire[fd[t]] : got[t][i] < wire[fd[t]][k]
            BY <5>2 DEF DgramInv, OrderInv
          <6>2. CASE fd[t] = f
            BY <3>9, <3>12, <5>2, <6>1, <6>2 DEF w
          <6>3. CASE fd[t] # f
            BY <3>9, <4>1, <5>2, <6>1, <6>3
          <6> QED BY <6>2, <6>3
        <5> QED BY <5>1, <5>2 DEF DgramInv, OrderInv
      <4> QED BY <4>2, <4>3
    <3>15. ASSUME NEW r \in 1..MaxFd
           PROVE  /\ Rising(wire'[r])
                  /\ \A i \in DOMAIN wire'[r] : wire'[r][i] <= sent
                  /\ r > opened => wire'[r] = <<>>
      <4>1. CASE r = f
        <5>1. ~ (f > opened)
          BY <3>11, <2>5
        <5> QED BY <3>9, <3>12, <4>1, <5>1
      <4>2. CASE r # f
        BY <3>9, <4>2 DEF DgramInv, OrderInv
      <4> QED BY <4>1, <4>2
    <3>16. ~ late'
      BY <2>1, <3>1, <3>11
    <3>17. UNCHANGED <<fd, bound, opened, sent>>
      BY <1>1
    <3>18. OrderInv'
      BY <3>14, <3>15, <3>16, <3>17 DEF OrderInv, Rising
    <3> QED BY <2>2, <3>10, <3>18 DEF DgramInv
  <2> QED BY <2>4, <2>5
<1> QED BY <1>5, <1>6

\* One step keeps the invariant of the sockets.
LEMMA DgramSteps ==
  ASSUME DgramInv, [DgramNext]_dgramVars
  PROVE  DgramInv'
<1>1. ASSUME NEW s \in Socks, bind(s) PROVE DgramInv'
  BY <1>1, BoundKeeps DEF bind
<1>2. ASSUME NEW s \in Socks, sendBinds(s) PROVE DgramInv'
  BY <1>2, BoundKeeps DEF sendBinds
<1>3. ASSUME poll PROVE DgramInv'
  <2>1. UNCHANGED <<fd, bound, sockClosed, opened, pendingSocks, polled, wire, sent, got, late>> /\ polled
        /\ pendingSocks # <<>> /\ at' = Len(pendingSocks)
    BY <1>3 DEF poll
  <2>2. Len(pendingSocks) \in Nat
    BY LenProperties DEF DgramInv, DgramTypes
  <2>3. DgramTypes' /\ OrderInv'
    BY <2>1, <2>2 DEF DgramInv, DgramTypes, OrderInv, Rising
  <2>4. PollInv'
    BY <2>1, <2>2 DEF DgramInv, PollInv
  <2> QED BY <2>3, <2>4 DEF DgramInv
<1>4. ASSUME UNCHANGED dgramVars PROVE DgramInv'
  BY <1>4 DEF dgramVars, DgramInv, DgramTypes, PollInv, OrderInv, Rising
<1> QED BY <1>1, <1>2, <1>3, <1>4, SendKeeps, CloseKeeps, PollOneKeeps DEF DgramNext

\* The loop polls what is open, and messages come in order: consequences of the invariant.
LEMMA DgramKeepsOrder == DgramInv => OpenArePolled /\ IdleUnregisters /\ MessagesInOrder
<1> SUFFICES ASSUME DgramInv PROVE OpenArePolled /\ IdleUnregisters /\ MessagesInOrder
  OBVIOUS
<1>1. ASSUME NEW s \in Socks, fd[s] # 0, ~ sockClosed[s]
      PROVE  Cardinality({k \in DOMAIN pendingSocks : pendingSocks[k] = s}) = 1
  <2>1. bound[s]
    BY <1>1 DEF DgramInv, OrderInv
  <2>2. PICK k \in DOMAIN pendingSocks : pendingSocks[k] = s
    BY <1>1, <2>1 DEF DgramInv, PollInv
  <2>3. {j \in DOMAIN pendingSocks : pendingSocks[j] = s} = {k}
    BY <2>2 DEF DgramInv, PollInv
  <2> QED BY <2>3, FS_Singleton
<1>2. OpenArePolled
  BY <1>1 DEF OpenArePolled, DgramInv, PollInv
<1>3. IdleUnregisters
  BY DEF IdleUnregisters, DgramInv, DgramTypes, PollInv
<1>4. MessagesInOrder
  BY DEF MessagesInOrder, DgramInv, OrderInv, Rising
<1> QED BY <1>2, <1>3, <1>4

-----------------------------------------------------------------------------
(* Child processes and clusters (Children) *)

Ended == {"exited", "killed", "failed"}
KidsOf(p) == {c \in 1..started : parent[c] = p}

ChildTypes ==
  /\ started \in Procs
  /\ depth \in [Procs -> Nat] /\ parent \in [Procs -> Nat] /\ spawnCount \in [Procs -> Nat]
  /\ os \in [Procs -> {"unborn", "running"} \cup Ended]
  /\ told \in [Procs -> BOOLEAN] /\ signalCode \in [Procs -> BOOLEAN]
  /\ DOMAIN events = Procs /\ killed \in [Procs -> {"no", "named", "numbered"}]
  /\ workers \subseteq Procs /\ wstate \in [Procs -> {"none", "online", "dead", "disconnected"}]
  /\ clusterExits \in Seq(Procs)

\* Who started whom, how deep and how often.
TreeInv ==
  /\ \A c \in Procs : os[c] = "unborn" <=> c > started
  /\ depth[1] = 0 /\ parent[1] = 0
  /\ \A c \in 2..started : parent[c] \in 1..(c - 1) /\ depth[c] = depth[parent[c]] + 1 /\ depth[c] <= MaxDepth
  /\ \A p \in Procs : spawnCount[p] <= MaxSpawns /\ spawnCount[p] = Cardinality(KidsOf(p))

\* What has been said of a child.
StoryOf(o, t, k, s, w, e) ==
  /\ t => o \in Ended
  /\ o = "unborn" => k = "no" /\ w = "none"
  /\ o = "killed" => k # "no"
  /\ k = "named" /\ o # "failed" => s
  /\ \/ e = <<>>
     \/ t /\ o = "failed" /\ e = <<"error">>
     \/ /\ t /\ o # "failed"
        /\ \E x \in {"exitSignal", "exitCode"} :
              /\ e = <<"data", "end", x, "close">>
              /\ o = "killed" /\ k = "named" => x = "exitSignal"
StoryInv(c) == StoryOf(os[c], told[c], killed[c], signalCode[c], wstate[c], events[c])

WorkInv ==
  /\ \A c \in workers : wstate[c] # "none" /\ (events[c] = <<>> \/ os[c] = "failed")
  /\ \A i, j \in DOMAIN clusterExits : clusterExits[i] = clusterExits[j] => i = j
  /\ \A k \in DOMAIN clusterExits : events[clusterExits[k]] # <<>>
  /\ \A c \in Procs : wstate[c] # "none" => (c \in workers <=> \A k \in DOMAIN clusterExits : clusterExits[k] # c)

ChildInv == ChildTypes /\ TreeInv /\ (\A c \in Procs : StoryInv(c)) /\ WorkInv

\* One process, with no child.
LEMMA ChildStarts == ChildInit => ChildInv
<1> SUFFICES ASSUME ChildInit PROVE ChildInv
  OBVIOUS
<1> USE DEF ChildInit
<1>1. 1 \in Procs /\ started = 1 /\ Procs \subseteq Nat /\ \A c \in Procs : c >= 1
  BY ChildrenAssumption DEF Procs
<1>2. clusterExits \in Seq(Procs) /\ DOMAIN clusterExits = {}
  OBVIOUS
<1>3. ChildTypes
  <2>1. os \in [Procs -> {"unborn", "running"} \cup Ended]
    BY DEF Ended
  <2>2. killed \in [Procs -> {"no", "named", "numbered"}] /\ wstate \in [Procs -> {"none", "online", "dead", "disconnected"}]
    OBVIOUS
  <2> QED BY <1>1, <1>2, <2>1, <2>2 DEF ChildTypes
<1>4. TreeInv
  <2>1. \A c \in Procs : os[c] = "unborn" <=> c > 1
    BY <1>1
  <2>2. ASSUME NEW p \in Procs PROVE spawnCount[p] <= MaxSpawns /\ spawnCount[p] = Cardinality(KidsOf(p))
    <3>1. \A c \in 1..1 : c \in Procs /\ parent[c] # p
      BY <1>1
    <3>2. KidsOf(p) = {}
      BY <1>1, <3>1 DEF KidsOf
    <3>3. Cardinality(KidsOf(p)) = 0
      BY <3>2, FS_EmptySet
    <3> QED BY <3>3, ChildrenAssumption
  <2>3. \A c \in 2..1 : FALSE
    OBVIOUS
  <2> QED BY <1>1, <2>1, <2>2, <2>3 DEF TreeInv
<1>5. ASSUME NEW c \in Procs PROVE StoryInv(c)
  BY DEF StoryInv, StoryOf
<1>6. WorkInv
  BY <1>2 DEF WorkInv
<1> QED BY <1>3, <1>4, <1>5, <1>6 DEF ChildInv

\* A process started, as a child or as a worker, keeps the invariant.
LEMMA SpawnKeeps ==
  ASSUME ChildInv, NEW p \in Procs, NEW c \in Procs, Spawned(p, c),
         UNCHANGED <<told, signalCode, events, killed, clusterExits>>,
         \/ UNCHANGED <<workers, wstate>>
         \/ workers' = workers \cup {c} /\ wstate' = [wstate EXCEPT ![c] = "online"]
  PROVE  ChildInv'
<1>1. PICK up \in {"running", "failed"} : os' = [os EXCEPT ![c] = up]
  BY DEF Spawned
<1>2. /\ ChildTypes /\ TreeInv /\ Procs \subseteq Nat /\ started \in Nat /\ 1 \in Procs /\ started >= 1
      /\ c = started + 1 /\ started' = started + 1 /\ os[p] = "running"
      /\ depth[p] < MaxDepth /\ spawnCount[p] + 1 <= MaxSpawns
      /\ \A q \in Procs : depth[q] \in Nat /\ spawnCount[q] \in Nat /\ (q <= started \/ q = c \/ q > c)
  <2>1. ~ (depth[p] >= MaxDepth) /\ ~ (spawnCount[p] + 1 > MaxSpawns)
    BY DEF Spawned, RefusedByDepth
  <2>2. ChildTypes /\ TreeInv /\ started \in Procs
    BY DEF ChildInv, ChildTypes
  <2>3. Procs \subseteq Nat /\ 1 \in Procs /\ started >= 1 /\ started \in Nat
    BY <2>2, ChildrenAssumption DEF Procs
  <2>4. depth[p] \in Nat /\ spawnCount[p] \in Nat /\ MaxDepth \in Nat /\ MaxSpawns \in Nat
    BY <2>2, ChildrenAssumption DEF ChildTypes
  <2>5. c = started + 1 /\ started' = started + 1 /\ os[p] = "running"
    BY DEF Spawned
  <2>6. \A q \in Procs : depth[q] \in Nat /\ spawnCount[q] \in Nat
    BY <2>2 DEF ChildTypes
  <2>7. \A q \in Procs : q <= started \/ q = c \/ q > c
    BY <2>3, <2>5
  <2> QED BY <2>1, <2>2, <2>3, <2>4, <2>5, <2>6, <2>7
<1>3. p <= started /\ p # c /\ os[c] = "unborn"
  <2>1. ~ (p > started) /\ p \in Nat /\ c > started
    BY <1>2 DEF TreeInv
  <2> QED BY <1>2, <2>1 DEF TreeInv
<1>31. 1..started \subseteq Procs /\ (\A q \in 1..started : q # c /\ q # started + 1) /\ 2..started \subseteq 1..started
  <2>1. started \in 1..MaxProcesses /\ MaxProcesses \in Nat
    BY <1>2, ChildrenAssumption DEF ChildTypes, Procs
  <2> QED BY <1>2, <2>1 DEF Procs
<1>4. /\ depth' = [depth EXCEPT ![c] = depth[p] + 1] /\ parent' = [parent EXCEPT ![c] = p]
      /\ spawnCount' = [spawnCount EXCEPT ![p] = @ + 1]
  BY DEF Spawned, ChildDepth
<1>5. /\ os'[c] = up /\ (\A q \in Procs : q # c => os'[q] = os[q]) /\ os' \in [Procs -> {"unborn", "running"} \cup Ended]
      /\ depth'[c] = depth[p] + 1 /\ (\A q \in Procs : q # c => depth'[q] = depth[q]) /\ depth' \in [Procs -> Nat]
      /\ parent'[c] = p /\ (\A q \in Procs : q # c => parent'[q] = parent[q]) /\ parent' \in [Procs -> Nat]
      /\ spawnCount'[p] = spawnCount[p] + 1 /\ (\A q \in Procs : q # p => spawnCount'[q] = spawnCount[q])
      /\ spawnCount' \in [Procs -> Nat]
  <2>1. os'[c] = up /\ (\A q \in Procs : q # c => os'[q] = os[q]) /\ os' \in [Procs -> {"unborn", "running"} \cup Ended]
    BY <1>1, <1>2 DEF ChildTypes, Ended
  <2>2. depth[p] + 1 \in Nat /\ spawnCount[p] + 1 \in Nat /\ p \in Nat
    BY <1>2
  <2> QED BY <1>2, <1>4, <2>1, <2>2 DEF ChildTypes
<1>6. /\ workers' \subseteq Procs /\ wstate' \in [Procs -> {"none", "online", "dead", "disconnected"}]
      /\ \A q \in Procs : q # c => wstate'[q] = wstate[q] /\ (q \in workers' <=> q \in workers)
      /\ (c \in workers' /\ wstate'[c] # "none") \/ (wstate'[c] = wstate[c] /\ (c \in workers' <=> c \in workers))
  BY <1>2 DEF ChildTypes
<1>7. ChildTypes'
  <2>1. UNCHANGED <<told, signalCode, events, killed, clusterExits>>
    OBVIOUS
  <2>2. started' \in Procs
    BY <1>2
  <2>3. /\ told \in [Procs -> BOOLEAN] /\ signalCode \in [Procs -> BOOLEAN] /\ DOMAIN events = Procs
        /\ killed \in [Procs -> {"no", "named", "numbered"}] /\ clusterExits \in Seq(Procs)
    BY <1>2 DEF ChildTypes
  <2>4. /\ told' \in [Procs -> BOOLEAN] /\ signalCode' \in [Procs -> BOOLEAN] /\ DOMAIN events' = Procs
        /\ killed' \in [Procs -> {"no", "named", "numbered"}] /\ clusterExits' \in Seq(Procs)
    BY <2>1, <2>3
  <2> QED BY <1>5, <1>6, <2>2, <2>4 DEF ChildTypes
<1>8. TreeInv'
  <2>1. ASSUME NEW q \in Procs PROVE os'[q] = "unborn" <=> q > started'
    <3>1. CASE q = c
      BY <1>1, <1>2, <1>5, <3>1
    <3>2. CASE q # c
      <4>1. q > started <=> q > started + 1
        BY <1>2, <3>2
      <4> QED BY <1>2, <1>5, <3>2, <4>1 DEF TreeInv
    <3> QED BY <3>1, <3>2
  <2>2. depth'[1] = 0 /\ parent'[1] = 0
    <3>1. 1 # c
      BY <1>2
    <3> QED BY <1>2, <1>5, <3>1 DEF TreeInv
  <2>3. ASSUME NEW q \in 2..started'
        PROVE  parent'[q] \in 1..(q - 1) /\ depth'[q] = depth'[parent'[q]] + 1 /\ depth'[q] <= MaxDepth
    <3>1. CASE q = c
      <4>1. p \in 1..(c - 1)
        BY <1>2, <1>3, ChildrenAssumption DEF Procs
      <4>2. depth[p] + 1 <= MaxDepth
        BY <1>2, ChildrenAssumption
      <4> QED BY <1>3, <1>5, <3>1, <4>1, <4>2
    <3>2. CASE q # c
      <4>0. q \in 2..(started + 1) /\ q # started + 1
        BY <1>2, <3>2
      <4>1. q \in 2..started /\ q \in Procs
        BY <1>2, <1>31, <4>0
      <4>2. parent[q] \in 1..(q - 1) /\ depth[q] = depth[parent[q]] + 1 /\ depth[q] <= MaxDepth
        BY <1>2, <4>1 DEF TreeInv
      <4>3. parent[q] \in Procs /\ parent[q] # c
        <5>1. parent[q] \in 1..started
          BY <1>2, <4>1, <4>2
        <5> QED BY <1>31, <5>1
      <4> QED BY <1>5, <3>2, <4>1, <4>2, <4>3
    <3> QED BY <3>1, <3>2
  <2>4. ASSUME NEW q \in Procs PROVE spawnCount'[q] <= MaxSpawns /\ spawnCount'[q] = Cardinality(KidsOf(q)')
    <3>1. spawnCount[q] <= MaxSpawns /\ spawnCount[q] = Cardinality(KidsOf(q)) /\ IsFiniteSet(KidsOf(q)) /\ c \notin KidsOf(q)
      <4>0. IsFiniteSet(1..started)
        <5>1. started \in Int /\ 1 \in Int
          BY <1>2
        <5> QED BY <5>1, FS_Interval
      <4>1. KidsOf(q) \subseteq 1..started /\ IsFiniteSet(1..started)
        BY <4>0 DEF KidsOf
      <4>2. IsFiniteSet(KidsOf(q))
        BY <4>1, FS_Subset
      <4>3. c \notin 1..started
        BY <1>2
      <4> QED BY <1>2, <4>1, <4>2, <4>3 DEF TreeInv
    <3>2. KidsOf(q)' = IF q = p THEN KidsOf(q) \cup {c} ELSE KidsOf(q)
      <4>1. 1..(started + 1) = 1..started \cup {c}
        BY <1>2
      <4>2. 1..started' = 1..started \cup {c} /\ \A k \in 1..started : k \in Procs /\ k # c
        BY <1>2, <1>31, <4>1
      <4> QED BY <1>5, <4>2 DEF KidsOf
    <3>3. Cardinality(KidsOf(q) \cup {c}) = Cardinality(KidsOf(q)) + 1
      BY <3>1, FS_AddElement
    <3> QED BY <1>2, <1>5, <3>1, <3>2, <3>3
  <2> QED BY <2>1, <2>2, <2>3, <2>4 DEF TreeInv
<1>9. StoryInv(c) /\ \A q \in Procs : StoryInv(q)
  BY DEF ChildInv
<1>10. events[c] = <<>> /\ ~ told[c] /\ killed[c] = "no" /\ wstate[c] = "none"
  BY <1>3, <1>9 DEF StoryInv, StoryOf, Ended
<1>11. ASSUME NEW q \in Procs PROVE StoryInv(q)'
  <2>0. UNCHANGED <<told, signalCode, events, killed>>
    OBVIOUS
  <2>1. CASE q = c
    <3>1. os'[c] # "unborn"
      BY <1>5
    <3>2. events'[c] = <<>> /\ ~ told'[c] /\ killed'[c] = "no"
      BY <1>10, <2>0
    <3>3. os'[c] # "killed"
      BY <1>5
    <3> QED BY <2>1, <3>1, <3>2, <3>3 DEF StoryInv, StoryOf
  <2>2. CASE q # c
    <3>1. os'[q] = os[q] /\ wstate'[q] = wstate[q] /\ StoryInv(q)
      BY <1>5, <1>6, <1>9, <2>2
    <3> QED BY <2>0, <3>1 DEF StoryInv
  <2> QED BY <2>1, <2>2
<1>12. WorkInv'
  <2>1. c \notin workers /\ \A k \in DOMAIN clusterExits : clusterExits[k] # c
    BY <1>10 DEF ChildInv, WorkInv
  <2>2. \A q \in workers' : wstate'[q] # "none" /\ (events[q] = <<>> \/ os'[q] = "failed")
    BY <1>5, <1>6, <1>10, <2>1 DEF ChildInv, WorkInv
  <2>3. \A q \in Procs : wstate'[q] # "none" => (q \in workers' <=> \A k \in DOMAIN clusterExits : clusterExits[k] # q)
    BY <1>6, <1>10, <2>1 DEF ChildInv, WorkInv
  <2>4. UNCHANGED <<events, clusterExits>>
    OBVIOUS
  <2> QED BY <2>2, <2>3, <2>4 DEF ChildInv, WorkInv
<1> QED BY <1>7, <1>8, <1>11, <1>12 DEF ChildInv

\* An action that starts no process keeps the tree.
LEMMA TreeKept ==
  ASSUME ChildInv, UNCHANGED <<started, depth, parent, spawnCount>>, \A c \in Procs : os'[c] = "unborn" <=> os[c] = "unborn"
  PROVE  TreeInv'
BY DEF ChildInv, TreeInv, KidsOf

\* kill() and destroy() keep the invariant, before or after the process has ended.
LEMMA KillKeeps ==
  ASSUME ChildInv, NEW c \in Procs, Kill(c),
         UNCHANGED <<started, depth, parent, spawnCount, told, events, workers, clusterExits>>,
         wstate' = wstate \/ (c \in workers /\ wstate' = [wstate EXCEPT ![c] = "dead"])
  PROVE  ChildInv'
<1>1. PICK named \in BOOLEAN :
        /\ killed' = [killed EXCEPT ![c] = IF named /\ @ # "numbered" THEN "named" ELSE "numbered"]
        /\ signalCode' = IF os[c] = "failed" THEN signalCode ELSE [signalCode EXCEPT ![c] = named]
  BY DEF Kill
<1>2. ChildTypes /\ os[c] # "unborn" /\ (os' = os \/ (os[c] = "running" /\ os' = [os EXCEPT ![c] = "killed"]))
  BY DEF Kill, ChildInv
<1>3. /\ \A q \in Procs : q # c => os'[q] = os[q] /\ killed'[q] = killed[q] /\ signalCode'[q] = signalCode[q] /\ wstate'[q] = wstate[q]
      /\ os'[c] = os[c] \/ (os[c] = "running" /\ os'[c] = "killed")
      /\ killed'[c] = IF named /\ killed[c] # "numbered" THEN "named" ELSE "numbered"
      /\ signalCode'[c] = IF os[c] = "failed" THEN signalCode[c] ELSE named
      /\ wstate'[c] # "none" <=> wstate[c] # "none"
  <2>1. c \in workers => wstate[c] # "none"
    BY DEF ChildInv, WorkInv
  <2>2. /\ \A q \in Procs : q # c => wstate'[q] = wstate[q]
        /\ wstate'[c] # "none" <=> wstate[c] # "none"
    BY <1>2, <2>1 DEF ChildTypes
  <2>3. (\A q \in Procs : q # c => os'[q] = os[q]) /\ (os'[c] = os[c] \/ (os[c] = "running" /\ os'[c] = "killed"))
    BY <1>2 DEF ChildTypes
  <2>4. (\A q \in Procs : q # c => signalCode'[q] = signalCode[q]) /\ signalCode'[c] = IF os[c] = "failed" THEN signalCode[c] ELSE named
    BY <1>1, <1>2 DEF ChildTypes
  <2>5. (\A q \in Procs : q # c => killed'[q] = killed[q]) /\ killed'[c] = IF named /\ killed[c] # "numbered" THEN "named" ELSE "numbered"
    BY <1>1, <1>2 DEF ChildTypes
  <2> QED BY <2>2, <2>3, <2>4, <2>5
<1>4. ChildTypes'
  <2>1. /\ os' \in [Procs -> {"unborn", "running"} \cup Ended] /\ signalCode' \in [Procs -> BOOLEAN]
        /\ wstate' \in [Procs -> {"none", "online", "dead", "disconnected"}]
    BY <1>1, <1>2 DEF ChildTypes, Ended
  <2>2. killed' \in [Procs -> {"no", "named", "numbered"}]
    BY <1>1, <1>2 DEF ChildTypes
  <2> QED BY <1>2, <2>1, <2>2 DEF ChildTypes
<1>5. TreeInv'
  <2>1. \A q \in Procs : os'[q] = "unborn" <=> os[q] = "unborn"
    BY <1>3
  <2> QED BY <2>1, TreeKept
<1>6. ASSUME NEW q \in Procs PROVE StoryInv(q)'
  <2>1. StoryInv(q)
    BY DEF ChildInv
  <2>2. CASE q # c
    <3>1. UNCHANGED <<told[q], events[q], os[q], killed[q], signalCode[q], wstate[q]>>
      BY <1>3, <2>2
    <3> QED BY <2>1, <3>1 DEF StoryInv
  <2>3. CASE q = c
    <3>1. (told[c] => os'[c] \in Ended) /\ (os'[c] = "killed" => killed'[c] # "no") /\ os'[c] # "unborn"
      BY <1>2, <1>3, <2>1, <2>3 DEF StoryInv, StoryOf, Ended
    <3>2. killed'[c] = "named" /\ os'[c] # "failed" => signalCode'[c]
      BY <1>3, <2>1, <2>3 DEF StoryInv, StoryOf
    <3>3. CASE events[c] = <<>>
      BY <2>3, <3>1, <3>2, <3>3 DEF StoryInv, StoryOf
    <3>4. CASE told[c] /\ os[c] = "failed" /\ events[c] = <<"error">>
      BY <1>3, <2>3, <3>1, <3>2, <3>4 DEF StoryInv, StoryOf
    <3>5. ASSUME told[c], os[c] # "failed", NEW x \in {"exitSignal", "exitCode"}, events[c] = <<"data", "end", x, "close">>,
                 os[c] = "killed" /\ killed[c] = "named" => x = "exitSignal"
          PROVE  StoryInv(c)'
      <4>1. os[c] # "running"
        BY <2>1, <2>3, <3>5 DEF StoryInv, StoryOf, Ended
      <4>2. os'[c] = "killed" /\ killed'[c] = "named" => os[c] = "killed" /\ killed[c] = "named"
        <5>1. os[c] = "killed" => killed[c] \in {"named", "numbered"}
          BY <1>2, <2>1, <2>3 DEF StoryInv, StoryOf, ChildTypes
        <5> QED BY <1>3, <4>1, <5>1
      <4>3. os'[c] # "failed" /\ told'[c] /\ events'[c] = <<"data", "end", x, "close">>
        BY <1>3, <3>5
      <4> QED BY <3>1, <3>2, <3>5, <4>2, <4>3 DEF StoryInv, StoryOf
    <3> QED BY <2>1, <2>3, <3>3, <3>4, <3>5 DEF StoryInv, StoryOf
  <2> QED BY <2>2, <2>3
<1>7. WorkInv'
  <2>1. \A q \in workers : wstate'[q] # "none" /\ (events[q] = <<>> \/ os'[q] = "failed")
    BY <1>2, <1>3 DEF ChildInv, ChildTypes, WorkInv
  <2>2. \A q \in Procs : wstate'[q] # "none" <=> wstate[q] # "none"
    BY <1>3
  <2> QED BY <2>1, <2>2 DEF ChildInv, WorkInv
<1> QED BY <1>4, <1>5, <1>6, <1>7 DEF ChildInv

\* What an action leaves alone stays as it was: the story of a child is a function of these.
LEMMA StoryKept ==
  ASSUME ChildInv, NEW c \in Procs, UNCHANGED <<told[c], events[c], os[c], killed[c], signalCode[c], wstate[c]>>
  PROVE  StoryInv(c)'
<1>1. StoryInv(c)
  BY DEF ChildInv
<1> QED BY <1>1 DEF StoryInv

\* A process that ends by itself keeps the invariant.
LEMMA ExitKeeps ==
  ASSUME ChildInv, NEW c \in Procs, Exits(c)
  PROVE  ChildInv'
<1>1. /\ ChildTypes /\ os[c] = "running" /\ os' = [os EXCEPT ![c] = "exited"]
      /\ UNCHANGED <<started, depth, parent, spawnCount, told, signalCode, events, killed, workers, wstate, clusterExits>>
  BY DEF Exits, ChildInv
<1>2. os'[c] = "exited" /\ \A q \in Procs : q # c => os'[q] = os[q]
  BY <1>1 DEF ChildTypes
<1>3. ChildTypes'
  <2>1. os' \in [Procs -> {"unborn", "running"} \cup Ended]
    BY <1>1 DEF ChildTypes, Ended
  <2> QED BY <1>1, <2>1 DEF ChildTypes
<1>4. TreeInv'
  <2>1. \A q \in Procs : os'[q] = "unborn" <=> os[q] = "unborn"
    BY <1>1, <1>2
  <2> QED BY <1>1, <2>1, TreeKept
<1>5. ASSUME NEW q \in Procs PROVE StoryInv(q)'
  <2>1. CASE q # c
    BY <1>1, <1>2, <2>1, StoryKept
  <2>2. CASE q = c
    <3>1. StoryInv(c)
      BY DEF ChildInv
    <3>2. ~ told[c] /\ events[c] = <<>> /\ (killed[c] = "named" => signalCode[c])
      BY <1>1, <3>1 DEF StoryInv, StoryOf, Ended
    <3>3. UNCHANGED <<told[c], events[c], killed[c], signalCode[c]>>
      BY <1>1
    <3> QED BY <1>2, <2>2, <3>2, <3>3 DEF StoryInv, StoryOf
  <2> QED BY <2>1, <2>2
<1>6. WorkInv'
  <2>1. \A q \in workers : wstate[q] # "none" /\ (events[q] = <<>> \/ os'[q] = "failed")
    BY <1>1, <1>2 DEF ChildInv, ChildTypes, WorkInv
  <2> QED BY <1>1, <2>1 DEF ChildInv, WorkInv
<1> QED BY <1>3, <1>4, <1>5, <1>6 DEF ChildInv

\* A worker thread that reports an end keeps the invariant.
LEMMA ReportKeeps ==
  ASSUME ChildInv, NEW c \in Procs, Reports(c)
  PROVE  ChildInv'
<1>1. /\ ChildTypes /\ os[c] \in Ended /\ ~ told[c] /\ told' = [told EXCEPT ![c] = TRUE]
      /\ UNCHANGED <<started, depth, parent, spawnCount, os, signalCode, events, killed, workers, wstate, clusterExits>>
  BY DEF Reports, ChildInv, Ended
<1>2. told'[c] /\ \A q \in Procs : q # c => told'[q] = told[q]
  BY <1>1 DEF ChildTypes
<1>3. ChildTypes'
  <2>1. told' \in [Procs -> BOOLEAN]
    BY <1>1 DEF ChildTypes
  <2> QED BY <1>1, <2>1 DEF ChildTypes
<1>4. TreeInv'
  BY <1>1, TreeKept
<1>5. ASSUME NEW q \in Procs PROVE StoryInv(q)'
  <2>1. CASE q # c
    BY <1>1, <1>2, <2>1, StoryKept
  <2>2. CASE q = c
    <3>1. StoryInv(c)
      BY DEF ChildInv
    <3>2. /\ events[c] = <<>> /\ (killed[c] = "named" /\ os[c] # "failed" => signalCode[c])
          /\ os[c] # "unborn" /\ (os[c] = "killed" => killed[c] # "no")
      BY <1>1, <3>1 DEF StoryInv, StoryOf, Ended
    <3>3. UNCHANGED <<os[c], events[c], killed[c], signalCode[c]>>
      BY <1>1
    <3> QED BY <1>1, <2>2, <3>2, <3>3 DEF StoryInv, StoryOf
  <2> QED BY <2>1, <2>2
<1>6. WorkInv'
  BY <1>1 DEF ChildInv, WorkInv
<1> QED BY <1>3, <1>4, <1>5, <1>6 DEF ChildInv

\* A worker that disconnects keeps the invariant.
LEMMA DisconnectKeeps ==
  ASSUME ChildInv, NEW c \in Procs, disconnect(c)
  PROVE  ChildInv'
<1>1. /\ ChildTypes /\ wstate[c] = "online" /\ wstate' = [wstate EXCEPT ![c] = "disconnected"]
      /\ UNCHANGED <<started, depth, parent, spawnCount, os, told, signalCode, events, killed, workers, clusterExits>>
  BY DEF disconnect, ChildInv
<1>2. wstate'[c] = "disconnected" /\ \A q \in Procs : (q # c => wstate'[q] = wstate[q]) /\ (wstate'[q] # "none" <=> wstate[q] # "none")
  BY <1>1 DEF ChildTypes
<1>3. ChildTypes'
  <2>1. wstate' \in [Procs -> {"none", "online", "dead", "disconnected"}]
    BY <1>1 DEF ChildTypes
  <2> QED BY <1>1, <2>1 DEF ChildTypes
<1>4. TreeInv'
  BY <1>1, TreeKept
<1>5. ASSUME NEW q \in Procs PROVE StoryInv(q)'
  <2>1. CASE q # c
    BY <1>1, <1>2, <2>1, StoryKept
  <2>2. CASE q = c
    <3>1. StoryInv(c) /\ os[c] # "unborn"
      BY <1>1 DEF ChildInv, StoryInv, StoryOf
    <3>2. UNCHANGED <<told[c], os[c], events[c], killed[c], signalCode[c]>>
      BY <1>1
    <3>3. StoryOf(os[c], told[c], killed[c], signalCode[c], wstate[c], events[c])
          => StoryOf(os[c], told[c], killed[c], signalCode[c], wstate'[c], events[c])
      BY <3>1 DEF StoryOf
    <3> QED BY <2>2, <3>1, <3>2, <3>3 DEF StoryInv
  <2> QED BY <2>1, <2>2
<1>6. WorkInv'
  BY <1>1, <1>2 DEF ChildInv, ChildTypes, WorkInv
<1> QED BY <1>3, <1>4, <1>5, <1>6 DEF ChildInv

\* The events a child's job emits.
LEMMA StoryFacts ==
  ASSUME NEW c \in Procs
  PROVE  /\ Story(c) # <<>>
         /\ os[c] = "failed" => Story(c) = <<"error">>
         /\ os[c] # "failed" => \E x \in {"exitSignal", "exitCode"} :
                                  Story(c) = <<"data", "end", x, "close">> /\ (signalCode[c] => x = "exitSignal")
<1> DEFINE x == IF signalCode[c] THEN "exitSignal" ELSE "exitCode"
<1>1. CASE os[c] = "failed"
  BY <1>1 DEF Story
<1>2. CASE os[c] # "failed"
  <2>1. Story(c) = <<"data", "end", x, "close">>
    BY <1>2 DEF Story
  <2>2. x \in {"exitSignal", "exitCode"} /\ (signalCode[c] => x = "exitSignal")
    OBVIOUS
  <2>3. \A y : <<"data", "end", y, "close">> # <<>>
    OBVIOUS
  <2> HIDE DEF x
  <2> QED BY <1>2, <2>1, <2>2, <2>3
<1> QED BY <1>1, <1>2

\* The job that tells a child's story keeps the invariant.
LEMMA SettleKeeps ==
  ASSUME ChildInv, NEW c \in Procs, ChildSettled(c)
  PROVE  ChildInv'
<1>1. /\ ChildTypes /\ WorkInv /\ told[c] /\ events[c] = <<>>
      /\ UNCHANGED <<started, depth, parent, spawnCount, os, told, signalCode, killed>>
      /\ IF wstate[c] # "none" /\ os[c] # "failed" THEN Worker(c) ELSE UNCHANGED <<workers, wstate, clusterExits>>
  BY DEF ChildSettled, ChildInv, Exited
<1>2. DOMAIN events' = Procs /\ events'[c] = Story(c) /\ \A q \in Procs : q # c => events'[q] = events[q]
  BY <1>1 DEF ChildSettled, ChildTypes
<1>3. /\ \A q \in Procs : q # c => wstate'[q] = wstate[q] /\ (q \in workers' <=> q \in workers)
      /\ \A q \in Procs : wstate'[q] # "none" <=> wstate[q] # "none"
      /\ workers' \subseteq workers /\ wstate' \in [Procs -> {"none", "online", "dead", "disconnected"}]
  <2>1. CASE UNCHANGED <<workers, wstate>>
    BY <1>1, <2>1 DEF ChildTypes
  <2>2. CASE Worker(c) /\ wstate[c] # "none"
    BY <1>1, <2>2 DEF ChildTypes, Worker
  <2> QED BY <1>1, <2>1, <2>2
<1>4. c \in Procs /\ clusterExits \in Seq(Procs) /\ DOMAIN clusterExits = 1..Len(clusterExits)
      /\ \A k \in DOMAIN clusterExits : clusterExits[k] \in Procs /\ clusterExits[k] # c /\ events[clusterExits[k]] # <<>>
  <2>1. clusterExits \in Seq(Procs)
    BY <1>1 DEF ChildTypes
  <2>2. \A k \in DOMAIN clusterExits : events[clusterExits[k]] # <<>>
    BY <1>1 DEF WorkInv
  <2> QED BY <1>1, <2>1, <2>2, LenProperties, ElementOfSeq
<1>5. ChildTypes'
  <2>1. clusterExits' \in Seq(Procs)
    BY <1>1, <1>4, AppendFacts DEF Worker
  <2> QED BY <1>1, <1>2, <1>3, <2>1 DEF ChildTypes
<1>6. TreeInv'
  BY <1>1, TreeKept
<1>7. ASSUME NEW q \in Procs PROVE StoryInv(q)'
  <2>1. CASE q # c
    BY <1>1, <1>2, <1>3, <2>1, StoryKept
  <2>2. CASE q = c
    <3>1. StoryInv(c)
      BY DEF ChildInv
    <3>2. UNCHANGED <<told[c], os[c], killed[c], signalCode[c]>> /\ (wstate'[c] = "none" <=> wstate[c] = "none")
      BY <1>1, <1>3
    <3>3. StoryOf(os[c], told[c], killed[c], signalCode[c], wstate'[c], events'[c])
      <4>1. CASE os[c] = "failed"
        <5>1. events'[c] = <<"error">>
          BY <1>2, <4>1, StoryFacts
        <5> QED BY <1>1, <3>1, <3>2, <4>1, <5>1 DEF StoryInv, StoryOf
      <4>2. CASE os[c] # "failed"
        <5>1. PICK x \in {"exitSignal", "exitCode"} : events'[c] = <<"data", "end", x, "close">> /\ (signalCode[c] => x = "exitSignal")
          BY <1>2, <4>2, StoryFacts
        <5>2. os[c] = "killed" /\ killed[c] = "named" => x = "exitSignal"
          BY <3>1, <4>2, <5>1 DEF StoryInv, StoryOf
        <5> QED BY <1>1, <3>1, <3>2, <4>2, <5>1, <5>2 DEF StoryInv, StoryOf
      <4> QED BY <4>1, <4>2
    <3> QED BY <2>2, <3>2, <3>3 DEF StoryInv
  <2> QED BY <2>1, <2>2
<1>8. \A q \in Procs : events[q] # <<>> => events'[q] # <<>>
  BY <1>1, <1>2
<1>9. events'[c] # <<>>
  BY <1>2, StoryFacts
<1>10. WorkInv'
  <2>1. CASE UNCHANGED <<workers, wstate, clusterExits>> /\ (wstate[c] = "none" \/ os[c] = "failed")
    <3>1. c \in workers => os[c] = "failed"
      BY <1>1, <2>1 DEF WorkInv
    <3>2. \A q \in workers : wstate[q] # "none" /\ (events'[q] = <<>> \/ os[q] = "failed")
      BY <1>1, <1>2, <3>1 DEF WorkInv, ChildTypes
    <3>3. \A k \in DOMAIN clusterExits : events'[clusterExits[k]] # <<>>
      BY <1>4, <1>8
    <3> QED BY <1>1, <2>1, <3>2, <3>3 DEF WorkInv
  <2>2. CASE Worker(c)
    <3>1. clusterExits' = Append(clusterExits, c) /\ c \notin workers'
      BY <2>2 DEF Worker
    <3> DEFINE l == Len(clusterExits)
    <3>2. /\ DOMAIN clusterExits' = DOMAIN clusterExits \cup {l + 1} /\ l + 1 \notin DOMAIN clusterExits
          /\ \A k \in DOMAIN clusterExits : clusterExits'[k] = clusterExits[k]
          /\ clusterExits'[l + 1] = c
      BY <1>4, <3>1, AppendFacts
    <3> HIDE DEF l
    <3>3. \A q \in workers' : wstate'[q] # "none" /\ (events'[q] = <<>> \/ os'[q] = "failed")
      BY <1>1, <1>2, <1>3, <3>1 DEF WorkInv, ChildTypes
    <3>4. \A i, j \in DOMAIN clusterExits' : clusterExits'[i] = clusterExits'[j] => i = j
      BY <1>1, <1>4, <3>2 DEF WorkInv
    <3>5. \A k \in DOMAIN clusterExits' : events'[clusterExits'[k]] # <<>>
      BY <1>4, <1>8, <1>9, <3>2
    <3>6. \A q \in Procs : wstate'[q] # "none" => (q \in workers' <=> \A k \in DOMAIN clusterExits' : clusterExits'[k] # q)
      BY <1>1, <1>3, <3>1, <3>2 DEF WorkInv
    <3> QED BY <3>3, <3>4, <3>5, <3>6 DEF WorkInv
  <2> QED BY <1>1, <2>1, <2>2
<1> QED BY <1>5, <1>6, <1>7, <1>10 DEF ChildInv

\* One step of the processes, the worker threads or the program keeps the invariant.
LEMMA ChildSteps ==
  ASSUME ChildInv, [ChildNext]_childVars
  PROVE  ChildInv'
<1>1. CASE UNCHANGED childVars
  <2>1. UNCHANGED <<started, depth, parent, spawnCount, os, told, signalCode, events, killed, workers, wstate, clusterExits>>
    BY <1>1 DEF childVars
  <2>2. ChildTypes' /\ TreeInv' /\ WorkInv'
    BY <2>1 DEF ChildInv, ChildTypes, TreeInv, KidsOf, WorkInv
  <2>3. \A c \in Procs : StoryInv(c)'
    BY <2>1, StoryKept
  <2> QED BY <2>2, <2>3 DEF ChildInv
<1>2. ASSUME NEW c \in Procs, NEW p \in Procs, spawn(p, c) PROVE ChildInv'
  BY <1>2, SpawnKeeps DEF spawn
<1>3. ASSUME NEW c \in Procs, fork(c) PROVE ChildInv'
  <2>1. 1 \in Procs
    BY ChildrenAssumption DEF Procs
  <2> QED BY <1>3, <2>1, SpawnKeeps DEF fork
<1>4. ASSUME NEW c \in Procs, kill(c) \/ destroy(c) PROVE ChildInv'
  BY <1>4, KillKeeps DEF kill, destroy
<1>5. ASSUME NEW c \in Procs, Exits(c) \/ Reports(c) \/ disconnect(c) \/ ChildSettled(c) PROVE ChildInv'
  BY <1>5, ExitKeeps, ReportKeeps, DisconnectKeeps, SettleKeeps
<1> QED BY <1>1, <1>2, <1>3, <1>4, <1>5 DEF ChildNext

\* How far a process is from the first one: the chain of its parents is its depth.
LEMMA ChainIsDepth ==
  ASSUME ChildInv
  PROVE  \A p \in 1..started : Chain[p] = depth[p]
<1> DEFINE D == 1..started
           Link(f, p) == IF p = 1 THEN 0 ELSE 1 + f[parent[p]]
           Walk == [p \in D |-> depth[p]]
<1>1. /\ started \in Nat /\ D \subseteq Nat /\ D \subseteq Procs /\ depth[1] = 0
      /\ \A p \in D : p # 1 => parent[p] \in D /\ parent[p] < p /\ depth[p] = 1 + depth[parent[p]]
      /\ \A p \in D : depth[p] \in Nat
  <2>1. started \in 1..MaxProcesses /\ MaxProcesses \in Nat /\ ChildTypes /\ TreeInv
    BY ChildrenAssumption DEF ChildInv, ChildTypes, Procs
  <2>2. D \subseteq Nat /\ D \subseteq Procs /\ started \in Nat
    BY <2>1 DEF Procs
  <2>3. \A p \in D : depth[p] \in Nat
    BY <2>1, <2>2 DEF ChildTypes
  <2>4. \A p \in D : p # 1 => p \in 2..started
    BY <2>2
  <2>5. ASSUME NEW p \in D, p # 1 PROVE parent[p] \in D /\ parent[p] < p /\ depth[p] = 1 + depth[parent[p]]
    <3>1. parent[p] \in 1..(p - 1) /\ depth[p] = depth[parent[p]] + 1
      BY <2>1, <2>4, <2>5 DEF TreeInv
    <3>2. parent[p] \in D /\ parent[p] < p
      BY <2>2, <3>1
    <3> QED BY <2>3, <3>1, <3>2
  <2> QED BY <2>1, <2>2, <2>3, <2>5 DEF TreeInv
<1>2. Walk = [p \in D |-> Link(Walk, p)]
  <2>1. \A p \in D : Walk[p] = Link(Walk, p)
    BY <1>1
  <2> QED BY <2>1
<1>3. \A f : f = [p \in D |-> Link(f, p)] => \A p \in D : f[p] = depth[p]
  <2> SUFFICES ASSUME NEW f, f = [p \in D |-> Link(f, p)], NEW q \in D, f[q] # depth[q] PROVE FALSE
    OBVIOUS
  <2> DEFINE Bad == {p \in D : f[p] # depth[p]}
  <2>1. PICK deep \in Bad : \A m \in Bad : deep <= m
    <3>1. Bad \subseteq Nat /\ Bad # {}
      BY <1>1
    <3> HIDE DEF Bad
    <3> QED BY <3>1, LeastOf
  <2>2. deep \in D /\ f[deep] = Link(f, deep) /\ f[deep] # depth[deep]
    OBVIOUS
  <2>3. deep # 1
    BY <1>1, <2>2
  <2>4. parent[deep] \in D /\ parent[deep] < deep /\ depth[deep] = 1 + depth[parent[deep]]
    BY <1>1, <2>2, <2>3
  <2>5. parent[deep] \notin Bad
    BY <1>1, <2>1, <2>2, <2>4
  <2>6. f[parent[deep]] = depth[parent[deep]]
    BY <2>4, <2>5
  <2> QED BY <2>2, <2>3, <2>4, <2>6
<1>4. Chain = CHOOSE f : f = [p \in D |-> Link(f, p)]
  BY Zenon DEF Chain
<1> HIDE DEF Walk, D, Link
<1>5. Chain = [p \in D |-> Link(Chain, p)]
  BY <1>2, <1>4
<1>6. \A p \in D : Chain[p] = depth[p]
  BY <1>3, <1>5
<1> QED BY <1>6 DEF D

\* The four rules of processes follow from the invariant.
LEMMA ChildKeepsStory ==
  ASSUME ChildInv
  PROVE  ForkBombStops /\ SpawnsCounted /\ OneStory /\ WorkersAgree
<1>1. ForkBombStops
  <2>1. started \in 1..MaxProcesses /\ MaxProcesses \in Nat /\ TreeInv /\ MaxDepth \in Nat
    BY ChildrenAssumption DEF ChildInv, ChildTypes, Procs
  <2>2. \A p \in 1..started : p = 1 \/ p \in 2..started
    BY <2>1
  <2>3. \A p \in 1..started : depth[p] <= MaxDepth
    BY <2>1, <2>2 DEF TreeInv
  <2> QED BY <2>3, ChainIsDepth DEF ForkBombStops
<1>2. SpawnsCounted
  BY DEF ChildInv, TreeInv, SpawnsCounted, KidsOf
<1>3. OneStory
  <2> SUFFICES ASSUME NEW c \in 2..MaxProcesses, events[c] # <<>>
               PROVE  /\ ("error" \in {events[c][k] : k \in DOMAIN events[c]}) = (os[c] = "failed")
                      /\ os[c] = "failed" => Len(events[c]) = 1
                      /\ os[c] = "killed" /\ killed[c] = "named" => events[c][3] = "exitSignal"
    BY DEF OneStory
  <2>1. c \in Procs
    BY ChildrenAssumption DEF Procs
  <2>2. StoryOf(os[c], told[c], killed[c], signalCode[c], wstate[c], events[c])
    BY <2>1 DEF ChildInv, StoryInv
  <2>3. CASE os[c] = "failed" /\ events[c] = <<"error">>
    <3>1. PICK s : s = events[c]
      OBVIOUS
    <3>2. s = <<"error">> /\ 1 \in DOMAIN s /\ s[1] = "error" /\ Len(s) = 1
      BY <2>3, <3>1
    <3> QED BY <2>3, <3>1, <3>2
  <2>4. ASSUME os[c] # "failed", NEW x \in {"exitSignal", "exitCode"}, events[c] = <<"data", "end", x, "close">>,
               os[c] = "killed" /\ killed[c] = "named" => x = "exitSignal"
        PROVE  /\ ("error" \in {events[c][k] : k \in DOMAIN events[c]}) = (os[c] = "failed")
               /\ os[c] = "killed" /\ killed[c] = "named" => events[c][3] = "exitSignal"
    <3>1. PICK s : s = events[c]
      OBVIOUS
    <3>2. s[3] = x /\ \A k \in DOMAIN s : s[k] # "error"
      BY <2>4, <3>1
    <3>3. "error" \notin {s[k] : k \in DOMAIN s}
      BY <3>2
    <3> QED BY <2>4, <3>1, <3>2, <3>3
  <2> QED BY <2>2, <2>3, <2>4 DEF StoryOf
<1>4. WorkersAgree
  <2>1. WorkInv
    BY DEF ChildInv
  <2>2. \A c \in Procs : (\A k \in DOMAIN clusterExits : clusterExits[k] # c) <=> c \notin {clusterExits[k] : k \in DOMAIN clusterExits}
    OBVIOUS
  <2>3. \A c \in Procs : wstate[c] # "none" => (c \in workers) = (c \notin {clusterExits[k] : k \in DOMAIN clusterExits})
    BY <2>1, <2>2 DEF WorkInv
  <2> QED BY <2>1, <2>3 DEF WorkInv, WorkersAgree
<1> QED BY <1>1, <1>2, <1>3, <1>4

-----------------------------------------------------------------------------
(* The sweep over Node's tests (Sweep) *)

Slots == [state : {"idle", "running", "settled"}, main : {"none", "alive", "ended"},
          exit : {None, "pass", "skip", "fail", "crash", "killed"}, kids : SUBSET Kinds,
          timedOut : BOOLEAN, kill : BOOLEAN]

SweepTypes ==
  /\ round \in {"first", "confirm", "report"}
  /\ list \in Seq(Selected) /\ Len(list) <= Cases /\ nextIndex \in 1..(Len(list) + 1)
  /\ slots \in [Selected -> Slots] /\ runningPgid \subseteq RunningSlots
  /\ DOMAIN rows = Selected /\ DOMAIN confirmed = Selected

\* What a run owes to its state: only a running one has processes left, and one
\* whose process has ended knows how.
RunOf(s) ==
  /\ s.state # "running" => s.main # "alive" /\ s.kids = {}
  /\ s.state = "idle" => s.main = "none"
  /\ s.state = "running" /\ s.main = "ended" => s.exit # None

RunsInv ==
  /\ \A i \in Selected : RunOf(slots[i]) /\ (slots[i].state = "idle" <=> i >= nextIndex)
  /\ Cardinality(RunningSlots) <= Jobs

\* The rows and the confirmed verdicts against the place each pass has come to.
FirstPass ==
  /\ Len(list) = Cases /\ \A i \in Selected : list[i] = i
  /\ \A c \in Selected : (rows[c].verdict # None <=> slots[c].state = "settled") /\ confirmed[c] = None
ConfirmPass ==
  /\ \A i \in DOMAIN list : rows[list[i]].verdict = "timeout"
  /\ \A i, j \in DOMAIN list : list[i] = list[j] => i = j
  /\ \A c \in Late : \E i \in DOMAIN list : list[i] = c
  /\ \A i \in DOMAIN list : confirmed[list[i]] # None <=> slots[i].state = "settled"
  /\ \A c \in Selected : rows[c].verdict # "timeout" => confirmed[c] = None
PassInv ==
  /\ round = "first" => FirstPass
  /\ round # "first" => \A c \in Selected : rows[c].verdict # None
  /\ round = "confirm" => ConfirmPass
  /\ round = "report" => RunningSlots = {} /\ \A c \in Selected : confirmed[c] # None <=> rows[c].verdict = "timeout"
  /\ \A c \in Selected : rows[c].verdict \in {"pass", "skip", "fail", "crash"} => rows[c].exit = rows[c].verdict

SweepInv == SweepTypes /\ RunsInv /\ PassInv

\* A finite set of numbers can be counted upwards.
LEMMA Enumerated ==
  ASSUME NEW top \in Nat
  PROVE  \A S \in SUBSET (1..top) : \E l \in [1..Cardinality(S) -> S] : \A i, j \in DOMAIN l : i < j => l[i] < l[j]
<1> DEFINE Upward(l) == \A i, j \in DOMAIN l : i < j => l[i] < l[j]
           Counted(m) == \A S \in SUBSET (1..m) : \E l \in [1..Cardinality(S) -> S] : Upward(l)
           Bad == {m \in Nat : ~ Counted(m)}
<1>1. SUFFICES ASSUME Bad # {} PROVE FALSE
  OBVIOUS
<1>2. PICK m \in Bad : \A k \in Bad : m <= k
  <2>1. Bad \subseteq Nat
    OBVIOUS
  <2> HIDE DEF Bad
  <2> QED BY <1>1, <2>1, LeastOf
<1> HIDE DEF Counted
<1>3. m \in Nat /\ ~ Counted(m)
  BY <1>2
<1>4. \A k \in Nat : k < m => Counted(k)
  BY <1>2, <1>3
<1> HIDE DEF Bad
<1> USE DEF Counted
<1>5. PICK S \in SUBSET (1..m) : \A l \in [1..Cardinality(S) -> S] : ~ Upward(l)
  BY <1>3
<1>6. S # {}
  <2>1. SUFFICES ASSUME S = {} PROVE FALSE
    OBVIOUS
  <2>2. Cardinality(S) = 0
    BY <2>1, FS_EmptySet
  <2>3. <<>> \in [1..0 -> S] /\ Upward(<<>>)
    OBVIOUS
  <2> QED BY <1>5, <2>2, <2>3
<1>7. m # 0
  <2>1. PICK x \in S : TRUE
    BY <1>6
  <2>2. x \in 1..m
    BY <2>1
  <2> HIDE DEF Counted
  <2> QED BY <1>3, <2>2
<1> HIDE DEF Counted
<1>8. Counted(m - 1)
  BY <1>3, <1>4, <1>7
<1> USE DEF Counted
<1>9. IsFiniteSet(S)
  <2>1. IsFiniteSet(1..m)
    BY <1>3, FS_Interval
  <2> QED BY <2>1, FS_Subset
<1> DEFINE R == S \ {m}
           c == Cardinality(R)
<1>10. R \in SUBSET (1..(m - 1)) /\ IsFiniteSet(R) /\ c \in Nat
  <2>1. IsFiniteSet(R)
    BY <1>9, FS_RemoveElement
  <2>2. c \in Nat
    BY <2>1, FS_CardinalityType
  <2>3. R \in SUBSET (1..(m - 1))
    BY <1>3
  <2> QED BY <2>1, <2>2, <2>3
<1>11. PICK l \in [1..c -> R] : Upward(l)
  BY <1>8, <1>10
<1>12. CASE m \notin S
  <2>1. R = S
    BY <1>12
  <2> QED BY <1>5, <1>11, <2>1
<1>13. CASE m \in S
  <2>1. Cardinality(S) = c + 1
    <3>1. Cardinality(R) = Cardinality(S) - 1
      BY <1>9, <1>13, FS_RemoveElement
    <3>2. Cardinality(S) \in Nat
      BY <1>9, FS_CardinalityType
    <3> QED BY <3>1, <3>2
  <2> DEFINE k == [i \in 1..(c + 1) |-> IF i = c + 1 THEN m ELSE l[i]]
  <2>2. \A i \in 1..c : l[i] \in S /\ l[i] < m /\ l[i] \in Nat
    <3>1. \A i \in 1..c : l[i] \in R
      BY <1>11
    <3>2. \A x \in R : x \in S /\ x \in 1..(m - 1)
      BY <1>10
    <3>3. \A x \in 1..(m - 1) : x < m /\ x \in Nat
      BY <1>3
    <3> QED BY <3>1, <3>2, <3>3
  <2> HIDE DEF c
  <2>3. k \in [1..(c + 1) -> S]
    BY <1>10, <1>13, <2>2
  <2>4. Upward(k)
    <3>1. \A i, j \in 1..(c + 1) : i < j => i \in 1..c /\ (j = c + 1 \/ j \in 1..c)
      BY <1>10
    <3>2. \A i, j \in 1..c : i < j => l[i] < l[j]
      BY <1>11
    <3> QED BY <1>10, <2>2, <3>1, <3>2
  <2> HIDE DEF k
  <2> QED BY <1>5, <2>1, <2>3, <2>4
<1> QED BY <1>12, <1>13

\* The list of the confirm pass: every case that timed out, each once.
LEMMA TimedOutFacts ==
  /\ TimedOut \in Seq(Selected) /\ Len(TimedOut) <= Cases /\ DOMAIN TimedOut = 1..Len(TimedOut)
  /\ \A i \in DOMAIN TimedOut : TimedOut[i] \in Late
  /\ \A i, j \in DOMAIN TimedOut : TimedOut[i] = TimedOut[j] => i = j
  /\ \A c \in Late : \E i \in DOMAIN TimedOut : TimedOut[i] = c
  /\ TimedOut = <<>> => Late = {}
<1> DEFINE size == Cardinality(Late)
<1>1. Cases \in Nat /\ Late \in SUBSET (1..Cases)
  BY SweepAssumption DEF Late, Selected
<1>2. IsFiniteSet(Late) /\ size \in Nat /\ size <= Cases
  <2>1. IsFiniteSet(1..Cases) /\ Cardinality(1..Cases) = Cases
    BY <1>1, FS_Interval
  <2>2. IsFiniteSet(Late) /\ size <= Cases
    BY <1>1, <2>1, FS_Subset
  <2> QED BY <2>2, FS_CardinalityType
<1>3. \E l \in [1..size -> Late] : \A i, j \in DOMAIN l : i < j => l[i] < l[j]
  BY <1>1, Enumerated
<1>4. TimedOut \in [1..size -> Late] /\ \A i, j \in DOMAIN TimedOut : i < j => TimedOut[i] < TimedOut[j]
  BY <1>3 DEF TimedOut
<1>5. PICK l : l = TimedOut
  OBVIOUS
<1>6. l \in [1..size -> Late] /\ DOMAIN l = 1..size /\ (\A i, j \in 1..size : i < j => l[i] < l[j])
  BY <1>4, <1>5
<1> HIDE DEF size
<1>7. \A i \in 1..size : l[i] \in Late /\ l[i] \in Nat /\ i \in Nat
  <2>1. \A i \in 1..size : l[i] \in Late
    BY <1>6
  <2>2. \A c \in Late : c \in Nat
    BY <1>1
  <2>3. \A i \in 1..size : i \in Nat
    BY <1>2
  <2> QED BY <2>1, <2>2, <2>3
<1>8. \A i, j \in 1..size : l[i] = l[j] => i = j
  <2> SUFFICES ASSUME NEW i \in 1..size, NEW j \in 1..size, l[i] = l[j], i # j PROVE FALSE
    OBVIOUS
  <2>1. i < j \/ j < i
    BY <1>2
  <2> QED BY <1>6, <1>7, <2>1
<1>9. \A c \in Late : \E i \in 1..size : l[i] = c
  <2>1. l \in Injection(1..size, Late)
    BY <1>6, <1>8 DEF Injection, IsInjective
  <2>2. Cardinality(1..size) = size
    BY <1>2, FS_Interval
  <2>3. Cardinality(1..size) = Cardinality(Late)
    BY <2>2 DEF size
  <2>4. l \in Surjection(1..size, Late)
    BY <1>2, <2>1, <2>3, FS_Injection
  <2> QED BY <2>4 DEF Surjection
<1>10. l \in Seq(Selected) /\ Len(l) = size
  <2>1. l \in [1..size -> Selected]
    BY <1>1, <1>6 DEF Selected
  <2> QED BY <1>2, <2>1
<1>11. l = <<>> => Late = {}
  <2>1. l = <<>> => size = 0
    BY <1>10
  <2> QED BY <1>9, <2>1
<1> QED BY <1>2, <1>5, <1>6, <1>7, <1>8, <1>9, <1>10, <1>11

\* No case has been started.
LEMMA SweepBegins ==
  ASSUME SweepInit
  PROVE  SweepInv
<1> USE DEF SweepInit
<1>1. Cases \in Nat /\ Jobs \in Nat /\ Selected = 1..Cases
  BY SweepAssumption DEF Selected
<1>2. Idle \in Slots /\ RunOf(Idle) /\ Idle.state = "idle"
  BY DEF Idle, Slots, RunOf, None
<1>3. slots \in [Selected -> Slots] /\ \A i \in Selected : slots[i] = Idle
  BY <1>2 DEF NoRuns
<1> HIDE DEF SweepInit
<1>4. RunningSlots = {} /\ Cardinality(RunningSlots) = 0
  <2>1. RunningSlots = {}
    BY <1>2, <1>3 DEF RunningSlots
  <2> QED BY <2>1, FS_EmptySet
<1>5. list \in Seq(Selected) /\ Len(list) = Cases /\ \A i \in Selected : list[i] = i
  <2>1. list \in [1..Cases -> Selected] /\ \A i \in Selected : list[i] = i
    BY <1>1 DEF SweepInit
  <2> QED BY <1>1, <2>1
<1>6. SweepTypes
  BY <1>1, <1>3, <1>5 DEF SweepTypes, SweepInit
<1>7. RunsInv
  BY <1>1, <1>2, <1>3, <1>4 DEF RunsInv, SweepInit
<1>8. PassInv
  BY <1>2, <1>3, <1>5 DEF PassInv, FirstPass, SweepInit, None
<1> QED BY <1>6, <1>7, <1>8 DEF SweepInv

\* A step of one run that leaves it in its state.
LEMMA RunTouched ==
  ASSUME SweepInv, NEW i \in Selected, NEW t \in Slots, slots' = [slots EXCEPT ![i] = t],
         RunOf(t), t.state = slots[i].state, UNCHANGED <<round, list, nextIndex, runningPgid, rows, confirmed>>
  PROVE  SweepInv'
<1>1. SweepTypes /\ RunsInv /\ PassInv /\ Selected = DOMAIN slots
  BY DEF SweepInv, SweepTypes
<1>2. slots' \in [Selected -> Slots] /\ slots'[i] = t /\ \A j \in Selected : j # i => slots'[j] = slots[j]
  BY <1>1 DEF SweepTypes
<1>3. \A j \in Selected : slots'[j].state = slots[j].state
  BY <1>2
<1>4. UNCHANGED RunningSlots
  BY <1>1, <1>2, <1>3 DEF RunningSlots
<1>5. SweepTypes'
  BY <1>1, <1>2, <1>4 DEF SweepTypes
<1>6. RunsInv'
  <2>1. \A j \in Selected : RunOf(slots'[j])
    BY <1>1, <1>2 DEF RunsInv
  <2> QED BY <1>1, <1>3, <1>4, <2>1 DEF RunsInv
<1>7. PassInv'
  <2>1. FirstPass => FirstPass'
    BY <1>3 DEF FirstPass
  <2>2. round = "confirm" => ConfirmPass'
    <3>1. \A j \in DOMAIN list : j \in Selected
      BY <1>1, LenProperties, SweepAssumption DEF SweepTypes, Selected
    <3>2. Late' = Late
      BY DEF Late
    <3>3. round = "confirm" => ConfirmPass
      BY <1>1 DEF PassInv
    <3>4. \A j \in DOMAIN list : slots'[j].state = slots[j].state
      BY <1>3, <3>1
    <3> QED BY <3>2, <3>3, <3>4 DEF ConfirmPass
  <2> QED BY <1>1, <1>4, <2>1, <2>2 DEF PassInv
<1> QED BY <1>5, <1>6, <1>7 DEF SweepInv

\* What a signal to the group leaves.
LEMMA KilledFacts ==
  ASSUME NEW s \in Slots
  PROVE  /\ Killed(s) \in Slots /\ Killed(s).state = s.state /\ Killed(s).main # "alive" /\ InGroup(Killed(s).kids) = {}
         /\ RunOf(s) => RunOf(Killed(s))
<1> DEFINE m == IF s.main = "alive" THEN "ended" ELSE s.main
           x == IF s.main = "alive" THEN "killed" ELSE s.exit
           k == s.kids \ InGroup(s.kids)
           r1 == [s EXCEPT !.main = m]
           r2 == [r1 EXCEPT !.exit = x]
           r == [r2 EXCEPT !.kids = k]
<1>1. Killed(s) = r
  <2>1. s = [state |-> s.state, main |-> s.main, exit |-> s.exit, kids |-> s.kids, timedOut |-> s.timedOut, kill |-> s.kill]
    BY DEF Slots
  <2> QED BY <2>1 DEF Killed
<1>2. /\ s.state \in {"idle", "running", "settled"} /\ s.main \in {"none", "alive", "ended"}
      /\ s.exit \in {None, "pass", "skip", "fail", "crash", "killed"} /\ s.kids \subseteq Kinds
  BY DEF Slots
<1>3. m \in {"none", "ended"} /\ x \in {None, "pass", "skip", "fail", "crash", "killed"} /\ k \subseteq Kinds /\ InGroup(k) = {}
  BY <1>2 DEF InGroup
<1>4. RunOf(s) => /\ s.state # "running" => k = {} /\ m = s.main
                  /\ m = "ended" /\ s.state = "running" => x # None
  BY <1>2 DEF RunOf, None
<1> HIDE DEF m, x, k
<1>5. r1 \in Slots /\ r1.state = s.state /\ r1.main = m /\ r1.exit = s.exit /\ r1.kids = s.kids
  BY <1>3 DEF Slots
<1> HIDE DEF r1
<1>6. r2 \in Slots /\ r2.state = s.state /\ r2.main = m /\ r2.exit = x
  BY <1>3, <1>5 DEF Slots
<1> HIDE DEF r2
<1>7. r \in Slots /\ r.state = s.state /\ r.main = m /\ r.kids = k /\ r.exit = x
  BY <1>3, <1>6 DEF Slots
<1> HIDE DEF r
<1>8. RunOf(s) => RunOf(r)
  BY <1>3, <1>4, <1>7 DEF RunOf
<1> QED BY <1>1, <1>3, <1>7, <1>8

\* What finish() leaves.
LEMMA FiledFacts ==
  ASSUME NEW s \in Slots
  PROVE  Filed(Killed(s)) \in Slots /\ Filed(Killed(s)).state = "settled" /\ RunOf(Filed(Killed(s)))
<1> DEFINE q == Killed(s)
           r1 == [q EXCEPT !.state = "settled"]
           r2 == [r1 EXCEPT !.exit = None]
           r3 == [r2 EXCEPT !.timedOut = FALSE]
           r == [r3 EXCEPT !.kids = {}]
<1>1. q \in Slots /\ q.main # "alive" /\ InGroup(q.kids) = {}
  BY KilledFacts
<1> HIDE DEF q
<1>2. Filed(q) = r
  <2>1. q = [state |-> q.state, main |-> q.main, exit |-> q.exit, kids |-> q.kids, timedOut |-> q.timedOut, kill |-> q.kill]
    BY <1>1 DEF Slots
  <2> QED BY <1>1, <2>1 DEF Filed
<1>3. r1 \in Slots /\ r1.state = "settled" /\ r1.main = q.main
  BY <1>1 DEF Slots
<1> HIDE DEF r1
<1>4. r2 \in Slots /\ r2.state = "settled" /\ r2.main = q.main
  BY <1>3 DEF Slots
<1> HIDE DEF r2
<1>5. r3 \in Slots /\ r3.state = "settled" /\ r3.main = q.main
  BY <1>4 DEF Slots
<1> HIDE DEF r3
<1>6. r \in Slots /\ r.state = "settled" /\ r.main = q.main /\ r.kids = {}
  BY <1>5 DEF Slots
<1> HIDE DEF r
<1>7. RunOf(r)
  BY <1>1, <1>6 DEF RunOf
<1> QED BY <1>2, <1>6, <1>7 DEF q

\* A run fewer.
LEMMA RunningRemoved ==
  ASSUME SweepTypes, NEW most \in Nat, Cardinality(RunningSlots) <= most, NEW i
  PROVE  Cardinality(RunningSlots \ {i}) <= most
<1>1. RunningSlots \subseteq 1..Cases /\ Cases \in Nat
  BY SweepAssumption DEF SweepTypes, RunningSlots, Selected
<1>2. IsFiniteSet(1..Cases)
  <2>1. 1 \in Int /\ Cases \in Int
    BY <1>1
  <2> QED BY <2>1, FS_Interval
<1>3. IsFiniteSet(RunningSlots)
  BY <1>1, <1>2, FS_Subset
<1>4. Cardinality(RunningSlots \ {i}) <= Cardinality(RunningSlots) /\ Cardinality(RunningSlots) \in Nat
      /\ Cardinality(RunningSlots \ {i}) \in Nat
  <2>1. RunningSlots \ {i} \in SUBSET RunningSlots
    OBVIOUS
  <2>2. IsFiniteSet(RunningSlots \ {i}) /\ Cardinality(RunningSlots \ {i}) <= Cardinality(RunningSlots)
    BY <1>3, <2>1, FS_Subset
  <2>3. Cardinality(RunningSlots \ {i}) \in Nat
    BY <2>2, FS_CardinalityType
  <2>4. Cardinality(RunningSlots) \in Nat
    BY <1>3, FS_CardinalityType
  <2> QED BY <2>2, <2>3, <2>4
<1> QED BY <1>4

\* finish() keeps the invariant, whichever of the racing ends called it.
LEMMA FinishKeeps ==
  ASSUME SweepInv, NEW i \in Selected, slots[i].state = "running", NEW v, v # None, finish(i, v),
         v \in {"pass", "skip", "fail", "crash"} => slots[i].exit = v
  PROVE  SweepInv'
<1> DEFINE t == Filed(Killed(slots[i]))
<1>1. SweepTypes /\ RunsInv /\ PassInv /\ Selected = DOMAIN slots /\ slots[i] \in Slots
  BY DEF SweepInv, SweepTypes
<1>2. t \in Slots /\ t.state = "settled" /\ RunOf(t)
  BY <1>1, FiledFacts
<1>3. slots' = [slots EXCEPT ![i] = t] /\ runningPgid' = runningPgid \ {i} /\ UNCHANGED <<round, list, nextIndex>>
  BY DEF finish
<1> HIDE DEF t
<1>4. slots' \in [Selected -> Slots] /\ slots'[i].state = "settled" /\ RunOf(slots'[i]) /\ \A j \in Selected : j # i => slots'[j] = slots[j]
  BY <1>1, <1>2, <1>3 DEF SweepTypes
<1>5. RunningSlots' = RunningSlots \ {i}
  BY <1>1, <1>4 DEF RunningSlots
<1>6. i \in DOMAIN list /\ DOMAIN list = 1..Len(list) /\ DOMAIN list \subseteq Selected /\ \A j \in DOMAIN list : list[j] \in Selected
  <2>1. list \in Seq(Selected) /\ nextIndex \in 1..(Len(list) + 1) /\ Len(list) <= Cases /\ Cases \in Nat /\ Selected = 1..Cases
    BY <1>1, SweepAssumption DEF SweepTypes, Selected
  <2>2. DOMAIN list = 1..Len(list) /\ Len(list) \in Nat /\ \A j \in 1..Len(list) : list[j] \in Selected
    BY <2>1, LenProperties, ElementOfSeq
  <2>3. ~ (i >= nextIndex)
    BY <1>1 DEF RunsInv
  <2>4. i \in 1..Len(list)
    BY <2>1, <2>2, <2>3
  <2>5. 1..Len(list) \subseteq 1..Cases
    BY <2>1, <2>2
  <2> QED BY <2>1, <2>2, <2>4, <2>5
<1>7. list[i] \in Selected
  BY <1>6
<1>8. round = "first" =>
        /\ UNCHANGED confirmed /\ DOMAIN rows' = Selected
        /\ rows'[list[i]].verdict = v /\ rows'[list[i]].exit = slots[i].exit
        /\ \A c \in Selected : c # list[i] => rows'[c] = rows[c]
  BY <1>1, <1>7 DEF finish, At, SweepTypes
<1>9. round # "first" =>
        /\ UNCHANGED rows /\ DOMAIN confirmed' = Selected
        /\ confirmed'[list[i]] = v
        /\ \A c \in Selected : c # list[i] => confirmed'[c] = confirmed[c]
  BY <1>1, <1>7 DEF finish, At, SweepTypes
<1>10. SweepTypes'
  <2>1. DOMAIN rows' = Selected /\ DOMAIN confirmed' = Selected
    BY <1>1, <1>8, <1>9 DEF SweepTypes
  <2>2. runningPgid' \subseteq RunningSlots'
    BY <1>1, <1>3, <1>5 DEF SweepTypes
  <2> QED BY <1>1, <1>3, <1>4, <2>1, <2>2 DEF SweepTypes
<1>11. RunsInv'
  <2>1. \A j \in Selected : RunOf(slots'[j]) /\ (slots'[j].state = "idle" <=> j >= nextIndex)
    BY <1>1, <1>4 DEF RunsInv
  <2>2. Cardinality(RunningSlots \ {i}) <= Jobs
    BY <1>1, RunningRemoved, SweepAssumption DEF RunsInv
  <2> QED BY <1>3, <1>5, <2>1, <2>2 DEF RunsInv
<1>12. PassInv'
  <2>1. round # "report"
    BY <1>1 DEF PassInv, RunningSlots
  <2>2. CASE round = "first"
    <3>1. FirstPass /\ list[i] = i
      BY <1>1, <2>2 DEF PassInv, FirstPass
    <3>2. \A c \in Selected : rows'[c].verdict # None <=> slots'[c].state = "settled"
      BY <1>4, <1>8, <2>2, <3>1 DEF FirstPass
    <3>3. FirstPass'
      BY <1>3, <1>8, <2>2, <3>1, <3>2 DEF FirstPass
    <3>4. \A c \in Selected : rows'[c].verdict \in {"pass", "skip", "fail", "crash"} => rows'[c].exit = rows'[c].verdict
      BY <1>1, <1>8, <2>2 DEF PassInv
    <3> QED BY <1>3, <2>2, <3>3, <3>4 DEF PassInv
  <2>3. CASE round = "confirm"
    <3>1. ConfirmPass /\ UNCHANGED rows /\ Late' = Late
      BY <1>1, <1>9, <2>3 DEF PassInv, Late
    <3>2. \A j \in DOMAIN list : confirmed'[list[j]] # None <=> slots'[j].state = "settled"
      <4> SUFFICES ASSUME NEW j \in DOMAIN list PROVE confirmed'[list[j]] # None <=> slots'[j].state = "settled"
        OBVIOUS
      <4>1. j \in Selected /\ list[j] \in Selected
        BY <1>6
      <4>2. CASE j = i
        BY <1>4, <1>9, <2>3, <4>2
      <4>3. CASE j # i
        <5>1. list[j] # list[i]
          BY <1>6, <3>1, <4>3 DEF ConfirmPass
        <5> QED BY <1>4, <1>9, <2>3, <3>1, <4>1, <4>3, <5>1 DEF ConfirmPass
      <4> QED BY <4>2, <4>3
    <3>3. \A c \in Selected : rows[c].verdict # "timeout" => confirmed'[c] = None
      <4>1. rows[list[i]].verdict = "timeout"
        BY <1>6, <3>1 DEF ConfirmPass
      <4> QED BY <1>9, <2>3, <3>1, <4>1 DEF ConfirmPass
    <3>4. ConfirmPass'
      BY <1>3, <3>1, <3>2, <3>3 DEF ConfirmPass
    <3> QED BY <1>1, <1>3, <2>3, <3>1, <3>4 DEF PassInv
  <2> QED BY <1>1, <2>1, <2>2, <2>3 DEF SweepTypes
<1> QED BY <1>10, <1>11, <1>12 DEF SweepInv

\* A worker that takes the next index keeps the invariant.
LEMMA RunOneKeeps ==
  ASSUME SweepInv, runOne
  PROVE  SweepInv'
<1>1. /\ SweepTypes /\ RunsInv /\ PassInv /\ Selected = DOMAIN slots /\ round # "report"
      /\ nextIndex <= Len(list) /\ nextIndex' = nextIndex + 1 /\ Cardinality(RunningSlots) < Jobs
      /\ UNCHANGED <<round, list, rows, confirmed>>
  BY DEF SweepInv, SweepTypes, runOne
<1>2. /\ list \in Seq(Selected) /\ Len(list) \in Nat /\ Len(list) <= Cases /\ Cases \in Nat /\ Selected = 1..Cases
      /\ nextIndex \in Nat /\ nextIndex \in Selected /\ nextIndex' \in 1..(Len(list) + 1)
  <2>1. list \in Seq(Selected) /\ nextIndex \in 1..(Len(list) + 1) /\ Len(list) <= Cases /\ Cases \in Nat /\ Selected = 1..Cases
    BY <1>1, SweepAssumption DEF SweepTypes, Selected
  <2>2. Len(list) \in Nat
    BY <2>1, LenProperties
  <2> QED BY <1>1, <2>1, <2>2
<1> DEFINE next == nextIndex
           s == slots[next]
           t1 == [s EXCEPT !.state = "running"]
           t2 == [t1 EXCEPT !.main = "alive"]
<1>3. s \in Slots /\ s.state = "idle" /\ RunOf(s)
  BY <1>1, <1>2 DEF SweepTypes, RunsInv
<1>4. t1 \in Slots /\ t1.state = "running" /\ t1.main = "none"
  <2> HIDE DEF s
  <2> QED BY <1>3 DEF Slots, RunOf
<1>5. t2 \in Slots /\ t2.state = "running" /\ t2.main = "alive"
  <2> HIDE DEF t1
  <2> QED BY <1>4 DEF Slots
<1>6. RunOf(t1) /\ RunOf(t2)
  <2> HIDE DEF t1, t2
  <2> QED BY <1>4, <1>5 DEF RunOf
<1>7. slots' = [slots EXCEPT ![next] = t1] \/ slots' = [slots EXCEPT ![next] = t2]
  <2>1. s = [state |-> s.state, main |-> s.main, exit |-> s.exit, kids |-> s.kids, timedOut |-> s.timedOut, kill |-> s.kill]
    BY <1>3 DEF Slots
  <2>2. slots \in [Selected -> Slots]
    BY <1>1 DEF SweepTypes
  <2> QED BY <1>2, <2>1, <2>2 DEF runOne
<1>8. runningPgid' \subseteq runningPgid \cup {next}
  BY DEF runOne
<1> HIDE DEF s, t1, t2
<1>9. /\ slots' \in [Selected -> Slots] /\ RunOf(slots'[next]) /\ slots'[next].state = "running"
      /\ \A j \in Selected : j # next => slots'[j] = slots[j]
  BY <1>1, <1>2, <1>4, <1>5, <1>6, <1>7 DEF SweepTypes
<1>10. RunningSlots' = RunningSlots \cup {next}
  BY <1>1, <1>2, <1>9 DEF RunningSlots
<1>11. SweepTypes'
  <2>1. runningPgid' \subseteq RunningSlots'
    BY <1>1, <1>8, <1>10 DEF SweepTypes
  <2> QED BY <1>1, <1>2, <1>9, <2>1 DEF SweepTypes
<1>12. RunsInv'
  <2>1. ASSUME NEW j \in Selected PROVE RunOf(slots'[j]) /\ (slots'[j].state = "idle" <=> j >= nextIndex')
    <3>1. j # next => (j >= next <=> j >= next + 1)
      BY <1>2
    <3>2. ~ (next >= next + 1)
      BY <1>2
    <3> QED BY <1>1, <1>9, <3>1, <3>2 DEF RunsInv
  <2>2. Cardinality(RunningSlots \cup {next}) <= Jobs
    <3>1. RunningSlots \subseteq 1..Cases
      BY <1>1, <1>2 DEF RunningSlots
    <3>2. IsFiniteSet(1..Cases)
      BY <1>2, FS_Interval
    <3>3. IsFiniteSet(RunningSlots)
      BY <3>1, <3>2, FS_Subset
    <3>4. Cardinality(RunningSlots) \in Nat
      BY <3>3, FS_CardinalityType
    <3>5. Cardinality(RunningSlots \cup {next}) <= Cardinality(RunningSlots) + 1
      BY <3>3, <3>4, FS_AddElement
    <3>6. Cardinality(RunningSlots \cup {next}) \in Nat
      <4>1. IsFiniteSet(RunningSlots \cup {next})
        BY <3>3, FS_AddElement
      <4> QED BY <4>1, FS_CardinalityType
    <3> QED BY <1>1, <3>4, <3>5, <3>6, SweepAssumption
  <2> QED BY <1>10, <2>1, <2>2 DEF RunsInv
<1>13. \A j \in Selected : slots'[j].state = "settled" <=> slots[j].state = "settled"
  BY <1>3, <1>9 DEF s
<1>14. PassInv'
  <2>1. FirstPass => FirstPass'
    BY <1>1, <1>13 DEF FirstPass
  <2>2. ConfirmPass => ConfirmPass'
    <3>1. \A j \in DOMAIN list : j \in Selected
      BY <1>2, LenProperties
    <3>2. Late' = Late
      BY <1>1 DEF Late
    <3> QED BY <1>1, <1>13, <3>1, <3>2 DEF ConfirmPass
  <2> QED BY <1>1, <2>1, <2>2 DEF PassInv
<1> QED BY <1>11, <1>12, <1>14 DEF SweepInv

\* The limit, the second signal and what a case's own processes do.
LEMMA RunSteps ==
  ASSUME SweepInv, NEW i \in Selected, TimerFires(i) \/ KillTimerFires(i) \/ CaseSteps(i)
  PROVE  SweepInv'
<1> DEFINE s == slots[i]
<1>1. s \in Slots /\ RunOf(s) /\ i \in DOMAIN slots
  BY DEF SweepInv, SweepTypes, RunsInv
<1>2. s = [state |-> s.state, main |-> s.main, exit |-> s.exit, kids |-> s.kids, timedOut |-> s.timedOut, kill |-> s.kill]
  BY <1>1 DEF Slots
<1>3. CASE TimerFires(i)
  <2>1. PICK gone \in SUBSET InGroup(slots[i].kids), dies \in BOOLEAN :
          slots' = [slots EXCEPT ![i] = Terminated(slots[i], gone, dies)]
    BY <1>3 DEF TimerFires
  <2> DEFINE k == s.kids \ gone
             m == IF dies THEN "ended" ELSE s.main
             x == IF dies /\ s.main = "alive" THEN "killed" ELSE s.exit
             t1 == [s EXCEPT !.timedOut = TRUE]
             t2 == [t1 EXCEPT !.kill = TRUE]
             t3 == [t2 EXCEPT !.kids = k]
             t4 == [t3 EXCEPT !.main = m]
             t == [t4 EXCEPT !.exit = x]

  <2>2. slots' = [slots EXCEPT ![i] = t]
    <3>1. slots' = [slots EXCEPT ![i] = Terminated(s, gone, dies)]
      BY <2>1
    <3>2. PICK a, b, c, d, e, f : s = [state |-> a, main |-> b, exit |-> c, kids |-> d, timedOut |-> e, kill |-> f]
      BY <1>2
    <3>3. s.kids = d /\ s.main = b /\ s.exit = c
      BY <3>2
    <3>4. Terminated(s, gone, dies) = t
      <4> HIDE DEF s
      <4>1. CASE dies
        BY <3>2, <3>3, <4>1 DEF Terminated
      <4>2. CASE ~ dies
        BY <3>2, <3>3, <4>2 DEF Terminated
      <4> QED BY <4>1, <4>2
    <3> QED BY <3>1, <3>4
  <2>3. s.state = "running" /\ s.main # "none" /\ UNCHANGED <<round, list, nextIndex, runningPgid, rows, confirmed>>
    BY <1>3 DEF TimerFires
  <2>4. k \subseteq Kinds /\ m \in {"none", "alive", "ended"} /\ x \in {None, "pass", "skip", "fail", "crash", "killed"}
        /\ (m = "ended" => x # None)
    BY <1>1, <2>3 DEF Slots, RunOf, None
  <2> HIDE DEF s, k, m, x
  <2>5. t1 \in Slots /\ t1.state = s.state
    BY <1>1 DEF Slots
  <2> HIDE DEF t1
  <2>6. t2 \in Slots /\ t2.state = s.state
    BY <2>5 DEF Slots
  <2> HIDE DEF t2
  <2>7. t3 \in Slots /\ t3.state = s.state
    BY <2>4, <2>6 DEF Slots
  <2> HIDE DEF t3
  <2>8. t4 \in Slots /\ t4.state = s.state /\ t4.main = m
    BY <2>4, <2>7 DEF Slots
  <2> HIDE DEF t4
  <2>9. t \in Slots /\ t.state = s.state /\ t.main = m /\ t.exit = x
    BY <2>4, <2>8 DEF Slots
  <2> HIDE DEF t
  <2>10. RunOf(t) /\ t.state = slots[i].state
    <3>1. RunOf(t)
      BY <2>3, <2>4, <2>9 DEF RunOf
    <3> QED BY <2>9, <3>1 DEF s
  <2> QED BY <2>2, <2>3, <2>9, <2>10, RunTouched
<1>4. CASE KillTimerFires(i)
  <2> DEFINE q == Killed(s)
             t == [q EXCEPT !.kill = FALSE]
  <2>1. slots' = [slots EXCEPT ![i] = t] /\ UNCHANGED <<round, list, nextIndex, runningPgid, rows, confirmed>>
    BY <1>1, <1>4 DEF KillTimerFires
  <2>2. q \in Slots /\ q.state = s.state /\ RunOf(q)
    BY <1>1, KilledFacts
  <2> HIDE DEF q
  <2>3. t \in Slots /\ t.state = q.state /\ t.main = q.main /\ t.kids = q.kids /\ t.exit = q.exit
    BY <2>2 DEF Slots
  <2> HIDE DEF t
  <2>4. RunOf(t) /\ t.state = slots[i].state
    BY <2>2, <2>3 DEF RunOf
  <2> QED BY <2>1, <2>3, <2>4, RunTouched
<1>5. CASE CaseSteps(i)
  <2>1. UNCHANGED <<round, list, nextIndex, runningPgid, rows, confirmed>>
    BY <1>5 DEF CaseSteps
  <2>2. ASSUME NEW how \in {"pass", "skip", "fail", "crash"}, s.main = "alive",
               slots' = [slots EXCEPT ![i].main = "ended", ![i].exit = how]
        PROVE  SweepInv'
    <3> DEFINE t1 == [s EXCEPT !.main = "ended"]
               t == [t1 EXCEPT !.exit = how]
    <3>1. slots' = [slots EXCEPT ![i] = t]
      BY <1>1, <1>2, <2>2
    <3>2. t1 \in Slots /\ t1.state = s.state /\ t1.main = "ended" /\ t1.kids = s.kids
      <4> HIDE DEF s
      <4> QED BY <1>1 DEF Slots
    <3> HIDE DEF t1
    <3>3. t \in Slots /\ t.state = s.state /\ t.main = "ended" /\ t.kids = s.kids /\ t.exit = how
      BY <3>2 DEF Slots
    <3> HIDE DEF t
    <3>4. RunOf(t) /\ t.state = slots[i].state
      BY <1>1, <2>2, <3>3 DEF RunOf, None
    <3> QED BY <2>1, <3>1, <3>3, <3>4, RunTouched
  <2>3. ASSUME NEW k \in SUBSET Kinds, s.main = "alive" \/ s.kids # {}, slots' = [slots EXCEPT ![i].kids = k]
        PROVE  SweepInv'
    <3> DEFINE t == [s EXCEPT !.kids = k]
    <3>1. slots' = [slots EXCEPT ![i] = t]
      BY <1>1, <1>2, <2>3
    <3>2. t \in Slots /\ t.state = s.state /\ t.main = s.main /\ t.exit = s.exit /\ t.kids = k
      <4> HIDE DEF s
      <4> QED BY <1>1 DEF Slots
    <3> HIDE DEF t
    <3>3. RunOf(t) /\ t.state = slots[i].state
      BY <1>1, <2>3, <3>2 DEF RunOf
    <3> QED BY <2>1, <3>1, <3>2, <3>3, RunTouched
  <2>4. s.kids \subseteq Kinds
    BY <1>1 DEF Slots
  <2>5. \/ s.main = "alive" /\ \E how \in {"pass", "skip", "fail", "crash"} : slots' = [slots EXCEPT ![i].main = "ended", ![i].exit = how]
        \/ s.main = "alive" /\ \E k \in Kinds \ s.kids : slots' = [slots EXCEPT ![i].kids = @ \cup {k}]
        \/ \E k \in s.kids : slots' = [slots EXCEPT ![i].kids = @ \ {k}]
    BY <1>5 DEF CaseSteps
  <2>6. ASSUME NEW k \in Kinds, s.main = "alive", slots' = [slots EXCEPT ![i].kids = @ \cup {k}] PROVE SweepInv'
    <3>1. s.kids \cup {k} \in SUBSET Kinds /\ slots' = [slots EXCEPT ![i].kids = s.kids \cup {k}]
      BY <2>4, <2>6
    <3> QED BY <2>3, <2>6, <3>1
  <2>7. ASSUME NEW k \in s.kids, slots' = [slots EXCEPT ![i].kids = @ \ {k}] PROVE SweepInv'
    <3>1. s.kids \ {k} \in SUBSET Kinds /\ s.kids # {} /\ slots' = [slots EXCEPT ![i].kids = s.kids \ {k}]
      BY <2>4, <2>7
    <3> QED BY <2>3, <3>1
  <2> QED BY <2>2, <2>5, <2>6, <2>7
<1> QED BY <1>3, <1>4, <1>5

\* The end of a pass.
LEMMA PassKeeps ==
  ASSUME SweepInv, Confirms \/ Reported
  PROVE  SweepInv'
<1>1. /\ SweepTypes /\ RunsInv /\ PassInv /\ RunningSlots = {} /\ nextIndex > Len(list)
  BY DEF SweepInv, Confirms, Reported, PassOver
<1>2. runningPgid = {} /\ Cardinality({}) = 0 /\ Cases \in Nat /\ Selected = 1..Cases /\ Jobs \in Nat
  BY <1>1, FS_EmptySet, SweepAssumption DEF SweepTypes, Selected
<1>3. DOMAIN list = 1..Len(list) /\ Len(list) \in Nat /\ Len(list) <= Cases /\ nextIndex \in Nat
  <2>1. list \in Seq(Selected) /\ nextIndex \in 1..(Len(list) + 1) /\ Len(list) <= Cases
    BY <1>1 DEF SweepTypes
  <2>2. DOMAIN list = 1..Len(list) /\ Len(list) \in Nat
    BY <2>1, LenProperties
  <2> QED BY <2>1, <2>2
<1>4. \A i \in DOMAIN list : i \in Selected /\ slots[i].state = "settled"
  <2> SUFFICES ASSUME NEW i \in DOMAIN list PROVE i \in Selected /\ slots[i].state = "settled"
    OBVIOUS
  <2>1. i \in Selected /\ ~ (i >= nextIndex)
    BY <1>1, <1>2, <1>3
  <2>2. slots[i].state # "idle" /\ slots[i].state # "running" /\ slots[i] \in Slots
    BY <1>1, <2>1 DEF RunsInv, RunningSlots, SweepTypes
  <2> QED BY <2>1, <2>2 DEF Slots
<1>5. round = "first" => \A c \in Selected : rows[c].verdict # None /\ confirmed[c] = None
  <2> SUFFICES ASSUME round = "first", NEW c \in Selected PROVE rows[c].verdict # None /\ confirmed[c] = None
    OBVIOUS
  <2>1. FirstPass
    BY <1>1 DEF PassInv
  <2>2. c \in DOMAIN list
    BY <1>2, <1>3, <2>1 DEF FirstPass
  <2> QED BY <1>4, <2>1, <2>2 DEF FirstPass
<1>6. CASE Confirms
  <2>1. /\ round = "first" /\ round' = "confirm" /\ list' = TimedOut /\ nextIndex' = 1 /\ slots' = NoRuns
        /\ UNCHANGED <<runningPgid, rows, confirmed>>
    BY <1>6 DEF Confirms
  <2>2. Idle \in Slots /\ RunOf(Idle) /\ Idle.state = "idle"
    BY DEF Idle, Slots, RunOf, None
  <2>3. slots' \in [Selected -> Slots] /\ \A i \in Selected : slots'[i] = Idle
    BY <2>1, <2>2 DEF NoRuns
  <2>4. RunningSlots' = {}
    BY <2>2, <2>3 DEF RunningSlots
  <2>5. TimedOut \in Seq(Selected) /\ Len(TimedOut) <= Cases /\ Len(TimedOut) \in Nat /\ DOMAIN TimedOut = 1..Len(TimedOut)
    BY TimedOutFacts, LenProperties
  <2>6. SweepTypes'
    <3>1. nextIndex' \in 1..(Len(list') + 1)
      BY <2>1, <2>5
    <3>2. DOMAIN rows' = Selected /\ DOMAIN confirmed' = Selected /\ runningPgid' = {}
      BY <1>1, <1>2, <2>1 DEF SweepTypes
    <3> QED BY <2>1, <2>3, <2>5, <3>1, <3>2 DEF SweepTypes
  <2>7. RunsInv'
    <3>1. \A i \in Selected : i >= 1
      BY <1>2
    <3>2. Cardinality(RunningSlots') <= Jobs
      BY <1>2, <2>4
    <3> QED BY <2>1, <2>2, <2>3, <3>1, <3>2 DEF RunsInv
  <2>8. PassInv'
    <3>1. Late' = Late
      BY <2>1 DEF Late
    <3>2. \A i \in DOMAIN TimedOut : TimedOut[i] \in Selected /\ rows[TimedOut[i]].verdict = "timeout" /\ i \in Selected
      <4>1. \A i \in 1..Len(TimedOut) : i \in Selected
        BY <1>2, <2>5
      <4> QED BY <2>5, <4>1, TimedOutFacts DEF Late
    <3>3. \A i \in DOMAIN TimedOut : confirmed[TimedOut[i]] = None /\ slots'[i].state = "idle"
      BY <1>5, <2>1, <2>2, <2>3, <3>2
    <3>4. /\ \A i, j \in DOMAIN TimedOut : TimedOut[i] = TimedOut[j] => i = j
          /\ \A c \in Late : \E i \in DOMAIN TimedOut : TimedOut[i] = c
      BY TimedOutFacts
    <3>5. list' = TimedOut /\ rows' = rows /\ confirmed' = confirmed
      BY <2>1
    <3>6. \A c \in Selected : confirmed[c] = None
      BY <1>5, <2>1
    <3> HIDE DEF TimedOut
    <3>7. ConfirmPass'
      BY <3>1, <3>2, <3>3, <3>4, <3>5, <3>6 DEF ConfirmPass
    <3> QED BY <1>1, <1>5, <2>1, <3>7 DEF PassInv
  <2> QED BY <2>6, <2>7, <2>8 DEF SweepInv
<1>7. CASE Reported
  <2>1. /\ round = "confirm" \/ (round = "first" /\ TimedOut = <<>>)
        /\ round' = "report" /\ UNCHANGED <<list, nextIndex, slots, runningPgid, rows, confirmed>>
    BY <1>7 DEF Reported
  <2>2. UNCHANGED RunningSlots
    BY <2>1 DEF RunningSlots
  <2>3. SweepTypes' /\ RunsInv'
    BY <1>1, <2>1, <2>2 DEF SweepTypes, RunsInv
  <2>4. ASSUME NEW c \in Selected PROVE rows[c].verdict # None /\ (confirmed[c] # None <=> rows[c].verdict = "timeout")
    <3>1. CASE round = "confirm"
      <4>1. ConfirmPass /\ rows[c].verdict # None
        BY <1>1, <3>1 DEF PassInv
      <4>2. rows[c].verdict = "timeout" => confirmed[c] # None
        BY <1>4, <4>1 DEF ConfirmPass, Late
      <4> QED BY <4>1, <4>2 DEF ConfirmPass
    <3>2. CASE round = "first" /\ TimedOut = <<>>
      <4>1. Late = {}
        BY <3>2, TimedOutFacts
      <4>2. rows[c].verdict # "timeout"
        BY <4>1 DEF Late
      <4> QED BY <1>5, <3>2, <4>2
    <3> QED BY <2>1, <3>1, <3>2
  <2>5. PassInv'
    BY <1>1, <2>1, <2>2, <2>4 DEF PassInv
  <2> QED BY <2>3, <2>5 DEF SweepInv
<1> QED BY <1>6, <1>7

\* One step of the sweep, of a timer or of a case's processes keeps the invariant.
LEMMA SweepSteps ==
  ASSUME SweepInv, [SweepNext]_sweepVars
  PROVE  SweepInv'
<1>1. CASE UNCHANGED sweepVars
  BY <1>1 DEF sweepVars, SweepInv, SweepTypes, RunsInv, PassInv, FirstPass, ConfirmPass, Late, RunningSlots
<1>2. CASE runOne
  BY <1>2, RunOneKeeps
<1>3. CASE Confirms \/ Reported
  BY <1>3, PassKeeps
<1>4. ASSUME NEW i \in Selected, TimerFires(i) \/ KillTimerFires(i) \/ CaseSteps(i) PROVE SweepInv'
  BY <1>4, RunSteps
<1>5. \A i \in Selected : slots[i] \in Slots /\ RunOf(slots[i]) /\ (i \in runningPgid => slots[i].state = "running")
  BY DEF SweepInv, SweepTypes, RunsInv, RunningSlots
<1>6. ASSUME NEW i \in Selected, SpawnError(i) PROVE SweepInv'
  BY <1>6, FinishKeeps DEF SpawnError, None
<1>7. ASSUME NEW i \in Selected, widthSampler(i) PROVE SweepInv'
  <2>1. slots[i].state = "running" /\ (finish(i, "forkbomb") \/ finish(i, "memory"))
    BY <1>5, <1>7 DEF widthSampler
  <2> QED BY <2>1, FinishKeeps DEF None
<1>8. ASSUME NEW i \in Selected, Closed(i) PROVE SweepInv'
  <2> DEFINE v == CloseVerdict(slots[i])
  <2>1. slots[i].state = "running" /\ slots[i].main = "ended" /\ finish(i, v)
    BY <1>8 DEF Closed
  <2>2. v # None /\ (v \in {"pass", "skip", "fail", "crash"} => slots[i].exit = v)
    BY <1>5, <2>1 DEF CloseVerdict, RunOf, None
  <2> HIDE DEF v
  <2> QED BY <2>1, <2>2, FinishKeeps
<1> QED BY <1>1, <1>2, <1>3, <1>4, <1>6, <1>7, <1>8 DEF SweepNext

\* The three rules of the sweep follow from the invariant.
LEMMA SweepKeepsAccount ==
  ASSUME SweepInv
  PROVE  GroupsBounded /\ RowsTrue /\ HangsTimedOut
<1>1. GroupsBounded
  <2> DEFINE Live == {i \in Selected : Alive(slots[i])}
  <2>1. SweepTypes /\ RunsInv /\ Cases \in Nat /\ Selected = 1..Cases /\ Jobs \in Nat
    BY SweepAssumption DEF SweepInv, Selected
  <2>2. Live \in SUBSET RunningSlots
    <3> SUFFICES ASSUME NEW i \in Selected, Alive(slots[i]) PROVE i \in RunningSlots
      OBVIOUS
    <3>1. RunOf(slots[i]) /\ i \in DOMAIN slots
      BY <2>1 DEF RunsInv, SweepTypes
    <3> QED BY <3>1 DEF RunOf, Alive, InGroup, RunningSlots
  <2> HIDE DEF Live
  <2>3. RunningSlots \in SUBSET (1..Cases)
    BY <2>1 DEF RunningSlots, SweepTypes
  <2>4. IsFiniteSet(1..Cases)
    BY <2>1, FS_Interval
  <2>5. IsFiniteSet(RunningSlots)
    BY <2>3, <2>4, FS_Subset
  <2>6. IsFiniteSet(Live) /\ Cardinality(Live) <= Cardinality(RunningSlots)
    BY <2>2, <2>5, FS_Subset
  <2>7. Cardinality(Live) \in Nat
    BY <2>6, FS_CardinalityType
  <2>8. Cardinality(RunningSlots) \in Nat
    BY <2>5, FS_CardinalityType
  <2>9. Cardinality(Live) <= Jobs
    BY <2>1, <2>6, <2>7, <2>8 DEF RunsInv
  <2> QED BY <2>9 DEF GroupsBounded, Live
<1>2. RowsTrue /\ HangsTimedOut
  BY DEF SweepInv, PassInv, RowsTrue, HangsTimedOut
<1> QED BY <1>1, <1>2

-----------------------------------------------------------------------------
(* The parts side by side (MCSettling) *)

SettlingInv ==
  /\ part = "combinators" => CombInv
  /\ part = "disposables" => DispInv
  /\ part = "streams" => WebInv
  /\ part = "datagrams" => DgramInv
  /\ part = "children" => ChildInv
  /\ part = "sweep" => SweepInv

\* Whichever part a behaviour is about, it begins with that part's invariant.
LEMMA SettlingStarts == Init => SettlingInv
<1> SUFFICES ASSUME Init PROVE SettlingInv
  OBVIOUS
<1>1. part = "combinators" => CombInv
  BY CombStarts DEF Init
<1>2. part = "disposables" => DispInv
  BY DispStarts DEF Init
<1>3. part = "streams" => WebInv
  BY WebStarts DEF Init
<1>4. part = "datagrams" => DgramInv
  BY DgramStarts DEF Init
<1>5. part = "children" => ChildInv
  BY ChildStarts DEF Init
<1>6. part = "sweep" => SweepInv
  BY SweepBegins DEF Init
<1> QED BY <1>1, <1>2, <1>3, <1>4, <1>5, <1>6 DEF SettlingInv

\* A step is a step of the part the behaviour is about, and of no other.
LEMMA PartsStep ==
  ASSUME [Next]_vars
  PROVE  /\ part' = part
         /\ part = "combinators" => [CombNext]_combVars
         /\ part # "combinators" => UNCHANGED combVars
         /\ part = "disposables" => [DispNext]_dispVars
         /\ part # "disposables" => UNCHANGED dispVars
         /\ part = "streams" => [WebNext]_webVars
         /\ part = "datagrams" => [DgramNext]_dgramVars
         /\ part = "children" => [ChildNext]_childVars
         /\ part = "sweep" => [SweepNext]_sweepVars
<1>1. CASE UNCHANGED vars
  BY <1>1 DEF vars
<1>2. CASE CombinatorsPart
  BY <1>2 DEF CombinatorsPart, Others
<1>3. CASE DisposablesPart
  BY <1>3 DEF DisposablesPart, Others
<1>4. CASE WebStreamsPart
  BY <1>4 DEF WebStreamsPart, Others
<1>5. CASE ChildrenPart
  BY <1>5 DEF ChildrenPart, Others
<1>6. CASE DatagramsPart
  BY <1>6 DEF DatagramsPart, Others
<1>7. CASE SweepPart
  BY <1>7 DEF SweepPart, Others
<1> QED BY <1>1, <1>2, <1>3, <1>4, <1>5, <1>6, <1>7 DEF Next

\* A step keeps the invariant of the part it is about.
LEMMA SettlingSteps ==
  ASSUME SettlingInv, [Next]_vars
  PROVE  SettlingInv'
<1>1. part' = part
  BY PartsStep
<1>2. CASE part = "combinators"
  <2>1. CombInv'
    BY <1>2, PartsStep, CombSteps DEF SettlingInv
  <2> QED BY <1>1, <1>2, <2>1 DEF SettlingInv
<1>3. CASE part = "disposables"
  <2>1. DispInv'
    BY <1>3, PartsStep, DispSteps DEF SettlingInv
  <2> QED BY <1>1, <1>3, <2>1 DEF SettlingInv
<1>4. CASE part = "streams"
  <2>1. WebInv'
    BY <1>4, PartsStep, WebSteps DEF SettlingInv
  <2> QED BY <1>1, <1>4, <2>1 DEF SettlingInv
<1>5. CASE part = "datagrams"
  <2>1. DgramInv'
    BY <1>5, PartsStep, DgramSteps DEF SettlingInv
  <2> QED BY <1>1, <1>5, <2>1 DEF SettlingInv
<1>6. CASE part = "children"
  <2>1. ChildInv'
    BY <1>6, PartsStep, ChildSteps DEF SettlingInv
  <2> QED BY <1>1, <1>6, <2>1 DEF SettlingInv
<1>7. CASE part = "sweep"
  <2>1. SweepInv'
    BY <1>7, PartsStep, SweepSteps DEF SettlingInv
  <2> QED BY <1>1, <1>7, <2>1 DEF SettlingInv
<1>8. CASE part \notin {"combinators", "disposables", "streams", "datagrams", "children", "sweep"}
  BY <1>1, <1>8 DEF SettlingInv
<1> QED BY <1>2, <1>3, <1>4, <1>5, <1>6, <1>7, <1>8

\* The inductive invariant of the composition holds in every state.
THEOREM SettlingHolds == Spec => []SettlingInv
<1>1. Init => SettlingInv
  BY SettlingStarts
<1>2. SettlingInv /\ [Next]_vars => SettlingInv'
  BY SettlingSteps
<1> QED BY <1>1, <1>2, PTL DEF Spec

\* Whatever the order of answers, throws, reads and packets, a combinator answers by
\* its rule and hands its array over once (engine-prelude.js), a stack disposes of
\* every resource once and in reverse, chunks and datagrams arrive whole, in order and
\* once, nobody waits on a stream that ended, and the loop polls the open sockets
\* (prelude.js, dgram.js).
THEOREM OrderKept == Spec => []SettledInOrder
<1>1. SettlingInv => SettledInOrder
  BY CombKeepsRule, CombHandsOnce, DispKeepsOrder, WebKeepsOrder, DgramKeepsOrder DEF SettlingInv, SettledInOrder
<1> QED BY <1>1, SettlingHolds, PTL

\* Fork bombs stop at the depth and the count, a child tells one story that is the
\* process's own, the table of workers agrees with the exits announced
\* (child_process.js, cluster.js); a sweep's groups are bounded, each case has its
\* true row, and what is confirmed is what timed out (node-compat-sweep.ts).
THEOREM AccountsKept == Spec => []ProcessesAccounted
<1>1. SettlingInv => ProcessesAccounted
  BY ChildKeepsStory, SweepKeepsAccount DEF SettlingInv, ProcessesAccounted
<1> QED BY <1>1, SettlingHolds, PTL

\* No step writes an array that a combinator has handed over, and none starts a second
\* disposer of a stack while the promise of the first is awaited (engine-prelude.js).
THEOREM ResultsStay == Spec => ResultsKept
<1> DEFINE ArrayKept == (\E k \in DOMAIN cap : cap[k].by = "whole") /\ Ordinary' => out' = out
           OneAtATime == \A s \in Stacks : mode = "async" /\ awaiting[s] = "promise" => running'[s] = running[s]
<1>1. SettlingInv /\ [Next]_vars => [ArrayKept]_combVars
  <2> SUFFICES ASSUME SettlingInv, [Next]_vars PROVE [ArrayKept]_combVars
    OBVIOUS
  <2>1. CASE part = "combinators"
    <3>1. CombInv /\ [CombNext]_combVars
      BY <2>1, PartsStep DEF SettlingInv
    <3> QED BY <3>1, CombKeepsResult
  <2>2. CASE part # "combinators"
    BY <2>2, PartsStep
  <2> QED BY <2>1, <2>2
<1>2. SettlingInv /\ [Next]_vars => [OneAtATime]_dispVars
  <2> SUFFICES ASSUME SettlingInv, [Next]_vars PROVE [OneAtATime]_dispVars
    OBVIOUS
  <2>1. CASE part = "disposables"
    <3>1. DispInv /\ [DispNext]_dispVars
      BY <2>1, PartsStep DEF SettlingInv
    <3> QED BY <3>1, DispNoOverlap
  <2>2. CASE part # "disposables"
    BY <2>2, PartsStep
  <2> QED BY <2>1, <2>2
<1>3. ResultsKept <=> [][ArrayKept]_combVars /\ [][OneAtATime]_dispVars
  BY DEF ResultsKept, ResultKept, NoOverlap
<1> HIDE DEF ArrayKept, OneAtATime
<1>4. Spec => [][ArrayKept]_combVars /\ [][OneAtATime]_dispVars
  BY <1>1, <1>2, SettlingHolds, PTL DEF Spec
<1> QED BY <1>3, <1>4
==============================================================================
