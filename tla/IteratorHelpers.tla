-------------------------- MODULE IteratorHelpers --------------------------
(***************************************************************************)
(* The helpers on the shared iterator prototype (lib/engine-prelude.js):   *)
(* map, filter, take, drop, chunks, windows, flatMap, Iterator.concat and  *)
(* Iterator.zip, and the methods that consume an iterator.  An iterator is *)
(* an index into a heap; a helper is a record that names the iterators it  *)
(* pulls from.  The program's iterators are sources: a list of values that *)
(* counts how often it was pulled and closed.                              *)
(***************************************************************************)
EXTENDS Integers, Sequences, FiniteSets

CONSTANTS Values,       \* what a source holds
          MaxList,      \* the length of a source's list
          MaxAsks       \* calls the program makes on the pipeline

VARIABLES heap,         \* index -> iterator; the last one is the pipeline
          delivered,    \* the values the program received
          iterEnded,        \* the pipeline has answered done
          returned,     \* the program has closed the pipeline
          asks,         \* calls made
          thrown        \* strict zip has thrown

iterVars == <<heap, delivered, iterEnded, returned, asks, thrown>>

\* The program's callbacks.
Fn(v)   == v + 10
Keep(v) == v % 2 = 1
Sub(v)  == IF v % 2 = 1 THEN <<>> ELSE <<v, v>>

None == [done |-> TRUE]
Some(v) == [done |-> FALSE, value |-> v]

Source(l) == [kind |-> "source", all |-> l, list |-> l, pulls |-> 0, returns |-> 0, closed |-> FALSE]

\* __mkIter: `up` are the iterators next() pulls, `closes` those that return()
\* forwards to.
mkIter(kind, up, closes, size) ==
    [kind |-> kind, up |-> up, closes |-> closes, size |-> size, left |-> size,
     buf |-> <<>>, done |-> FALSE, closed |-> FALSE, live |-> {k \in DOMAIN up : TRUE}]

\* Mutant of ReturnOf: the helper forgets that it was closed.
RECURSIVE ReturnOf_Again(_, _)
ReturnOf_Again(h, i) ==
    IF h[i].kind = "source"
    THEN [h EXCEPT ![i].returns = @ + 1, ![i].closed = TRUE]
    ELSE IF h[i].closes = <<>> THEN h ELSE ReturnOf_Again(h, Head(h[i].closes))

\* o.return: forwards upstream the first time, and is a no-op after.
RECURSIVE ReturnOf(_, _)
ReturnOf(h, i) ==
    IF h[i].kind = "source"
    THEN [h EXCEPT ![i].returns = @ + 1, ![i].closed = TRUE]
    ELSE IF h[i].closed \/ h[i].closes = <<>>
         THEN [h EXCEPT ![i].closed = TRUE]
         ELSE ReturnOf([h EXCEPT ![i].closed = TRUE], Head(h[i].closes))

RECURSIVE CloseAll(_, _)
CloseAll(h, S) ==
    IF S = {} THEN h
    ELSE LET i == CHOOSE i \in S : \A j \in S : i <= j
         IN  CloseAll(ReturnOf(h, i), S \ {i})

\* A source answers its values in turn, and done once it is closed (a generator).
PullSource(h, i) ==
    LET s == h[i]
        g == [h EXCEPT ![i].pulls = @ + 1]
    IN  IF s.closed \/ s.list = <<>> THEN [heap |-> g, answer |-> None]
        ELSE [heap |-> [g EXCEPT ![i].list = Tail(@)], answer |-> Some(Head(s.list))]

RECURSIVE NextOf(_, _)

\* next() of iterator i's upstream, and what to do with a value.
Pull(h, i) == NextOf(h, Head(h[i].up))
Answers(h, a) == [heap |-> h, answer |-> a]
EndsAt(h, i) == Answers([h EXCEPT ![i].done = TRUE], None)

MapNext(h, i) ==
    LET s == Pull(h, i)
    IN  IF s.answer.done THEN s ELSE Answers(s.heap, Some(Fn(s.answer.value)))

FilterNext(h, i) ==
    LET s == Pull(h, i)
    IN  IF s.answer.done \/ Keep(s.answer.value) THEN s ELSE NextOf(s.heap, i)

TakeNext(h, i) ==
    IF h[i].left <= 0 THEN Answers(h, None)
    ELSE Pull([h EXCEPT ![i].left = @ - 1], i)

DropNext(h, i) ==
    IF h[i].left <= 0 THEN Pull(h, i)
    ELSE LET s == Pull([h EXCEPT ![i].left = @ - 1], i)
         IN  IF s.answer.done THEN s ELSE NextOf(s.heap, i)

\* Collects until the chunk is full; a partial last chunk is still delivered.
ChunksNext(h, i) ==
    IF h[i].done THEN Answers(h, None)
    ELSE IF Len(h[i].buf) = h[i].size
    THEN Answers([h EXCEPT ![i].buf = <<>>], Some(h[i].buf))
    ELSE LET s == Pull(h, i)
         IN  IF ~s.answer.done
             THEN NextOf([s.heap EXCEPT ![i].buf = Append(@, s.answer.value)], i)
             ELSE Answers([s.heap EXCEPT ![i].done = TRUE, ![i].buf = <<>>],
                         IF h[i].buf = <<>> THEN None ELSE Some(h[i].buf))

\* Slides by one; "windows+" is the allow-partial mode, which delivers what was
\* collected when the source ran out.
WindowsNext(h, i) ==
    IF h[i].done THEN Answers(h, None)
    ELSE IF Len(h[i].buf) = h[i].size
    THEN Answers([h EXCEPT ![i].buf = Tail(@)], Some(h[i].buf))
    ELSE LET s == Pull(h, i)
         IN  IF ~s.answer.done
             THEN NextOf([s.heap EXCEPT ![i].buf = Append(@, s.answer.value)], i)
             ELSE Answers([s.heap EXCEPT ![i].done = TRUE],
                         IF h[i].kind = "windows+" /\ h[i].buf # <<>> THEN Some(h[i].buf) ELSE None)

FlatMapNext(h, i) ==
    IF h[i].buf # <<>> THEN Answers([h EXCEPT ![i].buf = Tail(@)], Some(Head(h[i].buf)))
    ELSE LET s == Pull(h, i)
         IN  IF s.answer.done THEN s
             ELSE NextOf([s.heap EXCEPT ![i].buf = Sub(s.answer.value)], i)

ConcatNext(h, i) ==
    IF h[i].up = <<>> THEN Answers(h, None)
    ELSE LET s == Pull(h, i)
         IN  IF s.answer.done THEN NextOf([s.heap EXCEPT ![i].up = Tail(@)], i) ELSE s

\* One row: every live input is pulled, an exhausted one leaves the live set.
RECURSIVE Row(_, _, _, _)
Row(h, i, k, row) ==
    IF k > Len(h[i].up) THEN [heap |-> h, row |-> row]
    ELSE IF k \notin h[i].live THEN Row(h, i, k + 1, Append(row, 0))
    ELSE LET s == NextOf(h, h[i].up[k])
         IN  IF s.answer.done
             THEN Row([s.heap EXCEPT ![i].live = @ \ {k}], i, k + 1, Append(row, 0))
             ELSE Row(s.heap, i, k + 1, Append(row, s.answer.value))

\* The inputs still live are closed when the shortest one is exhausted, and
\* before strict mode throws.
ZipNext(h, i) ==
    IF h[i].done THEN Answers(h, None)
    ELSE LET r == Row(h, i, 1, <<>>)
             live == r.heap[i].live
             all == 1..Len(h[i].up)
             closed == CloseAll(r.heap, {h[i].up[k] : k \in live})
         IN  CASE live = all /\ all # {}                -> Answers(r.heap, Some(r.row))
               [] live = {}                             -> EndsAt(r.heap, i)
               [] live # {} /\ live # all /\ h[i].kind = "shortest" -> EndsAt(closed, i)
               [] live # {} /\ live # all /\ h[i].kind = "strict" ->
                       Answers([closed EXCEPT ![i].done = TRUE], [done |-> TRUE, throws |-> TRUE])
               [] live # {} /\ live # all /\ h[i].kind = "longest" -> Answers(r.heap, Some(r.row))

NextOf(h, i) ==
    CASE h[i].kind = "source"  -> PullSource(h, i)
      [] h[i].kind = "map"     -> MapNext(h, i)
      [] h[i].kind = "filter"  -> FilterNext(h, i)
      [] h[i].kind = "take"    -> TakeNext(h, i)
      [] h[i].kind = "drop"    -> DropNext(h, i)
      [] h[i].kind = "chunks"  -> ChunksNext(h, i)
      [] h[i].kind \in {"windows", "windows+"} -> WindowsNext(h, i)
      [] h[i].kind = "flatMap" -> FlatMapNext(h, i)
      [] h[i].kind = "concat"  -> ConcatNext(h, i)
      [] h[i].kind \in {"shortest", "longest", "strict"} -> ZipNext(h, i)

-----------------------------------------------------------------------------

Linear  == {"map", "filter", "take", "drop", "chunks", "windows", "windows+", "flatMap"}
Sized   == {"take", "drop", "chunks", "windows", "windows+"}
Sizes(kind) == IF kind \in {"take", "drop"} THEN 0..2 ELSE IF kind \in Sized THEN {2} ELSE {0}
Joins   == {"concat", "shortest", "longest", "strict"}
Lists   == UNION {[1..k -> Values] : k \in 0..MaxList}

pipeline == Len(heap)

\* A chain of two helpers over one source, or a helper that joins two sources;
\* concat and zip have no single upstream, so their return() closes nothing.
IterBegins == /\ delivered = <<>> /\ asks = 0
              /\ iterEnded = FALSE /\ returned = FALSE /\ thrown = FALSE
IterInit ==
    /\ \/ \E l \in Lists, a \in Linear, b \in Linear :
          \E m \in Sizes(a), p \in Sizes(b) :
             /\ a \in {"chunks", "windows", "windows+"} => b \in {"take", "drop"}
             /\ a \in {"map", "filter", "flatMap"} => b # a
             /\ heap = << Source(l), mkIter(a, <<1>>, <<1>>, m), mkIter(b, <<2>>, <<2>>, p) >>
       \/ \E l1, l2 \in Lists, j \in Joins :
             heap = << Source(l1), Source(l2), mkIter(j, <<1, 2>>, <<>>, 0) >>
    /\ IterBegins

Asked == asks < MaxAsks /\ asks' = asks + 1

\* The program received `got`, and then `answer` if the pulling stopped at it.
Received(h, got, answer) ==
    /\ heap' = h
    /\ delivered' = delivered \o got
    /\ iterEnded' = (iterEnded \/ answer.done)
    /\ thrown' = (thrown \/ "throws" \in DOMAIN answer)

CallNext ==
    LET s == NextOf(heap, pipeline)
    IN  /\ Asked
        /\ Received(s.heap, IF s.answer.done THEN <<>> ELSE <<s.answer.value>>, s.answer)
        /\ UNCHANGED returned

CallReturn ==
    /\ Asked
    /\ Received(ReturnOf(heap, pipeline), <<>>, [done |-> FALSE])
    /\ returned' = TRUE

\* Pulls until done or until `most` values were received.
RECURSIVE Consume(_, _, _)
Consume(h, most, got) ==
    IF Len(got) = most THEN [heap |-> h, got |-> got, answer |-> [done |-> FALSE]]
    ELSE LET s == NextOf(h, Len(h))
         IN  IF s.answer.done THEN [heap |-> s.heap, got |-> got, answer |-> s.answer]
             ELSE Consume(s.heap, most, Append(got, s.answer.value))

StopsAfter(most, closes) ==
    LET c == Consume(heap, most, <<>>)
        mustClose == closes /\ ~c.answer.done
    IN  /\ Asked
        /\ Received(IF mustClose THEN ReturnOf(c.heap, pipeline) ELSE c.heap, c.got, c.answer)
        /\ returned' = (returned \/ mustClose)

\* toArray, forEach and reduce; an array pattern with a rest element.
toArray == StopsAfter(-1, FALSE)
\* find, some and every stop at the value that decides and leave the rest open.
find == \E k \in 1..2 : StopsAfter(k, FALSE)
\* includes stops at the match and closes.
includes == \E k \in 1..2 : StopsAfter(k, TRUE)
\* An array pattern of k elements pulls k times and closes what has not ended.
iterSteps == \E k \in 0..2 : StopsAfter(k, TRUE)

IterNext == CallNext \/ CallReturn \/ toArray \/ find \/ includes \/ iterSteps

-----------------------------------------------------------------------------

\* What each helper makes of a whole list.  `open`: the list may go on, so what
\* only the end of it decides is left out.
ListOf(kind, m, l, open) ==
    CASE kind = "map"    -> [k \in DOMAIN l |-> Fn(l[k])]
      [] kind = "filter" -> SelectSeq(l, Keep)
      [] kind = "take"   -> SubSeq(l, 1, IF m < Len(l) THEN m ELSE Len(l))
      [] kind = "drop"   -> SubSeq(l, m + 1, Len(l))
      [] kind = "chunks" ->
            LET full == Len(l) \div m
                all == IF open \/ Len(l) % m = 0 THEN full ELSE full + 1
            IN  [k \in 1..all |-> SubSeq(l, (k - 1) * m + 1, IF k * m < Len(l) THEN k * m ELSE Len(l))]
      [] kind \in {"windows", "windows+"} ->
            LET full == [k \in 1..(Len(l) - m + 1) |-> SubSeq(l, k, k + m - 1)]
                tail == SubSeq(l, (IF Len(l) >= m THEN Len(l) - m + 2 ELSE 1), Len(l))
            IN  IF open \/ kind = "windows" \/ tail = <<>> THEN full ELSE Append(full, tail)
      [] kind = "flatMap" ->
            LET F[k \in 0..Len(l)] == IF k = 0 THEN <<>> ELSE F[k - 1] \o Sub(l[k])
            IN  F[Len(l)]

\* The whole of what the pipeline stands for, and its values so far.
Joined(kind, l1, l2) ==
    LET least == IF Len(l1) < Len(l2) THEN Len(l1) ELSE Len(l2)
        most  == IF Len(l1) < Len(l2) THEN Len(l2) ELSE Len(l1)
        at(l, k) == IF k <= Len(l) THEN l[k] ELSE 0
    IN  IF kind = "concat" THEN l1 \o l2
        ELSE [k \in 1..(IF kind = "longest" THEN most ELSE least) |-> <<at(l1, k), at(l2, k)>>]

IsChain == heap[2].kind # "source"
Through(l, open) == LET first == ListOf(heap[2].kind, heap[2].size, l, open)
                    IN  ListOf(heap[3].kind, heap[3].size, first, open)
Whole == IF IsChain THEN Through(heap[1].all, FALSE)
         ELSE Joined(heap[3].kind, heap[1].all, heap[2].all)

\* A pipeline nobody closed delivers the values of the corresponding list
\* operations, in order, however the program mixes next() with the consuming
\* methods; when it says done nothing is missing.
HelpersAgree ==
    ~returned => /\ Len(delivered) <= Len(Whole)
                 /\ delivered = SubSeq(Whole, 1, Len(delivered))
                 /\ iterEnded => delivered = Whole

\* Laziness (engine-prelude.js:257 "take(1) on an endless source pulls exactly
\* one element"): no more is pulled than the shortest beginning of the source that
\* already determines what was delivered, and the pull that finds the end.
Needed == LET enough == {k \in 0..Len(heap[1].all) :
                            Len(Through(SubSeq(heap[1].all, 1, k), TRUE)) >= Len(delivered)}
          IN  IF enough = {} THEN Len(heap[1].all) + 1
              ELSE CHOOSE k \in enough : \A j \in enough : k <= j
HelpersLazy == IsChain /\ ~iterEnded /\ ~returned => heap[1].pulls <= Needed

\* Closing reaches the source exactly once, whatever the chain and whoever asks:
\* the program, an array pattern, or includes (line 284).
ClosedOnce == /\ \A i \in 1..pipeline : heap[i].kind = "source" => heap[i].returns <= 1
              /\ IsChain /\ returned => heap[1].returns = 1

\* When zip is over, or throws, no input is left open: each is exhausted or was
\* closed, once.
ZipClosesRest ==
    heap[3].kind \in {"shortest", "longest", "strict"} /\ heap[3].done =>
        \A k \in 1..2 : (k \in heap[3].live) = (heap[k].returns = 1)
=============================================================================
