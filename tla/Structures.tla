----------------------------- MODULE Structures -----------------------------
(***************************************************************************)
(* The walks of a graph of objects: deepEq and partialEq of lib/assert.js, *)
(* structuredClone, JSON.stringify and JSON.parse's reviver of             *)
(* lib/engine-prelude.js, and the structuredClone that lib/prelude.js puts *)
(* in its place in the runtime.  An object is a number of `graph`, other   *)
(* values are leaves; what an object holds is a function from its keys:    *)
(* "a" and "b" (the two places of an array), the keys of a map, a set's    *)
(* members.                                                                *)
(***************************************************************************)
EXTENDS Integers, Sequences, SequencesExt, FiniteSets, FiniteSetsExt, Functions

VARIABLES graph,       \* object -> its kind and what it holds
          hook,        \* what JSON.stringify is given: "none", "allow a", "drops b"
          transfer     \* structuredClone's transfer list

structVars == <<graph, hook, transfer>>

Objects == DOMAIN graph
IsObject(v) == v \in Objects
Kind(v) == graph[v].kind
Holds(v) == graph[v].holds
KeysOf(v) == DOMAIN Holds(v)
Leaf == 100            \* a number,
Numeral == 101         \* and the text that == finds equal to it
Loosely(v) == IF v = Numeral THEN Leaf ELSE v
-----------------------------------------------------------------------------
(* deepEq.  `seen` holds the pairs met so far, which are taken for equal. *)

RECURSIVE deepEq(_, _, _, _)
deepEq(a, b, strict, seen) ==
    LET Child(s, k) == IF ~s.eq THEN s ELSE deepEq(Holds(a)[k], Holds(b)[k], strict, s.seen)
        Says(eq) == [eq |-> eq, seen |-> seen]
    IN  IF a = b \/ (~strict /\ ~IsObject(a) /\ ~IsObject(b)) THEN Says(Loosely(a) = Loosely(b))
        ELSE IF ~IsObject(a) \/ ~IsObject(b) \/ Kind(a) # Kind(b) \/ Kind(a) = "function"
             THEN Says(FALSE)
        ELSE IF <<a, b>> \in seen THEN Says(TRUE)
        ELSE IF Kind(a) \in {"date", "set"} THEN Says(Holds(a) = Holds(b))
        ELSE IF KeysOf(a) # KeysOf(b) THEN Says(FALSE)
        ELSE FoldLeft(Child, [eq |-> TRUE, seen |-> seen \cup {<<a, b>>}], SetToSeq(KeysOf(a)))
deepEqual(a, b, strict) == deepEq(a, b, strict, {}).eq

\* partialEq, which keeps no pairs: it is asked of an `expected` without cycles.
RECURSIVE partialEq(_, _)
partialEq(actual, expected) ==
    \/ actual = expected
    \/ /\ IsObject(actual) /\ IsObject(expected)
       /\ Kind(expected) = "array" => Kind(actual) = "array"
       /\ Kind(expected) \in {"object", "array"} =>
            /\ Kind(actual) \in {"object", "array"}
            /\ \A k \in KeysOf(expected) :
                 k \in KeysOf(actual) /\ partialEq(Holds(actual)[k], Holds(expected)[k])
-----------------------------------------------------------------------------
(* structuredClone of the engine.  `memo` leads from an object to its clone, `made` from
   a clone to what it is. *)

Fresh(st) == 1000 + Cardinality(DOMAIN st.made)
Memo(st, v, node) ==
    [st EXCEPT !.memo = @ @@ (v :> Fresh(st)), !.made = @ @@ (Fresh(st) :> node)]
RECURSIVE cloneVal(_, _)
\* What st answers for v, after cloning it.
Answer(st, v) == IF IsObject(v) THEN st.memo[v] ELSE v
cloneVal(st, v) ==
    LET begun == Memo(st, v, [kind |-> Kind(v), holds |-> <<>>])
        id == Fresh(st)
        Entry(s, k) ==
            LET keyed == IF Kind(v) = "map" THEN cloneVal(s, k) ELSE s
                valued == cloneVal(keyed, Holds(v)[k])
                key == IF Kind(v) = "map" \/ Kind(v) = "set" THEN Answer(valued, k) ELSE k
            IN  IF ~valued.ok THEN valued
                ELSE [valued EXCEPT !.made[id].holds = @ @@ (key :> Answer(valued, Holds(v)[k]))]
    IN  IF ~st.ok \/ ~IsObject(v) \/ v \in DOMAIN st.memo THEN st
        ELSE IF Kind(v) = "function" THEN [st EXCEPT !.ok = FALSE]
        ELSE IF Kind(v) \in {"date", "buffer"} THEN Memo(st, v, graph[v])
        ELSE IF Kind(v) = "view"
             THEN LET copied == Memo(st, v, [kind |-> "view", holds |-> "buffer" :> (id + 1)])
                  IN  [copied EXCEPT !.made = @ @@ ((id + 1) :> [kind |-> "buffer", holds |-> <<>>])]
        ELSE FoldLeft(Entry, begun, SetToSeq(KeysOf(v)))
Clone(v) == cloneVal([memo |-> <<>>, made |-> <<>>, ok |-> TRUE], v)

\* The transfer list, once the clone is made: one buffer after the other, until one is
\* detached already or is none.
Detach(s, v) ==
    IF ~s.ok THEN s
    ELSE IF ~IsObject(v) \/ Kind(v) # "buffer" \/ v \in s.detached THEN [s EXCEPT !.ok = FALSE]
    ELSE [s EXCEPT !.detached = @ \cup {v}]
Transferred == FoldLeft(Detach, [ok |-> TRUE, detached |-> {}], transfer)
-----------------------------------------------------------------------------
(* JSON.  A text is the tree it stands for; "none" is what has no text. *)

Dropped == 99          \* undefined, which the hook answers
Tree(t, parts) == [t |-> t, parts |-> parts]
None == Tree("none", <<>>)
Null == Tree("null", <<>>)
Written(v) == Tree("leaf", "v" :> v)
Hooked(k, v) == IF hook = "drops b" /\ k = "b" THEN Dropped ELSE v
Serialised(v, k) == hook = "allow a" /\ Kind(v) = "object" => k = "a"
Parts(v) ==
    IF Kind(v) = "array" THEN IF "b" \in KeysOf(v) THEN {"a", "b"} ELSE KeysOf(v)
    ELSE IF Kind(v) = "object" THEN {k \in KeysOf(v) : Serialised(v, k)}
    ELSE {}
Part(v, k) == IF k \in KeysOf(v) THEN Hooked(k, Holds(v)[k]) ELSE Dropped

(* Mutant of Popped: an object stays on the stack when it is done. *)
Popped_Stays(stack, v) == Append(stack, v)
Popped(stack, v) == stack
RECURSIVE ser(_, _)
\* The text of v, the stack of the objects on the way to it, and whether it failed.
ser(v, stack) ==
    LET Element(s, k) ==
            LET r == ser(Part(v, k), s.stack)
                keeps == r.tree # None
                tree == IF keeps THEN r.tree ELSE Null
            IN  IF s.circular THEN s
                ELSE [s EXCEPT !.circular = r.circular, !.stack = r.stack,
                               !.parts = IF keeps \/ Kind(v) = "array" THEN @ @@ (k :> tree) ELSE @]
        all == FoldLeft(Element, [circular |-> FALSE, stack |-> Append(stack, v), parts |-> <<>>],
                        SetToSeq(Parts(v)))
    IN  IF ~IsObject(v)
        THEN [tree |-> IF v = Dropped THEN None ELSE Written(v), circular |-> FALSE,
              stack |-> stack]
        ELSE IF Kind(v) = "function" THEN [tree |-> None, circular |-> FALSE, stack |-> stack]
        ELSE IF Kind(v) = "date"
             THEN [tree |-> Written(Leaf), circular |-> FALSE, stack |-> stack]
        ELSE IF v \in ToSet(stack) THEN [tree |-> None, circular |-> TRUE, stack |-> stack]
        ELSE [tree |-> Tree(IF Kind(v) = "array" THEN "array" ELSE "object", all.parts),
              circular |-> all.circular, stack |-> Popped(stack, v)]
stringify(v) == ser(v, <<>>)

\* The structuredClone of the runtime: a text and back.  What has no text, and what comes
\* back to itself, throws; of the rest the clone is a tree.
textClone(v) == LET r == stringify(v) IN [ok |-> ~r.circular /\ r.tree # None, tree |-> r.tree]

\* parse's walk with a reviver that answers undefined for a leaf `gone`: children first,
\* the entries that have become undefined are deleted.
RECURSIVE walk(_, _)
walk(tree, gone) ==
    LET kept == {k \in DOMAIN tree.parts : walk(tree.parts[k], gone) # None}
    IN  IF tree.t \in {"object", "array"}
        THEN Tree(tree.t, [k \in kept |-> walk(tree.parts[k], gone)])
        ELSE IF tree = Written(gone) THEN None ELSE tree
-----------------------------------------------------------------------------
Held(keys, values) == UNION {[K -> values] : K \in SUBSET keys}
Node(kind, holds) == [kind |-> kind, holds |-> holds]
Values123 == {1, 2, 3, Leaf}
Plain(kind, keys, values) == {Node(kind, h) : h \in Held(keys, values)}
Sets == {Node("set", [m \in S |-> m]) : S \in SUBSET {2, 3, Leaf}}
Others == Plain("object", {"a"}, {1, 2, 3, Leaf, Numeral}) \cup Plain("map", {2}, Values123)
          \cup Plain("map", {Leaf}, Values123) \cup Sets
          \cup {Node("date", "t" :> Leaf), Node("date", "t" :> 102), Node("function", <<>>),
                Node("view", "buffer" :> 3)}
Three(first, second, third) == {<<x, y, z>> : x \in first, y \in second, z \in third}
Nothing == <<Node("object", <<>>), Node("object", <<>>), Node("buffer", <<>>)>>
StructIdle == graph = Nothing /\ hook = "none" /\ transfer = <<>>
StructInit ==
    \/ /\ graph \in Three(Plain("object", {"a", "b"}, Values123),
                          Plain("object", {"a", "b"}, Values123) \cup Plain("array", {"a", "b"}, Values123),
                          Plain("object", {"a"}, Values123))
       /\ hook \in {"none", "allow a", "drops b"} /\ transfer = <<>>
    \/ /\ graph \in Three(Others, Others, {Node("buffer", <<>>), Node("function", <<>>)} \cup Sets)
       /\ hook = "none" /\ transfer = <<>>
    \/ graph = Nothing /\ hook = "none" /\ transfer \in UNION {[1..n -> {1, 3, Leaf}] : n \in 0..3}
-----------------------------------------------------------------------------
\* The greatest relation of objects that hold related values under the same keys.
Related(x, y, R, strict) ==
    IF IsObject(x) /\ IsObject(y) THEN <<x, y>> \in R
    ELSE IF strict THEN x = y ELSE Loosely(x) = Loosely(y)
Alike(x, y, R, strict) ==
    \/ x = y
    \/ /\ Kind(x) = Kind(y) /\ Kind(x) # "function" /\ KeysOf(x) = KeysOf(y)
       /\ \A k \in KeysOf(x) :
            IF Kind(x) \in {"date", "set"} THEN Holds(x)[k] = Holds(y)[k]
            ELSE Related(Holds(x)[k], Holds(y)[k], R, strict)
RECURSIVE Refined(_, _)
Refined(R, strict) ==
    LET less == {p \in R : Alike(p[1], p[2], R, strict)}
    IN  IF less = R THEN R ELSE Refined(less, strict)
\* deepEqual holds of two graphs exactly when no path of keys tells them apart, cycles
\* and sharing included (the keys of maps and the members of sets being compared by
\* identity).
DeepEqualTells ==
    \A strict \in BOOLEAN :
        deepEqual(1, 2, strict) <=> <<1, 2>> \in Refined(Objects \X Objects, strict)

RECURSIVE Grown(_, _)
Grown(S, E) ==
    LET more == S \cup {e[2] : e \in {e \in E : e[1] \in S}}
    IN  IF more = S THEN S ELSE Grown(more, E)
\* Where a walk that follows the edges E leads, and whether it comes back.
After(v, E) == Grown({e[2] : e \in {e \in E : e[1] = v}}, E)
Circular(v, E) == \E x \in {v} \cup After(v, E) : x \in After(x, E)
Edges == UNION {{<<x, y>> : y \in (Range(Holds(x)) \cup (IF Kind(x) = "map" THEN KeysOf(x) ELSE {}))
                             \cap Objects} : x \in Objects}
Objective(v) == \A x \in {v} \cup After(v, Edges) : Kind(x) = "object"
\* Without cycles, what is deeply equal matches partially, and two graphs of plain
\* objects that match each other partially are deeply equal.
PartialIsOrder ==
    ~Circular(1, Edges) /\ ~Circular(2, Edges) =>
        /\ deepEqual(1, 2, TRUE) => partialEq(1, 2) /\ partialEq(2, 1)
        /\ Objective(1) /\ Objective(2) /\ partialEq(1, 2) /\ partialEq(2, 1) => deepEqual(1, 2, TRUE)

\* A clone of the engine is its original over again, cycles and sharing too - one object for each that
\* can be reached, holding the clones of what it held - unless a function can be
\* reached, which fails.  (A view is cloned with a buffer of its own.)
CloneIsCopy ==
    LET st == Clone(1)
        walked == {e \in Edges : Kind(e[1]) # "view"}
        reached == {1} \cup After(1, walked)
    IN  /\ st.ok <=> \A v \in reached : Kind(v) # "function"
        /\ st.ok =>
             /\ DOMAIN st.memo = reached /\ IsInjective(st.memo)
             /\ Range(st.memo) \cap Objects = {}
             /\ \A v \in reached : Kind(v) # "view" =>
                  LET copy == st.made[st.memo[v]]
                      Place(k) == IF Kind(v) \in {"map", "set"} THEN Answer(st, k) ELSE k
                  IN  /\ copy.kind = Kind(v)
                      /\ DOMAIN copy.holds = {Place(k) : k \in KeysOf(v)}
                      /\ \A k \in KeysOf(v) : copy.holds[Place(k)] = Answer(st, Holds(v)[k])

\* Every buffer of an accepted transfer list is detached, and none is named twice.
TransfersAll ==
    /\ Transferred.ok => Transferred.detached = ToSet(transfer) /\ IsInjective(transfer)
    /\ Transferred.detached \subseteq ToSet(transfer)

\* A text is refused exactly if what is serialised comes back to an object still being
\* serialised - one met again beside itself is written again - and then says what
\* the graph holds; nothing stays on the stack.
JsonKind(v) == IsObject(v) /\ Kind(v) \notin {"function", "date"}
JsonEdges == UNION {{<<v, Part(v, k)>> : k \in {k \in Parts(v) : JsonKind(Part(v, k))}} : v \in Objects}
RECURSIVE Tells(_, _)
Tells(tree, v) ==
    IF v = Dropped THEN tree = None
    ELSE IF ~IsObject(v) THEN tree = Written(v)
    ELSE IF ~JsonKind(v) THEN tree = (IF Kind(v) = "date" THEN Written(Leaf) ELSE None)
    ELSE /\ tree.t = IF Kind(v) = "array" THEN "array" ELSE "object"
         /\ \A k \in Parts(v) :
              IF k \in DOMAIN tree.parts
              THEN Tells(tree.parts[k], Part(v, k)) \/ (tree.parts[k] = Null /\ Tells(None, Part(v, k)))
              ELSE Kind(v) # "array" /\ Tells(None, Part(v, k))
TextTells ==
    LET r == stringify(1)
    IN  IF JsonKind(1)
        THEN /\ r.circular <=> Circular(1, JsonEdges)
             /\ ~r.circular => Tells(r.tree, 1) /\ r.stack = <<>>
        ELSE Tells(r.tree, 1)

\* A reviver that takes leaves away leaves the rest of the tree as it is.
RECURSIVE Without(_, _)
Without(tree, gone) ==
    IF tree.t = "leaf" THEN tree # Written(gone)
    ELSE \A k \in DOMAIN tree.parts : Without(tree.parts[k], gone)
RevivedWhole ==
    LET tree == stringify(1).tree
    IN  JsonKind(1) /\ ~stringify(1).circular =>
            /\ Without(walk(tree, Leaf), Leaf) /\ walk(tree, Numeral + 1) = tree
            /\ DOMAIN walk(tree, Leaf).parts = {k \in DOMAIN tree.parts : tree.parts[k] # Written(Leaf)}

\* What a clone says when every path of keys is followed; a place of an array that has
\* nothing says null.
RECURSIVE Unfolded(_, _)
Unfolded(st, x) ==
    LET node == st.made[x]
        keys == DOMAIN node.holds
        places == IF node.kind = "array" /\ "b" \in keys THEN {"a", "b"} ELSE keys
    IN  IF x \notin DOMAIN st.made THEN Written(x)
        ELSE Tree(node.kind, [k \in places |-> IF k \in keys THEN Unfolded(st, node.holds[k]) ELSE Null])
\* The runtime's clone throws exactly for a function and for what comes back to itself,
\* and of plain objects and arrays it holds under each path of keys what the engine's does.
TextCloneTells ==
    LET st == Clone(1)
        text == textClone(1)
    IN  hook = "none" =>
        /\ text.ok <=> Kind(1) # "function" /\ ~Circular(1, JsonEdges)
        /\ text.ok /\ (\A v \in {1} \cup After(1, Edges) : Kind(v) \in {"object", "array"}) =>
              st.ok /\ text.tree = Unfolded(st, st.memo[1])

StructuresWalked == /\ DeepEqualTells /\ PartialIsOrder /\ CloneIsCopy /\ TextCloneTells
                    /\ TransfersAll /\ TextTells /\ RevivedWhole

\* structuredClone "preserves the shape of the reference graph: a cycle stays a cycle [...]
\* it is the whole reason this cannot be `JSON.parse(JSON.stringify(x))`"
\* (engine-prelude.js:1350), which is what it is in the runtime (prelude.js:299).
CyclesCloned == hook = "none" /\ Clone(1).ok => textClone(1).ok
StructNext == UNCHANGED structVars
=============================================================================
