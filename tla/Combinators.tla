---------------------------- MODULE Combinators ----------------------------
(***************************************************************************)
(* Promise.all, allSettled, any and race, which exist twice: the engine on *)
(* its own has those of lib/engine-prelude.js, the runtime runs            *)
(* lib/prelude.js after it and so has those.  Each collects its elements   *)
(* and subscribes two callbacks to every one of them, and hands its answer *)
(* to a capability (a promise with its resolve and reject), which the      *)
(* engine's ask the receiver for and the runtime's make themselves.        *)
(* A promise calls one of its callbacks, once, later.  An object with a    *)
(* `then` of its own may call them at once and may call them again: the    *)
(* engine's hand it their callbacks, the runtime's wrap it in a promise    *)
(* first (Promise.resolve of prelude.js).  Reading its `then` may throw.   *)
(* The engine's collect any iterable, the runtime's what has a length.     *)
(***************************************************************************)
EXTENDS Integers, Sequences, FiniteSets

CONSTANTS Elements,     \* the largest number of elements
          MaxCalls      \* callbacks one foreign element makes

ASSUME CombinatorAssumption == Elements \in Nat /\ MaxCalls \in Nat

Methods == {"all", "allSettled", "any", "race"}
Hole == "hole"          \* an index of the result array nobody wrote

VARIABLES method,       \* the combinator called
          host,         \* whose it is: "engine" or "runtime"
          unread,       \* the argument is an iterable without a length (a Set, a generator), and the runtime's
          kinds,        \* what each element is: "promise", "foreign", "throws"
          subscribed,   \* elements the loop has passed
          looping,      \* the combinator has not returned yet
          remaining,    \* its count down
          out,          \* the array of values, outcomes or errors
          cap,          \* the calls made to the capability's two functions
          called        \* the callbacks the elements called, in order

combVars == <<method, host, unread, kinds, subscribed, looping, remaining, out, cap, called>>

n == Len(kinds)

\* One state of the closures' shared variables.
Shared == [remaining |-> remaining, out |-> out, cap |-> cap]

Settled(s, way, by, what) ==
    [s EXCEPT !.cap = Append(@, [way |-> way, by |-> by, what |-> what])]

\* Mutant of CountDown: the count is not held back while a callback is pending
\* (starts the settling one call early).
CountDown_Early(s, i, side, way) ==
    LET t == [s EXCEPT !.out[i] = side, !.remaining = @ - 1]
    IN  IF t.remaining <= 1 THEN Settled(t, way, "whole", t.out) ELSE t

\* out[idx] = ...; remaining--; and the settling call when the count is zero.
CountDown(s, i, side, way) ==
    LET t == [s EXCEPT !.out[i] = side, !.remaining = @ - 1]
    IN  IF t.remaining = 0 THEN Settled(t, way, "whole", t.out) ELSE t

All(s, i, side)        == IF side = "f" THEN CountDown(s, i, side, "resolve")
                                        ELSE Settled(s, "reject", "one", i)
AllSettled(s, i, side) == CountDown(s, i, side, "resolve")
Any(s, i, side)        == IF side = "r" THEN CountDown(s, i, side, "reject")
                                        ELSE Settled(s, "resolve", "one", i)
Race(s, i, side)       == Settled(s, IF side = "f" THEN "resolve" ELSE "reject", "one", i)

Callback(s, i, side) == CASE method = "all"        -> All(s, i, side)
                          [] method = "allSettled" -> AllSettled(s, i, side)
                          [] method = "any"        -> Any(s, i, side)
                          [] method = "race"       -> Race(s, i, side)

\* An empty list is answered at once, except by race, which stays pending.  One the
\* runtime cannot read looks empty to all and allSettled; any counts down from
\* `undefined` and stays pending.
Emptied(m) ==
    IF m = "race" \/ (m = "any" /\ unread) THEN <<>>
    ELSE <<[way |-> IF m = "any" THEN "reject" ELSE "resolve", by |-> "whole", what |-> <<>>]>>

CombInit ==
    /\ method \in Methods
    /\ host \in {"engine", "runtime"} /\ unread \in BOOLEAN
    /\ unread => host = "runtime" /\ kinds = <<>>
    /\ kinds \in UNION {[1..k -> {"promise", "foreign", "throws"}] : k \in 0..Elements}
    /\ subscribed = 0
    /\ looping = TRUE
    /\ remaining = n
    /\ out = [i \in 1..n |-> Hole]
    /\ cap = <<>>
    /\ called = <<>>

Sides == {"f", "r"}
Turns(i) == Cardinality({k \in DOMAIN called : called[k][1] = i})

Apply(s) == /\ remaining' = s.remaining
            /\ out' = s.out
            /\ cap' = s.cap

\* Who holds the callbacks themselves: not an element the runtime has wrapped.
Foreign(i) == host = "engine" /\ kinds[i] = "foreign"

\* resolveFn.call(C, item).then(f, r), for the next element.  A promise keeps
\* the callbacks for later; a foreign `then` may call one before it returns.
Subscribe ==
    /\ looping /\ subscribed < n /\ kinds[subscribed + 1] # "throws"
    /\ subscribed' = subscribed + 1
    /\ \/ UNCHANGED <<called, remaining, out, cap>>
       \/ \E side \in Sides :
             /\ Foreign(subscribed + 1)
             /\ called' = Append(called, <<subscribed + 1, side>>)
             /\ Apply(Callback(Shared, subscribed + 1, side))
    /\ UNCHANGED <<method, host, unread, kinds, looping>>

\* Collecting the elements throws, or the `then` of one does: the catch rejects, or
\* the promise whose executor this is does, and no further element is subscribed.
SubscribeThrows ==
    /\ looping
    /\ (subscribed = 0 /\ ~unread) \/ (subscribed < n /\ kinds[subscribed + 1] = "throws")
    /\ looping' = FALSE
    /\ Apply(Settled(Shared, "reject", "throw", subscribed))
    /\ UNCHANGED <<method, host, unread, kinds, subscribed, called>>

\* The loop is over and the combinator returns its promise.
Return ==
    /\ looping /\ subscribed = n
    /\ looping' = FALSE
    /\ cap' = IF n = 0 THEN Emptied(method) ELSE cap
    /\ UNCHANGED <<method, host, unread, kinds, subscribed, remaining, out, called>>

\* An element calls one of its callbacks, in a turn of its own.
ElementCalls(i) ==
    /\ ~looping /\ i <= subscribed
    /\ Turns(i) < (IF Foreign(i) THEN MaxCalls ELSE 1)
    /\ \E side \in Sides :
          /\ called' = Append(called, <<i, side>>)
          /\ Apply(Callback(Shared, i, side))
    /\ UNCHANGED <<method, host, unread, kinds, subscribed, looping>>

CombNext == \/ Subscribe \/ SubscribeThrows \/ Return
            \/ \E i \in 1..Elements : ElementCalls(i)

\* The loop runs to its end.  A promise that is an element is assumed to settle:
\* an element that never answers is the program's affair.
CombFairness == /\ WF_combVars(Subscribe \/ SubscribeThrows \/ Return)
                /\ \A i \in 1..Elements : WF_combVars(ElementCalls(i) /\ Turns(i) = 0)

-----------------------------------------------------------------------------

\* Every element calls back at most once: promises always do.
Ordinary == \A i \in 1..n : Turns(i) <= 1

\* What the rule of a method says of a list of answers: the answer of the first
\* element that decides, or the whole array once every element has answered.
Decides(i_side) == CASE method = "all"        -> i_side[2] = "r"
                     [] method = "allSettled" -> FALSE
                     [] method = "any"        -> i_side[2] = "f"
                     [] method = "race"       -> TRUE
Short(side) == IF side = "f" THEN "resolve" ELSE "reject"
Whole == [i \in 1..n |-> (CHOOSE c \in {called[k] : k \in DOMAIN called} : c[1] = i)[2]]
Verdict ==
    LET deciding == {k \in DOMAIN called : Decides(called[k])}
    IN  IF deciding # {}
        THEN LET k == CHOOSE k \in deciding : \A j \in deciding : k <= j
             IN  [way |-> Short(called[k][2]), by |-> "one", what |-> called[k][1]]
        ELSE [way |-> IF method = "any" THEN "reject" ELSE "resolve", by |-> "whole", what |-> Whole]
Due == \/ \E k \in DOMAIN called : Decides(called[k])
       \/ method # "race" /\ {called[k][1] : k \in DOMAIN called} = 1..n

\* The result is exactly what the method's rule makes of the answers, whatever
\* the order of the answers: pending while the rule is not satisfied, and then
\* the first element that decides, or every element's answer at its own index
\* (engine-prelude.js:2130-2160: `out[idx] = v; remaining--`; prelude.js:84-88).
\* Of elements that answer once: the engine's count a thenable that calls back
\* twice as two.
CombinesByRule ==
    (Ordinary /\ n > 0 /\ \A k \in DOMAIN cap : cap[k].by # "throw") =>
        IF Due THEN cap # <<>> /\ Head(cap) = Verdict ELSE cap = <<>>

\* However often elements call their callbacks, the count reaches zero once: the
\* array of all answers is handed over at most once, also to a capability of the
\* program's own that would notice a second call.
WholeOnce == Cardinality({k \in DOMAIN cap : cap[k].by = "whole"}) <= 1

\* An array a promise was fulfilled or rejected with is not written again while
\* the elements behave: the reader of the result sees it whole.
ResultKept == [][((\E k \in DOMAIN cap : cap[k].by = "whole") /\ Ordinary')
                   => out' = out]_combVars

\* The result settles when the elements do: only an empty race waits for ever, and
\* the runtime's any of an iterable it cannot read.
CombinatorSettles == <>(cap # <<>> \/ (n = 0 /\ (method = "race" \/ (method = "any" /\ unread))))

-----------------------------------------------------------------------------
(* What a caller may expect and the code does not do *)

\* "So they actually wait" (engine-prelude.js:2083; prelude.js:71: "these wait
\* properly"): an answer comes after the elements.  The runtime's all and allSettled
\* answer a Set of pending promises at once, with an empty array.
WaitsForAll == unread => cap = <<>>
=============================================================================
