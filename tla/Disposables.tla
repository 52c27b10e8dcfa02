---------------------------- MODULE Disposables ----------------------------
(***************************************************************************)
(* DisposableStack and AsyncDisposableStack of lib/engine-prelude.js.  A   *)
(* stack holds disposers; dispose() runs them in reverse order, and the    *)
(* asynchronous form runs each as a job of its own and waits for the       *)
(* promise it returns.  A disposer is program code: it may throw, and it   *)
(* may call back into the stack that is being disposed or into another.    *)
(***************************************************************************)
EXTENDS Integers, Sequences, FiniteSets

CONSTANTS Resources,    \* disposers the program registers
          Stacks        \* stacks it makes

ASSUME DisposablesAssumption == Resources \in Nat /\ Stacks \subseteq Int

VARIABLES mode,         \* "sync" or "async": which of the two classes
          born,         \* the stacks constructed so far
          disposed,     \* stack -> its flag
          stack,        \* stack -> the disposers it holds
          running,      \* stack -> the list dispose() took, the part not yet run
          calls,        \* the dispose() calls in progress, innermost last
          awaiting,     \* async: stack -> the disposer whose promise is pending
          threw,        \* stack -> the disposer whose error is pending, or 0
          verdict,      \* stack -> how its disposal ended: NotYet, 0 or the error
          given,        \* the resources registered so far
          ran,          \* the disposers called, in order
          order         \* stack -> what it was given, in order (moves included)

dispVars == <<mode, born, disposed, stack, running, calls, awaiting, threw, verdict,
              given, ran, order>>

NoOne  == "none"
NotYet == -1
Front(s) == SubSeq(s, 1, Len(s) - 1)
Last(s) == s[Len(s)]

DispInit ==
    /\ mode \in {"sync", "async"}
    /\ born = {s \in Stacks : \E t \in Stacks : s < t}   \* move() makes the last one
    /\ disposed = [s \in Stacks |-> FALSE]
    /\ stack = [s \in Stacks |-> <<>>]
    /\ running = [s \in Stacks |-> <<>>]
    /\ calls = <<>>
    /\ awaiting = [s \in Stacks |-> NoOne]
    /\ threw = [s \in Stacks |-> 0]
    /\ verdict = [s \in Stacks |-> NotYet]
    /\ given = 0
    /\ ran = <<>>
    /\ order = [s \in Stacks |-> <<>>]

\* check(this): a disposed stack takes nothing (it throws a ReferenceError).
Open(s) == s \in born /\ ~disposed[s]

\* use, adopt and defer all push one disposer.
use(s) ==
    /\ Open(s) /\ given < Resources
    /\ given' = given + 1
    /\ stack' = [stack EXCEPT ![s] = Append(@, given')]
    /\ order' = [order EXCEPT ![s] = Append(@, given')]
    /\ UNCHANGED <<mode, born, disposed, running, calls, awaiting, threw, verdict, ran>>

\* The disposers go to a new stack and this one counts as disposed.
move(s) ==
    \E t \in Stacks \ born :
        /\ Open(s)
        /\ born' = born \cup {t}
        /\ stack' = [stack EXCEPT ![t] = stack[s], ![s] = <<>>]
        /\ order' = [order EXCEPT ![t] = order[s], ![s] = <<>>]
        /\ disposed' = [disposed EXCEPT ![s] = TRUE]
        /\ UNCHANGED <<mode, running, calls, awaiting, threw, verdict, given, ran>>

\* The flag goes up and the list is taken before the first disposer runs, so a
\* disposer that asks again finds nothing to do.
Begin(s) ==
    /\ Open(s)
    /\ disposed' = [disposed EXCEPT ![s] = TRUE]
    /\ running' = [running EXCEPT ![s] = stack[s]]
    /\ stack' = [stack EXCEPT ![s] = <<>>]

dispose(s) ==
    /\ mode = "sync" /\ Begin(s)
    /\ calls' = Append(calls, s)
    /\ UNCHANGED <<mode, born, awaiting, threw, verdict, given, ran, order>>

disposeAsync(s) ==
    /\ mode = "async" /\ Begin(s)
    /\ awaiting' = [awaiting EXCEPT ![s] = "step"]
    /\ UNCHANGED <<mode, born, calls, threw, verdict, given, ran, order>>

\* The loop of dispose(): the next disposer returns or throws.  What it calls in
\* between are the other actions of this module.
RunNext ==
    /\ calls # <<>>
    /\ LET s == Last(calls)
       IN  /\ running[s] # <<>>
           /\ ran' = Append(ran, Last(running[s]))
           /\ running' = [running EXCEPT ![s] = Front(@)]
           /\ \E fails \in BOOLEAN :
                 threw' = IF fails THEN [threw EXCEPT ![s] = Last(running[s])] ELSE threw
    /\ UNCHANGED <<mode, born, disposed, stack, calls, awaiting, verdict, given, order>>

\* `if (threw) throw pending`: the error leaves dispose(), and if a disposer had
\* called it, that disposer throws it in its turn.
Leave ==
    /\ calls # <<>>
    /\ LET s == Last(calls)
           outer == Front(calls)
       IN  /\ running[s] = <<>>
           /\ verdict' = [verdict EXCEPT ![s] = threw[s]]
           /\ calls' = outer
           /\ \/ threw' = threw
              \/ /\ outer # <<>> /\ threw[s] # 0
                 /\ threw' = [threw EXCEPT ![Last(outer)] = threw[s]]
    /\ UNCHANGED <<mode, born, disposed, stack, running, awaiting, given, ran, order>>

\* Mutant of Step: does not wait for the disposer's promise.
Step_Overlaps(s) ==
    /\ awaiting[s] \in {"step", "promise"} /\ running[s] # <<>>
    /\ awaiting' = [awaiting EXCEPT ![s] = "promise"]
    /\ ran' = Append(ran, Last(running[s]))
    /\ running' = [running EXCEPT ![s] = Front(@)]
    /\ UNCHANGED <<mode, born, disposed, stack, calls, threw, verdict, given, order>>

\* step(), as a job: calls the next disposer, whose promise is awaited, or ends
\* the disposal.  A disposer that throws at once is a promise already rejected.
Step(s) ==
    /\ awaiting[s] = "step"
    /\ IF running[s] = <<>>
       THEN /\ verdict' = [verdict EXCEPT ![s] = threw[s]]
            /\ awaiting' = [awaiting EXCEPT ![s] = NoOne]
            /\ UNCHANGED <<running, ran>>
       ELSE /\ awaiting' = [awaiting EXCEPT ![s] = "promise"]
            /\ ran' = Append(ran, Last(running[s]))
            /\ running' = [running EXCEPT ![s] = Front(@)]
            /\ UNCHANGED verdict
    /\ UNCHANGED <<mode, born, disposed, stack, calls, threw, given, order>>

\* The promise of the disposer called last settles, and the next step follows.
Answers(s) ==
    /\ awaiting[s] = "promise"
    /\ awaiting' = [awaiting EXCEPT ![s] = "step"]
    /\ \E fails \in BOOLEAN :
          threw' = IF fails
                   THEN [threw EXCEPT ![s] = order[s][Len(running[s]) + 1]]
                   ELSE threw
    /\ UNCHANGED <<mode, born, disposed, stack, running, calls, verdict, given, ran, order>>

DispNext ==
    \/ \E s \in Stacks : \/ use(s) \/ move(s) \/ dispose(s)
                         \/ disposeAsync(s) \/ Step(s) \/ Answers(s)
    \/ RunNext \/ Leave

\* Jobs run and loops go on; a disposer's promise is assumed to settle.
DispFairness == /\ WF_dispVars(RunNext) /\ WF_dispVars(Leave)
                /\ \A s \in Stacks : WF_dispVars(Step(s)) /\ WF_dispVars(Answers(s))

-----------------------------------------------------------------------------

\* Of the disposers of one stack, each ran after all those given to it later.
InReverse(s) == \A k, l \in DOMAIN order[s] : k < l =>
    \A i \in DOMAIN ran : ran[i] = order[s][k] =>
        \E j \in DOMAIN ran : j < i /\ ran[j] = order[s][l]

\* Every disposer runs at most once, whatever program code calls dispose again
\* from inside a disposer or moves the stack; and those of one stack run in the
\* reverse order of registration, resources taken over by move() included
\* (engine-prelude.js:1183 "runs them in REVERSE order").
DisposedOnceInReverse ==
    /\ \A i, j \in DOMAIN ran : ran[i] = ran[j] => i = j
    /\ \A s \in born : InReverse(s)

\* A disposal that has ended left nothing behind: every resource the stack was
\* given was disposed, whichever disposers failed (line 1243 "a throw from one
\* disposer does not skip the rest").
DisposalComplete ==
    \A s \in born : verdict[s] # NotYet =>
        /\ stack[s] = <<>> /\ running[s] = <<>>
        /\ {order[s][k] : k \in DOMAIN order[s]} \subseteq {ran[k] : k \in DOMAIN ran}

\* A stack that is not disposed holds everything it was given; one that was moved
\* holds nothing, so no resource is held twice.
HeldOnce ==
    \A s, t \in born : s # t =>
        {stack[s][k] : k \in DOMAIN stack[s]} \cap {stack[t][k] : k \in DOMAIN stack[t]} = {}

\* Asynchronous disposers do not overlap: one is called only when the promise of
\* the one before it, on the same stack, has settled (lines 1319-1320).
NoOverlap ==
    [][\A s \in Stacks : mode = "async" /\ awaiting[s] = "promise"
          => running'[s] = running[s]]_dispVars

\* A disposal that was begun ends.
DisposalEnds == \A s \in Stacks : disposed[s] /\ order[s] # <<>> ~> verdict[s] # NotYet
=============================================================================
