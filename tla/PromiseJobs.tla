---------------------------- MODULE PromiseJobs ----------------------------
(***************************************************************************)
(* Promises and the microtask queue (src/engine/eval.milo, settlePromise   *)
(* to drainMicrotasks, promiseMethod, constructPromise).                   *)
(*                                                                         *)
(* A promise settles once; its reactions become jobs; a job calls a        *)
(* handler, or lets the settlement flow through, and so settles the        *)
(* promise derived from it.  Program code runs in frames: the script or a  *)
(* timer callback, an executor inside `new Promise`, a handler called by a *)
(* job.  What a handler computes is abstract: it may call any resolver,    *)
(* attach handlers, await, throw, return a value, a promise or a thenable. *)
(* An await that does not suspend drains the queue where it stands, above  *)
(* the code that is running.  Activations appear only through the promises *)
(* they await (AsyncSuspension has the rest).                              *)
(***************************************************************************)
EXTENDS Naturals, Sequences, SequencesExt

CONSTANTS
  Promises,  \* the promises the program may make
  None,      \* "no promise"
  MaxTurns   \* bound: callbacks (the script, timers) and awaits that drain in place

ASSUME ConstantsAssumption ==
  /\ None \notin Promises \cup {"fulfilled", "rejected"}
  /\ Promises \cap {"fulfilled", "rejected"} = {}
  /\ MaxTurns \in Nat

VARIABLES
  state,      \* JSObj.promiseState, "none" before the promise exists
  pair,       \* JSObjExtra.promiseResolved: the resolver pair of each promise
  reactions,  \* JSObjExtra.reactions
  microtasks, \* Interp.microtasks
  unhandled,  \* Interp.unhandledRejects
  awaited,    \* Interp.awaitPromise: promises some activation is parked on
  frames,     \* the native frames that run program code, innermost last
  hidden,     \* promises made, but not yet or never given to program code
  turns,      \* callbacks and draining awaits begun
  exited,     \* runEventLoop has returned
  reported,   \* promises reportUnhandledRejections printed
  handled,    \* history: promises that got a handler, a follower or an awaiter
  attached,   \* history: reactions made, in order
  started,    \* history: jobs begun, in order
  fate,       \* history: what was first asked of a promise, by its pair or executor
  overridden  \* history: promises settled by the throw of their executor

vars == <<state, pair, reactions, microtasks, unhandled, awaited, frames,
          hidden, turns, exited, reported, handled, attached, started, fate, overridden>>

Settled == {"fulfilled", "rejected"}

\* Which handlers a reaction has; "follow" is adoption, which has none.
Kind == {"follow", "then", "catch", "both", "finally"}
HandlerFor(kind, s) ==
  \/ kind \in {"both", "finally"}
  \/ kind = "then" /\ s = "fulfilled"
  \/ kind = "catch" /\ s = "rejected"

Reaction == [from : Promises, kind : Kind, derived : Promises]
\* A job of a reaction, or the job that calls a thenable's `then` with the
\* resolver pair of `derived`.
Job == [from : Promises, kind : Kind, derived : Promises, state : Settled]
         \cup [kind : {"thenable"}, derived : Promises]
\* Code runs in a script, a callback, an executor, or what a job calls.  In a
\* "tick" the await of a settled promise drains `left` jobs; in an "await" the
\* module body drains the loop until the promise settles.
CodeFrame == [kind : {"script", "callback"}] \cup [kind : {"executor"}, derived : Promises] \cup Job
DrainFrame == [kind : {"tick"}, on : Promises, left : Nat]
                \cup [kind : {"await"}, on : Promises, draining : BOOLEAN]
Frame == CodeFrame \cup DrainFrame

TypeOK ==
  /\ state \in [Promises -> {"none", "pending"} \cup Settled]
  /\ pair \in [Promises -> {"none", "open", "fired"}]
  /\ reactions \in [Promises -> Seq(Reaction)]
  /\ microtasks \in Seq(Job)
  /\ unhandled \in SUBSET Promises
  /\ awaited \in SUBSET Promises
  /\ frames \in Seq(Frame)
  /\ hidden \in SUBSET Promises
  /\ turns \in 0..MaxTurns
  /\ exited \in BOOLEAN
  /\ reported \in SUBSET Promises
  /\ handled \in SUBSET Promises
  /\ attached \in Seq(Reaction)
  /\ started \in Seq(Reaction)
  /\ fate \in [Promises -> {None} \cup Settled \cup Promises]
  /\ overridden \in SUBSET Promises

Init ==
  /\ state = [p \in Promises |-> "none"]
  /\ pair = [p \in Promises |-> "none"]
  /\ reactions = [p \in Promises |-> <<>>]
  /\ microtasks = <<>>
  /\ unhandled = {}
  /\ awaited = {}
  /\ frames = <<>>
  /\ hidden = {}
  /\ turns = 0
  /\ exited = FALSE
  /\ reported = {}
  /\ handled = {}
  /\ attached = <<>>
  /\ started = <<>>
  /\ fate = [p \in Promises |-> None]
  /\ overridden = {}

-----------------------------------------------------------------------------
(* settlePromise and adoptPromise.  `known` is what state holds, `queue` what
   microtasks holds and `open` what unhandledRejects holds when they are called. *)

Made == {p \in Promises : state[p] # "none"}
Named == Made \ hidden

ReactionJob(r, s) == [from |-> r.from, kind |-> r.kind, derived |-> r.derived, state |-> s]

\* A promise settles once.  A rejection nobody waits for is put on record.
SettleIn_NoJobs(known, p, s, queue, open) ==
  /\ state' = IF known[p] = "pending" THEN [known EXCEPT ![p] = s] ELSE known
  /\ awaited' = awaited \ {p}
  /\ unhandled' = open
  /\ microtasks' = queue
  /\ reactions' = [reactions EXCEPT ![p] = <<>>]
SettleIn_Again(known, p, s, queue, open) ==
  /\ state' = [known EXCEPT ![p] = s]
  /\ awaited' = awaited \ {p}
  /\ unhandled' = open
  /\ microtasks' = queue \o [i \in DOMAIN reactions[p] |-> ReactionJob(reactions[p][i], s)]
  /\ reactions' = [reactions EXCEPT ![p] = <<>>]
SettleIn(known, p, s, queue, open) ==
  IF known[p] = "pending"
  THEN /\ state' = [known EXCEPT ![p] = s]
       /\ awaited' = awaited \ {p}
       /\ unhandled' =
            IF s = "rejected" /\ reactions[p] = <<>> /\ p \notin awaited
            THEN open \cup {p} ELSE open
       /\ microtasks' = queue \o [i \in DOMAIN reactions[p] |-> ReactionJob(reactions[p][i], s)]
       /\ reactions' = [reactions EXCEPT ![p] = <<>>]
  ELSE /\ state' = known
       /\ unhandled' = open
       /\ microtasks' = queue
       /\ UNCHANGED <<awaited, reactions>>

Settle(p, s, queue) == SettleIn(state, p, s, queue, unhandled)

\* adoptPromise: `derived` follows `source`, now if it has settled, else later.
Adopt_KeepsRecord(derived, source, queue) ==
  LET r == [from |-> source, kind |-> "follow", derived |-> derived] IN
  /\ handled' = handled \cup {source}
  /\ IF state[source] = "pending"
     THEN /\ reactions' = [reactions EXCEPT ![source] = Append(@, r)]
          /\ attached' = Append(attached, r)
          /\ microtasks' = queue
          /\ UNCHANGED <<state, unhandled, awaited>>
     ELSE /\ SettleIn(state, derived, state[source], queue, unhandled)
          /\ UNCHANGED attached
Adopt(derived, source, queue) ==
  LET r == [from |-> source, kind |-> "follow", derived |-> derived] IN
  /\ handled' = handled \cup {source}
  /\ IF state[source] = "pending"
     THEN /\ reactions' = [reactions EXCEPT ![source] = Append(@, r)]
          /\ attached' = Append(attached, r)
          /\ microtasks' = queue
          /\ UNCHANGED <<state, unhandled, awaited>>
     ELSE /\ SettleIn(state, derived, state[source], queue, unhandled \ {source})
          /\ UNCHANGED attached

-----------------------------------------------------------------------------
(* Program code, in the innermost frame *)

Code == frames # <<>> /\ Last(frames).kind \notin {"tick", "await"}
Fresh(p) == state[p] = "none"
PushFrame(f) == frames' = Append(frames, f)
PopFrame == frames' = Front(frames)
Asked(p, what) == [fate EXCEPT ![p] = IF @ = None THEN what ELSE @]

\* new Promise(executor): the executor runs at once, inside the constructor.
Construct(p) ==
  /\ Code /\ Fresh(p)
  /\ state' = [state EXCEPT ![p] = "pending"]
  /\ pair' = [pair EXCEPT ![p] = "open"]
  /\ PushFrame([kind |-> "executor", derived |-> p])
  /\ hidden' = hidden \cup {p}
  /\ UNCHANGED <<reactions, microtasks, unhandled, awaited, turns, exited, reported,
                 handled, attached, started, fate, overridden>>

\* The executor returns, or throws: constructPromise then writes the rejection
\* into a promise that is still pending, without settlePromise.
InExecutor == Code /\ Last(frames).kind = "executor"
ExecutorReturns ==
  /\ InExecutor
  /\ PopFrame
  /\ hidden' = hidden \ {Last(frames).derived}
  /\ UNCHANGED <<state, pair, reactions, microtasks, unhandled, awaited, turns, exited,
                 reported, handled, attached, started, fate, overridden>>
ExecutorThrows ==
  LET p == Last(frames).derived IN
  /\ InExecutor
  /\ PopFrame
  /\ hidden' = hidden \ {p}
  /\ IF state[p] = "pending"
     THEN /\ state' = [state EXCEPT ![p] = "rejected"]
          /\ overridden' = overridden \cup {p}
     ELSE UNCHANGED <<state, overridden>>
  /\ fate' = Asked(p, "rejected")
  /\ UNCHANGED <<pair, reactions, microtasks, unhandled, awaited, turns, exited, reported,
                 handled, attached, started>>

\* callResolver: the pair of p fires at most once between its two functions.
Fire(p) == Code /\ pair[p] = "open"
CallReject(p) ==
  /\ Fire(p)
  /\ pair' = [pair EXCEPT ![p] = "fired"]
  /\ fate' = Asked(p, "rejected")
  /\ Settle(p, "rejected", microtasks)
  /\ UNCHANGED <<frames, hidden, turns, exited, reported, handled, attached, started, overridden>>

\* resolve(v): resolvePromiseValue of something that is not a thenable,
ResolveValue(p) ==
  /\ Fire(p)
  /\ pair' = [pair EXCEPT ![p] = "fired"]
  /\ fate' = Asked(p, "fulfilled")
  /\ Settle(p, "fulfilled", microtasks)
  /\ UNCHANGED <<frames, hidden, turns, exited, reported, handled, attached, started, overridden>>

\* ... of p itself, which is a cycle and rejects,
ResolveSelf(p) ==
  /\ Fire(p)
  /\ pair' = [pair EXCEPT ![p] = "fired"]
  /\ fate' = Asked(p, "rejected")
  /\ Settle(p, "rejected", microtasks)
  /\ UNCHANGED <<frames, hidden, turns, exited, reported, handled, attached, started, overridden>>

\* ... of another promise, which p follows,
ResolvePromise(p, q) ==
  /\ Fire(p)
  /\ q \in Named \ {p}
  /\ pair' = [pair EXCEPT ![p] = "fired"]
  /\ fate' = Asked(p, q)
  /\ Adopt(p, q, microtasks)
  /\ UNCHANGED <<frames, hidden, turns, exited, reported, started, overridden>>

\* ... of a thenable: p follows a new promise, and a job will hand the resolver
\* pair of that promise to the thenable.
ResolveThenable(p, inner) ==
  LET r == [from |-> inner, kind |-> "follow", derived |-> p] IN
  /\ Fire(p) /\ Fresh(inner)
  /\ pair' = [pair EXCEPT ![p] = "fired", ![inner] = "open"]
  /\ fate' = Asked(p, inner)
  /\ state' = [state EXCEPT ![inner] = "pending"]
  /\ handled' = handled \cup {inner}
  /\ hidden' = hidden \cup {inner}
  /\ reactions' = [reactions EXCEPT ![inner] = <<r>>]
  /\ attached' = Append(attached, r)
  /\ microtasks' = Append(microtasks, [kind |-> "thenable", derived |-> inner])
  /\ UNCHANGED <<unhandled, awaited, frames, turns, exited, reported, started, overridden>>

\* Promise.reject: a promise born rejected is on record from the start.
NewRejected(p) ==
  /\ Code /\ Fresh(p)
  /\ state' = [state EXCEPT ![p] = "rejected"]
  /\ unhandled' = unhandled \cup {p}
  /\ UNCHANGED <<pair, reactions, microtasks, awaited, frames, hidden, turns, exited, reported,
                 handled, attached, started, fate, overridden>>

\* promiseMethod: then, catch and finally.
Then(p, kind, d) ==
  LET r == [from |-> p, kind |-> kind, derived |-> d] IN
  /\ Code /\ p \in Named /\ Fresh(d)
  /\ kind # "follow"
  /\ state' = [state EXCEPT ![d] = "pending"]
  /\ handled' = handled \cup {p}
  /\ attached' = Append(attached, r)
  /\ unhandled' = unhandled \ {p}
  /\ IF state[p] = "pending"
     THEN /\ reactions' = [reactions EXCEPT ![p] = Append(@, r)]
          /\ UNCHANGED microtasks
     ELSE /\ microtasks' = Append(microtasks, ReactionJob(r, state[p]))
          /\ UNCHANGED reactions
  /\ UNCHANGED <<pair, awaited, frames, hidden, turns, exited, reported, started, fate, overridden>>

\* An activation awaits a pending promise: parkOnPromise registers it.
AwaitPending(p) ==
  /\ Code /\ p \in Named
  /\ state[p] = "pending"
  /\ awaited' = awaited \cup {p}
  /\ handled' = handled \cup {p}
  /\ UNCHANGED <<state, pair, reactions, microtasks, unhandled, frames, hidden, turns, exited,
                 reported, attached, started, fate, overridden>>

\* It awaits a settled one: awaitYieldMicrotasks drains a snapshot of the queue
\* here, and a rejection is then marked as handled.
AwaitSettled(p) ==
  /\ Code /\ p \in Named
  /\ state[p] \in Settled
  /\ turns < MaxTurns
  /\ turns' = turns + 1
  /\ PushFrame([kind |-> "tick", on |-> p, left |-> Len(microtasks)])
  /\ UNCHANGED <<state, pair, reactions, microtasks, unhandled, awaited, hidden, exited, reported,
                 handled, attached, started, fate, overridden>>

\* markRejectHandled, when an await ends.
Observe(p) ==
  /\ handled' = handled \cup {p}
  /\ unhandled' = unhandled \ {p}

\* The module body awaits: a pending promise makes it drain the loop in place.
MainAwait(p) ==
  /\ Code /\ p \in Named
  /\ Last(frames).kind = "script"
  /\ IF state[p] = "pending"
     THEN /\ turns < MaxTurns
          /\ turns' = turns + 1
          /\ PushFrame([kind |-> "await", on |-> p, draining |-> FALSE])
          /\ UNCHANGED <<handled, unhandled>>
     ELSE /\ Observe(p)
          /\ UNCHANGED <<turns, frames>>
  /\ UNCHANGED <<state, pair, reactions, microtasks, awaited, hidden, exited, reported,
                 attached, started, fate, overridden>>

In(kind) == frames # <<>> /\ Last(frames).kind = kind

TickDone ==
  /\ In("tick") /\ PopFrame
  /\ Last(frames).left = 0 \/ microtasks = <<>>
  /\ Observe(Last(frames).on)
  /\ UNCHANGED <<state, pair, reactions, microtasks, awaited, hidden, turns, exited, reported,
                 attached, started, fate, overridden>>

\* The drain in place looks at the promise only when the queue is empty or after
\* a callback.
AwaitDone ==
  /\ In("await") /\ PopFrame
  /\ state[Last(frames).on] \in Settled
  /\ Last(frames).draining => microtasks = <<>>
  /\ Observe(Last(frames).on)
  /\ UNCHANGED <<state, pair, reactions, microtasks, awaited, hidden, turns, exited, reported,
                 attached, started, fate, overridden>>

\* No job and no timer is left: the await throws.
AwaitGivesUp ==
  /\ In("await") /\ PopFrame
  /\ state[Last(frames).on] = "pending"
  /\ microtasks = <<>>
  /\ UNCHANGED <<state, pair, reactions, microtasks, unhandled, awaited, hidden, turns, exited,
                 reported, handled, attached, started, fate, overridden>>

-----------------------------------------------------------------------------
(* drainMicrotasks, called by the event loop (no frame) or by an await *)

\* A tick drains what was queued when it began; an await drains all.
MayDrain_NoLimit ==
  \/ frames = <<>>
  \/ In("tick")
  \/ In("await") /\ (Last(frames).draining \/ state[Last(frames).on] = "pending")
MayDrain ==
  \/ frames = <<>>
  \/ In("tick") /\ Last(frames).left > 0
  \/ In("await") /\ (Last(frames).draining \/ state[Last(frames).on] = "pending")
Drained ==
  IF frames = <<>> THEN <<>>
  ELSE Append(Front(frames),
              IF In("tick") THEN [Last(frames) EXCEPT !.left = @ - 1]
              ELSE [Last(frames) EXCEPT !.draining = TRUE])

NextJob == Head(microtasks)
BeginJob ==
  /\ MayDrain /\ microtasks # <<>>
  /\ started' = IF NextJob.kind = "thenable" THEN started
                ELSE Append(started, [from |-> NextJob.from, kind |-> NextJob.kind,
                                      derived |-> NextJob.derived])

\* no handler for this state: the settlement flows to the derived promise
PassThrough ==
  /\ BeginJob
  /\ NextJob.kind # "thenable"
  /\ ~HandlerFor(NextJob.kind, NextJob.state)
  /\ Settle(NextJob.derived, NextJob.state, Tail(microtasks))
  /\ frames' = Drained
  /\ UNCHANGED <<pair, hidden, turns, exited, reported, handled, attached, fate, overridden>>

\* a handler, or the `then` of a thenable, is called
CallHandler ==
  /\ BeginJob
  /\ NextJob.kind = "thenable" \/ HandlerFor(NextJob.kind, NextJob.state)
  /\ frames' = Append(Drained, NextJob)
  /\ microtasks' = Tail(microtasks)
  /\ UNCHANGED <<state, pair, reactions, unhandled, awaited, hidden, turns, exited, reported, handled,
                 attached, fate, overridden>>

InHandler == Code /\ Last(frames).kind \in Kind
Done == Last(frames)

HandlerThrows ==
  /\ InHandler /\ PopFrame
  /\ Settle(Done.derived, "rejected", microtasks)
  /\ UNCHANGED <<pair, hidden, turns, exited, reported, handled, attached, started, fate, overridden>>

\* finally: the value of the handler is discarded
FinallyReturns ==
  /\ InHandler /\ PopFrame
  /\ Done.kind = "finally"
  /\ Settle(Done.derived, Done.state, microtasks)
  /\ UNCHANGED <<pair, hidden, turns, exited, reported, handled, attached, started, fate, overridden>>

HandlerReturnsPromise(q) ==
  /\ InHandler /\ PopFrame
  /\ Done.kind # "finally"
  /\ q \in Named
  /\ Adopt(Done.derived, q, microtasks)
  /\ UNCHANGED <<pair, hidden, turns, exited, reported, started, fate, overridden>>

\* any other value, a thenable that is not a promise included
HandlerReturnsValue ==
  /\ InHandler /\ PopFrame
  /\ Done.kind # "finally"
  /\ Settle(Done.derived, "fulfilled", microtasks)
  /\ UNCHANGED <<pair, hidden, turns, exited, reported, handled, attached, started, fate, overridden>>

\* __thenJob: a throw rejects through the pair, a return does nothing.
InThenJob == Code /\ Last(frames).kind = "thenable"
ThenJobReturns ==
  /\ InThenJob /\ PopFrame
  /\ UNCHANGED <<state, pair, reactions, microtasks, unhandled, awaited, hidden, turns, exited,
                 reported, handled, attached, started, fate, overridden>>
ThenJobThrows ==
  /\ InThenJob /\ PopFrame
  /\ pair[Done.derived] = "open"
  /\ pair' = [pair EXCEPT ![Done.derived] = "fired"]
  /\ fate' = Asked(Done.derived, "rejected")
  /\ Settle(Done.derived, "rejected", microtasks)
  /\ UNCHANGED <<hidden, turns, exited, reported, handled, attached, started, overridden>>

-----------------------------------------------------------------------------
(* The event loop, as far as promises see it *)

\* The script, then timer callbacks, each after the queue has been drained.  An
\* await of the module body that has nothing to drain runs them too.
BeginCallback ==
  /\ microtasks = <<>>
  /\ ~exited
  /\ turns < MaxTurns
  /\ turns' = turns + 1
  /\ \/ /\ frames = <<>>
        /\ PushFrame([kind |-> IF turns = 0 THEN "script" ELSE "callback"])
     \/ /\ In("await") /\ state[Last(frames).on] = "pending"
        /\ frames' = Front(frames) \o <<[Last(frames) EXCEPT !.draining = FALSE],
                                      [kind |-> "callback"]>>
  /\ UNCHANGED <<state, pair, reactions, microtasks, unhandled, awaited, hidden, exited, reported,
                 handled, attached, started, fate, overridden>>

EndCallback ==
  /\ Code /\ Last(frames).kind \in {"script", "callback"}
  /\ PopFrame
  /\ UNCHANGED <<state, pair, reactions, microtasks, unhandled, awaited, hidden, turns, exited,
                 reported, handled, attached, started, fate, overridden>>

\* The loop is out of work: reportUnhandledRejections, once.
ExitLoop ==
  /\ frames = <<>> /\ microtasks = <<>>
  /\ ~exited /\ turns > 0
  /\ exited' = TRUE
  /\ reported' = {p \in unhandled : state[p] = "rejected"}
  /\ unhandled' = {}
  /\ UNCHANGED <<state, pair, reactions, microtasks, awaited, frames, hidden, turns, handled,
                 attached, started, fate, overridden>>

Exited == exited /\ UNCHANGED vars

-----------------------------------------------------------------------------
ProgramStep ==
  \/ \E p \in Promises : \/ Construct(p) \/ CallReject(p) \/ ResolveValue(p)
                         \/ ResolveSelf(p) \/ NewRejected(p)
                         \/ AwaitPending(p) \/ AwaitSettled(p) \/ MainAwait(p)
  \/ \E p, q \in Promises : ResolvePromise(p, q) \/ ResolveThenable(p, q)
  \/ \E p, d \in Promises, kind \in Kind : Then(p, kind, d)

\* program code gives control back
Return ==
  \/ ExecutorReturns \/ ExecutorThrows
  \/ HandlerThrows \/ FinallyReturns \/ HandlerReturnsValue
  \/ \E q \in Promises : HandlerReturnsPromise(q)
  \/ ThenJobReturns \/ ThenJobThrows
  \/ EndCallback
  \/ TickDone \/ AwaitDone \/ AwaitGivesUp

Drain == PassThrough \/ CallHandler

Next == ProgramStep \/ Return \/ Drain \/ BeginCallback \/ ExitLoop \/ Exited

Spec == Init /\ [][Next]_vars

\* Program code returns, the drain goes on while there are jobs, and the loop
\* ends once it is out of work.
FairSpec == Spec /\ WF_vars(Return) /\ WF_vars(Drain) /\ WF_vars(ExitLoop)

-----------------------------------------------------------------------------
(* Safety *)

\* What is first asked of a promise is what happens to it, whatever is called
\* later, unless its executor throws (see FirstCallAlwaysDecides).
AskedState(p) == IF fate[p] \in Promises THEN state[fate[p]] ELSE fate[p]
FirstCallDecides ==
  \A p \in Promises \ overridden :
    fate[p] # None /\ state[p] \in Settled => state[p] = AskedState(p)

\* A promise that depends on another, or whose resolver pair has fired, is never
\* forgotten: a pending promise has it as a reaction, a job will settle it, or a
\* handler that will settle it runs.
Owed(p) ==
  \/ \E q \in Promises : state[q] = "pending" /\ \E i \in DOMAIN reactions[q] : reactions[q][i].derived = p
  \/ \E i \in DOMAIN microtasks : microtasks[i].derived = p
  \/ \E i \in DOMAIN frames : frames[i].kind \in Kind /\ frames[i].derived = p
ChainNeverDrops == \A p \in Promises : state[p] = "pending" /\ pair[p] # "open" => Owed(p)

\* A settlement no handler takes flows through unchanged.
PassThroughKeepsState ==
  \A i \in DOMAIN attached :
    LET from == attached[i].from
        derived == attached[i].derived IN
    /\ {state[from], state[derived]} \subseteq Settled
    /\ ~HandlerFor(attached[i].kind, state[from])
    /\ derived \notin overridden
    => state[derived] = state[from]

\* The record of unhandled rejections is exact while the program runs: a promise
\* is on it iff it was rejected and nothing ever waited for it.  (A promise its
\* executor's throw rejected is never put there.)
UnhandledExact ==
  ~exited =>
    unhandled = {p \in Promises \ (handled \cup overridden) : state[p] = "rejected"}

\* Jobs of one promise begin in the order its handlers were attached (R3): each
\* at most once, and after those of all handlers attached before.
HandlersInOrder ==
  /\ \A x, y \in DOMAIN started : started[x] = started[y] => x = y
  /\ \A y \in DOMAIN started : \E j \in DOMAIN attached :
       /\ started[y] = attached[j]
       /\ \A i \in 1..(j - 1) : attached[i].from = attached[j].from =>
            \E x \in 1..(y - 1) : started[x] = attached[i]

\* Every reaction is kept, in order, and acts on what was first asked of its promise;
\* what is reported as unhandled at the end is what nobody waited for.
ReactionsKept ==
  FirstCallDecides /\ ChainNeverDrops /\ PassThroughKeepsState /\ UnhandledExact /\ HandlersInOrder

\* No step changes or forgets a settlement.
SettledForever == [][\A p \in Promises : state[p] \in Settled => state'[p] = state[p]]_vars

-----------------------------------------------------------------------------
(* Liveness *)

\* Once a promise has settled, every reaction attached to it begins.
Waits(p, d) ==
  /\ state[p] \in Settled
  /\ \E i \in DOMAIN attached :
       /\ attached[i].from = p /\ attached[i].derived = d
       /\ ~Contains(started, attached[i])
ReactionsRun == \A p, d \in Promises : Waits(p, d) ~> ~Waits(p, d)

-----------------------------------------------------------------------------
(* What the repository says of the program and the code does not do *)

\* "The pair fires at most once BETWEEN them ... Resolving with a thenable leaves
\* it pending while the adoption job is queued, and a resolve/reject arriving in
\* that window is ignored" (callResolver).
FirstCallAlwaysDecides ==
  \A p \in Promises : fate[p] # None /\ state[p] \in Settled => state[p] = AskedState(p)
=============================================================================
