------------------------------ MODULE Emitter ------------------------------
(***************************************************************************)
(* lib/events.js: one EventEmitter, events.once() promises that wait on it *)
(* and one events.on() iterator over it.  Listeners are program code that  *)
(* runs inside emit() and may register, remove and emit in turn, so an     *)
(* emission is a frame of a stack and every call of a listener is a step.  *)
(***************************************************************************)
EXTENDS Integers, Sequences, FiniteSets

CONSTANTS Callbacks,      \* the program's listener functions
          Promises,       \* events.once() calls
          MaxEmits,       \* emissions, and the depth they nest to
          MaxListeners    \* listeners registered in all

VARIABLES events,         \* _events: name -> the listeners, in order
          registered,     \* registrations made
          fired,          \* the once-wrappers whose `fired` is set
          runs,           \* wrapper -> how often its function was called
          frames,         \* emissions in progress, innermost last
          emitted,        \* emissions so far
          promise,        \* events.once(): "unborn", "pending", "value", "error"
          queue,          \* events.on(): events nobody asked for yet
          pending,        \* requests nobody answered yet
          finished, failure,  \* its flags
          iterating,      \* "no", "yes", "left" (return() was called)
          answers,        \* what its requests were answered, in order
          pushed          \* the events it was handed, in order

emitVars == <<events, registered, fired, runs, frames, emitted, promise, queue, pending,
              finished, failure, iterating, answers, pushed>>
iterState == <<queue, pending, finished, failure, iterating, answers, pushed>>

Names == {"data", "error"}
Val(p) == <<"value", p>>
Err(p) == <<"error", p>>
Push == <<"push", 0>>
Fail == <<"fail", 0>>

\* A listener: the function itself, or the wrapper that once() makes around it.
\* Two wrappers are never the same function.
Plain(fn) == [fn |-> fn, wrap |-> 0]
Wrapper(fn) == [fn |-> fn, wrap |-> registered + 1]

EmitInit ==
    /\ events = [n \in Names |-> <<>>]
    /\ registered = 0
    /\ fired = {}
    /\ runs = [w \in 1..MaxListeners |-> 0]
    /\ frames = <<>>
    /\ emitted = 0
    /\ promise = [p \in Promises |-> "unborn"]
    /\ queue = <<>> /\ pending = 0 /\ answers = <<>> /\ pushed = <<>>
    /\ finished = FALSE /\ failure = FALSE
    /\ iterating = "no"

Room(k) == registered + k <= MaxListeners
Programs(fn) == <<"program", fn>>

on(name, fn) ==
    /\ Room(1)
    /\ registered' = registered + 1
    /\ \/ events' = [events EXCEPT ![name] = Append(@, Plain(Programs(fn)))]
       \/ events' = [events EXCEPT ![name] = <<Plain(Programs(fn))>> \o @]   \* prependListener
    /\ UNCHANGED <<fired, runs, frames, emitted, promise, iterState>>

once(name, fn) ==
    /\ Room(1)
    /\ registered' = registered + 1
    /\ \/ events' = [events EXCEPT ![name] = Append(@, Wrapper(Programs(fn)))]
       \/ events' = [events EXCEPT ![name] = <<Wrapper(Programs(fn))>> \o @]
    /\ UNCHANGED <<fired, runs, frames, emitted, promise, iterState>>

\* removeListener compares functions, so a wrapper is not found by the function
\* inside it.
Without(list, listener) == SelectSeq(list, LAMBDA l : l # listener)

removeListener(name, fn) ==
    /\ events' = [events EXCEPT ![name] = Without(@, Plain(Programs(fn)))]
    /\ events' # events
    /\ UNCHANGED <<registered, fired, runs, frames, emitted, promise, iterState>>

removeAllListeners(S) ==
    /\ events' = [n \in Names |-> IF n \in S THEN <<>> ELSE events[n]]
    /\ events' # events
    /\ UNCHANGED <<registered, fired, runs, frames, emitted, promise, iterState>>

\* events.once(emitter, "data"): a wrapper for the value and one for 'error'.
oncePromise(p) ==
    /\ Room(2) /\ promise[p] = "unborn"
    /\ promise' = [promise EXCEPT ![p] = "pending"]
    /\ registered' = registered + 2
    /\ events' = [data  |-> Append(events["data"], Wrapper(Val(p))),
                  error |-> Append(events["error"], [fn |-> Err(p), wrap |-> registered + 2])]
    /\ UNCHANGED <<fired, runs, frames, emitted, iterState>>

\* events.on(emitter, "data").
onIterator ==
    /\ Room(2) /\ iterating = "no"
    /\ iterating' = "yes"
    /\ registered' = registered + 2
    /\ events' = [data  |-> Append(events["data"], Plain(Push)),
                  error |-> Append(events["error"], Plain(Fail))]
    /\ UNCHANGED <<fired, runs, frames, emitted, promise, queue, pending, finished, failure,
                   answers, pushed>>

\* An error leaves every emission up to the listener that catches it.
Unwound(k) == SubSeq(frames, 1, Len(frames) - k)

\* emit: the list is copied; an 'error' nobody listens to is thrown.
Frame(name) == [name |-> name, event |-> emitted + 1, todo |-> events[name]]
emit(name) ==
    /\ emitted < MaxEmits
    /\ emitted' = emitted + 1
    /\ IF events[name] = <<>>
       THEN IF name = "error"
            THEN \E k \in 0..Len(frames) : frames' = Unwound(k)
            ELSE frames' = frames
       ELSE frames' = Append(frames, Frame(name))
    /\ UNCHANGED <<events, registered, fired, runs, promise, iterState>>

\* What the functions of once() and on() do when they are called.
Settle(p, how) == promise' = [promise EXCEPT ![p] = IF @ = "pending" THEN how ELSE @]
Answer(what) == answers' = Append(answers, what)
Pushes(event) ==
    /\ pushed' = Append(pushed, event)
    /\ IF pending > 0
       THEN pending' = pending - 1 /\ Answer(event) /\ UNCHANGED queue
       ELSE queue' = Append(queue, event) /\ UNCHANGED <<pending, answers>>
    /\ UNCHANGED <<finished, failure, iterating>>
Rest(what) == answers' = answers \o [k \in 1..pending |-> what]
Fails ==
    /\ failure' = TRUE /\ finished' = TRUE
    /\ pending' = 0 /\ Rest(0)
    /\ UNCHANGED <<queue, iterating, pushed>>

CallFunction(fn, event) ==
    CASE fn[1] = "program" -> UNCHANGED <<promise, iterState>>
      [] fn[1] = "value"   -> Settle(fn[2], "value") /\ UNCHANGED iterState
      [] fn[1] = "error"   -> Settle(fn[2], "error") /\ UNCHANGED iterState
      [] fn = Push         -> Pushes(event) /\ UNCHANGED promise
      [] fn = Fail         -> Fails /\ UNCHANGED promise

\* The innermost emission calls the next listener of its copy.  A wrapper marks
\* itself and removes itself before it calls its function, and does nothing if it
\* is marked.
Wraps(l, name) ==
    /\ fired' = fired \cup {l.wrap}
    /\ runs' = [runs EXCEPT ![l.wrap] = @ + 1]
    /\ events' = [events EXCEPT ![name] = Without(@, l)]

top == frames[Len(frames)]
CallListener ==
    /\ frames # <<>> /\ top.todo # <<>>
    /\ frames' = [frames EXCEPT ![Len(frames)].todo = Tail(@)]
    /\ LET l == Head(top.todo)
       IN  IF l.wrap # 0 /\ l.wrap \in fired
           THEN UNCHANGED <<events, fired, runs, promise, iterState>>
           ELSE /\ IF l.wrap # 0 THEN Wraps(l, top.name) ELSE UNCHANGED <<events, fired, runs>>
                /\ CallFunction(l.fn, top.event)
    /\ UNCHANGED <<registered, emitted>>

\* A listener of the program throws: the rest of the copy is not called.
ListenerThrows ==
    /\ frames # <<>>
    /\ \E k \in 1..Len(frames) : frames' = Unwound(k)
    /\ UNCHANGED <<events, registered, fired, runs, emitted, promise, iterState>>

EmitReturns ==
    /\ frames # <<>> /\ top.todo = <<>>
    /\ frames' = Unwound(1)
    /\ UNCHANGED <<events, registered, fired, runs, emitted, promise, iterState>>

\* iterator.next: what is queued, then the failure, then done; else it waits.
next ==
    /\ iterating # "no" /\ Len(answers) + pending < MaxEmits
    /\ \/ /\ queue # <<>>
          /\ queue' = Tail(queue) /\ Answer(Head(queue))
          /\ UNCHANGED <<failure, pending>>
       \/ /\ queue = <<>> /\ failure
          /\ failure' = FALSE /\ Answer(0)
          /\ UNCHANGED <<queue, pending>>
       \/ /\ queue = <<>> /\ ~failure /\ finished
          /\ Answer(-1)
          /\ UNCHANGED <<queue, failure, pending>>
       \/ /\ queue = <<>> /\ ~failure /\ ~finished
          /\ pending' = pending + 1
          /\ UNCHANGED <<queue, failure, answers>>
    /\ UNCHANGED <<events, registered, fired, runs, frames, emitted, promise, finished,
                   iterating, pushed>>

\* iterator.return: unsubscribes and answers every waiting request done.
return ==
    /\ iterating = "yes"
    /\ iterating' = "left"
    /\ events' = [data  |-> Without(events["data"], Plain(Push)),
                  error |-> Without(events["error"], Plain(Fail))]
    /\ finished' = TRUE
    /\ pending' = 0 /\ Rest(-1)
    /\ UNCHANGED <<registered, fired, runs, frames, emitted, promise, queue, failure, pushed>>

EmitNext ==
    \/ \E name \in Names, fn \in Callbacks : on(name, fn) \/ once(name, fn) \/ removeListener(name, fn)
    \/ \E S \in {{"data"}, {"error"}, Names} : removeAllListeners(S)
    \/ \E p \in Promises : oncePromise(p)
    \/ \E name \in Names : emit(name)
    \/ onIterator \/ CallListener \/ ListenerThrows \/ EmitReturns \/ next \/ return

-----------------------------------------------------------------------------

\* A once() listener runs at most once, however emissions of its event nest: the
\* copies of several emissions hold the same wrapper at the same time
\* (events.js:60-71).
OnceAtMost == \A w \in 1..MaxListeners : runs[w] <= 1

\* The iterator hands out the events it was given, each once and in order, and
\* what nobody asked for is still queued; a failure and the end take no event's
\* place (lines 273-277).
IteratorInOrder ==
    SelectSeq(answers, LAMBDA a : a > 0) \o queue = pushed

\* No request waits beside an event it could have had, nor after the end: what is
\* asked is answered when the iterator fails, is left or has something.
RequestsAnswered == pending > 0 => queue = <<>> /\ ~finished

\* What return() unsubscribed stays unsubscribed once the emissions in progress
\* are over: the queue of an iterator that was left grows no further.
LeftIsQuiet == [][iterating = "left" /\ frames = <<>> => pushed' = pushed]_emitVars

\* An 'error' that finds a listener is seen by one: some function runs.  (Stated
\* for errors that only promises already settled would receive.)
ErrorsAreSeen ==
    [][\A w \in 1..MaxListeners :
          (runs'[w] > runs[w] /\ frames # <<>>) =>
             ~\E p \in Promises : Head(top.todo).fn = Err(p) /\ promise[p] # "pending"]_emitVars
=============================================================================
