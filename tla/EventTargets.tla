---------------------------- MODULE EventTargets ---------------------------
(***************************************************************************)
(* EventTarget, AbortSignal and AbortController of lib/prelude.js.  A      *)
(* dispatch works on a copy of the listeners; listeners are program code   *)
(* that may add, remove, abort and dispatch while it runs, so a dispatch   *)
(* is a frame.  Each target has one event type here: 'abort' for a signal. *)
(***************************************************************************)
EXTENDS Integers, Sequences, FiniteSets

CONSTANTS Signals,        \* abort signals that a controller or a timer aborts
          Followers,      \* signals made by AbortSignal.any
          Handlers,       \* the program's listener functions
          MaxRecords,     \* listeners registered in all
          MaxDispatches        \* dispatches in progress at once

PlainTarget == 0                \* an EventTarget that is no signal
Targets == Signals \cup Followers \cup {PlainTarget}

VARIABLES evt,            \* target -> its _evt list of records
          made,           \* records made
          removed,        \* records whose `removed` is set
          aborted, reason,\* signal -> its fields
          follows,        \* follower -> the signals AbortSignal.any was given
          dispatches,     \* dispatchEvent calls in progress, innermost last
          calls,          \* record -> how often its listener was called
          stale,          \* a listener was called after its removal
          listenerThrew           \* a listener has thrown

evtVars == <<evt, made, removed, aborted, reason, follows, dispatches, calls, stale, listenerThrew>>

EvtInit ==
    /\ evt = [t \in Targets |-> <<>>]
    /\ made = 0
    /\ removed = {}
    /\ aborted = [s \in Signals \cup Followers |-> FALSE]
    /\ reason = [s \in Signals \cup Followers |-> 0]
    /\ follows = [d \in Followers |-> {}]
    /\ dispatches = <<>>
    /\ calls = [r \in 1..MaxRecords |-> 0]
    /\ stale = FALSE
    /\ listenerThrew = FALSE

Handler(f)    == [does |-> "program", of |-> f]
Forward(s, d) == [does |-> "forward", of |-> <<s, d>>]
Remover(t, f) == [does |-> "remove",  of |-> <<t, f>>]

Has(list, fn) == \E k \in DOMAIN list : list[k].fn = fn
Add(list, id, fn, isOnce) == Append(list, [id |-> id, fn |-> fn, once |-> isOnce])
IdsOf(list, fn) == {list[k].id : k \in {k \in DOMAIN list : list[k].fn = fn}}
Drop(list, fn) == SelectSeq(list, LAMBDA r : r.fn # fn)

\* (type, callback, capture) is registered once: the second call is a no-op.
addEventListener(t, f, isOnce) ==
    /\ made < MaxRecords /\ ~Has(evt[t], Handler(f))
    /\ made' = made + 1
    /\ evt' = [evt EXCEPT ![t] = Add(@, made', Handler(f), isOnce)]
    /\ UNCHANGED <<removed, aborted, reason, follows, dispatches, calls, stale, listenerThrew>>

\* With a signal: an aborted one means the listener was never added; otherwise
\* the signal's abort removes it.
addWithSignal(t, f, s) ==
    /\ made + 2 <= MaxRecords /\ t # s /\ ~Has(evt[t], Handler(f))
    /\ IF aborted[s]
       THEN made' = made + 1 /\ removed' = removed \cup {made'} /\ UNCHANGED evt
       ELSE /\ made' = made + 2
            /\ evt' = [evt EXCEPT ![t] = Add(@, made + 1, Handler(f), FALSE),
                                  ![s] = Add(@, made + 2, Remover(t, f), TRUE)]
            /\ UNCHANGED removed
    /\ UNCHANGED <<aborted, reason, follows, dispatches, calls, stale, listenerThrew>>

removeEventListener(t, f) ==
    /\ Has(evt[t], Handler(f))
    /\ removed' = removed \cup IdsOf(evt[t], Handler(f))
    /\ evt' = [evt EXCEPT ![t] = Drop(@, Handler(f))]
    /\ UNCHANGED <<made, aborted, reason, follows, dispatches, calls, stale, listenerThrew>>

\* dispatchEvent: the copy of the list.
Dispatch(t) == [target |-> t, todo |-> evt[t]]
dispatchEvent ==
    /\ Len(dispatches) < MaxDispatches /\ evt[PlainTarget] # <<>>
    /\ dispatches' = Append(dispatches, Dispatch(PlainTarget))
    /\ UNCHANGED <<evt, made, removed, aborted, reason, follows, calls, stale, listenerThrew>>

\* __abortSignalAbort: flag and reason first, then the event; once only.
abortSignal(s, why, under) ==
    IF aborted[s] THEN UNCHANGED <<aborted, reason>> /\ dispatches' = under
    ELSE /\ aborted' = [aborted EXCEPT ![s] = TRUE]
         /\ reason' = [reason EXCEPT ![s] = why]
         /\ dispatches' = IF evt[s] = <<>> THEN under ELSE Append(under, Dispatch(s))

\* A controller's abort(), or the timer of AbortSignal.timeout.
abort(s) ==
    /\ ~aborted[s] /\ Len(dispatches) < MaxDispatches
    /\ abortSignal(s, s, dispatches)
    /\ UNCHANGED <<evt, made, removed, follows, calls, stale, listenerThrew>>

\* AbortSignal.any: aborted at once if a source is, else a forwarder on each.
any(d, S) ==
    /\ follows[d] = {} /\ S # {} /\ made + Cardinality(S) <= MaxRecords
    /\ follows' = [follows EXCEPT ![d] = S]
    /\ LET gone == {s \in S : aborted[s]}
       IN  IF gone # {}
           THEN /\ \E s \in gone : abortSignal(d, reason[s], dispatches)
                /\ UNCHANGED <<evt, made>>
           ELSE /\ made' = made + Cardinality(S)
                /\ evt' = [t \in Targets |->
                             IF t \in S
                             THEN Add(evt[t], made + Cardinality({u \in S : u <= t}),
                                      Forward(t, d), TRUE)
                             ELSE evt[t]]
                /\ UNCHANGED <<aborted, reason, dispatches>>
    /\ UNCHANGED <<removed, calls, stale, listenerThrew>>

\* The listener a dispatch calls: the program's own, a forwarder, or a remover.
innermost == dispatches[Len(dispatches)]
Popped(k) == SubSeq(dispatches, 1, Len(dispatches) - k)
Skips(r) == r.id \in removed

Calls(r, under) ==
    CASE r.fn.does = "program" ->
            /\ dispatches' = under
            /\ UNCHANGED <<aborted, reason>>
      [] r.fn.does = "forward" -> abortSignal(r.fn.of[2], reason[r.fn.of[1]], under)
      [] r.fn.does = "remove" ->
            /\ dispatches' = under
            /\ UNCHANGED <<aborted, reason>>

\* What is taken off a list: a once record before its call, and what a remover
\* removes.
Gone(r) == (IF r.once THEN {r.id} ELSE {}) \cup
           (IF r.fn.does = "remove" THEN IdsOf(evt[r.fn.of[1]], Handler(r.fn.of[2])) ELSE {})

NextListener ==
    /\ dispatches # <<>> /\ innermost.todo # <<>>
    /\ LET r == Head(innermost.todo)
           under == [dispatches EXCEPT ![Len(dispatches)].todo = Tail(@)]
       IN  IF Skips(r)
           THEN dispatches' = under /\ UNCHANGED <<evt, removed, aborted, reason, calls, stale>>
           ELSE /\ Calls(r, under)
                /\ removed' = removed \cup Gone(r)
                /\ evt' = [t \in Targets |-> SelectSeq(evt[t], LAMBDA x : x.id \notin Gone(r))]
                /\ calls' = [calls EXCEPT ![r.id] = IF @ = 2 THEN 2 ELSE @ + 1]
                /\ stale' = (stale \/ r.id \in removed)
    /\ UNCHANGED <<made, follows, listenerThrew>>

DispatchReturns ==
    /\ dispatches # <<>> /\ innermost.todo = <<>>
    /\ dispatches' = Popped(1)
    /\ UNCHANGED <<evt, made, removed, aborted, reason, follows, calls, stale, listenerThrew>>

\* A listener of the program calls stopImmediatePropagation, or throws: no other
\* listener of the copy is called, and a throw leaves outer dispatches too.
StopsListeners ==
    /\ dispatches # <<>>
    /\ dispatches' = [dispatches EXCEPT ![Len(dispatches)].todo = <<>>]
    /\ listenerThrew' = TRUE
    /\ UNCHANGED <<evt, made, removed, aborted, reason, follows, calls, stale>>
Throws ==
    /\ dispatches # <<>>
    /\ \E k \in 1..Len(dispatches) : dispatches' = Popped(k)
    /\ listenerThrew' = TRUE
    /\ UNCHANGED <<evt, made, removed, aborted, reason, follows, calls, stale>>

EvtNext ==
    \/ \E t \in Signals \cup {PlainTarget}, f \in Handlers :
          \/ \E o \in BOOLEAN : addEventListener(t, f, o)
          \/ \E s \in Signals : addWithSignal(t, f, s)
          \/ removeEventListener(t, f)
    \/ \E s \in Signals : abort(s)
    \/ \E d \in Followers, S \in SUBSET Signals : any(d, S)
    \/ dispatchEvent \/ NextListener \/ DispatchReturns \/ StopsListeners \/ Throws

-----------------------------------------------------------------------------

\* A once listener is called at most once, and a removed one not again, although
\* nested dispatches hold copies with it in them (prelude.js:478-486).
OnceAndRemoved ==
    /\ ~stale
    /\ \A t \in Targets : \A k \in DOMAIN evt[t] : evt[t][k].once => calls[evt[t][k].id] = 0

Idle == dispatches = <<>> /\ ~listenerThrew

\* Between dispatches a signal made by AbortSignal.any is aborted exactly when a
\* source is, with that source's reason: also if it was aborted during a dispatch
\* of another signal (lines 559-572).
AnyFollows ==
    Idle => \A d \in Followers : follows[d] # {} =>
              /\ aborted[d] = (\E s \in follows[d] : aborted[s])
              /\ aborted[d] => \E s \in follows[d] : aborted[s] /\ reason[d] = reason[s]

\* An aborted signal has no listener left that it was to remove, and its own
\* removers and forwarders are gone with it.
AbortRemoves ==
    Idle => \A s \in Signals : aborted[s] =>
              \A k \in DOMAIN evt[s] : evt[s][k].fn.does = "program"
=============================================================================
