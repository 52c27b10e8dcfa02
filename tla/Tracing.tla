------------------------------ MODULE Tracing ------------------------------
(***************************************************************************)
(* lib/diagnostics_channel.js: channels interned by name with subscribers  *)
(* that may subscribe, unsubscribe and throw while a message is published, *)
(* and the tracing of one call: synchronous, by promise, or by callback.   *)
(***************************************************************************)
EXTENDS Integers, Sequences, FiniteSets

CONSTANTS Subscribers,    \* the program's functions
          MaxPublishes    \* messages published

VARIABLES subs,           \* _subscribers of the channel
          publishing,     \* publish() calls in progress: what is left of each copy
          copied,         \* what each message was published to
          heard,          \* <<message, subscriber>> calls made
          shape,          \* the traced call: "sync", "promise", "callback", or "none"
          tracePhase,     \* "before", "inside", "after", "gone"
          promised,       \* the call's promise: "none", "pending", "ok", "bad"
          inCallback,     \* wrapped callbacks on the stack
          given,          \* times the wrapped callback has been called
          log             \* the events published for the call, in order

pubVars == <<subs, publishing, copied, heard>>
callVars == <<shape, tracePhase, promised, inCallback, given, log>>
traceVars == <<pubVars, callVars>>

TraceInit ==
    /\ subs = <<>> /\ publishing = <<>> /\ copied = <<>> /\ heard = <<>>
    /\ shape \in {"none", "sync", "promise", "callback"}
    /\ tracePhase = "before" /\ promised = "none" /\ inCallback = 0 /\ given = 0
    /\ log = <<>>

-----------------------------------------------------------------------------
(* The channel. *)

subscribe(f) ==
    /\ Len(subs) < 3
    /\ subs' = Append(subs, f)
    /\ UNCHANGED <<publishing, copied, heard, callVars>>

\* The first occurrence of a function is removed.
unsubscribe(f) ==
    /\ \E i \in DOMAIN subs :
          /\ subs[i] = f /\ \A j \in 1..i - 1 : subs[j] # f
          /\ subs' = SubSeq(subs, 1, i - 1) \o SubSeq(subs, i + 1, Len(subs))
    /\ UNCHANGED <<publishing, copied, heard, callVars>>

\* publish() is called by the program or by a subscriber.
publish ==
    /\ Len(copied) < MaxPublishes
    /\ copied' = Append(copied, subs)
    /\ publishing' = Append(publishing, [message |-> Len(copied'), todo |-> subs])
    /\ UNCHANGED <<subs, heard, callVars>>

\* One subscriber of the copy is called and returns or throws: the error is thrown
\* again from a microtask, and stops neither the others nor the publisher.
Innermost == publishing[Len(publishing)]
RestOf(p) == [p EXCEPT !.todo = Tail(@)]
CallSubscriber ==
    /\ publishing # <<>> /\ Innermost.todo # <<>>
    /\ heard' = Append(heard, <<Innermost.message, Head(Innermost.todo)>>)
    /\ publishing' = [publishing EXCEPT ![Len(publishing)] = RestOf(@)]
    /\ UNCHANGED <<subs, copied, callVars>>

PublishReturns ==
    /\ publishing # <<>> /\ Innermost.todo = <<>>
    /\ publishing' = SubSeq(publishing, 1, Len(publishing) - 1)
    /\ UNCHANGED <<subs, copied, heard, callVars>>

-----------------------------------------------------------------------------
(* A traced call.  What its events do to their subscribers is the channel's part:
   a publication changes nothing for its publisher, so a behaviour has either a
   busy channel (shape = "none") or a traced call. *)

Says(said) == log' = log \o said

\* traceSync, tracePromise and traceCallback publish `start` and call fn.
Begin ==
    /\ tracePhase = "before" /\ shape # "none"
    /\ tracePhase' = "inside"
    /\ Says(<<"start">>)
    /\ UNCHANGED <<shape, promised, inCallback, given, pubVars>>

(* Mutant of FnThrows: the error path forgets the end. *)
FnThrows_NoEnd ==
    /\ tracePhase = "inside" /\ inCallback = 0
    /\ tracePhase' = "gone"
    /\ Says(<<"error">>)
    /\ UNCHANGED <<shape, promised, inCallback, given, pubVars>>

\* fn throws: `error`, then `end`.
FnThrows ==
    /\ tracePhase = "inside" /\ inCallback = 0
    /\ tracePhase' = "gone"
    /\ Says(<<"error", "end">>)
    /\ UNCHANGED <<shape, promised, inCallback, given, pubVars>>

\* fn returns: `end`; a promise's asynchronous part starts at once.
FnReturns ==
    /\ tracePhase = "inside" /\ inCallback = 0
    /\ tracePhase' = "after"
    /\ promised' = IF shape = "promise" THEN "pending" ELSE "none"
    /\ Says(IF shape = "promise" THEN <<"end", "asyncStart">> ELSE <<"end">>)
    /\ UNCHANGED <<shape, inCallback, given, pubVars>>

PromiseSettles ==
    /\ promised = "pending"
    /\ \E how \in {"ok", "bad"} :
          /\ promised' = how
          /\ Says(IF how = "ok" THEN <<"asyncEnd">> ELSE <<"error", "asyncEnd">>)
    /\ UNCHANGED <<shape, tracePhase, inCallback, given, pubVars>>

\* The wrapped callback, called inside fn, inside itself or at any time after,
\* with an error or a result: `error`, `asyncStart`, and the program's callback.
CallbackBegins ==
    /\ shape = "callback" /\ tracePhase # "before" /\ given < 2
    /\ given' = given + 1 /\ inCallback' = inCallback + 1
    /\ \E failed \in BOOLEAN : Says((IF failed THEN <<"error">> ELSE <<>>) \o <<"asyncStart">>)
    /\ UNCHANGED <<shape, tracePhase, promised, pubVars>>

\* It returns or throws; a throw inside fn may leave fn too.
CallbackEnds ==
    /\ inCallback > 0
    /\ inCallback' = inCallback - 1
    /\ \/ Says(<<"asyncEnd">>) /\ UNCHANGED tracePhase
       \/ /\ tracePhase = "inside" /\ inCallback' = 0
          /\ Says(<<"asyncEnd", "error", "end">>) /\ tracePhase' = "gone"
    /\ UNCHANGED <<shape, promised, given, pubVars>>

TraceNext ==
    \/ /\ shape = "none"
       /\ \/ \E f \in Subscribers : subscribe(f) \/ unsubscribe(f)
          \/ publish \/ CallSubscriber \/ PublishReturns
    \/ Begin \/ FnThrows \/ FnReturns \/ PromiseSettles
    \/ CallbackBegins \/ CallbackEnds

-----------------------------------------------------------------------------

\* Every message reaches exactly the functions subscribed when it was published,
\* once per subscription and in their order, whichever of them throw, publish
\* again, or come and go meanwhile (publish: the copy, and the catch around each
\* call).
MessageReachesAll ==
    \A m \in DOMAIN copied :
        LET got == SelectSeq(heard, LAMBDA h : h[1] = m)
            left == {k \in DOMAIN publishing : publishing[k].message = m}
        IN  IF left = {} THEN [i \in DOMAIN got |-> got[i][2]] = copied[m]
            ELSE \A k \in left : [i \in DOMAIN got |-> got[i][2]] \o publishing[k].todo = copied[m]

Pos(e) == {k \in DOMAIN log : log[k] = e}
Before(a, b) == \A i \in Pos(a), j \in Pos(b) : i < j

\* However a traced call ends - by a value, a throw, a rejection, a callback that
\* is called inside the call, after it, twice or recursively and may throw - its
\* events nest: one start, first; one end, once fn has left; an asyncEnd for every
\* asyncStart that is not still running, never one more; a promise's asynchronous
\* part after the synchronous end, its error before it closes.
TraceWellFormed ==
    /\ tracePhase # "before" => Head(log) = "start" /\ Cardinality(Pos("start")) = 1
    /\ Cardinality(Pos("end")) = (IF tracePhase \in {"after", "gone"} THEN 1 ELSE 0)
    /\ Cardinality(Pos("asyncStart")) - Cardinality(Pos("asyncEnd")) =
          (IF promised = "pending" THEN 1 ELSE inCallback)
    /\ shape = "promise" => /\ Before("end", "asyncStart") /\ Before("asyncStart", "asyncEnd")
                            /\ Before("error", "asyncEnd")
    /\ shape = "sync" => Before("error", "end")
=============================================================================
