------------------------------ MODULE Domains ------------------------------
(***************************************************************************)
(* lib/domain.js: a stack of active domains, the calls that run inside one *)
(* (run, bind, intercept, timers scheduled while it was active, emits of   *)
(* its members), and where an error thrown under them goes: to the handler *)
(* of the innermost domain that has one, or to the process.                *)
(***************************************************************************)
EXTENDS Integers, Sequences, FiniteSets

CONSTANTS Doms,          \* the domains
          MaxCalls,      \* calls on the stack
          MaxErrors,     \* errors thrown
          MaxTimers,     \* timers scheduled
          MaxMoves       \* enter, exit, dispose, add and remove calls of the program

VARIABLES stack,         \* `stack`: the active domains
          callStack,        \* the calls on the program's stack, innermost last
          error,         \* the error being thrown, or NoError
          listening,     \* domains with an 'error' listener
          disposed,      \* _disposed
          owner,         \* `domain` of one emitter, 0 for null
          members,       \* the domains the emitter is a member of
          timers,        \* the domain each pending timer's callback was wrapped for
          scheduled,     \* timers scheduled so far
          moves,         \* the program's own enter, exit, dispose, add, remove so far
          errorsThrown,         \* errors thrown so far
          answered,      \* errors a handler was called with
          touched,       \* the program itself changed the stack under these calls
          base,          \* the stack the outermost call found
          lived          \* the process has not been ended by an error

domainVars == <<stack, callStack, error, listening, disposed, owner, members, timers,
                scheduled, moves, errorsThrown, answered, touched, base, lived>>

\* An error: the domain it was marked with, whether it is an object (only objects are
\* marked), and, for the properties, the domain that ought to answer it.
NoError == [dom |-> -1, object |-> FALSE, due |-> 0]

DomainInit ==
    /\ stack = <<>> /\ callStack = <<>> /\ base = <<>> /\ error = NoError
    /\ listening \in SUBSET Doms /\ disposed = {}
    /\ owner = 0 /\ members = {} /\ timers = <<>> /\ scheduled = 0 /\ moves = 0
    /\ errorsThrown = 0 /\ answered = 0 /\ touched = FALSE /\ lived = TRUE

active == IF stack = <<>> THEN 0 ELSE stack[Len(stack)]

Entered(d) == IF d \in disposed THEN stack ELSE Append(stack, d)

\* exit() pops the domain's last occurrence and everything above it.
Exited(d) ==
    LET at == {i \in DOMAIN stack : stack[i] = d}
        last == CHOOSE i \in at : \A j \in at : j <= i
    IN  IF at = {} THEN stack ELSE SubSeq(stack, 1, last - 1)

Inner == callStack[Len(callStack)]
Outer == SubSeq(callStack, 1, Len(callStack) - 1)
\* The program's code is running: at the top, in a body, or in a handler.
Running == lived /\ error = NoError /\ (callStack # <<>> => Inner.phase # "caught")

\* The innermost open call whose domain has a listener.
Due == LET can == {k \in DOMAIN callStack : callStack[k].phase = "body" /\ callStack[k].dom \in listening}
       IN  IF can = {} THEN 0 ELSE callStack[CHOOSE k \in can : \A j \in can : j <= k].dom
Thrown(object) == [dom |-> 0, object |-> object, due |-> Due]

-----------------------------------------------------------------------------
(* Calls that run inside a domain. *)

Quiet == UNCHANGED <<error, listening, disposed, owner, members, scheduled, moves, errorsThrown,
                     answered, lived>>
Under(d) ==
    /\ Len(callStack) < MaxCalls
    /\ stack' = Entered(d)
    /\ callStack' = Append(callStack, [dom |-> d, phase |-> "body", entered |-> d \notin disposed])
    /\ base' = IF callStack = <<>> THEN stack ELSE base
    /\ touched' = (touched /\ callStack # <<>>)
    /\ Quiet

\* d.run(fn), or a function made by d.bind or d.intercept (with no error).
run(d) == Running /\ Under(d) /\ UNCHANGED timers
\* emit() of a member runs its listeners inside the domain.
emitMember == Running /\ owner # 0 /\ Under(owner) /\ UNCHANGED timers
\* The event loop calls a timer's callback, in the domain it was wrapped for.
FireTimer ==
    /\ Running /\ callStack = <<>> /\ timers # <<>>
    /\ timers' = Tail(timers)
    /\ IF Head(timers) # 0 THEN Under(Head(timers))
       ELSE UNCHANGED <<stack, callStack, base, touched>> /\ Quiet

\* setTimeout wraps the callback for the domain active now.
wrapCallback ==
    /\ Running /\ scheduled < MaxTimers
    /\ timers' = Append(timers, active) /\ scheduled' = scheduled + 1
    /\ UNCHANGED <<stack, callStack, error, listening, disposed, owner, members, moves, errorsThrown,
                   answered, touched, base, lived>>

-----------------------------------------------------------------------------
(* What the program does to domains. *)

Moves == Running /\ moves < MaxMoves /\ moves' = moves + 1

Touches(s) ==
    /\ stack' = s
    /\ touched' = (callStack # <<>>)
    /\ UNCHANGED <<callStack, error, owner, members, timers, scheduled, errorsThrown, answered, base, lived>>
enter(d) == Moves /\ Touches(Entered(d)) /\ UNCHANGED <<listening, disposed>>
exit(d) == Moves /\ Touches(Exited(d)) /\ UNCHANGED <<listening, disposed>>
dispose(d) ==
    /\ Moves
    /\ disposed' = disposed \cup {d} /\ listening' = listening \ {d}
    /\ Touches(Exited(d))

add(d) ==
    /\ Moves /\ d \notin members
    /\ owner' = d /\ members' = members \cup {d}
    /\ UNCHANGED <<stack, callStack, error, listening, disposed, timers, scheduled, errorsThrown,
                   answered, touched, base, lived>>
remove(d) ==
    /\ Moves
    /\ owner' = IF owner = d THEN 0 ELSE owner
    /\ members' = members \ {d}
    /\ UNCHANGED <<stack, callStack, error, listening, disposed, timers, scheduled, errorsThrown,
                   answered, touched, base, lived>>

-----------------------------------------------------------------------------
(* Errors. *)

\* _emitError on domain d, called with the frames `under` below it: the error is
\* marked, and the listener is called or, where there is none, it is thrown again.
Marked(e, d) == IF e.object THEN [e EXCEPT !.dom = d] ELSE e
emitError(d, e, under) ==
    IF d \in listening
    THEN /\ answered' = answered + 1 /\ error' = NoError
         /\ callStack' = Append(under, [dom |-> d, phase |-> "handler", entered |-> FALSE])
    ELSE /\ error' = Marked(e, d) /\ callStack' = under /\ UNCHANGED answered

\* A function made by d.intercept is called with an error: it is not entered.
intercept(d) ==
    /\ Running /\ errorsThrown < MaxErrors /\ Len(callStack) < MaxCalls
    /\ errorsThrown' = errorsThrown + 1
    /\ \E object \in BOOLEAN : emitError(d, Thrown(object), callStack)
    /\ base' = IF callStack = <<>> THEN stack ELSE base
    /\ touched' = (touched /\ callStack # <<>>)
    /\ UNCHANGED <<stack, listening, disposed, owner, members, timers, scheduled, moves, lived>>

\* The running code throws.
Throw ==
    /\ Running /\ callStack # <<>> /\ errorsThrown < MaxErrors
    /\ errorsThrown' = errorsThrown + 1
    /\ \E object \in BOOLEAN : error' = Thrown(object)
    /\ UNCHANGED <<stack, callStack, listening, disposed, owner, members, timers, scheduled, moves,
                   answered, touched, base, lived>>

Same == UNCHANGED <<listening, disposed, owner, members, timers, scheduled, moves, errorsThrown, touched,
                    base, lived>>
\* The catch of run, bind, intercept, a timer or an emit.  While the handler runs the
\* domain is still active; `finally` exits it when the error is thrown on.
Catch ==
    /\ error # NoError /\ callStack # <<>> /\ Inner.phase = "body"
    /\ IF Inner.dom \in listening
       THEN emitError(Inner.dom, error, Append(Outer, [Inner EXCEPT !.phase = "caught"])) /\ UNCHANGED stack
       ELSE emitError(Inner.dom, error, Outer) /\ stack' = Exited(Inner.dom)
    /\ Same

(* Mutant of HandlerThrows: the error a handler throws goes back to its domain. *)
HandlerThrows_Again ==
    /\ error # NoError /\ callStack # <<>> /\ Inner.phase = "handler"
    /\ callStack' = IF Outer = <<>> THEN Outer
                 ELSE [Outer EXCEPT ![Len(Outer)].phase = "body"]
    /\ UNCHANGED <<stack, error, answered>> /\ Same

\* A handler throws: the frame that called it is left as well.
HandlerThrows ==
    /\ error # NoError /\ callStack # <<>> /\ Inner.phase = "handler"
    /\ callStack' = Outer
    /\ UNCHANGED <<stack, error, answered>> /\ Same
Finally ==
    /\ callStack # <<>> /\ Inner.phase = "caught"
    /\ callStack' = Outer /\ stack' = Exited(Inner.dom)
    /\ UNCHANGED <<error, answered>> /\ Same
Returns ==
    /\ Running /\ callStack # <<>>
    /\ callStack' = Outer
    /\ stack' = IF Inner.phase = "body" THEN Exited(Inner.dom) ELSE stack
    /\ UNCHANGED <<error, answered>> /\ Same

\* An error that left every call: __dispatchUncaught offers it to the domain it was
\* marked with, or to the active one; with no listener there the process ends.
dispatchUncaught ==
    /\ error # NoError /\ callStack = <<>>
    /\ LET d == IF error.dom # 0 THEN error.dom ELSE active
       IN  IF d \in listening THEN emitError(d, error, <<>>) /\ UNCHANGED lived
           ELSE lived' = FALSE /\ error' = NoError /\ UNCHANGED <<callStack, answered>>
    /\ UNCHANGED <<stack, listening, disposed, owner, members, timers, scheduled, moves, errorsThrown, touched, base>>

DomainNext ==
    \/ \E d \in Doms : \/ run(d) \/ enter(d) \/ exit(d) \/ dispose(d)
                       \/ add(d) \/ remove(d) \/ intercept(d)
    \/ emitMember \/ FireTimer \/ wrapCallback
    \/ Throw \/ Catch \/ HandlerThrows \/ Finally \/ Returns \/ dispatchUncaught

-----------------------------------------------------------------------------

\* However the calls made inside domains are left - a return, an error their handler
\* took, a handler that threw, an error with no handler - the active domains are those
\* of the calls still open, in order, on top of what the outermost call found.  (Checked
\* while the program itself does not enter, exit or dispose under an open call.)
OpenCalls == SelectSeq(callStack, LAMBDA f : f.entered)
ActiveAreOpen ==
    ~touched /\ callStack # <<>> /\ (\A k \in DOMAIN base : base[k] \notin disposed)
        => stack = base \o [k \in DOMAIN OpenCalls |-> OpenCalls[k].dom]

\* Every error is taken by exactly one handler, is still on its way, or ended the
\* process: none disappears because the domain that caught it had no listener.
ErrorsAccounted ==
    errorsThrown = answered + (IF error # NoError THEN 1 ELSE 0) + (IF lived THEN 0 ELSE 1)

\* An error is answered by the innermost open call whose domain has a listener -
\* the calls inside it, and those whose handler is running and threw it, do not
\* count - and it ends the process only if there is no such call.
AnsweredByInnermost ==
    error.due # 0 => /\ lived'
                     /\ answered' > answered => callStack'[Len(callStack')].dom = error.due
=============================================================================
