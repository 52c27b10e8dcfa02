------------------------------ MODULE Streams ------------------------------
(* Readable, Writable, Duplex and Transform streams, pipe and pipeline of the  *)
(* Node library (src/lib/stream.js), under a program that calls any of their   *)
(* methods at top level and again from inside listeners and hooks.             *)
(*                                                                             *)
(* The library runs on one thread.  `stack` holds the calls in progress, the   *)
(* innermost first: each step executes the innermost call up to the next call  *)
(* it makes.  A frame "user" is code of the program: a listener, a hook or a   *)
(* callback.  `timers` are the zero-delay timeouts the library has armed; the  *)
(* loop fires them in the order they were armed, when no call is in progress.  *)
(* The program is assumed to listen for 'error' (else emit throws) and not to  *)
(* call anything from 'pipe' and 'unpipe' listeners.                           *)
EXTENDS Integers, Sequences, FiniteSets, SequencesExt

CONSTANTS
  Names,      \* the stream objects there may be
  Setups,     \* the programs: how streams are constructed, which operations and how many
  MaxChunks,  \* chunks the program makes (each is a number, used once)
  HighWater   \* _highWaterMark

\* Options given to a constructor.  A transform's `impl` is its transform function.
Options == [kind: {"readable", "writable", "duplex", "transform"},
            impl: BOOLEAN, writev: BOOLEAN, final: BOOLEAN, hook: BOOLEAN, auto: BOOLEAN, from: BOOLEAN]

Operations == { "push", "eof", "read", "on", "pause", "resume", "pipe", "unpipe",
                "write", "end", "cork", "uncork", "destroy", "pipeline" }

\* A pipeline is made of streams there are, each once.
ASSUME StreamsAssumption ==
  /\ MaxChunks \in Nat /\ HighWater \in Nat \ {0}
  /\ "user" \notin Names
  /\ \A p \in Setups :
       /\ DOMAIN p.make \subseteq Names /\ Range(p.make) \subseteq Options
       /\ p.ops \subseteq Operations /\ p.max \in Nat
       /\ p.path \in Seq(Names) /\ IsInjective(p.path)
       /\ "pipeline" \in p.ops => p.path # <<>> /\ Range(p.path) \subseteq DOMAIN p.make

VARIABLES
  setup,     \* the program
  rd,        \* readable half: _chunks, _ended, _flowing, _doneEmitted, listeners
  wr,        \* writable half: writableEnded, corking, what the sink has, ...
  destroyed, \* the streams whose destroy() ran
  errored,   \* the streams whose `errored` is set
  timers, stack,
  awaiting,  \* callbacks the program holds and has not called yet
  events,    \* history: each stream's destroy() and the terminal events it emitted
  made,      \* history: chunks made so far
  ops,       \* history: operations started so far
  pipelines, \* streams whose pipeline callback is armed, and those it was called for
  linked     \* history: pipes laid before any chunk flowed and never undone

vars == << setup, rd, wr, destroyed, errored, timers, stack, awaiting, events, made, ops, pipelines, linked >>

None == "none"
NoChunk == 0

opts == setup.make
Streams == DOMAIN opts
Readables == { s \in Streams : opts[s].kind # "writable" }
Writables == { s \in Streams : opts[s].kind # "readable" }
\* The class a program gets: the module exports Transform under the name Duplex too.
Class(s) == IF opts[s].kind = "duplex" THEN "transform" ELSE opts[s].kind
Corkables == { s \in Streams : Class(s) = "writable" }

NewReadable == [chunks |-> <<>>, ended |-> FALSE, flowing |-> None, done |-> FALSE, listeners |-> <<>>,
                delivered |-> <<>>, late |-> FALSE]
NewWritable == [ended |-> FALSE, finished |-> FALSE, corked |-> 0, corkBuf |-> <<>>, needDrain |-> FALSE,
                accepted |-> <<>>, sunk |-> <<>>, overtaken |-> FALSE, failed |-> FALSE]

Init ==
  /\ setup \in Setups
  /\ rd = [s \in Streams |-> NewReadable]
  /\ wr = [s \in Streams |-> NewWritable]
  /\ destroyed = {} /\ errored = {}
  /\ timers = <<>> /\ stack = <<>>
  /\ awaiting = { << "pump", s, None >> : s \in { t \in Readables : opts[t].from } }
  /\ events = [s \in Streams |-> <<>>]
  /\ made = 0 /\ ops = 0
  /\ pipelines = [armed |-> {}, called |-> <<>>]
  /\ linked = {}
-----------------------------------------------------------------------------
(* Calls.  A frame names the operation, its stream and its argument.           *)
Call(op, s, x) == [op |-> op, s |-> s, x |-> x]
User == Call("user", None, None)
\* One listener after another gets the event; `to` is the copy emit() made.
Emit(s, ev, x, to) == [op |-> "emit", s |-> s, x |-> x, ev |-> ev, to |-> to]

Top(op) == stack # <<>> /\ Head(stack).op = op
S == Head(stack).s
X == Head(stack).x
\* The innermost call ends, having called `frames` one after another.
Then(frames) == stack' = frames \o Tail(stack)

ProgramRuns == stack = <<>> \/ Top("user")
Arm(new) == timers' = timers \o new
DrainTimer(s) == [op |-> "drain", s |-> s, x |-> None]
Record(s, ev) == events' = [events EXCEPT ![s] = Append(@, ev)]

Rest == << setup, made, ops, linked >>
-----------------------------------------------------------------------------
(* The readable half.                                                          *)

\* Readable.push(chunk): buffer it, and arm a drain if somebody is listening.
PushChunk ==
  /\ Top("push")
  /\ rd' = [rd EXCEPT ![S].chunks = Append(@, X), ![S].late = @ \/ rd[S].ended]
  /\ IF rd[S].flowing = "yes" THEN Arm(<< DrainTimer(S) >>) ELSE UNCHANGED timers
  /\ Then(<<>>)
  /\ UNCHANGED << Rest, wr, destroyed, errored, awaiting, events, pipelines >>

\* Readable.push(null).
PushNull ==
  /\ Top("eof")
  /\ rd' = [rd EXCEPT ![S].ended = TRUE]
  /\ IF rd[S].flowing = "yes" THEN Arm(<< DrainTimer(S) >>) ELSE UNCHANGED timers
  /\ Then(<<>>)
  /\ UNCHANGED << Rest, wr, destroyed, errored, awaiting, events, pipelines >>

\* The callback _drain armed, one turn of its loop: whether the stream was paused
\* or destroyed since is not asked, neither before the loop nor in it.
DrainLoop ==
  /\ Top("drain") /\ rd[S].chunks # <<>>
  /\ LET chunk == Head(rd[S].chunks) IN
     /\ rd' = [rd EXCEPT ![S].chunks = Tail(@), ![S].delivered = Append(@, chunk)]
     /\ Then(<< Emit(S, "data", chunk, rd[S].listeners), Head(stack) >>)
  /\ UNCHANGED << Rest, wr, destroyed, errored, timers, awaiting, events, pipelines >>

DrainEnds ==
  /\ Top("drain") /\ rd[S].chunks = <<>>
  /\ IF rd[S].ended /\ ~rd[S].done
     THEN /\ rd' = [rd EXCEPT ![S].done = TRUE]
          /\ Record(S, "end")
          /\ Then(<< Emit(S, "end", None, rd[S].listeners), Call("close", S, None) >>)
     ELSE /\ Then(<<>>)
          /\ UNCHANGED << rd, events >>
  /\ UNCHANGED << Rest, wr, destroyed, errored, timers, awaiting, pipelines >>

\* emit() calls the next listener of its copy: the program's, or the one pipe() added.
EmitNext ==
  /\ Top("emit")
  /\ LET f == Head(stack)
         called(l) == IF l = "user" THEN User
                      ELSE IF f.ev = "data" THEN Call("write", l, f.x) ELSE Call("end", l, NoChunk)
     IN IF f.to = <<>> THEN Then(<<>>)
        ELSE Then(<< called(Head(f.to)), [f EXCEPT !.to = Tail(@)] >>)
  /\ UNCHANGED << Rest, rd, wr, destroyed, errored, timers, awaiting, events, pipelines >>

\* 'close' is emitted; the program may listen.
EmitClose ==
  /\ Top("close")
  /\ Record(S, "close")
  /\ Then(<< User >>)
  /\ UNCHANGED << Rest, rd, wr, destroyed, errored, timers, awaiting, pipelines >>

\* 'error' is emitted.
EmitError ==
  /\ Top("error")
  /\ Record(S, "error")
  /\ Then(<< User >>)
  /\ UNCHANGED << Rest, rd, wr, destroyed, errored, timers, awaiting, pipelines >>

\* on('data') by the program: the listener is added and the stream flows.
Listen(s) ==
  /\ rd' = [rd EXCEPT ![s].listeners = Append(@, "user"), ![s].flowing = "yes"]
  /\ Arm(<< DrainTimer(s) >>)

\* Mutant: resume() only sets the flag.
Resume_FlagOnly(s) ==
  /\ rd' = [rd EXCEPT ![s].flowing = "yes"]
  /\ UNCHANGED timers

\* resume(), pause(), read().
Resume(s) ==
  /\ rd' = [rd EXCEPT ![s].flowing = "yes"]
  /\ Arm(<< DrainTimer(s) >>)

Pause(s) ==
  /\ rd' = [rd EXCEPT ![s].flowing = "no"]
  /\ UNCHANGED timers

Read(s) ==
  /\ rd[s].chunks # <<>>
  /\ rd' = [rd EXCEPT ![s].chunks = Tail(@)]
  /\ UNCHANGED timers

\* pipe(dest): a 'data' and an 'end' listener; adding each arms a drain.
Pipe(s, d) ==
  /\ rd' = [rd EXCEPT ![s].listeners = Append(@, d), ![s].flowing = "yes"]
  /\ Arm(<< DrainTimer(s), DrainTimer(s) >>)
  /\ linked' = IF rd[s].delivered = <<>> THEN linked \cup { << s, d >> } ELSE linked

Without(q, d) ==
  LET kept[i \in 0..Len(q)] ==
        IF i = 0 THEN <<>> ELSE IF q[i] = d THEN kept[i - 1] ELSE Append(kept[i - 1], q[i])
  IN kept[Len(q)]

\* unpipe(dest): every handler of that destination goes; a copy emit() made keeps it.
Unpipe(s, d) ==
  /\ rd' = [rd EXCEPT ![s].listeners = Without(@, d)]
  /\ linked' = linked \ { << s, d >> }
  /\ UNCHANGED timers
-----------------------------------------------------------------------------
(* The writable half.                                                          *)

\* Mutant: the count of corks is not asked.
Corked_Always(d) == TRUE

Corked(d) == wr[d].corked > 0
Flushing(d) == \E i \in 1..Len(stack) : stack[i].op = "flush" /\ stack[i].s = d

\* write(chunk): held while corked, else given to the sink at once.
Write ==
  /\ Top("write") /\ Class(S) # "transform"
  /\ IF Corked(S)
     THEN /\ wr' = [wr EXCEPT ![S].accepted = Append(@, X), ![S].corkBuf = Append(@, X),
                              ![S].needDrain = @ \/ Len(wr[S].corkBuf) + 1 >= HighWater]
          /\ Then(<<>>)
     ELSE /\ wr' = [wr EXCEPT ![S].accepted = Append(@, X), ![S].overtaken = @ \/ Flushing(S)]
          /\ Then(<< Call("writeNow", S, X) >>)
  /\ UNCHANGED << Rest, rd, destroyed, errored, timers, awaiting, events, pipelines >>

\* Transform.write: the transform function runs, or the chunk passes through.  The
\* write function a Duplex was given is not an option of Transform.
WriteTransform ==
  /\ Top("write") /\ Class(S) = "transform"
  /\ wr' = [wr EXCEPT ![S].accepted = Append(@, X)]
  /\ IF opts[S].kind = "transform" /\ opts[S].impl
     THEN /\ awaiting' = awaiting \cup { << "transform", S, X >> }
          /\ Then(<< User >>)
     ELSE /\ UNCHANGED awaiting
          /\ Then(<< Call("push", S, X) >>)
  /\ UNCHANGED << Rest, rd, destroyed, errored, timers, events, pipelines >>

\* _writeNow: the write implementation gets the chunk and a callback to call later;
\* without one, the chunk is kept and the callback of the caller runs.
WriteNow ==
  /\ Top("writeNow")
  /\ wr' = [wr EXCEPT ![S].sunk = Append(@, X)]
  /\ awaiting' = IF opts[S].impl THEN awaiting \cup { << "write", S, X >> } ELSE awaiting
  /\ Then(<< User >>)
  /\ UNCHANGED << Rest, rd, destroyed, errored, timers, events, pipelines >>

\* _failWrite: the first failure is reported.
FailWrite ==
  /\ Top("failWrite")
  /\ IF S \in errored
     THEN Then(<<>>) /\ UNCHANGED errored
     ELSE /\ errored' = errored \cup {S}
          /\ Then(<< Call("error", S, None), Call("autoDestroy", S, None) >>)
  /\ UNCHANGED << Rest, rd, wr, destroyed, timers, awaiting, events, pipelines >>

\* destroy() after a failed write, if the stream destroys itself.
AutoDestroy ==
  /\ Top("autoDestroy")
  /\ Then(IF opts[S].auto /\ S \notin destroyed THEN << Call("destroy", S, None) >> ELSE <<>>)
  /\ UNCHANGED << Rest, rd, wr, destroyed, errored, timers, awaiting, events, pipelines >>

\* end(): with the error 'write after end' if the stream has ended; else it writes
\* the last chunk, uncorks in full, and arms the tick that finishes the stream.
End ==
  /\ Top("end") /\ Class(S) # "transform"
  /\ Then(IF wr[S].ended THEN << Call("error", S, None) >>
          ELSE (IF X = NoChunk THEN <<>> ELSE << Call("write", S, X) >>)
               \o << Call("endUncork", S, None), Call("ended", S, None) >>)
  /\ UNCHANGED << Rest, rd, wr, destroyed, errored, timers, awaiting, events, pipelines >>

EndUncork ==
  /\ Top("endUncork")
  /\ IF Corked(S)
     THEN /\ wr' = [wr EXCEPT ![S].corked = 1]
          /\ Then(<< Call("uncork", S, None) >>)
     ELSE /\ UNCHANGED wr
          /\ Then(<<>>)
  /\ UNCHANGED << Rest, rd, destroyed, errored, timers, awaiting, events, pipelines >>

Ended ==
  /\ Top("ended")
  /\ wr' = [wr EXCEPT ![S].ended = TRUE]
  /\ Arm(<< Call("finishing", S, None) >>)
  /\ Then(<<>>)
  /\ UNCHANGED << Rest, rd, destroyed, errored, awaiting, events, pipelines >>

\* Transform.end: the readable side ends; there is no 'finish'.
EndTransform ==
  /\ Top("end") /\ Class(S) = "transform"
  /\ Then((IF X = NoChunk THEN <<>> ELSE << Call("write", S, X) >>) \o << Call("eof", S, None) >>)
  /\ UNCHANGED << Rest, rd, wr, destroyed, errored, timers, awaiting, events, pipelines >>

\* Mutant: a destroy since end() is not noticed.
Finishing_Regardless ==
  /\ Top("finishing")
  /\ Then(<< Call("finish", S, None) >>)
  /\ UNCHANGED << Rest, rd, wr, destroyed, errored, timers, awaiting, events, pipelines >>

\* The tick end() armed: nothing if the stream was destroyed meanwhile; _final first.
Finishing ==
  /\ Top("finishing")
  /\ IF S \in destroyed THEN Then(<< User >>) /\ UNCHANGED awaiting
     ELSE IF opts[S].final
     THEN /\ awaiting' = awaiting \cup { << "final", S, None >> }
          /\ Then(<< User >>)
     ELSE Then(<< Call("finish", S, None) >>) /\ UNCHANGED awaiting
  /\ UNCHANGED << Rest, rd, wr, destroyed, errored, timers, events, pipelines >>

\* finish() without an error: 'finish' goes to the program and to pipeline's listener.
Finish ==
  /\ Top("finish")
  /\ wr' = [wr EXCEPT ![S].finished = TRUE]
  /\ Record(S, "finish")
  /\ pipelines' = IF S \in pipelines.armed THEN [pipelines EXCEPT !.called = Append(@, S)] ELSE pipelines
  /\ Then(<< User, Call("finished", S, None) >>)
  /\ UNCHANGED << Rest, rd, destroyed, errored, timers, awaiting >>

\* ... after its listeners: the stream destroys itself, or is closed here.
Finished ==
  /\ Top("finished")
  /\ Then(<< Call(IF opts[S].auto /\ S \notin destroyed THEN "destroy" ELSE "close", S, None) >>)
  /\ UNCHANGED << Rest, rd, wr, destroyed, errored, timers, awaiting, events, pipelines >>

\* uncork(): the last one takes what was held and writes it, as one batch if the
\* stream has a writev and there is more than one chunk.
Uncork ==
  /\ Top("uncork")
  /\ IF ~Corked(S) THEN Then(<<>>) /\ UNCHANGED << wr, awaiting >>
     ELSE LET held == wr[S].corkBuf IN
       IF wr[S].corked > 1 \/ held = <<>>
       THEN /\ wr' = [wr EXCEPT ![S].corked = @ - 1]
            /\ Then(<<>>) /\ UNCHANGED awaiting
       ELSE IF opts[S].writev /\ Len(held) > 1
       THEN /\ wr' = [wr EXCEPT ![S].corked = 0, ![S].corkBuf = <<>>, ![S].sunk = @ \o held,
                                   ![S].overtaken = @ \/ Flushing(S)]
            /\ awaiting' = awaiting \cup { << "writev", S, Head(held) >> }
            /\ Then(<< User >>)
       ELSE /\ wr' = [wr EXCEPT ![S].corked = 0, ![S].corkBuf = <<>>,
                                   ![S].overtaken = @ \/ Flushing(S)]
            /\ Then(<< Call("flush", S, held) >>) /\ UNCHANGED awaiting
  /\ UNCHANGED << Rest, rd, destroyed, errored, timers, events, pipelines >>

\* The loop of uncork() over what it took, one chunk a turn.
Flush ==
  /\ Top("flush")
  /\ Then(IF X = <<>> THEN <<>> ELSE << Call("writeNow", S, Head(X)), Call("flush", S, Tail(X)) >>)
  /\ UNCHANGED << Rest, rd, wr, destroyed, errored, timers, awaiting, events, pipelines >>
-----------------------------------------------------------------------------
(* destroy(err), installed on every class.                                     *)
Destroy ==
  /\ Top("destroy")
  /\ IF S \in destroyed THEN Then(<<>>) /\ UNCHANGED << destroyed, errored, awaiting, timers, events >>
     ELSE /\ destroyed' = destroyed \cup {S}
          /\ Record(S, "destroy")
          /\ errored' = IF X = "err" THEN errored \cup {S} ELSE errored
          /\ IF opts[S].hook
             THEN /\ awaiting' = awaiting \cup { << "hook", S, X >> }
                  /\ Then(<< User >>) /\ UNCHANGED timers
             ELSE /\ Arm(<< Call("destroyed", S, X) >>)
                  /\ Then(<<>>) /\ UNCHANGED awaiting
  /\ UNCHANGED << Rest, rd, wr, pipelines >>

\* The tick finishDestroy armed: 'error' if there is one, then 'close'.
Destroyed ==
  /\ Top("destroyed")
  /\ Then((IF X = "err" THEN << Call("error", S, None) >> ELSE <<>>) \o << Call("close", S, None) >>)
  /\ UNCHANGED << Rest, rd, wr, destroyed, errored, timers, awaiting, events, pipelines >>

\* The oldest timeout fires when nothing runs.
FireTimer ==
  /\ stack = <<>> /\ timers # <<>>
  /\ stack' = << Head(timers) >>
  /\ timers' = Tail(timers)
  /\ UNCHANGED << Rest, rd, wr, destroyed, errored, awaiting, events, pipelines >>
-----------------------------------------------------------------------------
(* The program.                                                                *)

\* A callback the library gave to a hook is called, at once or later, in good or in
\* bad.  The caller's own write callback runs before the failure is reported.  A
\* transform's error is dropped; its chunk may be.
Answer(a, err) ==
  /\ ProgramRuns /\ a \in awaiting /\ a[1] # "pump"
  /\ awaiting' = awaiting \ {a}
  /\ LET kind == a[1]
         s == a[2]
         next == CASE kind = "write" -> << User >> \o (IF err THEN << Call("failWrite", s, None) >> ELSE <<>>)
                   [] kind = "writev" -> << User >>
                   [] kind = "transform" -> IF err THEN <<>> ELSE << Call("push", s, a[3]) >>
                   [] kind = "final" -> << Call(IF err THEN "error" ELSE "finish", s, None) >>
                   [] kind = "hook" -> <<>>
     IN /\ stack' = next \o stack
        /\ wr' = IF kind = "write" /\ err THEN [wr EXCEPT ![s].failed = TRUE] ELSE wr
        /\ IF kind = "hook" THEN Arm(<< Call("destroyed", s, IF err THEN "err" ELSE a[3]) >>)
           ELSE UNCHANGED timers
  /\ UNCHANGED << Rest, rd, destroyed, errored, events, pipelines >>

\* Readable.from(async iterable): the promise of the iterator's next() settles; the
\* pump pushes what it got and asks again, ends the stream, or reports the error.
Pump(a) ==
  /\ stack = <<>> /\ a \in awaiting /\ a[1] = "pump"
  /\ \/ /\ made < MaxChunks /\ made' = made + 1
        /\ stack' = << Call("push", a[2], made') >>
        /\ UNCHANGED awaiting
     \/ /\ \E end \in {"eof", "error"} : stack' = << Call(end, a[2], None) >>
        /\ awaiting' = awaiting \ {a}
        /\ UNCHANGED made
  /\ UNCHANGED << setup, rd, wr, destroyed, errored, timers, events, ops, pipelines, linked >>

\* The program starts an operation on a stream.
Starts(op) == op \in setup.ops /\ ProgramRuns /\ ops < setup.max /\ ops' = ops + 1

CallReadable(s) ==
  /\ UNCHANGED << setup, wr, destroyed, errored, stack, awaiting, events, made, pipelines >>
  /\ \/ Starts("on") /\ Listen(s) /\ UNCHANGED linked
     \/ Starts("resume") /\ Resume(s) /\ UNCHANGED linked
     \/ Starts("pause") /\ Pause(s) /\ UNCHANGED linked
     \/ Starts("read") /\ Read(s) /\ UNCHANGED linked
     \/ \E d \in Writables \ {s} : Starts("pipe") /\ Pipe(s, d)
     \/ \E d \in Writables \ {s} : Starts("unpipe") /\ Unpipe(s, d)

\* Operations that carry a new chunk: push(chunk), write(chunk), end(chunk).
CallWithChunk ==
  /\ made < MaxChunks /\ made' = made + 1
  /\ \/ \E s \in Readables : Starts("push") /\ stack' = << Call("push", s, made') >> \o stack
     \/ \E s \in Writables : Starts("write") /\ stack' = << Call("write", s, made') >> \o stack
     \/ \E s \in Writables : Starts("end") /\ stack' = << Call("end", s, made') >> \o stack
  /\ UNCHANGED << setup, rd, wr, destroyed, errored, timers, awaiting, events, pipelines, linked >>

CallPlain ==
  /\ \/ \E s \in Readables : Starts("eof") /\ stack' = << Call("eof", s, None) >> \o stack
     \/ \E s \in Writables : Starts("end") /\ stack' = << Call("end", s, NoChunk) >> \o stack
     \/ \E s \in Corkables : Starts("uncork") /\ stack' = << Call("uncork", s, None) >> \o stack
     \/ \E s \in Streams, e \in {None, "err"} : Starts("destroy") /\ stack' = << Call("destroy", s, e) >> \o stack
  /\ UNCHANGED << setup, rd, wr, destroyed, errored, timers, awaiting, events, made, pipelines, linked >>

Cork(d) ==
  /\ Starts("cork")
  /\ wr' = [wr EXCEPT ![d].corked = @ + 1]
  /\ UNCHANGED << setup, rd, destroyed, errored, timers, stack, awaiting, events, made, pipelines, linked >>

\* pipeline(source, ..., last, cb): pipes each into the next and waits for 'finish'.
\* A program lays one pipeline to a destination.
Pipeline ==
  LET path == setup.path
      n == Len(path)
      feeds(s) == { i \in 1..n - 1 : path[i] = s }
      to(s) == path[1 + CHOOSE i \in feeds(s) : TRUE]
  IN
  /\ Starts("pipeline") /\ Last(path) \notin pipelines.armed
  /\ rd' = [s \in Streams |->
              IF feeds(s) = {} THEN rd[s]
              ELSE [rd[s] EXCEPT !.listeners = Append(@, to(s)), !.flowing = "yes"]]
  /\ linked' = linked \cup { << s, to(s) >> : s \in { t \in Range(path) : feeds(t) # {} /\ rd[t].delivered = <<>> } }
  /\ Arm([i \in 1..2 * (n - 1) |-> DrainTimer(path[(i + 1) \div 2])])
  /\ pipelines' = [pipelines EXCEPT !.armed = @ \cup { Last(path) }]
  /\ UNCHANGED << setup, wr, destroyed, errored, stack, awaiting, events, made >>

\* Listener, hook or callback of the program returns.
Return ==
  /\ Top("user")
  /\ Then(<<>>)
  /\ UNCHANGED << setup, rd, wr, destroyed, errored, timers, awaiting, events, made, ops, pipelines, linked >>

Program ==
  \/ \E s \in Readables : CallReadable(s)
  \/ CallWithChunk
  \/ CallPlain
  \/ \E d \in Corkables : Cork(d)
  \/ Pipeline
  \/ \E a \in awaiting, err \in BOOLEAN : Answer(a, err)
  \/ \E a \in awaiting : Pump(a)

Library ==
  \/ PushChunk \/ PushNull \/ DrainLoop \/ DrainEnds \/ EmitNext \/ EmitClose \/ EmitError
  \/ Write \/ WriteTransform \/ WriteNow \/ FailWrite \/ AutoDestroy
  \/ End \/ EndUncork \/ Ended \/ EndTransform \/ Finishing \/ Finish \/ Finished
  \/ Uncork \/ Flush \/ Destroy \/ Destroyed

Next == Program \/ Library \/ Return \/ FireTimer

Spec == Init /\ [][Next]_vars

\* Calls in progress go on, code of the program returns, and the loop fires timeouts.
\* The program need not do anything, nor ever call a callback it was given.
Fairness == WF_vars(Library) /\ WF_vars(Return) /\ WF_vars(FireTimer)

FairSpec == Spec /\ Fairness
-----------------------------------------------------------------------------
Quiet == stack = <<>>
Count(s, ev) == Cardinality({ i \in 1..Len(events[s]) : events[s][i] = ev })
\* p is what remains of q when some of its elements are left out.
Within(p, q) ==
  \E at \in [1..Len(p) -> 1..Len(q)] :
    /\ \A i \in 1..Len(p) : q[at[i]] = p[i]
    /\ \A i, j \in 1..Len(p) : i < j => at[i] < at[j]
Increasing(q) == \A i, j \in 1..Len(q) : i < j => q[i] < q[j]

\* Every variable keeps its type.
TypeOK ==
  /\ setup \in Setups
  /\ \A s \in Streams :
       /\ rd[s].flowing \in {None, "yes", "no"} /\ rd[s].chunks \in Seq(1..MaxChunks)
       /\ wr[s].corked \in Nat /\ wr[s].sunk \in Seq(1..MaxChunks)
       /\ events[s] \in Seq({"destroy", "end", "error", "finish", "close"})
  /\ destroyed \subseteq Streams /\ errored \subseteq Streams
  /\ made \in 0..MaxChunks /\ ops \in 0..setup.max

\* A source hands on its chunks in the order they were pushed and each once, however
\* drains, pauses and reads interleave.
BufferedInOrder ==
  \A s \in Readables : opts[s].kind = "readable" => Increasing(rd[s].delivered \o rd[s].chunks)

\* 'end' comes once, and after the last chunk, unless a chunk was pushed after null.
EndIsLast ==
  \A s \in Readables : /\ Count(s, "end") <= 1
                       /\ Count(s, "end") = 1 /\ ~rd[s].late => rd[s].chunks = <<>>

\* A destination that was piped to before the first chunk has been given every chunk,
\* in order, whatever other destinations and listeners did meanwhile.
PipeComplete ==
  Quiet => \A p \in linked : Within(rd[p[1]].delivered, wr[p[2]].accepted)

\* No write is lost and none overtakes another, held or not, unless code that runs
\* while held chunks are flushed writes or uncorks itself.
WritesInOrder ==
  Quiet => \A d \in Corkables :
    /\ ToSet(wr[d].accepted) = ToSet(wr[d].sunk) \cup ToSet(wr[d].corkBuf)
    /\ wr[d].overtaken \/ wr[d].accepted = wr[d].sunk \o wr[d].corkBuf

\* A sink that reports a failed write makes the stream report it.  (Of _write's callback:
\* what a _writev's is given is not told apart here.)
FailureReported ==
  Quiet => \A d \in Writables : opts[d].kind = "writable" /\ wr[d].failed => d \in errored

\* 'finish' does not come after a destroy (stream.js 236-237) when no _final is pending.
NoFinishAfterDestroy ==
  \A d \in Writables : ~opts[d].final =>
    \A i, j \in 1..Len(events[d]) : events[d][i] = "destroy" /\ events[d][j] = "finish" => j < i

\* No chunk is lost, repeated or overtaken between a source and what it was piped to or a
\* writer and its sink; the end comes after them; a failure is reported, not a finish.
ChunksKept ==
  /\ BufferedInOrder /\ EndIsLast /\ PipeComplete
  /\ WritesInOrder /\ FailureReported /\ NoFinishAfterDestroy

\* The same for every stream, as the comment says: "'finish' must not arrive after a
\* destroy" (stream.js 236-237).  A _final that calls back later breaks it.
FinishNeverAfterDestroy ==
  \A d \in Writables :
    \A i, j \in 1..Len(events[d]) : events[d][i] = "destroy" /\ events[d][j] = "finish" => j < i

\* What is written to a Duplex never comes out of its own readable half: "readable AND
\* writable, with both halves independent" (stream.js 335-338).
HalvesIndependent ==
  \A d \in Streams : opts[d].kind = "duplex" =>
    ToSet(wr[d].accepted) \cap ToSet(rd[d].chunks \o rd[d].delivered) = {}

\* end() leads to 'finish', or the stream was destroyed or failed, or waits for its hook.
EndSettles ==
  \A d \in Names :
    (d \in Corkables /\ wr[d].ended) ~>
      (d \in Corkables /\ (wr[d].finished \/ d \in destroyed \/ Count(d, "error") > 0
                            \/ << "final", d, None >> \in awaiting))

\* What a flowing stream holds is delivered, unless the program pauses it.
DrainDelivers ==
  \A s \in Names :
    (s \in Readables /\ rd[s].chunks # <<>> /\ rd[s].flowing = "yes") ~>
      (s \in Readables /\ (rd[s].chunks = <<>> \/ rd[s].flowing = "no"))

\* Neither half of a stream stops half way: what is ended settles, what flows is delivered.
StreamsProgress == EndSettles /\ DrainDelivers
=============================================================================
