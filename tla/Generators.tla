----------------------------- MODULE Generators -----------------------------
(***************************************************************************)
(* Generators (src/engine/eval.milo, makeGenerator to genResume, genYield; *)
(* docs/milojs-generators.md).                                             *)
(*                                                                         *)
(* Each generator body runs on a green task of its own, spawned by the     *)
(* first next().  A caller in next() parks until the body yields or ends;  *)
(* the body parks at a yield until the next call.  `yield` finds its       *)
(* record by the address of the running task, so records and task          *)
(* addresses have lives of their own.  Callers are the main task, async    *)
(* activations and the bodies of other generators.  The values that travel *)
(* are named by the generator that hands them out; throw() and return()    *)
(* differ from next() only where the code tells them apart.                *)
(***************************************************************************)
EXTENDS Naturals, Sequences, SequencesExt, FiniteSets

CONSTANTS
  Main,     \* the task of the script and the event loop
  Acts,     \* activations of async functions
  Gens,     \* generators; a generator's body task carries its name
  Async,    \* the async generators among them, whose bodies may await
  Defaults, \* those whose parameter defaults run code of the program
  Cells,    \* addresses the scheduler gives to body tasks
  None,     \* "no task", "no cell"
  MaxSteps  \* bound: calls, awaits and callbacks of each task

Task == {Main} \cup Acts \cup Gens

ASSUME ConstantsAssumption ==
  /\ Main \notin Acts \cup Gens
  /\ Acts \cap Gens = {}
  /\ Async \subseteq Gens /\ Defaults \subseteq Gens
  /\ None \notin Task \cup Cells
  /\ MaxSteps \in Nat

VARIABLES
  task,     \* the scheduler's view of each task
  pc,       \* where each task's native code stands
  steps,    \* calls, awaits and callbacks each task may still make
  recs,     \* the gen* vectors, one record per index
  made,     \* generators that exist
  cell,     \* address of each body task
  asked,    \* the generator whose next() each task is in
  binding,  \* the generator whose parameters each task binds
  held,     \* record indices native code holds while code of the program runs
  waiting,  \* tasks in awaitTask, each parked on a promise of its own
  creator,  \* who waits for an activation to reach its first await
  handed,   \* history: steps each body handed out
  taken,    \* history: steps the callers of each generator received
  answer,   \* history: whose step each task received last
  astray    \* history: has the program called a generator that had a call in progress,
            \* or has a body handed its step to the record of another?

native == <<binding, held>>
told == <<handed, taken, answer>>
history == <<told, astray>>
vars == <<task, pc, steps, recs, made, cell, asked, native, waiting, creator, history>>

\* `cell` is genTask, `caller` genCaller; `scope` and `step` name the generator whose
\* scope genScope holds and whose value genYielded holds.
Record == [gen : Gens, scope : Gens \cup {None}, cell : Cells \cup {None}, caller : Task \cup {None}, started : BOOLEAN,
           done : BOOLEAN, threw : BOOLEAN, step : Gens \cup {None}]

TypeOK ==
  /\ task \in [Task -> {"none", "running", "runnable", "parked", "dead"}]
  /\ pc \in [Task -> {"unborn", "start", "code", "spawning", "asking", "yielded", "awaiting",
                      "loop", "ended"}]
  /\ steps \in [Task -> 0..MaxSteps]
  /\ recs \in Seq(Record)
  /\ made \subseteq Gens
  /\ cell \in [Gens -> Cells \cup {None}]
  /\ asked \in [Task -> Gens \cup {None}]
  /\ binding \in [Task -> Gens \cup {None}]
  /\ held \in [Task -> [bind : Nat, yield : Nat]]
  /\ waiting \subseteq Task
  /\ creator \in [Acts -> Task \cup {None}]
  /\ handed \in [Gens -> Nat]
  /\ taken \in [Gens -> Nat]
  /\ answer \in [Task -> Gens \cup {None}]
  /\ astray \in BOOLEAN

Init ==
  /\ task = [t \in Task |-> IF t = Main THEN "running" ELSE "none"]
  /\ pc = [t \in Task |-> IF t = Main THEN "code" ELSE "unborn"]
  /\ steps = [t \in Task |-> MaxSteps]
  /\ recs = <<>>
  /\ made = {}
  /\ cell = [g \in Gens |-> None]
  /\ asked = [t \in Task |-> None]
  /\ binding = [t \in Task |-> None]
  /\ held = [t \in Task |-> [bind |-> 0, yield |-> 0]]
  /\ waiting = {}
  /\ creator = [a \in Acts |-> None]
  /\ handed = [g \in Gens |-> 0]
  /\ taken = [g \in Gens |-> 0]
  /\ answer = [t \in Task |-> None]
  /\ astray = FALSE

-----------------------------------------------------------------------------
Running(t) == task[t] = "running"
Code(t) == Running(t) /\ pc[t] = "code"
Live(t) == task[t] \in {"running", "runnable", "parked"}

\* External: schedulerUnpark makes a parked task runnable.
Unpark(S, sched) ==
  [t \in Task |-> IF t \in S /\ sched[t] = "parked" THEN "runnable" ELSE sched[t]]
Parked(t, sched) == [sched EXCEPT ![t] = "parked"]
Spend(t) == steps[t] > 0 /\ steps' = [steps EXCEPT ![t] = @ - 1]

\* Searches: the index of the first record that matches, 0 if there is none.
IndexOf(g) == SelectInSeq(recs, LAMBDA r : r.gen = g)
IndexOfTask(c) == SelectInSeq(recs, LAMBDA r : r.cell = c)
Rec(g) == recs[IndexOf(g)]
RemoveGen_First(i) == Tail(recs)
RemoveGen(i) == RemoveAt(recs, i)

\* The body task at an address: what schedulerUnpark(genTask) wakes.
BodyAt(c) == {g \in Gens : Live(g) /\ cell[g] = c}

\* Addresses a new body task may get: any that no live body has.
FreeCells == {c \in Cells : BodyAt(c) = {}}

-----------------------------------------------------------------------------
(* Calls of a generator *)

\* makeGenerator: a record, no task yet.  Parameter defaults may run code of the
\* program before the scope they are bound in is stored, at the index the record
\* had when it was appended.
MakeGenerator(t, g) ==
  /\ Code(t)
  /\ g \notin made
  /\ g \in Defaults => binding[t] = None
  /\ made' = made \cup {g}
  /\ binding' = IF g \in Defaults THEN [binding EXCEPT ![t] = g] ELSE binding
  /\ held' = IF g \in Defaults THEN [held EXCEPT ![t].bind = Len(recs) + 1] ELSE held
  /\ recs' = Append(recs, [gen |-> g, scope |-> IF g \in Defaults THEN None ELSE g, cell |-> None, caller |-> None, started |-> FALSE,
                           done |-> FALSE, threw |-> FALSE, step |-> None])
  /\ UNCHANGED <<task, pc, steps, cell, asked, waiting, creator, history>>
BindDone(t) ==
  LET i == held[t].bind IN
  /\ Code(t)
  /\ binding[t] # None
  /\ i \in DOMAIN recs
  /\ recs' = [recs EXCEPT ![i].scope = binding[t]]
  /\ binding' = [binding EXCEPT ![t] = None]
  /\ held' = [held EXCEPT ![t].bind = 0]
  /\ UNCHANGED <<task, pc, steps, made, cell, asked, waiting, creator, history>>

\* An index that is held and no longer valid stops the program.
Abort(t) ==
  /\ Code(t)
  /\ held[t].bind > Len(recs) \/ held[t].yield > Len(recs)
  /\ task' = [u \in Task |-> "dead"]
  /\ UNCHANGED <<pc, steps, recs, made, cell, asked, native, waiting, creator, history>>

MayCall(t, g) ==
  /\ Code(t)
  /\ g \in made \ {binding[u] : u \in Task}
  /\ astray' = (astray \/ \E u \in Task : asked[u] = g)

\* genResume of a generator that has ended, or throw() and return() of one that
\* never started: no body runs, the record goes.  (Without a record it changes
\* nothing.)
CallEnded(t, g, abrupt) ==
  /\ MayCall(t, g)
  /\ IndexOf(g) # 0
  /\ Rec(g).done \/ (abrupt /\ ~Rec(g).started)
  /\ recs' = RemoveGen(IndexOf(g))
  /\ UNCHANGED <<task, pc, steps, made, cell, asked, native, waiting, creator, told>>

\* The caller parks in genResume.  The first next() spawns the body,
CallFirst_StoresCaller(t, g, c) ==
  /\ MayCall(t, g) /\ Spend(t)
  /\ IndexOf(g) # 0 /\ ~Rec(g).done /\ ~Rec(g).started
  /\ c \in FreeCells
  /\ recs' = [recs EXCEPT ![IndexOf(g)].started = TRUE, ![IndexOf(g)].caller = t,
                          ![IndexOf(g)].cell = t]
  /\ cell' = [cell EXCEPT ![g] = c]
  /\ task' = [task EXCEPT ![t] = "parked", ![g] = "runnable"]
  /\ pc' = [pc EXCEPT ![t] = "asking", ![g] = "start"]
  /\ asked' = [asked EXCEPT ![t] = g]
  /\ UNCHANGED <<made, native, waiting, creator, told>>
CallFirst(t, g, c) ==
  /\ MayCall(t, g) /\ Spend(t)
  /\ IndexOf(g) # 0 /\ ~Rec(g).done /\ ~Rec(g).started
  /\ c \in FreeCells
  /\ recs' = [recs EXCEPT ![IndexOf(g)].started = TRUE, ![IndexOf(g)].caller = t,
                          ![IndexOf(g)].cell = c]
  /\ cell' = [cell EXCEPT ![g] = c]
  /\ task' = [task EXCEPT ![t] = "parked", ![g] = "runnable"]
  /\ pc' = [pc EXCEPT ![t] = "asking", ![g] = "start"]
  /\ asked' = [asked EXCEPT ![t] = g]
  /\ UNCHANGED <<made, native, waiting, creator, told>>

\* a later call unparks it.
Call(t, g) ==
  /\ MayCall(t, g) /\ Spend(t)
  /\ IndexOf(g) # 0 /\ ~Rec(g).done /\ Rec(g).started
  /\ recs' = [recs EXCEPT ![IndexOf(g)].caller = t]
  /\ task' = Parked(t, Unpark(BodyAt(Rec(g).cell), task))
  /\ pc' = [pc EXCEPT ![t] = "asking"]
  /\ asked' = [asked EXCEPT ![t] = g]
  /\ UNCHANGED <<made, cell, native, waiting, creator, told>>

\* The caller runs again and reads the record, which goes if the body has ended.
\* A record that somebody else dropped answers { undefined, done }.
Answer(t) ==
  LET g == asked[t]
      i == IndexOf(g) IN
  /\ Running(t) /\ pc[t] = "asking"
  /\ recs' = IF i # 0 /\ (recs[i].threw \/ recs[i].done) THEN RemoveGen(i) ELSE recs
  /\ answer' = [answer EXCEPT ![t] = IF i = 0 THEN None ELSE recs[i].step]
  /\ taken' = IF i = 0 THEN taken ELSE [taken EXCEPT ![g] = @ + 1]
  /\ asked' = [asked EXCEPT ![t] = None]
  /\ pc' = [pc EXCEPT ![t] = "code"]
  /\ UNCHANGED <<task, steps, made, cell, native, waiting, creator, handed, astray>>

-----------------------------------------------------------------------------
(* Bodies *)

\* A task that starts or resumes goes on with its code: a body spawned, a body
\* after its yield, a creator after its call, an activation after its await.
Proceed(t) ==
  /\ Running(t)
  /\ pc[t] \in {"start", "yielded", "spawning"} \/ (pc[t] = "awaiting" /\ t \notin waiting)
  /\ pc' = [pc EXCEPT ![t] = "code"]
  /\ UNCHANGED <<task, steps, recs, made, cell, asked, native, waiting, creator, history>>

\* genYield: the record is found by the address of the task that runs.  An async
\* generator awaits its operand in between: callbacks run, or the body parks.
HandOut(b, i) ==
  /\ recs' = [recs EXCEPT ![i].step = b, ![i].done = FALSE]
  /\ task' = Parked(b, Unpark({recs[i].caller}, task))
  /\ pc' = [pc EXCEPT ![b] = "yielded"]
  /\ handed' = [handed EXCEPT ![b] = @ + 1]
  /\ astray' = (astray \/ recs[i].gen # b)
  /\ UNCHANGED <<steps, made, cell, asked, binding, waiting, creator, taken, answer>>
MayYield(b) == Code(b) /\ b \in Gens /\ binding[b] = None
Yield(b) ==
  /\ MayYield(b) /\ b \notin Async
  /\ IndexOfTask(cell[b]) # 0
  /\ HandOut(b, IndexOfTask(cell[b]))
  /\ UNCHANGED held
YieldOperand(b) ==
  /\ MayYield(b) /\ b \in Async /\ held[b].yield = 0
  /\ IndexOfTask(cell[b]) # 0
  /\ held' = [held EXCEPT ![b].yield = IndexOfTask(cell[b])]
  /\ UNCHANGED <<task, pc, steps, recs, made, cell, asked, binding, waiting, creator, history>>
YieldAwaited(b) ==
  /\ MayYield(b) /\ held[b].yield \in DOMAIN recs
  /\ HandOut(b, held[b].yield)
  /\ held' = [held EXCEPT ![b].yield = 0]

\* genFinish: the record is found by the generator object.
Finish(b, thrown) ==
  LET i == IndexOf(b) IN
  /\ MayYield(b) /\ held[b].yield = 0
  /\ recs' = IF i = 0 THEN recs
             ELSE [recs EXCEPT ![i].step = b, ![i].done = TRUE, ![i].threw = thrown]
  /\ task' = [Unpark(IF i = 0 THEN {} ELSE {recs[i].caller}, task) EXCEPT ![b] = "dead"]
  /\ pc' = [pc EXCEPT ![b] = "ended"]
  /\ handed' = [handed EXCEPT ![b] = @ + 1]
  /\ UNCHANGED <<steps, made, cell, asked, native, waiting, creator, taken, answer, astray>>

-----------------------------------------------------------------------------
(* What surrounds generators: awaits, async calls and the event loop
   (AsyncSuspension has them in full) *)

\* parkOnPromise, on an activation or in the body of an async generator.
\* Only an activation has a creator to release.
Await(t) ==
  /\ Code(t) /\ t \in Acts \cup Async /\ binding[t] = None
  /\ Spend(t)
  /\ waiting' = waiting \cup {t}
  /\ task' = Parked(t, Unpark(IF t \in Acts THEN {creator[t]} ELSE {}, task))
  /\ pc' = [pc EXCEPT ![t] = "awaiting"]
  /\ creator' = IF t \in Acts THEN [creator EXCEPT ![t] = None] ELSE creator
  /\ UNCHANGED <<recs, made, cell, asked, native, history>>

\* Code, or a timer, settles the promise u awaits.  Timers fire in the event loop and
\* in an await that resumed too early and drains in place.
Settle(t, u) ==
  /\ Running(t) /\ pc[t] \in {"code", "loop", "awaiting"}
  /\ u \in waiting
  /\ waiting' = waiting \ {u}
  /\ task' = Unpark({u}, task)
  /\ UNCHANGED <<pc, steps, recs, made, cell, asked, native, creator, history>>

Spawn(t, a) ==
  /\ Code(t)
  /\ pc[a] = "unborn"
  /\ creator' = [creator EXCEPT ![a] = t]
  /\ task' = [task EXCEPT ![t] = "parked", ![a] = "runnable"]
  /\ pc' = [pc EXCEPT ![t] = "spawning", ![a] = "start"]
  /\ UNCHANGED <<steps, recs, made, cell, asked, native, waiting, history>>

EndActivation(a) ==
  /\ Code(a) /\ a \in Acts /\ binding[a] = None
  /\ task' = [Unpark({creator[a]}, task) EXCEPT ![a] = "dead"]
  /\ pc' = [pc EXCEPT ![a] = "ended"]
  /\ creator' = [creator EXCEPT ![a] = None]
  /\ UNCHANGED <<steps, recs, made, cell, asked, native, waiting, history>>

\* The script or a callback returns to the loop, which runs another callback,
\* yields while activations live, or ends: bodies are not counted as work.
ToLoop ==
  /\ Code(Main) /\ binding[Main] = None
  /\ pc' = [pc EXCEPT ![Main] = "loop"]
  /\ UNCHANGED <<task, steps, recs, made, cell, asked, native, waiting, creator, history>>
Loop == Running(Main) /\ pc[Main] = "loop"
BeginCallback ==
  /\ Loop /\ Spend(Main)
  /\ pc' = [pc EXCEPT ![Main] = "code"]
  /\ UNCHANGED <<task, recs, made, cell, asked, native, waiting, creator, history>>
LoopYield ==
  /\ Loop
  /\ \E a \in Acts : Live(a)
  /\ task' = [task EXCEPT ![Main] = "runnable"]
  /\ UNCHANGED <<pc, steps, recs, made, cell, asked, native, waiting, creator, history>>
LoopExit ==
  /\ Loop
  /\ \A a \in Acts : ~Live(a)
  /\ pc' = [pc EXCEPT ![Main] = "ended"]
  /\ task' = [task EXCEPT ![Main] = "dead"]
  /\ UNCHANGED <<steps, recs, made, cell, asked, native, waiting, creator, history>>

\* External: the scheduler picks any runnable task.
Dispatch(t) ==
  /\ \A u \in Task : ~Running(u)
  /\ task[Main] # "dead"
  /\ task[t] = "runnable"
  /\ task' = [task EXCEPT ![t] = "running"]
  /\ UNCHANGED <<pc, steps, recs, made, cell, asked, native, waiting, creator, history>>

Exited == task[Main] = "dead" /\ UNCHANGED vars

-----------------------------------------------------------------------------
Ask(t) ==
  \E g \in Gens : \/ MakeGenerator(t, g)
                  \/ \E abrupt \in BOOLEAN : CallEnded(t, g, abrupt)
                  \/ \E c \in Cells : CallFirst(t, g, c)
                  \/ Call(t, g)
GiveBack(t) ==
  Yield(t) \/ YieldOperand(t) \/ YieldAwaited(t) \/ \E thrown \in BOOLEAN : Finish(t, thrown)
Surround(t) ==
  \/ Await(t) \/ EndActivation(t)
  \/ \E u \in Task : Settle(t, u)
  \/ \E a \in Acts : Spawn(t, a)
MainLoop == ToLoop \/ BeginCallback \/ LoopYield \/ LoopExit

Next ==
  \/ \E t \in Task : \/ Ask(t) \/ BindDone(t) \/ Abort(t) \/ Answer(t) \/ Proceed(t)
                     \/ GiveBack(t) \/ Surround(t) \/ Dispatch(t)
  \/ MainLoop
  \/ Exited

Spec == Init /\ [][Next]_vars

-----------------------------------------------------------------------------
(* Safety *)

\* Whatever the program calls and whatever address the scheduler gives: a body that
\* lives has a record of its own, not done, with its address, and any other record with
\* that address is of a body that lives no longer.
BodyKeepsRecord ==
  \A b \in Gens : Live(b) =>
    /\ \E i \in DOMAIN recs : recs[i].gen = b /\ recs[i].cell = cell[b] /\ ~recs[i].done
    /\ \A i \in DOMAIN recs : recs[i].cell = cell[b] /\ recs[i].gen # b => ~Live(recs[i].gen)

\* What follows is true until a call overlaps another of the same generator, or a body
\* hands its step to another's record (`astray`).

\* A generator's body and its caller never both can run: a body that is not parked
\* at a yield works for exactly one parked caller, the one on record.
OneSideRuns ==
  \A g \in Gens :
    /\ Cardinality({t \in Task : asked[t] = g}) <= 1
    /\ Live(g) /\ ~(pc[g] = "yielded" /\ task[g] = "parked") =>
         \E t \in Task : /\ asked[t] = g
                         /\ task[t] = "parked"
                         /\ IndexOf(g) # 0 /\ Rec(g).caller = t

\* The step a call returns comes from the generator that was called,
AnswerFromAsked ==
  \A t \in Task : (Running(t) /\ pc[t] = "asking") =>
    IndexOf(asked[t]) # 0 /\ Rec(asked[t]).step = asked[t]

\* and every step that is handed out is received, once, before the next one.
StepsReceivedOnce == \A g \in Gens : taken[g] <= handed[g] /\ handed[g] <= taken[g] + 1

\* A record outlives its body only until the caller, which can run, has read it.
DeadRecordsAwaitReader ==
  task[Main] # "dead" => \A i \in DOMAIN recs :
    recs[i].done => \E t \in Task : asked[t] = recs[i].gen /\ task[t] \in {"runnable", "running"}

\* A task woken from an await was woken by the settlement of its promise.
WokenBySettle ==
  \A t \in Task : pc[t] = "awaiting" /\ task[t] \in {"runnable", "running"} => t \notin waiting

-----------------------------------------------------------------------------
(* What the repository says of the program and the code does not do *)

\* "`yield` finds its generator by schedulerCurrent()==genTask" (makeGenerator): a yield
\* finds the record of its own generator, although addresses are reused.
YieldFindsOwn ==
  \A b \in Gens : Live(b) => LET i == IndexOfTask(cell[b]) IN i # 0 /\ recs[i].gen = b

\* "genCaller is the schedulerCurrent() of the next() caller, parked inside genNext
\* until the body hands control back" (genFinish): no parked caller is off the record.
CallerStaysOnRecord ==
  \A t \in Task : pc[t] = "asking" /\ task[t] = "parked" =>
    IndexOf(asked[t]) # 0 /\ Rec(asked[t]).caller = t

\* "Every parallel array has to be complete before any user code runs [...] would
\* interleave the two generators' rows" (makeGenerator): a record index that native
\* code holds while parameter defaults run, or while the operand of a yield is
\* awaited, is still that of its generator's record.
RowsNotInterleaved ==
  \A t \in Task : /\ binding[t] # None => held[t].bind = IndexOf(binding[t])
                  /\ t \in Gens /\ held[t].yield # 0 => held[t].yield = IndexOf(t)
=============================================================================
