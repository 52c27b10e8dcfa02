-------------------------- MODULE AsyncSuspension --------------------------
(***************************************************************************)
(* Suspension of async functions (src/engine/eval.milo, "R1" to "R8" of    *)
(* docs/milojs-async-suspension.md).                                       *)
(*                                                                         *)
(* Every async call runs its body on a green task of its own, an           *)
(* activation.  The caller parks until the body reaches its first await of *)
(* a pending promise or ends; the activation parks until the promise it    *)
(* awaits settles.  The main task never parks in an await: it runs the     *)
(* module body and then the event loop, and a top-level await drains the   *)
(* loop in place.  Exactly one task runs at a time and tasks switch only   *)
(* where the code parks or yields, so an action is the code between two    *)
(* such points, cut further at the calls a program can make.               *)
(*                                                                         *)
(* The registries of the interpreter (parallel vectors searched by task or *)
(* promise) are sets of rows: nothing depends on the order of their rows,  *)
(* because the scheduler does not promise the order in which unparked      *)
(* tasks run.  The promise an activation settles carries its name.         *)
(***************************************************************************)
EXTENDS Naturals, Sequences, FiniteSets

CONSTANTS
  Main,       \* the green task that runs the module body and the event loop
  Acts,       \* the activations (green tasks) the program may spawn
  Ext,        \* promises made by `new Promise`, settled by program code or a timer
  NoPromise,  \* "awaiting nothing"
  MaxAwaits   \* bound: how many awaits each task evaluates

Task == Acts \cup {Main}
Promise == Acts \cup Ext

ASSUME ConstantsAssumption ==
  /\ Main \notin Acts
  /\ Acts \cap Ext = {}
  /\ NoPromise \notin Promise
  /\ MaxAwaits \in Nat

VARIABLES
  task,       \* the scheduler's view of each task
  pc,         \* where each task's native code stands
  fuel,       \* awaits each task may still evaluate
  pstate,     \* JSObj.promiseState, "none" before the promise exists
  reactions,  \* JSObjExtra.reactions: the promises that follow a pending one
  microtasks, \* Interp.microtasks, pass-through jobs only, oldest first
  ticks,      \* jobs left in the snapshot awaitYieldMicrotasks is draining
  awaitReg,   \* rows of Interp.awaitPromise / awaitTask
  awaiting,   \* the promise whose await each task is evaluating
  act,        \* rows of Interp.actTask / actCreator / actNotified
  temps,      \* Interp.tempRoots: which task pushed which promise
  throwing,   \* Interp.throwing
  suspended,  \* rows of Interp.suspendedTask / suspended
  armed,      \* Ext promises that a timer will settle
  scriptDone, \* runModule has returned
  threw       \* history: the module body ended in an uncaught throw

vars == <<task, pc, fuel, pstate, reactions, microtasks, ticks, awaitReg,
          awaiting, act, temps, throwing, suspended, armed, scriptDone, threw>>
promiseVars == <<pstate, reactions, microtasks, awaitReg>>
ctxVars == <<temps, throwing, suspended>>

Settled == {"fulfilled", "rejected"}
TempRow == [by : Task, obj : Promise]
Job == [derived : Promise, state : Settled]
Ctx == [temps : Seq(TempRow), throwing : BOOLEAN]

TypeOK ==
  /\ task \in [Task -> {"none", "running", "runnable", "parked", "dead"}]
  /\ pc \in [Task -> {"unborn", "start", "code", "tick", "spawning", "awaiting",
                      "stranded", "ended", "drain", "pick", "exited", "failed"}]
  /\ fuel \in [Task -> 0..MaxAwaits]
  /\ pstate \in [Promise -> {"none", "pending"} \cup Settled]
  /\ reactions \in [Promise -> Seq(Promise)]
  /\ microtasks \in Seq(Job)
  /\ ticks \in Nat
  /\ awaitReg \in SUBSET [promise : Promise, task : Acts]
  /\ awaiting \in [Task -> Promise \cup {NoPromise}]
  /\ act \in SUBSET [task : Acts, creator : Task, notified : BOOLEAN]
  /\ temps \in Seq(TempRow)
  /\ throwing \in BOOLEAN
  /\ suspended \in SUBSET [task : Task, ctx : Ctx]
  /\ armed \in SUBSET Ext
  /\ scriptDone \in BOOLEAN
  /\ threw \in BOOLEAN

Init ==
  /\ task = [t \in Task |-> IF t = Main THEN "running" ELSE "none"]
  /\ pc = [t \in Task |-> IF t = Main THEN "code" ELSE "unborn"]
  /\ fuel = [t \in Task |-> MaxAwaits]
  /\ pstate = [p \in Promise |-> "none"]
  /\ reactions = [p \in Promise |-> <<>>]
  /\ microtasks = <<>>
  /\ ticks = 0
  /\ awaitReg = {}
  /\ awaiting = [t \in Task |-> NoPromise]
  /\ act = {}
  /\ temps = <<>>
  /\ throwing = FALSE
  /\ suspended = {}
  /\ armed = {}
  /\ scriptDone = FALSE
  /\ threw = FALSE

-----------------------------------------------------------------------------
(* Building blocks *)

Running(t) == task[t] = "running"
Idle == \A t \in Task : task[t] # "running"

\* External: schedulerUnpark makes a parked task runnable.
Unpark(S, sched) ==
  [t \in Task |-> IF t \in S /\ sched[t] = "parked" THEN "runnable" ELSE sched[t]]

\* settlePromise, `queue` being what microtasks holds: a promise settles once;
\* its awaiters leave the registry and each follower gets a job, in order.  The
\* tasks it unparks are WokenBy(p).
WokenBy_Anyone(p) == IF pstate[p] = "pending" THEN {r.task : r \in awaitReg} ELSE {}
WokenBy_None(p) == {}
WokenBy(p) ==
  IF pstate[p] = "pending" THEN {r.task : r \in {r \in awaitReg : r.promise = p}} ELSE {}

Settle_StaleState(p, s, queue) ==
  /\ pstate' = [pstate EXCEPT ![p] = s]
  /\ awaitReg' = {r \in awaitReg : r.promise # p}
  /\ microtasks' = queue \o [i \in DOMAIN reactions[p] |->
                               [derived |-> reactions[p][i], state |-> pstate[p]]]
  /\ reactions' = [reactions EXCEPT ![p] = <<>>]
Settle(p, s, queue) ==
  IF pstate[p] = "pending"
  THEN /\ pstate' = [pstate EXCEPT ![p] = s]
       /\ awaitReg' = {r \in awaitReg : r.promise # p}
       /\ microtasks' = queue \o [i \in DOMAIN reactions[p] |->
                                    [derived |-> reactions[p][i], state |-> s]]
       /\ reactions' = [reactions EXCEPT ![p] = <<>>]
  ELSE /\ microtasks' = queue
       /\ UNCHANGED <<pstate, awaitReg, reactions>>

\* releaseCreatorOnce on activation a: the creator to unpark, if it still waits.
ToRelease(a) == {r.creator : r \in {r \in act : r.task = a /\ ~r.notified}}
Notified_Never(a) == act
Notified(a) == {IF r.task = a THEN [r EXCEPT !.notified = TRUE] ELSE r : r \in act}

\* saveExecCtx on task t: the running execution leaves the interpreter clean.
SaveCtx(t, tempsNow) ==
  /\ suspended' = suspended \cup
       {[task |-> t, ctx |-> [temps |-> tempsNow, throwing |-> throwing]]}
  /\ temps' = <<>>
  /\ throwing' = FALSE

\* resumeExecCtx: take back the row of t, then popTemp.
PopTemp(stack) == SubSeq(stack, 1, Len(stack) - 1)
ResumeCtx_AnyRow(t) ==
  \E back \in suspended :
    /\ suspended' = suspended \ {back}
    /\ temps' = PopTemp(back.ctx.temps)
    /\ throwing' = back.ctx.throwing
ResumeCtx_KeepsRow(t) ==
  \E back \in {r \in suspended : r.task = t} :
    /\ suspended' = suspended
    /\ temps' = PopTemp(back.ctx.temps)
    /\ throwing' = back.ctx.throwing
ResumeCtx(t) ==
  \E back \in {r \in suspended : r.task = t} :
    /\ suspended' = suspended \ {back}
    /\ temps' = PopTemp(back.ctx.temps)
    /\ throwing' = back.ctx.throwing

Push_Unrooted(t, p) == temps
Push(t, p) == Append(temps, [by |-> t, obj |-> p])

\* Program code runs on t: the module body or a callback on Main, the body on
\* an activation.  A callback is not async, so it cannot contain an await.
Code(t) == Running(t) /\ pc[t] = "code"
InScript == ~scriptDone /\ awaiting[Main] = NoPromise

-----------------------------------------------------------------------------
(* What program code can do *)

\* new Promise(executor); `timer` says whether the executor arms a timer for it.
NewPromise(t, e, timer) ==
  /\ Code(t)
  /\ pstate[e] = "none"
  /\ pstate' = [pstate EXCEPT ![e] = "pending"]
  /\ armed' = IF timer THEN armed \cup {e} ELSE armed
  /\ UNCHANGED <<task, pc, fuel, reactions, microtasks, ticks, awaitReg, awaiting,
                 act, ctxVars, scriptDone, threw>>

\* Mutant: a later call settles the promise anew.
Resolve_Again(t, e, s) ==
  /\ Code(t)
  /\ pstate[e] # "none"
  /\ e \notin armed
  /\ pstate' = [pstate EXCEPT ![e] = s]
  /\ awaitReg' = {r \in awaitReg : r.promise # e}
  /\ task' = Unpark(WokenBy(e), task)
  /\ UNCHANGED <<reactions, microtasks, pc, fuel, ticks, awaiting, act, ctxVars, armed,
                 scriptDone, threw>>

\* The program calls resolve or reject of a promise that no timer settles.
Resolve(t, e, s) ==
  /\ Code(t)
  /\ pstate[e] = "pending"
  /\ e \notin armed
  /\ Settle(e, s, microtasks)
  /\ task' = Unpark(WokenBy(e), task)
  /\ UNCHANGED <<pc, fuel, ticks, awaiting, act, ctxVars, armed, scriptDone, threw>>

\* spawnActivation: allocate a's promise, register the activation, root the
\* promise, save the context under the caller, park the caller.
CallAsync(t, a) ==
  /\ Code(t)
  /\ pc[a] = "unborn"
  /\ pstate' = [pstate EXCEPT ![a] = "pending"]
  /\ act' = act \cup {[task |-> a, creator |-> t, notified |-> FALSE]}
  /\ SaveCtx(t, Push(t, a))
  /\ task' = [task EXCEPT ![t] = "parked", ![a] = "runnable"]
  /\ pc' = [pc EXCEPT ![t] = "spawning", ![a] = "start"]
  /\ UNCHANGED <<fuel, reactions, microtasks, ticks, awaitReg, awaiting, armed,
                 scriptDone, threw>>

\* awaitValue of a pending promise on an activation: parkOnPromise.
AwaitPending(a, p) ==
  /\ Code(a)
  /\ fuel[a] > 0
  /\ pstate[p] = "pending"
  /\ act' = Notified(a)
  /\ awaitReg' = awaitReg \cup {[promise |-> p, task |-> a]}
  /\ awaiting' = [awaiting EXCEPT ![a] = p]
  /\ SaveCtx(a, Push(a, p))
  /\ task' = [Unpark(ToRelease(a), task) EXCEPT ![a] = "parked"]
  /\ pc' = [pc EXCEPT ![a] = "awaiting"]
  /\ fuel' = [fuel EXCEPT ![a] = @ - 1]
  /\ UNCHANGED <<pstate, reactions, microtasks, ticks, armed, scriptDone, threw>>

\* awaitValue of a settled promise on an activation: awaitYieldMicrotasks runs
\* the jobs queued right now, without parking.
AwaitSettled(a, p) ==
  /\ Code(a)
  /\ fuel[a] > 0
  /\ pstate[p] \in Settled
  /\ ticks' = Len(microtasks)
  /\ pc' = [pc EXCEPT ![a] = "tick"]
  /\ fuel' = [fuel EXCEPT ![a] = @ - 1]
  /\ UNCHANGED <<task, promiseVars, awaiting, act, ctxVars, armed, scriptDone, threw>>

\* awaitValue on Main, in the module body.  A settled promise costs nothing; a
\* pending one is rooted and the loop is drained in place.
MainAwait(p) ==
  /\ Code(Main)
  /\ InScript
  /\ fuel[Main] > 0
  /\ pstate[p] # "none"
  /\ fuel' = [fuel EXCEPT ![Main] = @ - 1]
  /\ IF pstate[p] = "pending"
     THEN /\ awaiting' = [awaiting EXCEPT ![Main] = p]
          /\ temps' = Push(Main, p)
          /\ pc' = [pc EXCEPT ![Main] = "pick"]
     ELSE UNCHANGED <<awaiting, temps, pc>>
  /\ UNCHANGED <<task, promiseVars, ticks, act, throwing, suspended, armed,
                 scriptDone, threw>>

\* The body ends and the task runs the tail of the closure in spawnActivation:
\* settle the activation's promise, let the creator go, leave the table.
EndBody_KeepsCreator(a, woken) ==
  /\ task' = [Unpark(woken, task) EXCEPT ![a] = "dead"]
  /\ act' = {r \in act : r.task # a}
  /\ pc' = [pc EXCEPT ![a] = "ended"]
  /\ UNCHANGED <<fuel, ticks, awaiting, ctxVars, armed, scriptDone, threw>>
EndBody(a, woken) ==
  /\ task' = [Unpark(woken \cup ToRelease(a), task) EXCEPT ![a] = "dead"]
  /\ act' = {r \in act : r.task # a}
  /\ pc' = [pc EXCEPT ![a] = "ended"]
  /\ UNCHANGED <<fuel, ticks, awaiting, ctxVars, armed, scriptDone, threw>>

\* ... with a value or a throw,
ReturnValue(a, s) ==
  /\ Code(a)
  /\ Settle(a, s, microtasks)
  /\ EndBody(a, WokenBy(a))

\* ... with a promise that has settled, whose settlement is forwarded,
ReturnSettled(a, q) ==
  /\ Code(a)
  /\ pstate[q] \in Settled
  /\ Settle(a, pstate[q], microtasks)
  /\ EndBody(a, WokenBy(a))

\* ... with a pending promise, which the activation's promise follows.
ReturnPending_Dropped(a, q) ==
  /\ Code(a)
  /\ pstate[q] = "pending"
  /\ EndBody(a, {})
  /\ UNCHANGED promiseVars
ReturnPending(a, q) ==
  /\ Code(a)
  /\ pstate[q] = "pending"
  /\ reactions' = [reactions EXCEPT ![q] = Append(@, a)]
  /\ EndBody(a, {})
  /\ UNCHANGED <<pstate, microtasks, awaitReg>>

\* The module body ends, normally or by an uncaught throw.
EndScript(thrown) ==
  /\ Code(Main)
  /\ InScript
  /\ scriptDone' = TRUE
  /\ throwing' = thrown
  /\ threw' = thrown
  /\ pc' = [pc EXCEPT ![Main] = "drain"]
  /\ UNCHANGED <<task, fuel, promiseVars, ticks, awaiting, act, temps, suspended, armed>>

\* A callback returns to the loop that called it.
EndCallback ==
  /\ Code(Main)
  /\ ~InScript
  /\ pc' = [pc EXCEPT ![Main] = IF scriptDone THEN "drain" ELSE "pick"]
  /\ UNCHANGED <<task, fuel, promiseVars, ticks, awaiting, act, ctxVars, armed,
                 scriptDone, threw>>

-----------------------------------------------------------------------------
(* Jobs.  drainMicrotasks on a job without a handler: the settlement passes
   through to the derived promise. *)

RunJob ==
  LET job == Head(microtasks) IN
  /\ Settle(job.derived, job.state, Tail(microtasks))
  /\ task' = Unpark(WokenBy(job.derived), task)

\* the snapshot an activation drains: `ticks` jobs, or as many as there are
Ticking(a) == Running(a) /\ pc[a] = "tick"
TickJob(a) ==
  /\ Ticking(a)
  /\ ticks > 0 /\ microtasks # <<>>
  /\ RunJob
  /\ ticks' = ticks - 1
  /\ UNCHANGED <<pc, fuel, awaiting, act, ctxVars, armed, scriptDone, threw>>

TickDone(a) ==
  /\ Ticking(a)
  /\ ~(ticks > 0 /\ microtasks # <<>>)
  /\ ticks' = 0
  /\ pc' = [pc EXCEPT ![a] = "code"]
  /\ UNCHANGED <<task, fuel, promiseVars, awaiting, act, ctxVars, armed, scriptDone, threw>>

\* one job of the full drain on Main
DrainJob ==
  /\ Running(Main)
  /\ pc[Main] = "drain"
  /\ microtasks # <<>>
  /\ RunJob
  /\ UNCHANGED <<pc, fuel, ticks, awaiting, act, ctxVars, armed, scriptDone, threw>>

DrainDone ==
  /\ Running(Main)
  /\ pc[Main] = "drain"
  /\ microtasks = <<>>
  /\ pc' = [pc EXCEPT ![Main] = "pick"]
  /\ UNCHANGED <<task, fuel, promiseVars, ticks, awaiting, act, ctxVars, armed,
                 scriptDone, threw>>

-----------------------------------------------------------------------------
(* The main task between callbacks.  Both loops choose their next work at
   "pick": runEventLoop once the module body has returned, the drain of a
   top-level await before. *)

Pick == Running(Main) /\ pc[Main] = "pick"
Draining == Pick /\ ~scriptDone /\ pstate[awaiting[Main]] = "pending"
Looping == Pick /\ scriptDone

\* runDueTimer, runOneTimer: time is abstract, so any armed timer may be due.
\* The callback settles its promise and may run more code.  With a throw still
\* pending the call fails at once and the process exits.
FireTimer(e, s) ==
  /\ Looping \/ (Draining /\ microtasks = <<>>)
  /\ e \in armed
  /\ armed' = armed \ {e}
  /\ IF throwing
     THEN /\ pc' = [pc EXCEPT ![Main] = "failed"]
          /\ UNCHANGED <<task, promiseVars>>
     ELSE /\ pc' = [pc EXCEPT ![Main] = "code"]
          /\ Settle(e, s, microtasks)
          /\ task' = Unpark(WokenBy(e), task)
  /\ UNCHANGED <<fuel, ticks, awaiting, act, ctxVars, scriptDone, threw>>

\* schedulerYieldedToActivation, and the yield of the last branch when no timer
\* is left.  Main's own context is not saved.
ParkedOnPromise(t) == \E r \in awaitReg : r.task = t
LoopYield ==
  /\ Looping
  /\ \/ \E r \in act : ~ParkedOnPromise(r.task)
     \/ armed = {} /\ act # {}
  /\ task' = [task EXCEPT ![Main] = "runnable"]
  /\ UNCHANGED <<pc, fuel, promiseVars, ticks, awaiting, act, ctxVars, armed,
                 scriptDone, threw>>

\* The loop is out of work; an uncaught throw still pending is reported.
LoopExit ==
  /\ Looping
  /\ armed = {}
  /\ act = {}
  /\ pc' = [pc EXCEPT ![Main] = IF throwing THEN "failed" ELSE "exited"]
  /\ UNCHANGED <<task, fuel, promiseVars, ticks, awaiting, act, ctxVars, armed,
                 scriptDone, threw>>

\* Top-level await: drain the jobs there are before looking for other work.
AwaitDrainJobs ==
  /\ Draining
  /\ microtasks # <<>>
  /\ pc' = [pc EXCEPT ![Main] = "drain"]
  /\ UNCHANGED <<task, fuel, promiseVars, ticks, awaiting, act, ctxVars, armed,
                 scriptDone, threw>>

LeaveMainAwait ==
  /\ awaiting' = [awaiting EXCEPT ![Main] = NoPromise]
  /\ temps' = PopTemp(temps)
  /\ pc' = [pc EXCEPT ![Main] = "code"]
  /\ UNCHANGED <<task, fuel, promiseVars, ticks, act, throwing, suspended, armed,
                 scriptDone, threw>>

\* Top-level await: the promise has settled.
AwaitDone ==
  /\ Pick
  /\ ~scriptDone
  /\ pstate[awaiting[Main]] \in Settled
  /\ LeaveMainAwait

\* Top-level await: "await on a promise that can never settle (no pending
\* work)", thrown at the await; the program may catch it.
AwaitGivesUp ==
  /\ Draining
  /\ microtasks = <<>>
  /\ armed = {}
  /\ LeaveMainAwait

-----------------------------------------------------------------------------
(* The scheduler hands the thread to a runnable task. *)

Dispatch(t, where) ==
  /\ Idle
  /\ task[t] = "runnable"
  /\ pc[t] = where
  /\ task' = [task EXCEPT ![t] = "running"]

\* a new activation enters its body
StartBody(a) ==
  /\ Dispatch(a, "start")
  /\ pc' = [pc EXCEPT ![a] = "code"]
  /\ UNCHANGED <<fuel, promiseVars, ticks, awaiting, act, ctxVars, armed,
                 scriptDone, threw>>

\* the creator resumes in spawnActivation
ResumeCreator(t) ==
  /\ Dispatch(t, "spawning")
  /\ ResumeCtx(t)
  /\ pc' = [pc EXCEPT ![t] = "code"]
  /\ UNCHANGED <<fuel, promiseVars, ticks, awaiting, act, armed, scriptDone, threw>>

\* an awaiter resumes in parkOnPromise; a promise still pending would send it to
\* the drain that is meant for the main task
ResumeAwait(a) ==
  /\ Dispatch(a, "awaiting")
  /\ ResumeCtx(a)
  /\ pc' = [pc EXCEPT ![a] = IF pstate[awaiting[a]] \in Settled THEN "code" ELSE "stranded"]
  /\ awaiting' = [awaiting EXCEPT ![a] = NoPromise]
  /\ UNCHANGED <<fuel, promiseVars, ticks, act, armed, scriptDone, threw>>

\* Main resumes after its yield, at the top of the loop
ResumeLoop ==
  /\ Dispatch(Main, "pick")
  /\ pc' = [pc EXCEPT ![Main] = "drain"]
  /\ UNCHANGED <<fuel, promiseVars, ticks, awaiting, act, ctxVars, armed,
                 scriptDone, threw>>

-----------------------------------------------------------------------------
CodeStep(t) ==
  \/ \E e \in Ext, b \in BOOLEAN : NewPromise(t, e, b)
  \/ \E e \in Ext, s \in Settled : Resolve(t, e, s)
  \/ \E a \in Acts : CallAsync(t, a)

ActStep(a) ==
  \/ CodeStep(a)
  \/ \E p \in Promise : AwaitPending(a, p) \/ AwaitSettled(a, p)
  \/ \E s \in Settled : ReturnValue(a, s)
  \/ \E q \in Promise : ReturnSettled(a, q) \/ ReturnPending(a, q)
  \/ TickJob(a) \/ TickDone(a)

MainStep ==
  \/ CodeStep(Main)
  \/ \E p \in Promise : MainAwait(p)
  \/ \E b \in BOOLEAN : EndScript(b)
  \/ EndCallback
  \/ DrainJob \/ DrainDone
  \/ LoopYield \/ LoopExit
  \/ AwaitDrainJobs \/ AwaitDone \/ AwaitGivesUp
  \/ \E e \in Ext, s \in Settled : FireTimer(e, s)

Resume(t) ==
  \/ t \in Acts /\ (StartBody(t) \/ ResumeAwait(t))
  \/ ResumeCreator(t)
  \/ t = Main /\ ResumeLoop

\* the process has exited
Terminated == pc[Main] \in {"exited", "failed"} /\ UNCHANGED vars

Next ==
  \/ MainStep
  \/ \E a \in Acts : ActStep(a)
  \/ \E t \in Task : Resume(t)
  \/ Terminated

\* Native code that holds the thread makes progress, timers fire, and the run
\* queue is first in first out: a task that stays runnable gets the thread.
Fairness ==
  /\ WF_vars(MainStep)
  /\ \A e \in Ext : SF_vars(\E s \in Settled : FireTimer(e, s))
  /\ \A a \in Acts : WF_vars(ActStep(a))
  /\ \A t \in Task : SF_vars(Resume(t))

Spec == Init /\ [][Next]_vars
FairSpec == Spec /\ Fairness

-----------------------------------------------------------------------------
(* Safety *)

\* R6: a task that runs finds in Interp.tempRoots only what it pushed itself,
\* so its pops never unroot a value of another activation.
OwnRoots == \A t \in Task : Running(t) => \A i \in DOMAIN temps : temps[i].by = t

\* resumeExecCtx finds its context by task: a task suspended in spawnActivation
\* or parkOnPromise has exactly one row, and no other task has any.
OneContext ==
  \A t \in Task :
    LET rows == {r \in suspended : r.task = t} IN
    IF pc[t] \in {"spawning", "awaiting"} THEN \E r \in rows : rows = {r} ELSE rows = {}

\* R7: the promise a suspended task waits for is rooted by its own saved
\* context, which collect marks.
WaitedPromise(t) ==
  IF pc[t] = "awaiting" THEN {awaiting[t]} ELSE {r.task : r \in {r \in act : r.creator = t /\ ~r.notified}}
RootedWhileSuspended ==
  \A row \in suspended : \A p \in WaitedPromise(row.task) :
    \E i \in DOMAIN row.ctx.temps : row.ctx.temps[i] = [by |-> row.task, obj |-> p]

\* No wake-up is lost and none is spurious: an awaiter is registered on its
\* promise exactly while the promise is pending, and runnable once it settled.
AwaitersWakeOnSettle ==
  \A a \in Acts : pc[a] = "awaiting" =>
    LET rows == {r \in awaitReg : r.task = a} IN
    IF pstate[awaiting[a]] = "pending"
    THEN task[a] = "parked" /\ rows = {[promise |-> awaiting[a], task |-> a]}
    ELSE task[a] # "parked" /\ rows = {}

\* R1: a creator stays parked exactly as long as one activation it spawned has
\* neither awaited nor ended, so it is unparked once and never forgotten.
CreatorParkedUntilNotified ==
  \A t \in Task :
    LET owed == {r \in act : r.creator = t /\ ~r.notified} IN
    IF pc[t] = "spawning" /\ task[t] = "parked" THEN \E r \in owed : owed = {r} ELSE owed = {}

\* An activation never falls through to the in-place drain.
NeverStranded == \A a \in Acts : pc[a] # "stranded"

\* R4a: an activation that ended has settled its promise, or the promise follows
\* one that is pending, or the job that settles it is queued.
EndedPromiseSettles ==
  \A a \in Acts : pc[a] = "ended" /\ pstate[a] = "pending" =>
    \/ \E q \in Promise : pstate[q] = "pending" /\ \E i \in DOMAIN reactions[q] : reactions[q][i] = a
    \/ \E i \in DOMAIN microtasks : microtasks[i].derived = a

-----------------------------------------------------------------------------
(* Refinement: what this machinery is for (AsyncCalls).  A call is waiting while
   its task stands in parkOnPromise, and blocks its creator until it has
   notified it. *)

PhaseOf(a) ==
  CASE pc[a] = "unborn" -> "none"
    [] pc[a] = "ended" -> "over"
    [] pc[a] = "awaiting" -> "waiting"
    [] pc[a] = "stranded" -> "stranded"
    [] OTHER -> "running"

BlockedBy(t) ==
  LET owed == {r.task : r \in {r \in act : r.creator = t /\ ~r.notified}} IN
  IF owed = {} THEN NoPromise ELSE CHOOSE a \in owed : TRUE

Abstract == INSTANCE AsyncCalls WITH
  Calls <- Acts, None <- NoPromise,
  phase <- [a \in Acts |-> PhaseOf(a)],
  waits <- [a \in Acts |-> awaiting[a]],
  blocked <- [t \in Task |-> BlockedBy(t)],
  promise <- pstate

\* Every behaviour of the tasks, registries and saved contexts is one of async
\* calls: an await goes on only when its promise has settled, a caller gets its
\* turn back at the first await or the end and only then, a promise settles once.
ImplementsAsyncCalls == Abstract!AbstractSpec

-----------------------------------------------------------------------------
(* Liveness: unless the process exits first, ... *)

Over == pc[Main] \in {"exited", "failed"}

\* ... an async call returns to its caller,
CallsReturn == \A t \in Task : pc[t] = "spawning" ~> (pc[t] # "spawning" \/ Over)

\* ... and an activation whose promise has settled leaves its await.
SettledAwaitsResume ==
  \A a \in Acts :
    (pc[a] = "awaiting" /\ pstate[awaiting[a]] \in Settled) ~> (pc[a] # "awaiting" \/ Over)

-----------------------------------------------------------------------------
(* What the repository says of the program and the code does not do *)

\* "the caller must have saved it first" (restoreExecCtx): an uncaught throw of
\* the module body is still there when the process exits.
UncaughtThrowSurvives == pc[Main] = "exited" => ~threw

\* "If nothing is runnable the await can never complete" (awaitValue): the await
\* gives up only when no activation could still settle the promise.
GivesUpOnlyWhenStuck == [][AwaitGivesUp => \A t \in Task : task[t] # "runnable"]_vars

\* R8 "a promise nobody can ever settle must still be reported rather than
\* hanging forever": once the module body has returned, no timer and no job is
\* left and every activation is parked in an await, the process ends.
Stuck ==
  /\ scriptDone /\ armed = {} /\ microtasks = <<>>
  /\ \A a \in Acts : pc[a] \in {"unborn", "ended", "awaiting"}
  /\ \A a \in Acts : pc[a] = "awaiting" => pstate[awaiting[a]] = "pending"
StuckAwaitReported == (Stuck /\ ~Code(Main)) ~> Over
=============================================================================
