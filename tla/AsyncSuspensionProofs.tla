----------------------- MODULE AsyncSuspensionProofs -----------------------
(***************************************************************************)
(* Theorems about AsyncSuspension, for every set of activations and        *)
(* promises.                                                               *)
(***************************************************************************)
EXTENDS AsyncSuspension, SequenceTheorems, TLAPS

-----------------------------------------------------------------------------
(* Facts about the building blocks *)

\* popTemp shortens the stack of temp roots and keeps its rows.
LEMMA PopTempType ==
  ASSUME NEW S, NEW stack \in Seq(S)
  PROVE  PopTemp(stack) \in Seq(S)
<1>1. CASE Len(stack) = 0
  BY <1>1 DEF PopTemp
<1>2. CASE Len(stack) > 0
  BY <1>2, SubSeqProperties DEF PopTemp
<1> QED BY <1>1, <1>2, LenProperties

\* schedulerUnpark keeps the scheduler's view a view of every task.
LEMMA UnparkType ==
  ASSUME NEW S, NEW sched \in [Task -> {"none", "running", "runnable", "parked", "dead"}]
  PROVE  Unpark(S, sched) \in [Task -> {"none", "running", "runnable", "parked", "dead"}]
BY DEF Unpark

\* settlePromise keeps the types of the promise state it changes.
LEMMA SettleType ==
  ASSUME TypeOK, NEW p \in Promise, NEW s \in Settled, NEW queue \in Seq(Job),
         Settle(p, s, queue)
  PROVE  /\ pstate' \in [Promise -> {"none", "pending"} \cup Settled]
         /\ reactions' \in [Promise -> Seq(Promise)]
         /\ microtasks' \in Seq(Job)
         /\ awaitReg' \in SUBSET [promise : Promise, task : Acts]
<1> DEFINE jobs == [i \in DOMAIN reactions[p] |-> [derived |-> reactions[p][i], state |-> s]]
<1>1. reactions[p] \in Seq(Promise)
  BY DEF TypeOK
<1>2. jobs \in Seq(Job)
  <2>1. \A i \in 1..Len(reactions[p]) : [derived |-> reactions[p][i], state |-> s] \in Job
    BY <1>1 DEF Job
  <2> QED BY <1>1, <2>1
<1>3. queue \o jobs \in Seq(Job)
  BY <1>2, ConcatProperties
<1>4. CASE pstate[p] = "pending"
  <2>1. /\ pstate' = [pstate EXCEPT ![p] = s]
        /\ awaitReg' = {r \in awaitReg : r.promise # p}
        /\ microtasks' = queue \o jobs
        /\ reactions' = [reactions EXCEPT ![p] = <<>>]
    BY <1>4 DEF Settle
  <2>2. <<>> \in Seq(Promise)
    OBVIOUS
  <2> QED BY <2>1, <2>2, <1>3 DEF TypeOK
<1>5. CASE pstate[p] # "pending"
  BY <1>5 DEF Settle, TypeOK
<1> QED BY <1>4, <1>5

\* runMicrotask keeps them too.
LEMMA RunJobType ==
  ASSUME TypeOK, microtasks # <<>>, RunJob
  PROVE  /\ pstate' \in [Promise -> {"none", "pending"} \cup Settled]
         /\ reactions' \in [Promise -> Seq(Promise)]
         /\ microtasks' \in Seq(Job)
         /\ awaitReg' \in SUBSET [promise : Promise, task : Acts]
         /\ task' \in [Task -> {"none", "running", "runnable", "parked", "dead"}]
<1>1. Head(microtasks) \in Job /\ Tail(microtasks) \in Seq(Job)
  BY HeadTailProperties DEF TypeOK
<1>2. Head(microtasks).derived \in Promise /\ Head(microtasks).state \in Settled
  BY <1>1 DEF Job
<1>3. task' \in [Task -> {"none", "running", "runnable", "parked", "dead"}]
  BY UnparkType DEF RunJob, TypeOK
<1> QED BY <1>1, <1>2, <1>3, SettleType DEF RunJob

\* Marking an activation's creator as notified keeps the rows of the table.
LEMMA NotifiedType ==
  ASSUME TypeOK, NEW a \in Acts
  PROVE  Notified(a) \in SUBSET [task : Acts, creator : Task, notified : BOOLEAN]
<1>1. \A r \in act : [r EXCEPT !.notified = TRUE] \in [task : Acts, creator : Task, notified : BOOLEAN]
  BY DEF TypeOK
<1> QED BY <1>1 DEF TypeOK, Notified

\* saveExecCtx files a context and leaves the interpreter clean.
LEMMA SaveCtxType ==
  ASSUME TypeOK, NEW t \in Task, NEW stack \in Seq(TempRow), SaveCtx(t, stack)
  PROVE  /\ temps' \in Seq(TempRow)
         /\ throwing' \in BOOLEAN
         /\ suspended' \in SUBSET [task : Task, ctx : Ctx]
<1>1. [temps |-> stack, throwing |-> throwing] \in Ctx
  BY DEF TypeOK, Ctx
<1>2. [task |-> t, ctx |-> [temps |-> stack, throwing |-> throwing]] \in [task : Task, ctx : Ctx]
  BY <1>1
<1>3. <<>> \in Seq(TempRow)
  OBVIOUS
<1> QED BY <1>2, <1>3 DEF TypeOK, SaveCtx

\* resumeExecCtx restores a context of the right type.
LEMMA ResumeCtxType ==
  ASSUME TypeOK, NEW t \in Task, ResumeCtx(t)
  PROVE  /\ temps' \in Seq(TempRow)
         /\ throwing' \in BOOLEAN
         /\ suspended' \in SUBSET [task : Task, ctx : Ctx]
<1>1. PICK back \in suspended : /\ suspended' = suspended \ {back}
                               /\ temps' = PopTemp(back.ctx.temps)
                               /\ throwing' = back.ctx.throwing
  BY DEF ResumeCtx
<1>2. back.ctx \in Ctx
  BY DEF TypeOK
<1>3. back.ctx.temps \in Seq(TempRow) /\ back.ctx.throwing \in BOOLEAN
  BY <1>2 DEF Ctx
<1> QED BY <1>1, <1>3, PopTempType DEF TypeOK

\* pushTemp keeps the type of the stack of temp roots.
LEMMA PushType ==
  ASSUME TypeOK, NEW t \in Task, NEW p \in Promise
  PROVE  Push(t, p) \in Seq(TempRow)
BY AppendProperties DEF TypeOK, Push, TempRow

-----------------------------------------------------------------------------
(* Type correctness *)

\* Every step of program code keeps the types.
LEMMA CodeStepType ==
  ASSUME TypeOK, NEW t \in Task, CodeStep(t)
  PROVE  TypeOK'
<1> USE DEF Promise, Task
<1>1. ASSUME NEW e \in Ext, NEW b \in BOOLEAN, NewPromise(t, e, b)
      PROVE  TypeOK'
  BY <1>1 DEF NewPromise, TypeOK, ctxVars
<1>2. ASSUME NEW e \in Ext, NEW s \in Settled, Resolve(t, e, s)
      PROVE  TypeOK'
  <2>1. microtasks \in Seq(Job) /\ e \in Promise
    BY DEF TypeOK
  <2>2. Settle(e, s, microtasks)
    BY <1>2 DEF Resolve
  <2>3. task' \in [Task -> {"none", "running", "runnable", "parked", "dead"}]
    BY <1>2, UnparkType DEF Resolve, TypeOK
  <2> QED BY <1>2, <2>1, <2>2, <2>3, SettleType DEF Resolve, TypeOK, ctxVars
<1>3. ASSUME NEW a \in Acts, CallAsync(t, a)
      PROVE  TypeOK'
  <2>1. SaveCtx(t, Push(t, a)) /\ Push(t, a) \in Seq(TempRow)
    BY <1>3, PushType DEF CallAsync
  <2>2. [task |-> a, creator |-> t, notified |-> FALSE]
          \in [task : Acts, creator : Task, notified : BOOLEAN]
    OBVIOUS
  <2>3. act' \in SUBSET [task : Acts, creator : Task, notified : BOOLEAN]
    BY <1>3, <2>2 DEF CallAsync, TypeOK
  <2>4. /\ temps' \in Seq(TempRow)
        /\ throwing' \in BOOLEAN
        /\ suspended' \in SUBSET [task : Task, ctx : Ctx]
    BY <2>1, SaveCtxType
  <2> QED BY <1>3, <2>3, <2>4 DEF CallAsync, TypeOK
<1> QED BY <1>1, <1>2, <1>3 DEF CodeStep

\* Every step of an activation keeps the types.
LEMMA ActStepType ==
  ASSUME TypeOK, NEW a \in Acts, ActStep(a)
  PROVE  TypeOK'
<1> USE DEF Promise, Task
<1>1. CASE CodeStep(a)
  BY <1>1, CodeStepType
<1>2. ASSUME NEW p \in Promise, AwaitPending(a, p)
      PROVE  TypeOK'
  <2>1. SaveCtx(a, Push(a, p)) /\ Push(a, p) \in Seq(TempRow)
    BY <1>2, PushType DEF AwaitPending
  <2>2. task' \in [Task -> {"none", "running", "runnable", "parked", "dead"}]
    BY <1>2, UnparkType DEF AwaitPending, TypeOK
  <2>3. fuel' \in [Task -> 0..MaxAwaits]
    BY <1>2, ConstantsAssumption DEF AwaitPending, TypeOK
  <2>4. act' \in SUBSET [task : Acts, creator : Task, notified : BOOLEAN]
    BY <1>2, NotifiedType DEF AwaitPending
  <2>5. /\ temps' \in Seq(TempRow)
        /\ throwing' \in BOOLEAN
        /\ suspended' \in SUBSET [task : Task, ctx : Ctx]
    BY <2>1, SaveCtxType
  <2>6. [promise |-> p, task |-> a] \in [promise : Promise, task : Acts]
    OBVIOUS
  <2> QED BY <1>2, <2>2, <2>3, <2>4, <2>5, <2>6 DEF AwaitPending, TypeOK
<1>3. ASSUME NEW p \in Promise, AwaitSettled(a, p)
      PROVE  TypeOK'
  <2>1. fuel' \in [Task -> 0..MaxAwaits]
    BY <1>3, ConstantsAssumption DEF AwaitSettled, TypeOK
  <2>2. ticks' \in Nat
    BY <1>3, LenProperties DEF AwaitSettled, TypeOK
  <2> QED BY <1>3, <2>1, <2>2 DEF AwaitSettled, TypeOK, promiseVars, ctxVars
<1>4. ASSUME NEW woken, EndBody(a, woken),
             pstate' \in [Promise -> {"none", "pending"} \cup Settled],
             reactions' \in [Promise -> Seq(Promise)],
             microtasks' \in Seq(Job),
             awaitReg' \in SUBSET [promise : Promise, task : Acts]
      PROVE  TypeOK'
  <2>1. task' \in [Task -> {"none", "running", "runnable", "parked", "dead"}]
    BY <1>4, UnparkType DEF EndBody, TypeOK
  <2> QED BY <1>4, <2>1 DEF EndBody, TypeOK, ctxVars
<1>5. ASSUME NEW s \in Settled, ReturnValue(a, s)
      PROVE  TypeOK'
  BY <1>4, <1>5, SettleType DEF ReturnValue, TypeOK
<1>6. ASSUME NEW q \in Promise, ReturnSettled(a, q)
      PROVE  TypeOK'
  BY <1>4, <1>6, SettleType DEF ReturnSettled, TypeOK
<1>7. ASSUME NEW q \in Promise, ReturnPending(a, q)
      PROVE  TypeOK'
  <2>1. Append(reactions[q], a) \in Seq(Promise)
    BY AppendProperties DEF TypeOK
  <2> QED BY <1>4, <1>7, <2>1 DEF ReturnPending, TypeOK
<1>8. CASE TickJob(a)
  <2>1. ticks' \in Nat
    BY <1>8 DEF TickJob, TypeOK
  <2>2. RunJob /\ microtasks # <<>>
    BY <1>8 DEF TickJob
  <2> QED BY <1>8, <2>1, <2>2, RunJobType DEF TickJob, TypeOK, ctxVars
<1>9. CASE TickDone(a)
  BY <1>9 DEF TickDone, TypeOK, promiseVars, ctxVars
<1> QED BY <1>1, <1>2, <1>3, <1>5, <1>6, <1>7, <1>8, <1>9 DEF ActStep

\* Every step of the main task keeps the types.
LEMMA MainStepType ==
  ASSUME TypeOK, MainStep
  PROVE  TypeOK'
<1> USE DEF Promise, Task
<1>1. CASE CodeStep(Main)
  BY <1>1, CodeStepType
<1>2. ASSUME NEW p \in Promise, MainAwait(p)
      PROVE  TypeOK'
  <2>1. fuel' \in [Task -> 0..MaxAwaits]
    BY <1>2, ConstantsAssumption DEF MainAwait, TypeOK
  <2>2. Push(Main, p) \in Seq(TempRow)
    BY PushType
  <2>3. /\ awaiting' \in [Task -> Promise \cup {NoPromise}] /\ temps' \in Seq(TempRow)
        /\ pc' = pc \/ pc' = [pc EXCEPT ![Main] = "pick"]
    <3>1. awaiting \in [Task -> Promise \cup {NoPromise}] /\ temps \in Seq(TempRow)
      BY DEF TypeOK
    <3>2. CASE pstate[p] = "pending"
      BY <1>2, <2>2, <3>1, <3>2 DEF MainAwait
    <3>3. CASE pstate[p] # "pending"
      BY <1>2, <3>1, <3>3 DEF MainAwait
    <3> QED BY <3>2, <3>3
  <2> QED BY <1>2, <2>1, <2>3 DEF MainAwait, TypeOK, promiseVars
<1>3. ASSUME NEW b \in BOOLEAN, EndScript(b)
      PROVE  TypeOK'
  BY <1>3 DEF EndScript, TypeOK, promiseVars
<1>4. CASE EndCallback
  BY <1>4 DEF EndCallback, TypeOK, promiseVars, ctxVars
<1>5. CASE DrainJob
  BY <1>5, RunJobType DEF DrainJob, TypeOK, ctxVars
<1>6. CASE DrainDone
  BY <1>6 DEF DrainDone, TypeOK, promiseVars, ctxVars
<1>7. CASE LoopYield
  BY <1>7 DEF LoopYield, TypeOK, promiseVars, ctxVars
<1>8. CASE LoopExit
  BY <1>8 DEF LoopExit, TypeOK, promiseVars, ctxVars
<1>9. CASE AwaitDrainJobs
  BY <1>9 DEF AwaitDrainJobs, TypeOK, promiseVars, ctxVars
<1>10. CASE AwaitDone \/ AwaitGivesUp
  <2>1. LeaveMainAwait
    BY <1>10 DEF AwaitDone, AwaitGivesUp
  <2> QED BY <2>1, PopTempType DEF LeaveMainAwait, TypeOK, promiseVars
<1>11. ASSUME NEW e \in Ext, NEW s \in Settled, FireTimer(e, s)
       PROVE  TypeOK'
  <2>1. CASE throwing
    BY <1>11, <2>1 DEF FireTimer, TypeOK, promiseVars, ctxVars
  <2>2. CASE ~throwing
    <3>1. Settle(e, s, microtasks) /\ task' = Unpark(WokenBy(e), task)
      BY <1>11, <2>2 DEF FireTimer
    <3>2. task' \in [Task -> {"none", "running", "runnable", "parked", "dead"}]
      BY <3>1, UnparkType DEF TypeOK
    <3> QED BY <1>11, <2>2, <3>1, <3>2, SettleType DEF FireTimer, TypeOK, ctxVars
  <2> QED BY <2>1, <2>2
<1> QED BY <1>1, <1>2, <1>3, <1>4, <1>5, <1>6, <1>7, <1>8, <1>9, <1>10, <1>11 DEF MainStep

\* Every switch to another task keeps the types.
LEMMA ResumeType ==
  ASSUME TypeOK, NEW t \in Task, Resume(t)
  PROVE  TypeOK'
<1>1. CASE t \in Acts /\ StartBody(t)
  BY <1>1 DEF StartBody, Dispatch, TypeOK, promiseVars, ctxVars
<1>2. CASE t \in Acts /\ ResumeAwait(t)
  BY <1>2, ResumeCtxType DEF ResumeAwait, Dispatch, TypeOK, promiseVars
<1>3. CASE ResumeCreator(t)
  BY <1>3, ResumeCtxType DEF ResumeCreator, Dispatch, TypeOK, promiseVars
<1>4. CASE t = Main /\ ResumeLoop
  BY <1>4 DEF ResumeLoop, Dispatch, TypeOK, promiseVars, ctxVars
<1> QED BY <1>1, <1>2, <1>3, <1>4 DEF Resume

\* Every step of the program keeps the types.
LEMMA NextType ==
  ASSUME TypeOK, [Next]_vars
  PROVE  TypeOK'
<1>1. CASE UNCHANGED vars
  BY <1>1 DEF vars, TypeOK
<1>2. CASE Terminated
  BY <1>2 DEF Terminated, vars, TypeOK
<1> QED BY <1>1, <1>2, MainStepType, ActStepType, ResumeType DEF Next

\* The empty registries and queues have their types.
LEMMA InitType ==
  ASSUME Init
  PROVE  TypeOK
<1>1. /\ <<>> \in Seq(Promise)
      /\ <<>> \in Seq(Job)
      /\ <<>> \in Seq(TempRow)
  OBVIOUS
<1>2. reactions \in [Promise -> Seq(Promise)] /\ microtasks \in Seq(Job) /\ temps \in Seq(TempRow)
  BY <1>1 DEF Init
<1>3. fuel \in [Task -> 0..MaxAwaits]
  BY ConstantsAssumption DEF Init
<1>4. awaitReg = {} /\ act = {} /\ suspended = {} /\ armed = {}
  BY DEF Init
<1> QED BY <1>2, <1>3, <1>4 DEF Init, TypeOK

\* The interpreter's suspension state always has its types: registries hold
\* rows of tasks and promises, queues hold jobs, contexts hold temp roots.
THEOREM TypeCorrect == Spec => []TypeOK
BY InitType, NextType, PTL DEF Spec

-----------------------------------------------------------------------------
(* The inductive invariant behind the safety properties.  None of them is
   inductive alone: that a wake-up reaches its awaiter rests on where each
   parked task stands, that a creator is let go once rests on the rows of the
   activation table, and that a restored context is the right one rests on all
   of it. *)

\* Where a task's code may stand in each state of the scheduler; one task runs.
SchedInv ==
  /\ \A t \in Task :
       \/ task[t] = "none" /\ pc[t] = "unborn"
       \/ task[t] = "dead" /\ pc[t] = "ended"
       \/ task[t] = "parked" /\ pc[t] \in {"spawning", "awaiting"}
       \/ task[t] = "runnable" /\ pc[t] \in {"start", "spawning", "awaiting", "pick"}
       \/ task[t] = "running" /\ pc[t] \in {"code", "tick", "drain", "pick", "exited", "failed"}
  /\ \A t, u \in Task : Running(t) /\ Running(u) => t = u
  /\ pc[Main] \notin {"awaiting", "ended", "start", "unborn"}
  /\ \A a \in Acts : pc[a] # "pick"

\* The await registry lists exactly the parked awaiters of pending promises.
AwaitInv ==
  /\ \A r \in awaitReg :
       pc[r.task] = "awaiting" /\ awaiting[r.task] = r.promise /\ pstate[r.promise] = "pending"
  /\ \A a \in Acts : pc[a] = "awaiting" =>
       /\ awaiting[a] \in Promise
       /\ \/ /\ pstate[awaiting[a]] = "pending"
             /\ task[a] = "parked"
             /\ [promise |-> awaiting[a], task |-> a] \in awaitReg
          \/ pstate[awaiting[a]] \in Settled /\ task[a] = "runnable"

\* The activation table holds one row for each live activation at most, and a
\* row not yet notified is the only one its parked creator waits for.
CreatorInv ==
  /\ \A r, s \in act : r.task = s.task => r = s
  /\ \A r \in act : pc[r.task] \notin {"unborn", "ended"}
  /\ \A r \in act : ~r.notified => pc[r.creator] = "spawning" /\ task[r.creator] = "parked"
  /\ \A r, s \in act : ~r.notified /\ ~s.notified /\ r.creator = s.creator => r = s
  /\ \A t \in Task : pc[t] = "spawning" /\ task[t] = "parked" =>
       \E r \in act : r.creator = t /\ ~r.notified

\* Every suspended task has its own saved context.
CtxInv ==
  /\ \A r, s \in suspended : r.task = s.task => r = s
  /\ \A r \in suspended : pc[r.task] \in {"spawning", "awaiting"}
  /\ \A t \in Task : pc[t] \in {"spawning", "awaiting"} => \E r \in suspended : r.task = t

\* The temp roots a task holds outside the call that suspends it: the promise of
\* a top-level await, and nothing else.
Base(t) ==
  IF t = Main /\ awaiting[Main] # NoPromise
  THEN <<[by |-> Main, obj |-> awaiting[Main]]>>
  ELSE <<>>

RootInv ==
  /\ \A t \in Task : Running(t) => temps = Base(t)
  /\ Idle => temps = <<>>
  /\ \A r \in suspended : \E p \in Promise :
       /\ r.ctx.temps = Append(Base(r.task), [by |-> r.task, obj |-> p])
       /\ WaitedPromise(r.task) \subseteq {p}
  /\ scriptDone => awaiting[Main] = NoPromise
  /\ task[Main] = "runnable" /\ pc[Main] = "pick" => awaiting[Main] = NoPromise

\* An activation's promise does not exist before the activation.
BornInv == \A a \in Acts : pc[a] = "unborn" => pstate[a] = "none"

IInv == TypeOK /\ SchedInv /\ AwaitInv /\ CreatorInv /\ CtxInv /\ RootInv

\* schedulerUnpark, task by task.
LEMMA UnparkFacts ==
  ASSUME TypeOK, NEW S, NEW t \in Task
  PROVE  Unpark(S, task)[t] = IF t \in S /\ task[t] = "parked" THEN "runnable" ELSE task[t]
BY DEF Unpark

\* settlePromise, promise by promise, and the tasks it wakes.
LEMMA SettleFacts ==
  ASSUME TypeOK, AwaitInv, NEW p \in Promise, NEW s \in Settled, NEW queue, Settle(p, s, queue)
  PROVE  /\ awaitReg' = {r \in awaitReg : r.promise # p}
         /\ \A q \in Promise : pstate'[q] = IF q = p /\ pstate[p] = "pending" THEN s ELSE pstate[q]
         /\ \A t \in Task : t \in WokenBy(p) <=> \E r \in awaitReg : r.promise = p /\ r.task = t
         /\ \A t \in WokenBy(p) : t \in Acts /\ pc[t] = "awaiting" /\ task[t] = "parked"
<1>1. \A r \in awaitReg : pstate[r.promise] = "pending" /\ r \in [promise : Promise, task : Acts]
  BY DEF AwaitInv, TypeOK
<1>2. pstate \in [Promise -> {"none", "pending"} \cup Settled]
  BY DEF TypeOK
<1>3. awaitReg' = {r \in awaitReg : r.promise # p}
  BY <1>1 DEF Settle
<1>4. \A q \in Promise : pstate'[q] = IF q = p /\ pstate[p] = "pending" THEN s ELSE pstate[q]
  BY <1>2 DEF Settle
<1>5. \A t \in Task : t \in WokenBy(p) <=> \E r \in awaitReg : r.promise = p /\ r.task = t
  BY <1>1 DEF WokenBy
<1>6. \A t \in WokenBy(p) : \E r \in awaitReg : r.task = t
  BY DEF WokenBy
<1>7. \A t \in WokenBy(p) : t \in Acts /\ pc[t] = "awaiting"
  BY <1>1, <1>6 DEF AwaitInv
<1>8. \A t \in WokenBy(p) : task[t] = "parked"
  <2> SUFFICES ASSUME NEW t \in WokenBy(p) PROVE task[t] = "parked"
    OBVIOUS
  <2>1. PICK r \in awaitReg : r.task = t
    BY <1>6
  <2>2. pstate[awaiting[t]] = "pending" /\ pc[t] = "awaiting" /\ t \in Acts
    BY <1>7, <2>1, <1>1 DEF AwaitInv
  <2> QED BY <2>2 DEF AwaitInv, Settled
<1> QED BY <1>3, <1>4, <1>5, <1>7, <1>8

-----------------------------------------------------------------------------
(* Frame lemmas: what a step has to leave alone for a part to survive *)

\* A step keeps the await registry sound if it changes neither the registry nor
\* the awaiters, and settles nothing.
LEMMA AwaitFrame ==
  ASSUME TypeOK, AwaitInv,
         awaitReg' = awaitReg,
         \A a \in Acts : pc'[a] = "awaiting" <=> pc[a] = "awaiting",
         \A a \in Acts : pc[a] = "awaiting" => task'[a] = task[a] /\ awaiting'[a] = awaiting[a],
         \A p \in Promise : pstate[p] # "none" => pstate'[p] = pstate[p]
  PROVE  AwaitInv'
<1>1. \A r \in awaitReg : r.task \in Acts /\ r.promise \in Promise
  BY DEF TypeOK
<1> QED BY <1>1 DEF AwaitInv, Settled

\* A step that settles p keeps it sound if it wakes the tasks registered on p
\* and touches no other awaiter.
LEMMA AwaitSettleStep ==
  ASSUME TypeOK, AwaitInv, NEW p \in Promise, NEW s \in Settled, NEW queue, Settle(p, s, queue),
         awaiting' = awaiting,
         \A a \in Acts : pc'[a] = "awaiting" <=> pc[a] = "awaiting",
         \A a \in Acts : pc[a] = "awaiting" =>
           task'[a] = IF a \in WokenBy(p) /\ task[a] = "parked" THEN "runnable" ELSE task[a]
  PROVE  AwaitInv'
<1>1. \A r \in awaitReg : r.task \in Acts /\ r.promise \in Promise
  BY DEF TypeOK
<1>2. /\ awaitReg' = {r \in awaitReg : r.promise # p}
      /\ \A q \in Promise : pstate'[q] = IF q = p /\ pstate[p] = "pending" THEN s ELSE pstate[q]
      /\ \A t \in Task : t \in WokenBy(p) <=> \E r \in awaitReg : r.promise = p /\ r.task = t
  BY SettleFacts
<1>3. \A r \in awaitReg' :
        pc'[r.task] = "awaiting" /\ awaiting'[r.task] = r.promise /\ pstate'[r.promise] = "pending"
  BY <1>1, <1>2 DEF AwaitInv
<1>4. ASSUME NEW a \in Acts, pc'[a] = "awaiting"
      PROVE  /\ awaiting'[a] \in Promise
             /\ \/ /\ pstate'[awaiting'[a]] = "pending"
                   /\ task'[a] = "parked"
                   /\ [promise |-> awaiting'[a], task |-> a] \in awaitReg'
                \/ pstate'[awaiting'[a]] \in Settled /\ task'[a] = "runnable"
  <2>1. pc[a] = "awaiting" /\ awaiting[a] \in Promise /\ a \in Task
    BY <1>4 DEF AwaitInv, Task
  <2>2. CASE awaiting[a] = p /\ pstate[p] = "pending"
    <3>1. [promise |-> p, task |-> a] \in awaitReg /\ task[a] = "parked"
      BY <2>1, <2>2 DEF AwaitInv, Settled
    <3>2. a \in WokenBy(p)
      BY <2>1, <3>1, <1>2
    <3> QED BY <2>1, <2>2, <3>1, <3>2, <1>2
  <2>3. CASE awaiting[a] # p \/ pstate[p] # "pending"
    <3>1. a \notin WokenBy(p)
      BY <2>1, <2>3, <1>2 DEF AwaitInv
    <3> QED BY <2>1, <2>3, <3>1, <1>2 DEF AwaitInv
  <2> QED BY <2>2, <2>3
<1> QED BY <1>3, <1>4 DEF AwaitInv

\* A step keeps the activation table sound if it changes neither the table nor
\* the parked creators, and starts and ends no activation.
LEMMA CreatorFrame ==
  ASSUME TypeOK, CreatorInv,
         act' = act,
         \A t \in Task : pc'[t] \in {"unborn", "ended"} => pc[t] \in {"unborn", "ended"},
         \A t \in Task : pc'[t] = "spawning" /\ task'[t] = "parked"
                         <=> pc[t] = "spawning" /\ task[t] = "parked"
  PROVE  CreatorInv'
<1>1. \A r \in act : r.task \in Task /\ r.creator \in Task
  BY DEF TypeOK, Task
<1> QED BY <1>1 DEF CreatorInv

\* A step keeps the saved contexts in order if it saves and restores none and
\* suspends and resumes nobody.
LEMMA CtxFrame ==
  ASSUME TypeOK, CtxInv,
         suspended' = suspended,
         \A t \in Task : pc'[t] \in {"spawning", "awaiting"} <=> pc[t] \in {"spawning", "awaiting"}
  PROVE  CtxInv'
<1>1. \A r \in suspended : r.task \in Task
  BY DEF TypeOK
<1> QED BY <1>1 DEF CtxInv

\* A saved context keeps the waited promise rooted if the step changes no saved
\* context and makes no suspended task wait for more.
LEMMA SavedRootsFrame ==
  ASSUME TypeOK, RootInv, NEW t \in Task,
         \A r \in suspended' : r.task # t => r \in suspended,
         \A u \in Task \ {t} : pc'[u] = pc[u] /\ awaiting'[u] = awaiting[u],
         \A u \in Task \ {t} : \A r \in act' : r.creator = u /\ ~r.notified =>
           \E q \in act : q.task = r.task /\ q.creator = u /\ ~q.notified
  PROVE  \A r \in suspended' : r.task # t => \E p \in Promise :
           /\ r.ctx.temps = Append(Base(r.task)', [by |-> r.task, obj |-> p])
           /\ WaitedPromise(r.task)' \subseteq {p}
<1> SUFFICES ASSUME NEW r \in suspended', r.task # t
             PROVE  \E p \in Promise :
                      /\ r.ctx.temps = Append(Base(r.task)', [by |-> r.task, obj |-> p])
                      /\ WaitedPromise(r.task)' \subseteq {p}
  OBVIOUS
<1>1. r \in suspended /\ r.task \in Task
  BY DEF TypeOK
<1>2. PICK p \in Promise : /\ r.ctx.temps = Append(Base(r.task), [by |-> r.task, obj |-> p])
                           /\ WaitedPromise(r.task) \subseteq {p}
  BY <1>1 DEF RootInv
<1>3. Base(r.task)' = Base(r.task)
  BY <1>1 DEF Base
<1>4. WaitedPromise(r.task)' \subseteq WaitedPromise(r.task)
  BY <1>1 DEF WaitedPromise
<1> QED BY <1>2, <1>3, <1>4

-----------------------------------------------------------------------------
(* Each kind of step preserves the invariant *)

\* Where the running task can stand; it is the only one that runs.
LEMMA RunnerFacts ==
  ASSUME IInv, NEW t \in Task, Running(t)
  PROVE  /\ pc[t] \in {"code", "tick", "drain", "pick", "exited", "failed"}
         /\ \A u \in Task : u # t => task[u] # "running"
BY DEF IInv, SchedInv, Running, TypeOK

\* A step of the running task that suspends, wakes and ends nobody.
LEMMA QuietStep ==
  ASSUME IInv, TypeOK', NEW t \in Task, Running(t),
         task' = task,
         \E where \in {"code", "tick", "drain", "pick", "exited", "failed"} :
           pc' = [pc EXCEPT ![t] = where] /\ (where = "pick" => t = Main),
         \A p \in Promise : pstate[p] # "none" => pstate'[p] = pstate[p],
         UNCHANGED <<awaitReg, act, suspended>>,
         \A u \in Task : u # Main => awaiting'[u] = awaiting[u],
         t # Main => awaiting' = awaiting,
         temps' = Base(t)',
         scriptDone' => awaiting'[Main] = NoPromise
  PROVE  IInv'
<1>1. PICK where \in {"code", "tick", "drain", "pick", "exited", "failed"} :
        pc' = [pc EXCEPT ![t] = where] /\ (where = "pick" => t = Main)
  OBVIOUS
<1>2. /\ pc[t] \in {"code", "tick", "drain", "pick", "exited", "failed"}
      /\ pc'[t] = where
      /\ \A u \in Task : u # t => pc'[u] = pc[u]
      /\ \A u \in Task : u # t => task[u] # "running"
  <2>1. DOMAIN pc = Task
    BY DEF IInv, TypeOK
  <2> QED BY <1>1, <2>1, RunnerFacts
<1>3. SchedInv'
  BY <1>1, <1>2, ConstantsAssumption DEF IInv, SchedInv, Running, Task
<1>4. AwaitInv'
  BY <1>1, <1>2, AwaitFrame, ConstantsAssumption DEF IInv, Task
<1>5. CreatorInv'
  BY <1>1, <1>2, CreatorFrame DEF IInv
<1>6. CtxInv'
  BY <1>1, <1>2, CtxFrame DEF IInv
<1>7. RootInv'
  <2>1. \A r \in suspended : r.task # t
    BY <1>2 DEF IInv, CtxInv, TypeOK
  <2>2. \A r \in suspended' : r.task # t => \E p \in Promise :
           /\ r.ctx.temps = Append(Base(r.task)', [by |-> r.task, obj |-> p])
           /\ WaitedPromise(r.task)' \subseteq {p}
    <3>1. \A u \in Task \ {t} : pc'[u] = pc[u] /\ awaiting'[u] = awaiting[u]
      BY <1>2
    <3> QED BY <3>1, SavedRootsFrame DEF IInv
  <2>3. \A u \in Task : Running(u)' => u = t
    BY <1>2 DEF Running
  <2>4. ~Idle' /\ task'[t] = "running"
    BY DEF Idle, Running
  <2>5. task'[Main] = "runnable" /\ pc'[Main] = "pick" => awaiting'[Main] = NoPromise
    <3>1. CASE t = Main
      BY <3>1, <2>4
    <3>2. CASE t # Main
      BY <3>2, <1>2 DEF IInv, RootInv, Task
    <3> QED BY <3>1, <3>2
  <2> QED BY <2>1, <2>2, <2>3, <2>4, <2>5 DEF RootInv, Running
<1> QED BY <1>3, <1>4, <1>5, <1>6, <1>7 DEF IInv

\* A step of the running task that settles p and wakes the tasks awaiting it.
LEMMA SettlingStep ==
  ASSUME IInv, TypeOK', NEW t \in Task, Running(t),
         NEW p \in Promise, NEW s \in Settled, NEW queue, Settle(p, s, queue),
         task' = Unpark(WokenBy(p), task),
         \E where \in {"code", "tick", "drain"} : pc' = [pc EXCEPT ![t] = where],
         UNCHANGED <<act, suspended, awaiting, temps, scriptDone>>
  PROVE  IInv'
<1>1. PICK where \in {"code", "tick", "drain"} : pc' = [pc EXCEPT ![t] = where]
  OBVIOUS
<1>2. /\ pc[t] \in {"code", "tick", "drain", "pick", "exited", "failed"}
      /\ pc'[t] = where
      /\ \A u \in Task : u # t => pc'[u] = pc[u]
      /\ \A u \in Task : u # t => task[u] # "running"
  <2>1. DOMAIN pc = Task
    BY DEF IInv, TypeOK
  <2> QED BY <1>1, <2>1, RunnerFacts
<1>3. \A u \in Task : task'[u] = IF u \in WokenBy(p) /\ task[u] = "parked" THEN "runnable" ELSE task[u]
  BY UnparkFacts DEF IInv
<1>4. \A u \in WokenBy(p) : u \in Acts /\ pc[u] = "awaiting" /\ task[u] = "parked"
  BY SettleFacts DEF IInv
<1>5. SchedInv'
  BY <1>1, <1>2, <1>3, <1>4 DEF IInv, SchedInv, Running, Task
<1>6. AwaitInv'
  BY <1>1, <1>2, <1>3, AwaitSettleStep DEF IInv, Task
<1>7. CreatorInv'
  BY <1>1, <1>2, <1>3, <1>4, CreatorFrame DEF IInv
<1>8. CtxInv'
  BY <1>1, <1>2, CtxFrame DEF IInv
<1>9. RootInv'
  <2>1. \A r \in suspended : r.task # t
    BY <1>2 DEF IInv, CtxInv, TypeOK
  <2>2. \A r \in suspended' : r.task # t => \E q \in Promise :
           /\ r.ctx.temps = Append(Base(r.task)', [by |-> r.task, obj |-> q])
           /\ WaitedPromise(r.task)' \subseteq {q}
    BY <1>2, SavedRootsFrame DEF IInv
  <2>3. \A u \in Task : Running(u)' => u = t
    BY <1>2, <1>3 DEF Running
  <2>4. ~Idle' /\ task'[t] = "running" /\ temps' = Base(t)'
    BY <1>3 DEF Idle, Running, IInv, RootInv, Base
  <2>5. task'[Main] = "runnable" /\ pc'[Main] = "pick" => awaiting'[Main] = NoPromise
    <3>1. CASE t = Main
      BY <3>1, <2>4
    <3>2. CASE t # Main
      BY <3>2, <1>2, <1>3, <1>4, ConstantsAssumption DEF IInv, RootInv, Task
    <3> QED BY <3>1, <3>2
  <2>6. scriptDone' => awaiting'[Main] = NoPromise
    BY DEF IInv, RootInv
  <2> QED BY <2>1, <2>2, <2>3, <2>4, <2>5, <2>6 DEF RootInv, Running
<1> QED BY <1>5, <1>6, <1>7, <1>8, <1>9 DEF IInv

\* The tail of an activation's closure: `woken` are the awaiters it woke.
LEMMA EndBodyStep ==
  ASSUME IInv, TypeOK', NEW a \in Acts, Code(a), NEW woken, EndBody(a, woken),
         AwaitInv',
         \A u \in woken \cap Task : u \in Acts /\ pc[u] = "awaiting"
  PROVE  IInv'
<1> USE DEF Task
<1>1. /\ task[a] = "running" /\ pc[a] = "code"
      /\ pc'[a] = "ended" /\ task'[a] = "dead"
      /\ \A u \in Task : u # a => pc'[u] = pc[u] /\ task[u] # "running"
  BY DEF IInv, SchedInv, Code, Running, EndBody, TypeOK
<1>2. \A u \in Task : u \in ToRelease(a) <=> \E r \in act : r.task = a /\ ~r.notified /\ r.creator = u
  BY DEF ToRelease
<1>3. \A u \in Task : u # a =>
        task'[u] = IF u \in woken \cup ToRelease(a) /\ task[u] = "parked" THEN "runnable" ELSE task[u]
  BY UnparkFacts DEF EndBody, IInv
<1>4. act' = {r \in act : r.task # a}
  BY DEF EndBody
<1>5. SchedInv'
  BY <1>1, <1>3, ConstantsAssumption DEF IInv, SchedInv, Running
<1>6. CreatorInv'
  <2>1. \A r \in act : r.creator \in Task /\ r.task \in Task
    BY DEF IInv, TypeOK
  <2>2. /\ \A r, s \in act' : r.task = s.task => r = s
        /\ \A r \in act' : pc'[r.task] \notin {"unborn", "ended"}
        /\ \A r, s \in act' : ~r.notified /\ ~s.notified /\ r.creator = s.creator => r = s
    BY <1>1, <1>4, <2>1 DEF IInv, CreatorInv
  <2>3. ASSUME NEW r \in act', ~r.notified
        PROVE  pc'[r.creator] = "spawning" /\ task'[r.creator] = "parked"
    <3>1. r \in act /\ r.task # a /\ pc[r.creator] = "spawning" /\ task[r.creator] = "parked"
      BY <1>4, <2>3 DEF IInv, CreatorInv
    <3>2. r.creator \notin woken
      BY <2>1, <3>1
    <3>3. r.creator \notin ToRelease(a)
      BY <1>2, <2>1, <2>3, <3>1 DEF IInv, CreatorInv
    <3> QED BY <1>1, <1>3, <2>1, <3>1, <3>2, <3>3
  <2>4. ASSUME NEW t \in Task, pc'[t] = "spawning", task'[t] = "parked"
        PROVE  \E r \in act' : r.creator = t /\ ~r.notified
    <3>1. t # a /\ pc[t] = "spawning" /\ task[t] = "parked" /\ t \notin ToRelease(a)
      BY <1>1, <1>3, <2>4
    <3>2. PICK r \in act : r.creator = t /\ ~r.notified
      BY <3>1 DEF IInv, CreatorInv
    <3> QED BY <1>2, <1>4, <3>1, <3>2
  <2> QED BY <2>2, <2>3, <2>4 DEF CreatorInv
<1>7. CtxInv'
  <2>1. suspended' = suspended
    BY DEF EndBody, ctxVars
  <2> QED BY <1>1, <2>1, CtxFrame DEF IInv
<1>8. RootInv'
  <2>1. /\ \A r \in suspended : r.task # a
        /\ UNCHANGED <<suspended, temps, awaiting, scriptDone>>
    BY <1>1 DEF IInv, CtxInv, TypeOK, EndBody, ctxVars
  <2>2. \A r \in suspended' : r.task # a => \E q \in Promise :
           /\ r.ctx.temps = Append(Base(r.task)', [by |-> r.task, obj |-> q])
           /\ WaitedPromise(r.task)' \subseteq {q}
    BY <1>1, <1>4, <2>1, SavedRootsFrame DEF IInv
  <2>3. \A u \in Task : ~Running(u)'
    BY <1>1, <1>3 DEF Running
  <2>4. temps' = <<>>
    BY <1>1, <2>1, ConstantsAssumption DEF IInv, RootInv, Running, Base
  <2>5. task'[Main] = "runnable" /\ pc'[Main] = "pick" => awaiting'[Main] = NoPromise
    <3>1. pc[Main] = "pick" => task[Main] # "parked"
      BY DEF IInv, SchedInv
    <3> QED BY <1>1, <1>3, <2>1, <3>1, ConstantsAssumption DEF IInv, RootInv
  <2>6. scriptDone' => awaiting'[Main] = NoPromise
    BY <2>1 DEF IInv, RootInv
  <2> QED BY <2>1, <2>2, <2>3, <2>4, <2>5, <2>6 DEF RootInv
<1> QED BY <1>5, <1>6, <1>7, <1>8 DEF IInv

\* The row saveExecCtx files for the running task, which has none yet.
LEMMA SaveCtxStep ==
  ASSUME IInv, NEW t \in Task, Running(t), NEW p \in Promise, SaveCtx(t, Push(t, p)),
         pc'[t] \in {"spawning", "awaiting"},
         \A u \in Task \ {t} :
           pc'[u] \in {"spawning", "awaiting"} <=> pc[u] \in {"spawning", "awaiting"}
  PROVE  /\ CtxInv'
         /\ temps' = <<>>
         /\ \A r \in suspended' : r.task # t => r \in suspended
         /\ \A r \in suspended' : r.task = t =>
              r.ctx.temps = Append(Base(t), [by |-> t, obj |-> p])
<1> DEFINE new == [task |-> t, ctx |-> [temps |-> Push(t, p), throwing |-> throwing]]
<1>1. suspended' = suspended \cup {new} /\ temps' = <<>>
  BY DEF SaveCtx
<1>2. new.task = t /\ new.ctx.temps = Push(t, p)
  OBVIOUS
<1>3. \A r \in suspended : r.task \in Task /\ r.task # t
  BY RunnerFacts DEF IInv, CtxInv, TypeOK
<1>4. Push(t, p) = Append(Base(t), [by |-> t, obj |-> p])
  BY DEF Push, IInv, RootInv
<1> HIDE DEF new
<1>5. CtxInv'
  BY <1>1, <1>2, <1>3 DEF IInv, CtxInv
<1> QED BY <1>1, <1>2, <1>3, <1>4, <1>5

\* An async call registers the activation and parks its caller.
LEMMA CallAsyncStep ==
  ASSUME IInv, BornInv, TypeOK', NEW t \in Task, NEW a \in Acts, CallAsync(t, a)
  PROVE  IInv'
<1> USE DEF Task
<1> DEFINE row == [task |-> a, creator |-> t, notified |-> FALSE]
<1>1. /\ task[t] = "running" /\ pc[t] = "code" /\ pc[a] = "unborn" /\ task[a] = "none" /\ a # t
      /\ task'[t] = "parked" /\ task'[a] = "runnable" /\ pc'[t] = "spawning" /\ pc'[a] = "start"
      /\ \A u \in Task \ {t, a} : task'[u] = task[u] /\ pc'[u] = pc[u]
      /\ \A u \in Task \ {t} : task[u] # "running"
  BY DEF IInv, SchedInv, CallAsync, Code, Running, TypeOK
<1>2. act' = act \cup {row} /\ row.task = a /\ row.creator = t /\ ~row.notified
  BY DEF CallAsync
<1> HIDE DEF row
<1>3. /\ awaitReg' = awaitReg /\ awaiting' = awaiting /\ scriptDone' = scriptDone
      /\ \A p \in Promise : pstate[p] # "none" => pstate'[p] = pstate[p]
  <2>1. awaitReg' = awaitReg /\ awaiting' = awaiting /\ scriptDone' = scriptDone
    BY DEF CallAsync
  <2>2. pstate' = [pstate EXCEPT ![a] = "pending"] /\ pstate[a] = "none"
    BY <1>1 DEF CallAsync, BornInv
  <2> QED BY <2>1, <2>2 DEF IInv, TypeOK
<1>4. SchedInv'
  BY <1>1, ConstantsAssumption DEF IInv, SchedInv, Running
<1>5. AwaitInv'
  BY <1>1, <1>3, AwaitFrame DEF IInv
<1>6. CreatorInv'
  <2>1. \A r \in act : /\ r.creator \in Task /\ r.task \in Task
                       /\ r.task # a
                       /\ ~r.notified => r.creator \notin {t, a}
    BY <1>1 DEF IInv, TypeOK, CreatorInv
  <2>2. \A r \in act' : pc'[r.task] \notin {"unborn", "ended"}
    BY <1>1, <1>2, <2>1 DEF IInv, CreatorInv
  <2>3. \A r \in act' : ~r.notified => pc'[r.creator] = "spawning" /\ task'[r.creator] = "parked"
    BY <1>1, <1>2, <2>1 DEF IInv, CreatorInv
  <2>4. /\ \A r, s \in act' : r.task = s.task => r = s
        /\ \A r, s \in act' : ~r.notified /\ ~s.notified /\ r.creator = s.creator => r = s
    BY <1>2, <2>1 DEF IInv, CreatorInv
  <2>5. \A u \in Task : pc'[u] = "spawning" /\ task'[u] = "parked" =>
          \E r \in act' : r.creator = u /\ ~r.notified
    BY <1>1, <1>2 DEF IInv, CreatorInv
  <2> QED BY <2>2, <2>3, <2>4, <2>5 DEF CreatorInv
<1>7. /\ CtxInv'
      /\ temps' = <<>>
      /\ \A r \in suspended' : r.task # t => r \in suspended
      /\ \A r \in suspended' : r.task = t => r.ctx.temps = Append(Base(t), [by |-> t, obj |-> a])
  <2>1. Running(t) /\ SaveCtx(t, Push(t, a)) /\ a \in Promise
    BY DEF CallAsync, Code, Promise
  <2> QED BY <1>1, <2>1, SaveCtxStep
<1>8. RootInv'
  <2>1. ASSUME NEW r \in suspended', r.task = t
        PROVE  /\ r.ctx.temps = Append(Base(r.task)', [by |-> r.task, obj |-> a])
               /\ WaitedPromise(r.task)' \subseteq {a}
    <3>1. Base(t)' = Base(t)
      BY <1>3 DEF Base
    <3>2. \A q \in act : ~q.notified => q.creator # t
      BY <1>1 DEF IInv, CreatorInv
    <3>3. WaitedPromise(t)' \subseteq {a}
      BY <1>1, <1>2, <3>2 DEF WaitedPromise
    <3> QED BY <1>7, <2>1, <3>1, <3>3
  <2>2. \A r \in suspended' : r.task \notin {t, a} => \E q \in Promise :
           /\ r.ctx.temps = Append(Base(r.task)', [by |-> r.task, obj |-> q])
           /\ WaitedPromise(r.task)' \subseteq {q}
    <3> SUFFICES ASSUME NEW r \in suspended', r.task \notin {t, a}
                 PROVE  \E q \in Promise :
                          /\ r.ctx.temps = Append(Base(r.task)', [by |-> r.task, obj |-> q])
                          /\ WaitedPromise(r.task)' \subseteq {q}
      OBVIOUS
    <3>1. r \in suspended /\ r.task \in Task
      BY <1>7 DEF IInv, TypeOK
    <3>2. PICK q \in Promise : /\ r.ctx.temps = Append(Base(r.task), [by |-> r.task, obj |-> q])
                               /\ WaitedPromise(r.task) \subseteq {q}
      BY <3>1 DEF IInv, RootInv
    <3>3. Base(r.task)' = Base(r.task)
      BY <1>3 DEF Base
    <3>4. WaitedPromise(r.task)' \subseteq WaitedPromise(r.task)
      BY <1>1, <1>2, <1>3, <3>1 DEF WaitedPromise
    <3> QED BY <3>2, <3>3, <3>4
  <2>3. \A r \in suspended' : r.task # a
    BY <1>1, <1>7 DEF CtxInv
  <2>4. \A u \in Task : ~Running(u)'
    BY <1>1 DEF Running
  <2>5. task'[Main] = "runnable" /\ pc'[Main] = "pick" => awaiting'[Main] = NoPromise
    BY <1>1, <1>3 DEF IInv, RootInv
  <2>6. scriptDone' => awaiting'[Main] = NoPromise
    BY <1>3 DEF IInv, RootInv
  <2>7. \A r \in suspended' : \E q \in Promise :
           /\ r.ctx.temps = Append(Base(r.task)', [by |-> r.task, obj |-> q])
           /\ WaitedPromise(r.task)' \subseteq {q}
    BY <2>1, <2>2, <2>3 DEF Promise
  <2> QED BY <1>7, <2>4, <2>5, <2>6, <2>7 DEF RootInv
<1> QED BY <1>4, <1>5, <1>6, <1>7, <1>8 DEF IInv

\* An await of a pending promise registers the awaiter, parks it and lets its
\* creator go.
LEMMA AwaitPendingStep ==
  ASSUME IInv, TypeOK', NEW a \in Acts, NEW p \in Promise, AwaitPending(a, p)
  PROVE  IInv'
<1> USE DEF Task
<1> DEFINE row == [promise |-> p, task |-> a]
<1>1. /\ task[a] = "running" /\ pc[a] = "code"
      /\ pc'[a] = "awaiting" /\ task'[a] = "parked"
      /\ \A u \in Task : u # a => pc'[u] = pc[u] /\ task[u] # "running"
  BY DEF IInv, SchedInv, Code, Running, AwaitPending, TypeOK
<1>2. \A u \in Task : u \in ToRelease(a) <=> \E r \in act : r.task = a /\ ~r.notified /\ r.creator = u
  BY DEF ToRelease
<1>3. \A u \in Task : u # a =>
        task'[u] = IF u \in ToRelease(a) /\ task[u] = "parked" THEN "runnable" ELSE task[u]
  BY UnparkFacts DEF AwaitPending, IInv
<1>4. \A u \in ToRelease(a) : pc[u] = "spawning" /\ u # a
  BY <1>1 DEF ToRelease, IInv, CreatorInv
<1>5. SchedInv'
  BY <1>1, <1>3, <1>4, ConstantsAssumption DEF IInv, SchedInv, Running
<1>6. AwaitInv'
  <2>1. /\ awaitReg' = awaitReg \cup {row} /\ pstate' = pstate /\ pstate[p] = "pending"
        /\ awaiting'[a] = p /\ \A u \in Task : u # a => awaiting'[u] = awaiting[u]
    BY DEF AwaitPending, IInv, TypeOK
  <2>2. row.promise = p /\ row.task = a
    OBVIOUS
  <2> HIDE DEF row
  <2>3. \A r \in awaitReg : r.task \in Acts /\ r.task # a
    BY <1>1 DEF IInv, TypeOK, AwaitInv
  <2>4. \A r \in awaitReg' :
          pc'[r.task] = "awaiting" /\ awaiting'[r.task] = r.promise /\ pstate'[r.promise] = "pending"
    BY <1>1, <2>1, <2>2, <2>3 DEF IInv, AwaitInv
  <2>5. ASSUME NEW b \in Acts, pc'[b] = "awaiting", b # a
        PROVE  /\ awaiting'[b] \in Promise
               /\ \/ /\ pstate'[awaiting'[b]] = "pending"
                     /\ task'[b] = "parked"
                     /\ [promise |-> awaiting'[b], task |-> b] \in awaitReg'
                  \/ pstate'[awaiting'[b]] \in Settled /\ task'[b] = "runnable"
    <3>1. pc[b] = "awaiting" /\ task'[b] = task[b] /\ awaiting'[b] = awaiting[b]
      BY <1>1, <1>3, <1>4, <2>1, <2>5
    <3> QED BY <2>1, <3>1 DEF IInv, AwaitInv
  <2>6. row \in awaitReg' /\ row = [promise |-> awaiting'[a], task |-> a]
    BY <2>1 DEF row
  <2> QED BY <1>1, <2>1, <2>4, <2>5, <2>6 DEF AwaitInv
<1>7. act' = Notified(a) /\ scriptDone' = scriptDone
  BY DEF AwaitPending
<1>8. \A r \in act' : \E q \in act :
        /\ r.task = q.task /\ r.creator = q.creator
        /\ q.task = a => r.notified
        /\ q.task # a => r = q
  <2>1. \A q \in act : q \in [task : Acts, creator : Task, notified : BOOLEAN]
    BY DEF IInv, TypeOK
  <2>2. \A q \in act : LET r == [q EXCEPT !.notified = TRUE] IN
          r.task = q.task /\ r.creator = q.creator /\ r.notified
    BY <2>1
  <2> QED BY <1>7, <2>2 DEF Notified
<1>9. \A q \in act : q.task # a => q \in act'
  BY <1>7 DEF Notified
<1>10. CreatorInv'
  <2>1. \A r \in act : r.creator \in Task /\ r.task \in Task
    BY DEF IInv, TypeOK
  <2>2. ASSUME NEW r \in act', NEW s \in act', r.task = s.task
        PROVE  r = s
    <3>1. \A q1, q2 \in act : q1.task = q2.task => q1 = q2
      BY DEF IInv, CreatorInv
    <3>2. CASE r.task # a
      BY <1>8, <2>2, <3>1, <3>2
    <3>3. CASE r.task = a
      <4>1. /\ r \in [task : Acts, creator : Task, notified : BOOLEAN]
            /\ s \in [task : Acts, creator : Task, notified : BOOLEAN]
        BY DEF TypeOK
      <4>2. PICK q1 \in act : r.task = q1.task /\ r.creator = q1.creator
                               /\ (q1.task = a => r.notified)
        BY <1>8
      <4>3. PICK q2 \in act : s.task = q2.task /\ s.creator = q2.creator
                               /\ (q2.task = a => s.notified)
        BY <1>8
      <4>4. r.creator = s.creator /\ r.notified /\ s.notified
        BY <2>2, <3>1, <3>3, <4>2, <4>3
      <4> QED BY <2>2, <4>1, <4>4
    <3> QED BY <3>2, <3>3
  <2>3. \A r \in act' : pc'[r.task] \notin {"unborn", "ended"}
    BY <1>1, <1>8, <2>1 DEF IInv, CreatorInv
  <2>4. ASSUME NEW r \in act', ~r.notified
        PROVE  pc'[r.creator] = "spawning" /\ task'[r.creator] = "parked"
    <3>1. r \in act /\ r.task # a
      BY <1>8, <2>4
    <3>2. pc[r.creator] = "spawning" /\ task[r.creator] = "parked" /\ r.creator \in Task
      BY <2>1, <2>4, <3>1 DEF IInv, CreatorInv
    <3>3. r.creator \notin ToRelease(a)
      BY <1>2, <2>4, <3>1, <3>2 DEF IInv, CreatorInv
    <3> QED BY <1>1, <1>3, <3>2, <3>3
  <2>5. ASSUME NEW r \in act', NEW s \in act', ~r.notified, ~s.notified, r.creator = s.creator
        PROVE  r = s
    <3>1. r \in act /\ s \in act
      BY <1>8, <2>5
    <3> QED BY <2>5, <3>1 DEF IInv, CreatorInv
  <2>6. ASSUME NEW t \in Task, pc'[t] = "spawning", task'[t] = "parked"
        PROVE  \E r \in act' : r.creator = t /\ ~r.notified
    <3>1. t # a /\ pc[t] = "spawning" /\ task[t] = "parked" /\ t \notin ToRelease(a)
      BY <1>1, <1>3, <2>6
    <3>2. PICK r \in act : r.creator = t /\ ~r.notified
      BY <3>1 DEF IInv, CreatorInv
    <3> QED BY <1>2, <1>9, <3>1, <3>2
  <2> QED BY <2>2, <2>3, <2>4, <2>5, <2>6 DEF CreatorInv
<1>11. /\ CtxInv'
       /\ temps' = <<>>
       /\ \A r \in suspended' : r.task # a => r \in suspended
       /\ \A r \in suspended' : r.task = a => r.ctx.temps = Append(Base(a), [by |-> a, obj |-> p])
  <2>1. Running(a) /\ SaveCtx(a, Push(a, p))
    BY DEF AwaitPending, Code
  <2> QED BY <1>1, <2>1, SaveCtxStep
<1>12. RootInv'
  <2>1. awaiting'[a] = p /\ \A u \in Task : u # a => awaiting'[u] = awaiting[u]
    BY DEF AwaitPending, IInv, TypeOK
  <2>2. ASSUME NEW r \in suspended', r.task = a
        PROVE  /\ r.ctx.temps = Append(Base(r.task)', [by |-> r.task, obj |-> p])
               /\ WaitedPromise(r.task)' \subseteq {p}
    <3>1. Base(a)' = Base(a)
      BY <2>1, ConstantsAssumption DEF Base
    <3>2. WaitedPromise(a)' \subseteq {p}
      BY <1>1, <2>1 DEF WaitedPromise
    <3> QED BY <1>11, <2>2, <3>1, <3>2
  <2>3. \A r \in suspended' : r.task # a => \E q \in Promise :
           /\ r.ctx.temps = Append(Base(r.task)', [by |-> r.task, obj |-> q])
           /\ WaitedPromise(r.task)' \subseteq {q}
    <3>1. \A u \in Task \ {a} : \A r \in act' : r.creator = u /\ ~r.notified =>
            \E q \in act : q.task = r.task /\ q.creator = u /\ ~q.notified
      BY <1>8
    <3>2. \A u \in Task \ {a} : pc'[u] = pc[u] /\ awaiting'[u] = awaiting[u]
      BY <1>1, <2>1
    <3> QED BY <1>11, <3>1, <3>2, SavedRootsFrame DEF IInv
  <2>4. \A u \in Task : ~Running(u)'
    BY <1>1, <1>3 DEF Running
  <2>5. task'[Main] = "runnable" /\ pc'[Main] = "pick" => awaiting'[Main] = NoPromise
    BY <1>1, <1>3, <1>4, <2>1, ConstantsAssumption DEF IInv, RootInv
  <2>6. scriptDone' => awaiting'[Main] = NoPromise
    BY <1>7, <2>1, ConstantsAssumption DEF IInv, RootInv
  <2>7. \A r \in suspended' : \E q \in Promise :
           /\ r.ctx.temps = Append(Base(r.task)', [by |-> r.task, obj |-> q])
           /\ WaitedPromise(r.task)' \subseteq {q}
    BY <2>2, <2>3
  <2> QED BY <1>11, <2>4, <2>5, <2>6, <2>7 DEF RootInv
<1> QED BY <1>5, <1>6, <1>10, <1>11, <1>12 DEF IInv

\* Main gives up the thread at the top of its loop.
LEMMA LoopYieldStep ==
  ASSUME IInv, TypeOK', LoopYield
  PROVE  IInv'
<1> USE DEF Task
<1>1. /\ task[Main] = "running" /\ pc[Main] = "pick" /\ task'[Main] = "runnable"
      /\ \A u \in Task : u # Main => task'[u] = task[u] /\ task[u] # "running"
  BY DEF IInv, SchedInv, LoopYield, Looping, Pick, Running, TypeOK
<1>2. /\ UNCHANGED <<pc, pstate, awaitReg, awaiting, act, suspended, temps, scriptDone>>
      /\ scriptDone
  BY DEF LoopYield, Looping, promiseVars, ctxVars
<1>3. SchedInv'
  BY <1>1, <1>2 DEF IInv, SchedInv, Running
<1>4. AwaitInv'
  BY <1>1, <1>2, AwaitFrame, ConstantsAssumption DEF IInv
<1>5. CreatorInv'
  BY <1>1, <1>2, CreatorFrame DEF IInv
<1>6. CtxInv'
  BY <1>2, CtxFrame DEF IInv
<1>7. RootInv'
  <2>1. \A r \in suspended' : r.task # Main => \E p \in Promise :
           /\ r.ctx.temps = Append(Base(r.task)', [by |-> r.task, obj |-> p])
           /\ WaitedPromise(r.task)' \subseteq {p}
    BY <1>2, SavedRootsFrame DEF IInv
  <2>2. \A r \in suspended' : r.task # Main
    BY <1>1, <1>2 DEF IInv, CtxInv
  <2>3. \A u \in Task : ~Running(u)'
    BY <1>1 DEF Running
  <2>4. awaiting'[Main] = NoPromise /\ temps' = <<>>
    BY <1>1, <1>2 DEF IInv, RootInv, Base, Running
  <2> QED BY <2>1, <2>2, <2>3, <2>4 DEF RootInv
<1> QED BY <1>3, <1>4, <1>5, <1>6, <1>7 DEF IInv

\* The scheduler starts a body or lets Main go on: nothing is restored.
LEMMA PlainDispatchStep ==
  ASSUME IInv, TypeOK', NEW t \in Task, NEW where \in {"start", "pick"}, Dispatch(t, where),
         \E to \in {"code", "drain"} : pc' = [pc EXCEPT ![t] = to],
         UNCHANGED <<pstate, awaitReg, awaiting, act, suspended, temps, scriptDone>>
  PROVE  IInv'
<1> USE DEF Task
<1>1. /\ task[t] = "runnable" /\ pc[t] = where /\ task'[t] = "running"
      /\ pc'[t] \in {"code", "drain"}
      /\ \A u \in Task : u # t => task'[u] = task[u] /\ pc'[u] = pc[u]
      /\ \A u \in Task : task[u] # "running"
  BY DEF Dispatch, Idle, IInv, TypeOK
<1>2. SchedInv'
  BY <1>1 DEF IInv, SchedInv, Running
<1>3. AwaitInv'
  BY <1>1, AwaitFrame DEF IInv
<1>4. CreatorInv'
  BY <1>1, CreatorFrame DEF IInv
<1>5. CtxInv'
  BY <1>1, CtxFrame DEF IInv
<1>6. RootInv'
  <2>1. \A r \in suspended' : r.task # t => \E p \in Promise :
           /\ r.ctx.temps = Append(Base(r.task)', [by |-> r.task, obj |-> p])
           /\ WaitedPromise(r.task)' \subseteq {p}
    <3>1. TypeOK /\ RootInv
      BY DEF IInv
    <3>2. \A u \in Task \ {t} : pc'[u] = pc[u] /\ awaiting'[u] = awaiting[u]
      BY <1>1
    <3> QED BY <3>1, <3>2, SavedRootsFrame
  <2>2. \A r \in suspended' : r.task # t
    BY <1>1 DEF IInv, CtxInv
  <2>3. temps' = <<>> /\ Base(t)' = <<>>
    BY <1>1 DEF IInv, RootInv, Base, Idle, SchedInv
  <2>4. /\ \A u \in Task : Running(u)' => u = t
        /\ ~Idle'
    BY <1>1 DEF Running, Idle
  <2>5. task'[Main] = "runnable" /\ pc'[Main] = "pick" => awaiting'[Main] = NoPromise
    BY <1>1 DEF IInv, RootInv
  <2>6. scriptDone' => awaiting'[Main] = NoPromise
    BY DEF IInv, RootInv
  <2> QED BY <2>1, <2>2, <2>3, <2>4, <2>5, <2>6 DEF RootInv
<1> QED BY <1>2, <1>3, <1>4, <1>5, <1>6 DEF IInv

\* popTemp undoes pushTemp.
LEMMA PopPush ==
  ASSUME NEW S, NEW stack \in Seq(S), NEW e \in S
  PROVE  PopTemp(Append(stack, e)) = stack
BY AppendProperties, SubSeqProperties DEF PopTemp

\* The scheduler resumes a suspended task, which takes its own context back.
LEMMA ContextDispatchStep ==
  ASSUME IInv, TypeOK', NEW t \in Task, NEW where \in {"spawning", "awaiting"},
         Dispatch(t, where), ResumeCtx(t), pc' = [pc EXCEPT ![t] = "code"],
         \A u \in Task : u # t \/ where = "spawning" => awaiting'[u] = awaiting[u],
         UNCHANGED <<pstate, awaitReg, act, scriptDone>>
  PROVE  IInv'
<1> USE DEF Task
<1>1. /\ task[t] = "runnable" /\ pc[t] = where /\ task'[t] = "running" /\ pc'[t] = "code"
      /\ \A u \in Task : u # t => task'[u] = task[u] /\ pc'[u] = pc[u]
      /\ \A u \in Task : task[u] # "running"
  BY DEF Dispatch, Idle, IInv, TypeOK
<1>2. PICK back \in suspended : /\ back.task = t
                                /\ suspended' = suspended \ {back}
                                /\ temps' = PopTemp(back.ctx.temps)
  BY DEF ResumeCtx
<1>3. \A r \in suspended : r.task = t => r = back
  BY <1>2 DEF IInv, CtxInv
<1>4. where = "awaiting" => t \in Acts /\ t # Main
  BY <1>1, ConstantsAssumption DEF IInv, SchedInv
<1>5. SchedInv'
  BY <1>1 DEF IInv, SchedInv, Running
<1>6. AwaitInv'
  <2>1. \A r \in awaitReg : r.task \in Acts /\ r.task # t
    <3>1. \A r \in awaitReg : r.task \in Acts
      BY DEF IInv, TypeOK
    <3>2. \A r \in awaitReg : task[r.task] = "parked"
      BY <3>1 DEF IInv, AwaitInv, Settled
    <3> QED BY <1>1, <3>1, <3>2
  <2> QED BY <1>1, <2>1 DEF IInv, AwaitInv
<1>7. CreatorInv'
  BY <1>1, CreatorFrame DEF IInv
<1>8. CtxInv'
  BY <1>1, <1>2, <1>3 DEF IInv, CtxInv, TypeOK
<1>9. RootInv'
  <2>1. \A r \in suspended' : r.task # t => \E p \in Promise :
           /\ r.ctx.temps = Append(Base(r.task)', [by |-> r.task, obj |-> p])
           /\ WaitedPromise(r.task)' \subseteq {p}
    BY <1>1, <1>2, SavedRootsFrame DEF IInv
  <2>2. \A r \in suspended' : r.task # t
    BY <1>2, <1>3
  <2>3. temps' = Base(t)'
    <3>1. PICK p \in Promise : back.ctx.temps = Append(Base(t), [by |-> t, obj |-> p])
      BY <1>2 DEF IInv, RootInv
    <3>2. Base(t)' = Base(t)
      BY <1>4, ConstantsAssumption DEF Base
    <3>3. Base(t) \in Seq(TempRow) /\ [by |-> t, obj |-> p] \in TempRow
      <4>1. awaiting[Main] \in Promise \cup {NoPromise}
        BY DEF IInv, TypeOK
      <4>2. <<>> \in Seq(TempRow)
        OBVIOUS
      <4>3. [by |-> t, obj |-> p] \in TempRow
        BY DEF TempRow
      <4>4. awaiting[Main] # NoPromise =>
              <<[by |-> Main, obj |-> awaiting[Main]]>> \in Seq(TempRow)
        BY <4>1 DEF TempRow
      <4> QED BY <4>2, <4>3, <4>4 DEF Base
    <3> QED BY <1>2, <3>1, <3>2, <3>3, PopPush
  <2>4. /\ \A u \in Task : Running(u)' => u = t
        /\ ~Idle'
    BY <1>1 DEF Running, Idle
  <2>5. task'[Main] = "runnable" /\ pc'[Main] = "pick" => awaiting'[Main] = NoPromise
    BY <1>1 DEF IInv, RootInv
  <2>6. scriptDone' => awaiting'[Main] = NoPromise
    BY <1>4 DEF IInv, RootInv
  <2> QED BY <2>1, <2>2, <2>3, <2>4, <2>5, <2>6 DEF RootInv
<1> QED BY <1>5, <1>6, <1>7, <1>8, <1>9 DEF IInv

\* Every step of program code preserves the invariant.
LEMMA CodeStepInv ==
  ASSUME IInv, BornInv, TypeOK', NEW t \in Task, CodeStep(t)
  PROVE  IInv'
<1>1. ASSUME NEW e \in Ext, NEW b \in BOOLEAN, NewPromise(t, e, b)
      PROVE  IInv'
  <2>1. /\ Running(t) /\ pc[t] = "code" /\ task' = task /\ pc' = pc
        /\ pstate[e] = "none" /\ pstate' = [pstate EXCEPT ![e] = "pending"]
        /\ UNCHANGED <<awaitReg, act, suspended, awaiting, temps, scriptDone>>
    BY <1>1 DEF NewPromise, Code, ctxVars
  <2>2. \E where \in {"code", "tick", "drain", "pick", "exited", "failed"} :
          pc' = [pc EXCEPT ![t] = where] /\ (where = "pick" => t = Main)
    BY <2>1 DEF IInv, TypeOK
  <2>3. \A p \in Promise : pstate[p] # "none" => pstate'[p] = pstate[p]
    BY <2>1 DEF IInv, TypeOK
  <2>4. temps' = Base(t)' /\ (scriptDone' => awaiting'[Main] = NoPromise)
    BY <2>1 DEF IInv, RootInv, Base
  <2> QED BY <2>1, <2>2, <2>3, <2>4, QuietStep
<1>2. ASSUME NEW e \in Ext, NEW s \in Settled, Resolve(t, e, s)
      PROVE  IInv'
  <2>1. /\ Running(t) /\ e \in Promise /\ Settle(e, s, microtasks) /\ task' = Unpark(WokenBy(e), task)
        /\ UNCHANGED <<act, suspended, awaiting, temps, scriptDone>>
    BY <1>2 DEF Resolve, Code, ctxVars, Promise
  <2>2. \E where \in {"code", "tick", "drain"} : pc' = [pc EXCEPT ![t] = where]
    BY <1>2 DEF Resolve, Code, IInv, TypeOK
  <2> QED BY <2>1, <2>2, SettlingStep
<1>3. ASSUME NEW a \in Acts, CallAsync(t, a)
      PROVE  IInv'
  BY <1>3, CallAsyncStep
<1> QED BY <1>1, <1>2, <1>3 DEF CodeStep

\* Every job preserves the invariant, whoever runs it.
LEMMA RunJobInv ==
  ASSUME IInv, TypeOK', NEW t \in Task, Running(t), microtasks # <<>>, RunJob,
         pc[t] \in {"tick", "drain"}, pc' = pc,
         UNCHANGED <<act, suspended, awaiting, temps, scriptDone>>
  PROVE  IInv'
<1>1. Head(microtasks).derived \in Promise /\ Head(microtasks).state \in Settled
  <2>1. Head(microtasks) \in Job
    BY HeadTailProperties DEF IInv, TypeOK
  <2> QED BY <2>1 DEF Job
<1>2. \E where \in {"code", "tick", "drain"} : pc' = [pc EXCEPT ![t] = where]
  BY DEF IInv, TypeOK
<1> QED BY <1>1, <1>2, SettlingStep DEF RunJob

\* Every step of an activation preserves the invariant.
LEMMA ActStepInv ==
  ASSUME IInv, BornInv, TypeOK', NEW a \in Acts, ActStep(a)
  PROVE  IInv'
<1> USE DEF Task
<1>1. CASE CodeStep(a)
  BY <1>1, CodeStepInv
<1>2. ASSUME NEW p \in Promise, AwaitPending(a, p)
      PROVE  IInv'
  BY <1>2, AwaitPendingStep
<1>3. CASE (\E p \in Promise : AwaitSettled(a, p)) \/ TickDone(a)
  <2>1. /\ Running(a) /\ task' = task
        /\ pc' = [pc EXCEPT ![a] = "tick"] \/ pc' = [pc EXCEPT ![a] = "code"]
        /\ UNCHANGED <<pstate, awaitReg, act, suspended, awaiting, temps, scriptDone>>
    BY <1>3 DEF AwaitSettled, TickDone, Ticking, Code, promiseVars, ctxVars
  <2>2. temps' = Base(a)' /\ (scriptDone' => awaiting'[Main] = NoPromise)
    BY <2>1 DEF IInv, RootInv, Base
  <2> QED BY <2>1, <2>2, QuietStep
<1>4. ASSUME NEW s \in Settled, Settle(a, s, microtasks), Code(a), EndBody(a, WokenBy(a))
      PROVE  IInv'
  <2>1. \A u \in WokenBy(a) : u \in Acts /\ pc[u] = "awaiting" /\ task[u] = "parked"
    BY <1>4, SettleFacts DEF IInv, Promise
  <2>2. AwaitInv'
    <3>1. /\ pc[a] = "code" /\ pc'[a] = "ended" /\ awaiting' = awaiting
          /\ \A u \in Acts : u # a => pc'[u] = pc[u]
      BY <1>4 DEF EndBody, Code, IInv, TypeOK
    <3>2. \A u \in Acts : pc[u] = "awaiting" => u \notin ToRelease(a)
      BY DEF ToRelease, IInv, CreatorInv
    <3>3. \A u \in Acts : pc[u] = "awaiting" =>
            task'[u] = IF u \in WokenBy(a) /\ task[u] = "parked" THEN "runnable" ELSE task[u]
      BY <1>4, <3>1, <3>2, UnparkFacts DEF EndBody, IInv
    <3> QED BY <1>4, <3>1, <3>3, AwaitSettleStep DEF IInv, Promise
  <2> QED BY <1>4, <2>1, <2>2, EndBodyStep
<1>5. CASE \E s \in Settled : ReturnValue(a, s)
  BY <1>4, <1>5 DEF ReturnValue
<1>6. CASE \E q \in Promise : ReturnSettled(a, q)
  BY <1>4, <1>6 DEF ReturnSettled
<1>7. ASSUME NEW q \in Promise, ReturnPending(a, q)
      PROVE  IInv'
  <2>1. /\ pc[a] = "code" /\ pc'[a] = "ended" /\ Code(a) /\ EndBody(a, {})
        /\ UNCHANGED <<awaiting, awaitReg, pstate>>
        /\ \A u \in Acts : u # a => pc'[u] = pc[u]
    BY <1>7 DEF ReturnPending, EndBody, Code, IInv, TypeOK
  <2>2. \A u \in Acts : pc[u] = "awaiting" => u \notin ToRelease(a)
    BY DEF ToRelease, IInv, CreatorInv
  <2>3. \A u \in Acts : pc[u] = "awaiting" => task'[u] = task[u]
    BY <2>1, <2>2, UnparkFacts DEF EndBody, IInv
  <2>4. AwaitInv'
    BY <2>1, <2>3, AwaitFrame DEF IInv
  <2> QED BY <2>1, <2>4, EndBodyStep
<1>8. CASE TickJob(a)
  BY <1>8, RunJobInv DEF TickJob, Ticking, ctxVars
<1> QED BY <1>1, <1>2, <1>3, <1>5, <1>6, <1>7, <1>8 DEF ActStep

\* Every step of the main task preserves the invariant.
LEMMA MainStepInv ==
  ASSUME IInv, BornInv, TypeOK', MainStep
  PROVE  IInv'
<1> USE DEF Task
<1>1. CASE CodeStep(Main)
  BY <1>1, CodeStepInv
<1>2. CASE \/ \E b \in BOOLEAN : EndScript(b)
           \/ EndCallback \/ DrainDone \/ LoopExit \/ AwaitDrainJobs
           \/ \E e \in Ext, s \in Settled : FireTimer(e, s) /\ throwing
  <2>1. /\ Running(Main) /\ task' = task
        /\ \E where \in {"code", "drain", "pick", "exited", "failed"} : pc' = [pc EXCEPT ![Main] = where]
        /\ UNCHANGED <<pstate, awaitReg, act, suspended, awaiting, temps>>
    BY <1>2 DEF EndScript, EndCallback, DrainDone, LoopExit, AwaitDrainJobs, FireTimer,
                Code, Looping, Draining, Pick, promiseVars, ctxVars
  <2>2. scriptDone' => awaiting'[Main] = NoPromise
    BY <1>2 DEF EndScript, EndCallback, DrainDone, LoopExit, AwaitDrainJobs, FireTimer,
                InScript, IInv, RootInv
  <2>3. temps' = Base(Main)'
    BY <2>1 DEF IInv, RootInv, Base
  <2> QED BY <2>1, <2>2, <2>3, QuietStep
<1>3. ASSUME NEW p \in Promise, MainAwait(p)
      PROVE  IInv'
  <2>1. /\ Running(Main) /\ task' = task /\ awaiting[Main] = NoPromise /\ pc[Main] = "code"
        /\ UNCHANGED <<pstate, awaitReg, act, suspended, scriptDone>> /\ ~scriptDone
    BY <1>3 DEF MainAwait, Code, InScript, promiseVars
  <2>2. temps = <<>>
    BY <2>1 DEF IInv, RootInv, Base
  <2>3. CASE pstate[p] = "pending"
    <3>1. /\ awaiting' = [awaiting EXCEPT ![Main] = p]
          /\ temps' = Push(Main, p)
          /\ pc' = [pc EXCEPT ![Main] = "pick"]
      BY <1>3, <2>3 DEF MainAwait
    <3>2. awaiting'[Main] = p /\ \A u \in Task : u # Main => awaiting'[u] = awaiting[u]
      BY <3>1 DEF IInv, TypeOK
    <3>3. temps' = Base(Main)'
      BY <2>2, <3>1, <3>2, ConstantsAssumption DEF Push, Base
    <3> QED BY <2>1, <3>1, <3>2, <3>3, QuietStep
  <2>4. CASE pstate[p] # "pending"
    <3>1. UNCHANGED <<awaiting, temps, pc>>
      BY <1>3, <2>4 DEF MainAwait
    <3>2. pc' = [pc EXCEPT ![Main] = "code"]
      BY <2>1, <3>1 DEF IInv, TypeOK
    <3>3. temps' = Base(Main)'
      BY <2>1, <2>2, <3>1 DEF Base
    <3> QED BY <2>1, <3>1, <3>2, <3>3, QuietStep
  <2> QED BY <2>3, <2>4
<1>4. CASE DrainJob
  BY <1>4, RunJobInv DEF DrainJob, ctxVars
<1>5. CASE LoopYield
  BY <1>5, LoopYieldStep
<1>6. CASE AwaitDone \/ AwaitGivesUp
  <2>1. LeaveMainAwait /\ Running(Main) /\ ~scriptDone
    BY <1>6 DEF AwaitDone, AwaitGivesUp, Draining, Pick
  <2>2. /\ task' = task /\ pc' = [pc EXCEPT ![Main] = "code"] /\ temps' = PopTemp(temps)
        /\ awaiting' = [awaiting EXCEPT ![Main] = NoPromise]
        /\ UNCHANGED <<pstate, awaitReg, act, suspended, scriptDone>>
    BY <2>1 DEF LeaveMainAwait, promiseVars
  <2>3. awaiting'[Main] = NoPromise /\ \A u \in Task : u # Main => awaiting'[u] = awaiting[u]
    BY <2>2 DEF IInv, TypeOK
  <2>4. PopTemp(temps) = <<>>
    <3>1. temps = <<>> \/ temps = <<[by |-> Main, obj |-> awaiting[Main]]>>
      BY <2>1 DEF IInv, RootInv, Base
    <3>2. PopTemp(<<>>) = <<>>
      BY DEF PopTemp
    <3>3. PopTemp(<<[by |-> Main, obj |-> awaiting[Main]]>>) = <<>>
      BY DEF PopTemp
    <3> QED BY <3>1, <3>2, <3>3
  <2>5. temps' = Base(Main)'
    BY <2>2, <2>3, <2>4 DEF Base
  <2> QED BY <2>1, <2>2, <2>3, <2>5, QuietStep
<1>7. ASSUME NEW e \in Ext, NEW s \in Settled, FireTimer(e, s), ~throwing
      PROVE  IInv'
  <2>1. /\ Running(Main) /\ e \in Promise /\ Settle(e, s, microtasks) /\ task' = Unpark(WokenBy(e), task)
        /\ pc' = [pc EXCEPT ![Main] = "code"]
        /\ UNCHANGED <<act, suspended, awaiting, temps, scriptDone>>
    BY <1>7 DEF FireTimer, Looping, Draining, Pick, Promise, ctxVars
  <2> QED BY <2>1, SettlingStep
<1> QED BY <1>1, <1>2, <1>3, <1>4, <1>5, <1>6, <1>7 DEF MainStep

\* Every switch to another task preserves the invariant.
LEMMA ResumeInv ==
  ASSUME IInv, TypeOK', NEW t \in Task, Resume(t)
  PROVE  IInv'
<1>1. CASE t \in Acts /\ StartBody(t)
  BY <1>1, PlainDispatchStep DEF StartBody, promiseVars, ctxVars
<1>2. CASE t \in Acts /\ ResumeAwait(t)
  <2>1. pc[t] = "awaiting" /\ task[t] = "runnable"
    BY <1>2 DEF ResumeAwait, Dispatch
  <2>2. pstate[awaiting[t]] \in Settled
    BY <1>2, <2>1 DEF IInv, AwaitInv
  <2>3. /\ Dispatch(t, "awaiting") /\ ResumeCtx(t) /\ pc' = [pc EXCEPT ![t] = "code"]
        /\ UNCHANGED <<pstate, awaitReg, act, scriptDone>>
        /\ \A u \in Task : u # t => awaiting'[u] = awaiting[u]
    BY <1>2, <2>2 DEF ResumeAwait, promiseVars, IInv, TypeOK
  <2> QED BY <2>3, ContextDispatchStep
<1>3. CASE ResumeCreator(t)
  BY <1>3, ContextDispatchStep DEF ResumeCreator, promiseVars
<1>4. CASE t = Main /\ ResumeLoop
  BY <1>4, PlainDispatchStep DEF ResumeLoop, promiseVars, ctxVars
<1> QED BY <1>1, <1>2, <1>3, <1>4 DEF Resume

\* An activation's promise appears with the activation, and settling a promise
\* brings none into being.
LEMMA BornStep ==
  ASSUME TypeOK, BornInv, [Next]_vars
  PROVE  BornInv'
<1> USE DEF Task, Promise
<1>1. ASSUME NEW p, NEW s, NEW queue, Settle(p, s, queue),
             \A a \in Acts : pc'[a] = "unborn" => pc[a] = "unborn"
      PROVE  BornInv'
  BY <1>1 DEF Settle, BornInv, TypeOK
<1>2. ASSUME pstate' = pstate, \A a \in Acts : pc'[a] = "unborn" => pc[a] = "unborn"
      PROVE  BornInv'
  BY <1>2 DEF BornInv
<1>3. pc \in [Task -> {"unborn", "start", "code", "tick", "spawning", "awaiting",
                      "stranded", "ended", "drain", "pick", "exited", "failed"}]
  BY DEF TypeOK
<1>4. ASSUME NEW t \in Task, CodeStep(t)
      PROVE  BornInv'
  <2>1. CASE \E e \in Ext, b \in BOOLEAN : NewPromise(t, e, b)
    BY <2>1, ConstantsAssumption DEF NewPromise, BornInv, TypeOK
  <2>2. CASE \E e \in Ext, s \in Settled : Resolve(t, e, s)
    BY <1>1, <2>2 DEF Resolve
  <2>3. CASE \E a \in Acts : CallAsync(t, a)
    BY <2>3 DEF CallAsync, BornInv, TypeOK
  <2> QED BY <1>4, <2>1, <2>2, <2>3 DEF CodeStep
<1>5. ASSUME NEW a \in Acts, ActStep(a)
      PROVE  BornInv'
  <2>1. CASE CodeStep(a)
    BY <1>4, <2>1
  <2>2. CASE (\E p \in Promise : AwaitPending(a, p) \/ AwaitSettled(a, p)) \/ TickDone(a)
    <3>1. \A b \in Acts : pc'[b] = "unborn" => pc[b] = "unborn"
      BY <1>3, <2>2 DEF AwaitPending, AwaitSettled, TickDone
    <3>2. pstate' = pstate
      BY <2>2 DEF AwaitPending, AwaitSettled, TickDone, promiseVars
    <3> QED BY <1>2, <3>1, <3>2
  <2>3. CASE (\E s \in Settled : ReturnValue(a, s)) \/ (\E q \in Promise : ReturnSettled(a, q))
    <3>1. \A b \in Acts : pc'[b] = "unborn" => pc[b] = "unborn"
      BY <1>3, <2>3 DEF ReturnValue, ReturnSettled, EndBody
    <3> QED BY <1>1, <2>3, <3>1 DEF ReturnValue, ReturnSettled
  <2>4. CASE \E q \in Promise : ReturnPending(a, q)
    BY <1>2, <1>3, <2>4 DEF ReturnPending, EndBody
  <2>5. CASE TickJob(a)
    BY <1>1, <2>5 DEF TickJob, RunJob
  <2> QED BY <1>5, <2>1, <2>2, <2>3, <2>4, <2>5 DEF ActStep
<1>6. ASSUME MainStep
      PROVE  BornInv'
  <2>1. CASE CodeStep(Main)
    BY <1>4, <2>1
  <2>2. CASE \/ \E p \in Promise : MainAwait(p)
             \/ \E b \in BOOLEAN : EndScript(b)
             \/ EndCallback \/ DrainDone \/ LoopExit \/ LoopYield \/ AwaitDrainJobs \/ AwaitDone \/ AwaitGivesUp
    <3>1. \A b \in Acts : pc'[b] = "unborn" => pc[b] = "unborn"
      BY <1>3, <2>2 DEF MainAwait, EndScript, EndCallback, DrainDone, LoopExit, LoopYield, AwaitDrainJobs,
                          AwaitDone, AwaitGivesUp, LeaveMainAwait
    <3>2. pstate' = pstate
      BY <2>2 DEF MainAwait, EndScript, EndCallback, DrainDone, LoopExit, LoopYield, AwaitDrainJobs,
                          AwaitDone, AwaitGivesUp, LeaveMainAwait, promiseVars
    <3> QED BY <1>2, <3>1, <3>2
  <2>3. CASE DrainJob
    BY <1>1, <2>3 DEF DrainJob, RunJob
  <2>4. ASSUME NEW e \in Ext, NEW s \in Settled, FireTimer(e, s)
        PROVE  BornInv'
    <3>1. \A b \in Acts : pc'[b] = "unborn" => pc[b] = "unborn"
      BY <1>3, <2>4 DEF FireTimer
    <3> QED BY <1>1, <1>2, <2>4, <3>1 DEF FireTimer, promiseVars
  <2> QED BY <1>6, <2>1, <2>2, <2>3, <2>4 DEF MainStep
<1>7. ASSUME NEW t \in Task, Resume(t)
      PROVE  BornInv'
  <2>1. \A b \in Acts : pc'[b] = "unborn" => pc[b] = "unborn"
    BY <1>3, <1>7 DEF Resume, StartBody, ResumeAwait, ResumeCreator, ResumeLoop
  <2>2. pstate' = pstate
    BY <1>7 DEF Resume, StartBody, ResumeAwait, ResumeCreator, ResumeLoop, promiseVars
  <2> QED BY <1>2, <2>1, <2>2
<1>8. CASE UNCHANGED vars \/ Terminated
  BY <1>2, <1>8 DEF Terminated, vars
<1> QED BY <1>5, <1>6, <1>7, <1>8 DEF Next

\* The invariant holds of every reachable state.
THEOREM Invariance == Spec => [](IInv /\ BornInv)
<1>1. Init => IInv /\ BornInv
  <2> SUFFICES ASSUME Init
               PROVE  SchedInv /\ AwaitInv /\ CreatorInv /\ CtxInv /\ RootInv /\ BornInv /\ TypeOK
    BY DEF IInv
  <2> USE ConstantsAssumption DEF Init, Task
  <2>1. SchedInv /\ BornInv
    BY DEF SchedInv, BornInv, Running, Promise
  <2>2. AwaitInv /\ CreatorInv /\ CtxInv
    BY DEF AwaitInv, CreatorInv, CtxInv
  <2>3. RootInv
    BY DEF RootInv, Base, Running, Idle
  <2>4. TypeOK
    BY InitType
  <2> QED BY <2>1, <2>2, <2>3, <2>4
<1>2. IInv /\ BornInv /\ [Next]_vars => (IInv /\ BornInv)'
  <2> SUFFICES ASSUME IInv, BornInv, [Next]_vars
               PROVE  IInv' /\ BornInv'
    OBVIOUS
  <2>1. TypeOK'
    BY NextType DEF IInv
  <2>2. BornInv'
    BY BornStep DEF IInv
  <2>3. CASE UNCHANGED vars \/ Terminated
    <3>1. UNCHANGED vars
      BY <2>3 DEF Terminated
    <3>2. SchedInv' /\ AwaitInv'
      BY <3>1 DEF IInv, vars, SchedInv, AwaitInv, Running
    <3>3. CreatorInv' /\ CtxInv'
      BY <3>1 DEF IInv, vars, CreatorInv, CtxInv
    <3>4. RootInv'
      BY <3>1 DEF IInv, vars, RootInv, Base, Running, Idle, WaitedPromise
    <3> QED BY <2>1, <2>2, <3>2, <3>3, <3>4 DEF IInv
  <2> QED BY <2>1, <2>2, <2>3, MainStepInv, ActStepInv, ResumeInv DEF Next
<1> QED BY <1>1, <1>2, PTL DEF Spec

-----------------------------------------------------------------------------
(* What follows from it *)

\* No wake-up is lost and none is spurious (settlePromise, wakeAwaiters): an
\* awaiter is registered and parked exactly while its promise is pending.
THEOREM AwaitersWake == Spec => []AwaitersWakeOnSettle
<1>1. IInv => AwaitersWakeOnSettle
  <2> SUFFICES ASSUME IInv, NEW a \in Acts, pc[a] = "awaiting"
               PROVE  LET rows == {r \in awaitReg : r.task = a} IN
                      IF pstate[awaiting[a]] = "pending"
                      THEN task[a] = "parked" /\ rows = {[promise |-> awaiting[a], task |-> a]}
                      ELSE task[a] # "parked" /\ rows = {}
    BY DEF AwaitersWakeOnSettle
  <2>1. \A r \in awaitReg : r \in [promise : Promise, task : Acts]
    BY DEF IInv, TypeOK
  <2>2. \A r \in awaitReg : r.task = a => r = [promise |-> awaiting[a], task |-> a]
    BY <2>1 DEF IInv, AwaitInv
  <2>3. \A r \in awaitReg : r.task = a => pstate[awaiting[a]] = "pending"
    BY DEF IInv, AwaitInv
  <2>4. CASE pstate[awaiting[a]] = "pending"
    <3>1. task[a] = "parked" /\ [promise |-> awaiting[a], task |-> a] \in awaitReg
      BY <2>4 DEF IInv, AwaitInv, Settled
    <3> QED BY <2>2, <2>4, <3>1
  <2>5. CASE pstate[awaiting[a]] # "pending"
    BY <2>3, <2>5 DEF IInv, AwaitInv
  <2> QED BY <2>4, <2>5
<1> QED BY <1>1, Invariance, PTL

\* releaseCreatorOnce: a caller is owed a release exactly while it is parked in
\* the call, by one activation.
THEOREM CreatorReleasedOnce == Spec => []CreatorParkedUntilNotified
<1>1. IInv => CreatorParkedUntilNotified
  BY DEF IInv, CreatorInv, CreatorParkedUntilNotified
<1> QED BY <1>1, Invariance, PTL

\* parkOnPromise is left only when the promise has settled, so no activation
\* runs the drain meant for the main task.
THEOREM NoneStranded == Spec => []NeverStranded
<1>1. IInv => NeverStranded
  BY DEF IInv, SchedInv, NeverStranded, Task
<1> QED BY <1>1, Invariance, PTL

\* resumeExecCtx finds one context and it is the task's own.
THEOREM ContextsPairUp == Spec => []OneContext
<1>1. IInv => OneContext
  BY DEF IInv, CtxInv, OneContext
<1> QED BY <1>1, Invariance, PTL

\* R6: tempRoots of the running task hold nothing another task pushed.
THEOREM RootsNotAmbient == Spec => []OwnRoots
<1>1. IInv => OwnRoots
  BY DEF IInv, RootInv, OwnRoots, Base
<1> QED BY <1>1, Invariance, PTL

\* R7: the promise a suspended task waits for is rooted by its saved context.
THEOREM WaitedPromiseRooted == Spec => []RootedWhileSuspended
<1>1. IInv => RootedWhileSuspended
  <2> SUFFICES ASSUME IInv, NEW row \in suspended, NEW p \in WaitedPromise(row.task)
               PROVE  \E i \in DOMAIN row.ctx.temps : row.ctx.temps[i] = [by |-> row.task, obj |-> p]
    BY DEF RootedWhileSuspended
  <2>1. row.ctx.temps = Append(Base(row.task), [by |-> row.task, obj |-> p])
    BY DEF IInv, RootInv
  <2>2. Base(row.task) = <<>> \/ Base(row.task) = <<[by |-> Main, obj |-> awaiting[Main]]>>
    BY DEF Base
  <2> QED BY <2>1, <2>2
<1> QED BY <1>1, Invariance, PTL

-----------------------------------------------------------------------------
(* An activation that ended still owes its promise a settlement.  This property
   is inductive as it stands, given the types. *)

\* Something will settle p: a pending promise it follows, or a job in `queue`.
Owed(p, state, followers, queue) ==
  \/ \E q \in Promise : state[q] = "pending" /\ \E i \in DOMAIN followers[q] : followers[q][i] = p
  \/ \E i \in DOMAIN queue : queue[i].derived = p

\* settlePromise turns the followers of the promise into jobs and drops none.
LEMMA SettleKeepsOwed ==
  ASSUME TypeOK, NEW p \in Promise, NEW s \in Settled, NEW queue \in Seq(Job),
         Settle(p, s, queue), NEW a \in Acts, pstate'[a] = "pending",
         a = p \/ Owed(a, pstate, reactions, queue)
  PROVE  Owed(a, pstate, reactions, microtasks)'
<1>1. a \in Promise /\ s # "pending"
  BY DEF Promise, Settled
<1>2. CASE pstate[p] # "pending"
  BY <1>1, <1>2 DEF Settle, Owed
<1>3. CASE pstate[p] = "pending"
  <2> DEFINE jobs == [i \in DOMAIN reactions[p] |-> [derived |-> reactions[p][i], state |-> s]]
  <2>1. /\ pstate' = [pstate EXCEPT ![p] = s]
        /\ microtasks' = queue \o jobs
        /\ reactions' = [reactions EXCEPT ![p] = <<>>]
    BY <1>3 DEF Settle
  <2>2. a # p /\ \A q \in Promise \ {p} : pstate'[q] = pstate[q] /\ reactions'[q] = reactions[q]
    BY <1>1, <2>1 DEF TypeOK
  <2>3. reactions[p] \in Seq(Promise)
    BY DEF TypeOK
  <2>4. /\ Len(jobs) = Len(reactions[p]) /\ jobs \in Seq(Job)
        /\ \A i \in DOMAIN reactions[p] : i \in 1..Len(jobs) /\ jobs[i].derived = reactions[p][i]
    <3>1. \A i \in 1..Len(reactions[p]) : [derived |-> reactions[p][i], state |-> s] \in Job
      BY <2>3 DEF Job
    <3> QED BY <2>3, <3>1
  <2> HIDE DEF jobs
  <2>5. CASE \E i \in DOMAIN queue : queue[i].derived = a
    <3>1. PICK i \in DOMAIN queue : queue[i].derived = a
      BY <2>5
    <3>2. i \in DOMAIN microtasks' /\ microtasks'[i] = queue[i]
      BY <2>1, <2>4, ConcatProperties
    <3> QED BY <3>1, <3>2 DEF Owed
  <2>6. CASE \E q \in Promise \ {p} : pstate[q] = "pending" /\ \E i \in DOMAIN reactions[q] : reactions[q][i] = a
    BY <2>2, <2>6 DEF Owed
  <2>7. CASE \E i \in DOMAIN reactions[p] : reactions[p][i] = a
    <3>1. PICK i \in DOMAIN reactions[p] : reactions[p][i] = a
      BY <2>7
    <3>2. Len(queue) + i \in DOMAIN microtasks' /\ microtasks'[Len(queue) + i] = jobs[i]
      BY <2>1, <2>3, <2>4, ConcatProperties
    <3>3. microtasks'[Len(queue) + i].derived = a
      BY <2>4, <3>1, <3>2
    <3> QED BY <3>2, <3>3 DEF Owed
  <2> QED BY <2>2, <2>5, <2>6, <2>7 DEF Owed
<1> QED BY <1>2, <1>3

\* runMicrotask settles the promise whose job it takes off the queue.
LEMMA JobKeepsOwed ==
  ASSUME TypeOK, microtasks # <<>>, RunJob, NEW a \in Acts, pstate'[a] = "pending",
         Owed(a, pstate, reactions, microtasks)
  PROVE  Owed(a, pstate, reactions, microtasks)'
<1> DEFINE p == Head(microtasks).derived
<1>1. /\ Head(microtasks) \in Job /\ Tail(microtasks) \in Seq(Job)
      /\ Head(microtasks) = microtasks[1]
      /\ \A i \in DOMAIN microtasks : i # 1 =>
           i - 1 \in DOMAIN Tail(microtasks) /\ Tail(microtasks)[i - 1] = microtasks[i]
  BY HeadTailProperties DEF TypeOK
<1>2. p \in Promise /\ Head(microtasks).state \in Settled
  BY <1>1 DEF Job
<1>3. a = p \/ Owed(a, pstate, reactions, Tail(microtasks))
  BY <1>1 DEF Owed
<1> QED BY <1>1, <1>2, <1>3, SettleKeepsOwed DEF RunJob

\* R4a: an activation that ended has settled its promise, or the promise follows
\* one that is pending, or the job that settles it is queued.
THEOREM EndedStaysOwed == Spec => []EndedPromiseSettles
<1> DEFINE Ends == \A a \in Acts : pc[a] = "ended" /\ pstate[a] = "pending" =>
                     Owed(a, pstate, reactions, microtasks)
<1>1. Ends <=> EndedPromiseSettles
  BY DEF Owed, EndedPromiseSettles
<1>2. Init => Ends
  BY DEF Init, Task
<1>3. TypeOK /\ Ends /\ [Next]_vars => Ends'
  <2> SUFFICES ASSUME TypeOK, Ends, [Next]_vars,
                      NEW a \in Acts, pc'[a] = "ended", pstate'[a] = "pending"
               PROVE  Owed(a, pstate, reactions, microtasks)'
    OBVIOUS
  <2> USE DEF Task
  <2>1. a \in Promise /\ microtasks \in Seq(Job)
    BY DEF TypeOK, Promise
  <2>2. ASSUME UNCHANGED <<pstate, reactions, microtasks>>, pc[a] = "ended"
        PROVE  Owed(a, pstate, reactions, microtasks)'
    BY <2>2 DEF Owed
  <2>3. ASSUME NEW p \in Promise, NEW s \in Settled, Settle(p, s, microtasks), pc[a] = "ended" \/ a = p
        PROVE  Owed(a, pstate, reactions, microtasks)'
    <3>1. pstate[a] = "pending"
      BY <2>1, <2>3 DEF Settle, TypeOK, Settled
    <3> QED BY <2>1, <2>3, <3>1, SettleKeepsOwed
  <2>4. ASSUME RunJob, microtasks # <<>>, pc[a] = "ended"
        PROVE  Owed(a, pstate, reactions, microtasks)'
    <3>1. Head(microtasks).derived \in Promise /\ Head(microtasks).state \in Settled
      <4>1. Head(microtasks) \in Job
        BY <2>1, <2>4, HeadTailProperties
      <4> QED BY <4>1 DEF Job
    <3>2. pstate[a] = "pending"
      BY <2>1, <2>4, <3>1 DEF RunJob, Settle, TypeOK, Settled
    <3> QED BY <2>4, <3>2, JobKeepsOwed
  <2>5. ASSUME NEW t \in Task, CodeStep(t)
        PROVE  Owed(a, pstate, reactions, microtasks)'
    <3>1. ASSUME NEW e \in Ext, NEW b \in BOOLEAN, NewPromise(t, e, b)
          PROVE  Owed(a, pstate, reactions, microtasks)'
      <4>1. a # e /\ pc[a] = "ended"
        BY <3>1, ConstantsAssumption DEF NewPromise
      <4>2. pstate[a] = "pending" /\ \A q \in Promise : pstate[q] = "pending" => pstate'[q] = "pending"
        BY <2>1, <3>1, <4>1 DEF NewPromise, TypeOK
      <4>3. UNCHANGED <<reactions, microtasks>>
        BY <3>1 DEF NewPromise
      <4> QED BY <4>1, <4>2, <4>3 DEF Owed
    <3>2. CASE \E e \in Ext, s \in Settled : Resolve(t, e, s)
      BY <2>3, <3>2 DEF Resolve, Promise
    <3>3. ASSUME NEW b \in Acts, CallAsync(t, b)
          PROVE  Owed(a, pstate, reactions, microtasks)'
      <4>1. a # b /\ pc[a] = "ended"
        BY <3>3 DEF CallAsync, TypeOK
      <4>2. pstate[a] = "pending" /\ \A q \in Promise : pstate[q] = "pending" => pstate'[q] = "pending"
        BY <2>1, <3>3, <4>1 DEF CallAsync, TypeOK
      <4>3. UNCHANGED <<reactions, microtasks>>
        BY <3>3 DEF CallAsync
      <4> QED BY <4>1, <4>2, <4>3 DEF Owed
    <3> QED BY <2>5, <3>1, <3>2, <3>3 DEF CodeStep
  <2>6. ASSUME NEW b \in Acts, ActStep(b)
        PROVE  Owed(a, pstate, reactions, microtasks)'
    <3>1. CASE CodeStep(b)
      BY <2>5, <3>1
    <3>2. CASE (\E p \in Promise : AwaitPending(b, p) \/ AwaitSettled(b, p)) \/ TickDone(b)
      <4>1. pc[a] = "ended"
        BY <3>2 DEF AwaitPending, AwaitSettled, TickDone, TypeOK
      <4> QED BY <2>2, <3>2, <4>1 DEF AwaitPending, AwaitSettled, TickDone, promiseVars
    <3>3. CASE (\E s \in Settled : ReturnValue(b, s)) \/ (\E q \in Promise : ReturnSettled(b, q))
      <4>1. b \in Promise /\ (pc[a] = "ended" \/ a = b)
        BY <3>3 DEF ReturnValue, ReturnSettled, EndBody, TypeOK, Promise
      <4> QED BY <2>3, <3>3, <4>1 DEF ReturnValue, ReturnSettled
    <3>4. ASSUME NEW q \in Promise, ReturnPending(b, q)
          PROVE  Owed(a, pstate, reactions, microtasks)'
      <4>1. /\ pc[a] = "ended" \/ a = b
            /\ pstate[q] = "pending" /\ UNCHANGED <<pstate, microtasks>>
            /\ reactions' = [reactions EXCEPT ![q] = Append(@, b)]
        BY <3>4 DEF ReturnPending, EndBody, TypeOK
      <4>2. reactions[q] \in Seq(Promise) /\ b \in Promise
        BY DEF TypeOK, Promise
      <4>3. /\ Len(reactions[q]) + 1 \in DOMAIN Append(reactions[q], b)
            /\ Append(reactions[q], b)[Len(reactions[q]) + 1] = b
            /\ \A i \in DOMAIN reactions[q] :
                 i \in DOMAIN Append(reactions[q], b) /\ Append(reactions[q], b)[i] = reactions[q][i]
        BY <4>2, AppendProperties
      <4>4. /\ reactions'[q] = Append(reactions[q], b)
            /\ \A r \in Promise \ {q} : reactions'[r] = reactions[r]
        BY <4>1 DEF TypeOK
      <4>5. CASE a = b
        BY <4>1, <4>3, <4>4, <4>5 DEF Owed
      <4>6. CASE a # b
        <5>1. pc[a] = "ended" /\ pstate[a] = "pending"
          BY <4>1, <4>6
        <5>2. Owed(a, pstate, reactions, microtasks)
          BY <5>1
        <5> QED BY <4>1, <4>3, <4>4, <5>2 DEF Owed
      <4> QED BY <4>5, <4>6
    <3>5. CASE TickJob(b)
      BY <2>4, <3>5 DEF TickJob
    <3> QED BY <2>6, <3>1, <3>2, <3>3, <3>4, <3>5 DEF ActStep
  <2>7. ASSUME MainStep
        PROVE  Owed(a, pstate, reactions, microtasks)'
    <3>1. CASE CodeStep(Main)
      BY <2>5, <3>1
    <3>2. pc[a] = "ended" \/ CodeStep(Main)
      BY <2>7 DEF MainStep, MainAwait, EndScript, EndCallback, DrainJob, DrainDone, LoopYield,
                  LoopExit, AwaitDrainJobs, AwaitDone, AwaitGivesUp, LeaveMainAwait, FireTimer, TypeOK
    <3>3. CASE \/ \E p \in Promise : MainAwait(p)
               \/ \E b \in BOOLEAN : EndScript(b)
               \/ EndCallback \/ DrainDone \/ LoopExit \/ LoopYield \/ AwaitDrainJobs \/ AwaitDone \/ AwaitGivesUp
      <4>1. UNCHANGED <<pstate, reactions, microtasks>>
        BY <3>3 DEF MainAwait, EndScript, EndCallback, DrainDone, LoopExit, LoopYield,
                    AwaitDrainJobs, AwaitDone, AwaitGivesUp, LeaveMainAwait, promiseVars
      <4> QED BY <2>2, <3>1, <3>2, <4>1
    <3>4. CASE DrainJob
      BY <2>4, <3>1, <3>2, <3>4 DEF DrainJob
    <3>5. CASE \E e \in Ext, s \in Settled : FireTimer(e, s)
      BY <2>2, <2>3, <3>1, <3>2, <3>5 DEF FireTimer, promiseVars, Promise
    <3> QED BY <2>7, <3>1, <3>3, <3>4, <3>5 DEF MainStep
  <2>8. ASSUME NEW t \in Task, Resume(t)
        PROVE  Owed(a, pstate, reactions, microtasks)'
    <3>1. pc[a] = "ended"
      BY <2>8 DEF Resume, StartBody, ResumeAwait, ResumeCreator, ResumeLoop, TypeOK
    <3>2. UNCHANGED <<pstate, reactions, microtasks>>
      BY <2>8 DEF Resume, StartBody, ResumeAwait, ResumeCreator, ResumeLoop, promiseVars
    <3> QED BY <2>2, <3>1, <3>2
  <2>9. CASE UNCHANGED vars \/ Terminated
    BY <2>2, <2>9 DEF Terminated, vars
  <2> QED BY <2>6, <2>7, <2>8, <2>9 DEF Next
<1> QED BY <1>1, <1>2, <1>3, TypeCorrect, PTL DEF Spec

-----------------------------------------------------------------------------
(* Refinement of AsyncCalls.  What the mapping needs beyond the invariant: a
   promise that the settlement of another one decides is that of a call that is
   over, and the promise of a call that is not over is pending. *)

Ended == {a \in Acts : pc[a] = "ended"}

\* Everything that follows a promise or has a job is in S.
FollowersIn(S, followers, queue) ==
  /\ \A q \in Promise : \A i \in DOMAIN followers[q] : followers[q][i] \in S
  /\ \A i \in DOMAIN queue : queue[i].derived \in S

OwnInv ==
  /\ \A a \in Acts : pc[a] \notin {"unborn", "ended"} => pstate[a] = "pending"
  /\ FollowersIn(Ended, reactions, microtasks)

\* settlePromise only moves followers into jobs.
LEMMA SettleKeepsFollowers ==
  ASSUME TypeOK, NEW p \in Promise, NEW s \in Settled, NEW queue \in Seq(Job),
         Settle(p, s, queue), NEW S, FollowersIn(S, reactions, queue)
  PROVE  FollowersIn(S, reactions', microtasks')
<1>1. CASE pstate[p] # "pending"
  BY <1>1 DEF Settle, FollowersIn
<1>2. CASE pstate[p] = "pending"
  <2> DEFINE jobs == [i \in DOMAIN reactions[p] |-> [derived |-> reactions[p][i], state |-> s]]
  <2>1. /\ microtasks' = queue \o jobs
        /\ reactions' = [reactions EXCEPT ![p] = <<>>]
    BY <1>2 DEF Settle
  <2>2. reactions \in [Promise -> Seq(Promise)] /\ reactions[p] \in Seq(Promise)
    BY DEF TypeOK
  <2>3. /\ Len(jobs) = Len(reactions[p]) /\ jobs \in Seq(Job)
        /\ \A i \in 1..Len(jobs) : jobs[i].derived \in S
    <3>1. \A i \in 1..Len(reactions[p]) : [derived |-> reactions[p][i], state |-> s] \in Job
      BY <2>2 DEF Job
    <3>2. DOMAIN reactions[p] = 1..Len(reactions[p]) /\ Len(reactions[p]) \in Nat
      BY <2>2
    <3>3. \A i \in DOMAIN reactions[p] : reactions[p][i] \in S
      BY DEF FollowersIn
    <3>4. jobs \in Seq(Job) /\ Len(jobs) = Len(reactions[p])
      BY <3>1, <3>2
    <3> QED BY <3>2, <3>3, <3>4
  <2> HIDE DEF jobs
  <2>4. ASSUME NEW i \in DOMAIN microtasks'
        PROVE  microtasks'[i].derived \in S
    <3>1. i \in 1..(Len(queue) + Len(jobs))
      BY <2>1, <2>3, <2>4, ConcatProperties
    <3>2. CASE i <= Len(queue)
      <4>1. microtasks'[i] = queue[i] /\ i \in DOMAIN queue
        BY <2>1, <2>3, <3>1, <3>2, ConcatProperties
      <4> QED BY <4>1 DEF FollowersIn
    <3>3. CASE i > Len(queue)
      <4>1. microtasks'[i] = jobs[i - Len(queue)] /\ i - Len(queue) \in 1..Len(jobs)
        BY <2>1, <2>3, <3>1, <3>3, ConcatProperties
      <4> QED BY <2>3, <4>1
    <3> QED BY <3>1, <3>2, <3>3
  <2>5. \A q \in Promise : \A i \in DOMAIN reactions'[q] : reactions'[q][i] \in S
    BY <2>1, <2>2 DEF FollowersIn
  <2> QED BY <2>4, <2>5 DEF FollowersIn
<1> QED BY <1>1, <1>2

\* The job that runs leaves the queue; the promise it settles was in S.
LEMMA JobKeepsFollowers ==
  ASSUME TypeOK, microtasks # <<>>, RunJob, NEW S, FollowersIn(S, reactions, microtasks)
  PROVE  /\ FollowersIn(S, reactions', microtasks')
         /\ Head(microtasks).derived \in S \cap Promise
         /\ Head(microtasks).state \in Settled
<1>1. /\ Head(microtasks) \in Job /\ Tail(microtasks) \in Seq(Job)
      /\ Head(microtasks) = microtasks[1] /\ 1 \in DOMAIN microtasks
      /\ \A i \in DOMAIN Tail(microtasks) :
           i + 1 \in DOMAIN microtasks /\ Tail(microtasks)[i] = microtasks[i + 1]
  BY HeadTailProperties DEF TypeOK
<1>2. /\ Head(microtasks).derived \in Promise /\ Head(microtasks).state \in Settled
      /\ Head(microtasks).derived \in S
  BY <1>1 DEF Job, FollowersIn
<1>3. FollowersIn(S, reactions, Tail(microtasks))
  BY <1>1 DEF FollowersIn
<1> QED BY <1>2, <1>3, <1>1, SettleKeepsFollowers DEF RunJob

LEMMA FollowersGrow ==
  ASSUME NEW S, NEW T, S \subseteq T, NEW followers, NEW queue, FollowersIn(S, followers, queue)
  PROVE  FollowersIn(T, followers, queue)
BY DEF FollowersIn

\* Only a call that ends comes to follow a promise, and only its end or a job of
\* its own settles the promise of a call.
LEMMA OwnStep ==
  ASSUME TypeOK, BornInv, OwnInv, [Next]_vars
  PROVE  OwnInv'
<1> USE DEF Task, Promise
<1>1. /\ pc \in [Task -> {"unborn", "start", "code", "tick", "spawning", "awaiting",
                          "stranded", "ended", "drain", "pick", "exited", "failed"}]
      /\ pstate \in [Promise -> {"none", "pending"} \cup Settled]
      /\ microtasks \in Seq(Job)
  BY DEF TypeOK
<1>2. ASSUME UNCHANGED <<pstate, reactions, microtasks>>,
             \A a \in Acts : pc'[a] = "ended" <=> pc[a] = "ended",
             \A a \in Acts : pc'[a] = "unborn" <=> pc[a] = "unborn"
      PROVE  OwnInv'
  <2>1. Ended' = Ended
    BY <1>2 DEF Ended
  <2> QED BY <1>2, <2>1 DEF OwnInv, FollowersIn
<1>3. ASSUME NEW p \in Promise, NEW s \in Settled, Settle(p, s, microtasks),
             \A a \in Acts : pc[a] = "ended" => pc'[a] = "ended",
             \A a \in Acts : pc'[a] \notin {"unborn", "ended"} =>
                               a # p /\ pc[a] \notin {"unborn", "ended"}
      PROVE  OwnInv'
  <2>1. FollowersIn(Ended, reactions', microtasks')
    BY <1>1, <1>3, SettleKeepsFollowers DEF OwnInv
  <2>2. Ended \subseteq Ended'
    BY <1>3 DEF Ended
  <2>3. FollowersIn(Ended', reactions', microtasks')
    BY <2>1, <2>2, FollowersGrow
  <2>4. \A a \in Acts : pc'[a] \notin {"unborn", "ended"} => pstate'[a] = "pending"
    BY <1>1, <1>3 DEF OwnInv, Settle
  <2> QED BY <2>3, <2>4 DEF OwnInv, FollowersIn, Ended
<1>4. ASSUME RunJob, microtasks # <<>>, pc' = pc
      PROVE  OwnInv'
  <2> DEFINE p == Head(microtasks).derived
  <2>1. /\ FollowersIn(Ended, reactions', microtasks')
        /\ p \in Ended \cap Promise
        /\ Head(microtasks).state \in Settled
    BY <1>4, JobKeepsFollowers DEF OwnInv
  <2>2. Ended' = Ended
    BY <1>4 DEF Ended
  <2>3. \A a \in Acts : pc'[a] \notin {"unborn", "ended"} => pstate'[a] = "pending"
    <3>1. \A a \in Acts : a # p => pstate'[a] = pstate[a]
      BY <1>1, <1>4, <2>1 DEF RunJob, Settle
    <3> QED BY <1>4, <2>1, <3>1 DEF OwnInv, Ended
  <2> QED BY <2>1, <2>2, <2>3 DEF OwnInv, FollowersIn
<1>5. ASSUME NEW t \in Task, CodeStep(t)
      PROVE  OwnInv'
  <2>1. ASSUME NEW e \in Ext, NEW b \in BOOLEAN, NewPromise(t, e, b)
        PROVE  OwnInv'
    <3>1. /\ pc' = pc /\ reactions' = reactions /\ microtasks' = microtasks
          /\ \A a \in Acts : pstate'[a] = pstate[a]
      BY <1>1, <2>1, ConstantsAssumption DEF NewPromise
    <3> QED BY <3>1 DEF OwnInv, FollowersIn, Ended
  <2>2. ASSUME NEW e \in Ext, NEW s \in Settled, Resolve(t, e, s)
        PROVE  OwnInv'
    BY <1>3, <2>2, ConstantsAssumption DEF Resolve
  <2>3. ASSUME NEW a \in Acts, CallAsync(t, a)
        PROVE  OwnInv'
    <3>1. /\ pc' = [pc EXCEPT ![t] = "spawning", ![a] = "start"]
          /\ pstate' = [pstate EXCEPT ![a] = "pending"]
          /\ reactions' = reactions /\ microtasks' = microtasks
          /\ pc[a] = "unborn" /\ pc[t] = "code"
      BY <2>3 DEF CallAsync, Code
    <3>2. Ended' = Ended
      BY <1>1, <3>1 DEF Ended
    <3>3. \A b \in Acts : pc'[b] \notin {"unborn", "ended"} => pstate'[b] = "pending"
      BY <1>1, <3>1 DEF OwnInv
    <3> QED BY <3>1, <3>2, <3>3 DEF OwnInv, FollowersIn
  <2> QED BY <1>5, <2>1, <2>2, <2>3 DEF CodeStep
<1>6. ASSUME NEW a \in Acts, ActStep(a)
      PROVE  OwnInv'
  <2>1. CASE CodeStep(a)
    BY <1>5, <2>1
  <2>2. CASE (\E p \in Promise : AwaitPending(a, p) \/ AwaitSettled(a, p)) \/ TickDone(a)
    <3>1. \A b \in Acts : (pc'[b] = "unborn" <=> pc[b] = "unborn") /\ (pc'[b] = "ended" <=> pc[b] = "ended")
      BY <1>1, <2>2 DEF AwaitPending, AwaitSettled, TickDone, Code, Ticking
    <3>2. UNCHANGED <<pstate, reactions, microtasks>>
      BY <2>2 DEF AwaitPending, AwaitSettled, TickDone, promiseVars
    <3> QED BY <1>2, <3>1, <3>2
  <2>3. ASSUME NEW s \in Settled, Settle(a, s, microtasks), Code(a), EndBody(a, WokenBy(a))
        PROVE  OwnInv'
    <3>1. pc' = [pc EXCEPT ![a] = "ended"]
      BY <2>3 DEF EndBody
    <3> QED BY <1>1, <1>3, <2>3, <3>1
  <2>4. CASE (\E s \in Settled : ReturnValue(a, s)) \/ (\E q \in Promise : ReturnSettled(a, q))
    BY <2>3, <2>4 DEF ReturnValue, ReturnSettled
  <2>5. ASSUME NEW q \in Promise, ReturnPending(a, q)
        PROVE  OwnInv'
    <3>1. /\ pc' = [pc EXCEPT ![a] = "ended"] /\ pstate' = pstate /\ microtasks' = microtasks
          /\ reactions' = [reactions EXCEPT ![q] = Append(reactions[q], a)]
      BY <2>5 DEF ReturnPending, EndBody
    <3>2. Ended \cup {a} \subseteq Ended'
      BY <1>1, <3>1 DEF Ended
    <3>3. reactions \in [Promise -> Seq(Promise)] /\ reactions[q] \in Seq(Promise) /\ a \in Promise
      BY DEF TypeOK
    <3>4. \A i \in DOMAIN Append(reactions[q], a) :
            Append(reactions[q], a)[i] = a \/ (i \in DOMAIN reactions[q] /\ Append(reactions[q], a)[i] = reactions[q][i])
      BY <3>3, AppendProperties
    <3>5. FollowersIn(Ended \cup {a}, reactions', microtasks')
      BY <3>1, <3>3, <3>4 DEF OwnInv, FollowersIn
    <3>6. FollowersIn(Ended', reactions', microtasks')
      BY <3>2, <3>5, FollowersGrow
    <3>7. \A b \in Acts : pc'[b] \notin {"unborn", "ended"} => pstate'[b] = "pending"
      BY <1>1, <3>1 DEF OwnInv
    <3> QED BY <3>6, <3>7 DEF OwnInv, FollowersIn, Ended
  <2>6. CASE TickJob(a)
    BY <1>4, <2>6 DEF TickJob
  <2> QED BY <1>6, <2>1, <2>2, <2>4, <2>5, <2>6 DEF ActStep
<1>7. ASSUME MainStep
      PROVE  OwnInv'
  <2>1. CASE CodeStep(Main)
    BY <1>5, <2>1
  <2>2. CASE \/ \E p \in Promise : MainAwait(p)
             \/ \E b \in BOOLEAN : EndScript(b)
             \/ EndCallback \/ DrainDone \/ LoopExit \/ LoopYield \/ AwaitDrainJobs \/ AwaitDone \/ AwaitGivesUp
    <3>1. \A b \in Acts : pc'[b] = pc[b]
      BY <1>1, <2>2, ConstantsAssumption
         DEF MainAwait, EndScript, EndCallback, DrainDone, LoopExit, LoopYield, AwaitDrainJobs,
             AwaitDone, AwaitGivesUp, LeaveMainAwait
    <3>2. UNCHANGED <<pstate, reactions, microtasks>>
      BY <2>2 DEF MainAwait, EndScript, EndCallback, DrainDone, LoopExit, LoopYield, AwaitDrainJobs,
                  AwaitDone, AwaitGivesUp, LeaveMainAwait, promiseVars
    <3> QED BY <1>2, <3>1, <3>2
  <2>3. CASE DrainJob
    BY <1>4, <2>3 DEF DrainJob
  <2>4. ASSUME NEW e \in Ext, NEW s \in Settled, FireTimer(e, s)
        PROVE  OwnInv'
    <3>1. \A b \in Acts : pc'[b] = pc[b]
      BY <1>1, <2>4, ConstantsAssumption DEF FireTimer
    <3> QED BY <1>2, <1>3, <2>4, <3>1, ConstantsAssumption DEF FireTimer, promiseVars
  <2> QED BY <1>7, <2>1, <2>2, <2>3, <2>4 DEF MainStep
<1>8. ASSUME NEW t \in Task, Resume(t)
      PROVE  OwnInv'
  <2>1. \A b \in Acts : (pc'[b] = "unborn" <=> pc[b] = "unborn") /\ (pc'[b] = "ended" <=> pc[b] = "ended")
    BY <1>1, <1>8 DEF Resume, StartBody, ResumeAwait, ResumeCreator, ResumeLoop, Dispatch
  <2>2. UNCHANGED <<pstate, reactions, microtasks>>
    BY <1>8 DEF Resume, StartBody, ResumeAwait, ResumeCreator, ResumeLoop, promiseVars
  <2> QED BY <1>2, <2>1, <2>2
<1>9. CASE UNCHANGED vars \/ Terminated
  BY <1>2, <1>9 DEF Terminated, vars
<1> QED BY <1>6, <1>7, <1>8, <1>9 DEF Next

\* The activation t waits for is the one unnotified row of which t is the creator.
Owes(rows, t, a) == \E r \in rows : r.task = a /\ r.creator = t /\ ~r.notified
BlockedIn(rows, t) ==
  LET owed == {r.task : r \in {r \in rows : r.creator = t /\ ~r.notified}} IN
  IF owed = {} THEN NoPromise ELSE CHOOSE a \in owed : TRUE

LEMMA BlockedValue ==
  ASSUME NEW rows \in SUBSET [task : Acts, creator : Task, notified : BOOLEAN],
         \A r, s \in rows : ~r.notified /\ ~s.notified /\ r.creator = s.creator => r = s,
         NEW t \in Task
  PROVE  /\ BlockedIn(rows, t) \in Acts \cup {NoPromise}
         /\ \A a \in Acts : BlockedIn(rows, t) = a <=> Owes(rows, t, a)
         /\ BlockedIn(rows, t) = NoPromise <=> \A a \in Acts : ~Owes(rows, t, a)
<1> DEFINE owed == {r.task : r \in {r \in rows : r.creator = t /\ ~r.notified}}
<1>1. \A a : a \in owed <=> Owes(rows, t, a)
  BY DEF Owes
<1>2. owed \subseteq Acts /\ \A a, b \in owed : a = b
  OBVIOUS
<1>3. NoPromise \notin Acts
  BY ConstantsAssumption DEF Promise
<1>4. BlockedIn(rows, t) = IF owed = {} THEN NoPromise ELSE CHOOSE a \in owed : TRUE
  BY DEF BlockedIn
<1> HIDE DEF owed
<1>5. CASE owed = {}
  BY <1>1, <1>3, <1>4, <1>5
<1>6. CASE owed # {}
  <2>1. (CHOOSE a \in owed : TRUE) \in owed
    BY <1>6
  <2>2. BlockedIn(rows, t) \in owed
    BY <1>4, <1>6, <2>1
  <2> QED BY <1>1, <1>2, <1>3, <2>2
<1> QED BY <1>5, <1>6

\* What the mapping says of the callers, before a step and after it.
LEMMA BlockedNow ==
  ASSUME TypeOK, CreatorInv
  PROVE  \A t \in Task :
           /\ BlockedBy(t) \in Acts \cup {NoPromise}
           /\ \A a \in Acts : BlockedBy(t) = a <=> Owes(act, t, a)
           /\ BlockedBy(t) = NoPromise <=> \A a \in Acts : ~Owes(act, t, a)
<1> SUFFICES ASSUME NEW t \in Task
             PROVE  /\ BlockedBy(t) \in Acts \cup {NoPromise}
                    /\ \A a \in Acts : BlockedBy(t) = a <=> Owes(act, t, a)
                    /\ BlockedBy(t) = NoPromise <=> \A a \in Acts : ~Owes(act, t, a)
  OBVIOUS
<1>1. BlockedBy(t) = BlockedIn(act, t)
  BY DEF BlockedBy, BlockedIn
<1>2. /\ act \in SUBSET [task : Acts, creator : Task, notified : BOOLEAN]
      /\ \A r, s \in act : ~r.notified /\ ~s.notified /\ r.creator = s.creator => r = s
  BY DEF TypeOK, CreatorInv
<1> QED BY <1>1, <1>2, BlockedValue

LEMMA BlockedNext ==
  ASSUME TypeOK', CreatorInv'
  PROVE  \A t \in Task :
           /\ BlockedBy(t)' \in Acts \cup {NoPromise}
           /\ \A a \in Acts : BlockedBy(t)' = a <=> Owes(act', t, a)
           /\ BlockedBy(t)' = NoPromise <=> \A a \in Acts : ~Owes(act', t, a)
<1> SUFFICES ASSUME NEW t \in Task
             PROVE  /\ BlockedBy(t)' \in Acts \cup {NoPromise}
                    /\ \A a \in Acts : BlockedBy(t)' = a <=> Owes(act', t, a)
                    /\ BlockedBy(t)' = NoPromise <=> \A a \in Acts : ~Owes(act', t, a)
  OBVIOUS
<1>1. BlockedBy(t)' = BlockedIn(act', t)
  BY DEF BlockedBy, BlockedIn
<1>2. /\ act' \in SUBSET [task : Acts, creator : Task, notified : BOOLEAN]
      /\ \A r, s \in act' : ~r.notified /\ ~s.notified /\ r.creator = s.creator => r = s
  BY DEF TypeOK, CreatorInv
<1> QED BY <1>1, <1>2, BlockedValue

\* releaseCreatorOnce, or leaving the table, lets the caller of a go and no other.
LEMMA LetGoStep ==
  ASSUME TypeOK, CreatorInv, TypeOK', CreatorInv', NEW a \in Acts,
         act' = Notified(a) \/ act' = {r \in act : r.task # a}
  PROVE  [t \in Task |-> BlockedBy(t)]' =
           [t \in Task |-> IF BlockedBy(t) = a THEN NoPromise ELSE BlockedBy(t)]
<1>1. \A t \in Task : \A b \in Acts : Owes(act', t, b) <=> b # a /\ Owes(act, t, b)
  <2>1. CASE act' = {r \in act : r.task # a}
    BY <2>1 DEF Owes
  <2>2. CASE act' = Notified(a)
    <3>1. act \in SUBSET [task : Acts, creator : Task, notified : BOOLEAN]
      BY DEF TypeOK
    <3>2. \A r \in act : LET q == [r EXCEPT !.notified = TRUE] IN
            q.task = r.task /\ q.creator = r.creator /\ q.notified
      BY <3>1
    <3>3. \A t \in Task : \A b \in Acts : b # a /\ Owes(act, t, b) => Owes(act', t, b)
      <4> SUFFICES ASSUME NEW t \in Task, NEW b \in Acts, b # a, Owes(act, t, b)
                   PROVE  Owes(act', t, b)
        OBVIOUS
      <4>1. PICK r \in act : r.task = b /\ r.creator = t /\ ~r.notified
        BY DEF Owes
      <4>2. r \in act'
        BY <2>2, <4>1 DEF Notified
      <4> QED BY <4>1, <4>2 DEF Owes
    <3>4. \A t \in Task : \A b \in Acts : Owes(act', t, b) => b # a /\ Owes(act, t, b)
      <4> SUFFICES ASSUME NEW t \in Task, NEW b \in Acts, Owes(act', t, b)
                   PROVE  b # a /\ Owes(act, t, b)
        OBVIOUS
      <4>1. PICK q \in act' : q.task = b /\ q.creator = t /\ ~q.notified
        BY DEF Owes
      <4>2. PICK r \in act : q = IF r.task = a THEN [r EXCEPT !.notified = TRUE] ELSE r
        BY <2>2, <4>1 DEF Notified
      <4>3. r.task # a
        BY <3>2, <4>1, <4>2
      <4> QED BY <4>1, <4>2, <4>3 DEF Owes
    <3> QED BY <3>3, <3>4
  <2> QED BY <2>1, <2>2
<1>2. NoPromise \notin Acts
  BY ConstantsAssumption DEF Promise
<1>3. \A t \in Task : BlockedBy(t)' = IF BlockedBy(t) = a THEN NoPromise ELSE BlockedBy(t)
  <2> SUFFICES ASSUME NEW t \in Task
               PROVE  BlockedBy(t)' = IF BlockedBy(t) = a THEN NoPromise ELSE BlockedBy(t)
    OBVIOUS
  <2>1. /\ BlockedBy(t) \in Acts \cup {NoPromise}
        /\ \A b \in Acts : BlockedBy(t) = b <=> Owes(act, t, b)
    BY BlockedNow
  <2>2. /\ BlockedBy(t)' \in Acts \cup {NoPromise}
        /\ \A b \in Acts : BlockedBy(t)' = b <=> Owes(act', t, b)
    BY BlockedNext
  <2> QED BY <1>1, <1>2, <2>1, <2>2
<1> QED BY <1>3

\* A task that runs code of the program is active in AsyncCalls.
LEMMA CodeIsActive ==
  ASSUME TypeOK, SchedInv, CreatorInv, NEW t \in Task, Code(t)
  PROVE  Abstract!Active(t)
<1>1. \A a \in Acts : ~Owes(act, t, a)
  BY DEF Owes, CreatorInv, Code, Running
<1>2. BlockedBy(t) = NoPromise
  BY <1>1, BlockedNow
<1>3. t \in Acts => PhaseOf(t) = "running"
  BY DEF PhaseOf, Code
<1> QED BY <1>2, <1>3 DEF Abstract!Active

\* A step that the program does not see.
LEMMA Stutter ==
  ASSUME \A a \in Acts : PhaseOf(a)' = PhaseOf(a) /\ awaiting'[a] = awaiting[a],
         act' = act, pstate' = pstate
  PROVE  UNCHANGED Abstract!view
<1>1. [t \in Task |-> BlockedBy(t)]' = [t \in Task |-> BlockedBy(t)]
  BY DEF BlockedBy
<1> QED BY <1>1 DEF Abstract!view

\* A settlement by the program, a timer or a job.
LEMMA SettleDecides ==
  ASSUME TypeOK, NEW p \in Promise, NEW s \in Settled, NEW queue, Settle(p, s, queue),
         p \in Acts => pc[p] = "ended",
         \A a \in Acts : PhaseOf(a)' = PhaseOf(a) /\ awaiting'[a] = awaiting[a],
         act' = act
  PROVE  Abstract!AbstractNext \/ UNCHANGED Abstract!view
<1>1. CASE pstate[p] # "pending"
  BY <1>1, Stutter DEF Settle
<1>2. CASE pstate[p] = "pending"
  <2>1. [t \in Task |-> BlockedBy(t)]' = [t \in Task |-> BlockedBy(t)]
    BY DEF BlockedBy
  <2>2. p \in Acts => PhaseOf(p) = "over"
    BY DEF PhaseOf
  <2>3. pstate' = [pstate EXCEPT ![p] = s]
    BY <1>2 DEF Settle
  <2>4. Abstract!Decide(p, s)
    BY <1>2, <2>1, <2>2, <2>3 DEF Abstract!Decide
  <2> QED BY <2>4 DEF Abstract!AbstractNext, Abstract!Promises, Abstract!Final, Promise, Settled
<1> QED BY <1>1, <1>2

\* A call: the caller parks, the callee is on record as what it waits for.
LEMMA CallRefines ==
  ASSUME IInv, IInv', NEW t \in Task, NEW a \in Acts, CallAsync(t, a)
  PROVE  Abstract!Enter(t, a)
<1> USE DEF IInv
<1>1. /\ pc \in [Task -> {"unborn", "start", "code", "tick", "spawning", "awaiting",
                          "stranded", "ended", "drain", "pick", "exited", "failed"}]
      /\ a \in Task
  BY DEF TypeOK, Task
<1>2. /\ Code(t) /\ pc[a] = "unborn"
      /\ pc' = [pc EXCEPT ![t] = "spawning", ![a] = "start"]
      /\ act' = act \cup {[task |-> a, creator |-> t, notified |-> FALSE]}
      /\ awaiting' = awaiting /\ pstate' = [pstate EXCEPT ![a] = "pending"]
  BY DEF CallAsync
<1>3. Abstract!Active(t)
  BY <1>2, CodeIsActive
<1>4. PhaseOf(a) = "none"
  BY <1>2 DEF PhaseOf
<1>5. \A b \in Acts : PhaseOf(b)' = IF b = a THEN "running" ELSE PhaseOf(b)
  <2> SUFFICES ASSUME NEW b \in Acts
               PROVE  PhaseOf(b)' = IF b = a THEN "running" ELSE PhaseOf(b)
    OBVIOUS
  <2>1. pc[t] = "code" /\ t # a /\ b \in Task
    BY <1>2 DEF Code, Task
  <2>2. pc'[b] = IF b = a THEN "start" ELSE IF b = t THEN "spawning" ELSE pc[b]
    BY <1>1, <1>2, <2>1
  <2> QED BY <2>1, <2>2 DEF PhaseOf
<1>6. [b \in Acts |-> PhaseOf(b)]' = [[b \in Acts |-> PhaseOf(b)] EXCEPT ![a] = "running"]
  BY <1>5
<1>7. \A u \in Task : \A b \in Acts : Owes(act', u, b) <=> (u = t /\ b = a) \/ Owes(act, u, b)
  <2> DEFINE row == [task |-> a, creator |-> t, notified |-> FALSE]
  <2>1. row.task = a /\ row.creator = t /\ ~row.notified
    OBVIOUS
  <2>2. act' = act \cup {row}
    BY <1>2
  <2> HIDE DEF row
  <2> QED BY <2>1, <2>2 DEF Owes
<1>8. \A u \in Task : BlockedBy(u)' = IF u = t THEN a ELSE BlockedBy(u)
  <2> SUFFICES ASSUME NEW u \in Task
               PROVE  BlockedBy(u)' = IF u = t THEN a ELSE BlockedBy(u)
    OBVIOUS
  <2>1. /\ BlockedBy(u) \in Acts \cup {NoPromise}
        /\ \A b \in Acts : BlockedBy(u) = b <=> Owes(act, u, b)
    BY BlockedNow
  <2>2. /\ BlockedBy(u)' \in Acts \cup {NoPromise}
        /\ \A b \in Acts : BlockedBy(u)' = b <=> Owes(act', u, b)
    BY BlockedNext
  <2>3. NoPromise \notin Acts
    BY ConstantsAssumption DEF Promise
  <2> QED BY <1>7, <2>1, <2>2, <2>3
<1>9. [u \in Task |-> BlockedBy(u)]' = [[u \in Task |-> BlockedBy(u)] EXCEPT ![t] = a]
  BY <1>8
<1> QED BY <1>2, <1>3, <1>4, <1>6, <1>9 DEF Abstract!Enter

\* An await of a pending promise gives the caller its turn back.
LEMMA AwaitRefines ==
  ASSUME IInv, IInv', NEW a \in Acts, NEW p \in Promise, AwaitPending(a, p)
  PROVE  Abstract!Wait(a, p)
<1> USE DEF IInv
<1>1. /\ pc \in [Task -> {"unborn", "start", "code", "tick", "spawning", "awaiting",
                          "stranded", "ended", "drain", "pick", "exited", "failed"}]
      /\ awaiting \in [Task -> Promise \cup {NoPromise}] /\ a \in Task /\ Acts \subseteq Task
  BY DEF TypeOK, Task
<1>2. /\ Code(a) /\ pstate[p] = "pending" /\ pstate' = pstate
      /\ pc' = [pc EXCEPT ![a] = "awaiting"]
      /\ act' = Notified(a)
      /\ awaiting' = [awaiting EXCEPT ![a] = p]
  BY DEF AwaitPending
<1>3. Abstract!Active(a)
  BY <1>1, <1>2, CodeIsActive
<1>4. [b \in Acts |-> PhaseOf(b)]' = [[b \in Acts |-> PhaseOf(b)] EXCEPT ![a] = "waiting"]
  <2>1. \A b \in Acts : PhaseOf(b)' = IF b = a THEN "waiting" ELSE PhaseOf(b)
    BY <1>1, <1>2 DEF PhaseOf
  <2> QED BY <2>1
<1>5. [b \in Acts |-> awaiting[b]]' = [[b \in Acts |-> awaiting[b]] EXCEPT ![a] = p]
  BY <1>1, <1>2
<1>6. [t \in Task |-> BlockedBy(t)]' =
        [t \in Task |-> IF BlockedBy(t) = a THEN NoPromise ELSE BlockedBy(t)]
  BY <1>2, LetGoStep
<1>7. [t \in Task |-> BlockedBy(t)]' = Abstract!LetGo(a)
  BY <1>6 DEF Abstract!LetGo, Abstract!Runs, Task
<1> QED BY <1>2, <1>3, <1>4, <1>5, <1>7 DEF Abstract!Wait

\* The end of a call, s being what becomes of its promise.
LEMMA EndRefines ==
  ASSUME IInv, IInv', NEW a \in Acts, Code(a), NEW woken, EndBody(a, woken),
         NEW s, pstate' = [pstate EXCEPT ![a] = s]
  PROVE  Abstract!Leave(a, s)
<1> USE DEF IInv
<1>1. /\ pc \in [Task -> {"unborn", "start", "code", "tick", "spawning", "awaiting",
                          "stranded", "ended", "drain", "pick", "exited", "failed"}]
      /\ a \in Task /\ Acts \subseteq Task
  BY DEF TypeOK, Task
<1>2. /\ pc' = [pc EXCEPT ![a] = "ended"]
      /\ act' = {r \in act : r.task # a}
      /\ awaiting' = awaiting
  BY DEF EndBody
<1>3. Abstract!Active(a)
  BY <1>1, <1>2, CodeIsActive
<1>4. [b \in Acts |-> PhaseOf(b)]' = [[b \in Acts |-> PhaseOf(b)] EXCEPT ![a] = "over"]
  <2>1. \A b \in Acts : PhaseOf(b)' = IF b = a THEN "over" ELSE PhaseOf(b)
    BY <1>1, <1>2 DEF PhaseOf
  <2> QED BY <2>1
<1>5. [t \in Task |-> BlockedBy(t)]' =
        [t \in Task |-> IF BlockedBy(t) = a THEN NoPromise ELSE BlockedBy(t)]
  BY <1>2, LetGoStep
<1>6. [t \in Task |-> BlockedBy(t)]' = Abstract!LetGo(a)
  BY <1>5 DEF Abstract!LetGo, Abstract!Runs, Task
<1>7. UNCHANGED [b \in Acts |-> awaiting[b]]
  BY <1>2
<1> QED BY <1>3, <1>4, <1>6, <1>7 DEF Abstract!Leave

\* An await goes on only when its promise has settled.
LEMMA ResumeRefines ==
  ASSUME IInv, IInv', NEW a \in Acts, ResumeAwait(a)
  PROVE  Abstract!GoOn(a)
<1> USE DEF IInv
<1>1. /\ pc \in [Task -> {"unborn", "start", "code", "tick", "spawning", "awaiting",
                          "stranded", "ended", "drain", "pick", "exited", "failed"}]
      /\ awaiting \in [Task -> Promise \cup {NoPromise}] /\ a \in Task /\ Acts \subseteq Task
  BY DEF TypeOK, Task
<1>2. pc[a] = "awaiting" /\ pstate[awaiting[a]] \in Settled
  BY DEF ResumeAwait, Dispatch, AwaitInv
<1>3. /\ pc' = [pc EXCEPT ![a] = "code"]
      /\ awaiting' = [awaiting EXCEPT ![a] = NoPromise]
      /\ act' = act /\ pstate' = pstate
  BY <1>2 DEF ResumeAwait, promiseVars
<1>4. [b \in Acts |-> PhaseOf(b)]' = [[b \in Acts |-> PhaseOf(b)] EXCEPT ![a] = "running"]
  <2>1. \A b \in Acts : PhaseOf(b)' = IF b = a THEN "running" ELSE PhaseOf(b)
    BY <1>1, <1>3 DEF PhaseOf
  <2> QED BY <2>1
<1>5. [b \in Acts |-> awaiting[b]]' = [[b \in Acts |-> awaiting[b]] EXCEPT ![a] = NoPromise]
  BY <1>1, <1>3
<1>6. PhaseOf(a) = "waiting"
  BY <1>2 DEF PhaseOf
<1>7. UNCHANGED <<[t \in Task |-> BlockedBy(t)], pstate>>
  BY <1>3 DEF BlockedBy
<1> QED BY <1>2, <1>4, <1>5, <1>6, <1>7 DEF Abstract!GoOn, Abstract!Final, Settled

LEMMA CodeStepRefines ==
  ASSUME IInv, IInv', NEW t \in Task, CodeStep(t)
  PROVE  Abstract!AbstractNext \/ UNCHANGED Abstract!view
<1>1. ASSUME NEW e \in Ext, NEW b \in BOOLEAN, NewPromise(t, e, b)
      PROVE  Abstract!AbstractNext
  <2>1. UNCHANGED <<[a \in Acts |-> PhaseOf(a)], [a \in Acts |-> awaiting[a]], [u \in Task |-> BlockedBy(u)]>>
    BY <1>1 DEF NewPromise, PhaseOf, BlockedBy
  <2>2. Abstract!Create(e)
    BY <1>1, <2>1 DEF NewPromise, Abstract!Create
  <2> QED BY <2>2 DEF Abstract!AbstractNext
<1>2. ASSUME NEW e \in Ext, NEW s \in Settled, Resolve(t, e, s)
      PROVE  Abstract!AbstractNext \/ UNCHANGED Abstract!view
  <2>1. /\ TypeOK /\ e \in Promise /\ e \notin Acts
        /\ Settle(e, s, microtasks) /\ act' = act
        /\ \A a \in Acts : PhaseOf(a)' = PhaseOf(a) /\ awaiting'[a] = awaiting[a]
    BY <1>2, ConstantsAssumption DEF Resolve, PhaseOf, IInv, Promise
  <2> QED BY <2>1, SettleDecides
<1>3. ASSUME NEW a \in Acts, CallAsync(t, a)
      PROVE  Abstract!AbstractNext
  BY <1>3, CallRefines DEF Abstract!AbstractNext, Abstract!Runs, Task
<1> QED BY <1>1, <1>2, <1>3 DEF CodeStep

LEMMA RunJobRefines ==
  ASSUME TypeOK, OwnInv, microtasks # <<>>, RunJob, pc' = pc, awaiting' = awaiting, act' = act
  PROVE  Abstract!AbstractNext \/ UNCHANGED Abstract!view
<1> DEFINE p == Head(microtasks).derived
<1>1. p \in Ended \cap Promise /\ Head(microtasks).state \in Settled
  BY JobKeepsFollowers DEF OwnInv
<1>2. Settle(p, Head(microtasks).state, Tail(microtasks))
  BY DEF RunJob
<1>3. p \in Acts => pc[p] = "ended"
  BY <1>1 DEF Ended
<1>4. \A a \in Acts : PhaseOf(a)' = PhaseOf(a) /\ awaiting'[a] = awaiting[a]
  BY DEF PhaseOf
<1> QED BY <1>1, <1>2, <1>3, <1>4, SettleDecides

LEMMA ActStepRefines ==
  ASSUME IInv, OwnInv, IInv', NEW a \in Acts, ActStep(a)
  PROVE  Abstract!AbstractNext \/ UNCHANGED Abstract!view
<1> USE DEF IInv
<1>1. /\ pc \in [Task -> {"unborn", "start", "code", "tick", "spawning", "awaiting",
                          "stranded", "ended", "drain", "pick", "exited", "failed"}]
      /\ a \in Task /\ a \in Promise /\ Acts \subseteq Task
  BY DEF TypeOK, Task, Promise
<1>2. CASE CodeStep(a)
  BY <1>1, <1>2, CodeStepRefines
<1>3. ASSUME NEW p \in Promise, AwaitPending(a, p)
      PROVE  Abstract!AbstractNext
  BY <1>3, AwaitRefines DEF Abstract!AbstractNext, Abstract!Promises, Promise
<1>4. CASE (\E p \in Promise : AwaitSettled(a, p)) \/ TickDone(a)
  <2>1. /\ \A b \in Acts : PhaseOf(b)' = PhaseOf(b) /\ awaiting'[b] = awaiting[b]
        /\ act' = act /\ pstate' = pstate
    BY <1>1, <1>4 DEF AwaitSettled, TickDone, Code, Ticking, PhaseOf, promiseVars
  <2> QED BY <2>1, Stutter
<1>5. ASSUME NEW s \in Settled, Code(a), Settle(a, s, microtasks), EndBody(a, WokenBy(a))
      PROVE  Abstract!AbstractNext
  <2>1. pstate[a] = "pending"
    BY <1>5 DEF OwnInv, Code
  <2>2. pstate' = [pstate EXCEPT ![a] = s]
    BY <1>5, <2>1 DEF Settle
  <2>3. Abstract!Leave(a, s)
    BY <1>5, <2>2, EndRefines
  <2> QED BY <2>3 DEF Abstract!AbstractNext, Abstract!Final, Settled
<1>6. CASE (\E s \in Settled : ReturnValue(a, s)) \/ (\E q \in Promise : ReturnSettled(a, q))
  BY <1>5, <1>6 DEF ReturnValue, ReturnSettled
<1>7. ASSUME NEW q \in Promise, ReturnPending(a, q)
      PROVE  Abstract!AbstractNext
  <2>1. /\ Code(a) /\ EndBody(a, {}) /\ pstate' = pstate /\ pstate[a] = "pending"
    BY <1>7 DEF ReturnPending, OwnInv, Code
  <2>2. pstate' = [pstate EXCEPT ![a] = "pending"]
    BY <1>1, <2>1 DEF TypeOK
  <2>3. Abstract!Leave(a, "pending")
    BY <2>1, <2>2, EndRefines
  <2> QED BY <2>3 DEF Abstract!AbstractNext
<1>8. CASE TickJob(a)
  BY <1>8, RunJobRefines DEF TickJob
<1> QED BY <1>2, <1>3, <1>4, <1>6, <1>7, <1>8 DEF ActStep

LEMMA MainStepRefines ==
  ASSUME IInv, OwnInv, IInv', MainStep
  PROVE  Abstract!AbstractNext \/ UNCHANGED Abstract!view
<1> USE DEF IInv
<1>1. /\ pc \in [Task -> {"unborn", "start", "code", "tick", "spawning", "awaiting",
                          "stranded", "ended", "drain", "pick", "exited", "failed"}]
      /\ awaiting \in [Task -> Promise \cup {NoPromise}]
      /\ Main \in Task /\ Main \notin Acts /\ Acts \subseteq Task
  BY ConstantsAssumption DEF TypeOK, Task
<1>2. CASE CodeStep(Main)
  BY <1>1, <1>2, CodeStepRefines
<1>3. CASE \/ \E p \in Promise : MainAwait(p)
           \/ \E b \in BOOLEAN : EndScript(b)
           \/ EndCallback \/ DrainDone \/ LoopExit \/ LoopYield \/ AwaitDrainJobs \/ AwaitDone \/ AwaitGivesUp
  <2>1. \A a \in Acts : pc'[a] = pc[a] /\ awaiting'[a] = awaiting[a]
    BY <1>1, <1>3 DEF MainAwait, EndScript, EndCallback, DrainDone, LoopExit, LoopYield,
                      AwaitDrainJobs, AwaitDone, AwaitGivesUp, LeaveMainAwait
  <2>2. act' = act /\ pstate' = pstate
    BY <1>3 DEF MainAwait, EndScript, EndCallback, DrainDone, LoopExit, LoopYield, AwaitDrainJobs,
                AwaitDone, AwaitGivesUp, LeaveMainAwait, promiseVars
  <2>3. \A a \in Acts : PhaseOf(a)' = PhaseOf(a)
    BY <2>1 DEF PhaseOf
  <2> QED BY <2>1, <2>2, <2>3, Stutter
<1>4. CASE DrainJob
  BY <1>4, RunJobRefines DEF DrainJob
<1>5. ASSUME NEW e \in Ext, NEW s \in Settled, FireTimer(e, s)
      PROVE  Abstract!AbstractNext \/ UNCHANGED Abstract!view
  <2>1. \A a \in Acts : pc'[a] = pc[a] /\ awaiting'[a] = awaiting[a]
    BY <1>1, <1>5 DEF FireTimer
  <2>2. \A a \in Acts : PhaseOf(a)' = PhaseOf(a)
    BY <2>1 DEF PhaseOf
  <2>3. act' = act /\ (pstate' = pstate \/ Settle(e, s, microtasks))
    BY <1>5 DEF FireTimer, promiseVars
  <2>4. e \in Promise /\ e \notin Acts
    BY ConstantsAssumption DEF Promise
  <2> QED BY <2>1, <2>2, <2>3, <2>4, Stutter, SettleDecides
<1> QED BY <1>2, <1>3, <1>4, <1>5 DEF MainStep

LEMMA ResumesRefine ==
  ASSUME IInv, IInv', NEW t \in Task, Resume(t)
  PROVE  Abstract!AbstractNext \/ UNCHANGED Abstract!view
<1>1. CASE t \in Acts /\ ResumeAwait(t)
  BY <1>1, ResumeRefines DEF Abstract!AbstractNext
<1>2. CASE (t \in Acts /\ StartBody(t)) \/ ResumeCreator(t) \/ (t = Main /\ ResumeLoop)
  <2>1. pc \in [Task -> {"unborn", "start", "code", "tick", "spawning", "awaiting",
                         "stranded", "ended", "drain", "pick", "exited", "failed"}]
        /\ Acts \subseteq Task /\ Main \notin Acts
    BY ConstantsAssumption DEF IInv, TypeOK, Task
  <2>2. /\ \A a \in Acts : PhaseOf(a)' = PhaseOf(a) /\ awaiting'[a] = awaiting[a]
        /\ act' = act /\ pstate' = pstate
    BY <1>2, <2>1 DEF StartBody, ResumeCreator, ResumeLoop, Dispatch, PhaseOf, promiseVars
  <2> QED BY <2>2, Stutter
<1> QED BY <1>1, <1>2 DEF Resume

\* Every behaviour of the tasks, registries and saved contexts is one of async
\* calls: an await goes on only when its promise has settled, a caller gets its
\* turn back at the first await or the end and only then, a promise settles once.
THEOREM Refinement == Spec => ImplementsAsyncCalls
<1>1. Init => Abstract!AbstractInit
  <2> SUFFICES ASSUME Init
               PROVE  Abstract!AbstractInit
    OBVIOUS
  <2>1. \A a \in Acts : PhaseOf(a) = "none" /\ awaiting[a] = NoPromise
    BY ConstantsAssumption DEF Init, PhaseOf, Task
  <2>2. \A t \in Task : BlockedBy(t) = NoPromise
    BY DEF Init, BlockedBy
  <2>3. pstate = [p \in Promise |-> "none"]
    BY DEF Init
  <2> QED BY <2>1, <2>2, <2>3 DEF Abstract!AbstractInit, Abstract!Runs, Abstract!Promises, Task, Promise
<1>2. Init => OwnInv
  BY ConstantsAssumption DEF Init, OwnInv, FollowersIn, Task, Promise
<1>3. (IInv /\ BornInv) /\ OwnInv /\ [Next]_vars => OwnInv'
  BY OwnStep DEF IInv
<1>4. (IInv /\ BornInv) /\ (IInv /\ BornInv)' /\ OwnInv /\ [Next]_vars
        => [Abstract!AbstractNext]_(Abstract!view)
  <2> SUFFICES ASSUME IInv, IInv', OwnInv, [Next]_vars
               PROVE  Abstract!AbstractNext \/ UNCHANGED Abstract!view
    OBVIOUS
  <2>1. CASE UNCHANGED vars \/ Terminated
    <3>1. /\ \A a \in Acts : PhaseOf(a)' = PhaseOf(a) /\ awaiting'[a] = awaiting[a]
          /\ act' = act /\ pstate' = pstate
      BY <2>1 DEF Terminated, vars, PhaseOf
    <3> QED BY <3>1, Stutter
  <2> QED BY <2>1, MainStepRefines, ActStepRefines, ResumesRefine DEF Next
<1> QED BY <1>1, <1>2, <1>3, <1>4, Invariance, PTL DEF Spec, ImplementsAsyncCalls, Abstract!AbstractSpec
=============================================================================
