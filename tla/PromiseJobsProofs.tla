------------------------- MODULE PromiseJobsProofs -------------------------
(***************************************************************************)
(* Theorems about PromiseJobs, for every set of promises and every number  *)
(* of turns.                                                               *)
(***************************************************************************)
EXTENDS PromiseJobs, SequenceTheorems, TLAPS

-----------------------------------------------------------------------------
(* Frames, jobs and the sequences that hold them *)

\* A reaction job has a promise it comes from and a settlement it carries.
ReactionJobs == [from : Promises, kind : Kind, derived : Promises, state : Settled]

\* What kind of frame it is says which fields it has.
LEMMA FrameFields ==
  ASSUME NEW f \in Frame
  PROVE  /\ f.kind \in Kind => f \in ReactionJobs
         /\ f.kind \in {"executor", "thenable"} => f.derived \in Promises
         /\ f.kind \in {"tick", "await"} => f.on \in Promises
         /\ f.kind = "tick" => f \in [kind : {"tick"}, on : Promises, left : Nat]
         /\ f.kind = "await" => f \in [kind : {"await"}, on : Promises, draining : BOOLEAN]
         /\ f.kind \in {"script", "callback", "executor", "thenable", "tick", "await"} \cup Kind
BY DEF Frame, CodeFrame, DrainFrame, Job, ReactionJobs, Kind

\* The same of a job.
LEMMA JobFields ==
  ASSUME NEW j \in Job
  PROVE  /\ j.kind # "thenable" => j \in ReactionJobs
         /\ j.kind = "thenable" \/ j.kind \in Kind
         /\ j.derived \in Promises
         /\ j \in Frame
BY DEF Job, ReactionJobs, Kind, Frame, CodeFrame

\* Front drops the last element and keeps the others.
LEMMA FrontProperties ==
  ASSUME NEW S, NEW s \in Seq(S), s # <<>>
  PROVE  /\ Front(s) \in Seq(S)
         /\ Last(s) \in S
         /\ Len(Front(s)) = Len(s) - 1
         /\ Len(s) \in DOMAIN s /\ Last(s) = s[Len(s)]
         /\ \A i \in DOMAIN Front(s) : i \in DOMAIN s /\ i < Len(s) /\ Front(s)[i] = s[i]
<1>1. Len(s) \in Nat \ {0} /\ DOMAIN s = 1..Len(s) /\ \A i \in 1..Len(s) : s[i] \in S
  BY LenProperties, EmptySeq
<1>2. /\ Front(s) \in Seq(S)
      /\ Len(Front(s)) = Len(s) - 1
      /\ \A i \in 1..(Len(s) - 1) : Front(s)[i] = s[i]
  BY <1>1 DEF Front
<1>3. DOMAIN Front(s) = 1..(Len(s) - 1)
  BY <1>2, LenProperties
<1> QED BY <1>1, <1>2, <1>3 DEF Last

-----------------------------------------------------------------------------
(* Type correctness *)

\* settlePromise keeps the types of what it changes.
LEMMA SettleType ==
  ASSUME TypeOK, NEW p \in Promises, NEW s \in Settled, NEW queue \in Seq(Job),
         NEW open \in SUBSET Promises, SettleIn(state, p, s, queue, open)
  PROVE  /\ state' \in [Promises -> {"none", "pending"} \cup Settled]
         /\ reactions' \in [Promises -> Seq(Reaction)]
         /\ microtasks' \in Seq(Job)
         /\ unhandled' \in SUBSET Promises
         /\ awaited' \in SUBSET Promises
<1> DEFINE jobs == [i \in DOMAIN reactions[p] |-> ReactionJob(reactions[p][i], s)]
<1>1. reactions[p] \in Seq(Reaction)
  BY DEF TypeOK
<1>2. jobs \in Seq(Job)
  <2>1. ASSUME NEW i \in 1..Len(reactions[p]) PROVE ReactionJob(reactions[p][i], s) \in Job
    <3>1. reactions[p][i] \in Reaction
      BY <1>1
    <3> QED BY <3>1 DEF ReactionJob, Job, Reaction
  <2> QED BY <1>1, <2>1
<1>3. queue \o jobs \in Seq(Job)
  BY <1>2, ConcatProperties
<1>4. CASE state[p] = "pending"
  <2>1. /\ state' = [state EXCEPT ![p] = s]
        /\ awaited' = awaited \ {p}
        /\ unhandled' \in {open, open \cup {p}}
        /\ microtasks' = queue \o jobs
        /\ reactions' = [reactions EXCEPT ![p] = <<>>]
    BY <1>4 DEF SettleIn
  <2>2. <<>> \in Seq(Reaction)
    OBVIOUS
  <2> QED BY <2>1, <2>2, <1>3 DEF TypeOK
<1>5. CASE state[p] # "pending"
  BY <1>5 DEF SettleIn, TypeOK
<1> QED BY <1>4, <1>5

\* adoptPromise too.
LEMMA AdoptType ==
  ASSUME TypeOK, NEW d \in Promises, NEW q \in Promises, state[q] # "none", Adopt(d, q, microtasks)
  PROVE  /\ state' \in [Promises -> {"none", "pending"} \cup Settled]
         /\ reactions' \in [Promises -> Seq(Reaction)]
         /\ microtasks' \in Seq(Job)
         /\ unhandled' \in SUBSET Promises
         /\ awaited' \in SUBSET Promises
         /\ handled' \in SUBSET Promises
         /\ attached' \in Seq(Reaction)
<1> DEFINE r == [from |-> q, kind |-> "follow", derived |-> d]
<1>1. r \in Reaction
  BY DEF Reaction, Kind
<1>2. handled' \in SUBSET Promises
  BY DEF Adopt, TypeOK
<1>3. CASE state[q] = "pending"
  <2>1. /\ reactions' = [reactions EXCEPT ![q] = Append(reactions[q], r)]
        /\ attached' = Append(attached, r)
        /\ UNCHANGED <<microtasks, state, unhandled, awaited>>
    BY <1>3 DEF Adopt
  <2>2. Append(reactions[q], r) \in Seq(Reaction) /\ Append(attached, r) \in Seq(Reaction)
    BY <1>1, AppendProperties DEF TypeOK
  <2> QED BY <1>2, <2>1, <2>2 DEF TypeOK
<1>4. CASE state[q] # "pending"
  <2>1. SettleIn(state, d, state[q], microtasks, unhandled \ {q}) /\ attached' = attached
    BY <1>4 DEF Adopt
  <2>2. state[q] \in Settled /\ unhandled \ {q} \in SUBSET Promises /\ microtasks \in Seq(Job)
    BY <1>4 DEF TypeOK
  <2>3. attached' \in Seq(Reaction)
    BY <2>1 DEF TypeOK
  <2> QED BY <1>2, <2>1, <2>2, <2>3, SettleType
<1> QED BY <1>3, <1>4

\* The stack of native frames: pushing and popping keep the stack a stack of frames.
LEMMA FramesType ==
  ASSUME TypeOK
  PROVE  /\ \A f \in Frame : PushFrame(f) => frames' \in Seq(Frame)
         /\ frames # <<>> /\ PopFrame => frames' \in Seq(Frame)
         /\ frames # <<>> => Last(frames) \in Frame
<1>1. frames \in Seq(Frame)
  BY DEF TypeOK
<1> QED BY <1>1, AppendProperties, FrontProperties DEF PushFrame, PopFrame

\* What a drain leaves of the frame it runs in is a frame.
LEMMA DrainedType ==
  ASSUME TypeOK, MayDrain
  PROVE  Drained \in Seq(Frame)
<1>1. frames \in Seq(Frame)
  BY DEF TypeOK
<1>2. CASE frames = <<>>
  BY <1>1, <1>2 DEF Drained
<1>3. CASE frames # <<>>
  <2>1. Last(frames) \in Frame /\ Front(frames) \in Seq(Frame)
    BY <1>1, <1>3, FrontProperties
  <2>2. CASE In("tick") /\ Last(frames).left > 0
    <3>1. Last(frames) \in [kind : {"tick"}, on : Promises, left : Nat]
      BY <2>1, <2>2, FrameFields DEF In
    <3>2. [Last(frames) EXCEPT !.left = @ - 1] \in [kind : {"tick"}, on : Promises, left : Nat]
      BY <2>2, <3>1
    <3>3. [Last(frames) EXCEPT !.left = @ - 1] \in Frame
      BY <3>2 DEF Frame, DrainFrame
    <3> QED BY <1>3, <2>1, <2>2, <3>3, AppendProperties DEF Drained
  <2>3. CASE In("await")
    <3>1. Last(frames) \in [kind : {"await"}, on : Promises, draining : BOOLEAN]
      BY <2>1, <2>3, FrameFields DEF In
    <3>2. [Last(frames) EXCEPT !.draining = TRUE] \in [kind : {"await"}, on : Promises, draining : BOOLEAN]
      BY <3>1
    <3>3. [Last(frames) EXCEPT !.draining = TRUE] \in Frame
      BY <3>2 DEF Frame, DrainFrame
    <3>4. ~In("tick")
      BY <2>3 DEF In
    <3> QED BY <1>3, <2>1, <3>3, <3>4, AppendProperties DEF Drained
  <2> QED BY <1>3, <2>2, <2>3 DEF MayDrain
<1> QED BY <1>2, <1>3

\* What was first asked of a promise has the type of what is asked.
LEMMA AskedType ==
  ASSUME TypeOK, NEW p \in Promises, NEW what \in Settled \cup Promises
  PROVE  Asked(p, what) \in [Promises -> {None} \cup Settled \cup Promises]
BY DEF TypeOK, Asked

\* Every step of program code keeps the types.
LEMMA ProgramStepType ==
  ASSUME TypeOK, ProgramStep
  PROVE  TypeOK'
<1>1. /\ "rejected" \in Settled /\ "fulfilled" \in Settled
      /\ microtasks \in Seq(Job) /\ unhandled \in SUBSET Promises
  BY DEF Settled, TypeOK
<1>2. ASSUME NEW p \in Promises, Construct(p)
      PROVE  TypeOK'
  <2>1. [kind |-> "executor", derived |-> p] \in Frame
    BY DEF Frame, CodeFrame
  <2> QED BY <1>2, <2>1, FramesType DEF Construct, TypeOK
<1>3. ASSUME NEW p \in Promises, CallReject(p) \/ ResolveValue(p) \/ ResolveSelf(p)
      PROVE  TypeOK'
  <2>1. PICK s \in Settled : SettleIn(state, p, s, microtasks, unhandled) /\ fate' = Asked(p, s)
    BY <1>1, <1>3 DEF CallReject, ResolveValue, ResolveSelf, Settle
  <2>2. fate' \in [Promises -> {None} \cup Settled \cup Promises]
    BY <2>1, AskedType
  <2>3. /\ pair' = [pair EXCEPT ![p] = "fired"]
        /\ UNCHANGED <<frames, hidden, turns, exited, reported, handled, attached, started, overridden>>
    BY <1>3 DEF CallReject, ResolveValue, ResolveSelf
  <2> QED BY <1>1, <2>1, <2>2, <2>3, SettleType DEF TypeOK
<1>4. ASSUME NEW p \in Promises, NewRejected(p)
      PROVE  TypeOK'
  BY <1>1, <1>4 DEF NewRejected, TypeOK
<1>5. ASSUME NEW p \in Promises, AwaitPending(p)
      PROVE  TypeOK'
  BY <1>5 DEF AwaitPending, TypeOK
<1>6. ASSUME NEW p \in Promises, AwaitSettled(p)
      PROVE  TypeOK'
  <2>1. [kind |-> "tick", on |-> p, left |-> Len(microtasks)] \in Frame
    BY <1>1, LenProperties DEF Frame, DrainFrame
  <2> QED BY <1>6, <2>1, FramesType, ConstantsAssumption DEF AwaitSettled, TypeOK
<1>7. ASSUME NEW p \in Promises, MainAwait(p)
      PROVE  TypeOK'
  <2>1. [kind |-> "await", on |-> p, draining |-> FALSE] \in Frame
    BY DEF Frame, DrainFrame
  <2>2. CASE state[p] = "pending"
    BY <1>7, <2>1, <2>2, FramesType, ConstantsAssumption DEF MainAwait, TypeOK
  <2>3. CASE state[p] # "pending"
    BY <1>7, <2>3 DEF MainAwait, Observe, TypeOK
  <2> QED BY <2>2, <2>3
<1>8. ASSUME NEW p \in Promises, NEW q \in Promises, ResolvePromise(p, q)
      PROVE  TypeOK'
  <2>1. Adopt(p, q, microtasks) /\ state[q] # "none"
    BY <1>8 DEF ResolvePromise, Named, Made
  <2>2. fate' \in [Promises -> {None} \cup Settled \cup Promises]
    BY <1>8, AskedType DEF ResolvePromise
  <2>3. /\ pair' = [pair EXCEPT ![p] = "fired"]
        /\ UNCHANGED <<frames, hidden, turns, exited, reported, started, overridden>>
    BY <1>8 DEF ResolvePromise
  <2> QED BY <2>1, <2>2, <2>3, AdoptType DEF TypeOK
<1>9. ASSUME NEW p \in Promises, NEW inner \in Promises, ResolveThenable(p, inner)
      PROVE  TypeOK'
  <2> DEFINE r == [from |-> inner, kind |-> "follow", derived |-> p]
  <2>1. r \in Reaction /\ [kind |-> "thenable", derived |-> inner] \in Job
    BY DEF Reaction, Kind, Job
  <2>2. /\ <<r>> \in Seq(Reaction)
        /\ Append(attached, r) \in Seq(Reaction)
        /\ Append(microtasks, [kind |-> "thenable", derived |-> inner]) \in Seq(Job)
    BY <1>1, <2>1, AppendProperties DEF TypeOK
  <2>3. fate' \in [Promises -> {None} \cup Settled \cup Promises]
    BY <1>9, AskedType DEF ResolveThenable
  <2>4. /\ state' = [state EXCEPT ![inner] = "pending"]
        /\ pair' = [pair EXCEPT ![p] = "fired", ![inner] = "open"]
        /\ reactions' = [reactions EXCEPT ![inner] = <<r>>]
        /\ attached' = Append(attached, r)
        /\ microtasks' = Append(microtasks, [kind |-> "thenable", derived |-> inner])
        /\ handled' = handled \cup {inner} /\ hidden' = hidden \cup {inner}
        /\ UNCHANGED <<unhandled, awaited, frames, turns, exited, reported, started, overridden>>
    BY <1>9 DEF ResolveThenable
  <2> QED BY <2>2, <2>3, <2>4 DEF TypeOK
<1>10. ASSUME NEW p \in Promises, NEW d \in Promises, NEW kind \in Kind, Then(p, kind, d)
       PROVE  TypeOK'
  <2> DEFINE r == [from |-> p, kind |-> kind, derived |-> d]
  <2>1. r \in Reaction
    BY DEF Reaction
  <2>2. Append(attached, r) \in Seq(Reaction) /\ Append(reactions[p], r) \in Seq(Reaction)
    BY <2>1, AppendProperties DEF TypeOK
  <2>3. /\ state' = [state EXCEPT ![d] = "pending"]
        /\ attached' = Append(attached, r)
        /\ handled' = handled \cup {p} /\ unhandled' = unhandled \ {p}
        /\ UNCHANGED <<pair, awaited, frames, hidden, turns, exited, reported, started, fate, overridden>>
        /\ IF state[p] = "pending"
           THEN reactions' = [reactions EXCEPT ![p] = Append(reactions[p], r)] /\ microtasks' = microtasks
           ELSE microtasks' = Append(microtasks, ReactionJob(r, state[p])) /\ reactions' = reactions
    BY <1>10 DEF Then
  <2>4. microtasks' \in Seq(Job)
    <3>1. CASE state[p] = "pending"
      BY <1>1, <2>3, <3>1
    <3>2. CASE state[p] # "pending"
      <4>1. state[p] \in Settled
        BY <1>10, <3>2 DEF Then, Named, Made, TypeOK
      <4>2. ReactionJob(r, state[p]) \in Job
        BY <4>1 DEF ReactionJob, Job
      <4>3. microtasks' = Append(microtasks, ReactionJob(r, state[p]))
        BY <2>3, <3>2
      <4> HIDE DEF r
      <4> QED BY <1>1, <4>2, <4>3, AppendProperties
    <3> QED BY <3>1, <3>2
  <2>5. reactions' \in [Promises -> Seq(Reaction)]
    BY <2>2, <2>3 DEF TypeOK
  <2> QED BY <2>2, <2>3, <2>4, <2>5 DEF TypeOK
<1> QED BY <1>2, <1>3, <1>4, <1>5, <1>6, <1>7, <1>8, <1>9, <1>10 DEF ProgramStep

\* Every return from program code keeps the types.
LEMMA ReturnStepType ==
  ASSUME TypeOK, Return
  PROVE  TypeOK'
<1>1. /\ "rejected" \in Settled /\ "fulfilled" \in Settled
      /\ microtasks \in Seq(Job) /\ unhandled \in SUBSET Promises
  BY DEF Settled, TypeOK
<1>2. /\ frames' \in Seq(Frame)
      /\ Last(frames) \in Frame
  <2>1. frames # <<>> /\ PopFrame
    BY DEF Return, ExecutorReturns, ExecutorThrows, HandlerThrows, FinallyReturns, HandlerReturnsValue,
           HandlerReturnsPromise, ThenJobReturns, ThenJobThrows, EndCallback, TickDone, AwaitDone,
           AwaitGivesUp, InExecutor, InHandler, InThenJob, Code, In
  <2> QED BY <2>1, FramesType
<1>3. ASSUME ExecutorReturns \/ ExecutorThrows
      PROVE  TypeOK'
  <2>1. Last(frames).derived \in Promises
    BY <1>2, <1>3, FrameFields DEF ExecutorReturns, ExecutorThrows, InExecutor
  <2>2. CASE ExecutorReturns
    BY <1>2, <2>2 DEF ExecutorReturns, TypeOK
  <2>3. CASE ExecutorThrows
    <3>1. fate' \in [Promises -> {None} \cup Settled \cup Promises]
      BY <1>1, <2>1, <2>3, AskedType DEF ExecutorThrows
    <3>2. /\ state' \in [Promises -> {"none", "pending"} \cup Settled]
          /\ overridden' \in SUBSET Promises
      <4>1. CASE state[Last(frames).derived] = "pending"
        <5>1. /\ overridden' = overridden \cup {Last(frames).derived}
              /\ state' = [state EXCEPT ![Last(frames).derived] = "rejected"]
          BY <2>3, <4>1 DEF ExecutorThrows
        <5>2. state \in [Promises -> {"none", "pending"} \cup Settled] /\ overridden \in SUBSET Promises
          BY <1>1 DEF TypeOK
        <5>3. "rejected" \in Settled
          BY DEF Settled
        <5> QED BY <2>1, <5>1, <5>2, <5>3
      <4>2. CASE state[Last(frames).derived] # "pending"
        BY <2>3, <4>2 DEF ExecutorThrows, TypeOK
      <4> QED BY <4>1, <4>2
    <3>3. /\ hidden' = hidden \ {Last(frames).derived}
          /\ UNCHANGED <<pair, reactions, microtasks, unhandled, awaited, turns, exited, reported,
                         handled, attached, started>>
      BY <2>3 DEF ExecutorThrows
    <3> QED BY <1>2, <2>1, <3>1, <3>2, <3>3 DEF TypeOK
  <2> QED BY <1>3, <2>2, <2>3
<1>4. ASSUME HandlerThrows \/ FinallyReturns \/ HandlerReturnsValue
      PROVE  TypeOK'
  <2>1. Done \in ReactionJobs
    BY <1>2, <1>4, FrameFields DEF HandlerThrows, FinallyReturns, HandlerReturnsValue, InHandler, Done
  <2>2. Done.derived \in Promises /\ Done.state \in Settled
    BY <2>1 DEF ReactionJobs
  <2>3. PICK s \in Settled : SettleIn(state, Done.derived, s, microtasks, unhandled)
    BY <1>1, <1>4, <2>2 DEF HandlerThrows, FinallyReturns, HandlerReturnsValue, Settle
  <2>4. UNCHANGED <<pair, hidden, turns, exited, reported, handled, attached, started, fate, overridden>>
    BY <1>4 DEF HandlerThrows, FinallyReturns, HandlerReturnsValue
  <2> QED BY <1>1, <1>2, <2>2, <2>3, <2>4, SettleType DEF TypeOK
<1>5. ASSUME NEW q \in Promises, HandlerReturnsPromise(q)
      PROVE  TypeOK'
  <2>1. Done \in ReactionJobs
    BY <1>2, <1>5, FrameFields DEF HandlerReturnsPromise, InHandler, Done
  <2>2. Done.derived \in Promises
    BY <2>1 DEF ReactionJobs
  <2>3. Adopt(Done.derived, q, microtasks) /\ state[q] # "none"
    BY <1>5 DEF HandlerReturnsPromise, Named, Made
  <2>4. UNCHANGED <<pair, hidden, turns, exited, reported, started, fate, overridden>>
    BY <1>5 DEF HandlerReturnsPromise
  <2> QED BY <1>2, <2>2, <2>3, <2>4, AdoptType DEF TypeOK
<1>6. ASSUME ThenJobThrows
      PROVE  TypeOK'
  <2>1. Done.derived \in Promises
    BY <1>2, <1>6, FrameFields DEF ThenJobThrows, InThenJob, Done
  <2>2. /\ SettleIn(state, Done.derived, "rejected", microtasks, unhandled)
        /\ fate' = Asked(Done.derived, "rejected")
        /\ pair' = [pair EXCEPT ![Done.derived] = "fired"]
        /\ UNCHANGED <<hidden, turns, exited, reported, handled, attached, started, overridden>>
    BY <1>6 DEF ThenJobThrows, Settle
  <2>3. fate' \in [Promises -> {None} \cup Settled \cup Promises]
    BY <1>1, <2>1, <2>2, AskedType
  <2> QED BY <1>1, <1>2, <2>1, <2>2, <2>3, SettleType DEF TypeOK
<1>7. ASSUME ThenJobReturns \/ EndCallback \/ AwaitGivesUp
      PROVE  TypeOK'
  BY <1>2, <1>7 DEF ThenJobReturns, EndCallback, AwaitGivesUp, TypeOK
<1>8. ASSUME TickDone \/ AwaitDone
      PROVE  TypeOK'
  <2>1. Last(frames).on \in Promises
    BY <1>2, <1>8, FrameFields DEF TickDone, AwaitDone, In
  <2> QED BY <1>2, <1>8, <2>1 DEF TickDone, AwaitDone, Observe, TypeOK
<1> QED BY <1>3, <1>4, <1>5, <1>6, <1>7, <1>8 DEF Return

\* Every job that begins keeps the types.
LEMMA DrainStepType ==
  ASSUME TypeOK, Drain
  PROVE  TypeOK'
<1>1. /\ BeginJob /\ microtasks # <<>> /\ MayDrain
      /\ unhandled \in SUBSET Promises
  BY DEF Drain, PassThrough, CallHandler, BeginJob, TypeOK
<1>2. NextJob \in Job /\ Tail(microtasks) \in Seq(Job)
  BY <1>1, HeadTailProperties DEF NextJob, TypeOK
<1>3. Drained \in Seq(Frame)
  BY <1>1, DrainedType
<1>4. started' \in Seq(Reaction)
  <2>1. CASE NextJob.kind = "thenable"
    BY <1>1, <2>1 DEF BeginJob, TypeOK
  <2>2. CASE NextJob.kind # "thenable"
    <3>1. [from |-> NextJob.from, kind |-> NextJob.kind, derived |-> NextJob.derived] \in Reaction
      BY <1>2, <2>2, JobFields DEF ReactionJobs, Reaction
    <3> QED BY <1>1, <2>2, <3>1, AppendProperties DEF BeginJob, TypeOK
  <2> QED BY <2>1, <2>2
<1>5. CASE PassThrough
  <2>1. NextJob.derived \in Promises /\ NextJob.state \in Settled
    BY <1>2, <1>5, JobFields DEF PassThrough, ReactionJobs
  <2>2. SettleIn(state, NextJob.derived, NextJob.state, Tail(microtasks), unhandled)
    BY <1>5 DEF PassThrough, Settle
  <2> QED BY <1>1, <1>2, <1>3, <1>4, <1>5, <2>1, <2>2, SettleType DEF PassThrough, TypeOK
<1>6. CASE CallHandler
  <2>1. NextJob \in Frame
    BY <1>2, JobFields
  <2>2. frames' \in Seq(Frame)
    BY <1>3, <1>6, <2>1, AppendProperties DEF CallHandler
  <2> QED BY <1>2, <1>4, <1>6, <2>2 DEF CallHandler, TypeOK
<1> QED BY <1>5, <1>6 DEF Drain

\* Every callback the loop begins keeps the types.
LEMMA BeginCallbackType ==
  ASSUME TypeOK, BeginCallback
  PROVE  TypeOK'
<1>1. turns' \in 0..MaxTurns
  BY ConstantsAssumption DEF BeginCallback, TypeOK
<1>2. frames' \in Seq(Frame)
  <2>1. [kind |-> "callback"] \in Frame /\ [kind |-> "script"] \in Frame
    BY DEF Frame, CodeFrame
  <2>2. CASE PushFrame([kind |-> IF turns = 0 THEN "script" ELSE "callback"])
    BY <2>1, <2>2, FramesType
  <2>3. CASE In("await") /\ frames' = Front(frames) \o <<[Last(frames) EXCEPT !.draining = FALSE],
                                                        [kind |-> "callback"]>>
    <3>1. Last(frames) \in Frame /\ Front(frames) \in Seq(Frame)
      BY <2>3, FrontProperties DEF In, TypeOK
    <3>2. Last(frames) \in [kind : {"await"}, on : Promises, draining : BOOLEAN]
      BY <2>3, <3>1, FrameFields DEF In
    <3>3. [Last(frames) EXCEPT !.draining = FALSE] \in [kind : {"await"}, on : Promises, draining : BOOLEAN]
      BY <3>2
    <3>4. [Last(frames) EXCEPT !.draining = FALSE] \in Frame
      BY <3>3 DEF Frame, DrainFrame
    <3>5. <<[Last(frames) EXCEPT !.draining = FALSE], [kind |-> "callback"]>> \in Seq(Frame)
      BY <2>1, <3>4
    <3> QED BY <2>3, <3>1, <3>5, ConcatProperties
  <2> QED BY <2>2, <2>3 DEF BeginCallback
<1> QED BY <1>1, <1>2 DEF BeginCallback, TypeOK

\* Every step keeps the types.
LEMMA NextType ==
  ASSUME TypeOK, [Next]_vars
  PROVE  TypeOK'
<1>1. CASE UNCHANGED vars \/ Exited
  BY <1>1 DEF Exited, vars, TypeOK
<1>2. CASE ExitLoop
  BY <1>2 DEF ExitLoop, TypeOK
<1> QED BY <1>1, <1>2, ProgramStepType, ReturnStepType, DrainStepType, BeginCallbackType DEF Next

\* The program starts well typed.
LEMMA InitType ==
  ASSUME Init
  PROVE  TypeOK
<1>1. <<>> \in Seq(Reaction) /\ <<>> \in Seq(Job) /\ <<>> \in Seq(Frame)
  OBVIOUS
<1>2. reactions \in [Promises -> Seq(Reaction)] /\ turns \in 0..MaxTurns
  BY <1>1, ConstantsAssumption DEF Init
<1> QED BY <1>1, <1>2 DEF Init, TypeOK

\* Promises, reactions, jobs and frames always have their types: no reaction,
\* job or frame ever holds anything but promises that may exist.
THEOREM TypeCorrect == Spec => []TypeOK
<1>1. Init => TypeOK
  BY InitType
<1> QED BY <1>1, NextType, PTL DEF Spec

-----------------------------------------------------------------------------
(* Settlements are final *)

\* What a step does to a promise: it is made, pending or rejected, or it settles.
LEMMA StateStep ==
  ASSUME TypeOK, [Next]_vars, NEW x \in Promises, state'[x] # state[x]
  PROVE  \/ state[x] = "none" /\ state'[x] \in {"pending", "rejected"}
         \/ state[x] = "pending" /\ state'[x] \in Settled
<1> DEFINE Goal == \/ state[x] = "none" /\ state'[x] \in {"pending", "rejected"}
                   \/ state[x] = "pending" /\ state'[x] \in Settled
<1>1. ASSUME NEW p \in Promises, NEW s \in Settled, NEW queue, NEW open, SettleIn(state, p, s, queue, open)
      PROVE  Goal
  BY <1>1 DEF SettleIn, TypeOK
<1>2. ASSUME NEW d \in Promises, NEW q \in Named, Adopt(d, q, microtasks)
      PROVE  Goal
  <2>1. state[q] # "pending" => state[q] \in Settled
    BY <1>2 DEF Named, Made, TypeOK
  <2> QED BY <1>1, <1>2, <2>1 DEF Adopt
<1>3. "rejected" \in Settled /\ "fulfilled" \in Settled
  BY DEF Settled
<1>4. frames # <<>> => Last(frames) \in Frame
  BY FramesType
<1>5. CASE ProgramStep
  <2>1. ASSUME NEW p \in Promises,
               CallReject(p) \/ ResolveValue(p) \/ ResolveSelf(p)
        PROVE  Goal
    BY <1>1, <1>3, <2>1 DEF CallReject, ResolveValue, ResolveSelf, Settle
  <2>2. ASSUME NEW p \in Promises,
               \/ Construct(p) \/ NewRejected(p)
               \/ AwaitPending(p) \/ AwaitSettled(p) \/ MainAwait(p)
        PROVE  Goal
    BY <2>2 DEF Construct, NewRejected, AwaitPending, AwaitSettled, MainAwait, Fresh, TypeOK
  <2>3. ASSUME NEW p \in Promises, NEW q \in Promises, ResolvePromise(p, q)
        PROVE  Goal
    BY <1>2, <2>3 DEF ResolvePromise
  <2>4. ASSUME NEW p \in Promises, NEW q \in Promises,
               ResolveThenable(p, q) \/ \E kind \in Kind : Then(p, kind, q)
        PROVE  Goal
    BY <2>4 DEF ResolveThenable, Then, Fresh, TypeOK
  <2> QED BY <1>5, <2>1, <2>2, <2>3, <2>4 DEF ProgramStep
<1>6. CASE Return
  <2>1. ASSUME HandlerThrows \/ FinallyReturns \/ HandlerReturnsValue
        PROVE  Goal
    <3>1. Done \in ReactionJobs
      BY <1>4, <2>1, FrameFields
         DEF HandlerThrows, FinallyReturns, HandlerReturnsValue, InHandler, Code, Done
    <3>2. Done.derived \in Promises /\ Done.state \in Settled
      BY <3>1 DEF ReactionJobs
    <3> QED BY <1>1, <1>3, <2>1, <3>2 DEF HandlerThrows, FinallyReturns, HandlerReturnsValue, Settle
  <2>2. ASSUME NEW q \in Promises, HandlerReturnsPromise(q)
        PROVE  Goal
    <3>1. Done \in ReactionJobs
      BY <1>4, <2>2, FrameFields DEF HandlerReturnsPromise, InHandler, Code, Done
    <3>2. Done.derived \in Promises
      BY <3>1 DEF ReactionJobs
    <3> QED BY <1>2, <2>2, <3>2 DEF HandlerReturnsPromise
  <2>3. CASE ThenJobThrows
    <3>1. Done.derived \in Promises
      BY <1>4, <2>3, FrameFields DEF ThenJobThrows, InThenJob, Code, Done
    <3> QED BY <1>1, <1>3, <2>3, <3>1 DEF ThenJobThrows, Settle
  <2>4. CASE ExecutorThrows
    BY <1>3, <2>4 DEF ExecutorThrows, TypeOK
  <2>5. CASE ExecutorReturns \/ ThenJobReturns \/ EndCallback \/ TickDone \/ AwaitDone \/ AwaitGivesUp
    BY <2>5 DEF ExecutorReturns, ThenJobReturns, EndCallback, TickDone, AwaitDone, AwaitGivesUp
  <2> QED BY <1>6, <2>1, <2>2, <2>3, <2>4, <2>5 DEF Return
<1>7. CASE PassThrough
  <2>1. NextJob \in Job
    BY <1>7, HeadTailProperties DEF PassThrough, BeginJob, NextJob, TypeOK
  <2>2. NextJob.derived \in Promises /\ NextJob.state \in Settled
    BY <1>7, <2>1, JobFields DEF PassThrough, ReactionJobs
  <2> QED BY <1>1, <1>7, <2>2 DEF PassThrough, Settle
<1>8. CASE CallHandler \/ BeginCallback \/ ExitLoop \/ Exited \/ UNCHANGED vars
  BY <1>8 DEF CallHandler, BeginCallback, ExitLoop, Exited, vars
<1> QED BY <1>5, <1>6, <1>7, <1>8 DEF Next, Drain

\* settlePromise settles a promise once: no resolver, handler, job or executor
\* ever changes a settlement.
THEOREM SettlementsFinal == Spec => SettledForever
<1>1. TypeOK /\ [Next]_vars => [\A p \in Promises : state[p] \in Settled => state'[p] = state[p]]_vars
  BY StateStep DEF Settled
<1> QED BY <1>1, TypeCorrect, PTL DEF Spec, SettledForever

-----------------------------------------------------------------------------
(* The inductive invariant behind ReactionsKept.  That the first call decides,
   that a settlement flows through and that no promise is forgotten all rest on
   one thing: where each reaction ever made stands, and that it stands there
   once. *)

\* The reactions there are, and where each of them is.
Attached == Range(attached)
Started == Range(started)
ReactionOf(j) == [from |-> j.from, kind |-> j.kind, derived |-> j.derived]
ReactionsIn(seq) == {ReactionOf(j) : j \in {j \in Range(seq) : j.kind \in Kind}}
Waiting == UNION {Range(reactions[p]) : p \in Promises}
Queued == ReactionsIn(microtasks)
Running == ReactionsIn(frames)
Active == Waiting \cup Queued \cup Running

\* A reaction waits at its pending promise, then is a job, then has begun; a job
\* and a handler that runs carry the settlement of their promise.
PlacesInv ==
  /\ \A p \in Promises : \A r \in Range(reactions[p]) :
       r \in Attached /\ r.from = p /\ state[p] = "pending"
  /\ \A j \in Range(microtasks) : j.kind \in Kind =>
       ReactionOf(j) \in Attached \ Started /\ state[j.from] = j.state
  /\ \A f \in Range(frames) : f.kind \in Kind =>
       ReactionOf(f) \in Started /\ state[f.from] = f.state /\ HandlerFor(f.kind, f.state)
  /\ \A r \in Started : r \in Attached /\ state[r.from] \in Settled
  /\ Attached \subseteq Waiting \cup Queued \cup Started

\* The same reaction is nowhere twice.
SameReaction(seq, i, j) ==
  seq[i].kind \in Kind /\ seq[j].kind \in Kind /\ ReactionOf(seq[i]) = ReactionOf(seq[j])
ReactionsOnce(seq) == \A i, j \in DOMAIN seq : SameReaction(seq, i, j) => i = j
DistinctInv ==
  /\ \A i, j \in DOMAIN attached : attached[i] = attached[j] => i = j
  /\ \A i, j \in DOMAIN started : started[i] = started[j] => i = j
  /\ \A p \in Promises : \A i, j \in DOMAIN reactions[p] : reactions[p][i] = reactions[p][j] => i = j
  /\ ReactionsOnce(microtasks)
  /\ ReactionsOnce(frames)

\* How far the resolver pair of a promise is, and what was asked of it.
PairInv ==
  /\ \A p \in Promises :
       /\ state[p] = "none" => pair[p] = "none"
       /\ pair[p] = "none" => fate[p] = None
       /\ pair[p] = "open" => (state[p] = "pending" /\ fate[p] = None) \/ p \in overridden
       /\ pair[p] = "fired" => fate[p] # None
       /\ p \in overridden => state[p] = "rejected" /\ fate[p] # None
       /\ fate[p] \in Promises => state[fate[p]] # "none"
  /\ \A j \in Range(microtasks) : j.kind = "thenable" => pair[j.derived] # "none"
  /\ \A f \in Range(frames) : f.kind \in {"executor", "thenable"} => pair[f.derived] # "none"

\* What settles a promise: its pair, or one reaction; of two reactions for one
\* promise, one is that of a handler that returned the promise the other follows.
Returned(r) == r.kind # "follow" /\ r \in Started \ Running /\ HandlerFor(r.kind, state[r.from])
OriginInv ==
  /\ \A r \in Attached :
       /\ state[r.derived] # "none"
       /\ pair[r.derived] # "open"
       /\ pair[r.derived] = "fired" =>
            r.kind = "follow" /\ (r.derived \in overridden \/ fate[r.derived] = r.from)
  /\ \A r, s \in Attached : r.derived = s.derived =>
       \/ r = s
       \/ r.kind = "follow" /\ Returned(s)
       \/ s.kind = "follow" /\ Returned(r)
  /\ \A r \in Active : state[r.derived] = "pending" \/ r.derived \in overridden

\* A pending promise whose pair is not open has a reaction still to act.
ChainInv ==
  \A p \in Promises : state[p] = "pending" /\ pair[p] # "open" => \E r \in Active : r.derived = p

\* A pending promise counts as handled while something waits for it.
HandledInv ==
  /\ \A p \in Promises : state[p] = "pending" =>
       (p \in handled <=> reactions[p] # <<>> \/ p \in awaited)
  /\ \A p \in awaited : state[p] = "pending"
  /\ \A p \in handled \cup hidden : state[p] # "none"
  /\ UnhandledExact

\* Nothing can wait for a promise while its executor runs.
ExecutorsOnce(seq) ==
  \A i, j \in DOMAIN seq :
    seq[i].kind = "executor" /\ seq[j].kind = "executor" /\ seq[i].derived = seq[j].derived => i = j
ExecutorInv ==
  /\ \A f \in Range(frames) : f.kind = "executor" =>
       f.derived \in hidden \ handled /\ reactions[f.derived] = <<>>
  /\ ExecutorsOnce(frames)

\* What an await that drains where it stands waits for is known to program code;
\* a tick is of a settled promise.
AwaitsInv ==
  \A f \in Range(frames) : f.kind \in {"tick", "await"} =>
    f.on \notin hidden /\ state[f.on] # "none" /\ (f.kind = "tick" => state[f.on] \in Settled)

\* Reactions of one promise keep their order on their way.
Before(seq, y, r) == \E x \in 1..(y - 1) : seq[x] = r
OrderOf(queue, begun) ==
  \A j \in DOMAIN attached : \A i \in 1..(j - 1) : attached[i].from = attached[j].from =>
    /\ \A y \in DOMAIN begun : begun[y] = attached[j] => Before(begun, y, attached[i])
    /\ \A y \in DOMAIN queue :
         queue[y].kind \in Kind /\ ReactionOf(queue[y]) = attached[j] =>
           \/ attached[i] \in Range(begun)
           \/ \E x \in 1..(y - 1) : queue[x].kind \in Kind /\ ReactionOf(queue[x]) = attached[i]
WaitingInOrder ==
  \A p \in Promises : \A y \in DOMAIN reactions[p] : \A j \in DOMAIN attached : \A i \in 1..(j - 1) :
    reactions[p][y] = attached[j] /\ attached[i].from = p => Before(reactions[p], y, attached[i])
OrderInv == OrderOf(microtasks, started) /\ WaitingInOrder

IInv ==
  /\ TypeOK /\ PlacesInv /\ DistinctInv /\ PairInv /\ OriginInv
  /\ ChainInv /\ HandledInv /\ ExecutorInv /\ OrderInv
  /\ FirstCallDecides /\ PassThroughKeepsState

-----------------------------------------------------------------------------
(* Where the elements of a sequence go *)

\* The elements of a sequence that grew or lost its head or its last element.
LEMMA RangeFacts ==
  ASSUME NEW S, NEW s \in Seq(S)
  PROVE  /\ Range(s) \in SUBSET S
         /\ \A x : x \in Range(s) <=> \E i \in DOMAIN s : s[i] = x
         /\ Range(<<>>) = {}
         /\ s = <<>> <=> Range(s) = {}
         /\ \A e \in S : Range(Append(s, e)) = Range(s) \cup {e}
         /\ \A t \in Seq(S) : Range(s \o t) = Range(s) \cup Range(t)
         /\ s # <<>> => Range(s) = {Head(s)} \cup Range(Tail(s))
         /\ s # <<>> => Range(s) = Range(Front(s)) \cup {Last(s)}
<1>1. Range(s) \in SUBSET S /\ \A x : x \in Range(s) <=> \E i \in DOMAIN s : s[i] = x
  BY DEF Range
<1>2. Range(<<>>) = {} /\ (s = <<>> <=> Range(s) = {})
  BY EmptySeq, LenProperties DEF Range
<1>3. ASSUME NEW e \in S
      PROVE  Range(Append(s, e)) = Range(s) \cup {e}
  <2>1. /\ Append(s, e) \in Seq(S)
        /\ Len(Append(s, e)) = Len(s) + 1
        /\ \A i \in 1..Len(s) : Append(s, e)[i] = s[i]
        /\ Append(s, e)[Len(s) + 1] = e
    BY AppendProperties
  <2>2. DOMAIN Append(s, e) = 1..(Len(s) + 1) /\ DOMAIN s = 1..Len(s) /\ Len(s) \in Nat
    BY <2>1, LenProperties
  <2>3. ASSUME NEW x \in Range(Append(s, e))
        PROVE  x \in Range(s) \cup {e}
    BY <2>1, <2>2 DEF Range
  <2>4. ASSUME NEW x \in Range(s) \cup {e}
        PROVE  x \in Range(Append(s, e))
    <3>1. CASE x = e
      BY <2>1, <2>2, <3>1 DEF Range
    <3>2. CASE x \in Range(s)
      <4>1. PICK i \in DOMAIN s : s[i] = x
        BY <3>2 DEF Range
      <4>2. i \in DOMAIN Append(s, e) /\ Append(s, e)[i] = x
        BY <2>1, <2>2, <4>1
      <4> QED BY <4>2 DEF Range
    <3> QED BY <2>4, <3>1, <3>2
  <2> QED BY <2>3, <2>4
<1>4. \A t \in Seq(S) : Range(s \o t) = Range(s) \cup Range(t)
  BY RangeConcatenation
<1>5. ASSUME s # <<>>
      PROVE  Range(s) = {Head(s)} \cup Range(Tail(s))
  <2>1. /\ Tail(s) \in Seq(S) /\ Len(Tail(s)) = Len(s) - 1
        /\ \A i \in 1..Len(Tail(s)) : Tail(s)[i] = s[i + 1]
        /\ Head(s) = s[1]
    BY <1>5, HeadTailProperties
  <2>2. DOMAIN s = 1..Len(s) /\ DOMAIN Tail(s) = 1..(Len(s) - 1) /\ Len(s) \in Nat \ {0}
    BY <1>5, <2>1, LenProperties, EmptySeq
  <2>3. ASSUME NEW x \in Range(s)
        PROVE  x \in {Head(s)} \cup Range(Tail(s))
    <3>1. PICK i \in 1..Len(s) : s[i] = x
      BY <2>2 DEF Range
    <3>2. CASE i = 1
      BY <2>1, <3>1, <3>2
    <3>3. CASE i # 1
      <4>1. i - 1 \in DOMAIN Tail(s) /\ Tail(s)[i - 1] = x
        BY <2>1, <2>2, <3>1, <3>3
      <4> QED BY <4>1 DEF Range
    <3> QED BY <3>2, <3>3
  <2>4. ASSUME NEW x \in {Head(s)} \cup Range(Tail(s))
        PROVE  x \in Range(s)
    <3>1. CASE x = Head(s)
      BY <2>1, <2>2, <3>1 DEF Range
    <3>2. CASE x \in Range(Tail(s))
      <4>1. PICK i \in DOMAIN Tail(s) : Tail(s)[i] = x
        BY <3>2 DEF Range
      <4>2. i + 1 \in DOMAIN s /\ s[i + 1] = x
        BY <2>1, <2>2, <4>1
      <4> QED BY <4>2 DEF Range
    <3> QED BY <2>4, <3>1, <3>2
  <2> QED BY <2>3, <2>4
<1>6. ASSUME s # <<>>
      PROVE  Range(s) = Range(Front(s)) \cup {Last(s)}
  <2>1. /\ Front(s) \in Seq(S) /\ Len(Front(s)) = Len(s) - 1
        /\ Len(s) \in DOMAIN s /\ Last(s) = s[Len(s)]
        /\ \A i \in DOMAIN Front(s) : i \in DOMAIN s /\ i < Len(s) /\ Front(s)[i] = s[i]
    BY <1>6, FrontProperties
  <2>2. DOMAIN s = 1..Len(s) /\ DOMAIN Front(s) = 1..(Len(s) - 1) /\ Len(s) \in Nat \ {0}
    BY <1>6, <2>1, LenProperties, EmptySeq
  <2>3. ASSUME NEW x \in Range(s)
        PROVE  x \in Range(Front(s)) \cup {Last(s)}
    <3>1. PICK i \in 1..Len(s) : s[i] = x
      BY <2>2 DEF Range
    <3>2. CASE i = Len(s)
      BY <2>1, <3>1, <3>2
    <3>3. CASE i # Len(s)
      <4>1. i \in DOMAIN Front(s) /\ Front(s)[i] = x
        BY <2>1, <2>2, <3>1, <3>3
      <4> QED BY <4>1 DEF Range
    <3> QED BY <3>2, <3>3
  <2>4. ASSUME NEW x \in Range(Front(s)) \cup {Last(s)}
        PROVE  x \in Range(s)
    BY <2>1, <2>4 DEF Range
  <2> QED BY <2>3, <2>4
<1> QED BY <1>1, <1>2, <1>3, <1>4, <1>5, <1>6

\* The reactions among the elements of such a sequence.
LEMMA ReactionsInFacts ==
  ASSUME NEW S, NEW s \in Seq(S)
  PROVE  /\ \A r : r \in ReactionsIn(s) <=> \E j \in Range(s) : j.kind \in Kind /\ ReactionOf(j) = r
         /\ \A e \in S : ReactionsIn(Append(s, e)) =
              ReactionsIn(s) \cup (IF e.kind \in Kind THEN {ReactionOf(e)} ELSE {})
         /\ \A t \in Seq(S) : ReactionsIn(s \o t) = ReactionsIn(s) \cup ReactionsIn(t)
         /\ s # <<>> => ReactionsIn(s) =
              ReactionsIn(Tail(s)) \cup (IF Head(s).kind \in Kind THEN {ReactionOf(Head(s))} ELSE {})
<1>1. \A q : \A r : r \in ReactionsIn(q) <=> \E j \in Range(q) : j.kind \in Kind /\ ReactionOf(j) = r
  BY DEF ReactionsIn
<1> QED BY <1>1, RangeFacts

\* The frames other than drains and callbacks, at their places.
Work == Kind \cup {"executor", "thenable"}
WorkAt(seq) == {i \in DOMAIN seq : seq[i].kind \in Work}
Agree(new, old) == \A i \in WorkAt(new) : i \in WorkAt(old) /\ new[i] = old[i]
SameWork == Agree(frames', frames) /\ Agree(frames, frames')
PoppedWork ==
  /\ Agree(frames', frames)
  /\ Len(frames) \in WorkAt(frames) \ WorkAt(frames')
  /\ \A i \in WorkAt(frames) : i # Len(frames) => i \in WorkAt(frames') /\ frames'[i] = frames[i]

\* Replacing or dropping a drain or a callback on top leaves the work alone;
\* dropping work drops just that.
LEMMA FrontWork ==
  ASSUME TypeOK, frames # <<>>, frames' = Front(frames)
  PROVE  /\ Last(frames).kind \notin Work => SameWork
         /\ Last(frames).kind \in Work => PoppedWork
<1>1. frames \in Seq(Frame)
  BY DEF TypeOK
<1>2. /\ Len(Front(frames)) = Len(frames) - 1 /\ Front(frames) \in Seq(Frame)
      /\ Len(frames) \in DOMAIN frames /\ Last(frames) = frames[Len(frames)]
      /\ \A i \in DOMAIN Front(frames) : i \in DOMAIN frames /\ i < Len(frames) /\ Front(frames)[i] = frames[i]
  BY <1>1, FrontProperties
<1>3. DOMAIN frames = 1..Len(frames) /\ DOMAIN Front(frames) = 1..(Len(frames) - 1) /\ Len(frames) \in Nat
  BY <1>1, <1>2, LenProperties
<1>4. \A i \in DOMAIN frames : i # Len(frames) => i \in DOMAIN Front(frames) /\ Front(frames)[i] = frames[i]
  BY <1>2, <1>3
<1> QED BY <1>2, <1>4 DEF SameWork, PoppedWork, Agree, WorkAt

\* Pushing a frame adds the work it does.
LEMMA AppendWork ==
  ASSUME TypeOK, NEW base \in Seq(Frame), NEW f \in Frame, frames' = Append(base, f),
         Agree(base, frames), Agree(frames, base)
  PROVE  /\ f.kind \notin Work => SameWork
         /\ \A i \in WorkAt(frames) : i \in WorkAt(frames') /\ frames'[i] = frames[i]
         /\ \A i \in WorkAt(frames') : (i \in WorkAt(frames) /\ frames'[i] = frames[i]) \/ frames'[i] = f
         /\ \A i, j \in WorkAt(frames') : i \notin WorkAt(frames) /\ j \notin WorkAt(frames) => i = j
         /\ f.kind \in Work => \E i \in WorkAt(frames') : frames'[i] = f
<1> DEFINE n == Len(base) + 1
<1>1. /\ Append(base, f) \in Seq(Frame) /\ Len(Append(base, f)) = n
      /\ \A i \in 1..Len(base) : Append(base, f)[i] = base[i]
      /\ Append(base, f)[n] = f
  BY AppendProperties
<1>2. DOMAIN base = 1..Len(base) /\ DOMAIN Append(base, f) = 1..n /\ Len(base) \in Nat
  BY <1>1, LenProperties
<1>3. \A i \in DOMAIN base : i \in DOMAIN frames' /\ frames'[i] = base[i] /\ i # n
  BY <1>1, <1>2
<1>4. \A i \in DOMAIN frames' : i \in DOMAIN base \/ i = n
  BY <1>2
<1>5. n \in DOMAIN frames' /\ frames'[n] = f
  BY <1>1, <1>2
<1> HIDE DEF n
<1>6. \A i \in WorkAt(frames) : i \in WorkAt(frames') /\ frames'[i] = frames[i]
  BY <1>3 DEF Agree, WorkAt
<1>7. \A i \in WorkAt(frames') : (i \in WorkAt(frames) /\ frames'[i] = frames[i]) \/ i = n
  BY <1>3, <1>4 DEF Agree, WorkAt
<1>8. f.kind \notin Work => n \notin WorkAt(frames')
  BY <1>5 DEF WorkAt
<1>9. f.kind \in Work => n \in WorkAt(frames')
  BY <1>5 DEF WorkAt
<1> QED BY <1>5, <1>6, <1>7, <1>8, <1>9 DEF SameWork, Agree

\* The frame a drain leaves behind does no work of its own.
LEMMA DrainedWork ==
  ASSUME TypeOK, MayDrain
  PROVE  Agree(Drained, frames) /\ Agree(frames, Drained)
<1>1. frames \in Seq(Frame)
  BY DEF TypeOK
<1>2. CASE frames = <<>>
  BY <1>2 DEF Drained, Agree, WorkAt
<1>3. CASE frames # <<>>
  <2> DEFINE top == IF In("tick") THEN [Last(frames) EXCEPT !.left = @ - 1]
                    ELSE [Last(frames) EXCEPT !.draining = TRUE]
  <2>1. /\ Len(Front(frames)) = Len(frames) - 1 /\ Front(frames) \in Seq(Frame)
        /\ Len(frames) \in DOMAIN frames /\ Last(frames) = frames[Len(frames)]
        /\ \A i \in DOMAIN Front(frames) : i \in DOMAIN frames /\ i < Len(frames) /\ Front(frames)[i] = frames[i]
        /\ Last(frames) \in Frame
    BY <1>1, <1>3, FrontProperties
  <2>2. Drained = Append(Front(frames), top) /\ Drained \in Seq(Frame)
    BY <1>3, DrainedType DEF Drained
  <2>3. Last(frames).kind \in {"tick", "await"}
    BY <1>3 DEF MayDrain, In
  <2>4. top.kind = Last(frames).kind
    <3>1. CASE Last(frames).kind = "tick"
      <4>1. Last(frames) \in [kind : {"tick"}, on : Promises, left : Nat]
        BY <2>1, <3>1, FrameFields
      <4> QED BY <1>3, <3>1, <4>1 DEF In
    <3>2. CASE Last(frames).kind = "await"
      <4>1. Last(frames) \in [kind : {"await"}, on : Promises, draining : BOOLEAN]
        BY <2>1, <3>2, FrameFields
      <4> QED BY <1>3, <3>2, <4>1 DEF In
    <3> QED BY <2>3, <3>1, <3>2
  <2> HIDE DEF top
  <2>5. /\ Len(Drained) = Len(frames) /\ Drained[Len(frames)] = top
        /\ \A i \in DOMAIN Front(frames) : Drained[i] = frames[i]
    BY <1>1, <2>1, <2>2, LenProperties
  <2>6. DOMAIN frames = 1..Len(frames) /\ DOMAIN Drained = 1..Len(frames)
        /\ DOMAIN Front(frames) = 1..(Len(frames) - 1) /\ Len(frames) \in Nat
    BY <1>1, <2>1, <2>2, <2>5, LenProperties
  <2>7. \A i \in DOMAIN frames : i \in DOMAIN Front(frames) \/ i = Len(frames)
    BY <2>6
  <2>8. Last(frames).kind \notin Work
    BY <2>3 DEF Work, Kind
  <2> QED BY <2>1, <2>4, <2>5, <2>6, <2>7, <2>8 DEF Agree, WorkAt
<1> QED BY <1>2, <1>3

\* The handlers that run are among the work.
LEMMA RunningAt ==
  ASSUME NEW seq, NEW r
  PROVE  r \in ReactionsIn(seq) <=> \E i \in WorkAt(seq) : seq[i].kind \in Kind /\ ReactionOf(seq[i]) = r
BY DEF ReactionsIn, Range, WorkAt, Work

\* While the work stays, so does what the invariant says of the frames.
LEMMA SameWorkKept ==
  ASSUME SameWork
  PROVE  /\ Running' = Running
         /\ \A f \in Range(frames') : f.kind \in Work => f \in Range(frames)
         /\ ReactionsOnce(frames) => ReactionsOnce(frames')
         /\ ExecutorsOnce(frames) => ExecutorsOnce(frames')
<1>1. \A i \in DOMAIN frames' : frames'[i].kind \in Work => i \in DOMAIN frames /\ frames'[i] = frames[i]
  BY DEF SameWork, Agree, WorkAt
<1>2. Running' = Running
  <2>1. \A r : r \in Running' <=> r \in Running
    BY RunningAt DEF Running, SameWork, Agree
  <2> QED BY <2>1
<1>3. \A f \in Range(frames') : f.kind \in Work => f \in Range(frames)
  BY <1>1 DEF Range
<1>4. ReactionsOnce(frames) => ReactionsOnce(frames')
  BY <1>1 DEF ReactionsOnce, SameReaction, Work
<1>5. ExecutorsOnce(frames) => ExecutorsOnce(frames')
  BY <1>1 DEF ExecutorsOnce, Work
<1> QED BY <1>2, <1>3, <1>4, <1>5

\* Work that ends is gone, and the rest stays.
LEMMA PoppedWorkKept ==
  ASSUME PoppedWork, ReactionsOnce(frames), ExecutorsOnce(frames), Last(frames) = frames[Len(frames)]
  PROVE  /\ Last(frames).kind \notin Kind => Running' = Running
         /\ Last(frames).kind \in Kind =>
              ReactionOf(Last(frames)) \in Running /\ Running' = Running \ {ReactionOf(Last(frames))}
         /\ Last(frames) \in Range(frames)
         /\ \A f \in Range(frames') : f.kind \in Work => f \in Range(frames)
         /\ Last(frames).kind = "executor" =>
              \A f \in Range(frames') : f.kind = "executor" => f.derived # Last(frames).derived
         /\ ReactionsOnce(frames')
         /\ ExecutorsOnce(frames')
<1> DEFINE n == Len(frames)
<1>1. \A i \in DOMAIN frames' : frames'[i].kind \in Work =>
        i \in WorkAt(frames) /\ i \in DOMAIN frames /\ frames'[i] = frames[i] /\ i # n
  BY DEF PoppedWork, Agree, WorkAt
<1>2. n \in WorkAt(frames) /\ n \in DOMAIN frames /\ Last(frames) = frames[n]
  BY DEF PoppedWork, WorkAt
<1>3. \A i \in WorkAt(frames) : i # n => i \in WorkAt(frames') /\ i \in DOMAIN frames' /\ frames'[i] = frames[i]
  BY DEF PoppedWork, WorkAt
<1>4. \A i \in WorkAt(frames') : i \in WorkAt(frames) /\ frames'[i] = frames[i] /\ i # n
  BY <1>1 DEF WorkAt
<1> HIDE DEF n
<1>5. ASSUME Last(frames).kind \notin Kind
      PROVE  Running' = Running
  <2>1. \A r : r \in Running' <=> r \in Running
    BY <1>2, <1>3, <1>4, <1>5, RunningAt DEF Running
  <2> QED BY <2>1
<1>6. ASSUME Last(frames).kind \in Kind
      PROVE  ReactionOf(Last(frames)) \in Running /\ Running' = Running \ {ReactionOf(Last(frames))}
  <2>1. ReactionOf(Last(frames)) \in Running
    BY <1>2, <1>6, RunningAt DEF Running
  <2>2. \A i \in WorkAt(frames) : i # n /\ frames[i].kind \in Kind => ReactionOf(frames[i]) # ReactionOf(Last(frames))
    BY <1>2, <1>6 DEF ReactionsOnce, SameReaction, WorkAt
  <2>3. \A r : r \in Running' <=> r \in Running /\ r # ReactionOf(Last(frames))
    BY <1>2, <1>3, <1>4, <2>2, RunningAt DEF Running
  <2> QED BY <2>1, <2>3
<1>7. /\ Last(frames) \in Range(frames)
      /\ \A f \in Range(frames') : f.kind \in Work => f \in Range(frames)
  BY <1>1, <1>2 DEF Range
<1>8. ASSUME Last(frames).kind = "executor"
      PROVE  \A f \in Range(frames') : f.kind = "executor" => f.derived # Last(frames).derived
  <2>1. ASSUME NEW i \in DOMAIN frames', frames'[i].kind = "executor"
        PROVE  frames'[i].derived # Last(frames).derived
    BY <1>1, <1>2, <1>8, <2>1 DEF ExecutorsOnce, Work
  <2> QED BY <2>1 DEF Range
<1>9. ReactionsOnce(frames') /\ ExecutorsOnce(frames')
  BY <1>1 DEF ReactionsOnce, SameReaction, ExecutorsOnce, Work
<1> QED BY <1>5, <1>6, <1>7, <1>8, <1>9

\* New work joins the old.
LEMMA PushedWorkKept ==
  ASSUME TypeOK, NEW base \in Seq(Frame), NEW f \in Frame, frames' = Append(base, f),
         Agree(base, frames), Agree(frames, base), f.kind \in Work,
         ReactionsOnce(frames), ExecutorsOnce(frames),
         f.kind \in Kind => ReactionOf(f) \notin Running,
         f.kind = "executor" => \A g \in Range(frames) : g.kind = "executor" => g.derived # f.derived
  PROVE  /\ f.kind \in Kind => Running' = Running \cup {ReactionOf(f)}
         /\ f.kind \notin Kind => Running' = Running
         /\ \A g \in Range(frames') : g.kind \in Work => g \in Range(frames) \/ g = f
         /\ ReactionsOnce(frames')
         /\ ExecutorsOnce(frames')
<1>1. /\ \A i \in WorkAt(frames) : i \in WorkAt(frames') /\ frames'[i] = frames[i]
      /\ \A i \in WorkAt(frames') : (i \in WorkAt(frames) /\ frames'[i] = frames[i]) \/ frames'[i] = f
      /\ \A i, j \in WorkAt(frames') : i \notin WorkAt(frames) /\ j \notin WorkAt(frames) => i = j
      /\ \E i \in WorkAt(frames') : frames'[i] = f
  BY AppendWork
<1>2. \A i \in DOMAIN frames' : frames'[i].kind \in Work => i \in WorkAt(frames')
  BY DEF WorkAt
<1>3. \A i \in WorkAt(frames) : i \in DOMAIN frames /\ frames[i] \in Range(frames)
  BY DEF WorkAt, Range
<1>4. ASSUME f.kind \in Kind
      PROVE  Running' = Running \cup {ReactionOf(f)}
  <2>1. \A r : r \in Running' <=> r \in Running \/ r = ReactionOf(f)
    <3>1. ASSUME NEW r, r \in Running'
          PROVE  r \in Running \/ r = ReactionOf(f)
      <4>1. PICK i \in WorkAt(frames') : frames'[i].kind \in Kind /\ ReactionOf(frames'[i]) = r
        BY <3>1, RunningAt DEF Running
      <4>2. (i \in WorkAt(frames) /\ frames'[i] = frames[i]) \/ frames'[i] = f
        BY <1>1, <4>1
      <4> QED BY <4>1, <4>2, RunningAt DEF Running
    <3>2. ASSUME NEW r, r \in Running
          PROVE  r \in Running'
      <4>1. PICK i \in WorkAt(frames) : frames[i].kind \in Kind /\ ReactionOf(frames[i]) = r
        BY <3>2, RunningAt DEF Running
      <4>2. i \in WorkAt(frames') /\ frames'[i].kind \in Kind /\ ReactionOf(frames'[i]) = r
        BY <1>1, <4>1
      <4> QED BY <4>2, RunningAt DEF Running
    <3>3. ReactionOf(f) \in Running'
      BY <1>1, <1>4, RunningAt DEF Running
    <3> QED BY <3>1, <3>2, <3>3
  <2> QED BY <2>1
<1>5. ASSUME f.kind \notin Kind
      PROVE  Running' = Running
  <2>1. \A r : r \in Running' <=> r \in Running
    <3>1. ASSUME NEW r, r \in Running'
          PROVE  r \in Running
      <4>1. PICK i \in WorkAt(frames') : frames'[i].kind \in Kind /\ ReactionOf(frames'[i]) = r
        BY <3>1, RunningAt DEF Running
      <4>2. (i \in WorkAt(frames) /\ frames'[i] = frames[i]) \/ frames'[i] = f
        BY <1>1, <4>1
      <4> QED BY <1>5, <4>1, <4>2, RunningAt DEF Running
    <3>2. ASSUME NEW r, r \in Running
          PROVE  r \in Running'
      <4>1. PICK i \in WorkAt(frames) : frames[i].kind \in Kind /\ ReactionOf(frames[i]) = r
        BY <3>2, RunningAt DEF Running
      <4>2. i \in WorkAt(frames') /\ frames'[i].kind \in Kind /\ ReactionOf(frames'[i]) = r
        BY <1>1, <4>1
      <4> QED BY <4>2, RunningAt DEF Running
    <3> QED BY <3>1, <3>2
  <2> QED BY <2>1
<1>6. \A g \in Range(frames') : g.kind \in Work => g \in Range(frames) \/ g = f
  BY <1>1, <1>2, <1>3 DEF Range
<1>7. ReactionsOnce(frames')
  <2>1. SUFFICES ASSUME NEW i \in DOMAIN frames', NEW j \in DOMAIN frames', SameReaction(frames', i, j)
                 PROVE  i = j
    BY DEF ReactionsOnce
  <2>2. i \in WorkAt(frames') /\ j \in WorkAt(frames')
    BY <1>2, <2>1 DEF SameReaction, Work
  <2>3. \A k \in WorkAt(frames) : frames[k].kind \in Kind => ReactionOf(frames[k]) \in Running
    BY RunningAt DEF Running
  <2>4. CASE i \in WorkAt(frames) /\ j \in WorkAt(frames)
    BY <1>1, <1>3, <2>1, <2>4 DEF ReactionsOnce, SameReaction
  <2>5. CASE i \notin WorkAt(frames) /\ j \in WorkAt(frames)
    BY <1>1, <2>1, <2>2, <2>3, <2>5 DEF SameReaction
  <2>6. CASE i \in WorkAt(frames) /\ j \notin WorkAt(frames)
    BY <1>1, <2>1, <2>2, <2>3, <2>6 DEF SameReaction
  <2> QED BY <1>1, <2>2, <2>4, <2>5, <2>6
<1>8. ExecutorsOnce(frames')
  <2>1. SUFFICES ASSUME NEW i \in DOMAIN frames', NEW j \in DOMAIN frames', frames'[i].kind = "executor",
                        frames'[j].kind = "executor", frames'[i].derived = frames'[j].derived
                 PROVE  i = j
    BY DEF ExecutorsOnce
  <2>2. i \in WorkAt(frames') /\ j \in WorkAt(frames')
    BY <1>2, <2>1 DEF Work
  <2>3. CASE i \in WorkAt(frames) /\ j \in WorkAt(frames)
    BY <1>1, <1>3, <2>1, <2>3 DEF ExecutorsOnce
  <2>4. CASE i \notin WorkAt(frames) /\ j \in WorkAt(frames)
    <3>1. frames'[i] = f /\ frames'[j] = frames[j] /\ frames[j] \in Range(frames)
      BY <1>1, <1>3, <2>2, <2>4
    <3> QED BY <2>1, <3>1
  <2>5. CASE i \in WorkAt(frames) /\ j \notin WorkAt(frames)
    <3>1. frames'[j] = f /\ frames'[i] = frames[i] /\ frames[i] \in Range(frames)
      BY <1>1, <1>3, <2>2, <2>5
    <3> QED BY <2>1, <3>1
  <2> QED BY <1>1, <2>2, <2>3, <2>4, <2>5
<1> QED BY <1>4, <1>5, <1>6, <1>7, <1>8

-----------------------------------------------------------------------------
(* The queue between the start of a job and what the job does *)

\* What the invariant says of a queue and of the jobs begun.  The queue is what
\* is left of microtasks when a job has been taken from it.
Between(queue, begun) ==
  /\ queue \in Seq(Job) /\ begun \in Seq(Reaction)
  /\ Range(queue) \subseteq Range(microtasks)
  /\ \A j \in Range(queue) : j.kind \in Kind => ReactionOf(j) \notin Range(begun)
  /\ Started \subseteq Range(begun)
  /\ \A r \in Range(begun) : r \in Attached /\ state[r.from] \in Settled
  /\ Attached \subseteq Waiting \cup ReactionsIn(queue) \cup Range(begun)
  /\ \A i, j \in DOMAIN begun : begun[i] = begun[j] => i = j
  /\ ReactionsOnce(queue)
  /\ OrderOf(queue, begun)

\* Before any job is taken.
LEMMA NothingTaken ==
  ASSUME IInv
  PROVE  Between(microtasks, started) /\ ReactionsIn(microtasks) = Queued
BY DEF Between, IInv, TypeOK, PlacesInv, DistinctInv, OrderInv, OrderOf, Started, Queued

\* The reactions that were ever made are reactions.
LEMMA AttachedType ==
  ASSUME TypeOK, NEW r \in Attached
  PROVE  r \in Reaction /\ r.from \in Promises /\ r.derived \in Promises /\ r.kind \in Kind
<1>1. attached \in Seq(Reaction)
  BY DEF TypeOK
<1>2. r \in Reaction
  BY <1>1, RangeFacts DEF Attached
<1> QED BY <1>2 DEF Reaction

\* The first job is taken and begins.
LEMMA JobTaken ==
  ASSUME IInv, microtasks # <<>>, BeginJob
  PROVE  /\ NextJob \in Job /\ NextJob \in Range(microtasks)
         /\ Between(Tail(microtasks), started')
         /\ NextJob.kind = "thenable" => Started' = Started /\ Queued = ReactionsIn(Tail(microtasks))
         /\ NextJob.kind # "thenable" =>
              /\ NextJob.kind \in Kind /\ ReactionOf(NextJob) \in Queued \ Started
              /\ Started' = Started \cup {ReactionOf(NextJob)}
              /\ ReactionsIn(Tail(microtasks)) = Queued \ {ReactionOf(NextJob)}
<1> DEFINE rest == Tail(microtasks)
           n == Len(microtasks)
<1>1. /\ microtasks \in Seq(Job) /\ started \in Seq(Reaction) /\ PlacesInv /\ DistinctInv /\ OrderInv
  BY DEF IInv, TypeOK
<1>2. /\ rest \in Seq(Job) /\ DOMAIN rest = 1..(n - 1) /\ DOMAIN microtasks = 1..n /\ n \in Nat \ {0}
      /\ \A i \in 1..(n - 1) : rest[i] = microtasks[i + 1]
      /\ NextJob = microtasks[1] /\ NextJob \in Job
  BY <1>1, HeadTailProperties, LenProperties, EmptySeq DEF NextJob
<1>3. Range(microtasks) = {NextJob} \cup Range(rest)
  BY <1>1, RangeFacts DEF NextJob
<1>4. NextJob.kind # "thenable" => NextJob.kind \in Kind /\ ReactionOf(NextJob) \in Reaction
  <2>1. NextJob.kind # "thenable" => NextJob \in ReactionJobs
    BY <1>2, JobFields
  <2> QED BY <2>1 DEF ReactionJobs, ReactionOf, Reaction
<1>5. NextJob.kind = "thenable" => NextJob.kind \notin Kind
  BY DEF Kind
<1>6. /\ ReactionsIn(rest) = IF NextJob.kind \in Kind THEN Queued \ {ReactionOf(NextJob)} ELSE Queued
      /\ NextJob.kind \in Kind => ReactionOf(NextJob) \in Queued
      /\ ReactionsOnce(rest)
  <2>1. Queued = ReactionsIn(rest) \cup (IF NextJob.kind \in Kind THEN {ReactionOf(NextJob)} ELSE {})
    BY <1>1, ReactionsInFacts DEF Queued, NextJob
  <2>2. \A i \in 1..(n - 1) : i + 1 \in DOMAIN microtasks /\ i + 1 # 1
    BY <1>2
  <2>3. NextJob.kind \in Kind => ReactionOf(NextJob) \notin ReactionsIn(rest)
    <3> SUFFICES ASSUME NextJob.kind \in Kind, ReactionOf(NextJob) \in ReactionsIn(rest)
                 PROVE  FALSE
      OBVIOUS
    <3>1. PICK i \in WorkAt(rest) : rest[i].kind \in Kind /\ ReactionOf(rest[i]) = ReactionOf(NextJob)
      BY RunningAt
    <3>2. i \in 1..(n - 1)
      BY <1>2 DEF WorkAt
    <3>3. SameReaction(microtasks, 1, i + 1)
      BY <1>2, <3>1, <3>2 DEF SameReaction
    <3> QED BY <1>1, <1>2, <2>2, <3>2, <3>3 DEF DistinctInv, ReactionsOnce
  <2>4. ReactionsOnce(rest)
    <3>1. SUFFICES ASSUME NEW i \in 1..(n - 1), NEW j \in 1..(n - 1), SameReaction(rest, i, j)
                   PROVE  i = j
      BY <1>2 DEF ReactionsOnce
    <3>2. SameReaction(microtasks, i + 1, j + 1)
      BY <1>2, <3>1 DEF SameReaction
    <3>3. i + 1 = j + 1
      BY <1>1, <2>2, <3>2 DEF DistinctInv, ReactionsOnce
    <3> QED BY <1>2, <3>3
  <2> QED BY <2>1, <2>3, <2>4
<1> HIDE DEF rest, n
<1>7. CASE NextJob.kind = "thenable"
  <2>1. started' = started
    BY <1>7 DEF BeginJob
  <2>2. OrderOf(rest, started)
    <3>1. SUFFICES ASSUME NEW j \in DOMAIN attached, NEW i \in 1..(j - 1), attached[i].from = attached[j].from,
                          NEW y \in 1..(n - 1), rest[y].kind \in Kind, ReactionOf(rest[y]) = attached[j]
                   PROVE  \/ attached[i] \in Started
                          \/ \E x \in 1..(y - 1) : rest[x].kind \in Kind /\ ReactionOf(rest[x]) = attached[i]
      BY <1>1, <1>2 DEF OrderInv, OrderOf, Started
    <3>2. y + 1 \in DOMAIN microtasks /\ microtasks[y + 1] = rest[y]
      BY <1>2
    <3>3. CASE attached[i] \in Started
      BY <3>3
    <3>4. CASE \E x \in 1..((y + 1) - 1) : microtasks[x].kind \in Kind /\ ReactionOf(microtasks[x]) = attached[i]
      <4>1. PICK x \in 1..((y + 1) - 1) : microtasks[x].kind \in Kind /\ ReactionOf(microtasks[x]) = attached[i]
        BY <3>4
      <4>2. x # 1
        BY <1>2, <1>5, <1>7, <4>1
      <4>3. x - 1 \in 1..(y - 1) /\ rest[x - 1] = microtasks[x]
        BY <1>2, <4>1, <4>2
      <4> QED BY <4>1, <4>3
    <3> QED BY <1>1, <3>1, <3>2, <3>3, <3>4 DEF OrderInv, OrderOf, Started
  <2>3. Between(rest, started)
    BY <1>1, <1>2, <1>3, <1>5, <1>6, <1>7, <2>2 DEF Between, PlacesInv, DistinctInv, Started, Queued
  <2> QED BY <1>2, <1>3, <1>5, <1>6, <1>7, <2>1, <2>3 DEF rest, Started
<1>8. CASE NextJob.kind # "thenable"
  <2> DEFINE r == ReactionOf(NextJob)
             m == Len(started)
  <2>1. started' = Append(started, r)
    BY <1>8 DEF BeginJob, ReactionOf
  <2>2. /\ started' \in Seq(Reaction) /\ m \in Nat /\ DOMAIN started = 1..m /\ DOMAIN started' = 1..(m + 1)
        /\ \A i \in 1..m : started'[i] = started[i]
        /\ started'[m + 1] = r
    <3>1. r \in Reaction
      BY <1>4, <1>8
    <3> HIDE DEF r
    <3> QED BY <1>1, <2>1, <3>1, AppendProperties, LenProperties
  <2>3. Started' = Started \cup {r}
    <3>1. r \in Reaction
      BY <1>4, <1>8
    <3> HIDE DEF r
    <3> QED BY <1>1, <2>1, <3>1, RangeFacts DEF Started
  <2>4. r \in Attached \ Started /\ state[r.from] \in Settled
    <3>1. NextJob \in ReactionJobs
      BY <1>2, <1>8, JobFields
    <3>2. NextJob.state \in Settled /\ r.from = NextJob.from /\ NextJob.kind \in Kind
      BY <3>1 DEF ReactionJobs, ReactionOf
    <3> QED BY <1>1, <1>3, <3>2 DEF PlacesInv
  <2> HIDE DEF r, m
  <2>5. \A i, j \in DOMAIN started' : started'[i] = started'[j] => i = j
    <3>1. \A i \in 1..m : started[i] # r
      BY <2>2, <2>4 DEF Started, Range
    <3> QED BY <1>1, <2>2, <3>1 DEF DistinctInv
  <2>6. OrderOf(rest, started')
    <3>1. SUFFICES ASSUME NEW j \in DOMAIN attached, NEW i \in 1..(j - 1), attached[i].from = attached[j].from
                   PROVE  /\ \A y \in 1..(m + 1) : started'[y] = attached[j] => Before(started', y, attached[i])
                          /\ \A y \in 1..(n - 1) : rest[y].kind \in Kind /\ ReactionOf(rest[y]) = attached[j] =>
                               \/ attached[i] \in Started \cup {r}
                               \/ \E x \in 1..(y - 1) : rest[x].kind \in Kind /\ ReactionOf(rest[x]) = attached[i]
      BY <1>2, <2>2, <2>3 DEF OrderOf, Started
    <3>2. /\ \A y \in 1..m : started[y] = attached[j] => Before(started, y, attached[i])
          /\ \A y \in 1..n : microtasks[y].kind \in Kind /\ ReactionOf(microtasks[y]) = attached[j] =>
               \/ attached[i] \in Started
               \/ \E x \in 1..(y - 1) : microtasks[x].kind \in Kind /\ ReactionOf(microtasks[x]) = attached[i]
      BY <1>1, <1>2, <2>2, <3>1 DEF OrderInv, OrderOf, Started
    <3>3. ASSUME NEW y \in 1..(m + 1), started'[y] = attached[j]
          PROVE  Before(started', y, attached[i])
      <4>1. CASE y \in 1..m
        <5>1. PICK x \in 1..(y - 1) : started[x] = attached[i]
          BY <2>2, <3>2, <3>3, <4>1 DEF Before
        <5> QED BY <2>2, <4>1, <5>1 DEF Before
      <4>2. CASE y = m + 1
        <5>1. microtasks[1].kind \in Kind /\ ReactionOf(microtasks[1]) = attached[j] /\ 1 \in 1..n
          BY <1>2, <1>4, <1>8, <2>2, <3>3, <4>2 DEF r
        <5>2. attached[i] \in Started
          BY <3>2, <5>1
        <5>3. PICK x \in 1..m : started[x] = attached[i]
          BY <2>2, <5>2 DEF Started, Range
        <5> QED BY <2>2, <4>2, <5>3 DEF Before
      <4> QED BY <2>2, <4>1, <4>2
    <3>4. ASSUME NEW y \in 1..(n - 1), rest[y].kind \in Kind, ReactionOf(rest[y]) = attached[j]
          PROVE  \/ attached[i] \in Started \cup {r}
                 \/ \E x \in 1..(y - 1) : rest[x].kind \in Kind /\ ReactionOf(rest[x]) = attached[i]
      <4>1. y + 1 \in 1..n /\ microtasks[y + 1] = rest[y]
        BY <1>2
      <4>2. CASE attached[i] \in Started
        BY <4>2
      <4>3. CASE \E x \in 1..((y + 1) - 1) : microtasks[x].kind \in Kind /\ ReactionOf(microtasks[x]) = attached[i]
        <5>1. PICK x \in 1..((y + 1) - 1) : microtasks[x].kind \in Kind /\ ReactionOf(microtasks[x]) = attached[i]
          BY <4>3
        <5>2. CASE x = 1
          BY <1>2, <5>1, <5>2 DEF r
        <5>3. CASE x # 1
          <6>1. x - 1 \in 1..(y - 1) /\ rest[x - 1] = microtasks[x]
            BY <1>2, <5>1, <5>3
          <6> QED BY <5>1, <6>1
        <5> QED BY <5>2, <5>3
      <4> QED BY <3>2, <3>4, <4>1, <4>2, <4>3
    <3> QED BY <3>3, <3>4
  <2>7. \A j \in Range(rest) : j.kind \in Kind => ReactionOf(j) \notin Range(started')
    <3>1. \A j \in Range(rest) : j.kind \in Kind => ReactionOf(j) \in ReactionsIn(rest)
      BY DEF ReactionsIn
    <3>2. \A j \in Range(rest) : j.kind \in Kind => ReactionOf(j) # r
      BY <1>4, <1>6, <1>8, <3>1 DEF r
    <3> QED BY <1>1, <1>3, <2>3, <3>2 DEF PlacesInv, Started
  <2>8. Between(rest, started')
    <3>1. \A x \in Range(started') : x \in Attached /\ state[x.from] \in Settled
      BY <1>1, <2>3, <2>4 DEF PlacesInv, Started
    <3>2. Attached \subseteq Waiting \cup ReactionsIn(rest) \cup Range(started')
      BY <1>1, <1>6, <2>3 DEF PlacesInv, Started, r
    <3> QED BY <1>2, <1>3, <1>6, <2>2, <2>3, <2>5, <2>6, <2>7, <3>1, <3>2 DEF Between, Started
  <2> QED BY <1>2, <1>3, <1>4, <1>6, <1>8, <2>3, <2>4, <2>8 DEF rest, r
<1> QED BY <1>7, <1>8

-----------------------------------------------------------------------------
(* Settling and attaching, as the sequences see it *)

\* What settlePromise does, the promise settled before or not: a settled promise
\* has no reactions left and nobody is parked on it.
MovedAs(jobs, p, s, queue) ==
  /\ microtasks' = queue \o jobs
  /\ Len(jobs) = Len(reactions[p])
  /\ \A i \in 1..Len(jobs) :
       /\ jobs[i].kind \in Kind /\ ReactionOf(jobs[i]) = reactions[p][i]
       /\ jobs[i].state = s /\ jobs[i].from = p /\ state[p] = "pending"
LEMMA SettleShape ==
  ASSUME IInv, NEW p \in Promises, NEW s \in Settled, NEW queue \in Seq(Job), NEW open \in SUBSET Promises,
         SettleIn(state, p, s, queue, open)
  PROVE  /\ state' = [state EXCEPT ![p] = IF state[p] = "pending" THEN s ELSE state[p]]
         /\ awaited' = awaited \ {p}
         /\ reactions' = [reactions EXCEPT ![p] = <<>>]
         /\ \E jobs \in Seq(Job) : MovedAs(jobs, p, s, queue)
<1> DEFINE jobs == [i \in DOMAIN reactions[p] |-> ReactionJob(reactions[p][i], s)]
<1>1. /\ TypeOK /\ reactions[p] \in Seq(Reaction) /\ DOMAIN reactions[p] = 1..Len(reactions[p])
      /\ Len(reactions[p]) \in Nat
      /\ \A i \in 1..Len(reactions[p]) : reactions[p][i] \in Reaction /\ reactions[p][i] \in Range(reactions[p])
  <2>1. TypeOK /\ reactions[p] \in Seq(Reaction)
    BY DEF IInv, TypeOK
  <2>2. DOMAIN reactions[p] = 1..Len(reactions[p]) /\ Len(reactions[p]) \in Nat
    BY <2>1, LenProperties
  <2>3. \A i \in 1..Len(reactions[p]) : reactions[p][i] \in Reaction
    BY <2>1, LenProperties
  <2> QED BY <2>1, <2>2, <2>3 DEF Range
<1>2. /\ jobs \in Seq(Job) /\ Len(jobs) = Len(reactions[p])
      /\ \A i \in 1..Len(jobs) : /\ jobs[i].kind \in Kind /\ ReactionOf(jobs[i]) = reactions[p][i]
                                 /\ jobs[i].state = s /\ jobs[i].from = reactions[p][i].from
  <2>1. \A r \in Reaction : /\ ReactionJob(r, s) \in Job /\ ReactionJob(r, s).kind \in Kind
                            /\ ReactionOf(ReactionJob(r, s)) = r
                            /\ ReactionJob(r, s).state = s /\ ReactionJob(r, s).from = r.from
    BY DEF ReactionJob, ReactionOf, Job, Reaction
  <2>2. DOMAIN jobs = 1..Len(reactions[p])
    BY <1>1
  <2>3. \A i \in 1..Len(reactions[p]) : jobs[i] = ReactionJob(reactions[p][i], s) /\ jobs[i] \in Job
    BY <1>1, <2>1
  <2>4. jobs \in Seq(Job) /\ Len(jobs) = Len(reactions[p])
    <3>1. \A i \in 1..Len(reactions[p]) : ReactionJob(reactions[p][i], s) \in Job
      BY <1>1, <2>1
    <3>2. jobs \in Seq(Job)
      BY <1>1, <3>1
    <3> HIDE DEF jobs
    <3>3. DOMAIN jobs = 1..Len(jobs) /\ Len(jobs) \in Nat
      BY <3>2, LenProperties
    <3> QED BY <1>1, <2>2, <3>2, <3>3
  <2> HIDE DEF jobs
  <2>5. ASSUME NEW i \in 1..Len(jobs)
        PROVE  /\ jobs[i].kind \in Kind /\ ReactionOf(jobs[i]) = reactions[p][i]
               /\ jobs[i].state = s /\ jobs[i].from = reactions[p][i].from
    <3>1. reactions[p][i] \in Reaction /\ jobs[i] = ReactionJob(reactions[p][i], s)
      BY <1>1, <2>3, <2>4
    <3> QED BY <2>1, <3>1
  <2> QED BY <2>4, <2>5
<1>3. \A i \in 1..Len(reactions[p]) : reactions[p][i].from = p /\ state[p] = "pending"
  BY <1>1 DEF IInv, PlacesInv
<1>4. CASE state[p] = "pending"
  <2>1. microtasks' = queue \o jobs
    BY <1>4 DEF SettleIn
  <2>2. /\ state' = [state EXCEPT ![p] = s] /\ awaited' = awaited \ {p}
        /\ reactions' = [reactions EXCEPT ![p] = <<>>]
    BY <1>4 DEF SettleIn
  <2> HIDE DEF jobs
  <2>3. MovedAs(jobs, p, s, queue)
    BY <1>2, <1>3, <1>4, <2>1 DEF MovedAs
  <2> QED BY <1>2, <1>4, <2>2, <2>3
<1>5. CASE state[p] # "pending"
  <2>1. reactions[p] = <<>> /\ p \notin awaited
    <3>1. Len(reactions[p]) = 0
      BY <1>1, <1>3, <1>5
    <3> QED BY <1>1, <1>5, <3>1, EmptySeq DEF IInv, HandledInv
  <2>2. UNCHANGED <<state, awaited, reactions>> /\ microtasks' = queue
    BY <1>5 DEF SettleIn
  <2>3. <<>> \in Seq(Job) /\ Len(<<>>) = 0 /\ queue = queue \o <<>>
    BY EmptySeq, ConcatEmptySeq
  <2>4. MovedAs(<<>>, p, s, queue)
    BY <1>1, <2>1, <2>2, <2>3 DEF MovedAs
  <2>5. state' = [state EXCEPT ![p] = state[p]] /\ reactions' = [reactions EXCEPT ![p] = <<>>]
    BY <1>1, <2>1, <2>2 DEF TypeOK
  <2> QED BY <1>5, <2>1, <2>2, <2>3, <2>4, <2>5
<1> QED BY <1>4, <1>5

\* What the orders say of one pair of reactions.
LEMMA OrderUse ==
  ASSUME NEW queue, NEW begun, OrderOf(queue, begun), NEW j \in DOMAIN attached, NEW i \in 1..(j - 1),
         attached[i].from = attached[j].from,
         NEW y \in DOMAIN queue, queue[y].kind \in Kind, ReactionOf(queue[y]) = attached[j]
  PROVE  \/ attached[i] \in Range(begun)
         \/ \E x \in 1..(y - 1) : queue[x].kind \in Kind /\ ReactionOf(queue[x]) = attached[i]
BY DEF OrderOf

LEMMA StartedUse ==
  ASSUME NEW queue, NEW begun, OrderOf(queue, begun), NEW j \in DOMAIN attached, NEW i \in 1..(j - 1),
         attached[i].from = attached[j].from
  PROVE  \A y \in DOMAIN begun : begun[y] = attached[j] => Before(begun, y, attached[i])
BY DEF OrderOf

LEMMA WaitingUse ==
  ASSUME WaitingInOrder, NEW p \in Promises, NEW y \in DOMAIN reactions[p], NEW j \in DOMAIN attached,
         NEW i \in 1..(j - 1), reactions[p][y] = attached[j], attached[i].from = p
  PROVE  \E x \in 1..(y - 1) : reactions[p][x] = attached[i]
BY DEF WaitingInOrder, Before

\* settlePromise moves the reactions of its promise to the end of the queue and
\* so keeps each reaction in one place, and the order of those of one promise.
LEMMA SettleKeepsPlaces ==
  ASSUME IInv, NEW p \in Promises, NEW s \in Settled, NEW queue, NEW open \in SUBSET Promises,
         SettleIn(state, p, s, queue, open), Between(queue, started'), attached' = attached,
         ReactionsOnce(frames'),
         \A f \in Range(frames') : f.kind \in Kind =>
           f \in Range(frames) \/ (f.kind \in Kind /\ ReactionOf(f) \in Started' /\ state[f.from] = f.state
                                   /\ f.state \in Settled /\ HandlerFor(f.kind, f.state))
  PROVE  /\ PlacesInv' /\ DistinctInv' /\ OrderInv'
         /\ Waiting' \cup Queued' = Waiting \cup ReactionsIn(queue)
         /\ \A j \in Range(microtasks') : j.kind \notin Kind => j \in Range(queue)
<1> DEFINE n == Len(queue)
           react == reactions[p]
<1>1. /\ TypeOK /\ PlacesInv /\ DistinctInv /\ WaitingInOrder /\ queue \in Seq(Job)
      /\ react \in Seq(Reaction) /\ DOMAIN react = 1..Len(react) /\ Len(react) \in Nat
      /\ n \in Nat /\ DOMAIN queue = 1..n
  <2>1. TypeOK /\ PlacesInv /\ DistinctInv /\ WaitingInOrder /\ queue \in Seq(Job) /\ react \in Seq(Reaction)
    BY DEF IInv, Between, OrderInv, TypeOK
  <2> QED BY <2>1, LenProperties
<1>2. /\ state' = [state EXCEPT ![p] = IF state[p] = "pending" THEN s ELSE state[p]]
      /\ reactions' = [reactions EXCEPT ![p] = <<>>]
      /\ \E jobs \in Seq(Job) : MovedAs(jobs, p, s, queue)
  BY <1>1, SettleShape
<1>3. PICK jobs \in Seq(Job) : MovedAs(jobs, p, s, queue)
  BY <1>2
<1> HIDE DEF n, react
<1> DEFINE m == Len(jobs)
<1>4. /\ m = Len(react) /\ m \in Nat /\ DOMAIN react = 1..m /\ DOMAIN jobs = 1..m
      /\ \A i \in 1..m : /\ jobs[i].kind \in Kind /\ ReactionOf(jobs[i]) = react[i]
                         /\ jobs[i].state = s /\ jobs[i].from = p /\ state[p] = "pending"
  BY <1>1, <1>3, LenProperties DEF MovedAs, react
<1>5. /\ DOMAIN microtasks' = 1..(n + m)
      /\ \A i \in 1..n : microtasks'[i] = queue[i]
      /\ \A i \in 1..m : microtasks'[n + i] = jobs[i]
  <2>1. /\ Len(queue \o jobs) = n + m /\ queue \o jobs \in Seq(Job)
        /\ \A i \in 1..(n + m) : (queue \o jobs)[i] = IF i <= n THEN queue[i] ELSE jobs[i - n]
    BY <1>1, <1>3, ConcatProperties DEF n
  <2> HIDE DEF m
  <2>2. DOMAIN (queue \o jobs) = 1..(n + m) /\ microtasks' = queue \o jobs
    BY <1>3, <2>1, LenProperties DEF MovedAs
  <2> QED BY <1>1, <1>4, <2>1, <2>2
<1> HIDE DEF m
<1>6. \A i \in DOMAIN microtasks' : i \in 1..n \/ (i - n \in 1..m /\ microtasks'[i] = jobs[i - n])
  <2>1. ASSUME NEW i \in 1..(n + m), i \notin 1..n
        PROVE  i - n \in 1..m /\ n + (i - n) = i
    BY <1>1, <1>4, <2>1
  <2> QED BY <1>5, <2>1
<1>7. \A j \in Range(microtasks') : j \in Range(queue) \/ \E i \in 1..m : j = jobs[i]
  BY <1>1, <1>5, <1>6 DEF Range
<1>8. \A i \in 1..n : queue[i] \in Range(queue) /\ queue[i] \in Range(microtasks)
  BY <1>1 DEF Range, Between
<1>9. \A i \in 1..m : react[i] \in Range(react) /\ react[i] \in Attached /\ react[i].from = p
  <2>1. \A i \in 1..m : react[i] \in Range(react)
    BY <1>4 DEF Range
  <2> QED BY <1>1, <2>1 DEF PlacesInv, react
<1>10. \A j \in Range(queue) : j.kind \in Kind =>
         /\ ReactionOf(j) \in Attached /\ ReactionOf(j) \notin Range(started') /\ state[j.from] = j.state
         /\ state[j.from] \in Settled /\ ReactionOf(j).from = j.from
  <2>1. SUFFICES ASSUME NEW j \in Range(queue), j.kind \in Kind
                 PROVE  /\ ReactionOf(j) \in Attached /\ ReactionOf(j) \notin Range(started')
                        /\ state[j.from] = j.state /\ state[j.from] \in Settled /\ ReactionOf(j).from = j.from
    OBVIOUS
  <2>2. j \in Range(microtasks) /\ j \in Job /\ j.kind # "thenable"
    <3>1. j \in Range(microtasks) /\ j.kind # "thenable"
      BY <2>1 DEF Between, Kind
    <3> QED BY <1>1, <3>1, RangeFacts DEF TypeOK
  <2>3. j.state \in Settled
    BY <2>2, JobFields DEF ReactionJobs
  <2> QED BY <1>1, <2>1, <2>2, <2>3 DEF PlacesInv, Between, ReactionOf
<1>11. \A x \in Promises : state[x] \in Settled => state'[x] = state[x]
  BY <1>1, <1>2 DEF TypeOK, Settled
<1>12. state[p] = "pending" => state'[p] = s /\ state[p] \notin Settled
  BY <1>1, <1>2 DEF TypeOK, Settled
<1>13. /\ \A x \in Promises : x # p => reactions'[x] = reactions[x] /\ state'[x] = state[x]
       /\ reactions'[p] = <<>>
  BY <1>1, <1>2 DEF TypeOK
<1>14. Range(reactions'[p]) = {}
  BY <1>13, EmptySeq DEF Range
<1>15. \A r \in Range(started') : r \in Attached /\ state[r.from] \in Settled /\ r.from \in Promises
  <2>1. \A r \in Attached : r.from \in Promises
    BY <1>1, AttachedType
  <2> QED BY <2>1 DEF Between
<1>16. Waiting' \cup Queued' = Waiting \cup ReactionsIn(queue)
  <2>1. \A r : r \in Queued' <=> r \in ReactionsIn(queue) \/ r \in Range(react)
    <3>1. ASSUME NEW r, r \in Queued'
          PROVE  r \in ReactionsIn(queue) \/ r \in Range(react)
      <4>1. PICK j \in Range(microtasks') : j.kind \in Kind /\ ReactionOf(j) = r
        BY <3>1 DEF Queued, ReactionsIn
      <4> QED BY <1>4, <1>7, <1>9, <4>1 DEF ReactionsIn
    <3>2. ASSUME NEW r, r \in ReactionsIn(queue)
          PROVE  r \in Queued'
      <4>1. PICK i \in 1..n : queue[i].kind \in Kind /\ ReactionOf(queue[i]) = r
        BY <1>1, <3>2, RunningAt DEF WorkAt
      <4>2. i \in DOMAIN microtasks' /\ microtasks'[i] = queue[i]
        BY <1>1, <1>4, <1>5
      <4>3. i \in WorkAt(microtasks')
        BY <4>1, <4>2 DEF WorkAt, Work
      <4> QED BY <4>1, <4>2, <4>3, RunningAt DEF Queued
    <3>3. ASSUME NEW r, r \in Range(react)
          PROVE  r \in Queued'
      <4>1. PICK i \in 1..m : react[i] = r
        BY <1>4, <3>3 DEF Range
      <4>2. n + i \in DOMAIN microtasks' /\ microtasks'[n + i] = jobs[i]
        BY <1>1, <1>4, <1>5
      <4>3. n + i \in WorkAt(microtasks')
        BY <1>4, <4>2 DEF WorkAt, Work
      <4> QED BY <1>4, <4>1, <4>2, <4>3, RunningAt DEF Queued
    <3> QED BY <3>1, <3>2, <3>3
  <2>2. \A r : r \in Waiting' <=> \E x \in Promises : x # p /\ r \in Range(reactions[x])
    BY <1>13, <1>14 DEF Waiting
  <2>3. \A r : r \in Waiting <=> r \in Range(react) \/ \E x \in Promises : x # p /\ r \in Range(reactions[x])
    BY DEF Waiting, react
  <2> QED BY <2>1, <2>2, <2>3
<1>17. PlacesInv'
  <2>1. \A x \in Promises : \A r \in Range(reactions'[x]) : r \in Attached' /\ r.from = x /\ state'[x] = "pending"
    BY <1>1, <1>13, <1>14 DEF PlacesInv, Attached
  <2>2. \A j \in Range(microtasks') : j.kind \in Kind =>
          ReactionOf(j) \in Attached' \ Started' /\ state'[j.from] = j.state
    <3>1. SUFFICES ASSUME NEW j \in Range(microtasks'), j.kind \in Kind
                   PROVE  ReactionOf(j) \in Attached /\ ReactionOf(j) \notin Range(started') /\ state'[j.from] = j.state
      BY DEF Attached, Started
    <3>2. CASE j \in Range(queue)
      <4>1. j.from \in Promises
        <5>1. ReactionOf(j) \in Attached /\ ReactionOf(j).from = j.from
          BY <1>10, <3>1, <3>2
        <5> QED BY <1>1, <5>1, AttachedType
      <4> QED BY <1>10, <1>11, <3>1, <3>2, <4>1
    <3>3. CASE \E i \in 1..m : j = jobs[i]
      BY <1>4, <1>9, <1>12, <1>15, <3>3
    <3> QED BY <1>7, <3>2, <3>3
  <2>3. \A f \in Range(frames') : f.kind \in Kind =>
          ReactionOf(f) \in Started' /\ state'[f.from] = f.state /\ HandlerFor(f.kind, f.state)
    <3>1. SUFFICES ASSUME NEW f \in Range(frames'), f.kind \in Kind
                   PROVE  ReactionOf(f) \in Started' /\ state'[f.from] = f.state /\ HandlerFor(f.kind, f.state)
      OBVIOUS
    <3>2. /\ ReactionOf(f) \in Started' /\ state[f.from] = f.state /\ HandlerFor(f.kind, f.state)
          /\ ReactionOf(f).from = f.from
      BY <1>1, <3>1 DEF PlacesInv, Between, Started, ReactionOf
    <3>3. f.from \in Promises /\ state[f.from] \in Settled
      BY <1>15, <3>2 DEF Started
    <3> QED BY <1>11, <3>2, <3>3
  <2>4. \A r \in Started' : r \in Attached' /\ state'[r.from] \in Settled
    BY <1>11, <1>15 DEF Attached, Started
  <2>5. Attached' \subseteq Waiting' \cup Queued' \cup Started'
    BY <1>16 DEF Between, Attached, Started
  <2> QED BY <2>1, <2>2, <2>3, <2>4, <2>5 DEF PlacesInv
<1>18. DistinctInv'
  <2>1. ReactionsOnce(microtasks')
    <3>1. SUFFICES ASSUME NEW i \in DOMAIN microtasks', NEW j \in DOMAIN microtasks', SameReaction(microtasks', i, j)
                   PROVE  i = j
      BY DEF ReactionsOnce
    <3>2. ASSUME NEW k \in 1..n, NEW l \in 1..m, queue[k].kind \in Kind
          PROVE  ReactionOf(queue[k]) # ReactionOf(jobs[l])
      BY <1>4, <1>8, <1>9, <1>10, <1>12, <3>2
    <3>3. CASE i \in 1..n /\ j \in 1..n
      <4>1. SameReaction(queue, i, j)
        BY <1>5, <3>1, <3>3 DEF SameReaction
      <4> QED BY <1>1, <3>3, <4>1 DEF Between, ReactionsOnce
    <3>4. CASE i \in 1..n /\ j \notin 1..n
      BY <1>5, <1>6, <3>1, <3>2, <3>4 DEF SameReaction
    <3>5. CASE i \notin 1..n /\ j \in 1..n
      BY <1>5, <1>6, <3>1, <3>2, <3>5 DEF SameReaction
    <3>6. CASE i \notin 1..n /\ j \notin 1..n
      <4>1. /\ i - n \in 1..m /\ j - n \in 1..m
            /\ ReactionOf(jobs[i - n]) = ReactionOf(jobs[j - n])
        BY <1>6, <3>1, <3>6 DEF SameReaction
      <4>2. react[i - n] = react[j - n]
        BY <1>4, <4>1
      <4>3. i - n = j - n
        BY <1>1, <1>4, <4>1, <4>2 DEF DistinctInv, react
      <4> QED BY <1>1, <1>4, <1>5, <4>3
    <3> QED BY <3>3, <3>4, <3>5, <3>6
  <2>2. \A x \in Promises : \A i, j \in DOMAIN reactions'[x] : reactions'[x][i] = reactions'[x][j] => i = j
    <3>1. DOMAIN reactions'[p] = {}
      BY <1>14 DEF Range
    <3> QED BY <1>1, <1>13, <3>1 DEF DistinctInv
  <2> QED BY <1>1, <2>1, <2>2 DEF DistinctInv, Between
<1>19. OrderInv'
  <2>1. OrderOf(microtasks, started)'
    <3>1. SUFFICES ASSUME NEW j \in DOMAIN attached, NEW i \in 1..(j - 1), attached[i].from = attached[j].from,
                          NEW y \in DOMAIN microtasks', microtasks'[y].kind \in Kind,
                          ReactionOf(microtasks'[y]) = attached[j]
                   PROVE  \/ attached[i] \in Range(started')
                          \/ \E x \in 1..(y - 1) : microtasks'[x].kind \in Kind /\ ReactionOf(microtasks'[x]) = attached[i]
      BY DEF Between, OrderOf
    <3>2. CASE y \in 1..n
      <4>1. queue[y].kind \in Kind /\ ReactionOf(queue[y]) = attached[j] /\ y \in DOMAIN queue
        BY <1>1, <1>5, <3>1, <3>2
      <4>2. \/ attached[i] \in Range(started')
            \/ \E x \in 1..(y - 1) : queue[x].kind \in Kind /\ ReactionOf(queue[x]) = attached[i]
        BY <3>1, <4>1 DEF Between, OrderOf
      <4>3. \A x \in 1..(y - 1) : microtasks'[x] = queue[x]
        BY <1>1, <1>5, <3>2
      <4> QED BY <4>2, <4>3
    <3>3. CASE y \notin 1..n
      <4>1. y - n \in 1..m /\ microtasks'[y] = jobs[y - n]
        BY <1>6, <3>3
      <4>2. react[y - n] = attached[j] /\ attached[j].from = p
        BY <1>4, <1>9, <3>1, <4>1
      <4>3. PICK x \in 1..((y - n) - 1) : react[x] = attached[i]
        BY <1>1, <1>4, <3>1, <4>1, <4>2 DEF WaitingInOrder, Before, react
      <4>4. x \in 1..m /\ n + x \in 1..(y - 1)
        BY <1>1, <1>4, <1>5, <4>1, <4>3
      <4>5. microtasks'[n + x].kind \in Kind /\ ReactionOf(microtasks'[n + x]) = attached[i]
        BY <1>4, <1>5, <4>3, <4>4
      <4> QED BY <4>4, <4>5
    <3> QED BY <3>2, <3>3
  <2>2. WaitingInOrder'
    <3>1. SUFFICES ASSUME NEW x \in Promises, NEW y \in DOMAIN reactions'[x], NEW j \in DOMAIN attached,
                          NEW i \in 1..(j - 1), reactions'[x][y] = attached[j], attached[i].from = x
                   PROVE  \E z \in 1..(y - 1) : reactions'[x][z] = attached[i]
      BY DEF WaitingInOrder, Before
    <3>2. x # p
      BY <1>14, <3>1 DEF Range
    <3>3. reactions'[x] = reactions[x]
      BY <1>13, <3>2
    <3>4. y \in DOMAIN reactions[x] /\ reactions[x][y] = attached[j]
      BY <3>1, <3>3
    <3>5. WaitingInOrder
      BY <1>1
    <3>6. \E z \in 1..(y - 1) : reactions[x][z] = attached[i]
      BY <3>1, <3>4, <3>5, WaitingUse
    <3> QED BY <3>3, <3>6
  <2> QED BY <2>1, <2>2 DEF OrderInv, OrderOf, Before
<1>20. \A j \in Range(microtasks') : j.kind \notin Kind => j \in Range(queue)
  BY <1>4, <1>7
<1> QED BY <1>16, <1>17, <1>18, <1>19, <1>20

\* Where a reaction that was ever made can be, by the state of its promise.
LEMMA WhereItIs ==
  ASSUME IInv, NEW r \in Attached
  PROVE  /\ r \in Waiting => state[r.from] = "pending" /\ r \in Range(reactions[r.from])
         /\ r \in Queued \cup Started => state[r.from] \in Settled
         /\ r \in Waiting \cup Queued \cup Started
         /\ state[r.from] # "none" /\ state[r.derived] # "none"
<1>1. TypeOK /\ PlacesInv /\ OriginInv /\ r.from \in Promises /\ r.derived \in Promises
  BY AttachedType DEF IInv
<1>2. r \in Waiting => state[r.from] = "pending" /\ r \in Range(reactions[r.from])
  BY <1>1 DEF Waiting, PlacesInv
<1>3. ASSUME r \in Queued
      PROVE  state[r.from] \in Settled
  <2>1. PICK j \in Range(microtasks) : j.kind \in Kind /\ ReactionOf(j) = r
    BY <1>3 DEF Queued, ReactionsIn
  <2>2. j \in Job /\ j.kind # "thenable"
    <3>1. j.kind # "thenable"
      BY <2>1 DEF Kind
    <3> QED BY <1>1, <2>1, <3>1, RangeFacts DEF TypeOK
  <2>3. j.state \in Settled
    BY <2>2, JobFields DEF ReactionJobs
  <2> QED BY <1>1, <2>1, <2>3 DEF PlacesInv, ReactionOf
<1>4. r \in Started => state[r.from] \in Settled
  BY <1>1 DEF PlacesInv
<1>5. r \in Waiting \cup Queued \cup Started
  BY <1>1 DEF PlacesInv
<1>6. state[r.from] # "none" /\ state[r.derived] # "none"
  BY <1>1, <1>2, <1>3, <1>4, <1>5 DEF Settled, OriginInv
<1> QED BY <1>2, <1>3, <1>4, <1>5, <1>6

\* What attached and the elements of a sequence become when something is appended.
LEMMA AppendFacts ==
  ASSUME NEW S, NEW s \in Seq(S), NEW e \in S
  PROVE  /\ Append(s, e) \in Seq(S) /\ Len(s) \in Nat
         /\ DOMAIN s = 1..Len(s) /\ DOMAIN Append(s, e) = 1..(Len(s) + 1)
         /\ \A i \in 1..Len(s) : Append(s, e)[i] = s[i] /\ s[i] \in Range(s)
         /\ Append(s, e)[Len(s) + 1] = e
         /\ Range(Append(s, e)) = Range(s) \cup {e}
<1>1. /\ Append(s, e) \in Seq(S) /\ Len(Append(s, e)) = Len(s) + 1
      /\ \A i \in 1..Len(s) : Append(s, e)[i] = s[i]
      /\ Append(s, e)[Len(s) + 1] = e
  BY AppendProperties
<1>2. DOMAIN s = 1..Len(s) /\ Len(s) \in Nat /\ DOMAIN Append(s, e) = 1..(Len(s) + 1)
  BY <1>1, LenProperties
<1>3. \A i \in 1..Len(s) : s[i] \in Range(s)
  BY <1>2 DEF Range
<1> QED BY <1>1, <1>2, <1>3, RangeFacts

\* A queue that stays, or gets a job that adopts a promise.
LEMMA QueueGrows ==
  ASSUME microtasks \in Seq(Job),
         \/ microtasks' = microtasks
         \/ \E j \in Job : j.kind = "thenable" /\ microtasks' = Append(microtasks, j)
  PROVE  /\ Len(microtasks) \in Nat /\ DOMAIN microtasks = 1..Len(microtasks)
         /\ \A i \in DOMAIN microtasks' :
              \/ i \in 1..Len(microtasks) /\ microtasks'[i] = microtasks[i] /\ microtasks[i] \in Range(microtasks)
              \/ microtasks'[i].kind = "thenable" /\ microtasks' = Append(microtasks, microtasks'[i])
         /\ \A i \in 1..Len(microtasks) : i \in DOMAIN microtasks' /\ microtasks'[i] = microtasks[i]
<1> DEFINE m == Len(microtasks)
<1>1. m \in Nat /\ DOMAIN microtasks = 1..m
  BY LenProperties, Zenon
<1>2. \A i \in DOMAIN microtasks : microtasks[i] \in Range(microtasks)
  BY ZenonT(40) DEF Range
<1>3. CASE microtasks' = microtasks
  BY <1>1, <1>2, <1>3, ZenonT(40)
<1>4. CASE \E j \in Job : j.kind = "thenable" /\ microtasks' = Append(microtasks, j)
  <2>1. PICK j \in Job : j.kind = "thenable" /\ microtasks' = Append(microtasks, j)
    BY <1>4
  <2>2. /\ DOMAIN microtasks' = 1..(m + 1)
        /\ \A i \in 1..m : microtasks'[i] = microtasks[i]
        /\ microtasks'[m + 1] = j
    BY <2>1, AppendFacts
  <2> HIDE DEF m
  <2>3. \A i \in 1..(m + 1) : i \in 1..m \/ i = m + 1
    BY <1>1
  <2>4. \A i \in 1..m : i \in 1..(m + 1)
    BY <1>1
  <2> QED BY <1>1, <1>2, <2>1, <2>2, <2>3, <2>4, Zenon DEF m
<1> QED BY <1>3, <1>4

\* Attaching a reaction to a pending promise (adoptPromise, then).
LEMMA AttachKeepsPlaces ==
  ASSUME IInv, NEW q \in Promises, NEW r \in Reaction, r.from = q, r \notin Attached,
         state[q] = "pending" \/ state[q] = "none", state'[q] = "pending",
         \A x \in Promises : state[x] # "none" => state'[x] = state[x],
         reactions' = [reactions EXCEPT ![q] = Append(reactions[q], r)],
         attached' = Append(attached, r), started' = started,
         \/ microtasks' = microtasks
         \/ \E j \in Job : j.kind = "thenable" /\ microtasks' = Append(microtasks, j),
         ReactionsOnce(frames'),
         \A f \in Range(frames') : f.kind \in Kind => f \in Range(frames)
  PROVE  /\ PlacesInv' /\ DistinctInv' /\ OrderInv'
         /\ Waiting' = Waiting \cup {r} /\ Queued' = Queued
         /\ Attached' = Attached \cup {r} /\ Started' = Started
         /\ \A j \in Range(microtasks') :
              j \in Range(microtasks) \/ (j.kind = "thenable" /\ microtasks' = Append(microtasks, j))
<1> DEFINE k == Len(attached)
           react == reactions[q]
           n == Len(react)
           m == Len(microtasks)
<1>1. /\ TypeOK /\ PlacesInv /\ DistinctInv /\ OrderOf(microtasks, started) /\ WaitingInOrder
      /\ attached \in Seq(Reaction) /\ microtasks \in Seq(Job) /\ react \in Seq(Reaction)
  BY DEF IInv, OrderInv, TypeOK
<1>2. /\ k \in Nat /\ DOMAIN attached = 1..k /\ DOMAIN attached' = 1..(k + 1)
      /\ \A i \in 1..k : attached'[i] = attached[i] /\ attached[i] \in Attached
      /\ attached'[k + 1] = r
      /\ Attached' = Attached \cup {r}
  BY <1>1, AppendFacts DEF Attached
<1>3. /\ n \in Nat /\ DOMAIN react = 1..n /\ DOMAIN reactions'[q] = 1..(n + 1)
      /\ \A i \in 1..n : reactions'[q][i] = react[i] /\ react[i] \in Range(react)
      /\ reactions'[q][n + 1] = r
      /\ Range(reactions'[q]) = Range(react) \cup {r}
  <2>1. reactions'[q] = Append(react, r)
    BY <1>1 DEF TypeOK
  <2> HIDE DEF react
  <2>2. /\ Len(react) \in Nat /\ DOMAIN react = 1..Len(react) /\ DOMAIN Append(react, r) = 1..(Len(react) + 1)
        /\ \A i \in 1..Len(react) : Append(react, r)[i] = react[i] /\ react[i] \in Range(react)
        /\ Append(react, r)[Len(react) + 1] = r
        /\ Range(Append(react, r)) = Range(react) \cup {r}
    BY <1>1, AppendFacts
  <2> QED BY <2>1, <2>2
<1>4. \A x \in Promises : x # q => reactions'[x] = reactions[x]
  BY <1>1 DEF TypeOK
<1>5. /\ m \in Nat /\ DOMAIN microtasks = 1..m
      /\ \A i \in DOMAIN microtasks' :
           \/ i \in 1..m /\ microtasks'[i] = microtasks[i] /\ microtasks[i] \in Range(microtasks)
           \/ microtasks'[i].kind = "thenable" /\ microtasks' = Append(microtasks, microtasks'[i])
      /\ \A i \in 1..m : i \in DOMAIN microtasks' /\ microtasks'[i] = microtasks[i]
  BY <1>1, QueueGrows
<1>6. "thenable" \notin Kind
  BY DEF Kind
<1> HIDE DEF k, react, n, m
<1>7. \A j \in Range(microtasks') :
        j \in Range(microtasks) \/ (j.kind = "thenable" /\ microtasks' = Append(microtasks, j))
  BY <1>5 DEF Range
<1>8. \A x \in Promises : state[x] \in Settled \/ state[x] = "pending" => state'[x] = state[x]
  BY DEF Settled
<1>9. Waiting' = Waiting \cup {r}
  <2>1. \A y : y \in Waiting' <=> y \in Waiting \/ y = r
    BY <1>3, <1>4 DEF Waiting, react
  <2> QED BY <2>1
<1>10. Queued' = Queued
  <2>1. ASSUME NEW y, y \in Queued'
        PROVE  y \in Queued
    <3>1. PICK i \in WorkAt(microtasks') : microtasks'[i].kind \in Kind /\ ReactionOf(microtasks'[i]) = y
      BY <2>1, RunningAt DEF Queued
    <3>2. microtasks'[i] = microtasks[i] /\ i \in WorkAt(microtasks)
      BY <1>5, <1>6, <3>1 DEF WorkAt, Work
    <3> QED BY <3>1, <3>2, RunningAt DEF Queued
  <2>2. ASSUME NEW y, y \in Queued
        PROVE  y \in Queued'
    <3>1. PICK i \in WorkAt(microtasks) : microtasks[i].kind \in Kind /\ ReactionOf(microtasks[i]) = y
      BY <2>2, RunningAt DEF Queued
    <3>2. microtasks'[i] = microtasks[i] /\ i \in WorkAt(microtasks')
      BY <1>5, <3>1 DEF WorkAt
    <3> QED BY <3>1, <3>2, RunningAt DEF Queued
  <2> QED BY <2>1, <2>2
<1>11. \A y \in Attached : y # r
  OBVIOUS
<1>12. \A j \in Range(microtasks) : j.kind \in Kind =>
         /\ ReactionOf(j) \in Attached /\ ReactionOf(j) \notin Started /\ state'[j.from] = j.state
         /\ ReactionOf(j) \in Queued
  <2>1. SUFFICES ASSUME NEW j \in Range(microtasks), j.kind \in Kind
                 PROVE  /\ ReactionOf(j) \in Attached /\ ReactionOf(j) \notin Started
                        /\ state'[j.from] = j.state /\ ReactionOf(j) \in Queued
    OBVIOUS
  <2>2. ReactionOf(j) \in Attached \ Started /\ state[j.from] = j.state /\ ReactionOf(j) \in Queued
    BY <1>1, <2>1 DEF PlacesInv, Queued, ReactionsIn
  <2>3. j.from \in Promises /\ state[j.from] \in Settled
    <3>1. ReactionOf(j).from = j.from
      BY DEF ReactionOf
    <3> QED BY <1>1, <2>2, <3>1, WhereItIs, AttachedType
  <2> QED BY <1>8, <2>2, <2>3
<1>13. PlacesInv'
  <2>1. \A x \in Promises : \A y \in Range(reactions'[x]) : y \in Attached' /\ y.from = x /\ state'[x] = "pending"
    <3>1. \A x \in Promises : \A y \in Range(reactions[x]) : y \in Attached /\ y.from = x /\ state[x] = "pending"
      BY <1>1 DEF PlacesInv
    <3> SUFFICES ASSUME NEW x \in Promises, NEW y \in Range(reactions'[x])
                 PROVE  y \in Attached' /\ y.from = x /\ state'[x] = "pending"
      OBVIOUS
    <3>2. CASE x = q /\ y = r
      BY <1>2, <1>8, <3>2
    <3>3. CASE y \in Range(reactions[x])
      BY <1>2, <1>8, <3>1, <3>3
    <3>4. (x = q /\ y = r) \/ y \in Range(reactions[x])
      BY <1>3, <1>4 DEF react
    <3> QED BY <3>2, <3>3, <3>4
  <2>2. \A j \in Range(microtasks') : j.kind \in Kind =>
          ReactionOf(j) \in Attached' \ Started' /\ state'[j.from] = j.state
    BY <1>2, <1>6, <1>7, <1>12 DEF Started
  <2>3. \A f \in Range(frames') : f.kind \in Kind =>
          ReactionOf(f) \in Started' /\ state'[f.from] = f.state /\ HandlerFor(f.kind, f.state)
    <3>1. SUFFICES ASSUME NEW f \in Range(frames'), f.kind \in Kind
                   PROVE  ReactionOf(f) \in Started /\ state'[f.from] = f.state /\ HandlerFor(f.kind, f.state)
      BY DEF Started
    <3>2. /\ ReactionOf(f) \in Started /\ state[f.from] = f.state /\ HandlerFor(f.kind, f.state)
          /\ ReactionOf(f).from = f.from /\ ReactionOf(f) \in Attached
      BY <1>1, <3>1 DEF PlacesInv, ReactionOf
    <3> QED BY <1>1, <1>8, <3>2, WhereItIs, AttachedType
  <2>4. \A y \in Started' : y \in Attached' /\ state'[y.from] \in Settled
    <3>1. \A y \in Started : y \in Attached /\ state[y.from] \in Settled
      BY <1>1 DEF PlacesInv
    <3> QED BY <1>1, <1>2, <1>8, <3>1, AttachedType DEF Started
  <2>5. Attached' \subseteq Waiting' \cup Queued' \cup Started'
    BY <1>1, <1>2, <1>9, <1>10 DEF PlacesInv, Started
  <2> QED BY <2>1, <2>2, <2>3, <2>4, <2>5 DEF PlacesInv
<1>14. DistinctInv'
  <2>1. \A i, j \in DOMAIN attached' : attached'[i] = attached'[j] => i = j
    <3>1. \A i \in 1..(k + 1) : i \in 1..k \/ i = k + 1
      BY <1>2
    <3> QED BY <1>1, <1>2, <1>11, <3>1 DEF DistinctInv
  <2>2. ReactionsOnce(microtasks')
    BY <1>1, <1>5, <1>6 DEF DistinctInv, ReactionsOnce, SameReaction
  <2>3. \A x \in Promises : \A i, j \in DOMAIN reactions'[x] : reactions'[x][i] = reactions'[x][j] => i = j
    <3>1. \A i \in 1..(n + 1) : i \in 1..n \/ i = n + 1
      BY <1>3
    <3>2. \A i \in 1..n : react[i] # r
      BY <1>1, <1>3 DEF PlacesInv, react
    <3>3. \A i, j \in DOMAIN reactions'[q] : reactions'[q][i] = reactions'[q][j] => i = j
      BY <1>1, <1>3, <3>1, <3>2 DEF DistinctInv, react
    <3> QED BY <1>1, <1>4, <3>3 DEF DistinctInv
  <2> QED BY <1>1, <2>1, <2>2, <2>3 DEF DistinctInv
<1>15. OrderInv'
  <2>1. OrderOf(microtasks, started)'
    <3>1. SUFFICES ASSUME NEW j \in 1..(k + 1), NEW i \in 1..(j - 1), attached'[i].from = attached'[j].from
                   PROVE  /\ \A y \in DOMAIN started : started[y] = attached'[j] => Before(started, y, attached'[i])
                          /\ \A y \in DOMAIN microtasks' :
                               microtasks'[y].kind \in Kind /\ ReactionOf(microtasks'[y]) = attached'[j] =>
                                 \/ attached'[i] \in Range(started)
                                 \/ \E x \in 1..(y - 1) :
                                      microtasks'[x].kind \in Kind /\ ReactionOf(microtasks'[x]) = attached'[i]
      BY <1>2 DEF OrderOf, Before
    <3>2. CASE j = k + 1
      <4>1. \A y \in DOMAIN started : started[y] # r
        BY <1>1 DEF PlacesInv, Started, Range
      <4>2. \A y \in DOMAIN microtasks' : microtasks'[y].kind \in Kind => ReactionOf(microtasks'[y]) # r
        BY <1>5, <1>6, <1>12
      <4> QED BY <1>2, <3>2, <4>1, <4>2
    <3>3. CASE j \in 1..k
      <4>1. attached'[j] = attached[j] /\ attached'[i] = attached[i] /\ i \in 1..k
        BY <1>2, <3>3
      <4>2. \A y \in DOMAIN started : started[y] = attached[j] => Before(started, y, attached[i])
        <5>1. j \in DOMAIN attached /\ attached[i].from = attached[j].from
          BY <1>2, <3>1, <3>3, <4>1
        <5>2. OrderOf(microtasks, started)
          BY <1>1
        <5> QED BY <5>1, <5>2, StartedUse
      <4>3. ASSUME NEW y \in DOMAIN microtasks', microtasks'[y].kind \in Kind,
                   ReactionOf(microtasks'[y]) = attached[j], attached[i] \notin Range(started)
            PROVE  \E x \in 1..(y - 1) : microtasks'[x].kind \in Kind /\ ReactionOf(microtasks'[x]) = attached[i]
        <5>1. y \in 1..m /\ microtasks'[y] = microtasks[y]
          BY <1>5, <1>6, <4>3
        <5>2. PICK x \in 1..(y - 1) : microtasks[x].kind \in Kind /\ ReactionOf(microtasks[x]) = attached[i]
          <6>1. /\ j \in DOMAIN attached /\ attached[i].from = attached[j].from
                /\ y \in DOMAIN microtasks /\ microtasks[y].kind \in Kind /\ ReactionOf(microtasks[y]) = attached[j]
            BY <1>2, <1>5, <3>1, <3>3, <4>1, <4>3, <5>1
          <6>2. OrderOf(microtasks, started)
            BY <1>1
          <6> QED BY <4>3, <6>1, <6>2, OrderUse
        <5>3. x \in 1..m
          BY <1>5, <5>1, <5>2
        <5> QED BY <1>5, <5>2, <5>3
      <4> QED BY <4>1, <4>2, <4>3
    <3>4. j = k + 1 \/ j \in 1..k
      BY <1>2, <3>1
    <3> QED BY <3>2, <3>3, <3>4
  <2>2. WaitingInOrder'
    <3>1. SUFFICES ASSUME NEW x \in Promises, NEW y \in DOMAIN reactions'[x], NEW j \in 1..(k + 1),
                          NEW i \in 1..(j - 1), reactions'[x][y] = attached'[j], attached'[i].from = x
                   PROVE  \E z \in 1..(y - 1) : reactions'[x][z] = attached'[i]
      BY <1>2 DEF WaitingInOrder, Before
    <3>2. i \in 1..k /\ attached'[i] = attached[i] /\ attached[i] \in Attached
      BY <1>2, <3>1
    <3>3. CASE x # q
      <4>1. reactions'[x] = reactions[x] /\ y \in DOMAIN reactions[x]
        BY <1>4, <3>1, <3>3
      <4>2. reactions[x][y] \in Attached
        BY <1>1, <4>1 DEF PlacesInv, Range
      <4>3. j \in 1..k /\ attached'[j] = attached[j]
        BY <1>2, <1>11, <3>1, <4>1, <4>2
      <4>4. j \in DOMAIN attached /\ reactions[x][y] = attached[j] /\ attached[i].from = x
        BY <1>2, <3>1, <3>2, <4>1, <4>3
      <4>5. \E z \in 1..(y - 1) : reactions[x][z] = attached[i]
        BY <1>1, <4>1, <4>4, WaitingUse
      <4> QED BY <3>2, <4>1, <4>5
    <3>4. CASE x = q /\ j = k + 1
      <4>1. y = n + 1
        <5>1. \A z \in 1..n : react[z] # r
          BY <1>1, <1>3 DEF PlacesInv, react
        <5>2. y \in 1..(n + 1) /\ reactions'[q][y] = r
          BY <1>2, <1>3, <3>1, <3>4
        <5>3. y \in 1..n => reactions'[q][y] = react[y]
          BY <1>3
        <5> QED BY <1>3, <5>1, <5>2, <5>3
      <4>2. attached[i] \in Range(react)
        BY <3>1, <3>2, <3>4, WhereItIs DEF Settled, react
      <4>3. PICK z \in 1..n : react[z] = attached[i]
        BY <1>3, <4>2 DEF Range
      <4>4. z \in 1..(y - 1)
        BY <1>3, <4>1, <4>3
      <4>5. reactions'[q][z] = react[z]
        BY <1>3, <4>3
      <4>6. reactions'[x][z] = attached'[i]
        BY <3>2, <3>4, <4>3, <4>5
      <4> QED BY <4>4, <4>6
    <3>5. CASE x = q /\ j # k + 1
      <4>1. j \in 1..k /\ attached'[j] = attached[j] /\ attached[j] # r
        BY <1>2, <1>11, <3>5
      <4>2. y \in 1..n /\ react[y] = attached[j]
        <5>1. y \in 1..(n + 1) /\ reactions'[q][y] = attached[j]
          BY <1>3, <3>1, <3>5, <4>1
        <5>2. y # n + 1
          BY <1>3, <4>1, <5>1
        <5>3. y \in 1..n
          BY <1>3, <5>1, <5>2
        <5> QED BY <1>3, <5>1, <5>3
      <4>3. PICK z \in 1..(y - 1) : react[z] = attached[i]
        <5>1. /\ j \in DOMAIN attached /\ reactions[q][y] = attached[j] /\ attached[i].from = q
              /\ y \in DOMAIN reactions[q]
          BY <1>2, <1>3, <3>1, <3>2, <3>5, <4>1, <4>2 DEF react
        <5> QED BY <1>1, <5>1, WaitingUse DEF react
      <4>4. z \in 1..n
        BY <1>3, <4>2, <4>3
      <4>5. reactions'[q][z] = react[z]
        BY <1>3, <4>4
      <4> QED BY <3>2, <3>5, <4>3, <4>5
    <3> QED BY <3>3, <3>4, <3>5
  <2> QED BY <2>1, <2>2 DEF OrderInv
<1> QED BY <1>2, <1>7, <1>9, <1>10, <1>13, <1>14, <1>15 DEF Started

\* Calling then, catch or finally on a settled promise.
LEMMA AttachedJobKeepsPlaces ==
  ASSUME IInv, NEW q \in Promises, NEW r \in Reaction, r.from = q, r \notin Attached, state[q] \in Settled,
         \A x \in Promises : state[x] # "none" => state'[x] = state[x],
         reactions' = reactions, attached' = Append(attached, r), started' = started, frames' = frames,
         microtasks' = Append(microtasks, ReactionJob(r, state[q]))
  PROVE  /\ PlacesInv' /\ DistinctInv' /\ OrderInv'
         /\ Waiting' = Waiting /\ Queued' = Queued \cup {r}
         /\ Attached' = Attached \cup {r} /\ Started' = Started
         /\ \A j \in Range(microtasks') : j \in Range(microtasks) \/ j.kind \in Kind
<1> DEFINE k == Len(attached)
           m == Len(microtasks)
           job == ReactionJob(r, state[q])
<1>1. /\ TypeOK /\ PlacesInv /\ DistinctInv /\ OrderOf(microtasks, started) /\ WaitingInOrder
      /\ attached \in Seq(Reaction) /\ microtasks \in Seq(Job)
  BY DEF IInv, OrderInv, TypeOK
<1>2. /\ k \in Nat /\ DOMAIN attached = 1..k /\ DOMAIN attached' = 1..(k + 1)
      /\ \A i \in 1..k : attached'[i] = attached[i] /\ attached[i] \in Attached
      /\ attached'[k + 1] = r
      /\ Attached' = Attached \cup {r}
  BY <1>1, AppendFacts DEF Attached
<1>3. job \in Job /\ job.kind \in Kind /\ ReactionOf(job) = r /\ job.state = state[q] /\ job.from = q
  BY DEF ReactionJob, ReactionOf, Job, Reaction
<1> HIDE DEF job
<1>4. /\ m \in Nat /\ DOMAIN microtasks = 1..m /\ DOMAIN microtasks' = 1..(m + 1)
      /\ \A i \in 1..m : microtasks'[i] = microtasks[i] /\ microtasks[i] \in Range(microtasks)
      /\ microtasks'[m + 1] = job
      /\ Range(microtasks') = Range(microtasks) \cup {job}
  <2>1. microtasks' = Append(microtasks, job)
    BY DEF job
  <2> QED BY <1>1, <1>3, <2>1, AppendFacts
<1> HIDE DEF k, m
<1>5. \A x \in Promises : state[x] \in Settled \/ state[x] = "pending" => state'[x] = state[x]
  BY DEF Settled
<1>6. Waiting' = Waiting
  BY DEF Waiting
<1>7. Queued' = Queued \cup {r}
  <2>1. Queued' = Queued \cup (IF job.kind \in Kind THEN {ReactionOf(job)} ELSE {})
    <3>1. microtasks' = Append(microtasks, job)
      BY DEF job
    <3> QED BY <1>1, <1>3, <3>1, ReactionsInFacts DEF Queued
  <2> QED BY <1>3, <2>1
<1>8. \A y \in Attached : y # r
  OBVIOUS
<1>9. \A j \in Range(microtasks) : j.kind \in Kind =>
        /\ ReactionOf(j) \in Attached /\ ReactionOf(j) \notin Started /\ state'[j.from] = j.state
  <2>1. SUFFICES ASSUME NEW j \in Range(microtasks), j.kind \in Kind
                 PROVE  ReactionOf(j) \in Attached /\ ReactionOf(j) \notin Started /\ state'[j.from] = j.state
    OBVIOUS
  <2>2. ReactionOf(j) \in Attached \ Started /\ state[j.from] = j.state /\ ReactionOf(j) \in Queued
    BY <1>1, <2>1 DEF PlacesInv, Queued, ReactionsIn
  <2>3. j.from \in Promises /\ state[j.from] \in Settled
    <3>1. ReactionOf(j).from = j.from
      BY DEF ReactionOf
    <3> QED BY <1>1, <2>2, <3>1, WhereItIs, AttachedType
  <2> QED BY <1>5, <2>2, <2>3
<1>10. r \notin Started
  BY <1>1 DEF PlacesInv
<1>11. PlacesInv'
  <2>1. \A x \in Promises : \A y \in Range(reactions'[x]) : y \in Attached' /\ y.from = x /\ state'[x] = "pending"
    BY <1>1, <1>2, <1>5 DEF PlacesInv
  <2>2. \A j \in Range(microtasks') : j.kind \in Kind =>
          ReactionOf(j) \in Attached' \ Started' /\ state'[j.from] = j.state
    BY <1>2, <1>3, <1>4, <1>5, <1>9, <1>10 DEF Started
  <2>3. \A f \in Range(frames') : f.kind \in Kind =>
          ReactionOf(f) \in Started' /\ state'[f.from] = f.state /\ HandlerFor(f.kind, f.state)
    <3>1. SUFFICES ASSUME NEW f \in Range(frames), f.kind \in Kind
                   PROVE  ReactionOf(f) \in Started /\ state'[f.from] = f.state /\ HandlerFor(f.kind, f.state)
      BY DEF Started
    <3>2. /\ ReactionOf(f) \in Started /\ state[f.from] = f.state /\ HandlerFor(f.kind, f.state)
          /\ ReactionOf(f).from = f.from /\ ReactionOf(f) \in Attached
      BY <1>1, <3>1 DEF PlacesInv, ReactionOf
    <3> QED BY <1>1, <1>5, <3>2, WhereItIs, AttachedType
  <2>4. \A y \in Started' : y \in Attached' /\ state'[y.from] \in Settled
    <3>1. \A y \in Started : y \in Attached /\ state[y.from] \in Settled
      BY <1>1 DEF PlacesInv
    <3> QED BY <1>1, <1>2, <1>5, <3>1, AttachedType DEF Started
  <2>5. Attached' \subseteq Waiting' \cup Queued' \cup Started'
    BY <1>1, <1>2, <1>6, <1>7 DEF PlacesInv, Started
  <2> QED BY <2>1, <2>2, <2>3, <2>4, <2>5 DEF PlacesInv
<1>12. \A i \in 1..m : microtasks[i].kind \in Kind => ReactionOf(microtasks[i]) # r
  BY <1>4, <1>8, <1>9
<1>13. DistinctInv'
  <2>1. \A i, j \in DOMAIN attached' : attached'[i] = attached'[j] => i = j
    <3>1. \A i \in 1..(k + 1) : i \in 1..k \/ i = k + 1
      BY <1>2
    <3> QED BY <1>1, <1>2, <1>8, <3>1 DEF DistinctInv
  <2>2. ReactionsOnce(microtasks')
    <3>1. \A i \in 1..(m + 1) : i \in 1..m \/ i = m + 1
      BY <1>4
    <3> QED BY <1>1, <1>3, <1>4, <1>12, <3>1 DEF DistinctInv, ReactionsOnce, SameReaction
  <2> QED BY <1>1, <2>1, <2>2 DEF DistinctInv
<1>14. OrderInv'
  <2>1. OrderOf(microtasks, started)'
    <3>1. SUFFICES ASSUME NEW j \in DOMAIN attached', NEW i \in 1..(j - 1), attached'[i].from = attached'[j].from
                   PROVE  /\ \A y \in DOMAIN started' : started'[y] = attached'[j] => Before(started', y, attached'[i])
                          /\ \A y \in DOMAIN microtasks' :
                               microtasks'[y].kind \in Kind /\ ReactionOf(microtasks'[y]) = attached'[j] =>
                                 \/ attached'[i] \in Range(started')
                                 \/ \E x \in 1..(y - 1) :
                                      microtasks'[x].kind \in Kind /\ ReactionOf(microtasks'[x]) = attached'[i]
      BY DEF OrderOf, Before
    <3>2. i \in 1..k /\ attached'[i] = attached[i] /\ attached[i] \in Attached
      BY <1>2, <3>1
    <3>3. CASE j = k + 1
      <4>1. \A y \in DOMAIN started : started[y] # r
        BY <1>10 DEF Started, Range
      <4>2. ASSUME NEW y \in DOMAIN microtasks', microtasks'[y].kind \in Kind, ReactionOf(microtasks'[y]) = r,
                   attached[i] \notin Range(started)
            PROVE  \E x \in 1..(y - 1) : microtasks'[x].kind \in Kind /\ ReactionOf(microtasks'[x]) = attached[i]
        <5>1. y = m + 1
          BY <1>4, <1>12, <4>2
        <5>2. attached[i].from = q /\ attached[i] \in Queued
          <6>1. attached[i].from = q
            BY <1>2, <3>1, <3>2, <3>3
          <6> QED BY <3>2, <4>2, <6>1, WhereItIs DEF Started, Settled
        <5>3. PICK x \in WorkAt(microtasks) : microtasks[x].kind \in Kind /\ ReactionOf(microtasks[x]) = attached[i]
          BY <5>2, RunningAt DEF Queued
        <5>4. x \in 1..(y - 1) /\ microtasks'[x] = microtasks[x]
          BY <1>4, <5>1, <5>3 DEF WorkAt
        <5> QED BY <5>3, <5>4
      <4>3. attached'[j] = r /\ attached'[i] = attached[i]
        BY <1>2, <3>2, <3>3
      <4>4. \A y \in DOMAIN started' : started'[y] # attached'[j]
        BY <4>1, <4>3
      <4>5. \A y \in DOMAIN microtasks' :
              microtasks'[y].kind \in Kind /\ ReactionOf(microtasks'[y]) = attached'[j] =>
                \/ attached'[i] \in Range(started')
                \/ \E x \in 1..(y - 1) :
                     microtasks'[x].kind \in Kind /\ ReactionOf(microtasks'[x]) = attached'[i]
        <5>1. started' = started
          OBVIOUS
        <5> QED BY <4>2, <4>3, <5>1
      <4> QED BY <4>4, <4>5
    <3>4. CASE j \in 1..k
      <4>1. attached'[j] = attached[j] /\ attached[j] # r /\ j \in DOMAIN attached /\ attached[i].from = attached[j].from
        BY <1>2, <1>8, <3>1, <3>2, <3>4
      <4>2. \A y \in DOMAIN started : started[y] = attached[j] => Before(started, y, attached[i])
        BY <1>1, <4>1 DEF OrderOf
      <4>3. ASSUME NEW y \in DOMAIN microtasks', microtasks'[y].kind \in Kind,
                   ReactionOf(microtasks'[y]) = attached[j], attached[i] \notin Range(started)
            PROVE  \E x \in 1..(y - 1) : microtasks'[x].kind \in Kind /\ ReactionOf(microtasks'[x]) = attached[i]
        <5>1. y # m + 1
          BY <1>3, <1>4, <4>1, <4>3
        <5>2. y \in 1..m /\ microtasks'[y] = microtasks[y]
          BY <1>4, <5>1
        <5>3. y \in DOMAIN microtasks /\ microtasks[y].kind \in Kind /\ ReactionOf(microtasks[y]) = attached[j]
          BY <1>4, <4>3, <5>2
        <5>4. OrderOf(microtasks, started)
          BY <1>1
        <5>5. PICK x \in 1..(y - 1) : microtasks[x].kind \in Kind /\ ReactionOf(microtasks[x]) = attached[i]
          <6>1. j \in DOMAIN attached /\ attached[i].from = attached[j].from /\ i \in 1..(j - 1)
            BY <3>1, <4>1
          <6>2. attached[i] \notin Range(started)
            BY <4>3
          <6> QED BY <5>3, <5>4, <6>1, <6>2, OrderUse
        <5>6. microtasks'[x] = microtasks[x]
          BY <1>4, <5>2, <5>5
        <5> QED BY <5>5, <5>6
      <4>4. \A y \in DOMAIN started' : started'[y] = attached'[j] => Before(started', y, attached'[i])
        BY <3>2, <4>1, <4>2
      <4>5. ASSUME NEW y \in DOMAIN microtasks', microtasks'[y].kind \in Kind,
                   ReactionOf(microtasks'[y]) = attached'[j]
            PROVE  \/ attached'[i] \in Range(started')
                   \/ \E x \in 1..(y - 1) : microtasks'[x].kind \in Kind /\ ReactionOf(microtasks'[x]) = attached'[i]
        <5>1. ReactionOf(microtasks'[y]) = attached[j]
          BY <4>1, <4>5
        <5>2. CASE attached[i] \in Range(started)
          BY <3>2, <5>2
        <5>3. CASE attached[i] \notin Range(started)
          <6>1. \E x \in 1..(y - 1) : microtasks'[x].kind \in Kind /\ ReactionOf(microtasks'[x]) = attached[i]
            BY <4>3, <4>5, <5>1, <5>3
          <6> QED BY <3>2, <6>1
        <5> QED BY <5>2, <5>3
      <4> QED BY <4>4, <4>5
    <3>5. j = k + 1 \/ j \in 1..k
      BY <1>2, <3>1
    <3> QED BY <3>3, <3>4, <3>5
  <2>2. WaitingInOrder'
    <3>1. SUFFICES ASSUME NEW x \in Promises, NEW y \in DOMAIN reactions'[x], NEW j \in DOMAIN attached',
                          NEW i \in 1..(j - 1), reactions'[x][y] = attached'[j], attached'[i].from = x
                   PROVE  \E z \in 1..(y - 1) : reactions'[x][z] = attached'[i]
      BY DEF WaitingInOrder, Before
    <3>2. reactions[x][y] \in Attached
      BY <1>1, <3>1 DEF PlacesInv, Range
    <3>3. j \in DOMAIN attached /\ attached'[j] = attached[j] /\ attached'[i] = attached[i]
      BY <1>2, <1>8, <3>1, <3>2
    <3> QED BY <1>1, <3>1, <3>3, WaitingUse
  <2> QED BY <2>1, <2>2 DEF OrderInv
<1>15. \A j \in Range(microtasks') : j \in Range(microtasks) \/ j.kind \in Kind
  BY <1>3, <1>4
<1> QED BY <1>2, <1>6, <1>7, <1>11, <1>13, <1>14, <1>15 DEF Started

\* Steps that move no reaction but, at most, begin a job.
LEMMA OthersKeepPlaces ==
  ASSUME IInv, Between(microtasks', started'), reactions' = reactions, attached' = attached,
         \A x \in Promises : state[x] \in Settled => state'[x] = state[x],
         \A x \in Promises : reactions[x] # <<>> => state'[x] = state[x],
         ReactionsOnce(frames'),
         \A f \in Range(frames') : f.kind \in Kind =>
           f \in Range(frames) \/ (f.kind \in Kind /\ ReactionOf(f) \in Started' /\ state[f.from] = f.state
                                   /\ f.state \in Settled /\ HandlerFor(f.kind, f.state))
  PROVE  /\ PlacesInv' /\ DistinctInv' /\ OrderInv'
         /\ Waiting' = Waiting /\ Attached' = Attached /\ Queued' = ReactionsIn(microtasks')
<1>1. /\ TypeOK /\ PlacesInv /\ DistinctInv /\ WaitingInOrder
  BY DEF IInv, OrderInv, TypeOK
<1>2. Waiting' = Waiting /\ Attached' = Attached /\ Queued' = ReactionsIn(microtasks')
  BY DEF Waiting, Attached, Queued
<1>3. \A r \in Range(started') : r \in Attached /\ state[r.from] \in Settled /\ r.from \in Promises
  <2>1. \A r \in Attached : r.from \in Promises
    BY <1>1, AttachedType
  <2> QED BY <2>1 DEF Between
<1>4. PlacesInv'
  <2>1. \A x \in Promises : \A r \in Range(reactions'[x]) : r \in Attached' /\ r.from = x /\ state'[x] = "pending"
    <3>1. SUFFICES ASSUME NEW x \in Promises, NEW r \in Range(reactions[x])
                   PROVE  r \in Attached /\ r.from = x /\ state'[x] = "pending"
      BY <1>2
    <3>2. reactions[x] # <<>>
      BY <3>1, EmptySeq DEF Range
    <3> QED BY <1>1, <3>1, <3>2 DEF PlacesInv
  <2>2. \A j \in Range(microtasks') : j.kind \in Kind =>
          ReactionOf(j) \in Attached' \ Started' /\ state'[j.from] = j.state
    <3>1. SUFFICES ASSUME NEW j \in Range(microtasks'), j.kind \in Kind
                   PROVE  ReactionOf(j) \in Attached /\ ReactionOf(j) \notin Range(started') /\ state'[j.from] = j.state
      BY <1>2 DEF Started
    <3>2. j \in Range(microtasks) /\ ReactionOf(j) \notin Range(started')
      BY <3>1 DEF Between
    <3>3. ReactionOf(j) \in Attached /\ state[j.from] = j.state /\ ReactionOf(j) \in Queued /\ ReactionOf(j).from = j.from
      BY <1>1, <3>1, <3>2 DEF PlacesInv, Queued, ReactionsIn, ReactionOf
    <3>4. j.from \in Promises /\ state[j.from] \in Settled
      BY <1>1, <3>3, WhereItIs, AttachedType
    <3> QED BY <3>2, <3>3, <3>4
  <2>3. \A f \in Range(frames') : f.kind \in Kind =>
          ReactionOf(f) \in Started' /\ state'[f.from] = f.state /\ HandlerFor(f.kind, f.state)
    <3>1. SUFFICES ASSUME NEW f \in Range(frames'), f.kind \in Kind
                   PROVE  ReactionOf(f) \in Started' /\ state'[f.from] = f.state /\ HandlerFor(f.kind, f.state)
      OBVIOUS
    <3>2. /\ ReactionOf(f) \in Started' /\ state[f.from] = f.state /\ HandlerFor(f.kind, f.state)
          /\ ReactionOf(f).from = f.from
      BY <1>1, <3>1 DEF PlacesInv, Between, Started, ReactionOf
    <3>3. f.from \in Promises /\ state[f.from] \in Settled
      BY <1>3, <3>2 DEF Started
    <3> QED BY <3>2, <3>3
  <2>4. \A r \in Started' : r \in Attached' /\ state'[r.from] \in Settled
    BY <1>2, <1>3 DEF Started
  <2>5. Attached' \subseteq Waiting' \cup Queued' \cup Started'
    BY <1>2 DEF Between, Started
  <2> QED BY <2>1, <2>2, <2>3, <2>4, <2>5 DEF PlacesInv
<1>5. DistinctInv'
  BY <1>1 DEF DistinctInv, Between
<1>6. OrderInv'
  BY <1>1 DEF Between, OrderInv, OrderOf, WaitingInOrder, Before
<1> QED BY <1>2, <1>4, <1>5, <1>6

-----------------------------------------------------------------------------
(* What settles what *)

\* A reaction is in one place only, and has begun once it runs.
LEMMA OnePlace ==
  ASSUME IInv
  PROVE  /\ Running \subseteq Started /\ Active \subseteq Attached /\ Started \subseteq Attached
         /\ \A r \in Queued : r \notin Waiting /\ r \notin Running /\ r \notin Started
         /\ \A r \in Waiting : r \notin Started /\ r \notin Running
         /\ \A r \in Attached : r \in Active \/ r \in Started
         /\ \A r \in Running : HandlerFor(r.kind, state[r.from]) /\ r.kind # "follow"
         /\ \A r \in Queued \cup Running : state[r.from] \in Settled
<1>1. TypeOK /\ PlacesInv
  BY DEF IInv
<1>2. \A r \in Running : r \in Started /\ HandlerFor(r.kind, state[r.from])
  <2>1. SUFFICES ASSUME NEW r \in Running
                 PROVE  r \in Started /\ HandlerFor(r.kind, state[r.from])
    OBVIOUS
  <2>2. PICK f \in Range(frames) : f.kind \in Kind /\ ReactionOf(f) = r
    BY DEF Running, ReactionsIn
  <2> QED BY <1>1, <2>2 DEF PlacesInv, ReactionOf
<1>3. \A r \in Started : r \in Attached
  BY <1>1 DEF PlacesInv
<1>4. \A r \in Queued : r \in Attached /\ r \notin Started
  <2>1. SUFFICES ASSUME NEW r \in Queued
                 PROVE  r \in Attached /\ r \notin Started
    OBVIOUS
  <2>2. PICK j \in Range(microtasks) : j.kind \in Kind /\ ReactionOf(j) = r
    BY DEF Queued, ReactionsIn
  <2> QED BY <1>1, <2>2 DEF PlacesInv
<1>5. \A r \in Waiting : r \in Attached
  BY <1>1 DEF PlacesInv, Waiting
<1>6. \A r \in Attached : /\ r \in Waiting => state[r.from] = "pending"
                          /\ r \in Queued \cup Started => state[r.from] \in Settled
                          /\ r \in Waiting \cup Queued \cup Started
  BY WhereItIs
<1>7. "pending" \notin Settled
  BY DEF Settled
<1>8. \A r : HandlerFor(r.kind, state[r.from]) => r.kind # "follow"
  BY DEF HandlerFor
<1> QED BY <1>2, <1>3, <1>4, <1>5, <1>6, <1>7, <1>8 DEF Active

\* The history of attachments as a set.
LEMMA PassThroughAsSet ==
  ASSUME IInv
  PROVE  \A r \in Attached :
           {state[r.from], state[r.derived]} \subseteq Settled /\ ~HandlerFor(r.kind, state[r.from])
           /\ r.derived \notin overridden => state[r.derived] = state[r.from]
BY DEF IInv, PassThroughKeepsState, Attached, Range

LEMMA PassThroughFromSet ==
  ASSUME \A r \in Attached' :
           {state'[r.from], state'[r.derived]} \subseteq Settled /\ ~HandlerFor(r.kind, state'[r.from])
           /\ r.derived \notin overridden' => state'[r.derived] = state'[r.from]
  PROVE  PassThroughKeepsState'
<1>1. \A i \in DOMAIN attached' : attached'[i] \in Attached'
  BY DEF Attached, Range
<1> QED BY <1>1 DEF PassThroughKeepsState

\* The promise of a reaction that is about to act: its settlement, and that no
\* other reaction is left to act on it.
LEMMA ActsAlone ==
  ASSUME IInv, NEW r \in Queued \cup Running
  PROVE  /\ r \in Attached /\ r \in Active /\ r.derived \in Promises /\ r.from \in Promises
         /\ state[r.from] \in Settled
         /\ pair[r.derived] # "open"
         /\ state[r.derived] = "pending" \/ r.derived \in overridden
         /\ r.kind # "follow" => pair[r.derived] = "none" /\ fate[r.derived] = None /\ r.derived \notin overridden
         /\ \A y \in Attached : y.derived = r.derived /\ y # r => r.kind = "follow" /\ Returned(y) /\ y \notin Active
<1>1. TypeOK /\ PairInv /\ OriginInv
  BY DEF IInv
<1>2. r \in Attached /\ r \in Active /\ state[r.from] \in Settled
  BY OnePlace DEF Active
<1>3. r.derived \in Promises /\ r.from \in Promises
  BY <1>1, <1>2, AttachedType
<1>4. ~Returned(r)
  BY OnePlace DEF Returned
<1>5. \A y \in Attached : Returned(y) => y \notin Active
  BY OnePlace DEF Returned, Active
<1>6. \A y \in Attached : y.derived = r.derived /\ y # r => r.kind = "follow" /\ Returned(y)
  BY <1>1, <1>2, <1>4 DEF OriginInv
<1>7. pair[r.derived] # "open" /\ (pair[r.derived] = "fired" => r.kind = "follow")
  BY <1>1, <1>2 DEF OriginInv
<1>8. pair[r.derived] \in {"none", "open", "fired"}
  BY <1>1, <1>3 DEF TypeOK
<1>9. pair[r.derived] = "none" => fate[r.derived] = None /\ r.derived \notin overridden
  BY <1>1, <1>3 DEF PairInv
<1>10. state[r.derived] = "pending" \/ r.derived \in overridden
  BY <1>1, <1>2 DEF OriginInv
<1> QED BY <1>2, <1>3, <1>5, <1>6, <1>7, <1>8, <1>9, <1>10

\* A reaction acts and settles the promise derived from it.
LEMMA ActKeepsOrigin ==
  ASSUME IInv, NEW r \in Queued \cup Running, NEW s \in Settled,
         ~HandlerFor(r.kind, state[r.from]) => s = state[r.from],
         state' = [state EXCEPT ![r.derived] = IF state[r.derived] = "pending" THEN s ELSE state[r.derived]],
         pair' = pair, fate' = fate, overridden' = overridden,
         Attached' = Attached, Active' = Active \ {r},
         Started \subseteq Started', Running' \subseteq Running
  PROVE  OriginInv' /\ ChainInv' /\ FirstCallDecides' /\ PassThroughKeepsState'
<1> DEFINE p == r.derived
<1>1. TypeOK /\ PairInv /\ OriginInv /\ ChainInv /\ FirstCallDecides
  BY DEF IInv
<1>2. /\ r \in Attached /\ r \in Active /\ p \in Promises /\ r.from \in Promises
      /\ state[r.from] \in Settled
      /\ pair[p] # "open"
      /\ state[p] = "pending" \/ p \in overridden
      /\ r.kind # "follow" => pair[p] = "none" /\ fate[p] = None /\ p \notin overridden
      /\ \A y \in Attached : y.derived = p /\ y # r => r.kind = "follow" /\ Returned(y) /\ y \notin Active
  BY ActsAlone
<1>3. /\ \A x \in Promises : x # p => state'[x] = state[x]
      /\ state'[p] = IF state[p] = "pending" THEN s ELSE state[p]
      /\ state'[p] # "pending"
      /\ \A x \in Promises : state[x] \in Settled => state'[x] = state[x]
      /\ \A x \in Promises : state'[x] = "pending" => state[x] = "pending" /\ x # p
      /\ \A x \in Promises : state[x] # "none" => state'[x] # "none"
  BY <1>1, <1>2 DEF TypeOK, Settled
<1>4. \A y \in Attached : /\ y.from \in Promises /\ y.derived \in Promises
                          /\ Returned(y) => Returned(y)'
  <2>1. SUFFICES ASSUME NEW y \in Attached
                 PROVE  y.from \in Promises /\ y.derived \in Promises /\ (Returned(y) => Returned(y)')
    OBVIOUS
  <2>2. y.from \in Promises /\ y.derived \in Promises
    BY <1>1, AttachedType
  <2>3. Returned(y) => state[y.from] \in Settled
    BY WhereItIs DEF Returned
  <2> QED BY <1>3, <2>2, <2>3 DEF Returned
<1> HIDE DEF p
<1>5. OriginInv'
  <2>1. \A y \in Attached' :
          /\ state'[y.derived] # "none"
          /\ pair'[y.derived] # "open"
          /\ pair'[y.derived] = "fired" =>
               y.kind = "follow" /\ (y.derived \in overridden' \/ fate'[y.derived] = y.from)
    BY <1>1, <1>3, <1>4 DEF OriginInv
  <2>2. \A y, z \in Attached' : y.derived = z.derived =>
          y = z \/ (y.kind = "follow" /\ Returned(z)') \/ (z.kind = "follow" /\ Returned(y)')
    BY <1>1, <1>4 DEF OriginInv
  <2>3. \A y \in Active' : state'[y.derived] = "pending" \/ y.derived \in overridden'
    <3>1. SUFFICES ASSUME NEW y \in Active, y # r
                   PROVE  state'[y.derived] = "pending" \/ y.derived \in overridden
      OBVIOUS
    <3>2. y \in Attached
      BY <3>1, OnePlace
    <3>3. y.derived # p
      BY <1>2, <3>1, <3>2
    <3> QED BY <1>1, <1>3, <1>4, <3>1, <3>2, <3>3 DEF OriginInv
  <2> QED BY <2>1, <2>2, <2>3 DEF OriginInv
<1>6. ChainInv'
  <2>1. SUFFICES ASSUME NEW x \in Promises, state'[x] = "pending", pair'[x] # "open"
                 PROVE  \E y \in Active' : y.derived = x
    BY DEF ChainInv
  <2>2. state[x] = "pending" /\ x # p
    BY <1>3, <2>1
  <2>3. PICK y \in Active : y.derived = x
    BY <1>1, <2>1, <2>2 DEF ChainInv
  <2> QED BY <2>2, <2>3 DEF p
<1>7. FirstCallDecides'
  <2>1. SUFFICES ASSUME NEW x \in Promises, x \notin overridden, fate[x] # None, state'[x] \in Settled
                 PROVE  state'[x] = IF fate[x] \in Promises THEN state'[fate[x]] ELSE fate[x]
    BY DEF FirstCallDecides, AskedState
  <2>2. CASE x = p
    <3>1. r.kind = "follow" /\ state[p] = "pending"
      BY <1>2, <2>1, <2>2
    <3>2. pair[p] = "fired"
      BY <1>1, <1>2, <2>1, <2>2 DEF PairInv, TypeOK
    <3>3. fate[p] = r.from
      BY <1>1, <1>2, <2>1, <2>2, <3>2 DEF OriginInv, p
    <3>4. s = state[r.from]
      BY <3>1 DEF HandlerFor
    <3> QED BY <1>2, <1>3, <2>2, <3>1, <3>3, <3>4
  <2>3. CASE x # p
    <3>1. state[x] \in Settled /\ state'[x] = state[x]
      BY <1>3, <2>1, <2>3
    <3>2. state[x] = IF fate[x] \in Promises THEN state[fate[x]] ELSE fate[x]
      BY <1>1, <2>1, <3>1 DEF FirstCallDecides, AskedState
    <3> QED BY <1>3, <3>1, <3>2
  <2> QED BY <2>2, <2>3
<1>8. PassThroughKeepsState'
  <2>1. SUFFICES ASSUME NEW y \in Attached, {state'[y.from], state'[y.derived]} \subseteq Settled,
                        ~HandlerFor(y.kind, state'[y.from]), y.derived \notin overridden
                 PROVE  state'[y.derived] = state'[y.from]
    BY PassThroughFromSet
  <2>2. CASE y = r
    <3>1. state'[r.from] = state[r.from] /\ state[p] = "pending"
      BY <1>2, <1>3, <2>1, <2>2 DEF p
    <3> QED BY <1>3, <2>1, <2>2, <3>1 DEF p
  <2>3. CASE y # r /\ y.derived = p
    <3>1. Returned(y) /\ state[y.from] \in Settled
      BY <1>2, <2>3, WhereItIs DEF Returned
    <3> QED BY <1>3, <1>4, <2>1, <3>1 DEF Returned
  <2>4. CASE y.derived # p /\ y.from = p /\ state[p] = "pending"
    <3>1. y \in Active
      BY <2>4, OnePlace, WhereItIs DEF Settled
    <3>2. state[y.derived] = "pending"
      BY <1>1, <2>1, <3>1 DEF OriginInv
    <3> QED BY <1>3, <1>4, <2>1, <2>4, <3>2 DEF Settled
  <2>5. CASE y.derived # p /\ (y.from # p \/ state[p] # "pending")
    <3>1. state'[y.from] = state[y.from] /\ state'[y.derived] = state[y.derived]
      BY <1>2, <1>3, <1>4, <2>5
    <3> QED BY <2>1, <3>1, PassThroughAsSet
  <2> QED BY <2>2, <2>3, <2>4, <2>5 DEF p
<1> QED BY <1>5, <1>6, <1>7, <1>8

\* No reaction derives a promise whose pair is open, or that does not exist yet.
LEMMA NothingDerives ==
  ASSUME IInv, NEW p \in Promises, pair[p] = "open" \/ state[p] = "none"
  PROVE  \A y \in Attached : y.derived # p
BY DEF IInv, OriginInv

\* The resolver pair of a promise fires and settles it (callResolver).
LEMMA FireKeepsOrigin ==
  ASSUME IInv, NEW p \in Promises, NEW s \in Settled, NEW w \in Settled \cup Promises, pair[p] = "open",
         w = s \/ (w \in Promises \ {p} /\ state[w] = s),
         state' = [state EXCEPT ![p] = IF state[p] = "pending" THEN s ELSE state[p]],
         pair' = [pair EXCEPT ![p] = "fired"], fate' = Asked(p, w), overridden' = overridden,
         Attached' = Attached, Active' = Active, Started' = Started, Running' = Running
  PROVE  OriginInv' /\ ChainInv' /\ FirstCallDecides' /\ PassThroughKeepsState'
<1>1. TypeOK /\ PairInv /\ OriginInv /\ ChainInv /\ FirstCallDecides
  BY DEF IInv
<1>2. \A y \in Attached : y.derived # p
  BY NothingDerives
<1>3. /\ \A x \in Promises : x # p => state'[x] = state[x] /\ pair'[x] = pair[x] /\ fate'[x] = fate[x]
      /\ state'[p] = IF state[p] = "pending" THEN s ELSE state[p]
      /\ fate'[p] = IF fate[p] = None THEN w ELSE fate[p]
      /\ pair'[p] = "fired"
      /\ state'[p] # "pending"
      /\ \A x \in Promises : state[x] \in Settled => state'[x] = state[x]
      /\ \A x \in Promises : state'[x] = "pending" => state[x] = "pending" /\ x # p
      /\ \A x \in Promises : state[x] # "none" => state'[x] # "none"
  BY <1>1 DEF TypeOK, Settled, Asked
<1>4. \A y \in Attached : /\ y.from \in Promises /\ y.derived \in Promises
                          /\ Returned(y) => Returned(y)'
  <2>1. SUFFICES ASSUME NEW y \in Attached
                 PROVE  y.from \in Promises /\ y.derived \in Promises /\ (Returned(y) => Returned(y)')
    OBVIOUS
  <2>2. y.from \in Promises /\ y.derived \in Promises
    BY <1>1, AttachedType
  <2>3. Returned(y) => state[y.from] \in Settled
    BY WhereItIs DEF Returned
  <2> QED BY <1>3, <2>2, <2>3 DEF Returned
<1>5. OriginInv'
  <2>1. \A y \in Attached' :
          /\ state'[y.derived] # "none"
          /\ pair'[y.derived] # "open"
          /\ pair'[y.derived] = "fired" =>
               y.kind = "follow" /\ (y.derived \in overridden' \/ fate'[y.derived] = y.from)
    BY <1>1, <1>2, <1>3, <1>4 DEF OriginInv
  <2>2. \A y, z \in Attached' : y.derived = z.derived =>
          y = z \/ (y.kind = "follow" /\ Returned(z)') \/ (z.kind = "follow" /\ Returned(y)')
    BY <1>1, <1>4 DEF OriginInv
  <2>3. \A y \in Active' : state'[y.derived] = "pending" \/ y.derived \in overridden'
    <3>1. SUFFICES ASSUME NEW y \in Active
                   PROVE  state'[y.derived] = "pending" \/ y.derived \in overridden
      OBVIOUS
    <3>2. y \in Attached
      BY <3>1, OnePlace
    <3> QED BY <1>1, <1>2, <1>3, <1>4, <3>1, <3>2 DEF OriginInv
  <2> QED BY <2>1, <2>2, <2>3 DEF OriginInv
<1>6. ChainInv'
  BY <1>1, <1>3 DEF ChainInv
<1>7. FirstCallDecides'
  <2>1. SUFFICES ASSUME NEW x \in Promises, x \notin overridden, fate'[x] # None, state'[x] \in Settled
                 PROVE  state'[x] = IF fate'[x] \in Promises THEN state'[fate'[x]] ELSE fate'[x]
    BY DEF FirstCallDecides, AskedState
  <2>2. CASE x = p
    <3>1. state[p] = "pending" /\ fate[p] = None
      BY <1>1, <2>1, <2>2 DEF PairInv
    <3>2. fate'[p] = w /\ state'[p] = s
      BY <1>3, <3>1
    <3>3. s \notin Promises
      BY ConstantsAssumption DEF Settled
    <3> QED BY <1>3, <2>2, <3>2, <3>3
  <2>3. CASE x # p
    <3>1. state[x] \in Settled /\ state'[x] = state[x] /\ fate'[x] = fate[x]
      BY <1>3, <2>1, <2>3
    <3>2. state[x] = IF fate[x] \in Promises THEN state[fate[x]] ELSE fate[x]
      BY <1>1, <2>1, <3>1 DEF FirstCallDecides, AskedState
    <3> QED BY <1>3, <3>1, <3>2
  <2> QED BY <2>2, <2>3
<1>8. PassThroughKeepsState'
  <2>1. SUFFICES ASSUME NEW y \in Attached, {state'[y.from], state'[y.derived]} \subseteq Settled,
                        ~HandlerFor(y.kind, state'[y.from]), y.derived \notin overridden
                 PROVE  state'[y.derived] = state'[y.from]
    BY PassThroughFromSet
  <2>2. CASE y.from = p /\ state[p] = "pending"
    <3>1. y \in Active
      BY <2>2, OnePlace, WhereItIs DEF Settled
    <3>2. state[y.derived] = "pending"
      BY <1>1, <2>1, <3>1 DEF OriginInv
    <3> QED BY <1>2, <1>3, <1>4, <2>1, <3>2 DEF Settled
  <2>3. CASE y.from # p \/ state[p] # "pending"
    <3>1. state'[y.from] = state[y.from] /\ state'[y.derived] = state[y.derived]
      BY <1>2, <1>3, <1>4, <2>3
    <3> QED BY <2>1, <3>1, PassThroughAsSet
  <2> QED BY <2>2, <2>3
<1> QED BY <1>5, <1>6, <1>7, <1>8

\* The resolver pair fires and its promise follows a pending one, which may be
\* new (resolvePromiseValue).
LEMMA FollowKeepsOrigin ==
  ASSUME IInv, NEW p \in Promises, NEW q \in Promises \ {p}, NEW r \in Reaction, pair[p] = "open",
         r.from = q, r.kind = "follow", r.derived = p, r \notin Attached,
         state'[q] = "pending", \A x \in Promises : state'[x] = state[x] \/ (x = q /\ state[q] = "none"),
         pair'[p] = "fired", \A x \in Promises : x # p => pair'[x] = pair[x] \/ (x = q /\ state[q] = "none" /\ pair'[q] = "open"),
         state[q] = "none" => pair'[q] = "open",
         fate' = Asked(p, q), overridden' = overridden,
         Attached' = Attached \cup {r}, Active' = Active \cup {r}, Started' = Started, Running' = Running
  PROVE  OriginInv' /\ ChainInv' /\ FirstCallDecides' /\ PassThroughKeepsState'
<1>1. TypeOK /\ PairInv /\ OriginInv /\ ChainInv /\ FirstCallDecides
  BY DEF IInv
<1>2. \A y \in Attached : y.derived # p
  BY NothingDerives
<1>3. /\ \A x \in Promises : state[x] # "none" => state'[x] = state[x]
      /\ \A x \in Promises : state'[x] \in Settled => state[x] = state'[x]
      /\ \A x \in Promises : x # p => fate'[x] = fate[x]
      /\ fate'[p] = IF fate[p] = None THEN q ELSE fate[p]
      /\ state[p] # "none"
      /\ state'[p] = "pending" \/ p \in overridden
      /\ p \in overridden \/ fate'[p] = q
  <2>1. state[p] # "none" /\ (p \in overridden \/ (state[p] = "pending" /\ fate[p] = None))
    BY <1>1 DEF PairInv
  <2> QED BY <1>1, <2>1 DEF TypeOK, Settled, Asked
<1>4. \A y \in Attached : /\ y.from \in Promises /\ y.derived \in Promises /\ state[y.derived] # "none"
                          /\ state[y.from] # "none"
                          /\ Returned(y) => Returned(y)'
  <2>1. SUFFICES ASSUME NEW y \in Attached
                 PROVE  /\ y.from \in Promises /\ y.derived \in Promises /\ state[y.derived] # "none"
                        /\ state[y.from] # "none" /\ (Returned(y) => Returned(y)')
    OBVIOUS
  <2>2. y.from \in Promises /\ y.derived \in Promises /\ state[y.derived] # "none" /\ state[y.from] # "none"
    BY <1>1, AttachedType, WhereItIs
  <2> QED BY <1>3, <2>2 DEF Returned
<1>5. OriginInv'
  <2>1. \A y \in Attached' :
          /\ state'[y.derived] # "none"
          /\ pair'[y.derived] # "open"
          /\ pair'[y.derived] = "fired" =>
               y.kind = "follow" /\ (y.derived \in overridden' \/ fate'[y.derived] = y.from)
    <3>1. SUFFICES ASSUME NEW y \in Attached'
                   PROVE  /\ state'[y.derived] # "none"
                          /\ pair'[y.derived] # "open"
                          /\ pair'[y.derived] = "fired" =>
                               y.kind = "follow" /\ (y.derived \in overridden' \/ fate'[y.derived] = y.from)
      OBVIOUS
    <3>2. CASE y = r
      BY <1>3, <3>2
    <3>3. CASE y \in Attached
      <4>1. y.derived # p /\ y.derived \in Promises /\ state[y.derived] # "none"
        BY <1>2, <1>4, <3>3
      <4>2. pair'[y.derived] = pair[y.derived] /\ fate'[y.derived] = fate[y.derived]
        BY <1>3, <4>1
      <4> QED BY <1>1, <1>3, <3>3, <4>1, <4>2 DEF OriginInv
    <3> QED BY <3>1, <3>2, <3>3
  <2>2. \A y, z \in Attached' : y.derived = z.derived =>
          y = z \/ (y.kind = "follow" /\ Returned(z)') \/ (z.kind = "follow" /\ Returned(y)')
    BY <1>1, <1>2, <1>4 DEF OriginInv
  <2>3. \A y \in Active' : state'[y.derived] = "pending" \/ y.derived \in overridden'
    <3>1. ASSUME NEW y \in Active
          PROVE  state'[y.derived] = "pending" \/ y.derived \in overridden
      <4>1. y \in Attached
        BY <3>1, OnePlace
      <4> QED BY <1>1, <1>3, <1>4, <3>1, <4>1 DEF OriginInv
    <3> QED BY <1>3, <3>1
  <2> QED BY <2>1, <2>2, <2>3 DEF OriginInv
<1>6. ChainInv'
  <2>1. SUFFICES ASSUME NEW x \in Promises, state'[x] = "pending", pair'[x] # "open"
                 PROVE  \E y \in Active' : y.derived = x
    BY DEF ChainInv
  <2>2. CASE x = p
    BY <2>2
  <2>3. CASE x # p
    <3>1. state[x] = "pending" /\ pair[x] # "open"
      BY <2>1, <2>3
    <3> QED BY <1>1, <3>1 DEF ChainInv
  <2> QED BY <2>2, <2>3
<1>7. FirstCallDecides'
  <2>1. SUFFICES ASSUME NEW x \in Promises, x \notin overridden, fate'[x] # None, state'[x] \in Settled
                 PROVE  state'[x] = IF fate'[x] \in Promises THEN state'[fate'[x]] ELSE fate'[x]
    BY DEF FirstCallDecides, AskedState
  <2>2. x # p /\ state[x] \in Settled /\ state'[x] = state[x] /\ fate'[x] = fate[x]
    BY <1>3, <2>1 DEF Settled
  <2>3. state[x] = IF fate[x] \in Promises THEN state[fate[x]] ELSE fate[x]
    BY <1>1, <2>1, <2>2 DEF FirstCallDecides, AskedState
  <2>4. fate[x] \in Promises => state[fate[x]] # "none"
    BY <1>1 DEF PairInv
  <2> QED BY <1>3, <2>2, <2>3, <2>4
<1>8. PassThroughKeepsState'
  <2>1. SUFFICES ASSUME NEW y \in Attached', {state'[y.from], state'[y.derived]} \subseteq Settled,
                        ~HandlerFor(y.kind, state'[y.from]), y.derived \notin overridden
                 PROVE  state'[y.derived] = state'[y.from]
    BY PassThroughFromSet
  <2>2. y # r
    BY <2>1 DEF Settled
  <2>3. state'[y.from] = state[y.from] /\ state'[y.derived] = state[y.derived] /\ y \in Attached
    BY <1>3, <1>4, <2>1, <2>2
  <2> QED BY <2>1, <2>3, PassThroughAsSet
<1> QED BY <1>5, <1>6, <1>7, <1>8

\* A handler returned a pending promise, which the derived promise follows.
LEMMA ReturnKeepsOrigin ==
  ASSUME IInv, NEW h \in Running, NEW r \in Reaction,
         r.kind = "follow", r.derived = h.derived, r \notin Attached, state[r.from] = "pending",
         state' = state, pair' = pair, fate' = fate, overridden' = overridden,
         Attached' = Attached \cup {r}, Active' = (Active \ {h}) \cup {r}, Started' = Started, Running' = Running \ {h}
  PROVE  OriginInv' /\ ChainInv' /\ FirstCallDecides' /\ PassThroughKeepsState'
<1> DEFINE p == h.derived
<1>1. TypeOK /\ PairInv /\ OriginInv /\ ChainInv /\ FirstCallDecides
  BY DEF IInv
<1>2. /\ h \in Attached /\ p \in Promises /\ h.kind # "follow" /\ pair[p] = "none" /\ p \notin overridden
      /\ state[p] = "pending"
      /\ \A y \in Attached : y.derived = p => y = h
  <2>1. h.kind # "follow"
    BY OnePlace
  <2> QED BY <2>1, ActsAlone
<1>3. \A y \in Attached : Returned(y) => Returned(y)'
  BY DEF Returned
<1>4. Returned(h)'
  BY <1>2, OnePlace DEF Returned
<1>5. r \notin Active
  BY OnePlace
<1> HIDE DEF p
<1>6. OriginInv'
  <2>1. \A y \in Attached' :
          /\ state'[y.derived] # "none"
          /\ pair'[y.derived] # "open"
          /\ pair'[y.derived] = "fired" =>
               y.kind = "follow" /\ (y.derived \in overridden' \/ fate'[y.derived] = y.from)
    BY <1>1, <1>2 DEF OriginInv, p
  <2>2. \A y, z \in Attached' : y.derived = z.derived =>
          y = z \/ (y.kind = "follow" /\ Returned(z)') \/ (z.kind = "follow" /\ Returned(y)')
    <3>1. SUFFICES ASSUME NEW y \in Attached', NEW z \in Attached', y.derived = z.derived, y # z
                   PROVE  (y.kind = "follow" /\ Returned(z)') \/ (z.kind = "follow" /\ Returned(y)')
      OBVIOUS
    <3>2. CASE y = r
      BY <1>2, <1>4, <3>1, <3>2 DEF p
    <3>3. CASE z = r
      BY <1>2, <1>4, <3>1, <3>3 DEF p
    <3>4. CASE y \in Attached /\ z \in Attached
      BY <1>1, <1>3, <3>1, <3>4 DEF OriginInv
    <3> QED BY <3>1, <3>2, <3>3, <3>4
  <2>3. \A y \in Active' : state'[y.derived] = "pending" \/ y.derived \in overridden'
    BY <1>1, <1>2 DEF OriginInv, p
  <2> QED BY <2>1, <2>2, <2>3 DEF OriginInv
<1>7. ChainInv'
  <2>1. SUFFICES ASSUME NEW x \in Promises, state[x] = "pending", pair[x] # "open"
                 PROVE  \E y \in Active' : y.derived = x
    BY DEF ChainInv
  <2>2. CASE x = p
    BY <2>2 DEF p
  <2>3. CASE x # p
    BY <1>1, <2>1, <2>3 DEF ChainInv, p
  <2> QED BY <2>2, <2>3
<1>8. FirstCallDecides'
  BY <1>1 DEF FirstCallDecides, AskedState
<1>9. PassThroughKeepsState'
  <2>1. SUFFICES ASSUME NEW y \in Attached', {state[y.from], state[y.derived]} \subseteq Settled,
                        ~HandlerFor(y.kind, state[y.from]), y.derived \notin overridden
                 PROVE  state[y.derived] = state[y.from]
    BY PassThroughFromSet
  <2>2. y # r
    BY <2>1 DEF Settled
  <2> QED BY <2>1, <2>2, PassThroughAsSet
<1> QED BY <1>6, <1>7, <1>8, <1>9

\* then, catch and finally make a promise and a reaction for it.
LEMMA ThenKeepsOrigin ==
  ASSUME IInv, NEW d \in Promises, NEW r \in Reaction, state[d] = "none", r.derived = d, r \notin Attached,
         state[r.from] # "none",
         state' = [state EXCEPT ![d] = "pending"], pair' = pair, fate' = fate, overridden' = overridden,
         Attached' = Attached \cup {r}, Active' = Active \cup {r}, Started' = Started, Running' = Running
  PROVE  OriginInv' /\ ChainInv' /\ FirstCallDecides' /\ PassThroughKeepsState'
<1>1. TypeOK /\ PairInv /\ OriginInv /\ ChainInv /\ FirstCallDecides
  BY DEF IInv
<1>2. \A y \in Attached : y.derived # d
  BY NothingDerives
<1>3. /\ state'[d] = "pending" /\ pair[d] = "none"
      /\ \A x \in Promises : x # d => state'[x] = state[x]
      /\ \A x \in Promises : state[x] # "none" => state'[x] = state[x]
      /\ \A x \in Promises : state'[x] \in Settled => state[x] = state'[x]
  BY <1>1 DEF TypeOK, Settled, PairInv
<1>4. \A y \in Attached : /\ y.from \in Promises /\ y.derived \in Promises /\ state[y.derived] # "none"
                          /\ state[y.from] # "none"
                          /\ Returned(y) => Returned(y)'
  <2>1. SUFFICES ASSUME NEW y \in Attached
                 PROVE  /\ y.from \in Promises /\ y.derived \in Promises /\ state[y.derived] # "none"
                        /\ state[y.from] # "none" /\ (Returned(y) => Returned(y)')
    OBVIOUS
  <2>2. y.from \in Promises /\ y.derived \in Promises /\ state[y.derived] # "none" /\ state[y.from] # "none"
    BY <1>1, AttachedType, WhereItIs
  <2> QED BY <1>3, <2>2 DEF Returned
<1>5. OriginInv'
  <2>1. \A y \in Attached' :
          /\ state'[y.derived] # "none"
          /\ pair'[y.derived] # "open"
          /\ pair'[y.derived] = "fired" =>
               y.kind = "follow" /\ (y.derived \in overridden' \/ fate'[y.derived] = y.from)
    BY <1>1, <1>3, <1>4 DEF OriginInv
  <2>2. \A y, z \in Attached' : y.derived = z.derived =>
          y = z \/ (y.kind = "follow" /\ Returned(z)') \/ (z.kind = "follow" /\ Returned(y)')
    BY <1>1, <1>2, <1>4 DEF OriginInv
  <2>3. \A y \in Active' : state'[y.derived] = "pending" \/ y.derived \in overridden'
    <3>1. ASSUME NEW y \in Active
          PROVE  state'[y.derived] = "pending" \/ y.derived \in overridden
      <4>1. y \in Attached
        BY <3>1, OnePlace
      <4> QED BY <1>1, <1>3, <1>4, <3>1, <4>1 DEF OriginInv
    <3> QED BY <1>3, <3>1
  <2> QED BY <2>1, <2>2, <2>3 DEF OriginInv
<1>6. ChainInv'
  <2>1. SUFFICES ASSUME NEW x \in Promises, state'[x] = "pending", pair[x] # "open"
                 PROVE  \E y \in Active' : y.derived = x
    BY DEF ChainInv
  <2>2. CASE x = d
    BY <2>2
  <2>3. CASE x # d
    BY <1>1, <1>3, <2>1, <2>3 DEF ChainInv
  <2> QED BY <2>2, <2>3
<1>7. FirstCallDecides'
  <2>1. SUFFICES ASSUME NEW x \in Promises, x \notin overridden, fate[x] # None, state'[x] \in Settled
                 PROVE  state'[x] = IF fate[x] \in Promises THEN state'[fate[x]] ELSE fate[x]
    BY DEF FirstCallDecides, AskedState
  <2>2. state[x] \in Settled /\ state'[x] = state[x]
    BY <1>3, <2>1
  <2>3. state[x] = IF fate[x] \in Promises THEN state[fate[x]] ELSE fate[x]
    BY <1>1, <2>1, <2>2 DEF FirstCallDecides, AskedState
  <2>4. fate[x] \in Promises => state[fate[x]] # "none"
    BY <1>1 DEF PairInv
  <2> QED BY <1>3, <2>2, <2>3, <2>4
<1>8. PassThroughKeepsState'
  <2>1. SUFFICES ASSUME NEW y \in Attached', {state'[y.from], state'[y.derived]} \subseteq Settled,
                        ~HandlerFor(y.kind, state'[y.from]), y.derived \notin overridden
                 PROVE  state'[y.derived] = state'[y.from]
    BY PassThroughFromSet
  <2>2. y # r
    BY <1>3, <2>1 DEF Settled
  <2>3. state'[y.from] = state[y.from] /\ state'[y.derived] = state[y.derived] /\ y \in Attached
    BY <1>3, <1>4, <2>1, <2>2
  <2> QED BY <2>1, <2>3, PassThroughAsSet
<1> QED BY <1>5, <1>6, <1>7, <1>8

\* Steps that make no reaction and let none act: a handler is called, a promise
\* is born, a frame comes or goes.
LEMMA OthersKeepOrigin ==
  ASSUME IInv,
         \A x \in Promises : \/ state'[x] = state[x] /\ pair'[x] = pair[x]
                             \/ state[x] = "none" /\ state'[x] = "pending" /\ pair'[x] = "open"
                             \/ state[x] = "none" /\ state'[x] = "rejected" /\ pair'[x] = "none",
         fate' = fate, overridden' = overridden,
         Attached' = Attached, Active' = Active, Started \subseteq Started',
         \A r \in Started : r \notin Running => r \notin Running'
  PROVE  OriginInv' /\ ChainInv' /\ FirstCallDecides' /\ PassThroughKeepsState'
<1>1. TypeOK /\ PairInv /\ OriginInv /\ ChainInv /\ FirstCallDecides
  BY DEF IInv
<1>2. \A x \in Promises : state[x] # "none" => state'[x] = state[x] /\ pair'[x] = pair[x]
  OBVIOUS
<1>3. \A y \in Attached : /\ y.from \in Promises /\ y.derived \in Promises /\ state[y.derived] # "none"
                          /\ state[y.from] # "none"
                          /\ Returned(y) => Returned(y)'
  <2>1. SUFFICES ASSUME NEW y \in Attached
                 PROVE  /\ y.from \in Promises /\ y.derived \in Promises /\ state[y.derived] # "none"
                        /\ state[y.from] # "none" /\ (Returned(y) => Returned(y)')
    OBVIOUS
  <2>2. y.from \in Promises /\ y.derived \in Promises /\ state[y.derived] # "none" /\ state[y.from] # "none"
    BY <1>1, AttachedType, WhereItIs
  <2> QED BY <1>2, <2>2 DEF Returned
<1>4. OriginInv'
  <2>1. \A y \in Attached' :
          /\ state'[y.derived] # "none"
          /\ pair'[y.derived] # "open"
          /\ pair'[y.derived] = "fired" =>
               y.kind = "follow" /\ (y.derived \in overridden' \/ fate'[y.derived] = y.from)
    BY <1>1, <1>2, <1>3 DEF OriginInv
  <2>2. \A y, z \in Attached' : y.derived = z.derived =>
          y = z \/ (y.kind = "follow" /\ Returned(z)') \/ (z.kind = "follow" /\ Returned(y)')
    BY <1>1, <1>3 DEF OriginInv
  <2>3. \A y \in Active' : state'[y.derived] = "pending" \/ y.derived \in overridden'
    <3>1. SUFFICES ASSUME NEW y \in Active
                   PROVE  state'[y.derived] = "pending" \/ y.derived \in overridden
      OBVIOUS
    <3>2. y \in Attached
      BY <3>1, OnePlace
    <3> QED BY <1>1, <1>2, <1>3, <3>1, <3>2 DEF OriginInv
  <2> QED BY <2>1, <2>2, <2>3 DEF OriginInv
<1>5. ChainInv'
  BY <1>1 DEF ChainInv
<1>6. FirstCallDecides'
  <2>1. SUFFICES ASSUME NEW x \in Promises, x \notin overridden, fate[x] # None, state'[x] \in Settled
                 PROVE  state'[x] = IF fate[x] \in Promises THEN state'[fate[x]] ELSE fate[x]
    BY DEF FirstCallDecides, AskedState
  <2>2. state[x] # "none"
    BY <1>1, <2>1 DEF PairInv
  <2>3. state[x] = IF fate[x] \in Promises THEN state[fate[x]] ELSE fate[x]
    BY <1>1, <1>2, <2>1, <2>2 DEF FirstCallDecides, AskedState
  <2>4. fate[x] \in Promises => state[fate[x]] # "none"
    BY <1>1 DEF PairInv
  <2> QED BY <1>2, <2>2, <2>3, <2>4
<1>7. PassThroughKeepsState'
  <2>1. SUFFICES ASSUME NEW y \in Attached, {state'[y.from], state'[y.derived]} \subseteq Settled,
                        ~HandlerFor(y.kind, state'[y.from]), y.derived \notin overridden
                 PROVE  state'[y.derived] = state'[y.from]
    BY PassThroughFromSet
  <2>2. state'[y.from] = state[y.from] /\ state'[y.derived] = state[y.derived]
    BY <1>2, <1>3
  <2> QED BY <2>1, <2>2, PassThroughAsSet
<1> QED BY <1>4, <1>5, <1>6, <1>7

-----------------------------------------------------------------------------
(* The steps, by what they do *)

\* settlePromise keeps count of what is handled.  `seen` are the settled promises
\* the step marks as handled.
LEMMA SettleKeepsHandled ==
  ASSUME IInv, NEW p \in Promises, NEW s \in Settled, NEW queue \in Seq(Job), NEW seen \in SUBSET Promises,
         \A x \in seen : state[x] \in Settled,
         SettleIn(state, p, s, queue, unhandled \ seen), handled' = handled \cup seen,
         hidden' = hidden, exited' = exited, overridden' = overridden
  PROVE  HandledInv'
<1>1. TypeOK /\ PairInv /\ HandledInv
  BY DEF IInv
<1>2. /\ state' = [state EXCEPT ![p] = IF state[p] = "pending" THEN s ELSE state[p]]
      /\ awaited' = awaited \ {p}
      /\ reactions' = [reactions EXCEPT ![p] = <<>>]
  <2>1. unhandled \ seen \in SUBSET Promises
    BY <1>1 DEF TypeOK
  <2> QED BY <2>1, SettleShape
<1>3. /\ \A x \in Promises : x # p => state'[x] = state[x] /\ reactions'[x] = reactions[x]
      /\ state'[p] = IF state[p] = "pending" THEN s ELSE state[p]
      /\ state'[p] # "pending"
      /\ \A x \in Promises : state[x] # "none" => state'[x] # "none"
  BY <1>1, <1>2 DEF TypeOK, Settled
<1>4. \A x \in Promises : state'[x] = "pending" => (x \in handled' <=> reactions'[x] # <<>> \/ x \in awaited')
  BY <1>1, <1>2, <1>3 DEF HandledInv, Settled
<1>5. \A x \in awaited' : state'[x] = "pending"
  BY <1>1, <1>2, <1>3 DEF HandledInv, TypeOK
<1>6. \A x \in handled' \cup hidden' : state'[x] # "none"
  BY <1>1, <1>3 DEF HandledInv, TypeOK, Settled
<1>7. UnhandledExact'
  <2>1. SUFFICES ASSUME ~exited
                 PROVE  unhandled' = {x \in Promises \ (handled' \cup overridden) : state'[x] = "rejected"}
    BY DEF UnhandledExact
  <2>2. unhandled = {x \in Promises \ (handled \cup overridden) : state[x] = "rejected"}
    BY <1>1, <2>1 DEF HandledInv, UnhandledExact
  <2>3. CASE state[p] = "pending"
    <3>1. unhandled' = IF s = "rejected" /\ reactions[p] = <<>> /\ p \notin awaited
                       THEN (unhandled \ seen) \cup {p} ELSE unhandled \ seen
      BY <2>3 DEF SettleIn
    <3>2. p \notin overridden /\ p \notin seen /\ (p \in handled <=> reactions[p] # <<>> \/ p \in awaited)
      BY <1>1, <2>3 DEF PairInv, HandledInv, Settled
    <3>3. \A x \in Promises : x \in unhandled' <=>
            x \notin handled' /\ x \notin overridden /\ state'[x] = "rejected"
      BY <1>3, <2>2, <2>3, <3>1, <3>2
    <3>4. unhandled' \subseteq Promises
      BY <2>2, <3>1
    <3> QED BY <3>3, <3>4
  <2>4. CASE state[p] # "pending"
    <3>1. unhandled' = unhandled \ seen /\ state' = state
      BY <2>4 DEF SettleIn
    <3> QED BY <2>2, <3>1
  <2> QED BY <2>3, <2>4
<1> QED BY <1>4, <1>5, <1>6, <1>7 DEF HandledInv

\* While a promise settles, its executor's frame, if there is one, stays true.
LEMMA SettleKeepsExecutors ==
  ASSUME IInv, reactions' \in [Promises -> Seq(Reaction)], NEW p \in Promises,
         \/ reactions' = [reactions EXCEPT ![p] = <<>>]
         \/ reactions' = reactions
         \/ \E q \in Promises : \E e \in Reaction : q \notin hidden /\ reactions' = [reactions EXCEPT ![q] = Append(reactions[q], e)],
         hidden' = hidden, \A x \in handled' : x \in handled \/ x \notin hidden,
         \A f \in Range(frames') : f.kind \in Work => f \in Range(frames), ExecutorsOnce(frames')
  PROVE  ExecutorInv'
<1>1. TypeOK /\ ExecutorInv
  BY DEF IInv
<1>2. ASSUME NEW f \in Range(frames'), f.kind = "executor"
      PROVE  f.derived \in hidden' \ handled' /\ reactions'[f.derived] = <<>>
  <2>1. f \in Range(frames) /\ f.derived \in hidden \ handled /\ reactions[f.derived] = <<>>
    BY <1>1, <1>2 DEF ExecutorInv, Work
  <2>2. f.derived \in Promises
    BY <1>1, <2>1 DEF TypeOK
  <2>3. reactions'[f.derived] = <<>>
    <3>1. CASE reactions' = [reactions EXCEPT ![p] = <<>>]
      BY <1>1, <2>1, <2>2, <3>1 DEF TypeOK
    <3>2. CASE \E q \in Promises : \E e \in Reaction : q \notin hidden /\ reactions' = [reactions EXCEPT ![q] = Append(reactions[q], e)]
      BY <1>1, <2>1, <2>2, <3>2 DEF TypeOK
    <3> QED BY <2>1, <3>1, <3>2
  <2> QED BY <2>1, <2>3
<1> QED BY <1>2 DEF ExecutorInv

\* A reaction acts: its handler returned or threw, or it has none.
LEMMA ActStep ==
  ASSUME IInv, TypeOK', NEW r \in Queued \cup Running, NEW s \in Settled, NEW queue, NEW seen \in SUBSET Promises,
         ~HandlerFor(r.kind, state[r.from]) => s = state[r.from],
         \A x \in seen : state[x] \in Settled /\ x \notin hidden,
         SettleIn(state, r.derived, s, queue, unhandled \ seen), handled' = handled \cup seen,
         Between(queue, started'), Started \subseteq Started',
         ReactionsOnce(frames'), ExecutorsOnce(frames'),
         \A f \in Range(frames') : f.kind \in Work => f \in Range(frames),
         Running' \subseteq Running, Waiting \cup ReactionsIn(queue) \cup Running' = Active \ {r},
         UNCHANGED <<pair, hidden, exited, attached, fate, overridden>>
  PROVE  IInv'
<1> DEFINE p == r.derived
<1>1. TypeOK /\ PairInv /\ p \in Promises /\ queue \in Seq(Job) /\ unhandled \ seen \in SUBSET Promises
  BY ActsAlone DEF IInv, Between, TypeOK
<1>2. /\ state' = [state EXCEPT ![p] = IF state[p] = "pending" THEN s ELSE state[p]]
      /\ reactions' = [reactions EXCEPT ![p] = <<>>]
  BY <1>1, SettleShape
<1>3. \A f \in Range(frames') : f.kind \in Kind => f \in Range(frames)
  BY DEF Work
<1>4. /\ PlacesInv' /\ DistinctInv' /\ OrderInv'
      /\ Waiting' \cup Queued' = Waiting \cup ReactionsIn(queue)
      /\ \A j \in Range(microtasks') : j.kind \notin Kind => j \in Range(queue)
  BY <1>1, <1>3, SettleKeepsPlaces
<1>5. Attached' = Attached /\ Active' = Active \ {r}
  <2>1. Attached' = Attached
    BY DEF Attached
  <2>2. Active' = (Waiting' \cup Queued') \cup Running'
    BY DEF Active
  <2> QED BY <1>4, <2>1, <2>2
<1>6. OriginInv' /\ ChainInv' /\ FirstCallDecides' /\ PassThroughKeepsState'
  BY <1>2, <1>5, ActKeepsOrigin
<1>7. HandledInv'
  BY <1>1, SettleKeepsHandled
<1>8. ExecutorInv'
  BY <1>1, <1>2, SettleKeepsExecutors DEF TypeOK
<1>9. PairInv'
  <2>1. pair[p] # "open" /\ (p \in overridden => state[p] = "rejected")
    BY <1>1, ActsAlone DEF PairInv
  <2>2. /\ \A x \in Promises : x # p => state'[x] = state[x]
        /\ state'[p] = IF state[p] = "pending" THEN s ELSE state[p]
        /\ \A x \in Promises : state'[x] = "none" <=> state[x] = "none"
    BY <1>1, <1>2 DEF TypeOK, Settled
  <2>3. \A x \in Promises :
          /\ state'[x] = "none" => pair[x] = "none"
          /\ pair[x] = "none" => fate[x] = None
          /\ pair[x] = "open" => (state'[x] = "pending" /\ fate[x] = None) \/ x \in overridden
          /\ pair[x] = "fired" => fate[x] # None
          /\ x \in overridden => state'[x] = "rejected" /\ fate[x] # None
          /\ fate[x] \in Promises => state'[fate[x]] # "none"
    BY <1>1, <2>1, <2>2 DEF PairInv
  <2>4. \A j \in Range(microtasks') : j.kind = "thenable" => pair[j.derived] # "none"
    <3>1. "thenable" \notin Kind
      BY DEF Kind
    <3> QED BY <1>1, <1>4, <3>1 DEF PairInv, Between
  <2>5. \A f \in Range(frames') : f.kind \in {"executor", "thenable"} => pair[f.derived] # "none"
    BY <1>1 DEF PairInv, Work
  <2> QED BY <2>3, <2>4, <2>5 DEF PairInv
<1> QED BY <1>4, <1>6, <1>7, <1>8, <1>9 DEF IInv

\* The pair of p fires and settles it.
LEMMA FireStep ==
  ASSUME IInv, TypeOK', NEW p \in Promises, NEW s \in Settled, NEW w \in Settled \cup Promises,
         NEW seen \in SUBSET Promises, pair[p] = "open",
         w = s \/ (w \in Promises \ {p} /\ state[w] = s),
         \A x \in seen : state[x] \in Settled /\ x \notin hidden,
         SettleIn(state, p, s, microtasks, unhandled \ seen), handled' = handled \cup seen,
         pair' = [pair EXCEPT ![p] = "fired"], fate' = Asked(p, w),
         ReactionsOnce(frames'), ExecutorsOnce(frames'),
         \A f \in Range(frames') : f.kind \in Work => f \in Range(frames),
         Running' = Running,
         UNCHANGED <<hidden, exited, attached, started, overridden>>
  PROVE  IInv'
<1>1. TypeOK /\ PairInv /\ microtasks \in Seq(Job) /\ unhandled \ seen \in SUBSET Promises
  BY DEF IInv, TypeOK
<1>2. /\ state' = [state EXCEPT ![p] = IF state[p] = "pending" THEN s ELSE state[p]]
      /\ reactions' = [reactions EXCEPT ![p] = <<>>]
  BY <1>1, SettleShape
<1>3. \A f \in Range(frames') : f.kind \in Kind => f \in Range(frames)
  BY DEF Work
<1>4. /\ PlacesInv' /\ DistinctInv' /\ OrderInv'
      /\ Waiting' \cup Queued' = Waiting \cup Queued
      /\ \A j \in Range(microtasks') : j.kind \notin Kind => j \in Range(microtasks)
  <2>1. Between(microtasks, started') /\ ReactionsIn(microtasks) = Queued
    BY NothingTaken
  <2> QED BY <1>1, <1>3, <2>1, SettleKeepsPlaces
<1>5. Attached' = Attached /\ Active' = Active /\ Started' = Started
  <2>1. Attached' = Attached /\ Started' = Started
    BY DEF Attached, Started
  <2>2. Active' = (Waiting' \cup Queued') \cup Running'
    BY DEF Active
  <2> QED BY <1>4, <2>1, <2>2 DEF Active
<1>6. OriginInv' /\ ChainInv' /\ FirstCallDecides' /\ PassThroughKeepsState'
  BY <1>2, <1>5, FireKeepsOrigin
<1>7. HandledInv'
  BY <1>1, SettleKeepsHandled
<1>8. ExecutorInv'
  BY <1>1, <1>2, SettleKeepsExecutors DEF TypeOK
<1>9. PairInv'
  <2>1. /\ \A x \in Promises : x # p => state'[x] = state[x] /\ pair'[x] = pair[x] /\ fate'[x] = fate[x]
        /\ state'[p] = IF state[p] = "pending" THEN s ELSE state[p]
        /\ \A x \in Promises : state'[x] = "none" <=> state[x] = "none"
        /\ pair'[p] = "fired" /\ fate'[p] = (IF fate[p] = None THEN w ELSE fate[p])
        /\ w # None /\ (w \in Promises => state[w] # "none")
        /\ pair'[p] # "none" /\ \A x \in Promises : pair[x] # "none" => pair'[x] # "none"
    BY <1>1, <1>2, ConstantsAssumption DEF TypeOK, Settled, Asked
  <2>2. state[p] # "none" /\ (p \in overridden => state[p] = "rejected")
    BY <1>1 DEF PairInv
  <2>3. \A x \in Promises :
          /\ state'[x] = "none" => pair'[x] = "none"
          /\ pair'[x] = "none" => fate'[x] = None
          /\ pair'[x] = "open" => (state'[x] = "pending" /\ fate'[x] = None) \/ x \in overridden
          /\ pair'[x] = "fired" => fate'[x] # None
          /\ x \in overridden => state'[x] = "rejected" /\ fate'[x] # None
          /\ fate'[x] \in Promises => state'[fate'[x]] # "none"
    BY <1>1, <2>1, <2>2 DEF PairInv
  <2>4. \A j \in Range(microtasks') : j.kind = "thenable" => pair'[j.derived] # "none"
    <3>1. SUFFICES ASSUME NEW j \in Range(microtasks), j.kind = "thenable"
                   PROVE  pair'[j.derived] # "none"
      BY <1>4 DEF Kind
    <3>2. j.derived \in Promises /\ pair[j.derived] # "none"
      BY <1>1, <3>1, RangeFacts, JobFields DEF PairInv
    <3> QED BY <2>1, <3>2
  <2>5. \A f \in Range(frames') : f.kind \in {"executor", "thenable"} => pair'[f.derived] # "none"
    <3>1. SUFFICES ASSUME NEW f \in Range(frames), f.kind \in {"executor", "thenable"}
                   PROVE  pair'[f.derived] # "none"
      BY DEF Work
    <3>2. f \in Frame
      BY <1>1, <3>1, RangeFacts DEF TypeOK
    <3>3. f.derived \in Promises /\ pair[f.derived] # "none"
      BY <1>1, <3>1, <3>2, FrameFields DEF PairInv
    <3> QED BY <2>1, <3>3
  <2> QED BY <2>3, <2>4, <2>5 DEF PairInv
<1> QED BY <1>4, <1>6, <1>7, <1>8, <1>9 DEF IInv

\* A reaction is attached to q: q counts as handled.
LEMMA AttachKeepsHandled ==
  ASSUME IInv, TypeOK', NEW q \in Promises, NEW r \in Reaction, state'[q] = "pending",
         \A x \in Promises : state'[x] = state[x] \/ (state[x] = "none" /\ state'[x] = "pending"),
         reactions' = [reactions EXCEPT ![q] = Append(reactions[q], r)],
         handled' = handled \cup {q}, awaited' = awaited, unhandled' = unhandled \/ unhandled' = unhandled \ {q},
         \A x \in hidden' : x \in hidden \/ state'[x] # "none",
         exited' = exited, overridden' = overridden
  PROVE  HandledInv'
<1>1. TypeOK /\ PlacesInv /\ HandledInv
  BY DEF IInv
<1>2. \A x \in Promises : x # q => reactions'[x] = reactions[x]
  BY <1>1 DEF TypeOK
<1>3. reactions'[q] # <<>>
  <2>1. reactions'[q] = Append(reactions[q], r) /\ reactions[q] \in Seq(Reaction)
    BY <1>1 DEF TypeOK
  <2> QED BY <2>1, AppendFacts
<1>4. \A x \in Promises : state[x] = "none" => x \notin handled /\ x \notin awaited /\ reactions[x] = <<>>
  <2>1. SUFFICES ASSUME NEW x \in Promises, state[x] = "none"
                 PROVE  x \notin handled /\ x \notin awaited /\ reactions[x] = <<>>
    OBVIOUS
  <2>2. x \notin handled /\ x \notin awaited
    BY <1>1, <2>1 DEF HandledInv
  <2>3. Range(reactions[x]) = {} /\ reactions[x] \in Seq(Reaction)
    BY <1>1, <2>1 DEF PlacesInv, TypeOK
  <2> QED BY <2>2, <2>3, RangeFacts
<1>5. \A x \in Promises : state'[x] = "pending" => (x \in handled' <=> reactions'[x] # <<>> \/ x \in awaited')
  <2>1. SUFFICES ASSUME NEW x \in Promises, state'[x] = "pending", x # q
                 PROVE  x \in handled <=> reactions[x] # <<>> \/ x \in awaited
    BY <1>2, <1>3
  <2> QED BY <1>1, <1>4, <2>1 DEF HandledInv
<1>6. \A x \in awaited' : state'[x] = "pending"
  BY <1>1 DEF HandledInv, TypeOK
<1>7. \A x \in handled' \cup hidden' : state'[x] # "none"
  BY <1>1 DEF HandledInv, TypeOK
<1>8. UnhandledExact'
  <2>1. SUFFICES ASSUME ~exited
                 PROVE  unhandled' = {x \in Promises \ (handled' \cup overridden) : state'[x] = "rejected"}
    BY DEF UnhandledExact
  <2>2. unhandled = {x \in Promises \ (handled \cup overridden) : state[x] = "rejected"}
    BY <1>1, <2>1 DEF HandledInv, UnhandledExact
  <2>3. \A x \in Promises : state'[x] = "rejected" <=> state[x] = "rejected"
    OBVIOUS
  <2>4. q \notin unhandled
    BY <2>2, <2>3
  <2> QED BY <2>2, <2>3, <2>4
<1> QED BY <1>5, <1>6, <1>7, <1>8 DEF HandledInv

\* No reaction is attached or settled: `seen` counts as handled, and promises are born.
LEMMA OthersKeepHandled ==
  ASSUME IInv, TypeOK', NEW seen \in SUBSET Promises, \A x \in seen : state[x] \in Settled,
         \A x \in Promises : state'[x] = state[x] \/ (state[x] = "none" /\ state'[x] \in {"pending", "rejected"}),
         reactions' = reactions, awaited' = awaited, handled' = handled \cup seen,
         \A x \in Promises : x \in unhandled' <=>
           (x \in unhandled /\ x \notin seen) \/ (state[x] = "none" /\ state'[x] = "rejected"),
         \A x \in hidden' : x \in hidden \/ state'[x] # "none",
         exited' = exited, overridden' = overridden
  PROVE  HandledInv'
<1>1. TypeOK /\ PlacesInv /\ PairInv /\ HandledInv
  BY DEF IInv
<1>2. \A x \in Promises : state[x] = "none" =>
         x \notin handled /\ x \notin awaited /\ reactions[x] = <<>> /\ x \notin overridden /\ x \notin seen
  <2>1. SUFFICES ASSUME NEW x \in Promises, state[x] = "none"
                 PROVE  x \notin handled /\ x \notin awaited /\ reactions[x] = <<>> /\ x \notin overridden /\ x \notin seen
    OBVIOUS
  <2>2. x \notin handled /\ x \notin awaited
    BY <1>1, <2>1 DEF HandledInv
  <2>3. Range(reactions[x]) = {} /\ reactions[x] \in Seq(Reaction)
    BY <1>1, <2>1 DEF PlacesInv, TypeOK
  <2>4. x \notin overridden /\ x \notin seen
    BY <1>1, <2>1 DEF PairInv, Settled
  <2> QED BY <2>2, <2>3, <2>4, RangeFacts
<1>3. \A x \in Promises : state'[x] = "pending" => (x \in handled' <=> reactions'[x] # <<>> \/ x \in awaited')
  <2>1. SUFFICES ASSUME NEW x \in Promises, state'[x] = "pending"
                 PROVE  x \in handled \cup seen <=> reactions[x] # <<>> \/ x \in awaited
    OBVIOUS
  <2>2. x \notin seen
    BY <1>2, <2>1 DEF Settled
  <2> QED BY <1>1, <1>2, <2>1, <2>2 DEF HandledInv
<1>4. \A x \in awaited' : state'[x] = "pending"
  BY <1>1 DEF HandledInv, TypeOK
<1>5. \A x \in handled' \cup hidden' : state'[x] # "none"
  BY <1>1 DEF HandledInv, TypeOK, Settled
<1>6. UnhandledExact'
  <2>1. SUFFICES ASSUME ~exited
                 PROVE  unhandled' = {x \in Promises \ (handled' \cup overridden) : state'[x] = "rejected"}
    BY DEF UnhandledExact
  <2>2. unhandled = {x \in Promises \ (handled \cup overridden) : state[x] = "rejected"}
    BY <1>1, <2>1 DEF HandledInv, UnhandledExact
  <2>3. unhandled' \in SUBSET Promises
    BY DEF TypeOK
  <2>4. \A x \in Promises : x \in unhandled' <=>
          x \notin handled' /\ x \notin overridden /\ state'[x] = "rejected"
    BY <1>2, <2>2
  <2> QED BY <2>3, <2>4
<1> QED BY <1>3, <1>4, <1>5, <1>6 DEF HandledInv

\* Nothing is attached and nothing settles: at most a reaction's handler is called.
LEMMA QuietStep ==
  ASSUME IInv, TypeOK', HandledInv', Between(microtasks', started'),
         reactions' = reactions, attached' = attached, fate' = fate, overridden' = overridden,
         \A x \in Promises : \/ state'[x] = state[x] /\ pair'[x] = pair[x]
                             \/ state[x] = "none" /\ state'[x] = "pending" /\ pair'[x] = "open"
                             \/ state[x] = "none" /\ state'[x] = "rejected" /\ pair'[x] = "none",
         Active = Waiting \cup ReactionsIn(microtasks') \cup Running', Started \subseteq Started',
         \A r \in Started : r \notin Running => r \notin Running',
         ReactionsOnce(frames'), ExecutorsOnce(frames'),
         \A f \in Range(frames') : f.kind \in Kind =>
           f \in Range(frames) \/ (f.kind \in Kind /\ ReactionOf(f) \in Started' /\ state[f.from] = f.state
                                   /\ f.state \in Settled /\ HandlerFor(f.kind, f.state)),
         \A f \in Range(frames') : f.kind = "executor" => f.derived \in hidden' \ handled',
         \A j \in Range(microtasks') : j.kind = "thenable" => pair'[j.derived] # "none",
         \A f \in Range(frames') : f.kind \in {"executor", "thenable"} => pair'[f.derived] # "none"
  PROVE  IInv'
<1>1. TypeOK /\ PlacesInv /\ PairInv
  BY DEF IInv
<1>2. /\ \A x \in Promises : state[x] \in Settled => state'[x] = state[x]
      /\ \A x \in Promises : reactions[x] # <<>> => state'[x] = state[x]
  <2>1. \A x \in Promises : state[x] = "none" => reactions[x] = <<>>
    <3>1. SUFFICES ASSUME NEW x \in Promises, state[x] = "none"
                   PROVE  reactions[x] = <<>>
      OBVIOUS
    <3>2. Range(reactions[x]) = {} /\ reactions[x] \in Seq(Reaction)
      BY <1>1, <3>1 DEF PlacesInv, TypeOK
    <3> QED BY <3>2, RangeFacts
  <2> QED BY <2>1 DEF Settled
<1>3. /\ PlacesInv' /\ DistinctInv' /\ OrderInv'
      /\ Waiting' = Waiting /\ Attached' = Attached /\ Queued' = ReactionsIn(microtasks')
  BY <1>2, OthersKeepPlaces
<1>4. Active' = Active
  BY <1>3 DEF Active
<1>5. OriginInv' /\ ChainInv' /\ FirstCallDecides' /\ PassThroughKeepsState'
  BY <1>3, <1>4, OthersKeepOrigin
<1>6. ExecutorInv'
  <2>1. SUFFICES ASSUME NEW f \in Range(frames'), f.kind = "executor"
                 PROVE  reactions'[f.derived] = <<>>
    BY DEF ExecutorInv
  <2>2. f.derived \in Promises /\ f.derived \notin handled'
    BY <2>1 DEF TypeOK
  <2>3. CASE state'[f.derived] = "pending"
    BY <2>2, <2>3 DEF HandledInv
  <2>4. CASE state'[f.derived] # "pending"
    <3>1. reactions'[f.derived] \in Seq(Reaction)
      BY <2>2 DEF TypeOK
    <3>2. Range(reactions'[f.derived]) = {}
      BY <1>3, <2>2, <2>4 DEF PlacesInv
    <3> QED BY <3>1, <3>2, RangeFacts
  <2> QED BY <2>3, <2>4
<1>7. PairInv'
  <2>1. \A x \in Promises :
          /\ state'[x] = "none" => pair'[x] = "none"
          /\ pair'[x] = "none" => fate'[x] = None
          /\ pair'[x] = "open" => (state'[x] = "pending" /\ fate'[x] = None) \/ x \in overridden'
          /\ pair'[x] = "fired" => fate'[x] # None
          /\ x \in overridden' => state'[x] = "rejected" /\ fate'[x] # None
          /\ fate'[x] \in Promises => state'[fate'[x]] # "none"
    BY <1>1 DEF PairInv
  <2> QED BY <2>1 DEF PairInv
<1> QED BY <1>3, <1>5, <1>6, <1>7 DEF IInv

\* A resolver pair fires with a promise q that has not settled, or with a thenable,
\* for which the new promise q stands: p follows q.
LEMMA FollowStep ==
  ASSUME IInv, TypeOK', NEW p \in Promises, NEW q \in Promises \ {p}, NEW r \in Reaction,
         r.from = q, r.kind = "follow", r.derived = p, pair[p] = "open",
         \/ /\ state[q] = "pending" /\ q \notin hidden
            /\ state' = state /\ pair' = [pair EXCEPT ![p] = "fired"]
            /\ hidden' = hidden /\ microtasks' = microtasks
         \/ /\ state[q] = "none"
            /\ state' = [state EXCEPT ![q] = "pending"]
            /\ pair' = [pair EXCEPT ![p] = "fired", ![q] = "open"]
            /\ hidden' = hidden \cup {q}
            /\ \E j \in Job : j.kind = "thenable" /\ j.derived = q /\ microtasks' = Append(microtasks, j),
         reactions' = [reactions EXCEPT ![q] = Append(reactions[q], r)],
         attached' = Append(attached, r), handled' = handled \cup {q}, fate' = Asked(p, q),
         UNCHANGED <<unhandled, awaited, frames, exited, started, overridden>>
  PROVE  IInv'
<1>1. TypeOK /\ PairInv /\ HandledInv /\ ExecutorInv /\ DistinctInv
  BY DEF IInv
<1>2. r \notin Attached
  BY NothingDerives
<1>3. /\ state'[q] = "pending" /\ pair'[p] = "fired"
      /\ \A x \in Promises : state'[x] = state[x] \/ (x = q /\ state[q] = "none")
      /\ \A x \in Promises : x # p => pair'[x] = pair[x] \/ (x = q /\ state[q] = "none" /\ pair'[q] = "open")
      /\ state[q] = "none" => pair'[q] = "open"
      /\ \A x \in Promises : pair[x] # "none" => pair'[x] # "none"
  <2>1. CASE state[q] = "pending"
    BY <1>1, <2>1 DEF TypeOK
  <2>2. CASE state[q] = "none"
    <3>1. state' = [state EXCEPT ![q] = "pending"] /\ pair' = [pair EXCEPT ![p] = "fired", ![q] = "open"]
      BY <2>2
    <3>2. state \in [Promises -> {"none", "pending"} \cup Settled] /\ pair \in [Promises -> {"none", "open", "fired"}]
      BY <1>1 DEF TypeOK
    <3>3. /\ \A x \in Promises : pair'[x] = IF x = q THEN "open" ELSE IF x = p THEN "fired" ELSE pair[x]
          /\ \A x \in Promises : state'[x] = IF x = q THEN "pending" ELSE state[x]
      BY <3>1, <3>2
    <3> QED BY <2>2, <3>3
  <2> QED BY <2>1, <2>2
<1>4. /\ PlacesInv' /\ DistinctInv' /\ OrderInv'
      /\ Waiting' = Waiting \cup {r} /\ Queued' = Queued
      /\ Attached' = Attached \cup {r} /\ Started' = Started
      /\ \A j \in Range(microtasks') :
           j \in Range(microtasks) \/ (j.kind = "thenable" /\ microtasks' = Append(microtasks, j))
  <2>1. /\ ReactionsOnce(frames')
        /\ \A f \in Range(frames') : f.kind \in Kind => f \in Range(frames)
    BY <1>1 DEF DistinctInv
  <2>2. \A x \in Promises : state[x] # "none" => state'[x] = state[x]
    BY <1>3
  <2>3. \/ microtasks' = microtasks
        \/ \E j \in Job : j.kind = "thenable" /\ microtasks' = Append(microtasks, j)
    OBVIOUS
  <2>4. state[q] = "pending" \/ state[q] = "none"
    OBVIOUS
  <2> QED BY <1>2, <1>3, <2>1, <2>2, <2>3, <2>4, AttachKeepsPlaces
<1>5. Running' = Running /\ Active' = Active \cup {r}
  BY <1>4 DEF Running, Active
<1>6. OriginInv' /\ ChainInv' /\ FirstCallDecides' /\ PassThroughKeepsState'
  BY <1>1, <1>2, <1>3, <1>4, <1>5, FollowKeepsOrigin DEF TypeOK
<1>7. HandledInv'
  <2>1. \A x \in Promises : state'[x] = state[x] \/ (state[x] = "none" /\ state'[x] = "pending")
    BY <1>3
  <2>2. \A x \in hidden' : x \in hidden \/ state'[x] # "none"
    BY <1>3
  <2>3. unhandled' = unhandled /\ awaited' = awaited /\ exited' = exited /\ overridden' = overridden
    OBVIOUS
  <2> QED BY <1>3, <2>1, <2>2, <2>3, AttachKeepsHandled
<1>8. \A f \in Range(frames) : f.kind \in {"executor", "thenable"} => f.derived \in Promises /\ pair[f.derived] # "none"
  BY <1>1, RangeFacts, FrameFields DEF PairInv, TypeOK
<1>9. ExecutorInv'
  <2>1. SUFFICES ASSUME NEW f \in Range(frames), f.kind = "executor"
                 PROVE  f.derived \in hidden' \ handled' /\ reactions'[f.derived] = <<>>
    BY <1>1 DEF ExecutorInv
  <2>2. f.derived \in Promises /\ pair[f.derived] # "none" /\ f.derived \in hidden \ handled
        /\ reactions[f.derived] = <<>>
    BY <1>1, <1>8, <2>1 DEF ExecutorInv
  <2>3. f.derived # q
    BY <1>1, <2>2 DEF PairInv
  <2>4. reactions'[f.derived] = reactions[f.derived]
    BY <1>1, <2>2, <2>3 DEF TypeOK
  <2>5. f.derived \in hidden' \ handled'
    BY <2>2, <2>3
  <2> QED BY <2>2, <2>4, <2>5
<1>10. PairInv'
  <2>1. /\ \A x \in Promises : fate'[x] = IF x = p /\ fate[p] = None THEN q ELSE fate[x]
        /\ q # None
    BY <1>1, ConstantsAssumption DEF TypeOK, Asked
  <2>2. /\ state[p] # "none" /\ p \notin overridden => state[p] = "pending"
        /\ state[q] = "none" => fate[q] = None /\ q \notin overridden /\ \A x \in Promises : fate[x] # q
        /\ p \in overridden => state[p] = "rejected"
    BY <1>1 DEF PairInv
  <2>3. \A x \in Promises :
          /\ state'[x] = "none" => pair'[x] = "none"
          /\ pair'[x] = "none" => fate'[x] = None
          /\ pair'[x] = "open" => (state'[x] = "pending" /\ fate'[x] = None) \/ x \in overridden'
          /\ pair'[x] = "fired" => fate'[x] # None
          /\ x \in overridden' => state'[x] = "rejected" /\ fate'[x] # None
          /\ fate'[x] \in Promises => state'[fate'[x]] # "none"
    <3>1. SUFFICES ASSUME NEW x \in Promises
                   PROVE /\ state'[x] = "none" => pair'[x] = "none"
                         /\ pair'[x] = "none" => fate'[x] = None
                         /\ pair'[x] = "open" => (state'[x] = "pending" /\ fate'[x] = None) \/ x \in overridden
                         /\ pair'[x] = "fired" => fate'[x] # None
                         /\ x \in overridden => state'[x] = "rejected" /\ fate'[x] # None
                         /\ fate'[x] \in Promises => state'[fate'[x]] # "none"
      OBVIOUS
    <3>2. CASE x = p
      BY <1>1, <1>3, <2>1, <2>2, <3>2, ConstantsAssumption DEF PairInv
    <3>3. CASE x = q
      BY <1>1, <1>3, <2>1, <2>2, <3>3, ConstantsAssumption DEF PairInv
    <3>4. CASE x # p /\ x # q
      BY <1>1, <1>3, <2>1, <2>2, <3>4, ConstantsAssumption DEF PairInv
    <3> QED BY <3>2, <3>3, <3>4
  <2>4. \A j \in Range(microtasks') : j.kind = "thenable" => pair'[j.derived] # "none"
    <3>1. CASE microtasks' = microtasks
      <4>1. \A j \in Range(microtasks) : j.derived \in Promises
        BY <1>1, RangeFacts, JobFields DEF TypeOK
      <4> QED BY <1>1, <1>3, <3>1, <4>1 DEF PairInv
    <3>2. ASSUME NEW n \in Job, n.kind = "thenable", n.derived = q, microtasks' = Append(microtasks, n), state[q] = "none"
          PROVE  \A j \in Range(microtasks') : j.kind = "thenable" => pair'[j.derived] # "none"
      <4>1. Range(microtasks') = Range(microtasks) \cup {n}
        BY <1>1, <3>2, AppendFacts DEF TypeOK
      <4>2. \A j \in Range(microtasks) : j.derived \in Promises
        BY <1>1, RangeFacts, JobFields DEF TypeOK
      <4> QED BY <1>1, <1>3, <3>2, <4>1, <4>2 DEF PairInv
    <3> QED BY <3>1, <3>2
  <2>5. \A f \in Range(frames') : f.kind \in {"executor", "thenable"} => pair'[f.derived] # "none"
    BY <1>3, <1>8
  <2> QED BY <2>3, <2>4, <2>5 DEF PairInv
<1> QED BY <1>4, <1>6, <1>7, <1>9, <1>10 DEF IInv

\* A handler returned a promise q that has not settled: what it derived follows q.
LEMMA ReturnStep ==
  ASSUME IInv, TypeOK', NEW h \in Running, NEW q \in Promises, NEW r \in Reaction,
         r.from = q, r.kind = "follow", r.derived = h.derived,
         state[q] = "pending", q \notin hidden,
         reactions' = [reactions EXCEPT ![q] = Append(reactions[q], r)],
         attached' = Append(attached, r), handled' = handled \cup {q},
         Running' = Running \ {h},
         \A f \in Range(frames') : f.kind \in Work => f \in Range(frames),
         ReactionsOnce(frames'), ExecutorsOnce(frames'),
         UNCHANGED <<state, pair, microtasks, unhandled, awaited, hidden, exited, started, fate, overridden>>
  PROVE  IInv'
<1>1. TypeOK /\ PairInv /\ HandledInv /\ ExecutorInv
  BY DEF IInv
<1>2. r \notin Attached
  <2>1. h \in Active /\ h.kind # "follow" /\ h \notin Waiting
    BY OnePlace DEF Active
  <2>2. \A y \in Attached : y.derived = h.derived /\ y # h => h.kind = "follow"
    BY ActsAlone
  <2> QED BY <2>1, <2>2
<1>3. \A f \in Range(frames') : f.kind \in Kind => f \in Range(frames)
  BY DEF Work
<1>4. /\ PlacesInv' /\ DistinctInv' /\ OrderInv'
      /\ Waiting' = Waiting \cup {r} /\ Queued' = Queued
      /\ Attached' = Attached \cup {r} /\ Started' = Started
  BY <1>1, <1>2, <1>3, AttachKeepsPlaces
<1>5. Active' = (Active \ {h}) \cup {r}
  <2>1. h \notin Waiting /\ h \notin Queued
    BY OnePlace
  <2> QED BY <1>4, <2>1 DEF Active
<1>6. OriginInv' /\ ChainInv' /\ FirstCallDecides' /\ PassThroughKeepsState'
  BY <1>2, <1>4, <1>5, ReturnKeepsOrigin
<1>7. HandledInv'
  BY <1>1, AttachKeepsHandled DEF HandledInv
<1>8. ExecutorInv'
  BY <1>1, SettleKeepsExecutors DEF TypeOK
<1>9. PairInv'
  BY <1>1 DEF PairInv, Work
<1> QED BY <1>4, <1>6, <1>7, <1>8, <1>9 DEF IInv

\* then, catch or finally: the reaction waits at p, or is a job at once.
LEMMA ThenStep ==
  ASSUME IInv, TypeOK', NEW p \in Promises, NEW kind \in Kind, NEW d \in Promises, Then(p, kind, d)
  PROVE  IInv'
<1> DEFINE r == [from |-> p, kind |-> kind, derived |-> d]
<1>1. TypeOK /\ PairInv /\ HandledInv /\ ExecutorInv /\ DistinctInv
  BY DEF IInv
<1>2. r \in Reaction /\ r.from = p /\ r.derived = d /\ r.kind = kind /\ p # d
      /\ state[d] = "none" /\ state[p] # "none" /\ p \notin hidden
  BY DEF Reaction, Then, Named, Made, Fresh
<1>3. /\ state' = [state EXCEPT ![d] = "pending"]
      /\ handled' = handled \cup {p} /\ attached' = Append(attached, r) /\ unhandled' = unhandled \ {p}
      /\ UNCHANGED <<pair, awaited, frames, hidden, exited, started, fate, overridden>>
      /\ state[p] = "pending" =>
           reactions' = [reactions EXCEPT ![p] = Append(reactions[p], r)] /\ microtasks' = microtasks
      /\ state[p] # "pending" =>
           reactions' = reactions /\ microtasks' = Append(microtasks, ReactionJob(r, state[p]))
  BY DEF Then
<1> HIDE DEF r
<1>4. r \notin Attached
  BY <1>2, NothingDerives
<1>5. /\ \A x \in Promises : state[x] # "none" => state'[x] = state[x]
      /\ \A x \in Promises : state'[x] = state[x] \/ (state[x] = "none" /\ state'[x] = "pending")
      /\ state'[d] = "pending" /\ state'[p] = state[p]
  BY <1>1, <1>2, <1>3 DEF TypeOK
<1>6. state[p] = "pending" \/ state[p] \in Settled
  BY <1>1, <1>2 DEF TypeOK
<1>7. /\ PlacesInv' /\ DistinctInv' /\ OrderInv'
      /\ Waiting' \cup Queued' = Waiting \cup Queued \cup {r}
      /\ Attached' = Attached \cup {r} /\ Started' = Started
      /\ \A j \in Range(microtasks') : j \in Range(microtasks) \/ j.kind \in Kind
  <2>1. CASE state[p] = "pending"
    <3>1. /\ ReactionsOnce(frames')
          /\ \A f \in Range(frames') : f.kind \in Kind => f \in Range(frames)
          /\ state'[p] = "pending" /\ microtasks' = microtasks /\ started' = started
      BY <1>1, <1>3, <1>5, <2>1 DEF DistinctInv
    <3>2. /\ PlacesInv' /\ DistinctInv' /\ OrderInv'
          /\ Waiting' = Waiting \cup {r} /\ Queued' = Queued
          /\ Attached' = Attached \cup {r} /\ Started' = Started
      BY <1>2, <1>3, <1>4, <1>5, <2>1, <3>1, AttachKeepsPlaces
    <3> QED BY <3>1, <3>2
  <2>2. CASE state[p] \in Settled
    <3>1. state[p] # "pending"
      BY <2>2 DEF Settled
    <3>2. /\ PlacesInv' /\ DistinctInv' /\ OrderInv'
          /\ Waiting' = Waiting /\ Queued' = Queued \cup {r}
          /\ Attached' = Attached \cup {r} /\ Started' = Started
          /\ \A j \in Range(microtasks') : j \in Range(microtasks) \/ j.kind \in Kind
      BY <1>2, <1>3, <1>4, <1>5, <2>2, <3>1, AttachedJobKeepsPlaces
    <3> QED BY <3>2
  <2> QED BY <1>6, <2>1, <2>2
<1>8. Running' = Running /\ Active' = Active \cup {r}
  <2>1. Running' = Running
    BY <1>3 DEF Running
  <2>2. Active' = (Waiting' \cup Queued') \cup Running'
    BY DEF Active
  <2> QED BY <1>7, <2>1, <2>2 DEF Active
<1>9. OriginInv' /\ ChainInv' /\ FirstCallDecides' /\ PassThroughKeepsState'
  BY <1>2, <1>3, <1>4, <1>7, <1>8, ThenKeepsOrigin
<1>10. HandledInv'
  <2>1. CASE state[p] = "pending"
    BY <1>1, <1>2, <1>3, <1>5, <2>1, AttachKeepsHandled
  <2>2. CASE state[p] \in Settled
    <3>1. state[p] # "pending"
      BY <2>2 DEF Settled
    <3>2. \A x \in Promises : state[x] = "none" => state'[x] # "rejected"
      BY <1>5
    <3>3. \A x \in {p} : state[x] \in Settled
      BY <2>2
    <3>4. \A x \in Promises : state'[x] = state[x] \/ (state[x] = "none" /\ state'[x] \in {"pending", "rejected"})
      BY <1>5
    <3>5. reactions' = reactions
      BY <1>3, <3>1
    <3> QED BY <1>3, <3>2, <3>3, <3>4, <3>5, OthersKeepHandled
  <2> QED BY <1>6, <2>1, <2>2
<1>11. ExecutorInv'
  <2>1. \/ reactions' = reactions
        \/ \E q \in Promises : \E e \in Reaction : q \notin hidden /\ reactions' = [reactions EXCEPT ![q] = Append(reactions[q], e)]
    BY <1>2, <1>3
  <2>2. reactions' \in [Promises -> Seq(Reaction)]
    BY DEF TypeOK
  <2> QED BY <1>1, <1>2, <1>3, <2>1, <2>2, SettleKeepsExecutors DEF ExecutorInv
<1>12. PairInv'
  <2>1. \A x \in Promises :
          /\ state'[x] = "none" => pair'[x] = "none"
          /\ pair'[x] = "none" => fate'[x] = None
          /\ pair'[x] = "open" => (state'[x] = "pending" /\ fate'[x] = None) \/ x \in overridden'
          /\ pair'[x] = "fired" => fate'[x] # None
          /\ x \in overridden' => state'[x] = "rejected" /\ fate'[x] # None
          /\ fate'[x] \in Promises => state'[fate'[x]] # "none"
    BY <1>1, <1>3, <1>5 DEF PairInv
  <2>2. \A j \in Range(microtasks') : j.kind = "thenable" => pair'[j.derived] # "none"
    BY <1>1, <1>3, <1>7 DEF PairInv, Kind
  <2>3. \A f \in Range(frames') : f.kind \in {"executor", "thenable"} => pair'[f.derived] # "none"
    BY <1>1, <1>3 DEF PairInv
  <2> QED BY <2>1, <2>2, <2>3 DEF PairInv
<1> QED BY <1>7, <1>9, <1>10, <1>11, <1>12 DEF IInv

-----------------------------------------------------------------------------
(* What the steps do to the frames *)

\* The innermost frame ends.
LEMMA FrameEnds ==
  ASSUME IInv, frames # <<>>, PopFrame
  PROVE  /\ Last(frames) \in Range(frames) /\ Last(frames) \in Frame
         /\ Last(frames).kind \notin Kind => Running' = Running
         /\ Last(frames).kind \in Kind =>
              ReactionOf(Last(frames)) \in Running /\ Running' = Running \ {ReactionOf(Last(frames))}
         /\ Last(frames).kind = "executor" =>
              \A f \in Range(frames') : f.kind = "executor" => f.derived # Last(frames).derived
         /\ \A f \in Range(frames') : f \in Range(frames)
         /\ ReactionsOnce(frames') /\ ExecutorsOnce(frames')
<1>1. TypeOK /\ ReactionsOnce(frames) /\ ExecutorsOnce(frames) /\ frames \in Seq(Frame)
  BY DEF IInv, DistinctInv, ExecutorInv, TypeOK
<1>2. frames' = Front(frames)
  BY DEF PopFrame
<1>3. Last(frames) = frames[Len(frames)] /\ Last(frames) \in Frame /\ Last(frames) \in Range(frames)
  BY <1>1, FrontProperties, RangeFacts
<1>4. \A f \in Range(frames') : f \in Range(frames)
  BY <1>1, <1>2, RangeFacts
<1>5. CASE Last(frames).kind \in Work
  BY <1>1, <1>2, <1>3, <1>4, <1>5, FrontWork, PoppedWorkKept
<1>6. CASE Last(frames).kind \notin Work
  BY <1>1, <1>2, <1>3, <1>4, <1>6, FrontWork, SameWorkKept DEF Work
<1> QED BY <1>5, <1>6

\* A job that no handler takes changes at most a draining await's frame.
LEMMA FrameDrains ==
  ASSUME IInv, MayDrain, frames' = Drained
  PROVE  /\ Running' = Running
         /\ \A f \in Range(frames') : f.kind \in Work => f \in Range(frames)
         /\ ReactionsOnce(frames') /\ ExecutorsOnce(frames')
<1>1. TypeOK /\ ReactionsOnce(frames) /\ ExecutorsOnce(frames)
  BY DEF IInv, DistinctInv, ExecutorInv
<1>2. SameWork
  BY <1>1, DrainedWork DEF SameWork
<1> QED BY <1>1, <1>2, SameWorkKept

\* A frame begins that neither an executor nor a job owns.
LEMMA FrameBegins ==
  ASSUME IInv, NEW base \in Seq(Frame), NEW f \in Frame, frames' = Append(base, f),
         Agree(base, frames), Agree(frames, base), f.kind \notin Work
  PROVE  /\ Running' = Running
         /\ \A g \in Range(frames') : g.kind \in Work => g \in Range(frames)
         /\ ReactionsOnce(frames') /\ ExecutorsOnce(frames')
<1>1. TypeOK /\ ReactionsOnce(frames) /\ ExecutorsOnce(frames)
  BY DEF IInv, DistinctInv, ExecutorInv
<1>2. SameWork
  BY <1>1, AppendWork
<1> QED BY <1>1, <1>2, SameWorkKept

\* The frames of executors and jobs stand for promises that were made.
LEMMA WorkFrames ==
  ASSUME IInv
  PROVE  /\ \A f \in Range(frames) : f.kind \in {"executor", "thenable"} => f.derived \in Promises /\ pair[f.derived] # "none"
         /\ \A f \in Range(frames) : f.kind = "executor" =>
              f.derived \in hidden \ handled /\ reactions[f.derived] = <<>> /\ state[f.derived] # "none"
<1>1. TypeOK /\ PairInv /\ ExecutorInv
  BY DEF IInv
<1>2. \A f \in Range(frames) : f \in Frame
  BY <1>1, RangeFacts DEF TypeOK
<1> QED BY <1>1, <1>2, FrameFields DEF PairInv, ExecutorInv

\* The executor of p throws: a pending p is rejected, although nobody is told.
LEMMA ThrowStep ==
  ASSUME IInv, TypeOK', ExecutorThrows
  PROVE  IInv'
<1> DEFINE p == Last(frames).derived
<1>1. TypeOK /\ PlacesInv /\ PairInv /\ OriginInv /\ ChainInv /\ HandledInv /\ FirstCallDecides
  BY DEF IInv
<1>2. /\ frames # <<>> /\ PopFrame /\ Last(frames).kind = "executor"
      /\ hidden' = hidden \ {p}
      /\ state[p] = "pending" => state' = [state EXCEPT ![p] = "rejected"] /\ overridden' = overridden \cup {p}
      /\ state[p] # "pending" => state' = state /\ overridden' = overridden
      /\ fate' = Asked(p, "rejected")
      /\ UNCHANGED <<pair, reactions, microtasks, unhandled, awaited, exited, handled, attached, started>>
  BY DEF ExecutorThrows, InExecutor, Code
<1>3. /\ Running' = Running /\ \A f \in Range(frames') : f \in Range(frames)
      /\ \A f \in Range(frames') : f.kind = "executor" => f.derived # p
      /\ ReactionsOnce(frames') /\ ExecutorsOnce(frames')
  BY <1>2, FrameEnds DEF Kind
<1>4. /\ p \in Promises /\ p \in hidden \ handled /\ reactions[p] = <<>>
      /\ state[p] # "none" /\ pair[p] # "none"
  BY <1>2, FrameEnds, WorkFrames
<1> HIDE DEF p
<1>5. /\ \A x \in Promises : x # p => state'[x] = state[x]
      /\ state'[p] = IF state[p] = "pending" THEN "rejected" ELSE state[p]
      /\ \A x \in Promises : x # p => (x \in overridden' <=> x \in overridden)
      /\ p \in overridden' <=> p \in overridden \/ state[p] = "pending"
      /\ \A x \in Promises : fate'[x] = IF x = p /\ fate[p] = None THEN "rejected" ELSE fate[x]
      /\ None # "rejected" /\ "rejected" \notin Promises
      /\ overridden' \in SUBSET Promises
  BY <1>1, <1>2, <1>4, ConstantsAssumption DEF TypeOK, Asked
<1>6. \A x \in Promises : state[x] \in Settled => state'[x] = state[x]
  BY <1>5 DEF Settled
<1>7. state[p] = "pending" => \A y \in Attached : y.from # p
  <2>1. SUFFICES ASSUME state[p] = "pending", NEW y \in Attached, y.from = p
                 PROVE  FALSE
    OBVIOUS
  <2>2. y \in Range(reactions[p])
    BY <2>1, WhereItIs DEF Settled
  <2>3. Range(reactions[p]) = {}
    BY <1>1, <1>4, RangeFacts DEF TypeOK
  <2> QED BY <2>2, <2>3
<1>8. /\ PlacesInv' /\ DistinctInv' /\ OrderInv'
      /\ Waiting' = Waiting /\ Attached' = Attached /\ Queued' = Queued /\ Started' = Started /\ Active' = Active
  <2>1. Between(microtasks', started') /\ Started' = Started /\ ReactionsIn(microtasks') = Queued
    BY <1>2, NothingTaken DEF Started
  <2>2. \A x \in Promises : reactions[x] # <<>> => state'[x] = state[x]
    BY <1>4, <1>5
  <2>3. /\ PlacesInv' /\ DistinctInv' /\ OrderInv'
        /\ Waiting' = Waiting /\ Attached' = Attached /\ Queued' = ReactionsIn(microtasks')
    BY <1>2, <1>3, <1>6, <2>1, <2>2, OthersKeepPlaces
  <2> QED BY <1>3, <2>1, <2>3 DEF Active
<1>9. PairInv'
  <2>1. pair[p] = "open" => p \in overridden'
    BY <1>1, <1>4, <1>5 DEF PairInv
  <2>2. \A x \in Promises :
          /\ state'[x] = "none" => pair'[x] = "none"
          /\ pair'[x] = "none" => fate'[x] = None
          /\ pair'[x] = "open" => (state'[x] = "pending" /\ fate'[x] = None) \/ x \in overridden'
          /\ pair'[x] = "fired" => fate'[x] # None
          /\ x \in overridden' => state'[x] = "rejected" /\ fate'[x] # None
          /\ fate'[x] \in Promises => state'[fate'[x]] # "none"
    <3>1. SUFFICES ASSUME NEW x \in Promises
                   PROVE /\ state'[x] = "none" => pair[x] = "none"
                         /\ pair[x] = "none" => fate'[x] = None
                         /\ pair[x] = "open" => (state'[x] = "pending" /\ fate'[x] = None) \/ x \in overridden'
                         /\ pair[x] = "fired" => fate'[x] # None
                         /\ x \in overridden' => state'[x] = "rejected" /\ fate'[x] # None
                         /\ fate'[x] \in Promises => state'[fate'[x]] # "none"
      BY <1>2
    <3>2. fate[x] \in Promises => state'[fate[x]] # "none"
      BY <1>1, <1>5 DEF PairInv
    <3>3. CASE x = p
      BY <1>1, <1>4, <1>5, <2>1, <3>2, <3>3 DEF PairInv
    <3>4. CASE x # p
      BY <1>1, <1>5, <3>2, <3>4 DEF PairInv
    <3> QED BY <3>3, <3>4
  <2> QED BY <1>1, <1>2, <1>3, <2>2 DEF PairInv
<1>10. OriginInv'
  <2>1. \A y \in Attached : y.derived \in Promises /\ y.from \in Promises
    BY <1>1, AttachedType
  <2>2. \A y \in Attached' :
          /\ state'[y.derived] # "none"
          /\ pair'[y.derived] # "open"
          /\ pair'[y.derived] = "fired" =>
               y.kind = "follow" /\ (y.derived \in overridden' \/ fate'[y.derived] = y.from)
    <3>1. SUFFICES ASSUME NEW y \in Attached
                   PROVE  /\ state'[y.derived] # "none"
                          /\ pair[y.derived] # "open"
                          /\ pair[y.derived] = "fired" =>
                               y.kind = "follow" /\ (y.derived \in overridden' \/ fate'[y.derived] = y.from)
      BY <1>2, <1>8
    <3>2. pair[y.derived] = "fired" => fate[y.derived] # None
      BY <1>1, <2>1 DEF PairInv
    <3> QED BY <1>1, <1>5, <2>1, <3>2 DEF OriginInv
  <2>3. \A y \in Attached : Returned(y) => Returned(y)'
    <3>1. SUFFICES ASSUME NEW y \in Attached, Returned(y)
                   PROVE  Returned(y)'
      OBVIOUS
    <3>2. state[y.from] \in Settled
      BY <3>1, WhereItIs DEF Returned
    <3>3. state'[y.from] = state[y.from]
      BY <1>6, <2>1, <3>2
    <3> QED BY <1>3, <1>8, <3>1, <3>3 DEF Returned
  <2>4. \A y, z \in Attached' : y.derived = z.derived =>
          y = z \/ (y.kind = "follow" /\ Returned(z)') \/ (z.kind = "follow" /\ Returned(y)')
    BY <1>1, <1>8, <2>3 DEF OriginInv
  <2>5. \A y \in Active' : state'[y.derived] = "pending" \/ y.derived \in overridden'
    <3>1. SUFFICES ASSUME NEW y \in Active
                   PROVE  state'[y.derived] = "pending" \/ y.derived \in overridden'
      BY <1>8
    <3>2. y.derived \in Promises
      BY <2>1, <3>1, OnePlace
    <3> QED BY <1>1, <1>5, <3>1, <3>2 DEF OriginInv
  <2> QED BY <2>2, <2>4, <2>5 DEF OriginInv
<1>11. ChainInv'
  BY <1>1, <1>2, <1>5, <1>8 DEF ChainInv
<1>12. FirstCallDecides'
  <2>1. SUFFICES ASSUME NEW x \in Promises, x \notin overridden', fate'[x] # None, state'[x] \in Settled
                 PROVE  state'[x] = IF fate'[x] \in Promises THEN state'[fate'[x]] ELSE fate'[x]
    BY DEF FirstCallDecides, AskedState
  <2>2. x # p \/ state[p] # "pending"
    BY <1>5, <2>1
  <2>3. fate[x] # None
    <3>1. CASE x = p
      <4>1. p \notin overridden /\ state[p] # "pending"
        BY <1>5, <2>1, <2>2, <3>1
      <4>2. pair[p] = "fired"
        BY <1>1, <1>4, <4>1 DEF PairInv, TypeOK
      <4> QED BY <1>1, <1>4, <3>1, <4>2 DEF PairInv
    <3>2. CASE x # p
      BY <1>5, <2>1, <3>2
    <3> QED BY <3>1, <3>2
  <2>4. fate'[x] = fate[x] /\ state'[x] = state[x] /\ x \notin overridden
    BY <1>5, <2>1, <2>2, <2>3
  <2>5. state[x] = IF fate[x] \in Promises THEN state[fate[x]] ELSE fate[x]
    BY <1>1, <2>1, <2>3, <2>4 DEF FirstCallDecides, AskedState
  <2> QED BY <1>6, <2>1, <2>4, <2>5
<1>13. PassThroughKeepsState'
  <2>1. SUFFICES ASSUME NEW y \in Attached, {state'[y.from], state'[y.derived]} \subseteq Settled,
                        ~HandlerFor(y.kind, state'[y.from]), y.derived \notin overridden'
                 PROVE  state'[y.derived] = state'[y.from]
    BY <1>8, PassThroughFromSet
  <2>2. y.from \in Promises /\ y.derived \in Promises
    BY <1>1, AttachedType
  <2>3. y.derived # p \/ state[p] # "pending"
    BY <1>5, <2>1
  <2>4. state'[y.from] = state[y.from] /\ state'[y.derived] = state[y.derived] /\ y.derived \notin overridden
    BY <1>5, <1>7, <2>1, <2>2, <2>3
  <2> QED BY <2>1, <2>4, PassThroughAsSet
<1>14. HandledInv'
  <2>1. state[p] = "pending" => p \notin awaited
    BY <1>1, <1>4 DEF HandledInv
  <2>2. UnhandledExact'
    <3>1. SUFFICES ASSUME ~exited
                   PROVE  unhandled = {x \in Promises \ (handled \cup overridden') : state'[x] = "rejected"}
      BY <1>2 DEF UnhandledExact
    <3>2. unhandled = {x \in Promises \ (handled \cup overridden) : state[x] = "rejected"}
      BY <1>1, <3>1 DEF HandledInv, UnhandledExact
    <3>3. \A x \in Promises : (x \notin overridden' /\ state'[x] = "rejected") <=> (x \notin overridden /\ state[x] = "rejected")
      BY <1>5
    <3> QED BY <3>2, <3>3
  <2>3. \A x \in awaited' : state'[x] = "pending"
    BY <1>1, <1>2, <1>5, <2>1 DEF HandledInv, TypeOK
  <2>4. \A x \in handled' \cup hidden' : state'[x] # "none"
    BY <1>1, <1>2, <1>5 DEF HandledInv, TypeOK
  <2>5. \A x \in Promises : state'[x] = "pending" => (x \in handled' <=> reactions'[x] # <<>> \/ x \in awaited')
    BY <1>1, <1>2, <1>5 DEF HandledInv
  <2> QED BY <2>2, <2>3, <2>4, <2>5 DEF HandledInv
<1>15. ExecutorInv'
  BY <1>2, <1>3, WorkFrames DEF ExecutorInv
<1> QED BY <1>8, <1>9, <1>10, <1>11, <1>12, <1>13, <1>14, <1>15 DEF IInv

\* Promises stay as they are: a frame ends or begins, and `seen` counts as handled.
LEMMA CalmStep ==
  ASSUME IInv, TypeOK', NEW seen \in SUBSET Promises, \A x \in seen : state[x] \in Settled /\ x \notin hidden,
         handled' = handled \cup seen, unhandled' = unhandled \ seen, \A x \in hidden' : x \in hidden,
         Running' = Running, \A f \in Range(frames') : f.kind \in Work => f \in Range(frames),
         \A f \in Range(frames') : f.kind = "executor" => f.derived \notin hidden \ hidden',
         ReactionsOnce(frames'), ExecutorsOnce(frames'),
         UNCHANGED <<state, pair, reactions, microtasks, awaited, exited, attached, started, fate, overridden>>
  PROVE  IInv'
<1>1. TypeOK /\ PairInv
  BY DEF IInv
<1>2. HandledInv'
  <2>1. \A x \in seen : state[x] \in Settled
    OBVIOUS
  <2>2. \A x \in Promises : x \in unhandled' <=>
          (x \in unhandled /\ x \notin seen) \/ (state[x] = "none" /\ state'[x] = "rejected")
    OBVIOUS
  <2> QED BY <2>1, <2>2, OthersKeepHandled
<1>3. Between(microtasks', started') /\ Started' = Started /\ ReactionsIn(microtasks') = Queued
  BY NothingTaken DEF Started
<1>4. Active = Waiting \cup ReactionsIn(microtasks') \cup Running'
  BY <1>3 DEF Active
<1>5. \A f \in Range(frames') : f.kind \in Kind => f \in Range(frames)
  BY DEF Work
<1>6. \A f \in Range(frames') : f.kind = "executor" => f.derived \in hidden' \ handled'
  <2>1. SUFFICES ASSUME NEW f \in Range(frames'), f.kind = "executor"
                 PROVE  f.derived \in hidden' \ handled'
    OBVIOUS
  <2>2. f.derived \in hidden \ handled
    BY <2>1, WorkFrames DEF Work
  <2> QED BY <2>1, <2>2
<1>7. \A j \in Range(microtasks') : j.kind = "thenable" => pair'[j.derived] # "none"
  BY <1>1 DEF PairInv
<1>8. \A f \in Range(frames') : f.kind \in {"executor", "thenable"} => pair'[f.derived] # "none"
  BY <1>1 DEF PairInv, Work
<1> QED BY <1>2, <1>3, <1>4, <1>5, <1>6, <1>7, <1>8, QuietStep

\* The innermost frame ends, and settles nothing.
LEMMA EndStep ==
  ASSUME IInv, TypeOK', frames # <<>>, PopFrame, Last(frames).kind \notin Kind,
         NEW seen \in SUBSET Promises, \A x \in seen : state[x] \in Settled /\ x \notin hidden,
         handled' = handled \cup seen, unhandled' = unhandled \ seen,
         hidden' = IF Last(frames).kind = "executor" THEN hidden \ {Last(frames).derived} ELSE hidden,
         UNCHANGED <<state, pair, reactions, microtasks, awaited, exited, attached, started, fate, overridden>>
  PROVE  IInv'
<1>1. /\ Running' = Running
      /\ Last(frames).kind = "executor" =>
           \A f \in Range(frames') : f.kind = "executor" => f.derived # Last(frames).derived
      /\ \A f \in Range(frames') : f \in Range(frames)
      /\ ReactionsOnce(frames') /\ ExecutorsOnce(frames')
  BY FrameEnds
<1>2. /\ \A x \in hidden' : x \in hidden
      /\ \A f \in Range(frames') : f.kind = "executor" => f.derived \notin hidden \ hidden'
  BY <1>1
<1> QED BY <1>1, <1>2, CalmStep

\* A promise is made: by its constructor, with a frame for the executor, or rejected.
LEMMA BornStep ==
  ASSUME IInv, TypeOK', NEW p \in Promises, Construct(p) \/ NewRejected(p)
  PROVE  IInv'
<1>1. TypeOK /\ PairInv /\ DistinctInv /\ ExecutorInv /\ HandledInv
  BY DEF IInv
<1>2. /\ state[p] = "none" /\ pair[p] = "none" /\ p \notin handled
      /\ UNCHANGED <<reactions, microtasks, awaited, exited, handled, attached, started, fate, overridden>>
  BY <1>1 DEF Construct, NewRejected, Fresh, PairInv, HandledInv
<1>3. Between(microtasks', started') /\ Started' = Started /\ ReactionsIn(microtasks') = Queued
  BY <1>2, NothingTaken DEF Started
<1>4. \A j \in Range(microtasks) : j.derived \in Promises
  BY <1>1, RangeFacts, JobFields DEF TypeOK
<1>5. CASE Construct(p)
  <2> DEFINE f == [kind |-> "executor", derived |-> p]
  <2>1. /\ state' = [state EXCEPT ![p] = "pending"] /\ pair' = [pair EXCEPT ![p] = "open"]
        /\ frames' = Append(frames, f) /\ hidden' = hidden \cup {p} /\ unhandled' = unhandled
    BY <1>5 DEF Construct, PushFrame
  <2>2. /\ \A x \in Promises : x # p => state'[x] = state[x] /\ pair'[x] = pair[x]
        /\ state'[p] = "pending" /\ pair'[p] = "open"
    BY <1>1, <2>1 DEF TypeOK
  <2>3. f \in Frame /\ f.kind = "executor" /\ f.derived = p
    BY DEF Frame, CodeFrame
  <2> HIDE DEF f
  <2>4. \A g \in Range(frames) : g.kind = "executor" => g.derived # f.derived
    BY <1>2, <2>3, WorkFrames
  <2>5. /\ Running' = Running
        /\ \A g \in Range(frames') : g.kind \in Work => g \in Range(frames) \/ g = f
        /\ ReactionsOnce(frames') /\ ExecutorsOnce(frames')
    BY <1>1, <2>1, <2>3, <2>4, PushedWorkKept DEF Agree, Work, Kind, TypeOK, DistinctInv, ExecutorInv
  <2>6. HandledInv'
    <3>1. \A x \in {} : state[x] \in Settled
      OBVIOUS
    <3>2. \A x \in hidden' : x \in hidden \/ state'[x] # "none"
      BY <2>1, <2>2
    <3>3. \A x \in Promises : x \in unhandled' <=>
            (x \in unhandled /\ x \notin {}) \/ (state[x] = "none" /\ state'[x] = "rejected")
      BY <1>2, <2>1, <2>2
    <3>4. \A x \in Promises : state'[x] = state[x] \/ (state[x] = "none" /\ state'[x] \in {"pending", "rejected"})
      BY <1>2, <2>2
    <3>5. handled' = handled \cup {} /\ {} \in SUBSET Promises
      BY <1>2
    <3> QED BY <1>2, <3>1, <3>2, <3>3, <3>4, <3>5, OthersKeepHandled
  <2>7. Active = Waiting \cup ReactionsIn(microtasks') \cup Running'
    BY <1>3, <2>5 DEF Active
  <2>8. \A g \in Range(frames') : g.kind \in Kind => g \in Range(frames)
    BY <2>3, <2>5 DEF Work, Kind
  <2>9. \A g \in Range(frames') : g.kind = "executor" => g.derived \in hidden' \ handled'
    BY <1>2, <2>1, <2>3, <2>5, WorkFrames DEF Work
  <2>10. \A j \in Range(microtasks') : j.kind = "thenable" => pair'[j.derived] # "none"
    BY <1>1, <1>2, <1>4, <2>2 DEF PairInv
  <2>11. \A g \in Range(frames') : g.kind \in {"executor", "thenable"} => pair'[g.derived] # "none"
    BY <2>2, <2>3, <2>5, WorkFrames DEF Work
  <2>12. \A x \in Promises : \/ state'[x] = state[x] /\ pair'[x] = pair[x]
                             \/ state[x] = "none" /\ state'[x] = "pending" /\ pair'[x] = "open"
    BY <1>2, <2>2
  <2> QED BY <1>2, <1>3, <2>5, <2>6, <2>7, <2>8, <2>9, <2>10, <2>11, <2>12, QuietStep
<1>6. CASE NewRejected(p)
  <2>1. /\ state' = [state EXCEPT ![p] = "rejected"] /\ unhandled' = unhandled \cup {p}
        /\ UNCHANGED <<pair, frames, hidden>>
    BY <1>6 DEF NewRejected
  <2>2. /\ \A x \in Promises : x # p => state'[x] = state[x]
        /\ state'[p] = "rejected"
    BY <1>1, <2>1 DEF TypeOK
  <2>3. /\ Running' = Running /\ ReactionsOnce(frames') /\ ExecutorsOnce(frames')
    BY <1>1, <2>1 DEF Running, DistinctInv, ExecutorInv
  <2>4. HandledInv'
    <3>1. \A x \in {} : state[x] \in Settled
      OBVIOUS
    <3>2. \A x \in Promises : x \in unhandled' <=>
            (x \in unhandled /\ x \notin {}) \/ (state[x] = "none" /\ state'[x] = "rejected")
      BY <1>2, <2>1, <2>2
    <3>3. \A x \in Promises : state'[x] = state[x] \/ (state[x] = "none" /\ state'[x] \in {"pending", "rejected"})
      BY <1>2, <2>2
    <3>4. handled' = handled \cup {} /\ {} \in SUBSET Promises
      BY <1>2
    <3> QED BY <1>2, <2>1, <3>1, <3>2, <3>3, <3>4, OthersKeepHandled
  <2>5. Active = Waiting \cup ReactionsIn(microtasks') \cup Running'
    BY <1>3, <2>3 DEF Active
  <2>6. \A g \in Range(frames') : g.kind = "executor" => g.derived \in hidden' \ handled'
    BY <1>2, <2>1, WorkFrames
  <2>7. \A j \in Range(microtasks') : j.kind = "thenable" => pair'[j.derived] # "none"
    BY <1>1, <1>2, <2>1 DEF PairInv
  <2>8. \A g \in Range(frames') : g.kind \in {"executor", "thenable"} => pair'[g.derived] # "none"
    BY <2>1, WorkFrames
  <2>9. \A x \in Promises : \/ state'[x] = state[x] /\ pair'[x] = pair[x]
                            \/ state[x] = "none" /\ state'[x] = "rejected" /\ pair'[x] = "none"
    BY <1>2, <2>1, <2>2
  <2> QED BY <1>2, <1>3, <2>1, <2>3, <2>4, <2>5, <2>6, <2>7, <2>8, <2>9, QuietStep
<1> QED BY <1>5, <1>6

\* An activation parks on a pending promise, or the loop ends.
LEMMA ParkStep ==
  ASSUME IInv, TypeOK', ExitLoop \/ \E p \in Promises : AwaitPending(p)
  PROVE  IInv'
<1>1. TypeOK /\ PairInv /\ DistinctInv /\ ExecutorInv /\ HandledInv
  BY DEF IInv
<1>2. UNCHANGED <<state, pair, reactions, microtasks, frames, hidden, attached, started, fate, overridden>>
  BY DEF AwaitPending, ExitLoop
<1>3. Between(microtasks', started') /\ Started' = Started /\ ReactionsIn(microtasks') = Queued
  BY <1>2, NothingTaken DEF Started
<1>4. Running' = Running /\ ReactionsOnce(frames') /\ ExecutorsOnce(frames')
  BY <1>1, <1>2 DEF Running, DistinctInv, ExecutorInv
<1>5. Active = Waiting \cup ReactionsIn(microtasks') \cup Running'
  BY <1>3, <1>4 DEF Active
<1>6. \A x \in handled' : x \in handled \/ x \notin hidden
  BY DEF AwaitPending, ExitLoop, Named
<1>7. \A f \in Range(frames') : f.kind = "executor" => f.derived \in hidden' \ handled'
  BY <1>2, <1>6, WorkFrames
<1>8. HandledInv'
  <2>1. ASSUME NEW p \in Promises, AwaitPending(p)
        PROVE  HandledInv'
    <3>1. /\ state[p] = "pending" /\ awaited' = awaited \cup {p} /\ handled' = handled \cup {p}
          /\ UNCHANGED <<unhandled, exited>>
      BY <2>1 DEF AwaitPending
    <3>2. UnhandledExact'
      BY <1>1, <1>2, <3>1 DEF HandledInv, UnhandledExact
    <3> QED BY <1>1, <1>2, <3>1, <3>2 DEF HandledInv
  <2>2. CASE ExitLoop
    <3>1. exited' /\ UNCHANGED <<awaited, handled>>
      BY <2>2 DEF ExitLoop
    <3>2. UnhandledExact'
      BY <3>1 DEF UnhandledExact
    <3> QED BY <1>1, <1>2, <3>1, <3>2 DEF HandledInv
  <2> QED BY <2>1, <2>2
<1>9. \A j \in Range(microtasks') : j.kind = "thenable" => pair'[j.derived] # "none"
  BY <1>1, <1>2 DEF PairInv
<1>10. \A f \in Range(frames') : f.kind \in {"executor", "thenable"} => pair'[f.derived] # "none"
  BY <1>2, WorkFrames
<1> QED BY <1>2, <1>3, <1>4, <1>5, <1>7, <1>8, <1>9, <1>10, QuietStep

\* A job calls its handler, or the `then` of a thenable.
LEMMA CallStep ==
  ASSUME IInv, TypeOK', CallHandler
  PROVE  IInv'
<1>1. TypeOK /\ PlacesInv /\ PairInv /\ DistinctInv /\ ExecutorInv /\ HandledInv
  BY DEF IInv
<1> DEFINE j == NextJob
<1>2. /\ BeginJob /\ MayDrain /\ microtasks # <<>>
      /\ j.kind = "thenable" \/ HandlerFor(j.kind, j.state)
      /\ frames' = Append(Drained, j) /\ microtasks' = Tail(microtasks)
      /\ UNCHANGED <<state, pair, reactions, unhandled, awaited, hidden, exited, handled, attached, fate, overridden>>
  BY DEF CallHandler, BeginJob
<1>3. /\ j \in Job /\ j \in Range(microtasks)
      /\ Between(microtasks', started')
      /\ j.kind = "thenable" => Started' = Started /\ Queued = ReactionsIn(microtasks')
      /\ j.kind # "thenable" =>
           /\ j.kind \in Kind /\ ReactionOf(j) \in Queued \ Started
           /\ Started' = Started \cup {ReactionOf(j)}
           /\ ReactionsIn(microtasks') = Queued \ {ReactionOf(j)}
  BY <1>2, JobTaken
<1> HIDE DEF j
<1>4. j.kind \in Kind => state[j.from] = j.state
  BY <1>1, <1>3 DEF PlacesInv
<1>5. j \in Frame /\ j.derived \in Promises /\ (j.kind \in Kind => j.state \in Settled) /\ (j.kind \in Kind => j.kind # "thenable")
  BY <1>3, JobFields DEF ReactionJobs, Kind
<1>6. Drained \in Seq(Frame) /\ Agree(Drained, frames) /\ Agree(frames, Drained)
  BY <1>1, <1>2, DrainedType, DrainedWork
<1>7. j.kind \in Kind => ReactionOf(j) \notin Running
  BY <1>3, <1>5, OnePlace
<1>8. j.kind \in Work /\ j.kind # "executor"
  BY <1>3, JobFields DEF Work, Kind
<1>9. /\ j.kind \in Kind => Running' = Running \cup {ReactionOf(j)}
      /\ j.kind \notin Kind => Running' = Running
      /\ \A g \in Range(frames') : g.kind \in Work => g \in Range(frames) \/ g = j
      /\ ReactionsOnce(frames') /\ ExecutorsOnce(frames')
  <2>1. ReactionsOnce(frames) /\ ExecutorsOnce(frames)
    BY <1>1 DEF DistinctInv, ExecutorInv
  <2> QED BY <1>1, <1>2, <1>5, <1>6, <1>7, <1>8, <2>1, PushedWorkKept
<1>10. Active = Waiting \cup ReactionsIn(microtasks') \cup Running'
  <2>1. CASE j.kind = "thenable"
    <3>1. Running' = Running /\ Queued = ReactionsIn(microtasks')
      BY <1>3, <1>5, <1>9, <2>1
    <3> QED BY <3>1 DEF Active
  <2>2. CASE j.kind # "thenable"
    <3>1. Running' = Running \cup {ReactionOf(j)} /\ ReactionsIn(microtasks') = Queued \ {ReactionOf(j)}
          /\ ReactionOf(j) \in Queued
      BY <1>3, <1>9, <2>2
    <3> QED BY <3>1 DEF Active
  <2> QED BY <2>1, <2>2
<1>11. Started \subseteq Started' /\ \A r \in Started : r \notin Running => r \notin Running'
  BY <1>3, <1>5, <1>9
<1>12. HandledInv'
  <2>1. UnhandledExact'
    BY <1>1, <1>2 DEF HandledInv, UnhandledExact
  <2> QED BY <1>1, <1>2, <2>1 DEF HandledInv
<1>13. \A f \in Range(frames') : f.kind \in Kind =>
         f \in Range(frames) \/ (f.kind \in Kind /\ ReactionOf(f) \in Started' /\ state[f.from] = f.state
                                 /\ f.state \in Settled /\ HandlerFor(f.kind, f.state))
  <2>1. SUFFICES ASSUME NEW f \in Range(frames'), f.kind \in Kind, f \notin Range(frames)
                 PROVE  ReactionOf(f) \in Started' /\ state[f.from] = f.state
                        /\ f.state \in Settled /\ HandlerFor(f.kind, f.state)
    OBVIOUS
  <2>2. f = j
    BY <1>9, <2>1 DEF Work
  <2> QED BY <1>2, <1>3, <1>4, <1>5, <2>1, <2>2
<1>14. \A f \in Range(frames') : f.kind = "executor" => f.derived \in hidden' \ handled'
  BY <1>2, <1>8, <1>9, WorkFrames DEF Work
<1>15. \A f \in Range(microtasks') : f.kind = "thenable" => pair'[f.derived] # "none"
  BY <1>1, <1>2, <1>3 DEF PairInv, Between
<1>16. \A f \in Range(frames') : f.kind \in {"executor", "thenable"} => pair'[f.derived] # "none"
  <2>1. j.kind = "thenable" => pair[j.derived] # "none"
    BY <1>1, <1>3 DEF PairInv
  <2>2. \A f \in Range(frames') : f.kind \in {"executor", "thenable"} => f \in Range(frames) \/ f = j
    BY <1>9 DEF Work
  <2> QED BY <1>2, <1>8, <2>1, <2>2, WorkFrames
<1> QED BY <1>2, <1>3, <1>9, <1>10, <1>11, <1>12, <1>13, <1>14, <1>15, <1>16, QuietStep

-----------------------------------------------------------------------------
(* The invariant holds *)

\* A promise is hidden from the moment it is made, or never.
LEMMA HiddenStep ==
  ASSUME [Next]_vars, NEW x \in hidden', x \notin hidden
  PROVE  state[x] = "none"
<1>1. CASE ProgramStep
  BY <1>1 DEF ProgramStep, Construct, CallReject, ResolveValue, ResolveSelf, NewRejected, AwaitPending,
              AwaitSettled, MainAwait, ResolvePromise, ResolveThenable, Then, Fresh
<1>2. CASE Return
  BY <1>2 DEF Return, ExecutorReturns, ExecutorThrows, HandlerThrows, FinallyReturns, HandlerReturnsValue,
              HandlerReturnsPromise, ThenJobReturns, ThenJobThrows, EndCallback, TickDone, AwaitDone, AwaitGivesUp
<1>3. CASE Drain \/ BeginCallback \/ ExitLoop \/ Exited \/ UNCHANGED vars
  BY <1>3 DEF Drain, PassThrough, CallHandler, BeginCallback, ExitLoop, Exited, vars
<1> QED BY <1>1, <1>2, <1>3 DEF Next

\* The await of a frame is that of a frame there was, or it begins.
Awaits(f) == f.kind \in {"tick", "await"}
SameAwait(f, g) == f.kind = g.kind /\ f.on = g.on
LEMMA DrainedAwaits ==
  ASSUME TypeOK, MayDrain, NEW g \in Range(Drained)
  PROVE  g \in Range(frames) \/ \E h \in Range(frames) : SameAwait(g, h)
<1>1. frames \in Seq(Frame)
  BY DEF TypeOK
<1>2. frames # <<>>
  BY <1>1, RangeFacts DEF Drained
<1> DEFINE top == IF In("tick") THEN [Last(frames) EXCEPT !.left = @ - 1]
                  ELSE [Last(frames) EXCEPT !.draining = TRUE]
<1>3. Last(frames) \in Frame /\ Last(frames) \in Range(frames) /\ Front(frames) \in Seq(Frame)
      /\ Range(Front(frames)) \subseteq Range(frames)
  BY <1>1, <1>2, RangeFacts, FrontProperties
<1>4. Last(frames).kind \in {"tick", "await"}
  BY <1>2 DEF MayDrain, In
<1>5. SameAwait(top, Last(frames)) /\ top \in Frame
  <2>1. CASE Last(frames).kind = "tick"
    <3>1. Last(frames) \in [kind : {"tick"}, on : Promises, left : Nat] /\ Last(frames).left > 0
      BY <1>2, <1>3, <2>1, FrameFields DEF MayDrain, In
    <3>2. top = [Last(frames) EXCEPT !.left = @ - 1]
      BY <1>2, <2>1 DEF In
    <3>3. top \in [kind : {"tick"}, on : Promises, left : Nat] /\ top.kind = Last(frames).kind /\ top.on = Last(frames).on
      BY <3>1, <3>2
    <3> QED BY <3>3 DEF SameAwait, Frame, DrainFrame
  <2>2. CASE Last(frames).kind = "await"
    <3>1. Last(frames) \in [kind : {"await"}, on : Promises, draining : BOOLEAN]
      BY <1>3, <2>2, FrameFields
    <3>2. top = [Last(frames) EXCEPT !.draining = TRUE]
      BY <2>2 DEF In
    <3>3. top \in [kind : {"await"}, on : Promises, draining : BOOLEAN] /\ top.kind = Last(frames).kind /\ top.on = Last(frames).on
      BY <3>1, <3>2
    <3> QED BY <3>3 DEF SameAwait, Frame, DrainFrame
  <2> QED BY <1>4, <2>1, <2>2
<1>6. Drained = Append(Front(frames), top)
  BY <1>2 DEF Drained
<1> HIDE DEF top
<1>7. g \in Range(frames) \/ g = top
  BY <1>3, <1>5, <1>6, RangeFacts
<1> QED BY <1>3, <1>5, <1>7

LEMMA TwoAppended ==
  ASSUME NEW S, NEW s \in Seq(S), NEW a \in S, NEW b \in S
  PROVE  s \o <<a, b>> = Append(Append(s, a), b)
OBVIOUS

LEMMA AwaitFrames ==
  ASSUME TypeOK, [Next]_vars, NEW f \in Range(frames'), Awaits(f)
  PROVE  \/ f \in Range(frames) \/ \E g \in Range(frames) : SameAwait(f, g)
         \/ f.on \in Named /\ (f.kind = "tick" => state[f.on] \in Settled)
<1> DEFINE Goal == \/ f \in Range(frames) \/ \E g \in Range(frames) : SameAwait(f, g)
                   \/ f.on \in Named /\ (f.kind = "tick" => state[f.on] \in Settled)
<1>0. \A s \in Seq(Frame) : \A e \in Frame : Append(s, e) \in Seq(Frame) /\ Range(Append(s, e)) = Range(s) \cup {e}
  BY AppendFacts
<1>1. frames \in Seq(Frame) /\ microtasks \in Seq(Job)
  BY DEF TypeOK
<1>2. ASSUME frames # <<>>, PopFrame
      PROVE  Goal
  BY <1>1, <1>2, RangeFacts DEF PopFrame
<1>3. ASSUME NEW g \in Frame, PushFrame(g), Awaits(g) => g.on \in Named /\ (g.kind = "tick" => state[g.on] \in Settled)
      PROVE  Goal
  <2>1. f \in Range(frames) \/ f = g
    BY <1>1, <1>3, RangeFacts DEF PushFrame
  <2> QED BY <1>3, <2>1
<1>4. CASE frames' = frames
  BY <1>4
<1>5. CASE ProgramStep
  <2>1. ASSUME NEW p \in Promises, Construct(p)
        PROVE  Goal
    <3>1. [kind |-> "executor", derived |-> p] \in Frame /\ ~Awaits([kind |-> "executor", derived |-> p])
      BY DEF Frame, CodeFrame, Awaits
    <3> QED BY <1>3, <2>1, <3>1 DEF Construct
  <2>2. ASSUME NEW p \in Promises, AwaitSettled(p)
        PROVE  Goal
    <3> DEFINE g == [kind |-> "tick", on |-> p, left |-> Len(microtasks)]
    <3>1. g \in Frame /\ g.on = p
      BY <1>1 DEF Frame, DrainFrame
    <3> QED BY <1>3, <2>2, <3>1 DEF AwaitSettled
  <2>3. ASSUME NEW p \in Promises, MainAwait(p), frames' # frames
        PROVE  Goal
    <3> DEFINE g == [kind |-> "await", on |-> p, draining |-> FALSE]
    <3>1. g \in Frame /\ g.on = p /\ g.kind # "tick"
      BY DEF Frame, DrainFrame
    <3> QED BY <1>3, <2>3, <3>1 DEF MainAwait
  <2>4. \/ frames' = frames
        \/ \E p \in Promises : Construct(p) \/ AwaitSettled(p) \/ (MainAwait(p) /\ frames' # frames)
    BY <1>5 DEF ProgramStep, CallReject, ResolveValue, ResolveSelf, NewRejected, AwaitPending,
                ResolvePromise, ResolveThenable, Then
  <2> QED BY <1>4, <2>1, <2>2, <2>3, <2>4
<1>6. CASE Return
  <2>1. frames # <<>> /\ PopFrame
    BY <1>6 DEF Return, ExecutorReturns, ExecutorThrows, HandlerThrows, FinallyReturns, HandlerReturnsValue,
                HandlerReturnsPromise, ThenJobReturns, ThenJobThrows, EndCallback, TickDone, AwaitDone, AwaitGivesUp,
                InExecutor, InHandler, InThenJob, Code, In
  <2> QED BY <1>2, <2>1
<1>7. CASE Drain
  <2>1. MayDrain /\ microtasks # <<>> /\ (frames' = Drained \/ frames' = Append(Drained, NextJob))
    BY <1>7 DEF Drain, PassThrough, CallHandler, BeginJob
  <2>2. NextJob \in Job /\ NextJob \in Frame /\ ~Awaits(NextJob)
    <3>1. NextJob \in Job
      BY <1>1, <2>1, HeadTailProperties DEF NextJob
    <3> QED BY <3>1, JobFields DEF Awaits, Kind
  <2>3. f \in Range(Drained)
    <3>1. Drained \in Seq(Frame) /\ f # NextJob
      BY <2>1, <2>2, DrainedType
    <3>2. frames' = Drained \/ Range(frames') = Range(Drained) \cup {NextJob}
      BY <1>0, <2>1, <2>2, <3>1
    <3> QED BY <3>1, <3>2
  <2> QED BY <2>1, <2>3, DrainedAwaits
<1>8. CASE BeginCallback
  <2>1. CASE frames = <<>>
    <3>1. PICK k \in {"script", "callback"} : frames' = Append(frames, [kind |-> k])
      BY <1>8, <2>1 DEF BeginCallback, PushFrame, In
    <3>2. [kind |-> k] \in Frame /\ ~Awaits([kind |-> k])
      BY DEF Frame, CodeFrame, Awaits
    <3> QED BY <1>3, <3>1, <3>2 DEF PushFrame
  <2>2. CASE frames # <<>>
    <3> DEFINE last == [Last(frames) EXCEPT !.draining = FALSE]
               call == [kind |-> "callback"]
    <3>1. /\ In("await") /\ frames' = Front(frames) \o <<last, call>>
      BY <1>8, <2>2 DEF BeginCallback
    <3>2. Last(frames) \in Frame /\ Last(frames) \in Range(frames) /\ Front(frames) \in Seq(Frame)
          /\ Range(Front(frames)) \subseteq Range(frames)
      BY <1>1, <2>2, RangeFacts, FrontProperties
    <3>3. Last(frames) \in [kind : {"await"}, on : Promises, draining : BOOLEAN]
      BY <3>1, <3>2, FrameFields DEF In
    <3>4. last \in [kind : {"await"}, on : Promises, draining : BOOLEAN] /\ SameAwait(last, Last(frames))
      BY <3>3 DEF SameAwait
    <3>5. last \in Frame /\ call \in Frame /\ ~Awaits(call)
      BY <3>4 DEF Frame, DrainFrame, CodeFrame, Awaits
    <3> HIDE DEF last, call
    <3>6. frames' = Append(Append(Front(frames), last), call)
      BY <3>1, <3>2, <3>5, TwoAppended
    <3>7. f \in Range(frames) \/ f = last \/ f = call
      <4>1. Append(Front(frames), last) \in Seq(Frame) /\ Range(Append(Front(frames), last)) = Range(Front(frames)) \cup {last}
        BY <1>0, <3>2, <3>5
      <4>2. Range(frames') = Range(Append(Front(frames), last)) \cup {call}
        BY <1>0, <3>5, <3>6, <4>1
      <4> QED BY <3>2, <4>1, <4>2
    <3> QED BY <3>2, <3>4, <3>5, <3>7
  <2> QED BY <2>1, <2>2
<1>9. CASE ExitLoop \/ Exited \/ UNCHANGED vars
  BY <1>4, <1>9 DEF ExitLoop, Exited, vars
<1> QED BY <1>5, <1>6, <1>7, <1>8, <1>9 DEF Next

\* The promise of an await that drains in place stays known, and a tick's settled.
LEMMA AwaitsStep ==
  ASSUME TypeOK, AwaitsInv, [Next]_vars
  PROVE  AwaitsInv'
<1>1. SUFFICES ASSUME NEW f \in Range(frames'), Awaits(f)
               PROVE  f.on \notin hidden' /\ state'[f.on] # "none" /\ (f.kind = "tick" => state'[f.on] \in Settled)
  BY DEF AwaitsInv, Awaits
<1>2. f.on \in Promises
  <2>1. f \in Frame
    BY NextType, RangeFacts DEF TypeOK
  <2> QED BY <1>1, <2>1, FrameFields DEF Awaits
<1>3. f.on \notin hidden /\ state[f.on] # "none" /\ (f.kind = "tick" => state[f.on] \in Settled)
  <2>1. CASE \E g \in Range(frames) : g = f \/ SameAwait(f, g)
    BY <1>1, <2>1 DEF AwaitsInv, Awaits, SameAwait
  <2>2. CASE f.on \in Named /\ (f.kind = "tick" => state[f.on] \in Settled)
    BY <2>2 DEF Named, Made
  <2> QED BY <1>1, <2>1, <2>2, AwaitFrames
<1>4. state'[f.on] = state[f.on] \/ (state[f.on] = "pending" /\ state'[f.on] \in Settled)
  BY <1>2, <1>3, StateStep
<1>5. f.on \notin hidden'
  BY <1>3, HiddenStep
<1> QED BY <1>3, <1>4, <1>5 DEF Settled

\* A handler that ran settles the promise it derived.
LEMMA HandlerEnds ==
  ASSUME IInv, TypeOK', NEW s \in Settled, NEW seen \in SUBSET Promises,
         \A x \in seen : state[x] \in Settled /\ x \notin hidden,
         InHandler, PopFrame, SettleIn(state, Done.derived, s, microtasks, unhandled \ seen),
         handled' = handled \cup seen,
         UNCHANGED <<pair, hidden, exited, attached, started, fate, overridden>>
  PROVE  IInv'
<1> DEFINE r == ReactionOf(Done)
<1>1. frames # <<>> /\ Done.kind \in Kind /\ Done = Last(frames)
  BY DEF InHandler, Code, Done
<1>2. /\ r \in Running /\ Running' = Running \ {r}
      /\ \A f \in Range(frames') : f \in Range(frames)
      /\ ReactionsOnce(frames') /\ ExecutorsOnce(frames')
  BY <1>1, FrameEnds
<1>3. r.derived = Done.derived
  BY DEF ReactionOf
<1> HIDE DEF r
<1>4. HandlerFor(r.kind, state[r.from]) /\ r \notin Waiting /\ r \notin Queued
  BY <1>2, OnePlace
<1>5. Between(microtasks, started') /\ Started \subseteq Started' /\ ReactionsIn(microtasks) = Queued
  BY NothingTaken DEF Started
<1>6. Waiting \cup ReactionsIn(microtasks) \cup Running' = Active \ {r}
  BY <1>2, <1>4, <1>5 DEF Active
<1> QED BY <1>2, <1>3, <1>4, <1>5, <1>6, ActStep

\* What a handler does at its end keeps the invariant.
LEMMA HandlerStep ==
  ASSUME IInv, TypeOK',
         HandlerThrows \/ FinallyReturns \/ HandlerReturnsValue \/ \E q \in Promises : HandlerReturnsPromise(q)
  PROVE  IInv'
<1>1. unhandled \ {} = unhandled /\ handled \cup {} = handled /\ {} \in SUBSET Promises /\ \A x \in {} : FALSE
  OBVIOUS
<1>2. TypeOK
  BY DEF IInv
<1>3. CASE HandlerThrows \/ HandlerReturnsValue
  <2>1. PICK s \in {"rejected", "fulfilled"} : SettleIn(state, Done.derived, s, microtasks, unhandled)
    BY <1>3 DEF HandlerThrows, HandlerReturnsValue, Settle
  <2>2. InHandler /\ PopFrame /\ UNCHANGED <<pair, hidden, exited, handled, attached, started, fate, overridden>>
    BY <1>3 DEF HandlerThrows, HandlerReturnsValue
  <2> QED BY <1>1, <2>1, <2>2, HandlerEnds DEF Settled
<1>4. CASE FinallyReturns
  <2>1. InHandler /\ PopFrame /\ SettleIn(state, Done.derived, Done.state, microtasks, unhandled)
        /\ UNCHANGED <<pair, hidden, exited, handled, attached, started, fate, overridden>>
    BY <1>4 DEF FinallyReturns, Settle
  <2>2. Done.state \in Settled
    <3>1. Done \in Frame /\ Done.kind \in Kind
      BY <1>2, <2>1, FramesType DEF InHandler, Code, Done
    <3> QED BY <3>1, FrameFields DEF ReactionJobs
  <2> QED BY <1>1, <2>1, <2>2, HandlerEnds
<1>5. ASSUME NEW q \in Promises, HandlerReturnsPromise(q)
      PROVE  IInv'
  <2>1. /\ InHandler /\ PopFrame /\ q \in Named
        /\ Adopt(Done.derived, q, microtasks)
        /\ UNCHANGED <<pair, hidden, exited, started, fate, overridden>>
    BY <1>5 DEF HandlerReturnsPromise
  <2>2. state[q] # "none" /\ q \notin hidden
    BY <2>1 DEF Named, Made
  <2>3. CASE state[q] = "pending"
    <3> DEFINE r == [from |-> q, kind |-> "follow", derived |-> Done.derived]
    <3>1. /\ handled' = handled \cup {q} /\ reactions' = [reactions EXCEPT ![q] = Append(reactions[q], r)]
          /\ attached' = Append(attached, r)
          /\ UNCHANGED <<microtasks, state, unhandled, awaited>>
      BY <2>1, <2>3 DEF Adopt
    <3>2. /\ frames # <<>> /\ Last(frames).kind \in Kind /\ Done = Last(frames)
      BY <2>1 DEF InHandler, Code, Done
    <3>3. /\ Last(frames) \in Frame
          /\ ReactionOf(Done) \in Running /\ Running' = Running \ {ReactionOf(Done)}
          /\ \A f \in Range(frames') : f \in Range(frames)
          /\ ReactionsOnce(frames') /\ ExecutorsOnce(frames')
      BY <2>1, <3>2, FrameEnds
    <3>4. Done.derived \in Promises
      BY <3>2, <3>3, FrameFields DEF ReactionJobs
    <3>5. r \in Reaction /\ r.from = q /\ r.kind = "follow" /\ r.derived = ReactionOf(Done).derived
      BY <3>4 DEF Reaction, Kind, ReactionOf
    <3> HIDE DEF r
    <3> QED BY <2>1, <2>2, <2>3, <3>1, <3>3, <3>5, ReturnStep
  <2>4. CASE state[q] # "pending"
    <3>1. state[q] \in Settled
      BY <1>2, <2>2, <2>4 DEF TypeOK
    <3>2. SettleIn(state, Done.derived, state[q], microtasks, unhandled \ {q})
          /\ handled' = handled \cup {q} /\ attached' = attached
      BY <2>1, <2>4 DEF Adopt
    <3> QED BY <2>1, <2>2, <3>1, <3>2, HandlerEnds
  <2> QED BY <2>3, <2>4
<1> QED BY <1>3, <1>4, <1>5

\* No handler takes the settlement: it flows to the derived promise.
LEMMA PassThroughStep ==
  ASSUME IInv, TypeOK', PassThrough
  PROVE  IInv'
<1> DEFINE r == ReactionOf(NextJob)
<1>1. /\ BeginJob /\ MayDrain /\ microtasks # <<>> /\ NextJob.kind # "thenable"
      /\ ~HandlerFor(NextJob.kind, NextJob.state)
      /\ SettleIn(state, NextJob.derived, NextJob.state, Tail(microtasks), unhandled)
      /\ frames' = Drained
      /\ UNCHANGED <<pair, hidden, exited, handled, attached, fate, overridden>>
  BY DEF PassThrough, BeginJob, Settle
<1>2. /\ NextJob \in Job /\ NextJob \in Range(microtasks)
      /\ Between(Tail(microtasks), started')
      /\ NextJob.kind \in Kind /\ r \in Queued \ Started
      /\ Started' = Started \cup {r}
      /\ ReactionsIn(Tail(microtasks)) = Queued \ {r}
  BY <1>1, JobTaken
<1>3. r.derived = NextJob.derived /\ r.from = NextJob.from /\ r.kind = NextJob.kind
  BY DEF ReactionOf
<1>4. NextJob.state \in Settled /\ NextJob.state = state[r.from]
  <2>1. NextJob.state \in Settled
    BY <1>1, <1>2, JobFields DEF ReactionJobs
  <2> QED BY <1>2, <1>3, <2>1 DEF IInv, PlacesInv
<1> HIDE DEF r
<1>5. /\ Running' = Running /\ \A f \in Range(frames') : f.kind \in Work => f \in Range(frames)
      /\ ReactionsOnce(frames') /\ ExecutorsOnce(frames')
  BY <1>1, FrameDrains
<1>6. Waiting \cup ReactionsIn(Tail(microtasks)) \cup Running' = Active \ {r}
  <2>1. r \notin Waiting /\ r \notin Running
    BY <1>2, OnePlace
  <2> QED BY <1>2, <1>5, <2>1 DEF Active
<1>7. unhandled \ {} = unhandled /\ handled \cup {} = handled /\ {} \in SUBSET Promises /\ \A x \in {} : FALSE
  OBVIOUS
<1>8. /\ r \in Queued \cup Running /\ Started \subseteq Started'
      /\ SettleIn(state, r.derived, NextJob.state, Tail(microtasks), unhandled \ {})
      /\ handled' = handled \cup {}
  BY <1>1, <1>2, <1>3, <1>7
<1>9. UNCHANGED <<pair, hidden, exited, attached, fate, overridden>>
  BY <1>1
<1> QED BY <1>2, <1>4, <1>5, <1>6, <1>7, <1>8, <1>9, ActStep

\* A resolver pair fires.
LEMMA FireSteps ==
  ASSUME IInv, TypeOK', NEW p \in Promises,
         \/ CallReject(p) \/ ResolveValue(p) \/ ResolveSelf(p)
         \/ \E q \in Promises : ResolvePromise(p, q) \/ ResolveThenable(p, q)
  PROVE  IInv'
<1>1. TypeOK /\ PlacesInv /\ PairInv /\ DistinctInv /\ ExecutorInv
  BY DEF IInv
<1>2. unhandled \ {} = unhandled /\ handled \cup {} = handled /\ {} \in SUBSET Promises /\ \A x \in {} : FALSE
  OBVIOUS
<1>3. frames' = frames =>
        /\ Running' = Running /\ ReactionsOnce(frames') /\ ExecutorsOnce(frames')
        /\ \A f \in Range(frames') : f.kind \in Work => f \in Range(frames)
  BY <1>1 DEF Running, DistinctInv, ExecutorInv
<1>4. CASE CallReject(p) \/ ResolveValue(p) \/ ResolveSelf(p)
  <2>1. /\ pair[p] = "open" /\ pair' = [pair EXCEPT ![p] = "fired"]
        /\ UNCHANGED <<frames, hidden, exited, handled, attached, started, overridden>>
    BY <1>4 DEF CallReject, ResolveValue, ResolveSelf, Fire
  <2>2. PICK s \in {"rejected", "fulfilled"} :
          fate' = Asked(p, s) /\ SettleIn(state, p, s, microtasks, unhandled)
    BY <1>4 DEF CallReject, ResolveValue, ResolveSelf, Settle
  <2> QED BY <1>2, <1>3, <2>1, <2>2, FireStep DEF Settled
<1>5. ASSUME NEW q \in Promises, ResolvePromise(p, q)
      PROVE  IInv'
  <2>1. /\ pair[p] = "open" /\ pair' = [pair EXCEPT ![p] = "fired"] /\ q \in Named \ {p}
        /\ fate' = Asked(p, q) /\ Adopt(p, q, microtasks)
        /\ UNCHANGED <<frames, hidden, exited, started, overridden>>
    BY <1>5 DEF ResolvePromise, Fire
  <2>2. state[q] # "none" /\ q \notin hidden /\ q # p
    BY <2>1 DEF Named, Made
  <2>3. CASE state[q] = "pending"
    <3> DEFINE r == [from |-> q, kind |-> "follow", derived |-> p]
    <3>1. /\ handled' = handled \cup {q} /\ reactions' = [reactions EXCEPT ![q] = Append(reactions[q], r)]
          /\ attached' = Append(attached, r)
          /\ UNCHANGED <<microtasks, state, unhandled, awaited>>
      BY <2>1, <2>3 DEF Adopt
    <3>2. r \in Reaction /\ r.from = q /\ r.kind = "follow" /\ r.derived = p
      BY DEF Reaction, Kind
    <3> HIDE DEF r
    <3> QED BY <2>1, <2>2, <2>3, <3>1, <3>2, FollowStep
  <2>4. CASE state[q] # "pending"
    <3>1. state[q] \in Settled
      BY <1>1, <2>2, <2>4 DEF TypeOK
    <3>2. SettleIn(state, p, state[q], microtasks, unhandled \ {q})
          /\ handled' = handled \cup {q} /\ attached' = attached
      BY <2>1, <2>4 DEF Adopt
    <3>3. \A x \in {q} : state[x] \in Settled /\ x \notin hidden
      BY <2>2, <3>1
    <3> QED BY <1>3, <2>1, <2>2, <3>1, <3>2, <3>3, FireStep
  <2> QED BY <2>3, <2>4
<1>6. ASSUME NEW q \in Promises, ResolveThenable(p, q)
      PROVE  IInv'
  <2> DEFINE r == [from |-> q, kind |-> "follow", derived |-> p]
             j == [kind |-> "thenable", derived |-> q]
  <2>1. /\ pair[p] = "open" /\ state[q] = "none"
        /\ pair' = [pair EXCEPT ![p] = "fired", ![q] = "open"]
        /\ fate' = Asked(p, q)
        /\ state' = [state EXCEPT ![q] = "pending"]
        /\ handled' = handled \cup {q}
        /\ hidden' = hidden \cup {q}
        /\ reactions' = [reactions EXCEPT ![q] = <<r>>]
        /\ attached' = Append(attached, r)
        /\ microtasks' = Append(microtasks, j)
        /\ UNCHANGED <<unhandled, awaited, frames, exited, started, overridden>>
    BY <1>6 DEF ResolveThenable, Fire, Fresh
  <2>2. r \in Reaction /\ r.from = q /\ r.kind = "follow" /\ r.derived = p
    BY DEF Reaction, Kind
  <2>3. j \in Job /\ j.kind = "thenable" /\ j.derived = q
    BY DEF Job
  <2> HIDE DEF r, j
  <2>4. reactions[q] = <<>>
    <3>1. Range(reactions[q]) = {} /\ reactions[q] \in Seq(Reaction)
      BY <1>1, <2>1 DEF PlacesInv, TypeOK
    <3> QED BY <3>1, RangeFacts
  <2>5. reactions' = [reactions EXCEPT ![q] = Append(reactions[q], r)]
    BY <2>1, <2>4
  <2>6. p # q
    BY <1>1, <2>1 DEF PairInv
  <2> QED BY <2>1, <2>2, <2>3, <2>5, <2>6, FollowStep
<1> QED BY <1>4, <1>5, <1>6

\* The `then` of a thenable throws, and the pair it was given fires.
LEMMA ThenJobThrowsStep ==
  ASSUME IInv, TypeOK', ThenJobThrows
  PROVE  IInv'
<1> DEFINE p == Done.derived
<1>1. /\ frames # <<>> /\ PopFrame /\ Last(frames).kind = "thenable" /\ Done = Last(frames)
      /\ pair[p] = "open" /\ pair' = [pair EXCEPT ![p] = "fired"]
      /\ fate' = Asked(p, "rejected") /\ SettleIn(state, p, "rejected", microtasks, unhandled)
      /\ UNCHANGED <<hidden, exited, handled, attached, started, overridden>>
  BY DEF ThenJobThrows, InThenJob, Code, Done, Settle
<1>2. /\ Last(frames) \in Frame /\ Running' = Running
      /\ \A f \in Range(frames') : f \in Range(frames)
      /\ ReactionsOnce(frames') /\ ExecutorsOnce(frames')
  BY <1>1, FrameEnds DEF Kind
<1>3. p \in Promises
  BY <1>1, <1>2, FrameFields
<1>4. unhandled \ {} = unhandled /\ handled \cup {} = handled /\ {} \in SUBSET Promises /\ \A x \in {} : FALSE
  OBVIOUS
<1> HIDE DEF p
<1> QED BY <1>1, <1>2, <1>3, <1>4, FireStep DEF Settled

\* A frame of the loop or of an await begins or ends.
LEMMA FrameSteps ==
  ASSUME IInv, TypeOK', AwaitsInv,
         \/ ExecutorReturns \/ ThenJobReturns \/ EndCallback \/ TickDone \/ AwaitDone \/ AwaitGivesUp
         \/ BeginCallback \/ \E p \in Promises : AwaitSettled(p) \/ MainAwait(p)
  PROVE  IInv'
<1>1. TypeOK /\ DistinctInv /\ ExecutorInv /\ frames \in Seq(Frame)
  BY DEF IInv, TypeOK
<1>2. unhandled \ {} = unhandled /\ handled \cup {} = handled /\ {} \in SUBSET Promises /\ \A x \in {} : FALSE
  OBVIOUS
<1>3. CASE ExecutorReturns \/ ThenJobReturns \/ EndCallback \/ AwaitGivesUp
  <2>1. /\ frames # <<>> /\ PopFrame /\ Last(frames).kind \notin Kind
        /\ hidden' = IF Last(frames).kind = "executor" THEN hidden \ {Last(frames).derived} ELSE hidden
        /\ UNCHANGED <<state, pair, reactions, microtasks, unhandled, awaited, exited, handled,
                       attached, started, fate, overridden>>
    BY <1>3 DEF ExecutorReturns, ThenJobReturns, EndCallback, AwaitGivesUp, InExecutor, InThenJob, Code, In, Kind
  <2> QED BY <1>2, <2>1, EndStep
<1>4. CASE TickDone \/ AwaitDone
  <2> DEFINE p == Last(frames).on
  <2>1. /\ frames # <<>> /\ PopFrame /\ Last(frames).kind \in {"tick", "await"}
        /\ Last(frames).kind = "await" => state[p] \in Settled
        /\ handled' = handled \cup {p} /\ unhandled' = unhandled \ {p}
        /\ UNCHANGED <<state, pair, reactions, microtasks, awaited, hidden, exited,
                       attached, started, fate, overridden>>
    BY <1>4 DEF TickDone, AwaitDone, In, Observe
  <2>2. Last(frames) \in Range(frames) /\ Last(frames) \in Frame
    BY <2>1, FrameEnds
  <2>3. p \in Promises /\ p \notin hidden /\ state[p] \in Settled
    BY <2>1, <2>2, FrameFields DEF AwaitsInv
  <2>4. Last(frames).kind \notin Kind /\ hidden' = IF Last(frames).kind = "executor" THEN hidden \ {Last(frames).derived} ELSE hidden
    BY <2>1 DEF Kind
  <2> HIDE DEF p
  <2>5. {p} \in SUBSET Promises /\ \A x \in {p} : state[x] \in Settled /\ x \notin hidden
    BY <2>3
  <2> QED BY <2>1, <2>4, <2>5, EndStep
<1>5. ASSUME NEW base \in Seq(Frame), NEW f \in Frame, frames' = Append(base, f),
             Agree(base, frames), Agree(frames, base), f.kind \notin Work,
             UNCHANGED <<state, pair, reactions, microtasks, unhandled, awaited, hidden, exited, handled,
                         attached, started, fate, overridden>>
      PROVE  IInv'
  <2>1. /\ Running' = Running
        /\ \A g \in Range(frames') : g.kind \in Work => g \in Range(frames)
        /\ ReactionsOnce(frames') /\ ExecutorsOnce(frames')
    BY <1>5, FrameBegins
  <2> QED BY <1>2, <1>5, <2>1, CalmStep
<1>6. Agree(frames, frames)
  BY DEF Agree
<1>7. ASSUME NEW p \in Promises, AwaitSettled(p)
      PROVE  IInv'
  <2> DEFINE f == [kind |-> "tick", on |-> p, left |-> Len(microtasks)]
  <2>1. f \in Frame /\ f.kind \notin Work
    BY <1>1 DEF TypeOK, Frame, DrainFrame, Work, Kind
  <2>2. frames' = Append(frames, f)
        /\ UNCHANGED <<state, pair, reactions, microtasks, unhandled, awaited, hidden, exited, handled,
                       attached, started, fate, overridden>>
    BY <1>7 DEF AwaitSettled, PushFrame
  <2> HIDE DEF f
  <2> QED BY <1>1, <1>5, <1>6, <2>1, <2>2
<1>8. ASSUME NEW p \in Promises, MainAwait(p)
      PROVE  IInv'
  <2>1. p \notin hidden /\ state[p] # "none"
        /\ UNCHANGED <<state, pair, reactions, microtasks, awaited, hidden, exited, attached, started, fate, overridden>>
    BY <1>8 DEF MainAwait, Named, Made
  <2>2. CASE state[p] = "pending"
    <3> DEFINE f == [kind |-> "await", on |-> p, draining |-> FALSE]
    <3>1. f \in Frame /\ f.kind \notin Work
      BY DEF Frame, DrainFrame, Work, Kind
    <3>2. frames' = Append(frames, f) /\ UNCHANGED <<handled, unhandled>>
      BY <1>8, <2>2 DEF MainAwait, PushFrame
    <3> HIDE DEF f
    <3> QED BY <1>1, <1>5, <1>6, <2>1, <3>1, <3>2
  <2>3. CASE state[p] # "pending"
    <3>1. state[p] \in Settled
      BY <1>1, <2>1, <2>3 DEF TypeOK
    <3>2. handled' = handled \cup {p} /\ unhandled' = unhandled \ {p} /\ frames' = frames
      BY <1>8, <2>3 DEF MainAwait, Observe
    <3>3. /\ Running' = Running /\ ReactionsOnce(frames') /\ ExecutorsOnce(frames')
      BY <1>1, <3>2 DEF Running, DistinctInv, ExecutorInv
    <3>4. {p} \in SUBSET Promises /\ \A x \in {p} : state[x] \in Settled /\ x \notin hidden
      BY <2>1, <3>1
    <3>5. /\ \A f \in Range(frames') : f \in Range(frames)
          /\ \A x \in hidden' : x \in hidden
          /\ \A f \in Range(frames') : f.kind = "executor" => f.derived \notin hidden \ hidden'
      BY <2>1, <3>2
    <3> QED BY <2>1, <3>2, <3>3, <3>4, <3>5, CalmStep
  <2> QED BY <2>2, <2>3
<1>9. CASE BeginCallback
  <2>1. UNCHANGED <<state, pair, reactions, microtasks, unhandled, awaited, hidden, exited, handled,
                    attached, started, fate, overridden>>
    BY <1>9 DEF BeginCallback
  <2>2. CASE frames = <<>>
    <3>1. PICK k \in {"script", "callback"} : frames' = Append(frames, [kind |-> k])
      BY <1>9, <2>2 DEF BeginCallback, PushFrame, In
    <3>2. [kind |-> k] \in Frame /\ [kind |-> k].kind \notin Work
      BY DEF Frame, CodeFrame, Work, Kind
    <3> QED BY <1>1, <1>5, <1>6, <2>1, <3>1, <3>2
  <2>3. CASE frames # <<>>
    <3> DEFINE last == [Last(frames) EXCEPT !.draining = FALSE]
               call == [kind |-> "callback"]
               base == Append(Front(frames), last)
    <3>1. /\ In("await") /\ frames' = Front(frames) \o <<last, call>>
      BY <1>9, <2>3 DEF BeginCallback
    <3>2. /\ Len(Front(frames)) = Len(frames) - 1 /\ Front(frames) \in Seq(Frame)
          /\ Len(frames) \in DOMAIN frames /\ Last(frames) = frames[Len(frames)]
          /\ \A i \in DOMAIN Front(frames) : i \in DOMAIN frames /\ i < Len(frames) /\ Front(frames)[i] = frames[i]
          /\ Last(frames) \in Frame
      BY <1>1, <2>3, FrontProperties
    <3>3. Last(frames) \in [kind : {"await"}, on : Promises, draining : BOOLEAN]
      BY <3>1, <3>2, FrameFields DEF In
    <3>4. last \in [kind : {"await"}, on : Promises, draining : BOOLEAN]
      BY <3>3
    <3>5. /\ last \in Frame /\ call \in Frame /\ last.kind \notin Work /\ call.kind \notin Work
          /\ Last(frames).kind \notin Work
      BY <3>3, <3>4 DEF Frame, DrainFrame, CodeFrame, Work, Kind
    <3> HIDE DEF last, call
    <3>6. frames' = Append(base, call) /\ base \in Seq(Frame)
      BY <3>1, <3>2, <3>5, TwoAppended
    <3>7. /\ base[Len(frames)] = last /\ \A i \in DOMAIN Front(frames) : base[i] = frames[i]
          /\ DOMAIN frames = 1..Len(frames) /\ DOMAIN base = 1..Len(frames)
          /\ DOMAIN Front(frames) = 1..(Len(frames) - 1) /\ Len(frames) \in Nat
      BY <1>1, <3>2, <3>5, AppendFacts
    <3> HIDE DEF base
    <3>8. \A i \in DOMAIN frames : i \in DOMAIN Front(frames) \/ i = Len(frames)
      BY <3>7
    <3>9. Agree(base, frames) /\ Agree(frames, base)
      BY <3>2, <3>5, <3>7, <3>8 DEF Agree, WorkAt
    <3> QED BY <1>5, <2>1, <3>5, <3>6, <3>9
  <2> QED BY <2>2, <2>3
<1> QED BY <1>3, <1>4, <1>7, <1>8, <1>9

\* Nothing has happened yet.
LEMMA InitIInv ==
  ASSUME Init
  PROVE  IInv /\ AwaitsInv
<1>1. TypeOK
  BY InitType
<1>2. /\ microtasks = <<>> /\ frames = <<>> /\ attached = <<>> /\ started = <<>>
      /\ \A p \in Promises : reactions[p] = <<>> /\ state[p] = "none" /\ pair[p] = "none" /\ fate[p] = None
      /\ unhandled = {} /\ awaited = {} /\ hidden = {} /\ handled = {} /\ overridden = {}
  BY DEF Init
<1>3. Range(<<>>) = {} /\ DOMAIN <<>> = {}
  BY DEF Range
<1>4. Attached = {} /\ Started = {} /\ Waiting = {} /\ Queued = {} /\ Running = {} /\ Active = {}
  BY <1>2, <1>3 DEF Attached, Started, Waiting, Queued, Running, Active, ReactionsIn
<1>5. PlacesInv
  BY <1>2, <1>3, <1>4 DEF PlacesInv
<1>6. DistinctInv
  BY <1>2, <1>3 DEF DistinctInv, ReactionsOnce
<1>7. PairInv
  BY <1>2, <1>3, ConstantsAssumption DEF PairInv
<1>8. OriginInv /\ ChainInv
  BY <1>2, <1>4 DEF OriginInv, ChainInv
<1>9. HandledInv
  BY <1>2 DEF HandledInv, UnhandledExact
<1>10. ExecutorInv /\ AwaitsInv
  BY <1>2, <1>3 DEF ExecutorInv, ExecutorsOnce, AwaitsInv
<1>11. OrderInv
  BY <1>2, <1>3 DEF OrderInv, OrderOf, WaitingInOrder
<1>12. FirstCallDecides /\ PassThroughKeepsState
  BY <1>2, <1>3 DEF FirstCallDecides, PassThroughKeepsState
<1> QED BY <1>1, <1>5, <1>6, <1>7, <1>8, <1>9, <1>10, <1>11, <1>12 DEF IInv

\* A step that changes nothing is calm.
LEMMA StutterStep ==
  ASSUME IInv, TypeOK', UNCHANGED vars
  PROVE  IInv'
<1>1. /\ UNCHANGED <<state, pair, reactions, microtasks, awaited, exited, attached, started, fate, overridden>>
      /\ frames' = frames /\ hidden' = hidden /\ handled' = handled \cup {} /\ unhandled' = unhandled \ {}
      /\ {} \in SUBSET Promises /\ \A x \in {} : FALSE
  BY DEF vars
<1>2. Running' = Running /\ ReactionsOnce(frames') /\ ExecutorsOnce(frames')
  BY <1>1 DEF Running, IInv, DistinctInv, ExecutorInv
<1>3. /\ \A f \in Range(frames') : f \in Range(frames)
      /\ \A x \in hidden' : x \in hidden
      /\ \A f \in Range(frames') : f.kind = "executor" => f.derived \notin hidden \ hidden'
  BY <1>1
<1> QED BY <1>1, <1>2, <1>3, CalmStep

\* Every step keeps the invariant.
LEMMA NextIInv ==
  ASSUME IInv, AwaitsInv, [Next]_vars
  PROVE  IInv'
<1>1. TypeOK'
  BY NextType DEF IInv
<1>2. CASE ProgramStep
  <2>1. ASSUME NEW p \in Promises, Construct(p) \/ NewRejected(p)
        PROVE  IInv'
    BY <1>1, <2>1, BornStep
  <2>2. ASSUME NEW p \in Promises,
               \/ CallReject(p) \/ ResolveValue(p) \/ ResolveSelf(p)
               \/ \E q \in Promises : ResolvePromise(p, q) \/ ResolveThenable(p, q)
        PROVE  IInv'
    BY <1>1, <2>2, FireSteps
  <2>3. ASSUME NEW p \in Promises, AwaitPending(p)
        PROVE  IInv'
    BY <1>1, <2>3, ParkStep
  <2>4. ASSUME NEW p \in Promises, AwaitSettled(p) \/ MainAwait(p)
        PROVE  IInv'
    BY <1>1, <2>4, FrameSteps
  <2>5. ASSUME NEW p \in Promises, NEW d \in Promises, NEW kind \in Kind, Then(p, kind, d)
        PROVE  IInv'
    BY <1>1, <2>5, ThenStep
  <2> QED BY <1>2, <2>1, <2>2, <2>3, <2>4, <2>5 DEF ProgramStep
<1>3. CASE Return
  <2>1. CASE ExecutorThrows
    BY <1>1, <2>1, ThrowStep
  <2>2. CASE HandlerThrows \/ FinallyReturns \/ HandlerReturnsValue \/ \E q \in Promises : HandlerReturnsPromise(q)
    BY <1>1, <2>2, HandlerStep
  <2>3. CASE ThenJobThrows
    BY <1>1, <2>3, ThenJobThrowsStep
  <2>4. CASE ExecutorReturns \/ ThenJobReturns \/ EndCallback \/ TickDone \/ AwaitDone \/ AwaitGivesUp
    BY <1>1, <2>4, FrameSteps
  <2> QED BY <1>3, <2>1, <2>2, <2>3, <2>4 DEF Return
<1>4. CASE Drain
  BY <1>1, <1>4, PassThroughStep, CallStep DEF Drain
<1>5. CASE BeginCallback
  BY <1>1, <1>5, FrameSteps
<1>6. CASE ExitLoop
  BY <1>1, <1>6, ParkStep
<1>7. CASE Exited \/ UNCHANGED vars
  BY <1>1, <1>7, StutterStep DEF Exited
<1> QED BY <1>2, <1>3, <1>4, <1>5, <1>6, <1>7 DEF Next

\* Where each reaction stands, that it stands there once, what may settle a promise,
\* who is counted as handled: in every state of every run.
THEOREM Invariance == Spec => [](IInv /\ AwaitsInv)
<1>1. Init => IInv /\ AwaitsInv
  BY InitIInv
<1>2. IInv /\ AwaitsInv /\ [Next]_vars => (IInv /\ AwaitsInv)'
  <2>1. SUFFICES ASSUME IInv, AwaitsInv, [Next]_vars
                 PROVE  IInv' /\ AwaitsInv'
    OBVIOUS
  <2>2. IInv'
    BY <2>1, NextIInv
  <2>3. AwaitsInv'
    BY <2>1, AwaitsStep DEF IInv
  <2> QED BY <2>2, <2>3
<1> QED BY <1>1, <1>2, PTL DEF Spec

\* The inductive invariant has the properties the runs check.
LEMMA InvariantKeepsReactions ==
  ASSUME IInv
  PROVE  ReactionsKept
<1>1. TypeOK /\ PlacesInv /\ DistinctInv /\ OrderInv /\ ChainInv /\ HandledInv
      /\ FirstCallDecides /\ PassThroughKeepsState
  BY DEF IInv
<1>2. ChainNeverDrops
  <2>1. SUFFICES ASSUME NEW p \in Promises, state[p] = "pending", pair[p] # "open"
                 PROVE  Owed(p)
    BY DEF ChainNeverDrops
  <2>2. PICK r \in Active : r.derived = p
    BY <1>1, <2>1 DEF ChainInv
  <2>3. CASE r \in Waiting
    <3>1. PICK q \in Promises : r \in Range(reactions[q])
      BY <2>3 DEF Waiting
    <3>2. state[q] = "pending" /\ \E i \in DOMAIN reactions[q] : reactions[q][i] = r
      BY <1>1, <3>1, RangeFacts DEF PlacesInv, TypeOK
    <3> QED BY <2>2, <3>2 DEF Owed
  <2>4. CASE r \in Queued
    <3>1. PICK i \in WorkAt(microtasks) : microtasks[i].kind \in Kind /\ ReactionOf(microtasks[i]) = r
      BY <2>4, RunningAt DEF Queued
    <3> QED BY <2>2, <3>1 DEF Owed, WorkAt, ReactionOf
  <2>5. CASE r \in Running
    <3>1. PICK i \in WorkAt(frames) : frames[i].kind \in Kind /\ ReactionOf(frames[i]) = r
      BY <2>5, RunningAt DEF Running
    <3> QED BY <2>2, <3>1 DEF Owed, WorkAt, ReactionOf
  <2> QED BY <2>2, <2>3, <2>4, <2>5 DEF Active
<1>3. HandlersInOrder
  <2>1. \A x, y \in DOMAIN started : started[x] = started[y] => x = y
    BY <1>1 DEF DistinctInv
  <2>2. ASSUME NEW y \in DOMAIN started
        PROVE  \E j \in DOMAIN attached :
                 /\ started[y] = attached[j]
                 /\ \A i \in 1..(j - 1) : attached[i].from = attached[j].from =>
                      \E x \in 1..(y - 1) : started[x] = attached[i]
    <3>1. started[y] \in Attached
      BY <1>1, <2>2, RangeFacts DEF PlacesInv, Started, TypeOK
    <3>2. PICK j \in DOMAIN attached : attached[j] = started[y]
      BY <1>1, <3>1, RangeFacts DEF Attached, TypeOK
    <3>3. \A i \in 1..(j - 1) : attached[i].from = attached[j].from =>
            \E x \in 1..(y - 1) : started[x] = attached[i]
      BY <1>1, <2>2, <3>2 DEF OrderInv, OrderOf, Before
    <3> QED BY <3>2, <3>3
  <2> QED BY <2>1, <2>2 DEF HandlersInOrder
<1>4. UnhandledExact
  BY <1>1 DEF HandledInv
<1> QED BY <1>1, <1>2, <1>3, <1>4 DEF ReactionsKept

\* Every reaction is kept, in order, and acts on what was first asked of its promise,
\* and the record of unhandled rejections is exact, however program code calls the
\* resolvers, attaches handlers, awaits, returns and throws.
THEOREM ReactionsAreKept == Spec => []ReactionsKept
<1>1. IInv => ReactionsKept
  BY InvariantKeepsReactions
<1> QED BY <1>1, Invariance, PTL
=============================================================================
