---------------------------- MODULE MCGenerators ----------------------------
(* Two generators, in behaviours of two kinds: their bodies never await and  *)
(* one has parameter defaults that run code; or one of them is async and     *)
(* awaits between and inside its yields.  A behaviour is of one kind from    *)
(* its first state on.                                                       *)
EXTENDS GeneratorsProofs

CONSTANTS a1, g1, g2, c1, c2
CONSTANT MaxHanded  \* bound: steps of one body, once the program has gone astray

VARIABLE kind    \* "sync" or "async"

MCDefaults == {g1}
MCAsync == {g1}
MCNone == {}
MCActs == {a1}
MCGens2 == {g1, g2}
MCCells2 == {c1, c2}

ASSUME OneOfThem == g1 \in Gens

A == INSTANCE GeneratorsProofs WITH Async <- MCAsync, Defaults <- MCNone

MCInit == \/ kind = "sync" /\ Init
          \/ kind = "async" /\ A!Init

\* A body that awaits a promise nobody settles leaves its caller parked, and so does
\* a call that overlaps another: such a behaviour rests, any other would be a deadlock.
Rests == (kind = "async" \/ astray) /\ UNCHANGED <<kind, vars>>
InBounds == astray => \A g \in Gens : handed[g] < MaxHanded
MCNext == \/ InBounds /\ kind = "sync" /\ Next /\ UNCHANGED kind
          \/ InBounds /\ kind = "async" /\ A!Next /\ UNCHANGED kind
          \/ Rests
MCSpec == MCInit /\ [][MCNext]_<<kind, vars>>

\* The state has its types.
GeneratorsTyped == IF kind = "sync" THEN TypeOK ELSE A!TypeOK

\* A body that lives keeps its record, though records are removed, addresses reused
\* and calls made of generators that run.  Until a call overlaps another of the same
\* generator or a body hands its step to another's record, one side of a call runs at
\* a time, every step handed out is received once by the caller that asked for it, a
\* record outlives its body only until it is read, and nobody is woken from an await
\* that has not settled.
CallsAnswered ==
  /\ kind = "sync" =>
       /\ BodyKeepsRecord
       /\ ~astray => /\ OneSideRuns /\ AnswerFromAsked /\ StepsReceivedOnce
                     /\ DeadRecordsAwaitReader /\ WokenBySettle
  /\ kind = "async" =>
       /\ A!BodyKeepsRecord
       /\ ~astray => /\ A!OneSideRuns /\ A!AnswerFromAsked /\ A!StepsReceivedOnce
                     /\ A!DeadRecordsAwaitReader /\ A!WokenBySettle

-----------------------------------------------------------------------------
(* A behaviour of one kind is one of generators, for which both are proved. *)

\* What is assumed of the constants holds of the async kind too.
LEMMA AsyncConstants == A!ConstantsAssumption
BY OneOfThem, ConstantsAssumption DEF A!ConstantsAssumption, A!Task, Task, MCAsync, MCNone

LEMMA SyncKind == MCSpec /\ kind = "sync" => Spec /\ [](kind = "sync")
<1>1. MCInit /\ kind = "sync" => Init
  BY DEF MCInit
<1>2. kind = "sync" /\ [MCNext]_<<kind, vars>> => (kind = "sync")' /\ [Next]_vars
  BY DEF MCNext, Rests
<1> QED BY <1>1, <1>2, PTL DEF MCSpec, Spec

LEMMA AsyncKind == MCSpec /\ kind = "async" => A!Spec /\ [](kind = "async")
<1>1. MCInit /\ kind = "async" => A!Init
  BY DEF MCInit
<1>2. kind = "async" /\ [MCNext]_<<kind, vars>> => (kind = "async")' /\ [A!Next]_(A!vars)
  <2>1. UNCHANGED vars => UNCHANGED A!vars
    BY DEF vars, native, history, told, A!vars, A!native, A!history, A!told
  <2> QED BY <2>1 DEF MCNext, Rests
<1> QED BY <1>1, <1>2, PTL DEF MCSpec, A!Spec

LEMMA Kinds == MCSpec => kind = "sync" \/ kind = "async"
BY DEF MCSpec, MCInit

\* The state keeps its types in both kinds of behaviour.
THEOREM BothTyped == MCSpec => []GeneratorsTyped
<1>1. kind = "sync" /\ TypeOK => GeneratorsTyped
  BY DEF GeneratorsTyped
<1>2. kind = "async" /\ A!TypeOK => GeneratorsTyped
  BY DEF GeneratorsTyped
<1>3. Spec => []TypeOK
  BY TypeCorrect
<1>4. A!Spec => []A!TypeOK
  BY AsyncConstants, A!TypeCorrect
<1> QED BY <1>1, <1>2, <1>3, <1>4, Kinds, SyncKind, AsyncKind, PTL

\* Live bodies keep their records, and calls and answers stay paired until the program
\* goes astray, in both kinds of behaviour.
THEOREM BothAnswered == MCSpec => []CallsAnswered
<1>1. Spec => []BodyKeepsRecord
  BY BodiesKeepRecords
<1>2. Spec => [](~astray => /\ OneSideRuns /\ AnswerFromAsked /\ StepsReceivedOnce
                            /\ DeadRecordsAwaitReader /\ WokenBySettle)
  BY AnswersPaired
<1>3. A!Spec => []A!BodyKeepsRecord
  BY AsyncConstants, A!BodiesKeepRecords
<1>4. A!Spec => [](~astray => /\ A!OneSideRuns /\ A!AnswerFromAsked /\ A!StepsReceivedOnce
                              /\ A!DeadRecordsAwaitReader /\ A!WokenBySettle)
  BY AsyncConstants, A!AnswersPaired
<1>5. /\ kind = "sync" /\ BodyKeepsRecord
      /\ (~astray => /\ OneSideRuns /\ AnswerFromAsked /\ StepsReceivedOnce
                     /\ DeadRecordsAwaitReader /\ WokenBySettle)
      => CallsAnswered
  BY DEF CallsAnswered
<1>6. /\ kind = "async" /\ A!BodyKeepsRecord
      /\ (~astray => /\ A!OneSideRuns /\ A!AnswerFromAsked /\ A!StepsReceivedOnce
                     /\ A!DeadRecordsAwaitReader /\ A!WokenBySettle)
      => CallsAnswered
  BY DEF CallsAnswered
<1> QED BY <1>1, <1>2, <1>3, <1>4, <1>5, <1>6, Kinds, SyncKind, AsyncKind, PTL
=============================================================================
