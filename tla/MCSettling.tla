------------------------------ MODULE MCSettling ------------------------------
(* What is begun must end: promise combinators, disposable stacks, web streams,  *)
(* child processes, datagram sockets and the sweep over Node's tests, side by     *)
(* side.  They share no state: a behaviour chooses one of them in its first       *)
(* state; the others begin where nothing is left to do, so that the fairness of   *)
(* each asks nothing of the others, and stay there.                               *)
EXTENDS Combinators, Disposables, WebStreams, Children, Datagrams, Sweep

VARIABLE part        \* the part this behaviour is about

Parts == {"combinators", "disposables", "streams", "children", "datagrams", "sweep"}

(* Where a part that is not chosen begins. *)
CombOver == /\ method = "race" /\ host = "engine" /\ unread = FALSE /\ kinds = <<>> /\ subscribed = 0 /\ looping = FALSE
            /\ remaining = 0 /\ out = <<>> /\ cap = <<>> /\ called = <<>>
WebOver == /\ chunks = <<>> /\ waiters = <<>> /\ taken = <<>> /\ closed = TRUE /\ ended = TRUE
           /\ err = FALSE /\ mute = FALSE /\ cancelled = FALSE /\ put = 0 /\ reads = 0
           /\ text = [t \in Texts |-> [state |-> "none", acc |-> <<>>]]
SweepOver == /\ round = "report" /\ list = <<>> /\ nextIndex = 1 /\ slots = NoRuns
             /\ runningPgid = {}
             /\ rows = [c \in Selected |-> [verdict |-> None, exit |-> None]]
             /\ confirmed = [c \in Selected |-> None]

Init ==
    /\ part \in Parts
    /\ IF part = "combinators" THEN CombInit ELSE CombOver
    /\ IF part = "disposables" THEN DispInit ELSE mode = "sync" /\ DispInit
    /\ IF part = "streams" THEN WebInit ELSE WebOver
    /\ ChildInit
    /\ DgramInit
    /\ IF part = "sweep" THEN SweepInit ELSE SweepOver

Others ==
    /\ part' = part
    /\ IF part = "combinators" THEN TRUE ELSE UNCHANGED combVars
    /\ IF part = "disposables" THEN TRUE ELSE UNCHANGED dispVars
    /\ IF part = "streams" THEN TRUE ELSE UNCHANGED webVars
    /\ IF part = "children" THEN TRUE ELSE UNCHANGED childVars
    /\ IF part = "datagrams" THEN TRUE ELSE UNCHANGED dgramVars
    /\ IF part = "sweep" THEN TRUE ELSE UNCHANGED sweepVars

CombinatorsPart == part = "combinators" /\ CombNext /\ Others
DisposablesPart == part = "disposables" /\ DispNext /\ Others
WebStreamsPart == part = "streams" /\ WebNext /\ Others
ChildrenPart == part = "children" /\ ChildNext /\ Others
DatagramsPart == part = "datagrams" /\ DgramNext /\ Others
SweepPart == part = "sweep" /\ SweepNext /\ Others

Next == \/ CombinatorsPart \/ DisposablesPart \/ WebStreamsPart
        \/ ChildrenPart \/ DatagramsPart \/ SweepPart

vars == <<part, combVars, dispVars, webVars, childVars, dgramVars, sweepVars>>

Spec == /\ Init /\ [][Next]_vars
        /\ CombFairness /\ DispFairness /\ WebFairness
        /\ ChildFairness /\ DgramFairness /\ SweepFairness

-----------------------------------------------------------------------------

\* A combinator answers by its rule whatever the order of the answers, and hands the
\* whole array over once; a stack disposes every resource once, in reverse, whoever
\* throws, re-enters or moves it (engine-prelude.js).  Chunks and datagrams arrive whole,
\* in order and once; no consumer is left waiting on a stream that ended, and the loop
\* polls exactly the sockets that are open (prelude.js, dgram.js).
SettledInOrder ==
    /\ part = "combinators" => CombinesByRule /\ WholeOnce
    /\ part = "disposables" => DisposedOnceInReverse /\ DisposalComplete /\ HeldOnce
    /\ part = "streams" => ChunksInOrder /\ TextIsWhole /\ NoneLeftWaiting
    /\ part = "datagrams" => OpenArePolled /\ IdleUnregisters /\ MessagesInOrder

\* Processes stay bounded and what is said of each is what became of it: children and
\* cluster workers (child_process.js, cluster.js), and the cases of a sweep
\* (node-compat-sweep.ts).
ProcessesAccounted ==
    /\ part = "children" => ForkBombStops /\ SpawnsCounted /\ OneStory /\ WorkersAgree
    /\ part = "sweep" => GroupsBounded /\ RowsTrue /\ HangsTimedOut

\* An array a combinator handed over is not written again, and asynchronous disposers
\* of one stack never overlap.
ResultsKept == ResultKept /\ NoOverlap

\* Everything begun ends: a combinator's promise, a disposal, a body's text(), the
\* news of a child that died, a datagram in the kernel, the sweep itself.
EverythingSettles == /\ CombinatorSettles /\ DisposalEnds /\ TextSettles
                     /\ ChildrenReport /\ DatagramsDelivered /\ SweepEnds
=============================================================================
