------------------------------- MODULE MCLibrary -------------------------------
(* The parts of the library that call a program back - emitters, targets and       *)
(* signals, domains, channels, lines and iterator helpers - those that deal with   *)
(* files and the two programs that score tests, side by side.  They share no       *)
(* state: a behaviour chooses one of them in its first state and the others stay   *)
(* as they begin, so one run checks each of them.                                  *)
EXTENDS Emitter, EventTargets, Domains, Tracing, Lines, IteratorHelpers,
        FileTrees, Descriptors, Paths, TestRunner

VARIABLE part    \* the part this behaviour is about

Parts == {"events", "targets", "domain", "tracing", "readline", "iterators",
          "trees", "descriptors", "paths", "runner", "scoring"}

Working == <<"", "a", "b">>     \* process.cwd()

Init ==
    /\ part \in Parts
    /\ EmitInit /\ EvtInit /\ TreeInit /\ FdInit /\ RunnerInit
    /\ IF part = "domain" THEN DomainInit ELSE listening = {} /\ DomainInit
    /\ IF part = "tracing" THEN TraceInit ELSE shape = "none" /\ TraceInit
    /\ IF part = "readline" THEN LineInit ELSE text = <<>> /\ LineInit
    /\ IF part = "iterators" THEN IterInit
       ELSE heap = <<Source(<<>>)>> /\ IterBegins
    /\ IF part = "paths" THEN PathInit
       ELSE pathA = Empty /\ pathB = Empty /\ winA = Unrooted(<<>>) /\ winB = Unrooted(<<>>)
    /\ IF part = "scoring" THEN ScoreInit
       ELSE /\ meta = CHOOSE m \in Metas : TRUE
            /\ happened = CHOOSE h \in Outcomes : TRUE
            /\ style = CHOOSE s \in Styles : TRUE

Others ==
    /\ part' = part
    /\ IF part = "events" THEN TRUE ELSE UNCHANGED emitVars
    /\ IF part = "targets" THEN TRUE ELSE UNCHANGED evtVars
    /\ IF part = "domain" THEN TRUE ELSE UNCHANGED domainVars
    /\ IF part = "tracing" THEN TRUE ELSE UNCHANGED traceVars
    /\ IF part = "readline" THEN TRUE ELSE UNCHANGED lineVars
    /\ IF part = "iterators" THEN TRUE ELSE UNCHANGED iterVars
    /\ IF part = "trees" THEN TRUE ELSE UNCHANGED treeVars
    /\ IF part = "descriptors" THEN TRUE ELSE UNCHANGED fdVars
    /\ IF part = "runner" THEN TRUE ELSE UNCHANGED runnerVars
    /\ UNCHANGED <<pathVars, scoreVars>>

EmitterPart == part = "events" /\ EmitNext /\ Others
TargetsPart == part = "targets" /\ EvtNext /\ Others
DomainPart == part = "domain" /\ DomainNext /\ Others
TracingPart == part = "tracing" /\ TraceNext /\ Others
LinesPart == part = "readline" /\ LineNext /\ Others
IteratorsPart == part = "iterators" /\ IterNext /\ Others
TreesPart == part = "trees" /\ TreeNext /\ Others
DescriptorsPart == part = "descriptors" /\ FdNext /\ Others
RunnerPart == part = "runner" /\ RunnerNext /\ Others

Next == \/ EmitterPart \/ TargetsPart \/ DomainPart
        \/ TracingPart \/ LinesPart \/ IteratorsPart
        \/ TreesPart \/ DescriptorsPart \/ RunnerPart

vars == <<part, emitVars, evtVars, domainVars, traceVars, lineVars, iterVars,
          treeVars, fdVars, pathVars, runnerVars, scoreVars>>

Spec == Init /\ [][Next]_vars

-----------------------------------------------------------------------------

\* Whatever listeners add, remove, throw and emit while they run: an emitter's once
\* listener runs at most once and its iterator neither loses nor repeats an event
\* (events.js), a target's once listener likewise, and signals made by AbortSignal.any
\* follow their sources (prelude.js); each message of a channel reaches exactly the
\* subscribers it was published to, and the events of a traced call nest however the
\* call ends (diagnostics_channel.js).
ListenersHeard ==
    /\ part = "events" => OnceAtMost /\ IteratorInOrder /\ RequestsAnswered
    /\ part = "targets" => OnceAndRemoved /\ AnyFollows /\ AbortRemoves
    /\ part = "tracing" => MessageReachesAll /\ TraceWellFormed

\* Sequences are taken as they are asked for: the lines are those of the whole text
\* however the stream cut it, each handed out once and in order (readline.js); two
\* iterator helpers in a row yield what the same functions of lists do, pull no further
\* than they must, and a source is closed at most once, also by zip (engine-prelude.js).
\* Sources and callbacks that throw are left out.
SequencesWhole ==
    /\ part = "readline" => ChunkingInvisible /\ LinesTakenInOrder
    /\ part = "iterators" => HelpersAgree /\ HelpersLazy /\ ClosedOnce /\ ZipClosesRest

\* A file is reached by the path that names it and by a descriptor that is its own.
\* normalize, resolve, join, relative, parse and format agree on the place a path
\* names, on POSIX and on win32 (path.js).  A FileHandle's descriptor is closed
\* once, by its owner, though close(), a second close() and the collector race for it and
\* the kernel reuses its number; nothing leaks, fstat's table follows, and a vectored read
\* is one read (fs.js, eval.milo).  closeSync of a bare number and vectored writes that
\* fall short are left out.
FilesReached ==
    /\ part = "paths" =>
        /\ NormalizeKeepsPlace /\ RelativeLeadsThere /\ JoinAgreesWithResolve
        /\ ParseThenFormat /\ Win32RelativeLeadsThere /\ Win32ResolveDevice
    /\ part = "descriptors" => OnlyOwnClosed /\ EveryFdOwned /\ FdPathsFollow
                               /\ ClosedStaysClosed /\ VectorIsOneRead

\* A test file that ends with status 0 ran every test it should have, each once and
\* under its suites' hooks (test.js; t.skip() and tests registered late are left out); no
\* test that dies or ends the wrong way is scored as passed, and the sweeps over milojs and
\* over QuickJS score the same behaviour alike (the scripts test262-sweep.ts and
\* quickjs-sweep.ts).
TestsJudged ==
    /\ part = "runner" => SuccessIsComplete /\ OnlyTheMarked /\ EnclosingHooksFirst
    /\ part = "scoring" => DyingScoresNothing /\ PointsEarned /\ EnginesScoredAlike

\* An error inside domains is taken by exactly one handler, that of the innermost
\* open call that has one; until then the active domains are those of the calls
\* still open (domain.js).
ErrorsFindHandlers ==
    [][part = "domain" => (ActiveAreOpen /\ ErrorsAccounted)' /\ AnsweredByInnermost]_vars

\* mkdirSync and rmSync answer for what they did while another process changes the tree
\* under them and the kernel refuses a call.  A removal stays in its own tree, but for a
\* link that takes a directory's place meanwhile, and leaves behind what was made or
\* refused meanwhile, nothing else (fs.js).
TreesHandled == MkdirAnswers /\ RemovesInside /\ RemovesAll

=============================================================================
