----------------------------- MODULE TestRunner -----------------------------
(***************************************************************************)
(* How tests are judged.  lib/test.js: a file registers tests, suites and  *)
(* hooks; a turn later runAll runs them in order, awaiting each; bodies    *)
(* add subtests, plans and assertions; and the exit code says whether any  *)
(* failed.  Below it, the two sweeps that score a test from outside, by    *)
(* what its process left behind.                                           *)
(***************************************************************************)
EXTENDS Integers, Sequences, FiniteSets

CONSTANTS MaxNodes,      \* tests and suites registered
          MaxHooks,      \* hooks added
          MaxAsserts     \* assertions made in all

VARIABLES nodes,         \* the tests and suites made by makeNode, in order
          suiteStack,    \* suites whose bodies are running
          hookOf,        \* for each kind of hook, the owners that added one (0: the file)
          progress,      \* "file" until runAll, "running", "ended"
          chain,         \* the runNode calls under way, runAll's first
          failures, passes, skipped,
          asserts,       \* assertions made
          verdicts,      \* <<node, "ok" | "not ok" | "skip">> printed
          bodiesRun,     \* the nodes whose body was called, in order
          bodiesFailed,  \* those whose body threw or rejected
          between,       \* beforeEach hooks run minus afterEach hooks run, for this body
          exitCode       \* the process's exit code once ended

runnerVars == <<nodes, suiteStack, hookOf, progress, chain, failures, passes, skipped,
                asserts, verdicts, bodiesRun, bodiesFailed, between, exitCode>>
counters == <<failures, passes, skipped, verdicts>>
ghosts == <<bodiesRun, bodiesFailed, between>>

Kinds == {"before", "after", "beforeEach", "afterEach"}

RunnerInit ==
    /\ nodes = <<>> /\ suiteStack = <<>> /\ hookOf = [k \in Kinds |-> {}]
    /\ progress = "file" /\ chain = <<>>
    /\ failures = 0 /\ passes = 0 /\ skipped = 0 /\ asserts = 0
    /\ verdicts = <<>> /\ bodiesRun = <<>> /\ bodiesFailed = {} /\ between = <<>>
    /\ exitCode = 0

-----------------------------------------------------------------------------
(* Registration. *)

currentCollection == IF suiteStack = <<>> THEN 0 ELSE suiteStack[Len(suiteStack)]

\* late: registered when the list it joins has already been walked.
makeNode(registrar, isSuite, skip, only, late) ==
    [parent |-> registrar, isSuite |-> isSuite, skipped |-> skip, only |-> only,
     late |-> late, plan |-> -1, count |-> 0]

test(skip, only) ==
    /\ progress = "file" /\ Len(nodes) < MaxNodes
    /\ nodes' = Append(nodes, makeNode(currentCollection, FALSE, skip, only, FALSE))
    /\ UNCHANGED <<suiteStack, hookOf, progress, chain, counters, asserts, ghosts, exitCode>>

\* The body of a suite runs at once.
describe(skip, only) ==
    /\ progress = "file" /\ Len(nodes) < MaxNodes
    /\ nodes' = Append(nodes, makeNode(currentCollection, TRUE, skip, only, FALSE))
    /\ suiteStack' = Append(suiteStack, Len(nodes'))
    /\ UNCHANGED <<hookOf, progress, chain, counters, asserts, ghosts, exitCode>>
EndDescribe ==
    /\ progress = "file" /\ suiteStack # <<>>
    /\ suiteStack' = SubSeq(suiteStack, 1, Len(suiteStack) - 1)
    /\ UNCHANGED <<nodes, hookOf, progress, chain, counters, asserts, ghosts, exitCode>>

Hooks == UNION {{k} \X hookOf[k] : k \in Kinds}
addHook(kind) ==
    /\ Cardinality(Hooks) < MaxHooks
    /\ progress = "file" /\ currentCollection \notin hookOf[kind]
    /\ hookOf' = [hookOf EXCEPT ![kind] = @ \cup {currentCollection}]
    /\ UNCHANGED <<nodes, suiteStack, progress, chain, counters, asserts, ghosts, exitCode>>

\* The file, or the body of a suite, throws: the process ends before runAll.
FileThrows ==
    /\ progress = "file"
    /\ progress' = "ended" /\ exitCode' = 1
    /\ UNCHANGED <<nodes, suiteStack, hookOf, chain, counters, asserts, ghosts>>

-----------------------------------------------------------------------------
(* The runner.  A frame is one runNode in progress: its step and what is left of it. *)

Children(n, all) == SelectSeq([k \in DOMAIN all |-> k], LAMBDA k : all[k].parent = n)
Above(all, n) == {m \in DOMAIN all : \E k \in 0..Len(all) :
                    LET up[j \in 0..Len(all)] == IF j = 0 THEN n ELSE
                              IF up[j - 1] = 0 THEN 0 ELSE all[up[j - 1]].parent
                    IN  up[k] = m}
hasOnly(n) == \E m \in DOMAIN nodes : nodes[m].only /\ n \in Above(nodes, m)
\* pruneToOnly keeps a marked node with everything in it, and what leads to one.
Kept(n) == \/ \A m \in DOMAIN nodes : ~nodes[m].only
           \/ hasOnly(n) \/ \E m \in Above(nodes, n) : nodes[m].only
ToWalk(n) == SelectSeq(Children(n, nodes), Kept)

\* The owners of the beforeEach (afterEach) hooks of a node, outermost first: the file's
\* and those of the suites around it.
EachHooks(kind, n) ==
    SelectSeq(<<0>> \o [k \in DOMAIN nodes |-> k],
              LAMBDA m : m \in hookOf[kind] /\ (m = 0 \/ (m \in Above(nodes, n) /\ nodes[m].isSuite)))
Own(kind, n) == IF n \in hookOf[kind] THEN <<n>> ELSE <<>>

Start(n) == [node |-> n, step |-> "before", ok |-> TRUE,
             left |-> IF n # 0 /\ ~nodes[n].isSuite THEN EachHooks("beforeEach", n)
                      ELSE Own("before", n)]
runAll ==
    /\ progress = "file" /\ suiteStack = <<>>
    /\ IF nodes = <<>> THEN progress' = "ended" /\ UNCHANGED chain
       ELSE progress' = "running" /\ chain' = <<Start(0)>>
    /\ UNCHANGED <<nodes, suiteStack, hookOf, counters, asserts, ghosts, exitCode>>

Now == chain[Len(chain)]
IsTest == Now.node # 0 /\ ~nodes[Now.node].isSuite
NodeAt(step) == progress = "running" /\ Now.step = step
Goes(frame) == chain' = [chain EXCEPT ![Len(chain)] = frame]
To(step, left) == Goes([Now EXCEPT !.step = step, !.left = left])
Back == SubSeq(chain, 1, Len(chain) - 1)

\* What a failure of this frame does: at runAll's the runner gives up; a node's is
\* printed, and its after hooks run all the same.
AfterHooks == IF IsTest THEN EachHooks("afterEach", Now.node) \o Own("after", Now.node)
              ELSE Own("after", Now.node)
GiveUp == progress' = "ended" /\ exitCode' = 1 /\ UNCHANGED <<chain, counters>>
FailsAt(frame, enclosing) ==
    IF frame.node = 0 THEN GiveUp
    ELSE /\ failures' = failures + 1
         /\ verdicts' = Append(verdicts, <<frame.node, "not ok">>)
         /\ chain' = Append(enclosing, [frame EXCEPT !.step = "after", !.ok = FALSE,
                              !.left = IF nodes[frame.node].isSuite THEN Own("after", frame.node)
                                       ELSE EachHooks("afterEach", frame.node) \o Own("after", frame.node)])
         /\ UNCHANGED <<passes, skipped, progress, exitCode>>
Reject == FailsAt(Now, Back)
\* The promise of runNode itself rejects: the chain of its parent's children does.
RejectUp == FailsAt(Back[Len(Back)], SubSeq(Back, 1, Len(Back) - 1))

\* One hook of the list settles.
Kept2 == UNCHANGED <<nodes, suiteStack, hookOf, asserts, bodiesRun, bodiesFailed>>
Counted == between' = IF ~IsTest THEN between
                      ELSE IF Now.step = "before" THEN Append(between, Head(Now.left))
                      ELSE SelectSeq(between, LAMBDA o : o # Head(Now.left))
HookReturns ==
    /\ NodeAt("before") \/ NodeAt("after")
    /\ Now.left # <<>>
    /\ Goes([Now EXCEPT !.left = Tail(@)]) /\ Counted
    /\ Kept2 /\ UNCHANGED <<progress, counters, exitCode>>
HookFails ==
    /\ NodeAt("before") \/ NodeAt("after")
    /\ Now.left # <<>>
    /\ \/ NodeAt("before") /\ Reject
       \/ /\ NodeAt("after")
          /\ IF ~Now.ok THEN chain' = Back /\ UNCHANGED <<progress, counters, exitCode>>
             ELSE IF Now.node = 0 THEN GiveUp ELSE RejectUp
    /\ Kept2 /\ UNCHANGED between

BodyStarts ==
    /\ NodeAt("before") /\ Now.left = <<>>
    /\ IF IsTest THEN To("body", <<>>) /\ bodiesRun' = Append(bodiesRun, Now.node)
       ELSE To("children", ToWalk(Now.node)) /\ UNCHANGED bodiesRun
    /\ UNCHANGED <<nodes, suiteStack, hookOf, asserts, bodiesFailed, between, progress,
                   counters, exitCode>>

InSuite == UNCHANGED <<suiteStack, hookOf, progress, chain, counters, ghosts, exitCode>>
\* t.assert...(): counted for the context it was made with.
assert ==
    /\ NodeAt("body") /\ asserts < MaxAsserts
    /\ asserts' = asserts + 1
    /\ nodes' = [nodes EXCEPT ![Now.node].count = @ + 1]
    /\ InSuite
plan(n) ==
    /\ NodeAt("body") /\ nodes[Now.node].plan = -1
    /\ nodes' = [nodes EXCEPT ![Now.node].plan = n]
    /\ InSuite /\ UNCHANGED asserts
\* t.test() on the context of a test that is running, in its body or under it.
subtest(k) ==
    /\ NodeAt("body") /\ Len(nodes) < MaxNodes
    /\ LET n == chain[k].node
       IN  /\ n # 0 /\ ~nodes[n].isSuite
           /\ nodes' = Append(nodes, makeNode(n, FALSE, FALSE, FALSE, k < Len(chain)))
    /\ InSuite /\ UNCHANGED asserts
\* test() in a body joins the root list, which runAll has walked: `scheduled` is set.
LateTest ==
    /\ NodeAt("body") /\ Len(nodes) < MaxNodes
    /\ nodes' = Append(nodes, makeNode(0, FALSE, FALSE, FALSE, TRUE))
    /\ InSuite /\ UNCHANGED asserts
\* t.after() adds to the node's after hooks.
after ==
    /\ NodeAt("body") /\ Now.node \notin hookOf["after"] /\ Cardinality(Hooks) < MaxHooks
    /\ hookOf' = [hookOf EXCEPT !.after = @ \cup {Now.node}]
    /\ UNCHANGED <<nodes, suiteStack, progress, chain, counters, ghosts, exitCode, asserts>>

BodyReturns ==
    /\ NodeAt("body")
    /\ To("children", Children(Now.node, nodes))
    /\ Kept2 /\ UNCHANGED <<between, progress, counters, exitCode>>
BodyFails ==
    /\ NodeAt("body") /\ Reject
    /\ bodiesFailed' = bodiesFailed \cup {Now.node}
    /\ UNCHANGED <<nodes, suiteStack, hookOf, asserts, bodiesRun, between>>

\* runNode of the next child: a skipped test is only counted, a skipped suite runs.
runNode ==
    /\ NodeAt("children") /\ Now.left # <<>>
    /\ LET n == Head(Now.left)
           rest == [Now EXCEPT !.left = Tail(@)]
       IN  IF nodes[n].skipped /\ ~nodes[n].isSuite
           THEN /\ Goes(rest)
                /\ skipped' = skipped + 1 /\ verdicts' = Append(verdicts, <<n, "skip">>)
                /\ UNCHANGED <<failures, passes, between>>
           ELSE /\ chain' = Append(Back, rest) \o <<Start(n)>>
                /\ between' = IF nodes[n].isSuite \/ (Now.node # 0 /\ ~nodes[Now.node].isSuite)
                              THEN between ELSE <<>>
                /\ UNCHANGED counters
    /\ Kept2 /\ UNCHANGED <<progress, exitCode>>

\* The children are done: the plan is checked, the test counted.  A plan that was not met
\* is thrown where nothing of this node catches it.
checkPlan(n) == nodes[n].plan \in {-1, nodes[n].count + Len(Children(n, nodes))}

ChildrenDone ==
    /\ NodeAt("children") /\ Now.left = <<>>
    /\ IF IsTest /\ ~checkPlan(Now.node) THEN RejectUp
       ELSE /\ To("after", AfterHooks)
            /\ IF IsTest THEN /\ passes' = passes + 1
                              /\ verdicts' = Append(verdicts, <<Now.node, "ok">>)
                              /\ UNCHANGED <<failures, skipped>>
               ELSE UNCHANGED counters
            /\ UNCHANGED <<progress, exitCode>>
    /\ Kept2 /\ UNCHANGED between

\* The after hooks are done: on to the next node, or to the summary and the exit code.
Code == IF failures > 0 THEN 1 ELSE 0
NodeEnds ==
    /\ NodeAt("after") /\ Now.left = <<>>
    /\ IF Now.node # 0 THEN (chain' = Back /\ UNCHANGED <<progress, exitCode>>)
       ELSE progress' = "ended" /\ exitCode' = Code /\ UNCHANGED chain
    /\ Kept2 /\ UNCHANGED <<between, counters>>

\* A body or a hook never settles: the event loop has nothing left, the process ends.
NeverSettles ==
    /\ NodeAt("body") \/ ((NodeAt("before") \/ NodeAt("after")) /\ Now.left # <<>>)
    /\ progress' = "ended"
    /\ UNCHANGED <<nodes, suiteStack, hookOf, chain, counters, asserts, ghosts, exitCode>>

Registers ==
    \/ test(FALSE, FALSE) \/ test(TRUE, FALSE) \/ test(FALSE, TRUE)
    \/ describe(FALSE, FALSE) \/ describe(TRUE, FALSE) \/ describe(FALSE, TRUE)
    \/ EndDescribe \/ FileThrows \/ runAll
    \/ \E kind \in Kinds : addHook(kind)
Runs ==
    \/ HookReturns \/ HookFails \/ BodyStarts \/ BodyReturns \/ BodyFails
    \/ assert \/ \E n \in 0..2 : plan(n)
    \/ \E k \in DOMAIN chain : subtest(k)
    \/ LateTest \/ after \/ runNode \/ ChildrenDone \/ NodeEnds \/ NeverSettles
RunnerNext == Registers \/ Runs

-----------------------------------------------------------------------------

\* Exit code 0 after the summary means that every test that belongs to the run was
\* called and passed, or was skipped, once: neither a plan, a hook that failed, a suite
\* given up half way nor an only-mark lets one go missing behind a successful exit
\* (runAll: "a failed assertion inside a test has to reach it").  Tests registered from
\* a body into a list that was already walked are the exception, and a hazard.
Summary == progress = "ended" /\ chain # <<>> /\ Now.node = 0 /\ Now.step = "after" /\ Now.left = <<>>
ByMark(n) == \/ \A m \in DOMAIN nodes : ~nodes[m].only
             \/ \E m \in DOMAIN nodes :
                   nodes[m].only /\ (n \in Above(nodes, m) \/ m \in Above(nodes, n))
Belongs(n) == ~nodes[n].isSuite /\ ~nodes[n].late /\ ByMark(n)
SuccessIsComplete ==
    Summary /\ exitCode = 0 =>
        \A n \in DOMAIN nodes :
            LET said == SelectSeq(verdicts, LAMBDA v : v[1] = n)
                expected == IF nodes[n].skipped THEN <<<<n, "skip">>>> ELSE <<<<n, "ok">>>>
            IN  Belongs(n) => said = expected /\ n \notin bodiesFailed

\* A test in a file with marked tests is run only if it is marked or stands under or
\* leads to a mark, and no body runs twice.
OnlyTheMarked ==
    \A i \in DOMAIN bodiesRun :
        /\ ByMark(bodiesRun[i])
        /\ \A j \in DOMAIN bodiesRun : bodiesRun[i] = bodiesRun[j] => i = j

\* When a test that stands in the file or in suites starts, its beforeEach hooks - the
\* file's, then each suite's from the outside in - have run since the test before it.
Enclosing(n) == {0} \cup {m \in Above(nodes, n) \cap DOMAIN nodes : nodes[m].isSuite}
EnclosingHooksFirst ==
    NodeAt("body") /\ nodes[Now.node].parent \in Enclosing(Now.node) =>
        /\ {between[i] : i \in DOMAIN between} = Enclosing(Now.node) \cap hookOf["beforeEach"]
        /\ \A i, j \in DOMAIN between : i < j => between[i] < between[j]

\* "run them in order (awaiting async ones), and exit non-zero if any failed, because
\* the exit code is all the harness reads" (test.js:5-7).
FailedMeansNonZero == progress = "ended" /\ bodiesFailed # {} => exitCode = 1
-----------------------------------------------------------------------------
(* How the conformance sweeps score one case: scripts/test262-sweep.ts (runOne) and *)
(* scripts/quickjs-sweep.ts (the loop over the cases).  The text a process prints is *)
(* the set of the marks that the sweeps' patterns look for.                         *)

VARIABLES meta,         \* what the case declares
          happened,     \* what its program did
          style         \* how the engine reports an uncaught throw

scoreVars == <<meta, happened, style>>

Types == {"TypeError", "Test262Error"}
NoType == "none"

\* parseMeta and negativeType: the negative type and phase, the async flag; the
\* flags that skip a case in test262.
Metas == [neg : {NoType, "TypeError"}, phase : {"parse", "runtime"}, async : BOOLEAN,
          skip : BOOLEAN]

\* The program ran to its end, threw, could not be parsed, killed the engine or
\* hung; it may have printed an error's name or the async marker before.
Outcomes == [does : {"ends", "throws", "unparsed", "crashes", "hangs"}, type : Types,
             printed : SUBSET {"marker", "mention"}]
Styles == {"uncaught, exit 0", "uncaught, exit 1", "bare, exit 1"}

ScoreInit == meta \in Metas /\ happened \in Outcomes /\ style \in Styles

-----------------------------------------------------------------------------
(* What the sweep sees. *)

\* execFileSync throws with the signal, `killed` if it was its own timeout.
Seen(p, how) ==
    LET reports == p.does = "throws"
    IN  [signal |-> p.does \in {"crashes", "hangs"},
         killed |-> p.does = "hangs",
         status |-> IF p.does = "unparsed" \/ (reports /\ how # "uncaught, exit 0") THEN 1 ELSE 0,
         uncaught |-> IF reports /\ how # "bare, exit 1" THEN p.type ELSE NoType,
         bare |-> IF reports /\ how = "bare, exit 1" THEN p.type ELSE NoType,
         names |-> (IF reports THEN {p.type} ELSE {}) \cup
                   (IF "mention" \in p.printed THEN {"TypeError"} ELSE {}),
         marker |-> "marker" \in p.printed,
         diagnostic |-> p.does = "unparsed"]

\* test262: a crash or a timeout is a failure before anything else is looked at.
Threw262(s) == s.uncaught # NoType \/ s.status # 0 \/ s.bare # NoType
(* Mutant of Test262: the output is looked at before the signal. *)
Test262_OutputFirst(m, s) ==
    IF m.skip THEN "skip"
    ELSE IF m.neg # NoType THEN IF s.signal \/ Threw262(s) THEN "pass" ELSE "fail"
    ELSE IF s.signal \/ Threw262(s) THEN "fail" ELSE "pass"
Test262(m, s) ==
    IF m.skip THEN "skip"
    ELSE IF s.signal /\ ~s.killed THEN "crash"
    ELSE IF s.killed THEN "timeout"
    ELSE IF m.neg # NoType
         THEN IF Threw262(s) /\ (m.phase = "parse" \/ m.neg \in s.names) THEN "pass" ELSE "fail"
    ELSE IF m.async THEN IF s.marker THEN "pass" ELSE "fail"
    ELSE IF Threw262(s) THEN "fail" ELSE "pass"

\* quickjs: an exit status of 0 is judged by stdout, another by the line of the throw.
QuickJS(m, s) ==
    IF s.signal /\ ~s.killed THEN "crash"
    ELSE IF s.killed THEN "timeout"
    ELSE IF s.status = 0
         THEN IF IF m.neg # NoType THEN s.uncaught # NoType /\ m.neg \in s.names
                                   ELSE s.uncaught = NoType
              THEN "pass" ELSE "fail"
    ELSE IF m.neg # NoType /\ s.uncaught = m.neg THEN "pass"
    ELSE IF s.diagnostic /\ s.uncaught = NoType THEN "parse" ELSE "fail"

-----------------------------------------------------------------------------

Died == happened.does \in {"crashes", "hangs"}
Verdicts == {Test262(meta, Seen(happened, style)), QuickJS(meta, Seen(happened, style))}

\* An engine that dies or hangs scores no point, not even on a negative test whose
\* pass condition is to fail (test262-sweep.ts:244-251, quickjs-sweep.ts:188-199).
DyingScoresNothing == Died => "pass" \notin Verdicts

\* A point is given to a program that ended, or that failed as the case declares -
\* except for what the patterns cannot tell: an async case that printed its marker
\* and then threw, and a negative one whose expected name is only mentioned.
PointsEarned ==
    /\ (Test262(meta, Seen(happened, style)) = "pass" /\ "mention" \notin happened.printed
          /\ ~(meta.async /\ meta.neg = NoType)) =>
            happened.does = "ends" <=> meta.neg = NoType
    /\ (QuickJS(meta, Seen(happened, style)) = "pass" /\ "mention" \notin happened.printed
          /\ style # "bare, exit 1") =>
            IF meta.neg = NoType THEN happened.does = "ends"
            ELSE happened.does = "throws" /\ happened.type = meta.neg

\* The same program is scored alike whichever way its engine reports a throw
\* (test262-sweep.ts:256-262).
EnginesScoredAlike ==
    \A other \in Styles :
        Test262(meta, Seen(happened, other)) = Test262(meta, Seen(happened, style))
=============================================================================
