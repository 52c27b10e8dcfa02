-------------------------------- MODULE Sweep --------------------------------
(* The conformance sweep over Node's own tests (scripts/node-compat-sweep.ts):   *)
(* a pool of workers starts one process group per case; a timer, a sampler of    *)
(* group sizes and the process's own end race to settle the case; a second pass  *)
(* runs again what timed out.  A case may hang, ignore SIGTERM, fork, and leave   *)
(* children that hold its pipes or have left its group.                          *)
EXTENDS Integers, Sequences, FiniteSets

CONSTANTS Cases,        \* the cases selected are 1..Cases
          Jobs          \* workers

ASSUME SweepAssumption == Cases \in Nat /\ Jobs \in Nat \ {0}

VARIABLES round,        \* "first", "confirm" or "report"
          list,         \* the cases of this pass
          nextIndex,    \* next, nextConfirm
          slots,        \* index in the list -> the run of that case
          runningPgid,  \* the indices the sampler watches
          rows,         \* case -> its row
          confirmed     \* case -> its verdict in the second pass

sweepVars == <<round, list, nextIndex, slots, runningPgid, rows, confirmed>>

Selected == 1..Cases
None == "none"

\* What a case's process starts: in its group with pipes of its own, in its group
\* holding the case's pipes, or out of the group holding them.
Kinds == {"quiet", "holds", "escaped"}
InGroup(kids) == kids \cap {"quiet", "holds"}
Holding(kids) == kids \cap {"holds", "escaped"}
Alive(s) == s.main = "alive" \/ InGroup(s.kids) # {}

Idle == [state |-> "idle", main |-> "none", exit |-> None, kids |-> {}, timedOut |-> FALSE,
         kill |-> FALSE]
NoRuns == [i \in Selected |-> Idle]
At(i) == list[i]
RunningSlots == {i \in DOMAIN slots : slots[i].state = "running"}

SweepInit ==
    /\ round = "first"
    /\ list = [i \in Selected |-> i]
    /\ nextIndex = 1
    /\ slots = NoRuns
    /\ runningPgid = {}
    /\ rows = [c \in Selected |-> [verdict |-> None, exit |-> None]]
    /\ confirmed = [c \in Selected |-> None]

\* A worker whose case has settled takes the next index: runOne.
runOne ==
    /\ round # "report" /\ nextIndex <= Len(list) /\ Cardinality(RunningSlots) < Jobs
    /\ nextIndex' = nextIndex + 1
    /\ \/ /\ slots' = [slots EXCEPT ![nextIndex].state = "running", ![nextIndex].main = "alive"]
          /\ runningPgid' = runningPgid \cup {nextIndex}
       \/ /\ slots' = [slots EXCEPT ![nextIndex].state = "running"]
          /\ UNCHANGED runningPgid
    /\ UNCHANGED <<round, list, rows, confirmed>>

(* Mutant of Killed: the signal goes to the process and not to its group. *)
Killed_MainOnly(s) ==
    [s EXCEPT !.main = IF @ = "alive" THEN "ended" ELSE @,
              !.exit = IF s.main = "alive" THEN "killed" ELSE @]

\* killGroup("SIGKILL"): only what left the group survives.
Killed(s) ==
    [s EXCEPT !.main = IF @ = "alive" THEN "ended" ELSE @,
              !.exit = IF s.main = "alive" THEN "killed" ELSE @,
              !.kids = @ \ InGroup(@)]

\* finish(row): the first call counts; the timer goes, the group is killed.  What
\* had left the group is not followed any further.
Filed(s) == [s EXCEPT !.state = "settled", !.exit = None, !.timedOut = FALSE,
                        !.kids = InGroup(@)]
finish(i, v) ==
    /\ slots' = [slots EXCEPT ![i] = Filed(Killed(@))]
    /\ runningPgid' = runningPgid \ {i}
    /\ IF round = "first"
       THEN /\ rows' = [rows EXCEPT ![At(i)] = [verdict |-> v, exit |-> slots[i].exit]]
            /\ UNCHANGED confirmed
       ELSE confirmed' = [confirmed EXCEPT ![At(i)] = v] /\ UNCHANGED rows
    /\ UNCHANGED <<round, list, nextIndex>>

\* The process could not be started.
SpawnError(i) ==
    /\ slots[i].state = "running" /\ slots[i].main = "none"
    /\ finish(i, "error")

\* The case's limit: SIGTERM now, which any process may ignore, SIGKILL later.
Terminated(s, ended, dies) ==
    [s EXCEPT !.timedOut = TRUE, !.kill = TRUE, !.kids = @ \ ended,
              !.main = IF dies THEN "ended" ELSE @,
              !.exit = IF dies /\ s.main = "alive" THEN "killed" ELSE @]
TimerFires(i) ==
    /\ slots[i].state = "running" /\ slots[i].main # "none" /\ ~slots[i].timedOut
    /\ \E ended \in SUBSET InGroup(slots[i].kids), dies \in BOOLEAN :
          slots' = [slots EXCEPT ![i] = Terminated(@, ended, dies)]
    /\ UNCHANGED <<round, list, nextIndex, runningPgid, rows, confirmed>>

KillTimerFires(i) ==
    /\ slots[i].kill
    /\ slots' = [slots EXCEPT ![i] = [Killed(@) EXCEPT !.kill = FALSE]]
    /\ UNCHANGED <<round, list, nextIndex, runningPgid, rows, confirmed>>

\* widthSampler: a watched group that is too wide or too heavy is killed and the
\* case filed for it, whatever its timer has done.
widthSampler(i) ==
    /\ i \in runningPgid /\ Alive(slots[i])
    /\ \/ InGroup(slots[i].kids) # {} /\ finish(i, "forkbomb")
       \/ finish(i, "memory")

\* 'close': the process has ended and nobody holds its pipes any more.
CloseVerdict(s) == IF s.timedOut THEN "timeout" ELSE s.exit
Closed(i) ==
    /\ slots[i].state = "running" /\ slots[i].main = "ended" /\ Holding(slots[i].kids) = {}
    /\ finish(i, CloseVerdict(slots[i]))

\* What the case's own processes do: end in some way, and fork.
CaseSteps(i) ==
    /\ \/ /\ slots[i].main = "alive"
          /\ \/ \E how \in {"pass", "skip", "fail", "crash"} :
                   slots' = [slots EXCEPT ![i].main = "ended", ![i].exit = how]
             \/ \E k \in Kinds \ slots[i].kids :
                   slots' = [slots EXCEPT ![i].kids = @ \cup {k}]
       \/ \E k \in slots[i].kids : slots' = [slots EXCEPT ![i].kids = @ \ {k}]
    /\ UNCHANGED <<round, list, nextIndex, runningPgid, rows, confirmed>>

\* Promise.all over the workers: the confirm pass over the cases that timed out, or
\* the report.
PassOver == nextIndex > Len(list) /\ RunningSlots = {}
Late == {c \in Selected : rows[c].verdict = "timeout"}
TimedOut == CHOOSE l \in [1..Cardinality(Late) -> Late] : \A i, j \in DOMAIN l : i < j => l[i] < l[j]
Confirms ==
    /\ round = "first" /\ PassOver /\ TimedOut # <<>>
    /\ round' = "confirm"
    /\ list' = TimedOut
    /\ nextIndex' = 1
    /\ slots' = NoRuns
    /\ UNCHANGED <<runningPgid, rows, confirmed>>
Reported ==
    /\ PassOver /\ (round = "confirm" \/ (round = "first" /\ TimedOut = <<>>))
    /\ round' = "report"
    /\ UNCHANGED <<list, nextIndex, slots, runningPgid, rows, confirmed>>

SweepNext == \/ runOne \/ Confirms \/ Reported
             \/ \E i \in Selected : \/ SpawnError(i) \/ TimerFires(i) \/ KillTimerFires(i)
                                    \/ widthSampler(i) \/ Closed(i) \/ CaseSteps(i)

\* Timers fire, workers and streams go on; a case may hang for ever, but what left
\* its group ends some day.
SweepFairness ==
    /\ WF_sweepVars(runOne) /\ WF_sweepVars(Confirms) /\ WF_sweepVars(Reported)
    /\ \A i \in Selected :
          /\ WF_sweepVars(SpawnError(i)) /\ WF_sweepVars(TimerFires(i))
          /\ WF_sweepVars(KillTimerFires(i)) /\ WF_sweepVars(Closed(i))
          /\ WF_sweepVars(slots[i].main = "ended" /\ slots[i].kids = {"escaped"} /\ CaseSteps(i))

-----------------------------------------------------------------------------

\* No more than `jobs` process groups live at once, since a case is settled only
\* with its group dead: jobs * MAX_GROUP is the ceiling of processes (lines 124-129).
GroupsBounded == Cardinality({i \in Selected : Alive(slots[i])}) <= Jobs

\* Every case has one row, and it is scored as passed or skipped only if its process
\* said so and ended by itself before its limit.
RowsTrue ==
    /\ round # "first" => \A c \in Selected : rows[c].verdict # None
    /\ \A c \in Selected : rows[c].verdict \in {"pass", "skip", "fail", "crash"} =>
                              rows[c].exit = rows[c].verdict

\* What is confirmed is what timed out, so the hangs are among the timeouts; a case
\* the sampler killed is neither.
HangsTimedOut ==
    round = "report" => \A c \in Selected : confirmed[c] # None <=> rows[c].verdict = "timeout"

\* The sweep ends, although cases hang, ignore SIGTERM and leave children that hold
\* their pipes.
SweepEnds == <>(round = "report")
=============================================================================
