------------------------------ MODULE Children -----------------------------
(***************************************************************************)
(* lib/child_process.js and lib/cluster.js.  A spawned child is an         *)
(* operating-system process; a worker thread waits for it and settles a    *)
(* promise, and a job then emits the child's events.  Between the death of *)
(* the process and that job the program may still call kill().             *)
(***************************************************************************)
EXTENDS Integers, Sequences, FiniteSets

CONSTANTS MaxProcesses,   \* processes in all, the first one included
          MaxDepth,       \* MILOJS_SPAWN_MAX_DEPTH
          MaxSpawns       \* MILOJS_SPAWN_MAX

ASSUME ChildrenAssumption == MaxProcesses \in Nat \ {0} /\ MaxDepth \in Nat /\ MaxSpawns \in Nat

Procs == 1..MaxProcesses

VARIABLES started,        \* processes started so far
          depth,          \* process -> the depth its environment says
          parent,         \* process -> who started it
          spawnCount,     \* process -> its counter
          os,             \* process -> "unborn", "running", "exited", "killed", "failed"
          told,           \* process -> its promise has been settled by the worker
          signalCode,     \* child object -> whether it names a signal
          events,         \* child object -> the events emitted, in order
          killed,         \* how kill() was called on it: "no", "named" or, once, "numbered"
          workers,        \* cluster: the ids in its table
          wstate,         \* worker -> "none", "online", "dead", "disconnected"
          clusterExits    \* the workers cluster 'exit' was emitted for

childVars == <<started, depth, parent, spawnCount, os, told, signalCode, events, killed,
               workers, wstate, clusterExits>>

ChildInit ==
    /\ started = 1
    /\ depth = [p \in Procs |-> 0]
    /\ parent = [p \in Procs |-> 0]
    /\ spawnCount = [p \in Procs |-> 0]
    /\ os = [p \in Procs |-> IF p = 1 THEN "running" ELSE "unborn"]
    /\ told = [p \in Procs |-> FALSE]
    /\ signalCode = [p \in Procs |-> FALSE]
    /\ events = [p \in Procs |-> <<>>]
    /\ killed = [p \in Procs |-> "no"]
    /\ workers = {}
    /\ wstate = [p \in Procs |-> "none"]
    /\ clusterExits = <<>>

\* checkSpawnBudget: refused below the depth, or past the count (which still
\* counts the refusal).
RefusedByDepth(p) == depth[p] >= MaxDepth \/ spawnCount[p] + 1 > MaxSpawns

\* envPairs: the child's environment carries the depth, one more than ours.
ChildDepth(p) == depth[p] + 1

Spawned(p, c) ==
    /\ os[p] = "running" /\ started < MaxProcesses /\ ~RefusedByDepth(p)
    /\ c = started + 1
    /\ started' = c
    /\ spawnCount' = [spawnCount EXCEPT ![p] = @ + 1]
    /\ depth' = [depth EXCEPT ![c] = ChildDepth(p)]
    /\ parent' = [parent EXCEPT ![c] = p]
    /\ \E up \in {"running", "failed"} : os' = [os EXCEPT ![c] = up]

\* spawn, exec, execFile and fork.
spawn(p, c) ==
    /\ Spawned(p, c)
    /\ UNCHANGED <<told, signalCode, events, killed, workers, wstate, clusterExits>>

\* cluster.fork: the primary only; a worker is entered in the table.
fork(c) ==
    /\ Spawned(1, c)
    /\ workers' = workers \cup {c}
    /\ wstate' = [wstate EXCEPT ![c] = "online"]
    /\ UNCHANGED <<told, signalCode, events, killed, clusterExits>>

\* A process ends by itself, or its worker thread reports what it waited for.
Exits(c) ==
    /\ c # 1 /\ os[c] = "running"
    /\ os' = [os EXCEPT ![c] = "exited"]
    /\ UNCHANGED <<started, depth, parent, spawnCount, told, signalCode, events, killed,
                   workers, wstate, clusterExits>>

\* Mutant of Reports: the worker thread waits for a normal end only.
Reports_Normal(c) ==
    /\ os[c] \in {"exited", "failed"} /\ ~told[c]
    /\ told' = [told EXCEPT ![c] = TRUE]
    /\ UNCHANGED <<started, depth, parent, spawnCount, os, signalCode, events, killed,
                   workers, wstate, clusterExits>>

Reports(c) ==
    /\ os[c] \in {"exited", "killed", "failed"} /\ ~told[c]
    /\ told' = [told EXCEPT ![c] = TRUE]
    /\ UNCHANGED <<started, depth, parent, spawnCount, os, signalCode, events, killed,
                   workers, wstate, clusterExits>>

\* kill(): the signal goes to the pid, whether or not the process is still there, and
\* the object says it was ended by it if the signal was given by name.  A child that
\* never started has no pid.  A child may handle the signal, or ignore it, and go on
\* running; signal 0 only asks whether it is there.
Kill(c) ==
    /\ os[c] # "unborn" /\ c # 1
    /\ \E named \in BOOLEAN :
          /\ killed' = [killed EXCEPT ![c] = IF named /\ @ # "numbered" THEN "named" ELSE "numbered"]
          /\ signalCode' = IF os[c] = "failed" THEN signalCode ELSE [signalCode EXCEPT ![c] = named]
    /\ \E fatal \in BOOLEAN :
          os' = IF fatal /\ os[c] = "running" THEN [os EXCEPT ![c] = "killed"] ELSE os
kill(c) ==
    /\ Kill(c)
    /\ UNCHANGED <<started, depth, parent, spawnCount, told, events, workers, wstate, clusterExits>>
destroy(c) ==
    /\ c \in workers /\ Kill(c)
    /\ wstate' = [wstate EXCEPT ![c] = "dead"]
    /\ UNCHANGED <<started, depth, parent, spawnCount, told, events, workers, clusterExits>>
disconnect(c) ==
    /\ c \in workers /\ wstate[c] = "online"
    /\ wstate' = [wstate EXCEPT ![c] = "disconnected"]
    /\ UNCHANGED <<started, depth, parent, spawnCount, os, told, signalCode, events, killed,
                   workers, clusterExits>>

\* The job behind the promise: an error event alone, or the output, then 'exit',
\* then 'close'; the exit is a signal's if kill() was called before this job.
Story(c) == IF os[c] = "failed" THEN <<"error">>
            ELSE <<"data", "end", IF signalCode[c] THEN "exitSignal" ELSE "exitCode", "close">>
Exited(c) == os[c] # "failed"
Worker(c) ==
    /\ workers' = workers \ {c}
    /\ wstate' = [wstate EXCEPT ![c] = "dead"]
    /\ clusterExits' = Append(clusterExits, c)
ChildSettled(c) ==
    /\ told[c] /\ events[c] = <<>>
    /\ events' = [events EXCEPT ![c] = Story(c)]
    /\ IF wstate[c] # "none" /\ Exited(c) THEN Worker(c) ELSE UNCHANGED <<workers, wstate, clusterExits>>
    /\ UNCHANGED <<started, depth, parent, spawnCount, os, told, signalCode, killed>>

ChildNext ==
    \E c \in Procs : \/ \E p \in Procs : spawn(p, c)
                     \/ fork(c) \/ Exits(c) \/ Reports(c) \/ kill(c) \/ destroy(c)
                     \/ disconnect(c) \/ ChildSettled(c)

\* The worker thread waits for the process and the loop runs its jobs.
ChildFairness == \A c \in Procs : WF_childVars(Reports(c)) /\ WF_childVars(ChildSettled(c))

-----------------------------------------------------------------------------

\* A script that starts itself again and again is stopped while it is linear: no
\* process is deeper than the cap, however generations interleave, so a chain of
\* parents is at most that long (child_process.js:10-30).  Of children started with
\* spawn, exec, execFile and fork: run(), behind spawnSync, passes the depth on by
\* writing process.env, and says itself that this may not reach the child.
Chain[p \in 1..started] == IF p = 1 THEN 0 ELSE 1 + Chain[parent[p]]
ForkBombStops == \A p \in 1..started : Chain[p] <= MaxDepth

\* A process starts at most MaxSpawns children.
SpawnsCounted == \A p \in Procs : Cardinality({c \in 1..started : parent[c] = p}) <= MaxSpawns

\* A child tells one story: it never started, or it ended; and one that a signal
\* ended, given by name, says so.  (A signal given by number is told as an exit code;
\* an end of its own after a kill() it survived, or before one the job has not seen
\* yet, as a signal.)
OneStory ==
    \A c \in 2..MaxProcesses : events[c] # <<>> =>
        /\ ("error" \in {events[c][k] : k \in DOMAIN events[c]}) = (os[c] = "failed")
        /\ os[c] = "failed" => Len(events[c]) = 1
        /\ os[c] = "killed" /\ killed[c] = "named" => events[c][3] = "exitSignal"

\* The table of workers, the cluster's 'exit' events and the processes agree: a
\* worker leaves the table exactly when its exit is announced, once.  (One whose
\* process never started stays in the table: it only reports 'error'.)
WorkersAgree ==
    /\ \A c \in workers : events[c] = <<>> \/ os[c] = "failed"
    /\ \A i, j \in DOMAIN clusterExits : clusterExits[i] = clusterExits[j] => i = j
    /\ \A c \in Procs : wstate[c] # "none" => (c \in workers) = (c \notin {clusterExits[k] : k \in DOMAIN clusterExits})

\* Every child that ended is heard of.
ChildrenReport == \A c \in Procs :
    os[c] \in {"exited", "killed", "failed"} ~> events[c] # <<>>
=============================================================================
