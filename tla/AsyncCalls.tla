----------------------------- MODULE AsyncCalls -----------------------------
(***************************************************************************)
(* What async functions promise the program (docs/milojs-async-suspension: *)
(* the caller goes on at the callee's first await or end; an await goes on *)
(* when its promise has settled; a promise settles once).  Nothing here    *)
(* knows of tasks, registries or saved contexts: AsyncSuspension is shown  *)
(* to implement this.                                                      *)
(***************************************************************************)
CONSTANTS Main, Calls, Ext, None

Runs == Calls \cup {Main}
Promises == Calls \cup Ext
Final == {"fulfilled", "rejected"}

VARIABLES
  phase,   \* each call: none, running, waiting, over
  waits,   \* the promise an await stands at
  blocked, \* the call a caller has made and not got back from
  promise  \* each promise, that of a call under the name of the call

view == <<phase, waits, blocked, promise>>

AbstractInit ==
  /\ phase = [a \in Calls |-> "none"]
  /\ waits = [a \in Calls |-> None]
  /\ blocked = [t \in Runs |-> None]
  /\ promise = [p \in Promises |-> "none"]

\* t executes code of the program.
Active(t) == blocked[t] = None /\ (t \in Calls => phase[t] = "running")
LetGo(a) == [t \in Runs |-> IF blocked[t] = a THEN None ELSE blocked[t]]

\* A call: the caller waits for the callee.
Enter(t, a) ==
  /\ Active(t) /\ phase[a] = "none"
  /\ phase' = [phase EXCEPT ![a] = "running"]
  /\ blocked' = [blocked EXCEPT ![t] = a]
  /\ promise' = [promise EXCEPT ![a] = "pending"]
  /\ UNCHANGED waits

\* An await of a pending promise gives the caller its turn back.
Wait(a, p) ==
  /\ a \in Calls /\ Active(a) /\ promise[p] = "pending"
  /\ phase' = [phase EXCEPT ![a] = "waiting"]
  /\ waits' = [waits EXCEPT ![a] = p]
  /\ blocked' = LetGo(a)
  /\ UNCHANGED promise

\* It goes on when the promise has settled, not before.
GoOn(a) ==
  /\ phase[a] = "waiting" /\ promise[waits[a]] \in Final
  /\ phase' = [phase EXCEPT ![a] = "running"]
  /\ waits' = [waits EXCEPT ![a] = None]
  /\ UNCHANGED <<blocked, promise>>

\* The end of a call settles its promise, now or (`s` = "pending") later.
Leave(a, s) ==
  /\ a \in Calls /\ Active(a)
  /\ phase' = [phase EXCEPT ![a] = "over"]
  /\ blocked' = LetGo(a)
  /\ promise' = [promise EXCEPT ![a] = s]
  /\ UNCHANGED waits

Create(e) ==
  /\ promise[e] = "none"
  /\ promise' = [promise EXCEPT ![e] = "pending"]
  /\ UNCHANGED <<phase, waits, blocked>>

\* A promise settles once; that of a call, when the call is over.
Decide(p, s) ==
  /\ promise[p] = "pending" /\ (p \in Calls => phase[p] = "over")
  /\ promise' = [promise EXCEPT ![p] = s]
  /\ UNCHANGED <<phase, waits, blocked>>

AbstractNext ==
  \/ \E t \in Runs, a \in Calls : Enter(t, a)
  \/ \E a \in Calls, p \in Promises : Wait(a, p)
  \/ \E a \in Calls : GoOn(a)
  \/ \E a \in Calls, s \in Final \cup {"pending"} : Leave(a, s)
  \/ \E e \in Ext : Create(e)
  \/ \E p \in Promises, s \in Final : Decide(p, s)

AbstractSpec == AbstractInit /\ [][AbstractNext]_view
=============================================================================
