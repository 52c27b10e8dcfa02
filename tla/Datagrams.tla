----------------------------- MODULE Datagrams -----------------------------
(***************************************************************************)
(* lib/dgram.js: UDP sockets over the operating system's, which the event  *)
(* loop polls through one object (pumpAll) while any socket is pending.    *)
(* A message handler runs inside the poll and may bind, send and close.    *)
(***************************************************************************)
EXTENDS Integers, Sequences, FiniteSets

CONSTANTS Socks,        \* socket objects
          MaxSent       \* datagrams in all

ASSUME DatagramsAssumption == IsFiniteSet(Socks) /\ MaxSent \in Nat

VARIABLES fd,           \* socket -> its _fd: 0 (none) or a number
          bound, sockClosed,   \* its _bound and _closed
          fds,          \* descriptors open in the operating system
          opened,       \* descriptors opened so far
          pendingSocks, \* the list pumpAll polls
          polled,       \* pumpAll is registered with the loop
          at,           \* the poll in progress is at this index, or 0
          wire,         \* descriptor -> datagrams waiting in the kernel
          sent,         \* datagrams sent
          got,          \* socket -> the datagrams its 'message' carried
          late          \* a 'message' was emitted on a closed socket

dgramVars == <<fd, bound, sockClosed, fds, opened, pendingSocks, polled, at, wire, sent, got, late>>

MaxFd == 2 * Cardinality(Socks)

DgramInit ==
    /\ fd = [s \in Socks |-> 0]
    /\ bound = [s \in Socks |-> FALSE]
    /\ sockClosed = [s \in Socks |-> FALSE]
    /\ fds = {} /\ opened = 0
    /\ pendingSocks = <<>> /\ polled = FALSE /\ at = 0
    /\ wire = [f \in 1..MaxFd |-> <<>>]
    /\ sent = 0
    /\ got = [s \in Socks |-> <<>>]
    /\ late = FALSE

\* register: pumpAll is handed to the loop when the list was empty.
register(s) ==
    /\ pendingSocks' = Append(pendingSocks, s)
    /\ polled' = (polled \/ pendingSocks = <<>>)

\* bind: a descriptor of the operating system's, or an error event later.
Bound(s) ==
    /\ ~bound[s] /\ opened < MaxFd
    /\ opened' = opened + 1
    /\ fds' = fds \cup {opened'}
    /\ fd' = [fd EXCEPT ![s] = opened']
    /\ bound' = [bound EXCEPT ![s] = TRUE]
    /\ register(s)
bind(s) ==
    /\ Bound(s)
    /\ UNCHANGED <<sockClosed, at, wire, sent, got, late>>

\* send: a socket that is not bound is bound first, as the send's own step.
\* Datagrams to another socket wait in the kernel, and may be lost.
Carry(s, t) ==
    /\ sent < MaxSent /\ fd[s] # 0 /\ fd[t] # 0
    /\ sent' = sent + 1
    /\ \/ wire' = [wire EXCEPT ![fd[t]] = Append(@, sent')]
       \/ wire' = wire
send(s, t) ==
    /\ bound[s] /\ Carry(s, t)
    /\ UNCHANGED <<fd, bound, sockClosed, fds, opened, pendingSocks, polled, at, got, late>>
sendBinds(s) ==
    /\ sent < MaxSent /\ Bound(s)
    /\ sent' = sent + 1
    /\ UNCHANGED <<sockClosed, at, wire, got, late>>

closeSocket(s) ==
    /\ ~sockClosed[s]
    /\ sockClosed' = [sockClosed EXCEPT ![s] = TRUE]
    /\ fds' = fds \ {fd[s]}
    /\ fd' = [fd EXCEPT ![s] = 0]
    /\ UNCHANGED <<bound, opened, pendingSocks, polled, at, wire, sent, got, late>>

\* The loop calls pumpAll._serveOnce, which goes through the list from its end.
poll ==
    /\ polled /\ at = 0 /\ pendingSocks # <<>>
    /\ at' = Len(pendingSocks)
    /\ UNCHANGED <<fd, bound, sockClosed, fds, opened, pendingSocks, polled, wire, sent, got, late>>

RemoveAt(l, i) == SubSeq(l, 1, i - 1) \o SubSeq(l, i + 1, Len(l))

Gone(s) == sockClosed[s] \/ fd[s] = 0

\* After the last socket: an empty list is unregistered.
Leaves(l) == polled' = IF at' = 0 /\ l = <<>> THEN FALSE ELSE polled

\* One socket: a closed one is dropped, one with nothing waiting is passed over,
\* and one with a datagram emits 'message'.
pollOne ==
    /\ at > 0
    /\ at' = at - 1
    /\ LET s == pendingSocks[at]
       IN  IF Gone(s)
           THEN /\ pendingSocks' = RemoveAt(pendingSocks, at)
                /\ UNCHANGED <<wire, got, late>>
           ELSE /\ UNCHANGED pendingSocks
                /\ IF wire[fd[s]] = <<>> THEN UNCHANGED <<wire, got, late>>
                   ELSE /\ wire' = [wire EXCEPT ![fd[s]] = Tail(@)]
                        /\ got' = [got EXCEPT ![s] = Append(@, Head(wire[fd[s]]))]
                        /\ late' = (late \/ sockClosed[s])
    /\ Leaves(pendingSocks')
    /\ UNCHANGED <<fd, bound, sockClosed, fds, opened, sent>>

DgramNext == \/ \E s \in Socks : bind(s) \/ closeSocket(s) \/ sendBinds(s)
             \/ \E s, t \in Socks : send(s, t)
             \/ poll \/ pollOne

DgramFairness == WF_dgramVars(poll) /\ WF_dgramVars(pollOne)

-----------------------------------------------------------------------------

\* Every socket that is open is polled: it is in the list, once, and the list is
\* registered with the loop, whatever handlers did during the poll in progress.
OpenArePolled ==
    /\ \A s \in Socks : fd[s] # 0 /\ ~sockClosed[s] =>
          Cardinality({k \in DOMAIN pendingSocks : pendingSocks[k] = s}) = 1
    /\ pendingSocks # <<>> => polled

\* The loop has nothing to poll when no socket is pending: an idle registration
\* would keep the process alive.
IdleUnregisters == at = 0 => (polled = (pendingSocks # <<>>))

\* Datagrams arrive in the order of the wire, none twice, none after close().
MessagesInOrder ==
    /\ ~late
    /\ \A s \in Socks : \A i, j \in DOMAIN got[s] : i < j => got[s][i] < got[s][j]

\* A datagram that reached the kernel is delivered unless the socket is closed.
DatagramsDelivered == \A s \in Socks :
    (fd[s] # 0 /\ ~sockClosed[s] /\ wire[fd[s]] # <<>>) ~> (fd[s] = 0 \/ sockClosed[s] \/ wire[fd[s]] = <<>>)
=============================================================================
