------------------------------ MODULE Sockets ------------------------------
(* TCP sockets and servers of the Node library (src/lib/net.js): connect,      *)
(* write, end, destroy, pause and resume, the idle timeout, and the two objects *)
(* through which the event loop accepts connections and reads sockets.         *)
(*                                                                             *)
(* `stack` holds the calls in progress, innermost first; each step executes    *)
(* the innermost up to the next call it makes.  `timers` are the zero-delay    *)
(* timeouts; they are always due, so they fire before the loop serves sockets. *)
(* Both ends of a connection are in the model: a client and the accepted       *)
(* socket that is its peer.  Between them the operating system keeps a queue   *)
(* of bytes, from which a read takes any non-empty prefix.                     *)
EXTENDS Integers, Sequences, FiniteSets, SequencesExt

CONSTANTS
  Clients, Accepted, \* names of the sockets that connect, and of those accepted
  Peer,              \* the socket at the other end
  Programs           \* what the program uses and does, and how often

Socks == Clients \cup Accepted
SocketOps == { "connect", "write", "end", "destroy", "pause", "resume", "setTimeout", "close" }
ServerKinds == {"net", "http", "none"}

ASSUME SocketsAssumption ==
  /\ Clients \cap Accepted = {}
  /\ Peer \in [Socks -> Socks] /\ \A s \in Socks : Peer[Peer[s]] = s /\ (s \in Clients) # (Peer[s] \in Clients)
  /\ \A p \in Programs : p.max \in Nat /\ p.units \in Nat /\ p.server \in ServerKinds /\ p.uses \in [Socks -> STRING]

VARIABLES
  program,    \* the program
  sock,       \* each socket: _connId's connection, flags, queues, and the bytes under way to it
  server,     \* the server: listening, connections to accept, _sockets
  pending,    \* the client sockets to read, in order
  registered, \* httpServers: what the loop asks to _serveOnce, in order
  timers, stack,
  happened,   \* history: each socket's events other than 'data'
  written,    \* history: bytes the program made
  calls       \* history: operations started

socketVars == << program, sock, server, pending, registered, timers, stack, happened, written, calls >>

None == "none"
NewSocket == [conn |-> None, destroyed |-> FALSE, ended |-> FALSE, readEnded |-> FALSE, paused |-> FALSE,
              queued |-> <<>>, pendingEnd |-> FALSE, timeout |-> FALSE, idle |-> FALSE, half |-> FALSE,
              wire |-> <<>>, fin |-> FALSE, made |-> FALSE, late |-> FALSE,
              sent |-> <<>>, got |-> <<>>]

SocketsInit ==
  /\ program \in Programs
  /\ sock = [s \in Socks |-> NewSocket]
  /\ server = [listening |-> program.server # "none", backlog |-> <<>>, sockets |-> <<>>]
  /\ pending = <<>>
  /\ registered = IF program.server # "none" THEN << "server" >> ELSE <<>>
  /\ timers = <<>> /\ stack = <<>>
  /\ happened = [s \in Socks |-> <<>>]
  /\ written = 0 /\ calls = 0
-----------------------------------------------------------------------------
Call(op, s, x) == [op |-> op, s |-> s, x |-> x]
User == Call("user", None, None)
Listener(s, ev, x) == [op |-> "listener", s |-> s, x |-> x, ev |-> ev]

Top(op) == stack # <<>> /\ Head(stack).op = op
S == Head(stack).s
X == Head(stack).x
Then(frames) == stack' = frames \o Tail(stack)
Arm(new) == timers' = timers \o new
Happens(s, ev) == happened' = [happened EXCEPT ![s] = Append(@, ev)]
ProgramRuns == stack = <<>> \/ Top("user")
Starts(op) == op \in program.ops /\ ProgramRuns /\ calls < program.max /\ calls' = calls + 1

Same == << program, written, calls >>
-----------------------------------------------------------------------------
(* The operating system: __tcpSend, __tcpClose.                                *)

\* Bytes for a connection the peer closed are dropped.
TcpSend(sk, s, data) ==
  IF sk[s].conn = "open" /\ sk[Peer[s]].conn # "closed"
  THEN [sk EXCEPT ![Peer[s]].wire = @ \o data, ![s].sent = @ \o data] ELSE sk

\* Closing with unread bytes resets the connection: the peer may lose what is under way
\* to it.  A reset reads as an end, like a clean close.
TcpCloses(sk, s) ==
  IF sk[s].conn # "open" THEN { sk }
  ELSE { [sk EXCEPT ![s].conn = "closed", ![Peer[s]].fin = TRUE,
                    ![Peer[s]].wire = IF lost THEN <<>> ELSE @]
         : lost \in IF sk[s].wire = <<>> THEN {FALSE} ELSE BOOLEAN }

\* _armTimeout: start the idle timer again.
ArmTimeout(sk, s) == [sk EXCEPT ![s].idle = sk[s].timeout /\ ~sk[s].destroyed]
-----------------------------------------------------------------------------
(* Sockets.                                                                    *)

\* connect(): the attempt is made by a tick.
Connect(c) ==
  /\ sock' = [sock EXCEPT ![c].made = TRUE]
  /\ Arm(<< Call("connecting", c, None) >>)

\* The tick: refused, or connected at once.  Whether the socket was destroyed
\* meanwhile is not asked.
Connecting ==
  /\ Top("connecting")
  /\ \/ /\ program.server = "none"
        /\ Then(<< Call("destroy", S, "err") >>)
        /\ UNCHANGED << sock, server, happened >>
     \/ /\ program.server # "none"
        /\ sock' = [sock EXCEPT ![S].conn = "open", ![S].late = sock[S].destroyed]
        /\ server' = [server EXCEPT !.backlog = Append(@, Peer[S])]
        /\ Happens(S, "connect")
        /\ Then(<< Listener(S, "connect", None), Call("register", S, None) >>)
  /\ UNCHANGED << Same, pending, registered, timers >>

\* Mutant: every socket registers the list again.
Register_Always ==
  /\ Top("register")
  /\ pending' = Append(pending, S)
  /\ registered' = Append(registered, "pump")
  /\ Then(<<>>)
  /\ UNCHANGED << Same, sock, server, timers, happened >>

\* __netRegisterSocket.
Register ==
  /\ Top("register")
  /\ pending' = Append(pending, S)
  /\ registered' = IF pending = <<>> THEN Append(registered, "pump") ELSE registered
  /\ Then(<<>>)
  /\ UNCHANGED << Same, sock, server, timers, happened >>

\* write(): nothing on a socket that is not connected or is destroyed.
Write(sk, s, data) ==
  IF sk[s].conn = None \/ sk[s].destroyed THEN sk ELSE ArmTimeout(TcpSend(sk, s, data), s)

\* end(): 'finish' and destroy() on a tick, once.
End(s) ==
  /\ sock' = [sock EXCEPT ![s].ended = TRUE]
  /\ Arm(IF sock[s].ended THEN <<>> ELSE << Call("finish", s, None) >>)

Finish ==
  /\ Top("finish")
  /\ Happens(S, "finish")
  /\ Then(<< Listener(S, "finish", None), Call("destroy", S, None) >>)
  /\ UNCHANGED << Same, sock, server, pending, registered, timers >>

Destroy ==
  /\ Top("destroy")
  /\ IF sock[S].destroyed THEN UNCHANGED << sock, timers >>
     ELSE /\ \E sk \in TcpCloses(sock, S) :
               sock' = [sk EXCEPT ![S].destroyed = TRUE, ![S].idle = FALSE]
          /\ Arm(<< Call("closed", S, X) >>)
  /\ Then(<<>>)
  /\ UNCHANGED << Same, server, pending, registered, happened >>

\* ... and its tick: 'error' if there is one, then 'close'.
Closed ==
  /\ Top("closed")
  /\ Then((IF X = "err" THEN << Call("emit", S, "error") >> ELSE <<>>) \o << Call("emit", S, "close") >>)
  /\ UNCHANGED << Same, sock, server, pending, registered, timers, happened >>

\* An event without data.
Emit ==
  /\ Top("emit")
  /\ Happens(S, X)
  /\ Then(<< Listener(S, X, None) >>)
  /\ UNCHANGED << Same, sock, server, pending, registered, timers >>

\* The tick after the last byte: 'end', and destroy unless the other half stays open.
Ended ==
  /\ Top("ended")
  /\ Happens(S, "end")
  /\ Then(<< Listener(S, "end", None) >>
          \o IF sock[S].half THEN <<>> ELSE << Call("destroy", S, None) >>)
  /\ UNCHANGED << Same, sock, server, pending, registered, timers >>

\* resume(): what was held while paused is emitted, then the end if that was held too.
\* A pause() from one of those listeners does not stop it.
Resume(s) ==
  /\ sock' = [sock EXCEPT ![s].paused = FALSE, ![s].queued = <<>>]
  /\ stack' = << Call("replay", s, sock[s].queued) >> \o stack

Replay ==
  /\ Top("replay")
  /\ IF X # <<>>
     THEN /\ sock' = [sock EXCEPT ![S].got = @ \o Head(X)]
          /\ Then(<< Listener(S, "data", Head(X)), Call("replay", S, Tail(X)) >>)
          /\ UNCHANGED timers
     ELSE /\ sock' = [sock EXCEPT ![S].pendingEnd = FALSE]
          /\ Arm(IF sock[S].pendingEnd THEN << Call("ended", S, None) >> ELSE <<>>)
          /\ Then(<<>>)
  /\ UNCHANGED << Same, server, pending, registered, happened >>

\* setTimeout(ms).
SetTimeout(sk, s) == ArmTimeout([sk EXCEPT ![s].timeout = TRUE], s)

\* The idle time has passed: 'timeout', and nothing else.
FireIdle(s) ==
  /\ stack = <<>> /\ sock[s].idle
  /\ sock' = [sock EXCEPT ![s].idle = FALSE]
  /\ Happens(s, "timeout")
  /\ stack' = << Listener(s, "timeout", None) >>
  /\ UNCHANGED << Same, server, pending, registered, timers >>

Readable(s) == sock[s].conn = "open" /\ sock[s].wire # <<>>
AtEnd(s) == sock[s].conn = "closed" \/ (sock[s].wire = <<>> /\ sock[s].fin)

\* _pump: the end of what the peer sends.
PumpEnd ==
  /\ Top("read") /\ AtEnd(S)
  /\ sock' = [sock EXCEPT ![S].readEnded = TRUE, ![S].pendingEnd = @ \/ sock[S].paused]
  /\ Arm(IF sock[S].paused THEN <<>> ELSE << Call("ended", S, None) >>)
  /\ Then(<<>>)
  /\ UNCHANGED << Same, server, pending, registered, happened >>

\* _pump: some bytes, held if the socket is paused.
PumpData ==
  /\ Top("read") /\ Readable(S)
  /\ \E k \in 1..Len(sock[S].wire) :
       LET chunk == SubSeq(sock[S].wire, 1, k)
           rest == SubSeq(sock[S].wire, k + 1, Len(sock[S].wire))
           read == [sock EXCEPT ![S].wire = rest]
       IN IF sock[S].paused
          THEN /\ sock' = ArmTimeout([read EXCEPT ![S].queued = Append(@, chunk)], S)
               /\ Then(<<>>)
          ELSE /\ sock' = ArmTimeout([read EXCEPT ![S].got = @ \o chunk], S)
               /\ Then(<< Listener(S, "data", chunk) >>)
  /\ UNCHANGED << Same, server, pending, registered, timers, happened >>

\* _pump: nothing to read yet.
PumpNothing ==
  /\ Top("read") /\ ~Readable(S) /\ ~AtEnd(S)
  /\ Then(<<>>)
  /\ UNCHANGED << Same, sock, server, pending, registered, timers, happened >>
-----------------------------------------------------------------------------
(* The loop: serveHttpOnce asks each registered object in turn.                *)
Turn ==
  /\ stack = <<>> /\ timers = <<>> /\ registered # <<>>
  /\ stack' = << Call("turn", None, 1) >>
  /\ UNCHANGED << Same, sock, server, pending, registered, timers, happened >>

NextRegistered ==
  /\ Top("turn")
  /\ Then(IF X > Len(registered) THEN <<>>
          ELSE << Call("serve", registered[X], None), Call("turn", None, X + 1) >>)
  /\ UNCHANGED << Same, sock, server, pending, registered, timers, happened >>

FromLast(owner, list) == Call("pumps", owner, Len(list))

\* Server._serveOnce of net: accept one connection, then read every socket.
ServeNet ==
  /\ Top("serve") /\ S = "server" /\ program.server = "net"
  /\ IF server.backlog = <<>>
     THEN /\ Then(<< FromLast("server", server.sockets) >>)
          /\ UNCHANGED << sock, server, happened >>
     ELSE LET a == Head(server.backlog) IN
          /\ server' = [server EXCEPT !.backlog = Tail(@), !.sockets = Append(@, a)]
          /\ sock' = [sock EXCEPT ![a].conn = "open", ![a].made = TRUE]
          /\ Happens(a, "connection")
          /\ Then(<< Listener(a, "connection", None), FromLast("server", server'.sockets) >>)
  /\ UNCHANGED << Same, pending, registered, timers >>

\* pumpAll._serveOnce.
ServePending ==
  /\ Top("serve") /\ S = "pump"
  /\ Then(<< FromLast("pump", pending) >>)
  /\ UNCHANGED << Same, sock, server, pending, registered, timers, happened >>

Owned(owner) == IF owner = "server" THEN server.sockets ELSE pending
Dead(s) == sock[s].destroyed \/ sock[s].readEnded

\* The loop over the sockets, from the last: a dead one is taken out, another read.
Pumps ==
  /\ Top("pumps") /\ X > 0
  /\ LET s == Owned(S)[X] IN
     IF Dead(s)
     THEN /\ IF S = "server" THEN server' = [server EXCEPT !.sockets = RemoveAt(@, X)] /\ UNCHANGED pending
             ELSE pending' = RemoveAt(pending, X) /\ UNCHANGED server
          /\ Then(<< Call("pumps", S, X - 1) >>)
     ELSE /\ Then((IF sock[s].conn = None THEN <<>> ELSE << Call("read", s, None) >>)
                  \o << Call("pumps", S, X - 1) >>)
          /\ UNCHANGED << server, pending >>
  /\ UNCHANGED << Same, sock, registered, timers, happened >>

Without(owner) == SelectSeq(registered, LAMBDA r : r # owner)

\* ... and its end: with nothing left there is nothing for the loop to ask.
PumpsDone ==
  /\ Top("pumps") /\ X = 0
  /\ registered' = IF Owned(S) = <<>> /\ (S = "pump" \/ ~server.listening) THEN Without(S) ELSE registered
  /\ Then(<<>>)
  /\ UNCHANGED << Same, sock, server, pending, timers, happened >>

\* Server.close: the server is no longer asked, so its sockets are no longer read.
CloseServer ==
  /\ server' = [server EXCEPT !.listening = FALSE]
  /\ registered' = Without("server")

\* The oldest tick, when nothing runs.
FireTimer ==
  /\ stack = <<>> /\ timers # <<>>
  /\ stack' = << Head(timers) >>
  /\ timers' = Tail(timers)
  /\ UNCHANGED << Same, sock, server, pending, registered, happened >>
-----------------------------------------------------------------------------
(* The program.                                                                *)
Uses(s, who) == program.uses[s] = who

\* A listener of the program runs ...
Listens ==
  /\ Top("listener") /\ Uses(S, "program")
  /\ Then(<< User >>)
  /\ UNCHANGED << Same, sock, server, pending, registered, timers, happened >>

\* ... calls what it likes, and returns.
Return ==
  /\ Top("user")
  /\ Then(<<>>)
  /\ UNCHANGED << Same, sock, server, pending, registered, timers, happened >>

\* A net.Socket method called by the program.
CallSocket(s) ==
  /\ Uses(s, "program")
  /\ \/ /\ s \in Clients /\ ~sock[s].made /\ Starts("connect")
        /\ Connect(s) /\ UNCHANGED << stack, written >>
     \/ /\ sock[s].made /\ Starts("write") /\ written < program.units /\ written' = written + 1
        /\ sock' = Write(sock, s, << written' >>) /\ UNCHANGED << stack, timers >>
     \/ /\ sock[s].made /\ Starts("end")
        /\ End(s) /\ UNCHANGED << stack, written >>
     \/ /\ sock[s].made /\ Starts("destroy")
        /\ \E err \in {None, "err"} : stack' = << Call("destroy", s, err) >> \o stack
        /\ UNCHANGED << sock, timers, written >>
     \/ /\ sock[s].made /\ Starts("pause") /\ ~sock[s].paused
        /\ sock' = [sock EXCEPT ![s].paused = TRUE] /\ UNCHANGED << stack, timers, written >>
     \/ /\ sock[s].made /\ Starts("resume")
        /\ Resume(s) /\ UNCHANGED << timers, written >>
     \/ /\ sock[s].made /\ Starts("setTimeout")
        /\ sock' = SetTimeout(sock, s) /\ UNCHANGED << stack, timers, written >>
  /\ UNCHANGED << program, server, pending, registered, happened >>

CallServer ==
  /\ Starts("close") /\ server.listening
  /\ CloseServer
  /\ UNCHANGED << program, sock, pending, timers, stack, happened, written >>

SocketProgram == (\E s \in Socks : CallSocket(s)) \/ CallServer

SocketLibrary ==
  \/ Connecting \/ Register \/ Finish \/ Destroy \/ Closed \/ Emit \/ Ended \/ Replay
  \/ PumpEnd \/ PumpData \/ PumpNothing \/ NextRegistered \/ ServeNet \/ ServePending
  \/ Pumps \/ PumpsDone \/ Listens \/ Return

SocketLoop == FireTimer \/ Turn \/ \E s \in Socks : FireIdle(s)
-----------------------------------------------------------------------------
Times(s, ev) == Cardinality({ i \in 1..Len(happened[s]) : happened[s][i] = ev })
Held(s) == FlattenSeq(sock[s].queued)
Replaying(s) == \E i \in 1..Len(stack) : stack[i].op = "replay" /\ stack[i].s = s /\ stack[i].x # <<>>

\* What a socket emits is what its peer sent, in order and each byte once, with pauses
\* and resumes in between.
ReceivedInOrder ==
  \A s \in Socks : ~Replaying(s) => IsPrefix(sock[s].got \o Held(s), sock[Peer[s]].sent)

\* 'end' comes once, and after everything that was read.
EndAfterData ==
  \A s \in Socks : /\ Times(s, "end") <= 1
                   /\ Times(s, "end") = 1 /\ ~sock[s].destroyed /\ ~Replaying(s) => sock[s].queued = <<>>

\* "A pending timer on a dead socket keeps the event loop alive" (net.js 105-106).
NoTimerOnDead == \A s \in Socks : sock[s].destroyed => ~sock[s].idle

\* destroy() gives the connection back, if it was there when it ran.
DestroyCloses == \A s \in Socks : sock[s].destroyed /\ ~sock[s].late => sock[s].conn # "open"

\* 'close' comes once, after destroy().
ClosesOnce == \A s \in Socks : Times(s, "close") <= (IF sock[s].destroyed THEN 1 ELSE 0)

\* Of a socket: nothing of the stream of bytes is lost, and nothing outlives its close.
SocketsSafe == ReceivedInOrder /\ EndAfterData /\ NoTimerOnDead /\ DestroyCloses /\ ClosesOnce

\* The whole loop waits for one peer: what an http server's blocking read does.
Parked == Top("receive")

\* Once every socket the loop reads for a client has ended, the loop has no reason left to
\* ask for them ("a program that closed everything still never exited", net.js 457-461).
LoopLetsGo ==
  (\A i \in 1..Len(pending) : Dead(pending[i])) ~>
    (Parked \/ "pump" \notin Range(registered) \/ \E i \in 1..Len(pending) : ~Dead(pending[i]))

\* A close by the peer reaches a socket the loop reads: it ends or is destroyed, unless it
\* is paused.
EndNoticed ==
  \A c \in Clients : (sock[c].fin /\ c \in Range(pending)) ~> (Parked \/ (Dead(c) /\ (sock[c].paused \/ sock[c].destroyed)))
=============================================================================
