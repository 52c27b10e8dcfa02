---------------------------- MODULE HttpExchange ----------------------------
(* HTTP requests and responses of the Node library (src/lib/http.js) over the  *)
(* sockets of module Sockets: a server that reads one request per connection   *)
(* and a program that answers when and how it likes; a client that parses the  *)
(* response as its bytes arrive; pause, resume, abort and destroy on the way.  *)
(*                                                                             *)
(* A message is a sequence of tokens: "h1" and "h2" the two halves of a head,  *)
(* "size" and "nl" a chunk's size line, "crlf" what follows its bytes, "last"  *)
(* the size line of the last chunk, "b" one byte of the body.  A read may stop *)
(* between any two of them.  The request is a single token.                    *)
EXTENDS Sockets

VARIABLES
  req,   \* each client request: ClientRequest, its parser and its ClientResponse
  served \* each accepted connection: IncomingMessage and ServerResponse

httpVars == << req, served >>
allVars == << socketVars, httpVars >>

\* A head's second half says how the body is delimited: bytes counted, in chunks, by the end.
Chunked == -2
Unknown == -1
Token(t, v) == [t |-> t, v |-> v]
Bytes(q) == [i \in 1..Len(q) |-> Token("b", q[i])]
Plain(q) == [i \in 1..Len(q) |-> q[i].v]
Chunk(q) == << Token("size", Len(q)), Token("nl", 0) >> \o Bytes(q) \o << Token("crlf", 0) >>
LastChunk == << Token("last", 0), Token("nl", 0) >>
Headers(framing) == << Token("h1", 0), Token("h2", framing) >>
Place(buf, t) == SelectInSeq(buf, LAMBDA u : u.t = t)
From(buf, i) == SubSeq(buf, i, Len(buf))

NewRequest == [state |-> "head", buf |-> <<>>, remaining |-> Unknown, hasRes |-> FALSE,
               finished |-> FALSE, aborted |-> FALSE, destroyed |-> FALSE, closing |-> FALSE, over |-> FALSE,
               paused |-> FALSE, queue |-> <<>>, resEnded |-> FALSE, complete |-> FALSE, resGone |-> FALSE,
               body |-> <<>>, events |-> <<>>, heard |-> "nothing"]
NewServed == [here |-> FALSE, sentHead |-> FALSE, chunked |-> FALSE, old |-> FALSE, finished |-> FALSE,
              aborted |-> 0, body |-> <<>>]

HttpInit ==
  /\ SocketsInit
  /\ req = [c \in Clients |-> NewRequest]
  /\ served = [a \in Accepted |-> NewServed]

SameSockets == UNCHANGED << sock, server, pending, registered, happened >>
Tell(r, ev) == [r EXCEPT !.events = Append(@, ev)]
-----------------------------------------------------------------------------
(* The server.                                                                 *)

\* Server._serveOnce: accept a connection, then wait for its first bytes.
ServeHttp ==
  /\ Top("serve") /\ S = "server" /\ program.server = "http"
  /\ IF server.backlog = <<>> THEN Then(<<>>) /\ UNCHANGED << sock, server >>
     ELSE LET a == Head(server.backlog) IN
          /\ server' = [server EXCEPT !.backlog = Tail(@)]
          /\ sock' = [sock EXCEPT ![a].conn = "open", ![a].made = TRUE]
          /\ Then(<< Call("receive", a, None) >>)
  /\ UNCHANGED << Same, pending, registered, timers, happened, httpVars >>

\* __tcpRecv blocks: no call goes on, no timer fires until something arrives.
Receive ==
  /\ Top("receive") /\ (sock[S].wire # <<>> \/ sock[S].fin)
  /\ IF sock[S].wire = <<>>
     THEN /\ sock' \in TcpCloses(sock, S)
          /\ Then(<<>>) /\ UNCHANGED served
     ELSE /\ sock' = [sock EXCEPT ![S].wire = <<>>, ![S].got = sock[S].wire, ![S].half = TRUE]
          /\ \E old \in BOOLEAN : served' = [served EXCEPT ![S].here = TRUE, ![S].old = old]
          /\ Then(<< Call("register", S, None), User >>)
  /\ UNCHANGED << Same, server, pending, registered, timers, happened, req >>

\* Mutant: an end of the socket is an abort whatever the response has done.
Gone_Always ==
  /\ Top("listener") /\ Uses(S, "served")
  /\ IF Head(stack).ev \in {"end", "close"} /\ served[S].here
     THEN /\ served' = [served EXCEPT ![S].aborted = @ + 1]
          /\ Then(<< User >>)
     ELSE Then(<<>>) /\ UNCHANGED served
  /\ SameSockets /\ UNCHANGED << Same, timers, req >>

\* Listeners of an adopted socket: `gone`.  Bytes that follow the request have none.
Gone ==
  /\ Top("listener") /\ Uses(S, "served")
  /\ IF Head(stack).ev \in {"end", "close"} /\ ~served[S].finished /\ served[S].aborted = 0
     THEN /\ served' = [served EXCEPT ![S].aborted = 1]
          /\ Then(<< User >>)
     ELSE Then(<<>>) /\ UNCHANGED served
  /\ SameSockets /\ UNCHANGED << Same, timers, req >>

\* _sendHeaders: once; in chunks unless the client speaks HTTP/1.0.
SendHeaders(sk, a) ==
  LET chunked == IF served[a].sentHead THEN served[a].chunked ELSE ~served[a].old
  IN [sk |-> IF served[a].sentHead THEN sk ELSE TcpSend(sk, a, Headers(IF chunked THEN Chunked ELSE Unknown)),
      chunked |-> chunked]

Framed(q, chunked) == IF q = <<>> THEN <<>> ELSE IF chunked THEN Chunk(q) ELSE Bytes(q)

\* res.write, res.flushHeaders (with no bytes).
ResponseWrite(a, q) ==
  LET head == SendHeaders(sock, a) IN
  /\ sock' = TcpSend(head.sk, a, Framed(q, head.chunked))
  /\ served' = [served EXCEPT ![a].sentHead = TRUE, ![a].chunked = head.chunked,
                               ![a].body = IF sock[a].conn = "open" THEN @ \o q ELSE @]
  /\ UNCHANGED << stack, timers >>

\* res.end after the head: the last chunk, and the connection is closed under its
\* wrapper.  res.end before it: head and body at once, and the socket is destroyed.
ResponseEnd(a, q) ==
  /\ ~served[a].finished
  /\ served' = [served EXCEPT ![a].finished = TRUE, ![a].sentHead = TRUE,
                               ![a].body = IF sock[a].conn = "open" THEN @ \o q ELSE @]
  /\ IF served[a].sentHead
     THEN /\ sock' \in TcpCloses(TcpSend(sock, a, Framed(q, served[a].chunked)
                                                  \o IF served[a].chunked THEN LastChunk ELSE <<>>), a)
          /\ stack' = << User >> \o stack
     ELSE /\ sock' = TcpSend(sock, a, Headers(Len(q)) \o Bytes(q))
          /\ stack' = << Call("destroy", a, None), User >> \o stack
  /\ UNCHANGED timers
-----------------------------------------------------------------------------
(* The client.                                                                 *)

\* req.end(): sendOverSocket, unless the request is already given up.
RequestEnd(c) ==
  /\ ~req[c].finished
  /\ req' = [req EXCEPT ![c].finished = TRUE]
  /\ IF req[c].destroyed \/ req[c].aborted THEN UNCHANGED << sock, timers >>
     ELSE Connect(c)
  /\ UNCHANGED stack

\* abort(): the flag, a tick for the event, destroy().
Abort(c) ==
  /\ ~req[c].aborted
  /\ req' = [req EXCEPT ![c].aborted = TRUE, ![c].heard = IF req[c].hasRes THEN "abort" ELSE @]
  /\ Arm(<< Call("abort", c, None) >>)
  /\ stack' = << Call("destroyRequest", c, None) >> \o stack
  /\ UNCHANGED sock

AbortTick ==
  /\ Top("abort")
  /\ req' = [req EXCEPT ![S] = Tell(@, "abort")]
  /\ Then(<< User >>)
  /\ SameSockets /\ UNCHANGED << Same, timers, served >>

\* ClientRequest.destroy(err): the socket goes too; a request that was sent and has no
\* response reports a hang-up, an aborted one never does.
DestroyRequest ==
  /\ Top("destroyRequest")
  /\ LET r == req[S]
         hangUp == X = None /\ ~r.aborted /\ r.finished /\ ~r.hasRes
     IN IF r.destroyed THEN Then(<<>>) /\ UNCHANGED << req, timers >>
        ELSE /\ req' = [req EXCEPT ![S].destroyed = TRUE, ![S].closing = TRUE]
             /\ Arm(<< Call("requestGone", S, IF X = "err" \/ hangUp THEN "err" ELSE None) >>)
             /\ Then(IF sock[S].made THEN << Call("destroy", S, None) >> ELSE <<>>)
  /\ SameSockets /\ UNCHANGED << Same, served >>

RequestGone ==
  /\ Top("requestGone")
  /\ req' = [req EXCEPT ![S].events = @ \o (IF X = "err" THEN << "error", "close" >> ELSE << "close" >>)]
  /\ Then(<< User >>)
  /\ SameSockets /\ UNCHANGED << Same, timers, served >>

\* finishExchange: 'close' on a tick, once.
FinishExchange(r) == [r EXCEPT !.over = TRUE]
ExchangeTick(c) == IF req[c].over THEN <<>> ELSE << Call("exchanged", c, None) >>

Exchanged ==
  /\ Top("exchanged")
  /\ req' = IF req[S].closing THEN req
            ELSE [req EXCEPT ![S] = Tell([@ EXCEPT !.closing = TRUE], "close")]
  /\ Then(<< User >>)
  /\ SameSockets /\ UNCHANGED << Same, timers, served >>

\* Listeners of a request's socket.
OnConnect ==
  /\ Top("listener") /\ Uses(S, "request") /\ Head(stack).ev = "connect"
  /\ sock' = Write(sock, S, << Token("request", 0) >>)
  /\ Then(<<>>)
  /\ UNCHANGED << Same, server, pending, registered, timers, happened, httpVars >>

OnError ==
  /\ Top("listener") /\ Uses(S, "request") /\ Head(stack).ev = "error"
  /\ req' = IF req[S].destroyed THEN req ELSE [req EXCEPT ![S] = Tell(@, "error")]
  /\ Then(<< User >>)
  /\ SameSockets /\ UNCHANGED << Same, timers, served >>

\* 'timeout', 'finish' and 'close' of the socket: the first is passed on, the others
\* have no listener.
OnOther ==
  /\ Top("listener") /\ Uses(S, "request") /\ Head(stack).ev \in {"timeout", "finish", "close"}
  /\ Then(<< User >>)
  /\ SameSockets /\ UNCHANGED << Same, timers, httpVars >>

OnData ==
  /\ Top("listener") /\ Uses(S, "request") /\ Head(stack).ev = "data"
  /\ IF req[S].destroyed \/ req[S].aborted THEN Then(<<>>) /\ UNCHANGED req
     ELSE /\ req' = [req EXCEPT ![S].buf = @ \o X]
          /\ Then(<< Call("parse", S, None) >>)
  /\ SameSockets /\ UNCHANGED << Same, timers, served >>

\* The end of the bytes ends a body; before a head has come it is ignored.
OnEnd ==
  /\ Top("listener") /\ Uses(S, "request") /\ Head(stack).ev = "end"
  /\ IF req[S].state = "done" \/ ~req[S].hasRes
     THEN Then(<<>>) /\ UNCHANGED << req, timers >>
     ELSE /\ req' = [req EXCEPT ![S] = FinishExchange([@ EXCEPT !.state = "done"])]
          /\ Arm(ExchangeTick(S))
          /\ Then((IF req[S].buf # <<>> /\ req[S].state = "body" THEN << Call("deliver", S, Plain(req[S].buf)) >> ELSE <<>>)
                  \o << Call("streamEnd", S, None) >>)
  /\ SameSockets /\ UNCHANGED << Same, served >>

\* The parser: a whole head makes the response.  (What comes after the end of a response
\* is passed over; the server here sends nothing more.)
ParseHead ==
  /\ Top("parse") /\ req[S].state = "head"
  /\ LET i == Place(req[S].buf, "h2")
         framing == req[S].buf[i].v
     IN IF i = 0 THEN Then(<<>>) /\ UNCHANGED req
        ELSE /\ req' = [req EXCEPT ![S] =
                          Tell([@ EXCEPT !.buf = From(@, i + 1), !.hasRes = TRUE,
                                         !.remaining = IF framing = Chunked THEN Unknown ELSE framing,
                                         !.state = IF framing = Chunked THEN "chunk" ELSE "body"], "response")]
             /\ Then(<< User, Call("bodyless", S, None) >>)
  /\ SameSockets /\ UNCHANGED << Same, timers, served >>

\* The body is over: the response ends, the exchange is finished.
Done ==
  /\ req' = [req EXCEPT ![S] = FinishExchange([@ EXCEPT !.state = "done"])]
  /\ Arm(ExchangeTick(S))
  /\ Then(<< Call("streamEnd", S, None) >>)

\* After the 'response' listeners; whether one of them aborted is not asked.
Bodyless ==
  /\ Top("bodyless")
  /\ IF req[S].remaining = 0 THEN Done
     ELSE Then(<< Call("parse", S, None) >>) /\ UNCHANGED << req, timers >>
  /\ SameSockets /\ UNCHANGED << Same, served >>

ParseBody ==
  /\ Top("parse") /\ req[S].state = "body"
  /\ LET buf == req[S].buf
         all == req[S].remaining < 0 \/ Len(buf) <= req[S].remaining
         take == IF all THEN Len(buf) ELSE req[S].remaining
     IN IF buf = <<>> THEN Then(<<>>) /\ UNCHANGED req
        ELSE /\ req' = [req EXCEPT ![S].buf = From(@, take + 1),
                                   ![S].remaining = IF @ > 0 THEN @ - take ELSE @]
             /\ Then(<< Call("deliver", S, Plain(SubSeq(buf, 1, take))), Call("counted", S, None) >>)
  /\ SameSockets /\ UNCHANGED << Same, timers, served >>

Counted ==
  /\ Top("counted")
  /\ IF req[S].remaining = 0 THEN Done ELSE Then(<<>>) /\ UNCHANGED << req, timers >>
  /\ SameSockets /\ UNCHANGED << Same, served >>

\* A chunk is cut when it is here whole, with the line end that follows it.
ParseChunk ==
  /\ Top("parse") /\ req[S].state = "chunk"
  /\ LET buf == req[S].buf
         n == buf[1].v
     IN IF Place(buf, "nl") = 0 THEN Then(<<>>) /\ UNCHANGED << req, timers >>
        ELSE IF buf[1].t = "last" THEN Done
        ELSE IF Len(buf) < n + 3 THEN Then(<<>>) /\ UNCHANGED << req, timers >>
        ELSE /\ Then(<< Call("deliver", S, Plain(SubSeq(buf, 3, n + 2))), Call("cut", S, n + 4) >>)
             /\ UNCHANGED << req, timers >>
  /\ SameSockets /\ UNCHANGED << Same, served >>

\* ... the buffer moves on after the listeners, and only here an abort is asked for.
Cut ==
  /\ Top("cut")
  /\ req' = [req EXCEPT ![S].buf = From(@, X)]
  /\ Then(IF req[S].destroyed \/ req[S].aborted THEN <<>> ELSE << Call("parse", S, None) >>)
  /\ SameSockets /\ UNCHANGED << Same, timers, served >>

Heard(r, q) == [r EXCEPT !.body = @ \o q, !.heard = IF @ = "abort" THEN "data after abort" ELSE @]

\* ClientResponse._push.
Deliver ==
  /\ Top("deliver")
  /\ LET r == req[S] IN
     IF r.resGone \/ X = <<>> THEN Then(<<>>) /\ UNCHANGED req
     ELSE IF r.paused THEN req' = [req EXCEPT ![S].queue = Append(@, X)] /\ Then(<<>>)
     ELSE req' = [req EXCEPT ![S] = Heard(@, X)] /\ Then(<< User >>)
  /\ SameSockets /\ UNCHANGED << Same, timers, served >>

\* Mutant: the end does not wait for what is held.
StreamEnd_Now ==
  /\ Top("streamEnd")
  /\ req' = [req EXCEPT ![S].resEnded = TRUE]
  /\ Then(<< Call("resFinish", S, None) >>)
  /\ SameSockets /\ UNCHANGED << Same, timers, served >>

\* _streamEnd: 'end' now, or when the program has resumed.
StreamEnd ==
  /\ Top("streamEnd")
  /\ req' = [req EXCEPT ![S].resEnded = TRUE]
  /\ Then(IF req[S].queue = <<>> /\ ~req[S].paused THEN << Call("resFinish", S, None) >> ELSE <<>>)
  /\ SameSockets /\ UNCHANGED << Same, timers, served >>

\* _finish: once.
ResFinish ==
  /\ Top("resFinish")
  /\ IF req[S].complete THEN Then(<<>>) /\ UNCHANGED req
     ELSE /\ req' = [req EXCEPT ![S] = Tell([@ EXCEPT !.complete = TRUE], "end")]
          /\ Then(<< User >>)
  /\ SameSockets /\ UNCHANGED << Same, timers, served >>

\* resume(): what is held, until a listener pauses again; then the end if it has come.
ResumeLoop ==
  /\ Top("resuming")
  /\ IF req[S].queue # <<>> /\ ~req[S].paused
     THEN /\ req' = [req EXCEPT ![S] = Heard([@ EXCEPT !.queue = Tail(@)], Head(req[S].queue))]
          /\ Then(<< User, Call("resuming", S, None) >>)
     ELSE /\ Then(IF req[S].resEnded /\ req[S].queue = <<>> THEN << Call("resFinish", S, None) >> ELSE <<>>)
          /\ UNCHANGED req
  /\ SameSockets /\ UNCHANGED << Same, timers, served >>
-----------------------------------------------------------------------------
(* The program.                                                                *)
CallClient(c) ==
  /\ Uses(c, "request")
  /\ \/ Starts("request") /\ RequestEnd(c)
     \/ Starts("abort") /\ Abort(c)
     \/ Starts("destroyRequest") /\ ~req[c].destroyed /\ UNCHANGED << req, sock, timers >>
        /\ \E err \in {None, "err"} : stack' = << Call("destroyRequest", c, err) >> \o stack
     \/ Starts("pauseResponse") /\ req[c].hasRes /\ ~req[c].paused
        /\ req' = [req EXCEPT ![c].paused = TRUE] /\ UNCHANGED << sock, timers, stack >>
     \/ Starts("resumeResponse") /\ req[c].paused
        /\ req' = [req EXCEPT ![c].paused = FALSE]
        /\ stack' = << Call("resuming", c, None) >> \o stack /\ UNCHANGED << sock, timers >>
     \/ Starts("destroyResponse") /\ req[c].hasRes /\ ~req[c].resGone
        /\ req' = [req EXCEPT ![c].resGone = TRUE]
        /\ stack' = << Call("destroy", c, None) >> \o stack /\ UNCHANGED << sock, timers >>
     \/ Starts("timeoutRequest") /\ sock[c].made
        /\ sock' = SetTimeout(sock, c) /\ UNCHANGED << req, timers, stack >>
  /\ UNCHANGED << program, server, pending, registered, happened, written, served >>

CallResponse(a) ==
  /\ served[a].here /\ Uses(a, "served")
  /\ \/ /\ Starts("respond") /\ written < program.units /\ written' = written + 1
        /\ \E n \in 1..2 : ResponseWrite(a, [i \in 1..n |-> written'])
     \/ /\ Starts("flush") /\ ~served[a].sentHead /\ UNCHANGED written
        /\ ResponseWrite(a, <<>>)
     \/ /\ Starts("respondEnd") /\ written' = written + 1
        /\ \E n \in 0..2 : ResponseEnd(a, [i \in 1..n |-> written'])
     \/ /\ Starts("hangUp") /\ ~sock[a].destroyed
        /\ stack' = << Call("destroy", a, None) >> \o stack
        /\ UNCHANGED << sock, served, timers, written >>
  /\ UNCHANGED << program, server, pending, registered, happened, req >>

HttpLibrary ==
  \/ ServeHttp \/ Receive \/ Gone \/ AbortTick \/ DestroyRequest \/ RequestGone \/ Exchanged
  \/ OnConnect \/ OnError \/ OnOther \/ OnData \/ OnEnd \/ ParseHead \/ Bodyless \/ ParseBody
  \/ Counted \/ ParseChunk \/ Cut \/ Deliver \/ StreamEnd \/ ResFinish \/ ResumeLoop

Library == HttpLibrary \/ (SocketLibrary /\ UNCHANGED httpVars)
Loop == SocketLoop /\ UNCHANGED httpVars

HttpNext ==
  \/ Library \/ Loop
  \/ SocketProgram /\ UNCHANGED httpVars
  \/ \E c \in Clients : CallClient(c)
  \/ \E a \in Accepted : CallResponse(a)

HttpSpec == HttpInit /\ [][HttpNext]_allVars

\* Calls in progress go on, ticks fire and the loop takes its turns; neither the program
\* nor the idle time need ever do anything.
HttpFairSpec ==
  /\ HttpSpec
  /\ WF_allVars(Library)
  /\ WF_allVars(FireTimer /\ UNCHANGED httpVars)
  /\ WF_allVars(Turn /\ UNCHANGED httpVars)
-----------------------------------------------------------------------------
HttpTypeOK ==
  /\ \A s \in Socks : /\ sock[s].conn \in {None, "open", "closed"}
                      /\ sock[s].idle \in BOOLEAN /\ sock[s].paused \in BOOLEAN
  /\ Range(pending) \subseteq Socks /\ IsInjective(registered) /\ Range(registered) \subseteq {"server", "pump"}
  /\ \A c \in Clients : req[c].state \in {"head", "body", "chunk", "done"} /\ req[c].remaining >= Unknown
  /\ \A a \in Accepted : served[a].aborted \in 0..1

QueuedBody(c) == FlattenSeq(req[c].queue)

\* What the client's program is given is what the server's program wrote, in order, in
\* whatever pieces it arrives and however it is framed, and all of it when the response
\* has ended and neither side gave up.
BodyIntact ==
  \A c \in Clients : LET a == Peer[c] IN
    /\ IsPrefix(req[c].body \o QueuedBody(c), served[a].body)
    /\ req[c].complete /\ served[a].finished /\ served[a].aborted = 0 /\ ~req[c].destroyed /\ ~req[c].resGone
       => req[c].body = served[a].body

\* The end of a response comes after all that was held for a paused reader.
EndAfterHeld == \A c \in Clients : req[c].complete => req[c].queue = <<>>

\* A server request is aborted once at most and never after its response has finished
\* ("reporting it as one would fire 'aborted' on every request", http.js 643-644).
AbortedOnce ==
  [][\A a \in Accepted : served'[a].aborted # served[a].aborted
       => served[a].aborted = 0 /\ ~served[a].finished /\ (sock[a].fin \/ sock[a].destroyed)]_allVars

\* abort() reports no error ("it emits 'abort' and no error", http.js 1049-1052), unless the
\* request had failed or was destroyed before.
AbortIsNoError ==
  \A c \in Clients : req[c].aborted /\ program.ops \cap {"destroyRequest"} = {} /\ program.server # "none"
                     => "error" \notin Range(req[c].events)

\* "An aborted request delivers nothing further" (http.js 864).
AbortDeliversNothing == \A c \in Clients : req[c].heard # "data after abort"

\* "Parking on a socket stalls timers, microtasks and every other server, which is the same
\* rule the http server's accept loop follows" (net.js 35-37): the loop never waits for bytes.
NeverParks == Parked => sock[S].wire # <<>> \/ sock[S].fin

\* A request whose response has come to its end on the wire gets 'close' ("a caller that
\* waits for req 'close' to tear down its server waits forever", http.js 852-855).
ExchangeCloses == \A c \in Clients : req[c].state = "done" ~> Parked \/ "close" \in Range(req[c].events)

\* Bytes and bodies arrive whole and in order in every framing, and closes and aborts are
\* told once and for what they are.
ExchangeSafe == SocketsSafe /\ BodyIntact /\ EndAfterHeld /\ AbortIsNoError

\* What has ended is let go: by the loop, by the sockets it reads, by the requests; and an
\* abort is reported once at most on the way there.
ExchangeEnds == AbortedOnce /\ LoopLetsGo /\ EndNoticed /\ ExchangeCloses
=============================================================================
