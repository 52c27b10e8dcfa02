------------------------------ MODULE Responses ------------------------------
(***************************************************************************)
(* The two ends of a request in the hands of a handler (lib/http.js): the  *)
(* ServerResponse it sets headers of, writes and ends in any order, and    *)
(* the IncomingMessage whose body is already there and is handed to the    *)
(* listeners by one timer.                                                 *)
(***************************************************************************)
EXTENDS Integers, Sequences, SequencesExt, FiniteSets

CONSTANT MaxCalls  \* calls the handler makes

VARIABLES
    reply,     \* the ServerResponse
    line,      \* what was sent to the client, tokens
    message,   \* the IncomingMessage
    told,      \* what the handler had written, what it has heard
    calls      \* calls it made

respVars == <<reply, line, message, told, calls>>

\* A name in two spellings and one the module sets itself.
Lower == [n \in {"Cookie", "cookie", "Content-Length"} |->
            IF n = "Content-Length" THEN "content-length" ELSE "cookie"]
Token(t, v) == [t |-> t, v |-> v]
Bytes(q) == [i \in DOMAIN q |-> Token("byte", q[i])]
Chunk(q) == <<Token("size", Len(q))>> \o Bytes(q) \o <<Token("crlf", 0)>>
LastChunk == <<Token("size", 0), Token("crlf", 0)>>

\* A header has the spelling it was set with and its values.
RespInit ==
    /\ \E old \in BOOLEAN :
         reply = [headers |-> <<>>, streaming |-> FALSE, chunked |-> FALSE, old |-> old, headersSent |-> FALSE,
                  sent |-> FALSE, open |-> TRUE, destroyed |-> FALSE, corked |-> 0, trailer |-> <<>>]
    /\ line = <<>> /\ calls = 0
    /\ \E body \in {<<>>, <<1, 2>>} :
         message = [body |-> body, listeners |-> <<>>, scheduled |-> FALSE, due |-> FALSE]
    /\ told = [wrote |-> <<>>, heads |-> <<>>, events |-> <<>>, heard |-> <<>>, present |-> 0, declared |-> FALSE]

Send(tokens, open) == IF open THEN line \o tokens ELSE line
Has(h, k) == k \in DOMAIN h
Without(h, k) == [n \in DOMAIN h \ {k} |-> h[n]]
With(h, k, name, values) == [n \in DOMAIN h \cup {k} |-> IF n = k THEN [name |-> name, values |-> values] ELSE h[n]]
Calls == calls' = calls + 1 /\ UNCHANGED message
-----------------------------------------------------------------------------
(* Headers.  checkHeadersSent looks at _header, which no ServerResponse sets. *)

setHeader(h, name, v) == With(h, Lower[name], name, <<v>>)
appendHeader(h, name, v) ==
    IF Has(h, Lower[name]) THEN [h EXCEPT ![Lower[name]].values = Append(@, v)] ELSE setHeader(h, name, v)

SetHeader == \E n \in DOMAIN Lower, v \in {1, 2} :
    /\ reply' = [reply EXCEPT !.headers = setHeader(@, n, v)]
    /\ told' = [told EXCEPT !.declared = @ \/ n = "Content-Length",
                            !.heads = IF reply.headersSent THEN @ ELSE Append(@, <<"set", Lower[n], v>>)]
    /\ Calls /\ UNCHANGED line
AppendHeader == \E n \in {"Cookie", "cookie"}, v \in {1, 2} :
    /\ reply' = [reply EXCEPT !.headers = appendHeader(@, n, v)]
    /\ told' = [told EXCEPT !.heads = IF reply.headersSent THEN @ ELSE Append(@, <<"append", Lower[n], v>>)]
    /\ Calls /\ UNCHANGED line
RemoveHeader == \E k \in {"cookie", "content-length"} :
    /\ reply' = [reply EXCEPT !.headers = Without(@, k)]
    /\ told' = [told EXCEPT !.heads = IF reply.headersSent THEN @ ELSE Append(@, <<"remove", k, 0>>)]
    /\ Calls /\ UNCHANGED line
\* writeHead sets the headers it is given one by one; a bad one throws after those before it.
WriteHead == \E n \in {"Cookie", "cookie"}, bad \in BOOLEAN :
    /\ reply' = [reply EXCEPT !.headers = IF bad THEN @ ELSE setHeader(@, n, 2)]
    /\ told' = [told EXCEPT !.heads = IF reply.headersSent \/ bad THEN @ ELSE Append(@, <<"set", Lower[n], 2>>)]
    /\ Calls /\ UNCHANGED line
-----------------------------------------------------------------------------
(* The body. *)

Values(h) == [k \in DOMAIN h |-> h[k].values]
\* _sendHeaders: the head once; in chunks unless a length is declared or the client is of 1.0.
Framing(r) == r.headersSent \/ Has(r.headers, "content-length") \/ r.old
sendHeaders(r) ==
    LET chunked == ~Framing(r)
        h == IF chunked THEN With(r.headers, "transfer-encoding", "Transfer-Encoding", <<"chunked">>) ELSE r.headers
    IN  IF r.headersSent THEN [reply |-> r, out |-> <<>>]
        ELSE [reply |-> [r EXCEPT !.headers = h, !.streaming = TRUE, !.chunked = chunked, !.headersSent = TRUE],
              out |-> <<Token("head", Values(h))>>]
flushHeaders ==
    /\ LET s == sendHeaders(reply)
       IN  /\ reply' = s.reply
           /\ line' = Send(s.out, reply.open)
    /\ Calls /\ UNCHANGED told

Framed(q, chunked) == IF q = <<>> THEN <<>> ELSE IF chunked THEN Chunk(q) ELSE Bytes(q)
\* write() looks neither at end() nor at destroy(); bytes for a closed connection are lost.
write == \E q \in {<<>>, <<3>>, <<4, 5>>} :
    /\ LET s == sendHeaders(reply)
       IN  /\ reply' = s.reply
           /\ line' = Send(s.out \o Framed(q, s.reply.chunked), reply.open)
    /\ told' = [told EXCEPT !.wrote = IF reply.open THEN @ \o q ELSE @]
    /\ Calls

(* Mutant of Finish: the last chunk is left out. *)
Finish_Open(r, q) == Framed(q, r.chunked)
\* What end() sends when the head is out, and when it is not.
Finish(r, q) == Framed(q, r.chunked) \o IF r.chunked THEN LastChunk ELSE <<>>
Sized(r, q) ==
    IF Has(r.headers, "content-length") THEN r.headers ELSE With(r.headers, "content-length", "Content-Length", <<Len(q)>>)
endReply == \E q \in {<<>>, <<6>>} :
    /\ IF reply.sent THEN UNCHANGED <<reply, line, told>>
       ELSE /\ reply' = [reply EXCEPT !.sent = TRUE, !.headersSent = TRUE, !.open = FALSE,
                                      !.headers = IF reply.headersSent THEN @ ELSE Sized(reply, q)]
            /\ line' = Send(IF reply.headersSent THEN Finish(reply, q)
                            ELSE <<Token("head", Values(Sized(reply, q)))>> \o Bytes(q), reply.open)
            /\ told' = [told EXCEPT !.events = @ \o <<"finish", "close">>,
                                    !.wrote = IF reply.open THEN @ \o q ELSE @]
    /\ Calls
\* destroy(): the socket's; neither event.
Destroy ==
    /\ reply' = [reply EXCEPT !.destroyed = TRUE, !.open = IF reply.destroyed THEN @ ELSE FALSE]
    /\ Calls /\ UNCHANGED <<line, told>>
cork == reply' = [reply EXCEPT !.corked = @ + 1] /\ Calls /\ UNCHANGED <<line, told>>
uncork == reply' = [reply EXCEPT !.corked = IF @ > 0 THEN @ - 1 ELSE @] /\ Calls /\ UNCHANGED <<line, told>>
addTrailers == \E names \in {<<"Cookie">>, <<"Cookie", "cookie">>} :
    reply' = [reply EXCEPT !.trailer = names] /\ Calls /\ UNCHANGED <<line, told>>
-----------------------------------------------------------------------------
(* The request. *)

\* `on`, whoever listens: the first listener of either event arms the one timer.
On == \E ev \in {"data", "end"} :
    /\ message' = [message EXCEPT !.listeners = Append(@, ev), !.scheduled = TRUE, !.due = @ \/ ~message.scheduled]
    /\ calls' = calls + 1 /\ UNCHANGED <<reply, line, told>>
Tells(m) ==
    LET To(ev) == SelectSeq([i \in DOMAIN m.listeners |-> <<i, ev>>], LAMBDA p : m.listeners[p[1]] = ev)
    IN  (IF m.body = <<>> THEN <<>> ELSE To("data")) \o To("end")
Deliver ==
    /\ message.due
    /\ message' = [message EXCEPT !.due = FALSE]
    /\ told' = [told EXCEPT !.heard = @ \o Tells(message), !.present = Len(message.listeners)]
    /\ UNCHANGED <<reply, line, calls>>

RespIdle == RespInit /\ reply.old /\ message.body = <<>>
RespNext ==
    \/ /\ calls < MaxCalls
       /\ \/ SetHeader \/ AppendHeader \/ RemoveHeader \/ WriteHead \/ flushHeaders \/ write
          \/ endReply \/ Destroy \/ cork \/ uncork \/ addTrailers \/ On
    \/ Deliver
RespSpec == RespInit /\ [][RespNext]_respVars
-----------------------------------------------------------------------------
(* The client, with the whole response in hand: parseRawResponse. *)

RECURSIVE Dechunked(_, _)
Dechunked(s, out) ==
    IF s = <<>> \/ Head(s).t # "size" \/ Head(s).v = 0 THEN out
    ELSE Dechunked(SubSeq(s, Head(s).v + 3, Len(s)), out \o SubSeq(s, 2, Head(s).v + 1))
dechunk(s) == Dechunked(s, <<>>)
parseRawResponse(s) ==
    LET body == IF Has(Head(s).v, "transfer-encoding") THEN dechunk(Tail(s)) ELSE Tail(s)
    IN  [i \in DOMAIN body |-> body[i].v]

\* What calls made before the head went out ask of a header.
Asked(k) ==
    FoldLeft(LAMBDA acc, c : IF c[2] # k THEN acc
                             ELSE CASE c[1] = "set" -> <<c[3]>> [] c[1] = "append" -> Append(acc, c[3]) [] OTHER -> <<>>,
             <<>>, told.heads)

\* Whatever order the calls come in, the client gets one head, first; the head says what was
\* asked before it went; once the response is ended, what it reads in the announced framing is
\* what was written, in order, and a body in chunks has its end.
ReplyWhole ==
    /\ line # <<>> => line[1].t = "head" /\ \A i \in 2..Len(line) : line[i].t # "head"
    /\ line # <<>> => LET h == line[1].v IN
         /\ Asked("cookie") = IF Has(h, "cookie") THEN h["cookie"] ELSE <<>>
         /\ ~told.declared =>
              /\ parseRawResponse(line) = told.wrote
              /\ Has(h, "transfer-encoding") /\ reply.sent /\ ~reply.destroyed =>
                   Len(line) >= 2 /\ SubSeq(line, Len(line) - 1, Len(line)) = LastChunk
              /\ Has(h, "content-length") => h["content-length"] = <<Len(told.wrote)>>
    /\ reply.headersSent /\ line = <<>> => reply.destroyed
    /\ told.events \in {<<>>, <<"finish", "close">>} /\ (reply.sent <=> told.events # <<>>)

\* The listeners that are there when the body is handed over, and no later ones, hear it once,
\* 'data' before any 'end'.
BodyHeard ==
    LET heard == told.heard IN
    /\ message.due => heard = <<>>
    /\ \A i, j \in DOMAIN heard : heard[i] = heard[j] => i = j
    /\ \A i, j \in DOMAIN heard : heard[i][2] = "end" /\ heard[j][2] = "data" => j < i
    /\ ToSet(heard) = {<<i, message.listeners[i]>> : i \in {i \in 1..told.present :
                                            message.body # <<>> \/ message.listeners[i] = "end"}}

\* Neither end of a request loses or repeats a part of it.
AnswersWhole == ReplyWhole /\ BodyHeard
-----------------------------------------------------------------------------
(* OutgoingMessage: "node rejects ... a write after the headers went out". *)

\* A header that is set after the head was sent is refused.
LateHeadersRefused == [][reply.headersSent => reply'.headers = reply.headers]_respVars
=============================================================================
