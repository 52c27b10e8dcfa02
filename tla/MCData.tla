-------------------------------- MODULE MCData --------------------------------
(* The parts of the library that answer one call at a time - regular expressions,  *)
(* buffers, structures, assertions, addresses - and the two ends of a request, side *)
(* by side.  They share no state: a behaviour chooses one of them in its first     *)
(* state and the others stay as they begin.                                        *)
EXTENDS Integers, Sequences

CONSTANTS MaxSubject, MaxTemplate, Radix, StoreLength, MaxWord, MaxAddress, MaxCalls

VARIABLES
    part,        \* the part this behaviour is about
    subject, at, flags, native, lastIndex, answers, template,
    store, viewA, viewB, call,
    graph, hook, transfer,
    tested, expected,
    ask,
    reply, line, message, told, calls

R == INSTANCE RegExps
B == INSTANCE Buffers
S == INSTANCE Structures
A == INSTANCE Assertions
Q == INSTANCE Queries
H == INSTANCE Responses

still == <<subject, at, flags, native, lastIndex, answers, template,
           store, viewA, viewB, call, graph, hook, transfer, tested, expected, ask>>

Parts == {"regexps", "buffers", "structures", "assertions", "queries", "responses"}

Init ==
    /\ part \in Parts
    /\ IF part = "regexps" THEN R!RegExpInit ELSE R!RegExpIdle
    /\ IF part = "buffers" THEN B!BufInit ELSE B!BufIdle
    /\ IF part = "structures" THEN S!StructInit ELSE S!StructIdle
    /\ IF part = "assertions" THEN A!AssertInit ELSE A!AssertIdle
    /\ IF part = "queries" THEN Q!QueryInit ELSE Q!QueryIdle
    /\ IF part = "responses" THEN H!RespInit ELSE H!RespIdle

\* Only a handler makes several calls; each state of the other parts is one call.
Next == part = "responses" /\ H!RespNext /\ UNCHANGED <<part, still>>

vars == <<part, still, reply, line, message, told, calls>>

Spec == Init /\ [][Next]_vars

-----------------------------------------------------------------------------

\* match, matchAll, search, split and replace find what the pattern finds, end and lose no
\* text, but for the character that is skipped after an empty match of the native exec,
\* from any lastIndex and with any of the flags "g", "u" and "y" (engine-prelude.js);
\* queries, addresses, file names, chunked bodies and request heads - of characters of the
\* BMP - are read as they were written, whichever module reads them (querystring.js, url.js, prelude.js, http.js).
TextsKept ==
    /\ part = "regexps" => R!RegExpsWhole
    /\ part = "queries" => Q!QueriesKept

\* Reads, writes, fills, copies and encodings of a Buffer touch their own bytes only, and
\* what is written is read back (buffer.js).
BytesKept == part = "buffers" => B!BuffersWhole

\* Deep equality and JSON agree on what a graph of objects holds, cycles and shared objects
\* included; the engine's structuredClone keeps both, the runtime's what a tree can say;
\* throws and rejects pass exactly the errors they are told to expect, but for a class
\* whose call answers an object (assert.js, engine-prelude.js, prelude.js).
ValuesCompared ==
    /\ part = "structures" => S!StructuresWalked
    /\ part = "assertions" => A!ExpectationsHold

\* A response is one head and the body the handler wrote, framed so that the client finds
\* its end, and the request's body is heard once and whole (http.js).
AnswersFramed == part = "responses" => H!AnswersWhole
=============================================================================
