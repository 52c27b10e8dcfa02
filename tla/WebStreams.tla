----------------------------- MODULE WebStreams ----------------------------
(***************************************************************************)
(* ReadableStream of lib/prelude.js with its controller and readers, and   *)
(* the body accessors of Request and Response that collect one             *)
(* (__streamToString).  The producer enqueues, closes or fails at times of *)
(* its own; a reader's read() is answered at once or waits; text() is a    *)
(* chain of reads, one job each.                                           *)
(***************************************************************************)
EXTENDS Integers, Sequences, FiniteSets

CONSTANTS MaxChunks,    \* chunks the producer enqueues
          MaxReads,     \* read() calls of the program
          Texts         \* text() calls on the body

ASSUME WebStreamsAssumption == MaxChunks \in Nat /\ MaxReads \in Nat /\ 0 \notin Texts

VARIABLES chunks,       \* _chunks
          closed, err,  \* _closed, and whether _err is truthy
          mute,         \* the producer failed its stream with a falsy reason
          waiters,      \* the promises of reads nobody has answered
          put,          \* chunks enqueued
          taken,        \* what reads were answered with, in order
          text,         \* text() call -> [state, acc]
          reads,        \* read() calls of the program so far
          cancelled,    \* the consumer cancelled
          ended         \* the producer has closed or failed its stream

webVars == <<chunks, closed, err, mute, waiters, put, taken, text, reads, cancelled, ended>>

Program == 0

WebInit ==
    /\ chunks = <<>> /\ waiters = <<>> /\ taken = <<>>
    /\ closed = FALSE /\ err = FALSE /\ mute = FALSE /\ cancelled = FALSE /\ ended = FALSE
    /\ put = 0 /\ reads = 0
    /\ text = [t \in Texts |-> [state |-> "none", acc |-> <<>>]]

\* A read is answered with a chunk, the end or the failure: for the program, or
\* for the text() that asked, which goes on in a job or ends.
After(t, r, x) ==
    IF r = Program THEN t
    ELSE IF x > 0 THEN [t EXCEPT ![r] = [state |-> "step", acc |-> Append(@.acc, x)]]
    ELSE [t EXCEPT ![r].state = IF x = 0 THEN "done" ELSE "failed"]

End  == 0
Lost == -1
AfterAll(t, rs, x) == [r \in Texts |-> IF \E k \in DOMAIN rs : rs[k] = r THEN After(t, r, x)[r] ELSE t[r]]

\* controller.enqueue: straight to the oldest waiting read, or queued.  The producer
\* is not told of a cancel(), and is assumed to stop after its own close or error.
enqueue ==
    /\ put < MaxChunks /\ ~ended
    /\ put' = put + 1
    /\ IF waiters # <<>>
       THEN /\ waiters' = Tail(waiters)
            /\ text' = After(text, Head(waiters), put')
            /\ taken' = Append(taken, put')
            /\ UNCHANGED chunks
       ELSE chunks' = Append(chunks, put') /\ UNCHANGED <<waiters, text, taken>>
    /\ UNCHANGED <<closed, err, mute, reads, cancelled, ended>>

close ==
    /\ ~ended
    /\ ended' = TRUE /\ closed' = TRUE
    /\ text' = AfterAll(text, waiters, End)
    /\ waiters' = <<>>
    /\ UNCHANGED <<chunks, err, mute, put, taken, reads, cancelled>>

\* controller.error(e) rejects the reads that wait.  Those that come later look at
\* whether the reason is truthy (`if (self._err)`): error() without one, or with null,
\* 0 or "", leaves a stream that is neither failed nor closed.
error ==
    /\ ~ended
    /\ \E truthy \in BOOLEAN : err' = truthy /\ mute' = ~truthy
    /\ ended' = TRUE
    /\ text' = AfterAll(text, waiters, Lost)
    /\ waiters' = <<>>
    /\ UNCHANGED <<chunks, closed, put, taken, reads, cancelled>>

\* reader.read: the failure first, then what is queued, then the end.
Read(r) ==
    CASE err -> text' = After(text, r, Lost) /\ UNCHANGED <<chunks, taken, waiters>>
      [] ~err /\ chunks # <<>> ->
            /\ text' = After(text, r, Head(chunks))
            /\ taken' = Append(taken, Head(chunks))
            /\ chunks' = Tail(chunks)
            /\ UNCHANGED waiters
      [] ~err /\ chunks = <<>> /\ closed -> text' = After(text, r, End) /\ UNCHANGED <<chunks, taken, waiters>>
      [] ~err /\ chunks = <<>> /\ ~closed ->
            /\ waiters' = Append(waiters, r)
            /\ text' = IF r = Program THEN text ELSE [text EXCEPT ![r].state = "waits"]
            /\ UNCHANGED <<chunks, taken>>

read ==
    /\ reads < MaxReads
    /\ reads' = reads + 1
    /\ Read(Program)
    /\ UNCHANGED <<closed, err, mute, put, cancelled, ended>>

\* cancel: marks the stream closed, and nothing else.
cancel ==
    /\ ~closed
    /\ closed' = TRUE /\ cancelled' = TRUE
    /\ UNCHANGED <<chunks, err, mute, waiters, put, taken, text, reads, ended>>

\* text(): __streamToString, a read and then a job per chunk.
textBegins(t) ==
    /\ text[t].state = "none"
    /\ Read(t)
    /\ UNCHANGED <<closed, err, mute, put, reads, cancelled, ended>>
textStep(t) ==
    /\ text[t].state = "step"
    /\ Read(t)
    /\ UNCHANGED <<closed, err, mute, put, reads, cancelled, ended>>

WebNext == \/ enqueue \/ close \/ error \/ read \/ cancel
           \/ \E t \in Texts : textBegins(t) \/ textStep(t)

\* Jobs run; the producer is assumed to end its stream.
WebFairness == /\ WF_webVars(close \/ error)
               /\ \A t \in Texts : WF_webVars(textStep(t))

-----------------------------------------------------------------------------

\* Reads hand out the chunks in the order they were enqueued, none twice, and
\* what nobody read is still queued; no read waits beside a chunk.
ChunksInOrder ==
    /\ taken \o chunks = [k \in 1..put |-> k]
    /\ waiters # <<>> => chunks = <<>>

\* A text() that is the only consumer and is answered has the whole body: nothing
\* of it is lost between two of its reads, whenever the producer runs.
TextIsWhole ==
    \A t \in Texts :
        text[t].state = "done" /\ ~cancelled /\ reads = 0
            /\ (\A u \in Texts : u # t => text[u].state = "none")
        => text[t].acc = [k \in 1..put |-> k]

\* A consumer is told of the end and of a failure: no read is left waiting on a
\* stream its producer has closed or failed, also by a second consumer's cancel();
\* but for one that came after a failure without a reason.
NoneLeftWaiting == waiters # <<>> => ~err /\ (ended => mute)

\* text() is answered when the producer ends its stream, also if the consumer has
\* cancelled it in between; a text() between two reads is not, if the producer
\* failed without a reason.  (cancel() itself answers nobody.)
TextSettles == \A t \in Texts :
    text[t].state \in {"waits", "step"} ~> text[t].state \in {"done", "failed"} \/ mute

-----------------------------------------------------------------------------
(* What a reader may expect and the code does not do *)

\* Whatever the reason of a failure, it ends every read, also a later one.
FailureEndsReads == waiters # <<>> => ~ended
=============================================================================
