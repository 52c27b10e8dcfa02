------------------------------- MODULE Lines -------------------------------
(***************************************************************************)
(* lib/readline.js: an Interface cuts the chunks of its input into lines   *)
(* and hands each to a question, a waiting iterator request, or the 'line' *)
(* listeners and a queue for whoever asks later.  A text is a sequence of  *)
(* the characters that matter: "a" stands for any other than CR and LF.    *)
(***************************************************************************)
EXTENDS Integers, Sequences, FiniteSets

CONSTANTS MaxText,      \* characters of the input
          MaxRequests   \* questions and iterator requests of the program

VARIABLES text,         \* the whole input
          fed,          \* characters the stream has delivered
          _pending,      \* _pending
          todo,         \* lines found in the chunk in hand and not yet handed out
          linesOut,      \* lines handed out, in order
          lineQueue,    \* _lineQueue
          taken,        \* lines that went to a question or a request
          waiters,      \* iterator requests that wait
          question,     \* _questionCb is set
          requests,     \* requests made
          inputEnded,        \* the input has ended
          lineClosed    \* closed

lineVars == <<text, fed, _pending, todo, linesOut, lineQueue, taken, waiters, question,
              requests, inputEnded, lineClosed>>

Chars == {"a", "cr", "lf"}

LineInit ==
    /\ text \in UNION {[1..k -> Chars] : k \in 0..MaxText}
    /\ fed = 0
    /\ _pending = <<>> /\ todo = <<>> /\ linesOut = <<>> /\ lineQueue = <<>> /\ taken = <<>>
    /\ waiters = 0 /\ requests = 0
    /\ question = FALSE /\ inputEnded = FALSE /\ lineClosed = FALSE

\* The scan of _feed: a line ends at LF (dropping a CR before it), or at a CR
\* that some other character follows; a CR at the very end is held back with the
\* line it ends.  The state is [start, lines]; the rest from start is pending.
Cut(buf, start, k) == SubSeq(buf, start, k - 1)

ScanStep(buf, s, k) ==
    LET cr == k > s.start /\ buf[k - 1] = "cr"
    IN  IF buf[k] = "lf"
        THEN [start |-> k + 1, lines |-> Append(s.lines, Cut(buf, s.start, IF cr THEN k - 1 ELSE k))]
        ELSE IF buf[k] = "cr" /\ k < Len(buf) /\ buf[k + 1] # "lf"
        THEN [start |-> k + 1, lines |-> Append(s.lines, Cut(buf, s.start, k))]
        ELSE s
Scan(buf) ==
    LET F[k \in 0..Len(buf)] == IF k = 0 THEN [start |-> 1, lines |-> <<>>]
                                ELSE ScanStep(buf, F[k - 1], k)
    IN  F[Len(buf)]

\* A chunk arrives: its lines are handed out one by one, and listeners run
\* between them.
feed ==
    /\ todo = <<>> /\ ~lineClosed /\ fed < Len(text)
    /\ \E k \in fed + 1 .. Len(text) :
          LET buf == _pending \o SubSeq(text, fed + 1, k)
              s == Scan(buf)
          IN  /\ fed' = k
              /\ todo' = s.lines
              /\ _pending' = SubSeq(buf, s.start, Len(buf))
    /\ UNCHANGED <<text, linesOut, lineQueue, taken, waiters, question, requests, inputEnded, lineClosed>>

\* _emitLine: a question first, then a waiting request, else the queue.
emitLine ==
    /\ todo # <<>>
    /\ todo' = Tail(todo)
    /\ linesOut' = Append(linesOut, Head(todo))
    /\ IF question THEN question' = FALSE /\ taken' = Append(taken, Head(todo)) /\ UNCHANGED <<waiters, lineQueue>>
       ELSE IF waiters > 0
       THEN waiters' = waiters - 1 /\ taken' = Append(taken, Head(todo)) /\ UNCHANGED <<question, lineQueue>>
       ELSE lineQueue' = Append(lineQueue, Head(todo)) /\ UNCHANGED <<question, waiters, taken>>
    /\ UNCHANGED <<text, fed, _pending, requests, inputEnded, lineClosed>>

\* close: unsubscribes and ends the requests that wait.
Closed == lineClosed' = TRUE /\ waiters' = 0

\* 'end': what is pending is the last line; the interface closes after it.
Flushed == IF _pending = <<>> THEN <<>> ELSE <<_pending>>
inputEnds ==
    /\ todo = <<>> /\ fed = Len(text) /\ ~inputEnded /\ ~lineClosed
    /\ inputEnded' = TRUE
    /\ todo' = Flushed
    /\ _pending' = <<>>
    /\ UNCHANGED <<text, fed, linesOut, lineQueue, taken, waiters, question, requests, lineClosed>>
endCloses ==
    /\ inputEnded /\ todo = <<>> /\ ~lineClosed
    /\ Closed
    /\ UNCHANGED <<text, fed, _pending, todo, linesOut, lineQueue, taken, question, requests, inputEnded>>

\* The program closes, perhaps from a listener between two lines of a chunk.
programCloses ==
    /\ ~lineClosed
    /\ Closed
    /\ UNCHANGED <<text, fed, _pending, todo, linesOut, lineQueue, taken, question, requests, inputEnded>>

\* question: an old line if there is one, else the next.
Ask == requests < MaxRequests /\ requests' = requests + 1
TakeQueued == /\ lineQueue # <<>>
              /\ taken' = Append(taken, Head(lineQueue))
              /\ lineQueue' = Tail(lineQueue)
ask ==
    /\ Ask
    /\ \/ TakeQueued /\ UNCHANGED question
       \/ lineQueue = <<>> /\ question' = TRUE /\ UNCHANGED <<lineQueue, taken>>
    /\ UNCHANGED <<text, fed, _pending, todo, linesOut, waiters, inputEnded, lineClosed>>

\* The iterator's next.
nextLine ==
    /\ Ask
    /\ \/ TakeQueued /\ UNCHANGED waiters
       \/ lineQueue = <<>> /\ waiters' = (IF lineClosed THEN waiters ELSE waiters + 1)
                           /\ UNCHANGED <<lineQueue, taken>>
    /\ UNCHANGED <<text, fed, _pending, todo, linesOut, question, inputEnded, lineClosed>>

LineNext == feed \/ emitLine \/ inputEnds \/ endCloses \/ programCloses \/ ask \/ nextLine

-----------------------------------------------------------------------------

\* The lines of a text, said without scanning: a separator is a CR LF pair, or a
\* CR or an LF that is not part of one; a last line needs no separator.
Pair(k) == k < Len(text) /\ text[k] = "cr" /\ text[k + 1] = "lf"
LineEnds == {k \in 1..Len(text) : text[k] \in {"cr", "lf"} /\ ~Pair(k)}
StartOf(k) == LET before == {j \in LineEnds : j < k}
              IN  IF before = {} THEN 1 ELSE 1 + CHOOSE j \in before : \A i \in before : i <= j
LineAt(k) == SubSeq(text, StartOf(k), IF k > 1 /\ Pair(k - 1) THEN k - 2 ELSE k - 1)
Nth(i) == CHOOSE k \in LineEnds : Cardinality({j \in LineEnds : j <= k}) = i
Remainder == SubSeq(text, StartOf(Len(text) + 1), Len(text))
TextLines == [i \in 1..Cardinality(LineEnds) |-> LineAt(Nth(i))]
                \o (IF Remainder = <<>> THEN <<>> ELSE <<Remainder>>)
PrefixOf(s, t) == Len(s) <= Len(t) /\ s = SubSeq(t, 1, Len(s))

\* The lines do not depend on where the chunks were cut: in particular a CR LF
\* pair split between two chunks is one separator (readline.js:30-31).  A text
\* that ends in a CR is left out: its last line is handed out with the CR in it.
ChunkingInvisible ==
    text = <<>> \/ text[Len(text)] # "cr" =>
        /\ PrefixOf(linesOut \o todo, TextLines)
        /\ inputEnded => linesOut \o todo = TextLines

\* Every line goes to one asker, in order, or waits in the queue; nobody waits
\* while the queue holds a line, nor after the interface is closed.
LinesTakenInOrder ==
    /\ taken \o lineQueue = linesOut
    /\ waiters > 0 => lineQueue = <<>> /\ ~lineClosed
    /\ question => lineQueue = <<>>
=============================================================================
