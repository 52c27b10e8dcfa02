------------------------------ MODULE MCStreams ------------------------------
(* A source, a transform and a sink, and the programs that bring out one part  *)
(* of the library each: flowing and piping, corking, ending and destroying,    *)
(* the other classes of sink, and a pipeline.                                  *)
EXTENDS Streams

CONSTANTS r, t, w

Plain(kind) == [kind |-> kind, impl |-> FALSE, writev |-> FALSE, final |-> FALSE, hook |-> FALSE,
                auto |-> TRUE, from |-> FALSE]
Sink == [Plain("writable") EXCEPT !.impl = TRUE]
Source == Plain("readable")
Two(source, sink) == r :> source @@ w :> sink
Through(middle) == r :> Source @@ t :> middle @@ w :> Plain("writable")
Uses(make, some, max) == [make |-> make, ops |-> some, max |-> max,
                              path |-> IF t \in DOMAIN make THEN << r, t, w >> ELSE << r, w >>]

Flowing == {"push", "eof", "on", "pause", "resume", "read", "pipe", "unpipe"}

MCSetups ==
  { Uses(Two(Source, Plain("writable")), Flowing, 4),
    Uses(w :> Sink, {"write", "cork", "end"}, 4),
    Uses(w :> [Sink EXCEPT !.writev = TRUE], {"write", "cork", "uncork"}, 5),
    Uses(w :> [Plain("writable") EXCEPT !.hook = TRUE, !.final = TRUE], {"write", "end", "destroy"}, 3),
    Uses(w :> [Sink EXCEPT !.auto = FALSE], {"write", "end", "destroy"}, 3),
    Uses(w :> [Sink EXCEPT !.kind = "duplex"], {"write", "end", "on"}, 3),
    Uses(Through([Plain("transform") EXCEPT !.impl = TRUE]), {"push", "eof", "pipeline"}, 3),
    Uses(r :> [Source EXCEPT !.from = TRUE] @@ w :> Plain("transform"), {"pipeline"}, 1) }
=============================================================================
