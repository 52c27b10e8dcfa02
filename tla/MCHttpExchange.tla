--------------------------- MODULE MCHttpExchange ---------------------------
(* One connection between a client and an accepted socket, and the programs:   *)
(* sockets alone, a request answered in every framing, and one given up.       *)
EXTENDS HttpExchange

CONSTANTS c1, s1

MCPeer == c1 :> s1 @@ s1 :> c1

Uses2(who, whom) == c1 :> who @@ s1 :> whom
Does(kind, uses, some, max, units) ==
  [server |-> kind, uses |-> uses, ops |-> some, max |-> max, units |-> units]

Raw == Uses2("program", "program")
Http == Uses2("request", "served")

MCPrograms ==
  { Does("net", Raw, {"connect", "write", "end", "pause", "resume"}, 5, 2),
    Does("net", Raw, {"connect", "write", "destroy", "setTimeout", "close"}, 5, 1),
    Does("none", Raw, {"connect", "write", "end", "destroy"}, 3, 1),
    Does("http", Http, {"request", "respond", "flush", "respondEnd"}, 5, 3),
    Does("http", Http, {"request", "respond", "respondEnd", "pauseResponse", "resumeResponse"}, 6, 2),
    Does("http", Http, {"request", "respond", "respondEnd", "abort", "hangUp", "destroyResponse"}, 4, 2),
    Does("none", Http, {"request", "abort", "destroyRequest", "timeoutRequest"}, 3, 0) }
=============================================================================
