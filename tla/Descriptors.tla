---------------------------- MODULE Descriptors ----------------------------
(***************************************************************************)
(* lib/fs.js on descriptors: numbers the kernel hands out again as soon as *)
(* they are closed, the paths fs remembers for them, FileHandles whose     *)
(* descriptor is closed by close() or by the collector, and the reads and  *)
(* writes that share one offset, whole or short.                           *)
(***************************************************************************)
EXTENDS Integers, Sequences, FiniteSets

CONSTANTS MaxFd,         \* descriptors 1..MaxFd
          MaxOpens,      \* files opened
          MaxIo,         \* reads and writes
          FileLength     \* bytes in the file

VARIABLES kernel,        \* what each descriptor number is open on: an opening, or 0
          openings,      \* openings so far; each is known by its number
          offset,        \* the offset of each opening
          _fdPaths,      \* the opening fs has a path remembered for, by number; 0 for none
          held,          \* descriptors the program got from openSync and has not closed
          handles,       \* the FileHandles: fd, the descriptor the native owner holds (0: none)
          lost,          \* handles the program can no longer reach
          finalQueue,         \* owners the collector took, waiting for the next turn
          closedBy,      \* <<opening closed, opening its closer meant>>
          wrong,         \* a closed handle's call that reached the kernel
          io,            \* reads and writes so far
          vector         \* the last readv or writev: asked, moved, the bytes it moved

fdVars == <<kernel, openings, offset, _fdPaths, held, handles, lost, finalQueue, closedBy, wrong, io, vector>>

Fds == 1..MaxFd
NoVector == [asked |-> <<>>, total |-> 0, moved |-> <<>>, from |-> 0]

FdInit ==
    /\ kernel = [f \in Fds |-> 0] /\ openings = 0 /\ offset = <<>>
    /\ _fdPaths = [f \in Fds |-> 0] /\ held = {} /\ handles = <<>> /\ lost = {} /\ finalQueue = <<>>
    /\ closedBy = <<>> /\ wrong = FALSE /\ io = 0 /\ vector = NoVector

-----------------------------------------------------------------------------

\* open(2) answers the lowest number that is free.
Free == {f \in Fds : kernel[f] = 0}
Lowest == CHOOSE f \in Free : \A g \in Free : f <= g
Opens ==
    /\ Free # {} /\ openings < MaxOpens
    /\ openings' = openings + 1 /\ offset' = Append(offset, 0)
    /\ kernel' = [kernel EXCEPT ![Lowest] = openings']
    /\ _fdPaths' = [_fdPaths EXCEPT ![Lowest] = openings']
    /\ UNCHANGED <<lost, finalQueue, closedBy, wrong, io, vector>>

openSync == Opens /\ held' = held \cup {<<Lowest, openings'>>} /\ UNCHANGED handles
\* fs.promises.open adopts the descriptor for its FileHandle.
FileHandle(fd, opening) == [fd |-> fd, owns |-> fd, opening |-> opening]
promisesOpen == Opens /\ handles' = Append(handles, FileHandle(Lowest, openings')) /\ UNCHANGED held

\* close(2) on a number, by someone who means one opening.
Close(fd, meant) ==
    /\ kernel' = [kernel EXCEPT ![fd] = 0]
    /\ closedBy' = IF kernel[fd] = 0 THEN closedBy ELSE Append(closedBy, <<kernel[fd], meant>>)
closeSync(h) ==
    /\ h \in held
    /\ _fdPaths' = [_fdPaths EXCEPT ![h[1]] = 0]
    /\ Close(h[1], h[2])
    /\ held' = held \ {h}
    /\ UNCHANGED <<openings, offset, handles, lost, finalQueue, wrong, io, vector>>

\* FileHandle.close(): the native owner is taken and closed once; a second close
\* resolves without doing anything.
Reachable(k) == k \in DOMAIN handles /\ k \notin lost

(* Mutant of close: the handle keeps its number. *)
close_KeepsFd(k) ==
    /\ Reachable(k)
    /\ LET h == handles[k]
       IN  IF h.owns = 0 THEN UNCHANGED <<kernel, closedBy, _fdPaths, handles>>
           ELSE /\ Close(h.owns, h.opening)
                /\ _fdPaths' = [_fdPaths EXCEPT ![h.fd] = 0]
                /\ handles' = [handles EXCEPT ![k].owns = 0]
    /\ UNCHANGED <<openings, offset, held, lost, finalQueue, wrong, io, vector>>

close(k) ==
    /\ Reachable(k)
    /\ LET h == handles[k]
       IN  IF h.owns = 0 THEN UNCHANGED <<kernel, closedBy, _fdPaths, handles>>
           ELSE /\ Close(h.owns, h.opening)
                /\ _fdPaths' = [_fdPaths EXCEPT ![h.fd] = 0]
                /\ handles' = [handles EXCEPT ![k].fd = -1, ![k].owns = 0]
    /\ UNCHANGED <<openings, offset, held, lost, finalQueue, wrong, io, vector>>

\* The program drops a handle; the collector queues the owner of one it dropped, and
\* between two turns the owner is closed and the hook told.
DropHandle(k) ==
    /\ Reachable(k) /\ lost' = lost \cup {k}
    /\ UNCHANGED <<kernel, openings, offset, _fdPaths, held, handles, finalQueue, closedBy, wrong, io, vector>>
collect(k) ==
    /\ k \in lost /\ handles[k].owns # 0
    /\ finalQueue' = Append(finalQueue, handles[k])
    /\ handles' = [handles EXCEPT ![k].owns = 0]
    /\ UNCHANGED <<kernel, openings, offset, _fdPaths, held, lost, closedBy, wrong, io, vector>>
drainFinalizers ==
    /\ finalQueue # <<>>
    /\ LET o == Head(finalQueue)
       IN  /\ Close(o.owns, o.opening)
           /\ _fdPaths' = [_fdPaths EXCEPT ![o.owns] = 0]
    /\ finalQueue' = Tail(finalQueue)
    /\ UNCHANGED <<openings, offset, held, handles, lost, wrong, io, vector>>

-----------------------------------------------------------------------------
(* Reads and writes. *)

\* A call on a handle: a closed one's fd is -1, which validateFd refuses.
validateFd(fd) == fd >= 0
Use(k) ==
    /\ Reachable(k) /\ io < MaxIo /\ io' = io + 1
    /\ wrong' = (wrong \/ (validateFd(handles[k].fd) /\ handles[k].owns = 0))
    /\ UNCHANGED <<kernel, openings, offset, _fdPaths, held, handles, lost, finalQueue, closedBy, vector>>

\* The file is a pattern: its byte j is j.
\* One read of up to n bytes at an offset: the file's end and nothing else cuts it short.
Least(a, b) == IF a < b THEN a ELSE b
Got(at, n) == Least(n, IF at >= FileLength THEN 0 ELSE FileLength - at)
Bytes(at, n) == [j \in 1..n |-> at + j]

\* A read or a write with a position seeks first: the offset moves with it.
At(o, position) == IF position = -1 THEN offset[o] ELSE position
readSync(h, n, position) ==
    /\ h \in held /\ io < MaxIo /\ io' = io + 1
    /\ LET from == At(h[2], position)
       IN  offset' = [offset EXCEPT ![h[2]] = from + Got(from, n)]
    /\ UNCHANGED <<kernel, openings, _fdPaths, held, handles, lost, finalQueue, closedBy, wrong, vector>>

\* readvSync: the buffers one after the other, until one is not filled.
ReadRun(from, sizes) ==
    LET run[i \in 0..Len(sizes)] ==
          IF i = 0 THEN [at |-> from, bytes |-> <<>>, more |-> TRUE]
          ELSE LET r == run[i - 1] IN
               IF ~r.more THEN r
               ELSE LET n == Got(r.at, sizes[i])
                    IN  [at |-> r.at + n, bytes |-> r.bytes \o Bytes(r.at, n), more |-> n = sizes[i]]
    IN  run[Len(sizes)]
readvSync(h, sizes, position) ==
    /\ h \in held /\ io < MaxIo /\ io' = io + 1
    /\ LET from == At(h[2], position)
           r == ReadRun(from, sizes)
       IN  /\ vector' = [asked |-> sizes, total |-> Len(r.bytes), moved |-> r.bytes, from |-> from]
           /\ offset' = [offset EXCEPT ![h[2]] = r.at]
    /\ UNCHANGED <<kernel, openings, _fdPaths, held, handles, lost, finalQueue, closedBy, wrong>>

FdNext ==
    \/ openSync \/ promisesOpen \/ drainFinalizers
    \/ \E h \in held : closeSync(h)
    \/ \E k \in DOMAIN handles : close(k) \/ DropHandle(k) \/ collect(k) \/ Use(k)
    \/ \E h \in held, n \in 1..2, position \in {-1, 0, 1} : readSync(h, n, position)
    \/ \E h \in held, a, b \in 0..2, position \in {-1, 0, 1} : readvSync(h, <<a, b, 1>>, position)

-----------------------------------------------------------------------------

\* A descriptor is closed by who opened it: close(), a second close() and the collector
\* in any order never close a number that the kernel has handed out again (FileHandle:
\* "whichever runs second finds it gone and never closes an fd number the kernel has
\* since reused").
OnlyOwnClosed == \A i \in DOMAIN closedBy : closedBy[i][1] = closedBy[i][2]

\* No descriptor leaks and none is forgotten: every open one is held by the program, owned
\* by exactly one handle or waiting to be closed.
EveryFdOwned ==
    \A f \in Fds :
        kernel[f] # 0 =>
          Cardinality({h \in held : h[1] = f}) + Cardinality({k \in DOMAIN handles : handles[k].owns = f})
             + Cardinality({i \in DOMAIN finalQueue : finalQueue[i].owns = f}) = 1

\* fstat's table follows the kernel's: a number has a path exactly while it is open, and
\* it is the path it was opened by, also after the number was used again.
FdPathsFollow == _fdPaths = kernel

\* A call on a closed handle never reaches the kernel under the old number.
ClosedStaysClosed == ~wrong

\* readv gives the bytes that one read of the buffers' total length would give, and moves
\* the offset past them.
VectorIsOneRead ==
    LET all == vector.asked
        want == IF all = <<>> THEN 0 ELSE all[1] + all[2] + all[3]
    IN  vector.moved = Bytes(vector.from, Got(vector.from, want))
=============================================================================
