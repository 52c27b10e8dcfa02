----------------------------- MODULE FileTrees -----------------------------
(***************************************************************************)
(* lib/fs.js on directories: mkdirSync with `recursive` and rmSync, each a *)
(* series of system calls between which another process may act, and the   *)
(* errors a call may meet half way.                                        *)
(***************************************************************************)
EXTENDS Integers, Sequences, FiniteSets

CONSTANT MaxOthers       \* steps of the other process, and system calls refused

VARIABLES tree,          \* what is at each path: "none", "dir", "file" or "link"
          request,       \* the call under way: what the program asked, or NoRequest
          calling,     \* its recursive calls, innermost last
          reply,         \* what the innermost call just returned, or NoReply
          outcome,       \* how the last request ended
          madeDirs,          \* directories this request has made
          others,        \* steps the other process has taken, and calls the kernel refused
          meddled        \* since the request began: <<path, what the other process made there>>,
                         \* and <<path, "refused">> for a call the kernel refused

treeVars == <<tree, request, calling, reply, outcome, madeDirs, others, meddled>>

FileNames == {"a", "b"}
\* <<"a", "b">> may be a symbolic link to the directory <<"b">>; nothing is deeper.
Link == <<"a", "b">>
Target == <<"b">>
Paths == {<<n>> : n \in FileNames} \cup {<<n, m>> : n, m \in FileNames}

NoRequest == [op |-> "none", path |-> <<>>, recursive |-> FALSE, force |-> FALSE]
NoReply == [kind |-> "none", first |-> <<>>]
Nothing == <<>>    \* an `undefined` result

TreeInit ==
    /\ tree = [p \in Paths |-> "none"]
    /\ request = NoRequest /\ calling = <<>> /\ reply = NoReply
    /\ outcome = NoReply /\ madeDirs = {} /\ others = 0 /\ meddled = {}

parentDir(p) == SubSeq(p, 1, Len(p) - 1)
\* The entry a path names when the kernel follows a link on the way.
Real(p) == IF Len(p) = 3 /\ parentDir(p) = Link /\ tree[Link] = "link" THEN Target \o <<p[3]>> ELSE p
What(p) == IF p = <<>> THEN "dir" ELSE IF Real(p) \in Paths THEN tree[Real(p)] ELSE "none"
IsDir(p) == \/ What(p) = "dir"
            \/ What(p) = "link" /\ tree[Target] = "dir"
Entries(p) == {n \in FileNames : What(Append(p, n)) # "none"}

Call == calling[Len(calling)]
Callers == SubSeq(calling, 1, Len(calling) - 1)
AtRest == request = NoRequest
Active(fn, phase) == calling # <<>> /\ reply = NoReply /\ Call.fn = fn /\ Call.phase = phase

CallOf(fn, p) == [fn |-> fn, path |-> p, phase |-> "start", first |-> Nothing, left |-> <<>>]
Stay(phase) == calling' = [calling EXCEPT ![Len(calling)].phase = phase] /\ UNCHANGED <<reply, request, outcome>>
\* A recursive call returns to its caller, the outermost to the program; a throw
\* leaves them all, as nothing between catches it.
Gives(first) ==
    LET answer == [kind |-> "returned", first |-> first]
    IN  /\ calling' = Callers
        /\ IF Callers = <<>> THEN /\ outcome' = answer
                                /\ reply' = NoReply /\ request' = NoRequest
           ELSE reply' = answer /\ UNCHANGED <<request, outcome>>
GivesUp ==
    /\ outcome' = [kind |-> "threw", first |-> Nothing]
    /\ calling' = <<>> /\ reply' = NoReply /\ request' = NoRequest

-----------------------------------------------------------------------------
(* The program's calls. *)

Begins(r, fn) ==
    /\ AtRest
    /\ request' = r /\ calling' = <<CallOf(fn, r.path)>>
    /\ madeDirs' = {} /\ meddled' = {} /\ outcome' = NoReply
    /\ UNCHANGED <<tree, reply, others>>
mkdirRecursive(p) == Begins([NoRequest EXCEPT !.op = "mkdir", !.path = p, !.recursive = TRUE], "mkdirp")
rmSync(p, recursive, force) ==
    Begins([op |-> "rm", path |-> p, recursive |-> recursive, force |-> force], "rm")

\* mkdirSync without `recursive`, writeFileSync of a new file, symlinkSync: one
\* system call each.
CanMake(p) == What(p) = "none" /\ What(parentDir(p)) = "dir"
Makable(p) == {"dir", "file"} \cup (IF p = Link THEN {"link"} ELSE {})
MakeOne(p, kind) == tree' = [tree EXCEPT ![p] = kind]
ProgramMakes(p) ==
    /\ AtRest /\ CanMake(p)
    /\ \E kind \in Makable(p) : MakeOne(p, kind)
    /\ UNCHANGED <<request, calling, reply, outcome, madeDirs, others, meddled>>

-----------------------------------------------------------------------------
(* mkdirp(p): try, on ENOENT make the parent and try again. *)

Kernel == UNCHANGED <<others, meddled>>
Denied ==
    /\ others < MaxOthers
    /\ others' = others + 1 /\ meddled' = meddled \cup {<<Call.path, "refused">>}
    /\ UNCHANGED <<tree, madeDirs>>
mkdirpRefused ==
    /\ Active("mkdirp", "start") \/ Active("mkdirp", "again")
    /\ Denied /\ GivesUp

\* __mkdirSync and the errno it answers: after EEXIST the path is looked at again, and
\* a missing parent is made once.
Enoent(p) == What(parentDir(p)) = "none"
Mkdir(phase) ==
    LET p == Call.path
    IN  /\ Active("mkdirp", phase)
        /\ \/ /\ CanMake(p)
              /\ MakeOne(p, "dir") /\ madeDirs' = madeDirs \cup {p}
              /\ Gives(IF phase = "start" \/ Call.first = Nothing THEN p ELSE Call.first)
           \/ /\ What(p) # "none" /\ Stay("look") /\ UNCHANGED <<tree, madeDirs>>
           \/ /\ What(p) = "none" /\ Enoent(p) /\ phase = "start"
              /\ calling' = Append([calling EXCEPT ![Len(calling)].phase = "again"],
                                     CallOf("mkdirp", parentDir(p)))
              /\ UNCHANGED <<tree, madeDirs, reply, request, outcome>>
           \/ /\ What(p) = "none" /\ ~CanMake(p) /\ (Enoent(p) => phase = "again")
              /\ GivesUp /\ UNCHANGED <<tree, madeDirs>>
        /\ Kernel
mkdirpTry == Mkdir("start")
mkdirpAgain == Mkdir("again")

(* Mutant of mkdirpParent: what the parent's call made is forgotten. *)
mkdirpParent_Forgets ==
    /\ reply # NoReply /\ Call.fn = "mkdirp"
    /\ reply' = NoReply
    /\ UNCHANGED <<tree, calling, request, outcome, madeDirs>> /\ Kernel

mkdirpParent ==
    /\ reply # NoReply /\ Call.fn = "mkdirp"
    /\ calling' = [calling EXCEPT ![Len(calling)].first = reply.first]
    /\ reply' = NoReply
    /\ UNCHANGED <<tree, request, outcome, madeDirs>> /\ Kernel
\* EEXIST is fine when __isDir says that a directory is there.
mkdirpLook ==
    /\ Active("mkdirp", "look")
    /\ IF IsDir(Call.path) THEN Gives(Call.first) ELSE GivesUp
    /\ UNCHANGED <<tree, madeDirs>> /\ Kernel

-----------------------------------------------------------------------------
(* rmSync: lstat, so that a link is removed and never walked; then its entries; the
   results of unlink and rmdir are not looked at. *)

Lstat(p) == What(p)
Missing == IF request.force THEN Gives(Nothing) ELSE GivesUp
rmLstat ==
    /\ Active("rm", "start")
    /\ LET there == Lstat(Call.path)
       IN  IF there = "none" THEN Missing
           ELSE Stay(IF there = "dir" THEN "list" ELSE "unlink")
    /\ UNCHANGED <<tree, madeDirs>> /\ Kernel

TakeAway(p) == IF What(p) \in {"file", "link"} THEN [tree EXCEPT ![Real(p)] = "none"] ELSE tree
rmUnlink ==
    /\ Active("rm", "unlink")
    /\ tree' = TakeAway(Call.path)
    /\ Gives(Nothing)
    /\ UNCHANGED madeDirs /\ Kernel

Ordered(ns) == SelectSeq(<<"a", "b">>, LAMBDA n : n \in ns)
Listed(names) ==
    /\ calling' = [calling EXCEPT ![Len(calling)].phase = "each",
                                  ![Len(calling)].left = Ordered(names)]
    /\ UNCHANGED <<reply, request, outcome>>
\* readdir follows a link that has come to stand where lstat saw a directory.
rmList ==
    /\ Active("rm", "list")
    /\ LET names == Entries(Call.path)
       IN  IF names # {} /\ ~request.recursive THEN GivesUp ELSE Listed(names)
    /\ UNCHANGED <<tree, madeDirs>> /\ Kernel
rmEach ==
    /\ Active("rm", "each") /\ Call.left # <<>>
    /\ calling' = Append([calling EXCEPT ![Len(calling)].left = Tail(@)],
                           CallOf("rm", Append(Call.path, Head(Call.left))))
    /\ UNCHANGED <<tree, reply, request, outcome, madeDirs>> /\ Kernel
rmReturned ==
    /\ reply # NoReply /\ Call.fn = "rm"
    /\ reply' = NoReply
    /\ UNCHANGED <<tree, calling, request, outcome, madeDirs>> /\ Kernel
rmRmdir ==
    /\ Active("rm", "each") /\ Call.left = <<>>
    /\ tree' = IF What(Call.path) = "dir" /\ Entries(Call.path) = {}
               THEN [tree EXCEPT ![Real(Call.path)] = "none"] ELSE tree
    /\ Gives(Nothing)
    /\ UNCHANGED madeDirs /\ Kernel

\* The kernel refuses one of its calls: a directory that cannot be read has no names, an
\* entry that cannot be looked at is missing, and nobody asks what became of the rest.
rmRefused ==
    /\ \/ Active("rm", "start") /\ Missing
       \/ Active("rm", "list") /\ Listed({})
       \/ (Active("rm", "unlink") \/ (Active("rm", "each") /\ Call.left = <<>>)) /\ Gives(Nothing)
    /\ Denied

-----------------------------------------------------------------------------
(* The other process makes a directory, a file or a link, or removes one: between two *)
(* steps of a removal it may put a link where a directory was.                        *)

OtherActs(p) ==
    /\ ~AtRest /\ others < MaxOthers
    /\ \/ /\ CanMake(p)
          /\ \E kind \in Makable(p) : MakeOne(p, kind) /\ meddled' = meddled \cup {<<p, kind>>}
       \/ /\ What(p) \in {"file", "link"} \/ (What(p) = "dir" /\ Entries(p) = {})
          /\ MakeOne(p, "none") /\ UNCHANGED meddled
    /\ others' = others + 1
    /\ UNCHANGED <<request, calling, reply, outcome, madeDirs>>

TreeNext ==
    \/ \E p \in Paths : \/ mkdirRecursive(p) \/ ProgramMakes(p) \/ OtherActs(p)
                        \/ \E recursive, force \in BOOLEAN : rmSync(p, recursive, force)
    \/ mkdirpTry \/ mkdirpAgain \/ mkdirpParent \/ mkdirpLook \/ mkdirpRefused
    \/ rmLstat \/ rmUnlink \/ rmList \/ rmEach \/ rmReturned \/ rmRmdir \/ rmRefused

-----------------------------------------------------------------------------

\* mkdirSync(p, { recursive: true }) that returns leaves a directory at p, and answers
\* the topmost directory it made itself, or undefined if it made none, though another
\* process makes and removes directories on the way (mkdirp: "Returns the first
\* directory created, or undefined when nothing was").
Top == IF madeDirs' = {} THEN Nothing ELSE CHOOSE p \in madeDirs' : \A q \in madeDirs' : Len(p) <= Len(q)
MkdirAnswers ==
    [][request.op = "mkdir" /\ outcome' # outcome /\ outcome'.kind = "returned" =>
          /\ \/ tree'[request.path] = "dir"
             \/ tree'[request.path] = "link" /\ tree'[Target] = "dir"
          /\ outcome'.first = Top]_treeVars

\* rmSync removes what is in the tree it was given and nothing else: a link inside it
\* goes, what the link points to stays (rmSync: "a symlink to a directory must be
\* unlinked, not walked"), whatever another process makes and removes meanwhile, but
\* for a link it puts there after the call began.
Inside(p, q) == Len(p) <= Len(q) /\ SubSeq(q, 1, Len(p)) = p
RemovesInside ==
    [][request.op = "rm" /\ others' = others /\ (\A m \in meddled : m[2] # "link") =>
          \A q \in Paths : tree'[q] # tree[q] => Inside(request.path, q)]_treeVars

\* What rmSync leaves when it returns: only what another process made in the tree after
\* the call began, what it met a refusal at, and the directories that hold them.  Left
\* alone it leaves nothing.
RemovesAll ==
    [][request.op = "rm" /\ outcome' # outcome /\ outcome'.kind = "returned" =>
          \A q \in Paths : Inside(request.path, q) /\ tree'[q] # "none" =>
              \E m \in meddled' : Inside(q, m[1]) \/ (m[2] = "refused" /\ Inside(m[1], q))]_treeVars

-----------------------------------------------------------------------------
(* What a caller may expect and the code does not do *)

\* A link is "unlinked, not walked" also when it takes a directory's place between lstat
\* and readdir: the code walks it and removes what it points to.
NeverWalksLinks ==
    [][request.op = "rm" /\ others' = others =>
          \A q \in Paths : tree'[q] # tree[q] => Inside(request.path, q)]_treeVars

\* A removal that could not remove says so: the results of unlink and rmdir are not
\* looked at, and the call returns as if all were gone.
RemoveTells ==
    [][request.op = "rm" /\ outcome' # outcome /\ outcome'.kind = "returned" =>
          \A q \in Paths : Inside(request.path, q) => tree'[q] = "none"]_treeVars
=============================================================================
