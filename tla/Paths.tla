------------------------------- MODULE Paths -------------------------------
(***************************************************************************)
(* lib/path.js.  A POSIX path is the sequence p.split("/") gives: "" is    *)
(* <<"">>, "/" is <<"", "">>, "a//b/" is <<"a", "", "b", "">>; joining two *)
(* with a separator is concatenation.  A win32 path is what splitRoot      *)
(* makes of it: a kind of root, the device it names, and the rest.         *)
(***************************************************************************)
EXTENDS Integers, Sequences, SequencesExt

CONSTANTS Components,    \* what may stand between separators
          MaxComponents, \* the longest path
          cwd            \* process.cwd(), absolute

-----------------------------------------------------------------------------

UpOne(out) == SubSeq(out, 1, Len(out) - 1)

normalizeParts(parts, allowAboveRoot) ==
    LET Step(out, p) ==
          CASE p \in {"", "."} -> out
            [] p = ".." /\ out # <<>> /\ Last(out) # ".." -> UpOne(out)
            [] p = ".." /\ (out = <<>> \/ Last(out) = "..") ->
                  IF allowAboveRoot THEN Append(out, "..") ELSE out
            [] OTHER -> Append(out, p)
    IN  FoldLeft(Step, <<>>, parts)

Empty == <<"">>
Root == <<"", "">>
isAbsolute(p) == Len(p) > 1 /\ p[1] = ""
Trailing(p) == Len(p) > 1 /\ Last(p) = "" /\ p # Root

normalize(p) ==
    LET parts == normalizeParts(p, ~isAbsolute(p))
        body == IF parts = <<>> /\ ~isAbsolute(p) THEN <<".">> ELSE parts
    IN  IF isAbsolute(p) /\ body = <<>> THEN Root
        ELSE (IF isAbsolute(p) THEN <<"">> ELSE <<>>) \o body
                \o (IF Trailing(p) THEN <<"">> ELSE <<>>)

\* Arguments that are "" are skipped; the others are joined by a separator.
Given(args) == SelectSeq(args, LAMBDA a : a # Empty)
join(args) == IF Given(args) = <<>> THEN <<".">> ELSE normalize(FlattenSeq(Given(args)))

\* The arguments from the last absolute one on, or from the cwd.
From(args) ==
    LET all == <<cwd>> \o Given(args)
        roots == {i \in DOMAIN all : isAbsolute(all[i])}
    IN  SubSeq(all, CHOOSE i \in roots : \A j \in roots : j <= i, Len(all))
Rooted(parts) == IF parts = <<>> THEN Root ELSE <<"">> \o parts
resolve(args) == Rooted(normalizeParts(FlattenSeq(From(args)), FALSE))

\* How many leading components two sequences share.
Common(f, t) ==
    CHOOSE n \in 0..Len(f) :
        /\ n <= Len(t) /\ SubSeq(f, 1, n) = SubSeq(t, 1, n)
        /\ n < Len(f) /\ n < Len(t) => f[n + 1] # t[n + 1]
Proper(s) == SelectSeq(s, LAMBDA c : c # "")
After(s, n) == Proper(SubSeq(s, n + 1, Len(s)))
Climb(f, t, n) == [k \in 1..Len(After(f, n)) |-> ".."] \o After(t, n)
relative(a, b) ==
    LET f == resolve(<<a>>)
        t == resolve(<<b>>)
        way == Climb(f, t, Common(f, t))
    IN  IF way = <<>> THEN Empty ELSE way

\* The position of the last component that is not "" (0: none).
LastNamed(p) ==
    LET named == {i \in DOMAIN p : p[i] # ""}
    IN  IF named = {} THEN 0 ELSE CHOOSE i \in named : \A j \in named : j <= i
basename(p) == IF LastNamed(p) = 0 THEN "" ELSE p[LastNamed(p)]
\* What stands before the separator that precedes the last component.
dirname(p) ==
    LET before == SubSeq(p, 1, LastNamed(p) - 1)
    IN  IF LastNamed(p) <= 1 THEN (IF isAbsolute(p) THEN Root ELSE <<".">>)
        ELSE IF before = Empty THEN Root
        ELSE IF before = Root THEN <<"", "", "">>
        ELSE before

parse(p) == [root |-> isAbsolute(p), dir |-> dirname(p), base |-> basename(p)]
format(o) ==
    IF o.dir = Empty THEN <<o.base>>
    ELSE IF o.dir = Root THEN <<"", o.base>>
    ELSE Append(o.dir, o.base)

-----------------------------------------------------------------------------
(* win32: `root` is "" (relative), "\" (rooted on no drive), "C:" (relative to the
   drive), "C:\" (absolute) or "\\" (a share). *)

Lower(d) == IF d = "c" THEN "C" ELSE d
splitRoot(root, device, rest) ==
    [root |-> root, device |-> device, rest |-> rest,
     absolute |-> root \in {"\\", "C:\\", "\\\\"},
     drive |-> IF root \in {"C:", "C:\\"} THEN device ELSE ""]
Unrooted(rest) == splitRoot("", "", rest)

win32normalize(p) == [p EXCEPT !.rest = normalizeParts(p.rest, ~p.absolute)]

\* resolve scans its arguments from the last to the first, then the cwd; the device
\* and the absoluteness are found independently.
SegDevice(p) == IF p.drive # "" THEN p.drive ELSE IF p.root = "\\\\" THEN p.device ELSE ""
ScanArg(s, p) ==
    LET other == SegDevice(p) # "" /\ s.drive # "" /\ Lower(SegDevice(p)) # Lower(s.drive)
        drive == IF SegDevice(p) # "" THEN SegDevice(p) ELSE s.drive
        takes == ~s.absolute
    IN  IF other \/ (s.absolute /\ s.drive # "") THEN s
        ELSE [drive |-> drive,
              resolved |-> IF takes THEN p.rest \o s.resolved ELSE s.resolved,
              absolute |-> s.absolute \/ p.absolute]
win32resolve(args) ==
    LET s == FoldLeft(ScanArg, [drive |-> "", resolved |-> <<>>, absolute |-> FALSE], Reverse(args))
        last == IF s.drive # "" THEN splitRoot("C:\\", s.drive, <<>>)
                ELSE splitRoot("\\", "", Proper(cwd))
        all == ScanArg(s, last)
    IN  [drive |-> all.drive, parts |-> normalizeParts(all.resolved, FALSE)]

\* A resolved path, as a path again: its device is a drive or a share.
IsShare(d) == d = "S"
AsPath(r) == splitRoot(IF r.drive = "" THEN "\\" ELSE IF IsShare(r.drive) THEN "\\\\" ELSE "C:\\",
                       r.drive, r.parts)
win32relative(from, to) ==
    LET f == win32resolve(<<from>>)
        t == win32resolve(<<to>>)
    IN  IF f = t THEN Unrooted(<<>>)
        ELSE IF Lower(AsPath(f).drive) # Lower(AsPath(t).drive) THEN AsPath(t)
        ELSE Unrooted(Climb(f.parts, t.parts, Common(f.parts, t.parts)))

-----------------------------------------------------------------------------
(* One call of each function, on any two paths. *)

VARIABLES pathA, pathB,          \* POSIX paths
          winA, winB           \* win32 paths, or Plain(<<>>)

pathVars == <<pathA, pathB, winA, winB>>

PosixPaths(max) == UNION {[1..n -> Components] : n \in 1..max}
Win32Paths == {splitRoot(r[1], r[2], rest) :
                 r \in {<<"", "">>, <<"\\", "">>, <<"C:", "C">>, <<"C:\\", "C">>, <<"C:\\", "c">>,
                        <<"C:\\", "D">>, <<"\\\\", "S">>},
                 rest \in UNION {[1..n -> {"..", "a", "b"}] : n \in 0..2}}
PathInit ==
    \/ pathA \in PosixPaths(MaxComponents) /\ pathB \in PosixPaths(MaxComponents - 1) /\ winA = Unrooted(<<>>) /\ winB = Unrooted(<<>>)
    \/ pathA = Empty /\ pathB = Empty /\ winA \in Win32Paths /\ winB \in Win32Paths

-----------------------------------------------------------------------------

\* normalize names the place its argument names - from any directory, wherever "."
\* and ".." stand and however many of them climb past the start - and normalizing
\* again changes nothing.
NormalizeKeepsPlace ==
    /\ resolve(<<normalize(pathA)>>) = resolve(<<pathA>>)
    /\ resolve(<<pathB, normalize(pathA)>>) = resolve(<<pathB, pathA>>)
    /\ normalize(normalize(pathA)) = normalize(pathA)

\* relative(a, b), followed from a, leads to b, and so does joining the two.
RelativeLeadsThere ==
    /\ resolve(<<pathA, relative(pathA, pathB)>>) = resolve(<<pathB>>)
    /\ resolve(<<join(<<resolve(<<pathA>>), relative(pathA, pathB)>>)>>) = resolve(<<pathB>>)

\* join and resolve agree on a relative second argument.
JoinAgreesWithResolve ==
    ~isAbsolute(pathB) => resolve(<<join(<<pathA, pathB>>)>>) = resolve(<<pathA, pathB>>)

\* format(parse(p)) is p's place again, and a path's dirname joined with its basename too
\* (the source calls parse "the inverse of format()").
ParseThenFormat ==
    basename(pathA) \notin {"", "..", "."} =>
        /\ resolve(<<format(parse(pathA))>>) = resolve(<<pathA>>)
        /\ resolve(<<dirname(pathA), <<basename(pathA)>>>>) = resolve(<<pathA>>)

\* The same on win32 over drives, drive-relative and rooted paths, whose devices are
\* compared without case.  Left out: shares, as relative compares drives alone, and a
\* drive against none, which the cwd "/..." makes possible here.
SamePlace(r, s) == Lower(r.drive) = Lower(s.drive) /\ r.parts = s.parts
Win32RelativeLeadsThere ==
    winA.root # "\\\\" /\ winB.root # "\\\\" /\ (win32resolve(<<winA>>).drive = "") = (win32resolve(<<winB>>).drive = "") =>
        SamePlace(win32resolve(<<AsPath(win32resolve(<<winA>>)), win32relative(winA, winB)>>), win32resolve(<<winB>>))

\* A drive named anywhere among the arguments is the one the path ends on, unless a later
\* argument names another; normalizing an argument changes nothing.
Win32ResolveDevice ==
    /\ Lower(win32resolve(<<winA, winB>>).drive) =
          Lower(IF SegDevice(winB) # "" THEN SegDevice(winB) ELSE SegDevice(winA))
    /\ win32resolve(<<winA, win32normalize(winB)>>) = win32resolve(<<winA, winB>>)
=============================================================================
