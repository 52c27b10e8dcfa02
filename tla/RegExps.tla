------------------------------ MODULE RegExps ------------------------------
(***************************************************************************)
(* __reSpec of lib/engine-prelude.js: match, matchAll, search, split and   *)
(* replace for every regular expression that is not plain - a subclass, an *)
(* `exec` of its own.  A subject is a sequence of UTF-16 units: "c", and   *)
(* the halves "H" and "L" of a pair; a place in it is an index from 0.  A  *)
(* pattern is how many units it matches at each place, or -1; its one      *)
(* group, where a function uses groups, captures the whole match.          *)
(***************************************************************************)
EXTENDS Integers, Sequences, SequencesExt, FiniteSets, TLC

CONSTANTS MaxSubject,     \* the longest subject
          MaxTemplate     \* the longest replacement text

VARIABLES subject, at, flags,   \* flags: some of "g", "u", "y"
          native,               \* exec is RegExp.prototype.exec, else the program's
          lastIndex,            \* of the regular expression, before the call
          answers,              \* what a patched exec answers to replace
          template              \* what replace puts in, when it is a string

reVars == <<subject, at, flags, native, lastIndex, answers, template>>

NoMatch == [index |-> -1, end |-> -1]
Found(p, n) == [index |-> p, end |-> p + n]

size == Len(subject)
PairAt(p) == p + 1 < size /\ subject[p + 1] = "H" /\ subject[p + 2] = "L"
Boundary(p) == p = 0 \/ ~PairAt(p - 1)

Advance(p) == IF "u" \in flags /\ PairAt(p) THEN p + 2 ELSE p + 1

\* The native exec moves lastIndex past an empty match by itself; a program's exec
\* leaves it at the end of the match, as the standard has it.
NextIndex(start, end) ==
    IF native /\ end <= start THEN start + (IF PairAt(start) THEN 2 ELSE 1) ELSE end
Exec(withFlags, index) ==
    LET uses == withFlags \cap {"g", "y"} # {}
        start == IF uses THEN index ELSE 0
        last == IF "y" \in withFlags THEN start ELSE size
        places == {p \in start..last : p <= size /\ at[p] >= 0}
        From(first) == [match |-> Found(first, at[first]),
                        last |-> IF uses THEN NextIndex(start, first + at[first]) ELSE index]
    IN  IF places = {} THEN [match |-> NoMatch, last |-> IF uses THEN 0 ELSE index]
        ELSE From(CHOOSE p \in places : \A q \in places : p <= q)

Emptiness(m) == m.index = m.end
(* Mutant of Past: nothing moves lastIndex past an empty match. *)
Past_Stays(r) == r.last
Past(r) == IF Emptiness(r.match) THEN Advance(r.last) ELSE r.last

\* The loop of match, of replace and of matchAll's iterator, run until exec answers
\* null (the last element), for at most `fuel` calls.
RECURSIVE Gather(_, _)
Gather(index, fuel) ==
    LET r == Exec(flags, index)
    IN  IF fuel = 0 THEN <<>>
        ELSE IF r.match = NoMatch THEN <<NoMatch>>
        ELSE <<r.match>> \o Gather(Past(r), fuel - 1)
Fuel == size + 2
Ended(found) == found # <<>> /\ Last(found) = NoMatch
Matches(found) == SelectSeq(found, LAMBDA m : m # NoMatch)

match == IF "g" \in flags THEN Gather(0, Fuel)
         ELSE <<Exec(flags, lastIndex).match>>
matchAll == IF "g" \in flags THEN Gather(lastIndex, Fuel)
            ELSE <<Exec(flags, lastIndex).match, NoMatch>>
search == [index |-> Exec(flags, 0).match.index, last |-> lastIndex]

\* split: from the end of the last separator `p` look for the next one at `q`.  An
\* element is the interval it covers; `group`: separators are elements too.
Text(a, b) == [index |-> a, end |-> b]
RECURSIVE SplitFrom(_, _, _)
SplitFrom(p, q, group) ==
    LET After(r, e) ==
          IF r.match = NoMatch \/ e = p THEN SplitFrom(p, Advance(q), group)
          ELSE <<Text(p, q)>> \o (IF group THEN <<r.match>> ELSE <<>>) \o SplitFrom(e, e, group)
        Tried(r) == After(r, IF r.last > size THEN size ELSE r.last)
    IN  IF q >= size THEN <<Text(p, size)>> ELSE Tried(Exec(flags \cup {"y"}, q))
Whole(group) ==
    IF size > 0 THEN SplitFrom(0, 0, group)
    ELSE IF Exec(flags \cup {"y"}, lastIndex).match # NoMatch THEN <<>> ELSE <<Text(0, 0)>>
split(limit, group) ==
    LET Start(whole) == SubSeq(whole, 1, IF limit < Len(whole) THEN limit ELSE Len(whole))
    IN  Start(Whole(group))

\* GetSubstitution with one group, which is also the group named "a" if `named`.  The
\* text is made of characters and of what the references stand for.
Digits == {"0", "1"}
Meaning == ("$" :> "$") @@ ("&" :> "matched") @@ ("`" :> "before") @@ ("'" :> "after")
RECURSIVE GetSubstitution(_, _)
GetSubstitution(t, named) ==
    LET d == t[2]
        two == Len(t) > 2 /\ t[3] \in Digits
        index == IF two THEN (IF d = "1" THEN 10 ELSE 0) + (IF t[3] = "1" THEN 1 ELSE 0)
                 ELSE IF d = "1" THEN 1 ELSE 0
        count == IF two /\ index > 1 THEN 1 ELSE IF two THEN 2 ELSE 1
        refers == IF count = 1 THEN d = "1" ELSE index = 1
        gt == {i \in 2..Len(t) : t[i] = ">"}
        closing == CHOOSE i \in gt : \A j \in gt : i <= j
        After(n) == GetSubstitution(SubSeq(t, n + 1, Len(t)), named)
    IN  IF t = <<>> THEN <<>>
        ELSE IF t[1] # "$" \/ Len(t) = 1 THEN <<t[1]>> \o After(1)
        ELSE IF d \in DOMAIN Meaning THEN <<Meaning[d]>> \o After(2)
        ELSE IF d \in Digits
             THEN (IF refers THEN <<"group">> ELSE SubSeq(t, 1, 1 + count)) \o After(1 + count)
        ELSE IF d = "<"
             THEN IF gt = {} \/ ~named THEN <<"$", "<">> \o After(2)
                  ELSE (IF SubSeq(t, 3, closing - 1) = <<"a">> THEN <<"group">> ELSE <<>>)
                          \o After(closing)
        ELSE <<"$">> \o After(1)

\* replace puts the results together; an answer may be of any place and length.
Clamp(p) == IF p > size THEN size ELSE IF p < 0 THEN 0 ELSE p
Accept(s, r) ==
    IF Clamp(r.index) < s.next THEN s
    ELSE [kept |-> s.kept \o <<Text(s.next, Clamp(r.index))>>, taken |-> s.taken \o <<r>>,
          next |-> Clamp(r.index) + (r.end - r.index)]
Finished(s) == IF s.next >= size THEN s ELSE [s EXCEPT !.kept = @ \o <<Text(s.next, size)>>]
Assemble(results) ==
    Finished(FoldLeft(Accept, [kept |-> <<>>, taken |-> <<>>, next |-> 0], results))
replace == Assemble(IF "g" \in flags THEN Matches(Gather(0, Fuel))
                    ELSE Matches(<<Exec(flags, lastIndex).match>>))
-----------------------------------------------------------------------------
Subjects == UNION {[1..n -> {"c", "H", "L"}] : n \in 0..MaxSubject}
Characters == {"$", "&", "0", "1", "<", ">", "a"}
Templates == UNION {[1..n -> Characters] : n \in 0..MaxTemplate}

\* No pattern matches a part of a pair, and without "u" no subject has one.
Patterns == {f \in [0..size -> -1..2] :
               \A p \in 0..size : f[p] >= 0 =>
                   p + f[p] <= size /\ Boundary(p) /\ Boundary(p + f[p])}
RegExpPlain == subject = <<>> /\ at = [p \in 0..0 |-> -1] /\ flags = {} /\ native = FALSE /\ lastIndex = 0
               /\ answers = <<>>
RegExpIdle == RegExpPlain /\ template = <<>>
RegExpInit ==
    \/ RegExpPlain /\ template \in Templates
    \/ /\ flags \in SUBSET {"g", "u", "y"} /\ native \in BOOLEAN
       /\ subject \in IF "u" \in flags THEN Subjects ELSE {[i \in 1..n |-> "c"] : n \in 0..MaxSubject}
       /\ at \in Patterns
       /\ lastIndex \in 0..(MaxSubject + 1) /\ answers = <<>> /\ template = <<>>
    \/ /\ subject = [i \in 1..MaxSubject |-> "c"] /\ at = [p \in 0..MaxSubject |-> -1]
       /\ flags = {"g"} /\ native = FALSE /\ lastIndex = 0 /\ template = <<>>
       /\ answers \in {<<[index |-> p, end |-> p + n], [index |-> q, end |-> q + m]>> :
                         p, q \in -1..(MaxSubject + 1), n, m \in 0..2}
-----------------------------------------------------------------------------
\* The native exec moves past an empty match, and its caller moves past it again: it is
\* only there that a character is skipped.
Skipped(m, p) == native /\ Emptiness(m) /\ p = m.end + (IF PairAt(m.end) THEN 2 ELSE 1)

Ordered(s) == \A i \in 1..(Len(s) - 1) : s[i].end <= s[i + 1].index
\* A global match ends, however many empty matches it finds, and yields disjoint
\* matches in order; no place outside them where the pattern matches is passed over
\* (save one after an empty match, see above), unless the expression is sticky;
\* matchAll from 0 yields the same.
Covered(found, p) == \E i \in DOMAIN found : found[i].index <= p /\ (p = found[i].index \/ p < found[i].end)
MatchesWhole ==
    LET found == Matches(match)
    IN  "g" \in flags =>
        /\ Ended(match) /\ Ordered(found)
        /\ "y" \notin flags => \A p \in 0..size : at[p] >= 0 /\ Boundary(p) =>
              Covered(found, p) \/ \E i \in DOMAIN found : Skipped(found[i], p)
        /\ lastIndex = 0 => matchAll = match

\* search finds what a match from the start finds, sticky or not, and lastIndex survives.
SearchFinds ==
    /\ search.last = lastIndex
    /\ "g" \in flags => search.index = Head(match).index

\* Pieces and separators, in order, make up the whole subject but for what is skipped
\* after an empty separator; if nothing is, no separator is left in a piece; a limit
\* gives a prefix.
Contiguous(s) ==
    /\ s[1].index = 0 /\ Last(s).end = size
    /\ \A i \in 1..(Len(s) - 1) : s[i].end = s[i + 1].index
Joined(s) ==
    /\ s[1].index = 0 /\ Last(s).end = size
    /\ \A i \in 1..(Len(s) - 1) :
         s[i].end = s[i + 1].index \/ (i % 2 = 0 /\ Skipped(s[i], s[i + 1].index))
SplitWhole ==
    \A all \in {split(size * 3 + 1, TRUE)}, pieces \in {split(size * 3 + 1, FALSE)} :
        /\ size > 0 => Joined(all)
        /\ size > 0 /\ Contiguous(all) => \A i \in DOMAIN pieces : \A p \in pieces[i].index..(pieces[i].end - 1) :
              Boundary(p) => at[p] <= (IF p = pieces[i].index THEN 0 ELSE -1)
        /\ \A n \in 0..3 : IsPrefix(split(n, TRUE), all)

\* Text outside the matches is kept, once and in order, also for the results of a
\* patched exec, in whatever order and wherever they lie.
Units(s) == UNION {s[i].index..(s[i].end - 1) : i \in DOMAIN s}
ReplaceKeeps ==
    \A done \in {IF answers = <<>> THEN replace ELSE Assemble(answers)} :
    LET taken == [i \in DOMAIN done.taken |->
                    Text(Clamp(done.taken[i].index),
                         Clamp(done.taken[i].index) + done.taken[i].end - done.taken[i].index)]
    IN  /\ Ordered(done.kept) /\ Ordered(taken)
        /\ Units(done.kept) = (0..(size - 1)) \ Units(taken)
        /\ answers = <<>> /\ "g" \in flags => done.taken = Matches(match)

\* Doubling every "$" of a text makes it literal, whatever follows it.
Doubled(t) == FlattenSeq([i \in DOMAIN t |-> IF t[i] = "$" THEN <<"$", "$">> ELSE <<t[i]>>])
TemplatesQuote ==
    \A n \in 0..Len(template), named \in BOOLEAN :
        LET literal == SubSeq(template, 1, n)
            rest == SubSeq(template, n + 1, Len(template))
        IN  GetSubstitution(Doubled(literal) \o rest, named)
               = literal \o GetSubstitution(rest, named)

RegExpsWhole == MatchesWhole /\ SearchFinds /\ SplitWhole /\ ReplaceKeeps /\ TemplatesQuote

\* "Each function is the spec algorithm" (engine-prelude.js:1681): a match passes no place
\* over and a split loses no text, native exec or not.  The native exec already moves
\* lastIndex past an empty match (builtins.milo:2132); match, replace and matchAll move it
\* again, and split takes it for the match's end.
MatchPassesNone ==
    "g" \in flags /\ "y" \notin flags => \A p \in 0..size : at[p] >= 0 /\ Boundary(p) => Covered(Matches(match), p)
SplitKeepsText == size > 0 => Contiguous(split(size * 3 + 1, TRUE))
RegExpNext == UNCHANGED reVars
=============================================================================
