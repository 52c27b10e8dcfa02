------------------------------ MODULE Queries ------------------------------
(***************************************************************************)
(* Addresses and their queries: URLSearchParams and URL of lib/prelude.js, *)
(* lib/querystring.js, lib/url.js, and the framing fetch undoes.  A text   *)
(* is a sequence of characters; "w" stands for any character outside the   *)
(* BMP, "r" for the replacement character, and the run of escapes of       *)
(* either is one escape whose two digits are the letter itself.            *)
(***************************************************************************)
EXTENDS Integers, Sequences, SequencesExt, FiniteSets

CONSTANTS MaxWord,   \* characters of a name or a value
          MaxAddress \* characters of an address, past its scheme

VARIABLE ask  \* one call of the library, and its arguments

Octets ==
    [p \in {<<"2", "0">>, <<"2", "1">>, <<"2", "2">>, <<"2", "3">>, <<"2", "5">>, <<"2", "6">>,
            <<"2", "B">>, <<"2", "F">>, <<"3", "D">>, <<"3", "F">>, <<"5", "2">>, <<"5", "5">>,
            <<"w", "w">>, <<"r", "r">>} |->
       CASE p[2] = "0" -> " " [] p[2] = "1" -> "!" [] p = <<"2", "2">> -> "quote"
         [] p[2] = "3" -> "#" [] p = <<"2", "5">> -> "%" [] p[2] = "6" -> "&"
         [] p[2] = "B" -> "+" [] p = <<"2", "F">> -> "/" [] p[2] = "D" -> "="
         [] p = <<"3", "F">> -> "?" [] p = <<"5", "2">> -> "R" [] p = <<"5", "5">> -> "U"
         [] OTHER -> p[1]]
Escape(c) == <<"%">> \o (CHOOSE p \in DOMAIN Octets : Octets[p] = c)
Digits == {"0", "1", "2", "3", "5", "6", "B", "D", "F"}
Plain == Digits \cup {"z", "R", "U"}
Join(list, glue) == IF list = <<>> THEN <<>> ELSE FoldLeft(LAMBDA a, b : a \o glue \o b, Head(list), Tail(list))
At(s, c) == SelectInSeq(s, LAMBDA x : x = c)
LastAt(s, c) == SelectLastInSeq(s, LAMBDA x : x = c)
Split(s, c) ==
    LET cuts == SetToSortSeq({i \in DOMAIN s : s[i] = c}, <)
        edge == <<0>> \o cuts \o <<Len(s) + 1>>
    IN  [j \in 1..(Len(edge) - 1) |-> SubSeq(s, edge[j] + 1, edge[j + 1] - 1)]
Swap(s, c, d) == [i \in DOMAIN s |-> IF s[i] = c THEN d ELSE s[i]]
From(s, i) == SubSeq(s, i, Len(s))
Upto(s, i) == SubSeq(s, 1, IF i < Len(s) THEN i ELSE Len(s))
-----------------------------------------------------------------------------
(* Escapes. *)

\* Text without a lone surrogate, on which escapeAny and encodeURIComponent agree.
isUnescaped(c) == c \in Plain \cup {"!"}
escapeAny(s) == FlattenSeq([i \in DOMAIN s |-> IF isUnescaped(s[i]) THEN <<s[i]>> ELSE Escape(s[i])])
encodeURIComponent(s) == escapeAny(s)
Escapes(s) ==
    {i \in DOMAIN s : s[i] = "%" /\ i + 2 <= Len(s) /\ <<s[i + 1], s[i + 2]>> \in DOMAIN Octets}
uriHasBadEscape(s) == \E i \in DOMAIN s \ Escapes(s) : s[i] = "%"
uriDecode(s) ==
    LET spent == UNION {{i + 1, i + 2} : i \in Escapes(s)}
        kept == SetToSortSeq(DOMAIN s \ spent, <)
    IN  [j \in DOMAIN kept |->
           IF kept[j] \in Escapes(s) THEN Octets[<<s[kept[j] + 1], s[kept[j] + 2]>>] ELSE s[kept[j]]]

\* Text decodeURIComponent refuses is decoded as far as it goes.
decodeComponent(s, decodeSpaces) ==
    IF uriHasBadEscape(s) /\ decodeSpaces THEN uriDecode(Swap(s, "+", " ")) ELSE uriDecode(s)
decode(s) == decodeComponent(Swap(s, "+", " "), TRUE)
-----------------------------------------------------------------------------
(* URLSearchParams: a list of pairs. *)

\* One code unit at a time, so a character of two is two broken ones.
formEncode(s) ==
    FlattenSeq([i \in DOMAIN s |->
      CASE s[i] = " " -> <<"+">>
        [] s[i] \in Plain -> <<s[i]>>
        [] s[i] = "w" -> Escape("r") \o Escape("r")
        [] OTHER -> Escape(s[i])])
toString(list) == Join([i \in DOMAIN list |-> formEncode(list[i][1]) \o <<"=">> \o formEncode(list[i][2])], <<"&">>)

PairOf(part) ==
    LET eq == At(part, "=")
        k == IF eq = 0 THEN part ELSE Upto(part, eq - 1)
        v == IF eq = 0 THEN <<>> ELSE From(part, eq + 1)
    IN  <<uriDecode(Swap(k, "+", " ")), uriDecode(Swap(v, "+", " "))>>
Query(init) == IF init # <<>> /\ Head(init) = "?" THEN Tail(init) ELSE init
\* The constructor, on a text.
ParamsThrow(init) == uriHasBadEscape(Query(init))
Params(init) ==
    IF Query(init) = <<>> THEN <<>>
    ELSE LET parts == Split(Query(init), "&") IN [i \in DOMAIN parts |-> PairOf(parts[i])]

getAll(list, k) ==
    LET found == SelectSeq(list, LAMBDA p : p[1] = k) IN [i \in DOMAIN found |-> found[i][2]]
get(list, k) == IF getAll(list, k) = <<>> THEN <<"null">> ELSE Head(getAll(list, k))
has(list, k) == get(list, k) # <<"null">>
hasPair(list, k, v) == \E i \in DOMAIN list : list[i] = <<k, v>>
append(list, k, v) == Append(list, <<k, v>>)
First(list, k) == SelectInSeq(list, LAMBDA p : p[1] = k)
set(list, k, v) ==
    LET at == First(list, k)
        kept == SetToSortSeq({i \in DOMAIN list : list[i][1] # k \/ i = at}, <)
        out == [j \in DOMAIN kept |-> IF kept[j] = at THEN <<k, v>> ELSE list[kept[j]]]
    IN  IF at = 0 THEN Append(out, <<k, v>>) ELSE out
delete(list, k) == SelectSeq(list, LAMBDA p : p[1] # k)
deletePair(list, k, v) == SelectSeq(list, LAMBDA p : p # <<k, v>>)
\* The order of code units, of the characters that occur.
Units == <<" ", "%", "&", "+", "2", "5", "=", "z", "w">>
Below(s, t) ==
    \E n \in 1..(Len(t)) :
       /\ n <= Len(s) + 1 /\ \A i \in 1..(n - 1) : s[i] = t[i]
       /\ n <= Len(s) => At(Units, s[n]) < At(Units, t[n])
sort(list) ==
    LET Before(i, j) == Below(list[i][1], list[j][1]) \/ (list[i][1] = list[j][1] /\ i < j)
        idx == SetToSortSeq(DOMAIN list, Before)
    IN  [j \in DOMAIN idx |-> list[idx[j]]]
entries(list, n) == Upto(list, n)
-----------------------------------------------------------------------------
(* lib/querystring.js.  An object is a list of its keys with their values: one value is a
   string, more are an array, none an empty array. *)

stringify(obj, eq) ==
    Join(FlattenSeq([i \in DOMAIN obj |->
           [j \in DOMAIN obj[i].values |->
              encodeURIComponent(obj[i].key) \o eq \o encodeURIComponent(obj[i].values[j])]]), <<"&">>)
Hits(s, mark) == {i \in 1..(Len(s) - Len(mark) + 1) : SubSeq(s, i, i + Len(mark) - 1) = mark}
Halves(part, eq) ==
    IF Hits(part, eq) = {} THEN <<decode(part), <<>>>>
    ELSE LET i == CHOOSE i \in Hits(part, eq) : \A j \in Hits(part, eq) : i <= j
         IN  <<decode(Upto(part, i - 1)), decode(From(part, i + Len(eq)))>>
Cap(maxKeys) == IF maxKeys > 0 THEN maxKeys ELSE 1000000  \* no limit
Parsed(str, eq, maxKeys) ==
    LET parts == SelectSeq(Split(str, "&"), LAMBDA p : p # <<>>)
    IN  [i \in 1..(IF Cap(maxKeys) < Len(parts) THEN Cap(maxKeys) ELSE Len(parts)) |-> Halves(parts[i], eq)]
parse(str, eq, maxKeys) ==
    LET Grouped(list) == [k \in {list[i][1] : i \in DOMAIN list} |-> getAll(list, k)]
    IN  Grouped(Parsed(str, eq, maxKeys))
-----------------------------------------------------------------------------
(* lib/url.js.  A part that is not there is the text <<"null">>. *)

Null == <<"null">>
Given(s) == s # Null /\ s # <<>>
OrEmpty(s) == IF s = Null THEN <<>> ELSE s
\* A scheme is one letter here.
Scheme(s) == IF Len(s) >= 2 /\ s[1] = "z" /\ s[2] = ":" THEN Upto(s, 2) ELSE Null
Cut(s, c) == IF At(s, c) = 0 THEN <<s, Null>> ELSE <<Upto(s, At(s, c) - 1), From(s, At(s, c))>>

parseUrl(url) ==
    LET hashed == Cut(url, "#")
        protocol == Scheme(hashed[1])
        past == IF protocol = Null THEN hashed[1] ELSE From(hashed[1], 3)
        slashes == protocol # Null /\ Upto(past, 2) = <<"/", "/">>
        tail == Cut(From(past, 3), "/")
        at == At(tail[1], "@")
        host == IF at = 0 THEN tail[1] ELSE From(tail[1], at + 1)
        colon == LastAt(host, ":")
        rest == IF ~slashes THEN past ELSE OrEmpty(tail[2])
        asked == Cut(rest, "?")
    IN  [protocol |-> protocol, slashes |-> slashes, hash |-> hashed[2],
         auth |-> IF slashes /\ at # 0 THEN Upto(tail[1], at - 1) ELSE Null,
         host |-> IF slashes THEN host ELSE Null,
         hostname |-> IF ~slashes THEN Null ELSE IF colon = 0 THEN host ELSE Upto(host, colon - 1),
         port |-> IF slashes /\ colon # 0 THEN From(host, colon + 1) ELSE Null,
         pathname |-> IF asked[1] # <<>> THEN asked[1] ELSE IF slashes THEN <<"/">> ELSE Null,
         search |-> asked[2]]

format(u) ==
    OrEmpty(u.protocol)
      \o (IF u.slashes \/ (Given(u.protocol) /\ Given(u.host)) THEN <<"/", "/">> ELSE <<>>)
      \o (IF Given(u.auth) THEN u.auth \o <<"@">> ELSE <<>>)
      \o (IF Given(u.host) THEN u.host
          ELSE IF ~Given(u.hostname) THEN <<>>
          ELSE u.hostname \o (IF Given(u.port) THEN <<":">> \o u.port ELSE <<>>))
      \o OrEmpty(u.pathname) \o OrEmpty(u.search) \o OrEmpty(u.hash)
Moved(base, pathname) ==
    format([protocol |-> base.protocol, slashes |-> base.slashes, host |-> base.host,
            auth |-> Null, hostname |-> Null, port |-> Null, pathname |-> pathname,
            search |-> Null, hash |-> Null])
resolve(from, to) ==
    LET Parent(dir) == IF LastAt(dir, "/") = 0 THEN <<"/">> ELSE Upto(dir, LastAt(dir, "/"))
        Against(base) ==
          IF Head(to) = "/" THEN Moved(base, to)
          ELSE Moved(base, Parent(IF Given(base.pathname) THEN base.pathname ELSE <<"/">>) \o to)
    IN  IF to = <<>> THEN from
        ELSE IF Scheme(to) # Null THEN to ELSE Against(parseUrl(from))

\* `new URL` of an address with an authority.
URL(href) ==
    LET hashed == Cut(From(href, 5), "#")
        asked == Cut(hashed[1], "?")
        placed == Cut(asked[1], "/")
        at == At(placed[1], "@")
        user == IF at = 0 THEN <<>> ELSE Upto(placed[1], at - 1)
        host == IF at = 0 THEN placed[1] ELSE From(placed[1], at + 1)
    IN  [protocol |-> Scheme(href), host |-> host,
         username |-> Cut(user, ":")[1],
         password |-> IF At(user, ":") = 0 THEN <<>> ELSE From(user, At(user, ":") + 1),
         hostname |-> Cut(host, ":")[1],
         port |-> IF At(host, ":") = 0 THEN <<>> ELSE From(host, At(host, ":") + 1),
         pathname |-> IF placed[2] = Null THEN <<"/">> ELSE placed[2],
         search |-> OrEmpty(asked[2]), hash |-> OrEmpty(hashed[2])]

\* A relative address is put after the base, whatever the base's path.
Based(url, base) ==
    LET kept == CHOOSE n \in 0..Len(base) : (n > 0 => base[n] # "/") /\ \A i \in (n + 1)..Len(base) : base[i] = "/"
    IN  IF \E i \in 1..(Len(url) - 2) : SubSeq(url, i, i + 2) = <<":", "/", "/">> THEN url
        ELSE Upto(base, kept) \o (IF url # <<>> /\ url[1] = "/" THEN <<>> ELSE <<"/">>) \o url

\* Percent first, then the characters that would read as syntax.
Encoded(path) ==
    FlattenSeq([i \in DOMAIN path |->
      IF path[i] \in {"%", "#", "?", " "} THEN Escape(path[i]) ELSE <<path[i]>>])
pathToFileURL(path) == URL(<<"z", ":", "/", "/">> \o Encoded(path))
SlashHidden(s) == \E i \in Escapes(s) : SubSeq(s, i + 1, i + 2) = <<"2", "F">>
FileRefused(u) == SlashHidden(u.pathname)
fileURLToPath(u) == uriDecode(u.pathname)
-----------------------------------------------------------------------------
(* What fetch reads: a size line is its digit and CR LF, two characters. *)

Line == <<"\r", "\n">>
Sizes == <<"1", "2", "3">>
Chunk(s) == <<Sizes[Len(s)]>> \o Line \o s \o Line
Framed(cuts) == FlattenSeq([i \in DOMAIN cuts |-> Chunk(cuts[i])]) \o <<"0">> \o Line \o Line
FirstLine(s, from) ==
    LET ends == {i \in from..(Len(s) - 1) : SubSeq(s, i, i + 1) = Line}
    IN  IF ends = {} THEN 0 ELSE CHOOSE i \in ends : \A j \in ends : i <= j
\* parseInt of a size line: the hexadecimal digits it starts with, none is NaN.
SizeOf(s) ==
    LET n == CHOOSE n \in 0..Len(s) : /\ \A i \in 1..n : s[i] \in ToSet(Sizes) \cup {"0"}
                                      /\ n = Len(s) \/ s[n + 1] \notin ToSet(Sizes) \cup {"0"}
    IN  FoldLeft(LAMBDA a, c : 16 * a + At(Sizes, c), 0, Upto(s, n))
AfterChunk(start, size) == start + size + 2
RECURSIVE Dechunked(_, _, _)
Dechunked(s, pos, out) ==
    LET nl == FirstLine(s, pos)
        size == SizeOf(SubSeq(s, pos, nl - 1))
    IN  IF nl = 0 \/ size = 0 THEN out
        ELSE Dechunked(s, AfterChunk(nl + 2, size), out \o Upto(From(s, nl + 2), size))
fetchDechunk(s) == Dechunked(s, 1, <<>>)

\* Headers keeps one value of a name, in lower case: the last.
Lower == [n \in {"Transfer-Encoding", "transfer-encoding", "Etag", "etag"} |->
            IF n \in {"Etag", "etag"} THEN "etag" ELSE "transfer-encoding"]
Headers(lines) == FoldLeft(LAMBDA h, line : (Lower[line[1]] :> line[2]) @@ h, <<>>, lines)
HeaderOf(h, n) == IF Lower[n] \in DOMAIN h THEN h[Lower[n]] ELSE "null"
fetchParse(lines, s) ==
    IF HeaderOf(Headers(lines), "transfer-encoding") = "chunked" THEN fetchDechunk(s) ELSE s

\* What a server reads: the head ends at CR LF twice, wherever that is, else at LF twice.
Mark(s, m) == LET at == Hits(s, m) IN IF at = {} THEN 0 ELSE CHOOSE i \in at : \A j \in at : i <= j
parseRequest(s) ==
    LET crlf == Mark(s, Line \o Line)
        lf == Mark(s, <<"\n", "\n">>)
        head == IF crlf > 0 THEN Upto(s, crlf - 1) ELSE IF lf > 0 THEN Upto(s, lf - 1) ELSE s
        lines == [i \in DOMAIN Split(head, "\n") |-> SelectSeq(Split(head, "\n")[i], LAMBDA c : c # "\r")]
        named == SelectSeq(Tail(lines), LAMBDA l : At(l, ":") > 0)
    IN  [first |-> Head(lines),
         headers |-> [n \in {Upto(named[i], At(named[i], ":") - 1) : i \in DOMAIN named} |->
                        LET i == SelectLastInSeq(named, LAMBDA l : Upto(l, At(l, ":") - 1) = n)
                        IN  From(named[i], At(named[i], ":") + 1)],
         body |-> IF crlf > 0 THEN From(s, crlf + 4) ELSE IF lf > 0 THEN From(s, lf + 2) ELSE <<>>]
-----------------------------------------------------------------------------
(* The calls that are looked at. *)

Words(chars, n) == UNION {[1..k -> chars] : k \in 0..n}
Letters == {" ", "%", "&", "+", "2", "5", "=", "z"}
Names == {<<>>, <<"z">>, <<"&">>, <<"z", "=">>}
Worths == {<<>>, <<"+">>, <<"z", "%">>}
Lists(names, n) == UNION {[1..k -> names \X Worths] : k \in 0..n}
Objects ==
    {<<>>} \cup {<<[key |-> k, values |-> v]>> : k \in Words(Letters, 1), v \in Words(Words(Letters, 1), 2)}
      \cup {<<[key |-> <<"z">>, values |-> v], [key |-> <<"z", "=">>, values |-> w]>> :
              v, w \in Words({<<>>, <<"%", "2">>}, 2)}
Marks == {<<"=">>, <<"=", "=">>}
Syntax == {":", "/", "?", "#", "@", "z"}
Under(n) == {<<"z", ":", "/", "/">> \o s : s \in Words(Syntax, n)} \cup Words(Syntax, n)
Cuts == UNION {[1..k -> Words({"1", "z", "\r", "\n"}, 2) \ {<<>>}] : k \in 0..2}
Lines == {<<>>, <<<<"Transfer-Encoding", "chunked">>, <<"etag", "z">>>>,
          <<<<"Etag", "z">>, <<"transfer-encoding", "chunked">>>>}

QueryIdle == ask = [kind |-> "none"]
QueryInit ==
    \/ \E s \in Words(Letters \cup {"?"}, MaxWord + 1) : ask = [kind |-> "text", text |-> s]
    \/ \E k, v \in Words(Letters, MaxWord) : ask = [kind |-> "pairs", list |-> <<<<k, v>>>>]
    \/ \E l \in Lists(Names, 3), k \in Names, v \in Worths :
         ask = [kind |-> "edit", list |-> l, name |-> k, value |-> v]
    \/ \E o \in Objects, e \in Marks, m \in -1..2 :
         ask = [kind |-> "object", obj |-> o, eq |-> e, maxKeys |-> m]
    \/ \E u \in Under(MaxAddress) : ask = [kind |-> "address", url |-> u]
    \/ \E u \in Under(MaxAddress - 1), t \in Words(Syntax \ {"@"}, MaxAddress - 2) :
         ask = [kind |-> "resolve", from |-> u, to |-> t]
    \/ \E p \in Words({"/", "%", "#", "?", " ", "2", "F"}, MaxWord + 1) :
         ask = [kind |-> "path", path |-> <<"/">> \o p]
    \/ \E c \in Cuts, l \in Lines : ask = [kind |-> "body", cuts |-> c, lines |-> l]
    \/ \E e \in {Line, <<"\n">>}, v \in Words({"z", ":"}, 2), s \in Words({"z", "\r", "\n"}, 5) :
         ask = [kind |-> "request", eol |-> e, value |-> v, body |-> s]

QueryNext == UNCHANGED ask
QuerySpec == QueryInit /\ [][QueryNext]_ask
-----------------------------------------------------------------------------
(* What the calls must do. *)

\* A list of pairs, of characters of the BMP, survives being written and read; a text that
\* is read and written is read the same again.
ListsSurvive ==
    /\ ask.kind \in {"pairs", "edit"} => Params(toString(ask.list)) = ask.list
    /\ ask.kind = "text" /\ ~ParamsThrow(ask.text) =>
         Params(toString(Params(ask.text))) = Params(ask.text)

\* set leaves one pair of the name, where the first was, and every other pair; delete, append
\* and set agree; sorting keeps the pairs of a name in their order; an iteration in progress
\* has the pairs of its start.
EditsKeepOthers ==
    ask.kind = "edit" =>
      LET list == ask.list
          k == ask.name
          v == ask.value
          put == set(list, k, v)
          sorted == sort(list)
          Only(p) == SelectSeq(list, LAMBDA q : q[1] = p)
      IN  /\ getAll(put, k) = <<v>> /\ get(put, k) = v /\ hasPair(put, k, v)
          /\ delete(put, k) = delete(list, k)
          /\ has(list, k) => Upto(put, First(list, k) - 1) = Upto(list, First(list, k) - 1)
          /\ First(put, k) = IF has(list, k) THEN First(list, k) ELSE Len(put)
          /\ ~has(delete(list, k), k) /\ delete(append(list, k, v), k) = delete(list, k)
          /\ Len(delete(list, k)) + Len(getAll(list, k)) = Len(list)
          /\ \A p \in ToSet(list) : SelectSeq(sorted, LAMBDA q : q[1] = p[1]) = Only(p[1])
          /\ Len(sorted) = Len(list) /\ sort(sorted) = sorted
          /\ deletePair(append(list, k, v), k, v) = deletePair(list, k, v)
          /\ \A n \in 0..Len(list) : entries(append(list, k, v), n) = entries(list, n)

\* An object that is written and read is the same object, but for empty arrays; with fewer keys
\* allowed, what is read is the start of it.  What is escaped comes back unescaped.
ObjectsSurvive ==
    /\ ask.kind = "object" =>
         \A full \in {parse(stringify(ask.obj, ask.eq), ask.eq, 0)},
            part \in {parse(stringify(ask.obj, ask.eq), ask.eq, ask.maxKeys)} :
         LET kept == SelectSeq(ask.obj, LAMBDA e : e.values # <<>>)
         IN  /\ \A i \in DOMAIN kept : kept[i].key \in DOMAIN full /\ full[kept[i].key] = kept[i].values
             /\ Cardinality(DOMAIN full) = Len(kept)
             /\ \A k \in DOMAIN part : k \in DOMAIN full /\ IsPrefix(part[k], full[k])
             /\ ask.maxKeys = 1 /\ kept # <<>> => DOMAIN part = {kept[1].key}
             /\ ask.maxKeys <= 0 => part = full
    /\ ask.kind = "pairs" => LET k == ask.list[1][1] IN
         decodeComponent(escapeAny(k), FALSE) = k /\ decode(encodeURIComponent(k)) = k

\* Writing an address that was taken apart gives one that is taken apart the same way, and
\* writes the same; what is resolved against an address stays at its host.  (A second "@" after an empty name is lost.)
AddressesStable ==
    /\ ask.kind = "address" /\ At(ask.url, "@") = LastAt(ask.url, "@") =>
         \A u \in {parseUrl(ask.url)} : \A again \in {parseUrl(format(u))} :
             /\ [again EXCEPT !.auth = Null] = [u EXCEPT !.auth = Null]
             /\ Given(u.auth) => again.auth = u.auth
             /\ format(again) = format(u)
             /\ At(ask.url, "?") = 0 /\ Upto(ask.url, 4) = <<"z", ":", "/", "/">> =>
                  /\ u.host = URL(ask.url).host /\ u.pathname = URL(ask.url).pathname
    /\ ask.kind = "resolve" =>
         LET base == parseUrl(ask.from) IN
         base.host # Null /\ At(ask.from, "@") = LastAt(ask.from, "@") /\ Scheme(ask.to) = Null =>
           /\ parseUrl(resolve(ask.from, ask.to)).host = base.host
           /\ URL(ask.from).host # <<>> => URL(Based(ask.to, ask.from)).host = URL(ask.from).host

\* A file's address names the file, and no escape makes a separator of its path.
FilesNamed ==
    /\ ask.kind = "path" =>
         LET u == pathToFileURL(ask.path)
             raw == [u EXCEPT !.pathname = ask.path]
             Separators(s) == Cardinality({i \in DOMAIN s : s[i] = "/"})
         IN  /\ ~FileRefused(u) /\ fileURLToPath(u) = ask.path /\ u.host = <<>>
             /\ ~FileRefused(raw) => Separators(fileURLToPath(raw)) = Separators(ask.path)

\* A body sent in chunks arrives whole; one cut short arrives as a start of it.
BodiesWhole ==
    ask.kind = "body" =>
      LET whole == FlattenSeq(ask.cuts) IN
      /\ fetchParse(ask.lines, IF ask.lines = <<>> THEN whole ELSE Framed(ask.cuts)) = whole
      /\ \A n \in 0..Len(Framed(ask.cuts)) : IsPrefix(fetchDechunk(Upto(Framed(ask.cuts), n)), whole)

\* A request is read as it was sent, with either kind of line end; only with LF may a body
\* with an empty CR LF line be taken for a part of the head.
RequestsRead ==
    ask.kind = "request" /\ (ask.eol = Line \/ Hits(ask.body, Line \o Line) = {}) =>
      parseRequest(<<"z">> \o ask.eol \o <<"k", ":">> \o ask.value \o ask.eol \o ask.eol \o ask.body)
        = [first |-> <<"z">>, headers |-> [n \in {<<"k">>} |-> ask.value], body |-> ask.body]

\* Addresses and queries come back as they were written, whichever module reads them.
QueriesKept ==
    /\ ListsSurvive /\ EditsKeepOthers /\ ObjectsSurvive
    /\ AddressesStable /\ FilesNamed /\ BodiesWhole /\ RequestsRead
=============================================================================
