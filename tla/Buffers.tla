------------------------------ MODULE Buffers ------------------------------
(***************************************************************************)
(* lib/buffer.js: views of one store, and the codecs between bytes and     *)
(* text.  A byte is a number below Radix (the codecs of base64 take real   *)
(* bytes), a view is where it starts in the store and how long it is.      *)
(***************************************************************************)
EXTENDS Integers, Sequences, SequencesExt, FiniteSets

CONSTANTS Radix,       \* the values of a byte, 256 in the program
          StoreLength  \* the bytes of the store

VARIABLES store,       \* the bytes of the ArrayBuffer
          viewA, viewB,
          call         \* one call of the library, and its arguments

bufVars == <<store, viewA, viewB, call>>

Least(a, b) == IF a < b THEN a ELSE b
Most(a, b) == IF a > b THEN a ELSE b
View(off, len) == [off |-> off, len |-> len]
Byte(st, v, i) == st[v.off + i + 1]
Put(st, v, i, b) == [st EXCEPT ![v.off + i + 1] = b]
Bytes(st, v) == SubSeq(st, v.off + 1, v.off + v.len)
Places(v, from, n) == {v.off + from + k : k \in 0..(n - 1)}
UpTo(n) == [k \in 1..n |-> k - 1]
-----------------------------------------------------------------------------
(* Moving bytes. *)

CopyCount(s, t, ts, ss, se) ==
    IF ts >= t.len \/ ss >= Least(se, s.len) THEN 0
    ELSE Least(Least(se, s.len) - ss, t.len - ts)
(* Mutant of CopyOrder: always from the front. *)
CopyOrder_Front(ts, ss, n) == UpTo(n)
CopyOrder(ts, ss, n) == IF ts > ss THEN Reverse(UpTo(n)) ELSE UpTo(n)
copy(st, s, t, ts, ss, se) ==
    FoldLeft(LAMBDA acc, k : Put(acc, t, ts + k, Byte(acc, s, ss + k)), st,
             CopyOrder(ts, ss, CopyCount(s, t, ts, ss, se)))

\* A pattern is a sequence, or a view that is read while the fill writes.
FillRefused(v, s, e) == s < 0 \/ e > v.len \/ s > e
fill(st, v, pattern, s, e) ==
    FoldLeft(LAMBDA acc, k : Put(acc, v, s + k, pattern[(k % Len(pattern)) + 1]), st, UpTo(e - s))
fillView(st, v, p, s, e) ==
    FoldLeft(LAMBDA acc, k : Put(acc, v, s + k, IF p.len = 0 THEN 0 ELSE Byte(acc, p, k % p.len)),
             st, UpTo(e - s))

WriteCount(v, src, off, len) == Most(0, Least(Least(len, v.len - off), Len(src)))
write(st, v, src, off, len) ==
    FoldLeft(LAMBDA acc, k : Put(acc, v, off + k, src[k + 1]), st, UpTo(WriteCount(v, src, off, len)))

FromEnd(len, p) == IF p < 0 THEN Most(0, len + p) ELSE Least(p, len)
subarray(v, a, b) ==
    LET s == FromEnd(v.len, a)
        e == Most(s, FromEnd(v.len, b))
    IN  View(v.off + s, e - s)

concat(list, total) ==
    LET all == FlattenSeq(list)
    IN  [i \in 1..total |-> IF i <= Len(all) THEN all[i] ELSE 0]
-----------------------------------------------------------------------------
(* Looking. *)

HitAt(s, needle, p) == \A j \in DOMAIN needle : s[p + j] = needle[j]
\* bufIndexOf, for a byteOffset that is given.
indexOf(s, needle, byteOffset) ==
    LET off == IF byteOffset < 0 THEN Len(s) + byteOffset ELSE byteOffset
        hits == {p \in Most(off, 0)..(Len(s) - Len(needle)) : HitAt(s, needle, p)}
    IN  IF needle = <<>> THEN Most(0, Least(off, Len(s)))
        ELSE IF hits = {} THEN -1 ELSE CHOOSE p \in hits : \A q \in hits : p <= q
lastIndexOf(s, needle, byteOffset) ==
    LET off == IF byteOffset < 0 THEN Len(s) + byteOffset ELSE byteOffset
        hits == {p \in 0..Least(off, Len(s) - Len(needle)) : HitAt(s, needle, p)}
    IN  IF needle = <<>> THEN Len(s)
        ELSE IF hits = {} THEN -1 ELSE CHOOSE p \in hits : \A q \in hits : q <= p

equals(s, t) == Len(s) = Len(t) /\ \A i \in DOMAIN s : s[i] = t[i]
compare(s, t, ts, te, ss, se) ==
    LET n == Least(se - ss, te - ts)
        differs == {k \in 0..(n - 1) : s[ss + k + 1] # t[ts + k + 1]}
        first == CHOOSE k \in differs : \A j \in differs : k <= j
        a == IF differs = {} THEN se - ss ELSE s[ss + first + 1]
        b == IF differs = {} THEN te - ts ELSE t[ts + first + 1]
    IN  IF a = b THEN 0 ELSE IF a < b THEN -1 ELSE 1
compareWhole(s, t) == compare(s, t, 0, Len(t), 0, Len(s))
-----------------------------------------------------------------------------
(* Numbers of `width` bytes; BigInt's are those of 8. *)

\* checkBounds, and the error boundsError makes of a place that is not there.
checkBounds(v, offset, width) ==
    IF {offset, offset + width - 1} \subseteq 0..(v.len - 1) THEN "ok"
    ELSE IF v.len < width THEN "ERR_BUFFER_OUT_OF_BOUNDS" ELSE "ERR_OUT_OF_RANGE"
rdU(st, v, off, width, be) ==
    FoldLeft(LAMBDA acc, i : (acc * Radix) + Byte(st, v, off + (IF be THEN i ELSE width - 1 - i)),
             0, UpTo(width))
wrU(st, v, val, off, width, be) ==
    FoldLeft(LAMBDA acc, i : Put(acc, v, off + (IF be THEN width - 1 - i ELSE i),
                                 (val \div Radix^i) % Radix), st, UpTo(width))
sgn(val, width) == IF 2 * val >= Radix^width THEN val - Radix^width ELSE val
InRange(val, width, signed) ==
    IF signed THEN -(Radix^width) <= 2 * val /\ 2 * val < Radix^width
    ELSE 0 <= val /\ val < Radix^width

\* The accessors of a fixed width look at the range before the bounds; those that
\* take a width, and BigInt's, have no range.
WriteVerdict(c) ==
    IF c.fixed /\ ~InRange(c.val, c.width, c.signed) THEN "ERR_OUT_OF_RANGE"
    ELSE checkBounds(viewA, c.off, c.width)
Written(c) ==
    wrU(store, viewA, IF c.signed /\ c.val < 0 THEN c.val + Radix^c.width ELSE c.val, c.off,
        c.width, c.be)
ReadBack(st, c) ==
    LET raw == rdU(st, viewA, c.off, c.width, c.be)
    IN  IF c.signed THEN sgn(raw, c.width) ELSE raw

\* swap16, swap32, swap64: by groups of 2, 4 or 8 bytes.
swap(s, n) == [i \in DOMAIN s |-> LET g == (i - 1) \div n IN s[((g + 1) * n) - ((i - 1) % n)]]
-----------------------------------------------------------------------------
(* Text.  UTF-8 deals in kinds of bytes: "a" is ASCII, "c" continues, "2" "3" "4" start a
   sequence of so many, "o" is the start of an overlong one, "5" is F5-F7, "x" above. *)

Need == [k \in {"2", "o", "3", "4", "5"} |->
           CASE k \in {"2", "o"} -> 1 [] k = "3" -> 2 [] OTHER -> 3]
Chunk(at, n, ok) == [at |-> at, len |-> n, ok |-> ok]
RECURSIVE utf8Decode(_, _)
utf8Decode(b, i) ==
    LET k == b[i]
        n == IF k = "a" THEN 0 ELSE Need[k]
        whole == \A j \in 1..n : b[i + j] = "c"
    IN  IF i > Len(b) THEN <<>>
        ELSE IF k \in {"c", "x"} THEN <<Chunk(i, 1, FALSE)>> \o utf8Decode(b, i + 1)
        ELSE IF i + n > Len(b) THEN <<Chunk(i, 1, FALSE)>>
        ELSE IF ~whole THEN <<Chunk(i, 1, FALSE)>> \o utf8Decode(b, i + 1)
        ELSE <<Chunk(i, n + 1, TRUE)>> \o utf8Decode(b, i + n + 1)
RECURSIVE isUtf8(_, _)
isUtf8(b, i) ==
    IF i > Len(b) THEN TRUE
    ELSE IF b[i] = "a" THEN isUtf8(b, i + 1)
    ELSE /\ b[i] \in {"2", "3", "4"}
         /\ i + Need[b[i]] <= Len(b)
         /\ \A j \in 1..Need[b[i]] : b[i + j] = "c"
         /\ isUtf8(b, i + Need[b[i]] + 1)

\* A unit of text: ASCII, of two or of three bytes, or a half of a pair.
Paired(u, i) == i \in 1..(Len(u) - 1) /\ u[i] = "H" /\ u[i + 1] = "L"
utf8Encode(u) ==
    FlattenSeq([i \in DOMAIN u |->
        IF Paired(u, i) THEN <<"4", "c", "c", "c">>
        ELSE IF Paired(u, i - 1) THEN <<>>
        ELSE IF u[i] = "a" THEN <<"a">> ELSE IF u[i] = "e" THEN <<"2", "c">>
        ELSE <<"3", "c", "c">>])

\* Hexadecimal digits 0, 1, ...; "z" is none.  A pair with a good first digit is read.
hexDecode(s) ==
    LET bad == {p \in 1..(Len(s) \div 2) : s[2 * p - 1] = "z"}
        n == IF bad = {} THEN Len(s) \div 2 ELSE (CHOOSE p \in bad : \A q \in bad : p <= q) - 1
        Digit(d) == IF d = "1" THEN 1 ELSE 0
    IN  [p \in 1..n |-> IF s[2 * p] = "z" THEN Digit(s[2 * p - 1])
                        ELSE (Digit(s[2 * p - 1]) * 16) + Digit(s[2 * p])]
hexEncode(b) ==
    FlattenSeq([p \in DOMAIN b |-> <<IF b[p] \div 16 = 1 THEN "1" ELSE "0",
                                      IF b[p] % 16 = 1 THEN "1" ELSE "0">>])

\* base64: sextets; -1 is "=".
b64Group(b, i, pad) ==
    LET b1 == IF i + 1 <= Len(b) THEN b[i + 1] ELSE 0
        b2 == IF i + 2 <= Len(b) THEN b[i + 2] ELSE 0
        filler == IF pad THEN <<-1>> ELSE <<>>
    IN  <<b[i] \div 4, ((b[i] % 4) * 16) + (b1 \div 16)>>
          \o (IF i + 1 <= Len(b) THEN <<((b1 % 16) * 4) + (b2 \div 64)>> ELSE filler)
          \o (IF i + 2 <= Len(b) THEN <<b2 % 64>> ELSE filler)
b64Encode(b, pad) ==
    FlattenSeq([g \in 1..((Len(b) + 2) \div 3) |-> b64Group(b, 3 * g - 2, pad)])
b64Step(s, v) ==
    LET bits == s.bits + 6
        all == (s.buf * 64) + v
    IN  IF v < 0 THEN s
        ELSE IF bits < 8 THEN [s EXCEPT !.buf = all, !.bits = bits]
        ELSE [out |-> Append(s.out, (all \div 2^(bits - 8)) % 256), bits |-> bits - 8,
              buf |-> all % 2^(bits - 8)]
b64Decode(s) == FoldLeft(b64Step, [out |-> <<>>, buf |-> 0, bits |-> 0], s).out

utf16Decode(b) == [i \in 1..(Len(b) \div 2) |-> b[(2 * i) - 1] + Radix * b[2 * i]]
utf16Encode(u) == FlattenSeq([i \in DOMAIN u |-> <<u[i] % Radix, u[i] \div Radix>>])
-----------------------------------------------------------------------------
(* One call, on any two views. *)

Upto(set, n) == UNION {[1..k -> set] : k \in 0..n}
Kinds == {"a", "c", "2", "o", "3", "4", "5", "x"}
Views == {View(off, len) : off \in 0..(StoreLength \div 2), len \in 0..StoreLength}
Fits(v) == v.off + v.len <= StoreLength

Copies == [op : {"copy"}, ts : 0..2, ss : 0..2, se : 0..(StoreLength + 1)]
Fills == [op : {"fill"}, s : -1..2, e : 0..(StoreLength + 1), pattern : Upto({7, 8}, 2)]
Writes == [op : {"write"}, src : Upto({7, 8}, 3), off : 0..StoreLength, len : -1..StoreLength]
Subs == [op : {"sub"}, a : -2..3, b : -2..3, c : -2..3, d : -2..3]
Searches == [op : {"search"}, text : Upto({0, 1}, 4), needle : Upto({0, 1}, 2), off : -5..5]
Compares == [op : {"compare"}, s : Upto({0, 1}, 3), t : Upto({0, 1}, 3)]
Numbers == [op : {"number"}, fixed : BOOLEAN, signed : BOOLEAN, be : BOOLEAN, width : 1..2,
            off : -1..StoreLength, val : -(Radix^2)..(Radix^2)]
Texts == [op : {"utf8"}, bytes : Upto(Kinds, 4), units : {<<>>}]
         \cup [op : {"utf8"}, bytes : {<<>>}, units : Upto({"a", "e", "u", "H", "L"}, 3)]
Codes == [op : {"code"}, bytes : Upto({0, 1, 16, 17}, 2), digits : Upto({"0", "1", "z"}, 4)]
         \cup [op : {"code"}, bytes : Upto({0, 1, 17, 129, 255}, 4), digits : {<<>>}]
Idle == [op |-> "none"]

BufBegins == /\ store = [i \in 1..StoreLength |-> i - 1]
             /\ viewA = View(0, StoreLength) /\ viewB = View(0, 0)
BufIdle == BufBegins /\ call = Idle
BufInit ==
    \/ /\ store = [i \in 1..StoreLength |-> i - 1]
       /\ viewA \in {v \in Views : Fits(v)} /\ viewB \in {v \in Views : Fits(v)}
       /\ call \in Copies
    \/ /\ store = [i \in 1..StoreLength |-> i - 1] /\ viewB = View(0, 2)
       /\ viewA \in {View(0, StoreLength), View(1, 2), View(2, 2)}
       /\ call \in Fills \cup Writes \cup Subs
    \/ /\ store = [i \in 1..StoreLength |-> i - 1] /\ viewB = View(0, 0)
       /\ viewA \in {View(0, 1), View(1, StoreLength - 1)}
       /\ call \in Numbers
    \/ BufBegins /\ call \in Searches \cup Compares \cup Texts \cup Codes
-----------------------------------------------------------------------------
\* Only the places a call names change.
OnlyThere(st, places) == \A i \in 1..StoreLength : i - 1 \notin places => st[i] = store[i]

\* A copy between views that begin at the same byte, or whose ranges are apart, is made
\* as if through a snapshot, however the ranges overlap.
Snapshot(c) ==
    LET n == CopyCount(viewA, viewB, c.ts, c.ss, c.se)
        st == copy(store, viewA, viewB, c.ts, c.ss, c.se)
    IN  /\ \A k \in 0..(n - 1) : Byte(st, viewB, c.ts + k) = Byte(store, viewA, c.ss + k)
        /\ OnlyThere(st, Places(viewB, c.ts, n))
Apart(c) ==
    LET n == CopyCount(viewA, viewB, c.ts, c.ss, c.se)
    IN  Places(viewA, c.ss, n) \cap Places(viewB, c.ts, n) = {}
CopyMovesAll ==
    call.op = "copy" /\ (viewA.off = viewB.off \/ Apart(call)) => Snapshot(call)

\* A fill repeats its pattern over its range, and a view as a pattern is its bytes of
\* before unless it lies in the range; a write stops at the end of either; nothing
\* else changes.  A subarray of a subarray is the bytes slicing twice gives.
Sliced(s, a, b) ==
    LET from == FromEnd(Len(s), a) IN SubSeq(s, from + 1, Most(from, FromEnd(Len(s), b)))
FillsWithin(c) ==
    ~FillRefused(viewA, c.s, c.e) =>
        /\ c.pattern # <<>> =>
             LET st == fill(store, viewA, c.pattern, c.s, c.e)
             IN  OnlyThere(st, Places(viewA, c.s, c.e - c.s))
                 /\ \A k \in c.s..(c.e - 1) :
                       Byte(st, viewA, k) = c.pattern[((k - c.s) % Len(c.pattern)) + 1]
        /\ Places(viewA, c.s, c.e - c.s) \cap Places(viewB, 0, viewB.len) = {} =>
             fillView(store, viewA, viewB, c.s, c.e)
                = fill(store, viewA, Bytes(store, viewB), c.s, c.e)
WritesWithin(c) ==
    c.off <= viewA.len =>
        LET n == WriteCount(viewA, c.src, c.off, c.len)
            st == write(store, viewA, c.src, c.off, c.len)
        IN  OnlyThere(st, Places(viewA, 0, viewA.len) \cap Places(viewA, c.off, n))
            /\ n = Cardinality({i \in 1..StoreLength : st[i] # store[i]})
SubarrayAgrees(c) ==
    Bytes(store, subarray(subarray(viewA, c.a, c.b), c.c, c.d))
        = Sliced(Sliced(Bytes(store, viewA), c.a, c.b), c.c, c.d)
MovesWithin == /\ call.op = "fill" => FillsWithin(call)
               /\ call.op = "write" => WritesWithin(call)
               /\ call.op = "sub" => SubarrayAgrees(call)

\* Looking from the end is looking from the start of the reversed bytes; a comparison
\* orders bytes strictly, and finds equal what equals does.
Looks ==
    /\ (call.op = "search" /\ call.needle # <<>> /\ call.off \in 0..Len(call.text)) =>
         LET back == Len(call.text) - Len(call.needle) - call.off
             mirrored == indexOf(Reverse(call.text), Reverse(call.needle), Most(0, back))
         IN  lastIndexOf(call.text, call.needle, call.off)
               = IF mirrored = -1 THEN -1 ELSE Len(call.text) - Len(call.needle) - mirrored
    /\ call.op = "compare" =>
         /\ compareWhole(call.s, call.t) = -compareWhole(call.t, call.s)
         /\ equals(call.s, call.t) <=> compareWhole(call.s, call.t) = 0
         /\ \A from \in 0..Len(call.s), to \in 0..Len(call.t) :
              compare(call.s, call.t, to, Len(call.t), from, Len(call.s))
                = compareWhole(SubSeq(call.s, from + 1, Len(call.s)), SubSeq(call.t, to + 1, Len(call.t)))

\* A number that is accepted is read back, changing only its bytes; it is refused when
\* it does not fit in the view or, for a fixed width, in its bytes, and one of a given
\* width is kept modulo that width.  The other byte order reads the bytes swapped.
NumbersKept ==
    call.op = "number" =>
        LET st == Written(call)
            size == Radix^call.width
        IN  /\ WriteVerdict(call) = "ok" <=>
                 /\ call.off >= 0 /\ call.off + call.width <= viewA.len
                 /\ call.fixed => InRange(call.val, call.width, call.signed)
            /\ WriteVerdict(call) = "ok" =>
                 /\ OnlyThere(st, Places(viewA, call.off, call.width))
                 /\ InRange(ReadBack(st, call), call.width, call.signed)
                 /\ (ReadBack(st, call) - call.val) % size = 0
                 /\ rdU(st, viewA, call.off, call.width, ~call.be)
                      = LET two == SubSeq(Bytes(st, viewA), call.off + 1, call.off + call.width)
                        IN  rdU(swap(two, call.width), View(0, call.width), 0, call.width, call.be)

\* Text survives the codecs.  Decoding UTF-8 drops no ASCII byte but after a sequence
\* cut short at the end; it finds no fault in what isUtf8 accepts, nor isUtf8 in what
\* it decodes cleanly without overlong starts, nor either in what is encoded.
Clean(chunks) == \A i \in DOMAIN chunks : chunks[i].ok
TextSurvives ==
    /\ call.op = "utf8" =>
         LET chunks == utf8Decode(call.bytes, 1)
             cut == chunks # <<>> /\ ~Last(chunks).ok /\ call.bytes[Last(chunks).at] \in DOMAIN Need
             coded == utf8Encode(call.units)
         IN  /\ \A i \in DOMAIN call.bytes : call.bytes[i] = "a" =>
                    \/ \E j \in DOMAIN chunks : chunks[j] = Chunk(i, 1, TRUE)
                    \/ cut /\ i > Last(chunks).at
             /\ isUtf8(call.bytes, 1) <=>
                    Clean(chunks) /\ ToSet(call.bytes) \cap {"o", "5"} = {}
             /\ isUtf8(coded, 1) /\ Len(utf8Decode(coded, 1)) =
                    Len(call.units) - Cardinality({i \in DOMAIN call.units : Paired(call.units, i)})
    /\ call.op = "code" =>
         /\ b64Decode(b64Encode(call.bytes, TRUE)) = call.bytes
         /\ b64Decode(b64Encode(call.bytes, FALSE)) = call.bytes
         /\ ToSet(call.bytes) \subseteq {0, 1, 16, 17} => hexDecode(hexEncode(call.bytes)) = call.bytes
         /\ "z" \notin ToSet(call.digits) /\ Len(call.digits) % 2 = 0 =>
               hexEncode(hexDecode(call.digits)) = call.digits
         /\ Len(call.bytes) % 2 = 0 =>
               utf16Encode(utf16Decode([i \in DOMAIN call.bytes |-> call.bytes[i] % Radix]))
                  = [i \in DOMAIN call.bytes |-> call.bytes[i] % Radix]

BuffersWhole == CopyMovesAll /\ MovesWithin /\ Looks /\ NumbersKept /\ TextSurvives

\* "Copy through a snapshot when the ranges overlap in the same store, or a forward copy
\* would read bytes it has already overwritten" (buffer.js:366): the order is chosen by
\* the offsets inside the views, which begin at different bytes.
CopyIsSnapshot == call.op = "copy" => Snapshot(call)
BufNext == UNCHANGED bufVars
=============================================================================
