------------------------------ MODULE PrefixCodes ------------------------------
(***************************************************************************)
(* The prefix codes of a lossless image, src/vp8l/huffman.rs: the lengths  *)
(* read for a code, the tables made of them, and a pixel read through      *)
(* them, in the bulk of src/vp8l/entropy.rs and near its end.              *)
(*                                                                         *)
(* A code is a sequence of lengths, by symbol.  A table's root is indexed  *)
(* by the next bits of the stream, the first the lowest, and links to a    *)
(* further table for the codes that are longer.  A stream is a number, the *)
(* next bit its lowest.                                                    *)
(***************************************************************************)
EXTENDS Integers, SequencesExt

CONSTANTS
    MaxLen,     \* MAX_CODE_LENGTH
    TableBits,  \* TABLE_BITS
    PackedBits, \* PACKED_BITS
    Literals,   \* NUM_LITERAL_CODES
    LongShift   \* LONG_SHARE is 1 << (MAX_CODE_LENGTH - LongShift)

Lens == 1..MaxLen
Symbols(c)  == [i \in 1..Len(c) |-> i]
CountOf(c)  == [l \in 0..MaxLen |-> Cardinality({s \in 1..Len(c) : c[s] = l})]
SumOver(S, F(_)) == FoldSet(LAMBDA l, n : n + F(l), 0, S)

---------------------------------------------------------------------------
(* The lengths *)

\* read_simple_code(): one symbol, or two that may be the same.
SimpleCode(symbols, size) ==
    [s \in 1..size |-> IF s \in Range(symbols) THEN 1 ELSE 0]

\* read_normal_code(): lengths and repeats, for `max` tokens, with the counts
\* kept along the way.
NormalCode(tokens, size, max) ==
    LET put(a, n, l) ==
            IF Len(a.c) + n > size THEN [a EXCEPT !.ok = FALSE]
            ELSE [a EXCEPT !.c = @ \o [i \in 1..n |-> l],
                           !.count[l] = IF l = 0 THEN @ ELSE @ + n]
        one(a, t) ==
            IF ~a.ok \/ Len(a.c) = size THEN a
            ELSE CASE t.kind = "length" ->
                        [put(a, 1, t.n) EXCEPT !.prev = IF t.n = 0 THEN @ ELSE t.n]
                   [] t.kind = "again" -> put(a, t.n, a.prev)
                   [] OTHER -> put(a, t.n, 0)
        end == FoldLeft(one, [c |-> <<>>, ok |-> max <= size, prev |-> MaxLen \div 2 + 1,
                              count |-> [l \in 0..MaxLen |-> 0]],
                        SubSeq(tokens, 1, IF max < Len(tokens) THEN max ELSE Len(tokens)))
    IN  [end EXCEPT !.c = @ \o [i \in 1..size - Len(@) |-> 0]]

---------------------------------------------------------------------------
(* The tables *)

\* analyze(): the code complete, or of one symbol.  How much of the code space
\* is left after the lengths up to l decides.
LeftAfter(count, l) == 2 ^ l - SumOver(1..l, LAMBDA k : count[k] * 2 ^ (l - k))
Sorted(c) == FlattenSeq([l \in Lens |-> SelectSeq(Symbols(c), LAMBDA s : c[s] = l)])
Analyze(c) ==
    LET count == CountOf(c)
    IN  /\ \A l \in Lens : LeftAfter(count, l) >= 0
        /\ Len(Sorted(c)) > 0
        /\ LeftAfter(count, MaxLen) = 0 \/ Len(Sorted(c)) = 1

\* The root: as long as the longest code, up to TableBits, and longer while too
\* many of the codes read would need more.
LongShare(count, bits) ==
    SumOver(bits + 1..MaxLen, LAMBDA l : count[l] * 2 ^ (MaxLen - l))
RootBits(c, most) ==
    LET count == CountOf(c)
        longest == Max(Range(c))
        from == Min({TableBits, longest})
        to == Max({from, Min({most, longest})})
    IN  IF Len(Sorted(c)) = 1 THEN 0
        ELSE Min({b \in from..to :
                    b = to \/ LongShare(count, b) <= 2 ^ (MaxLen - LongShift)})

\* next_key(): a code as the table is indexed, and the one after it.
NextKey(key, len) ==
    LET zeros == {2 ^ i : i \in {j \in 0..len - 1 : (key \div 2 ^ j) % 2 = 0}}
    IN  IF zeros = {} THEN key ELSE (key % Max(zeros)) + Max(zeros)

\* A table for the codes of one length.
NextTableBitsOne(count, len, root) == len - root

\* next_table_bits(): enough bits for the codes left to fill a table.
NextTableBits(count, len, root) ==
    Min({l \in len..MaxLen :
            \/ l = MaxLen
            \/ SumOver(len..l, LAMBDA k : count[k] * 2 ^ (l - k)) >= 2 ^ (l - root)}) - root

\* table_size(): the tables behind the root, counted before they are made.  The
\* first longer code is the one behind those that fit, its bits reversed.
Reversed(n, bits) == SumOver(0..bits - 1, LAMBDA i : ((n \div 2 ^ i) % 2) * 2 ^ (bits - 1 - i))
TableSize(c, root) ==
    LET fit == SumOver(1..root, LAMBDA l : CountOf(c)[l] * 2 ^ (root - l))
        long == SelectSeq(Sorted(c), LAMBDA s : c[s] > root)
        one(a, s) ==
            LET new == a.key % 2 ^ root # a.low
            IN  [total |-> IF new THEN a.total + 2 ^ NextTableBits(a.count, c[s], root)
                                  ELSE a.total,
                 low |-> a.key % 2 ^ root, key |-> NextKey(a.key, c[s]),
                 count |-> [a.count EXCEPT ![c[s]] = @ - 1]]
    IN  IF fit >= 2 ^ root THEN 2 ^ root
        ELSE FoldLeft(one, [total |-> 2 ^ root, low |-> -1, key |-> Reversed(fit, root),
                            count |-> CountOf(c)], long).total

Entry(len, s)       == [bits |-> len, value |-> s, sub |-> 0]
Link(sub, off)      == [bits |-> MaxLen + 1, value |-> off, sub |-> sub]
Empty               == Entry(0, 0)
\* double_to(): what is filled so far of the table at `at`, again and again.
DoubleTo(t, at, filled, size) ==
    [i \in DOMAIN t |-> IF i \in at + filled..at + size - 1
                        THEN t[at + ((i - at) % filled)] ELSE t[i]]

\* fill(): the root, then a table for each root entry of longer codes.
Fill(c, root, size) ==
    LET short(a, s) == [a EXCEPT !.t[a.key] = Entry(c[s], s), !.key = NextKey(@, c[s]),
                                 !.count[c[s]] = @ - 1]
        link(a, s) ==
            LET bits == NextTableBits(a.count, c[s], root)
                low == a.key % 2 ^ root
                sub == a.sub + a.subSize
            IN  IF low = a.low \/ ~a.ok THEN a
                ELSE IF a.total + 2 ^ bits > size THEN [a EXCEPT !.ok = FALSE]
                ELSE [a EXCEPT !.sub = sub, !.subSize = 2 ^ bits, !.total = @ + 2 ^ bits,
                               !.low = low, !.filled = 1,
                               !.t = [@ EXCEPT ![low] = Link(bits, sub - low), ![sub] = Empty]]
        long(a0, s) ==
            LET a == link(a0, s)
                span == 2 ^ (c[s] - root)
                at == a.sub + (a.key \div 2 ^ root)
            IN  IF ~a.ok THEN a
                ELSE [a EXCEPT !.t = [DoubleTo(@, a.sub, a.filled, span) EXCEPT
                                         ![at] = Entry(c[s], s)],
                               !.filled = IF @ > span THEN @ ELSE span,
                               !.key = NextKey(@, c[s]), !.count[c[s]] = @ - 1]
        len(a, l) ==
            LET of == SelectSeq(Symbols(c), LAMBDA s : c[s] = l)
            IN  IF l > root THEN FoldLeft(long, a, of)
                ELSE FoldLeft(short, [a EXCEPT !.t = DoubleTo(@, 0, a.filled, 2 ^ l),
                                               !.filled = 2 ^ l], of)
        end == FoldLeft(len, [t |-> [i \in 0..size - 1 |-> Empty], key |-> 0, low |-> -1, sub |-> 0,
                              subSize |-> 2 ^ root, total |-> 2 ^ root, filled |-> 1,
                              count |-> CountOf(c), ok |-> TRUE], [l \in Lens |-> l])
    IN  [t |-> end.t, ok |-> end.ok /\ end.total = size]

\* build()
Tables(c, root) ==
    IF root = 0 THEN [ok |-> TRUE, root |-> 0, t |-> [i \in {0} |-> Entry(0, Sorted(c)[1])]]
    ELSE [root |-> root] @@ Fill(c, root, TableSize(c, root))
Build(c, most) == IF Analyze(c) THEN Tables(c, RootBits(c, most))
                  ELSE [ok |-> FALSE, root |-> 0, t |-> <<>>]

---------------------------------------------------------------------------
(* Reading *)

\* Tree::read() and Reader::read_fast(): the symbol, and the bits it took.
Lookup(b, v) ==
    LET i == v % 2 ^ b.root
        e == b.t[i]
    IN  IF e.bits <= MaxLen THEN e
        ELSE b.t[i + e.value + ((v \div 2 ^ b.root) % 2 ^ e.sub)]
Behind(v, n) == v \div 2 ^ n

\* Codes read one after the other.
InTurn(codes, v) ==
    FoldLeft(LAMBDA a, b : LET e == Lookup(b, Behind(v, a.bits))
                           IN  [bits |-> a.bits + e.bits, px |-> Append(a.px, e.value)],
             [bits |-> 0, px |-> <<>>], codes)

\* build_packed(): red, blue and alpha in one lookup, where they fit.
Zero == [bits |-> 0, px |-> <<>>]
Packed(rba) ==
    [i \in 0..2 ^ PackedBits - 1 |->
        LET at(v, b) == b.t[v % 2 ^ b.root]
            all == FoldLeft(LAMBDA a, b : LET e == at(Behind(i, a.bits), b)
                                          IN  [bits |-> a.bits + e.bits, px |-> Append(a.px, e.value)],
                            [bits |-> 0, px |-> <<>>], rba)
        IN  IF all.bits > PackedBits THEN Zero ELSE all]

\* build_fused(): green with them, kept when most of it decodes a literal.
Fused(green, packed) ==
    [i \in 0..2 ^ PackedBits - 1 |->
        LET e == green.t[i % 2 ^ green.root]
            p == packed[Behind(i, e.bits)]
        IN  IF e.bits > PackedBits \/ e.value > Literals \/ p = Zero
               \/ e.bits + p.bits > PackedBits
            THEN Zero ELSE [bits |-> e.bits + p.bits, px |-> <<e.value>> \o p.px]]
Kept(fused) ==
    4 * Cardinality({i \in DOMAIN fused : fused[i] # Zero}) >= 3 * 2 ^ PackedBits

\* read_image_header(), of a group: which tables a literal is read with.  Those
\* that read several codes at once are left out of an image too small for them.
Group(green, rba, large) ==
    LET packed == IF large THEN Packed(rba) ELSE [i \in 0..2 ^ PackedBits - 1 |-> Zero]
        trivial == \A k \in 1..3 : rba[k].root = 0
        fused == Fused(green, packed)
    IN  [green |-> green, rba |-> rba, packed |-> packed, fused |-> fused,
         trivial |-> trivial,
         hasFused |-> large /\ ~trivial /\ rba[3].root = 0 /\ Kept(fused)]

\* A pixel of the bulk: the fused table, then the packed one, then the codes.
Pixel(g, v) ==
    LET f == g.fused[v % 2 ^ PackedBits]
        e == Lookup(g.green, v)
        rest == Behind(v, e.bits)
        p == IF g.trivial THEN InTurn(g.rba, rest) ELSE g.packed[rest % 2 ^ PackedBits]
        rba == IF p = Zero THEN InTurn(g.rba, rest) ELSE p
    IN  IF g.hasFused /\ f # Zero THEN f
        ELSE IF e.value > Literals THEN [bits |-> e.bits, px |-> <<e.value>>]
        ELSE [bits |-> e.bits + rba.bits, px |-> <<e.value>> \o rba.px]

---------------------------------------------------------------------------
(* What the lengths stand for: the canonical code, its words in the order of
   the lengths and of the symbols, read from their highest bit on *)

CodeWord(c, s) ==
    SumOver(1..c[s] - 1, LAMBDA l : CountOf(c)[l] * 2 ^ (c[s] - l))
    + Cardinality({q \in 1..s - 1 : c[q] = c[s]})
Starts(c, s, v) == \A i \in 0..c[s] - 1 :
    (v \div 2 ^ i) % 2 = (CodeWord(c, s) \div 2 ^ (c[s] - 1 - i)) % 2
Used(c) == {s \in 1..Len(c) : c[s] > 0}
Meant(c, v) == IF Cardinality(Used(c)) = 1 THEN Entry(0, CHOOSE s \in Used(c) : TRUE)
               ELSE LET s == CHOOSE q \in Used(c) : Starts(c, q, v) IN Entry(c[s], s)
Complete(c) == SumOver(Used(c), LAMBDA s : 2 ^ (MaxLen - c[s])) = 2 ^ MaxLen

\* A code is taken exactly when its lengths make a whole one or name a single
\* symbol; its tables are as large as was counted; and they read from every
\* stream the symbol whose word the stream starts with.
TablesRight(b, c) ==
    /\ b.ok <=> Complete(c) \/ Cardinality(Used(c)) = 1
    /\ b.ok => \A v \in 0..2 ^ MaxLen - 1 : Lookup(b, v) = Meant(c, v)
CodeRight(c, most) == TablesRight(Build(c, most), c)

\* The lengths read stay within the alphabet, and their counts are theirs.
LengthsRight(tokens, size, max) ==
    LET n == NormalCode(tokens, size, max)
    IN  n.ok => Len(n.c) = size /\ \A l \in Lens : n.count[l] = CountOf(n.c)[l]

\* However many tables a pixel is read through, it is the one its four codes
\* would have read in turn, and takes the bits they take.
ReadAsCoded(g, v) ==
    LET first == InTurn(<<g.green>>, v)
    IN  Pixel(g, v) = IF first.px[1] > Literals THEN first ELSE InTurn(<<g.green>> \o g.rba, v)
AllReadAsCoded(g, streams) == \A v \in streams : ReadAsCoded(g, v)
PixelRight(green, rba, large, streams) ==
    AllReadAsCoded(Group(Build(green, TableBits + 1), [k \in 1..3 |-> Build(rba[k], TableBits)],
                         large), streams)
=============================================================================
