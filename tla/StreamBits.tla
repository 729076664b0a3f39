------------------------------ MODULE StreamBits ------------------------------
(***************************************************************************)
(* The two readers of a lossless stream, BitReader and Fast of             *)
(* src/vp8l/bitreader.rs, and the order src/vp8l/entropy.rs and            *)
(* src/vp8l/huffman.rs read with them: a header bit by bit, the bulk of    *)
(* the symbols with Fast, which never looks for the end, and the rest with *)
(* BitReader, which may stop at a symbol that runs past the end and take   *)
(* it up again when more has arrived.                                      *)
(*                                                                         *)
(* The values are left out: a reader is where the bits it shows next lie   *)
(* in the stream, and what it shows is right when that is where the last   *)
(* ones ended.                                                             *)
(***************************************************************************)
EXTENDS Integers, Sequences

CONSTANTS
    Sizes,          \* the sizes of the streams, in bytes
    Growing,        \* those of a still, that arrive bit by bit
    MinFirst,       \* the least bytes a still is begun with
    HeaderReads,    \* the bits read at once in a header
    HeaderCodes,    \* the lengths of the codes of code lengths
    CodeLengths,    \* the lengths of codes
    PackedLengths,  \* the bits a lookup of several codes takes
    LengthExtras,   \* the extra bits of a length
    DistanceExtras, \* and of a distance
    FastMargin, TailMargin,
    MaxHeader       \* bound: the bits of a header

\* The lengths of codes are at most MAX_CODE_LENGTH, of codes of code lengths what
\* three bits say, of extra bits what the prefixes 23 and 39 give; a lookup takes
\* PACKED_BITS at the most.  A still is begun with 16 bytes at the least.
BitsAssumption ==
    /\ Sizes \subseteq Nat /\ Growing \subseteq Sizes /\ MinFirst \in Nat /\ MinFirst >= 8
    /\ HeaderReads \subseteq 1..24 /\ HeaderCodes \subseteq 0..7
    /\ CodeLengths \subseteq 0..15 /\ PackedLengths \subseteq 0..8
    /\ LengthExtras \subseteq 0..10 /\ DistanceExtras \subseteq 0..18
    /\ FastMargin \in Nat /\ FastMargin >= 24 /\ TailMargin \in Nat /\ TailMargin >= 8
    /\ MaxHeader \in Nat

Word == 64          \* LBITS, and the bits of Fast's word
Half == 32          \* WBITS
FastBits == 56      \* FAST_BITS
LongestCode == 15   \* MAX_CODE_LENGTH

VARIABLES
    size, len,      \* the stream, and what of it is here
    base,           \* the bytes there were when the reader was made, up to 8
    gb,             \* BitReader: pos, bit, eos
    fast,           \* Fast: pos, avail
    main,           \* the image being decoded is the picture, not one of the header's
    mode,           \* "header", "flag", "fast", "slow", "more", "done", "bad"
    at,             \* the bits read so far, were none missing
    blind,          \* bits read that the reader did not have
    outside         \* a word was loaded from outside the buffer

bitVars == <<size, len, base, gb, fast, main, mode, at, blind, outside>>

Least(a, b) == IF a < b THEN a ELSE b

---------------------------------------------------------------------------
(* BitReader *)

IsEos(b) == b.eos \/ (b.pos = len /\ b.bit > Word)
SetEos(b) == IF IsEos(b) THEN [b EXCEPT !.eos = TRUE, !.bit = 0] ELSE b

\* shift_bytes(): a byte at a time, for as long as one is read and one is left.
ShiftBytes(b) ==
    LET n == IF b.bit < 8 THEN 0 ELSE Least(b.bit \div 8, len - b.pos)
    IN  SetEos([b EXCEPT !.pos = @ + n, !.bit = @ - 8 * n])
\* do_fill() and fill().
Fill(b) == IF b.bit < Half THEN b
           ELSE IF b.pos + 8 < len THEN [b EXCEPT !.pos = @ + 4, !.bit = @ - Half]
           ELSE ShiftBytes(b)
\* prefetch() and advance(): a code read by Tree::read().
Advance(b, n) == [b EXCEPT !.bit = @ + n]
Has(b, n)     == ~b.eos /\ b.bit + n <= Word
Bits(b, n)    == IF b.eos THEN b ELSE ShiftBytes(Advance(b, n))

\* Where the next bit of a reader lies.
PlaceOf(b) == 8 * (b.pos - base) + b.bit
FastPlace(g) == 8 * g.pos - g.avail

---------------------------------------------------------------------------
(* Fast *)

\* refill(): the word ORed in above the bits there are.
Refill(g) == [g EXCEPT !.pos = @ + 7 - ((g.avail \div 8) % 8),
                       !.avail = FastBits + (g.avail % 8),
                       !.out = @ \/ g.pos + 8 > len]
Consume(g, n) == [g EXCEPT !.avail = @ - n, !.short = @ \/ n > g.avail]
\* read_fast(): the lookup indexes with what is there before the refill.
ReadFast(g, n, refill) ==
    LET looked == [g EXCEPT !.short = @ \/ g.avail < LongestCode]
    IN  Consume(IF refill THEN Refill(looked) ELSE looked, n)

\* fast() and resume()
NoFast == [pos |-> 0, avail |-> 0, out |-> FALSE, short |-> FALSE]
FastOf(b) == [pos |-> b.pos - 8 + (b.bit \div 8), avail |-> 0, out |-> FALSE, short |-> FALSE]
HasFast(b) == ~b.eos /\ b.pos >= 8 /\ FastOf(b).pos + FastMargin <= len
\* A hand over at the byte behind the bits left.
ResumedBehind(g) == LET pos == g.pos - (g.avail \div 8)
                    IN  [pos |-> pos + 8, bit |-> (8 - (g.avail % 8)) % 8, eos |-> FALSE]

Resumed(g) == LET pos == g.pos - ((g.avail + 7) \div 8)
              IN  [pos |-> pos + 8, bit |-> (8 - (g.avail % 8)) % 8, eos |-> FALSE]

---------------------------------------------------------------------------
(* The symbols, as the lengths of what is read for them: a literal in one
   code, in two or in four, a copy with its extra bits *)

Literals == {<<g>> : g \in CodeLengths} \cup {<<g, p>> : g \in CodeLengths, p \in PackedLengths}
            \cup {<<g, r1, b, a>> : g, r1, b, a \in CodeLengths}
Copies   == {[code |-> g, extra |-> e, dist |-> d, far |-> x] :
                g \in CodeLengths, e \in LengthExtras, d \in CodeLengths, x \in DistanceExtras}

BitsOf(s) == IF Len(s) = 1 THEN s[1] ELSE IF Len(s) = 2 THEN s[1] + s[2]
             ELSE s[1] + s[2] + s[3] + s[4]

FastLiteral(s) ==
    CASE Len(s) = 1 -> ReadFast(fast, s[1], TRUE)
      [] Len(s) = 2 -> Consume(ReadFast(fast, s[1], TRUE), s[2])
      [] OTHER -> ReadFast(ReadFast(ReadFast(ReadFast(fast, s[1], TRUE), s[2], FALSE),
                                    s[3], TRUE), s[4], FALSE)
\* A literal decoded in one lookup: refilled before it is consumed.
FastFused(n) == Consume(Refill([fast EXCEPT !.short = @ \/ fast.avail < n]), n)
FastCopy(c) == Consume(ReadFast(Consume(ReadFast(fast, c.code, TRUE), c.extra), c.dist, TRUE), c.far)

\* The same with BitReader, with whether it had what it read.
Read(p, n)  == [b |-> Advance(p.b, n), had |-> p.had /\ Has(p.b, n), n |-> p.n + n]
Filled(p)   == [p EXCEPT !.b = Fill(@)]
Extra(p, n) == IF n = 0 THEN p
               ELSE [b |-> Bits(p.b, n), had |-> p.had /\ Has(p.b, n), n |-> p.n + n]
SlowLiteral(s) ==
    LET g == Read(Filled([b |-> gb, had |-> TRUE, n |-> 0]), s[1])
    IN  IF Len(s) # 4 THEN g
        ELSE Read(Read(Filled(Read(g, s[2])), s[3]), s[4])
SlowCopy(c) ==
    LET g == Extra(Read(Filled([b |-> gb, had |-> TRUE, n |-> 0]), c.code), c.extra)
    IN  Extra(Filled(Read(g, c.dist)), c.far)

---------------------------------------------------------------------------

\* A header's read, and the end of the header, where a still must not have run
\* past what there is and a whole image is read on.
HeaderBits(n) ==
    /\ at <= MaxHeader
    /\ mode = "header" \/ (mode = "flag" /\ n = 1)
    /\ mode' = "header"
    /\ gb' = Bits(gb, n) /\ at' = at + n /\ blind' = (blind \/ ~Has(gb, n))
    /\ UNCHANGED <<size, len, base, fast, main, outside>>
\* A code of the code lengths, and what is repeated of them.
HeaderCode(n, e) ==
    /\ mode = "header" /\ at <= MaxHeader /\ ~IsEos(gb)
    /\ LET p == Extra(Read(Filled([b |-> gb, had |-> TRUE, n |-> 0]), n), e)
       IN  gb' = p.b /\ at' = at + p.n /\ blind' = (blind \/ ~p.had)
    /\ UNCHANGED <<size, len, base, fast, main, mode, outside>>
HeaderEnds ==
    /\ mode = "header"
    /\ mode' = IF IsEos(gb) THEN "bad" ELSE IF HasFast(gb) THEN "fast" ELSE "slow"
    /\ fast' = IF mode' = "fast" THEN Consume(Refill(FastOf(gb)), gb.bit % 8) ELSE fast
    /\ main' \in BOOLEAN
    /\ UNCHANGED <<size, len, base, gb, at, blind, outside>>

\* A pixel of the bulk.
FastSymbol(g, n) ==
    /\ mode = "fast" /\ fast.pos <= len - FastMargin
    /\ fast' = g /\ at' = at + n
    /\ UNCHANGED <<size, len, base, gb, main, mode, blind, outside>>
LeaveFast ==
    /\ mode = "fast" /\ fast.pos > len - FastMargin
    /\ gb' = Resumed(fast) /\ mode' = "slow" /\ fast' = NoFast
    /\ blind' = (blind \/ fast.short) /\ outside' = (outside \/ fast.out \/ gb'.pos > len)
    /\ UNCHANGED <<size, len, base, main, at>>

\* A pixel near the end.  A still stops before one that runs past what there
\* is; a whole image looks before each pixel.
Resumable == main /\ size \in Growing
Near == len - gb.pos <= TailMargin
SlowSymbol(p) ==
    /\ mode = "slow"
    /\ IF ~Resumable /\ IsEos(gb)
       THEN mode' = "bad" /\ UNCHANGED <<gb, at, blind>>
       ELSE IF Resumable /\ Near /\ IsEos(p.b)
       THEN mode' = "more" /\ UNCHANGED <<gb, at, blind>>
       ELSE /\ gb' = p.b /\ at' = at + p.n /\ blind' = (blind \/ ~p.had)
            /\ UNCHANGED mode
    /\ UNCHANGED <<size, len, base, fast, main, outside>>
Ends ==
    /\ mode = "slow"
    /\ mode' = IF ~Resumable /\ IsEos(gb) THEN "bad" ELSE IF main THEN "done" ELSE "flag"
    /\ UNCHANGED <<size, len, base, gb, fast, main, at, blind, outside>>

\* More of the still has arrived, and it goes on where it stopped.
Grow ==
    /\ mode = "more" /\ len < size
    /\ len' \in len + 1..size
    /\ mode' = IF ~gb.eos /\ gb.pos >= 8 /\ FastOf(gb).pos + FastMargin <= len' THEN "fast" ELSE "slow"
    /\ fast' = IF mode' = "fast" THEN Consume([FastOf(gb) EXCEPT !.pos = @ + 7, !.avail = FastBits],
                                           gb.bit % 8) ELSE fast
    /\ UNCHANGED <<size, base, gb, main, at, blind, outside>>

BitsInitOf(s, n) ==
    /\ size = s /\ len = n /\ base = Least(n, 8)
    /\ gb = [pos |-> Least(n, 8), bit |-> 0, eos |-> FALSE]
    /\ fast = NoFast
    /\ main = FALSE /\ mode = "header" /\ at = 0 /\ blind = FALSE /\ outside = FALSE
BitsInit == \E s \in Sizes : \E n \in (IF s \in Growing THEN MinFirst..s ELSE {s}) : BitsInitOf(s, n)

BitsNext ==
    \/ \E n \in HeaderReads : HeaderBits(n)
    \/ \E n \in HeaderCodes, e \in HeaderReads \cup {0} : HeaderCode(n, e)
    \/ HeaderEnds \/ LeaveFast \/ Ends \/ Grow
    \/ \E s \in Literals : FastSymbol(FastLiteral(s), BitsOf(s))
    \/ \E n \in PackedLengths : FastSymbol(FastFused(n), n)
    \/ \E c \in Copies : FastSymbol(FastCopy(c), c.code + c.extra + c.dist + c.far)
    \/ \E s \in Literals : Len(s) # 2 /\ SlowSymbol(SlowLiteral(s))
    \/ \E c \in Copies : SlowSymbol(SlowCopy(c))

BitsSpec == BitsInit /\ [][BitsNext]_bitVars

---------------------------------------------------------------------------

\* Whichever reader reads, handed over wherever and stopped and taken up again
\* wherever, the bits it shows are those that follow the last ones read; Fast
\* never loads a word from outside the buffer nor looks a code up with bits it
\* does not have; and bits that are missing are noticed before an image ends or
\* a still stops, which it does only before what it has not got.  (Of less than
\* eight bytes all the word counts as there.)
ReadInOrder ==
    /\ mode \in {"header", "flag", "slow", "more", "done"} /\ ~IsEos(gb) => PlaceOf(gb) = at /\ ~blind
    /\ mode = "fast" => FastPlace(fast) = at /\ ~fast.out /\ ~fast.short
    /\ ~outside
    /\ mode \in {"more", "done"} => ~IsEos(gb) /\ (len >= 8 => at <= 8 * len)
    /\ mode = "bad" => at > 8 * len
=============================================================================
