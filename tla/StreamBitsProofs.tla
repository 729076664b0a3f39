-------------------------- MODULE StreamBitsProofs --------------------------
(***************************************************************************)
(* The two readers of a lossless stream read it in order, proved for       *)
(* streams of any size that arrive in any pieces, and for symbols of every *)
(* length the format allows.                                               *)
(*                                                                         *)
(* Both readers are followed by one number, the bits read so far.  A       *)
(* BitReader that has not seen the end shows the bit of that number (Held),*)
(* and one that has was asked for more than there is.  A Fast has at least *)
(* the bits of the longest code, and at a pixel's start the margin it      *)
(* needs for its refills (Ready).                                          *)
(***************************************************************************)
EXTENDS StreamBits, TLAPS

Reader == [pos : Int, bit : Int, eos : BOOLEAN]
FastReader == [pos : Int, avail : Int, out : BOOLEAN, short : BOOLEAN]

\* What a reader is at: all is shifted in, or at most k bits of the word are read.
Within(b, k) == b.pos = len \/ b.bit <= k
Sane(b) == b \in Reader /\ b.pos <= len /\ b.bit >= 0 /\ (b.eos => b.pos = len)

\* Lengths are what BitsInitOf makes of them.
Lengths ==
    /\ size \in Nat /\ len \in Nat /\ base \in 0..8 /\ len <= size
    /\ base < 8 => base = len
    /\ size \in Growing => base = 8

\* p has read p.n bits from the place a on, if it has not run into the end.
Held(p, a) ==
    /\ p \in [b : Reader, had : BOOLEAN, n : Int] /\ Sane(p.b)
    /\ IF IsEos(p.b) THEN a + p.n > 8 * len ELSE PlaceOf(p.b) = a + p.n /\ p.had

\* p has read n bits more in q, and an end that was seen stays seen.
Further(p, q, n, a) == Held(q, a) /\ q.n = p.n + n /\ (IsEos(p.b) => IsEos(q.b))

---------------------------------------------------------------------------
(* The operations of BitReader *)

LEMMA Eighths == ASSUME NEW x \in Int PROVE
    /\ x \div 8 \in Int /\ x % 8 \in 0..7 /\ x = 8 * (x \div 8) + (x % 8)
OBVIOUS

\* What EXCEPT does to a reader.
LEMMA ReaderSet ==
    ASSUME NEW b \in Reader, NEW x \in Int, NEW y \in Int
    PROVE  /\ [b EXCEPT !.pos = x, !.bit = y] \in Reader
           /\ [b EXCEPT !.bit = y] \in Reader
BY Zenon DEF Reader

LEMMA ReaderEnded ==
    ASSUME NEW b \in Reader PROVE [b EXCEPT !.eos = TRUE, !.bit = 0] \in Reader
<1>1. 0 \in Int
  OBVIOUS
<1> QED  BY <1>1, Zenon DEF Reader

LEMMA ShiftKeeps ==
    ASSUME Lengths, NEW b, Sane(b), Within(b, 64)
    PROVE  LET c == ShiftBytes(b) IN
           /\ Sane(c) /\ Within(c, 7) /\ (IsEos(c) <=> IsEos(b))
           /\ ~IsEos(b) => PlaceOf(c) = PlaceOf(b)
<1> DEFINE n == IF b.bit < 8 THEN 0 ELSE Least(b.bit \div 8, len - b.pos)
           d == [b EXCEPT !.pos = @ + n, !.bit = @ - 8 * n]
<1>1. n \in Int /\ n >= 0 /\ n <= len - b.pos /\ 8 * n <= b.bit
  BY Eighths DEF Lengths, Sane, Reader, Least
<1>2. b.pos + n = len \/ b.bit - 8 * n <= 7
  BY Eighths DEF Lengths, Sane, Reader, Least
<1>3. d \in Reader /\ d.pos = b.pos + n /\ d.bit = b.bit - 8 * n /\ d.eos = b.eos
  <2>1. b.pos + n \in Int /\ b.bit - 8 * n \in Int /\ b \in Reader
    BY <1>1 DEF Sane, Reader
  <2> HIDE DEF n
  <2> QED  BY <2>1, ReaderSet DEF Reader
<1>5. ShiftBytes(b) = SetEos(d)
  BY DEF ShiftBytes
<1> HIDE DEF n, d
<1>4. IsEos(d) <=> IsEos(b)
  <2>1. CASE b.pos = len
    <3>1. n = 0
      BY <1>1, <2>1 DEF Lengths, Sane, Reader
    <3> QED  BY <3>1, <1>3, <2>1 DEF IsEos, Sane, Reader
  <2>2. CASE b.pos # len
    <3>1. ~b.eos /\ b.bit <= 64
      BY <2>2 DEF Sane, Within
    <3>2. d.bit <= 64
      BY <3>1, <1>1, <1>3 DEF Sane, Reader
    <3>3. ~(d.bit > 64) /\ ~d.eos /\ ~(b.bit > 64)
      BY <3>1, <3>2, <1>3 DEF Sane, Reader
    <3>4. ~IsEos(b)
      BY <3>3, <3>1, Zenon DEF IsEos, Word
    <3>5. ~IsEos(d)
      BY <3>3, Zenon DEF IsEos, Word
    <3> QED  BY <3>4, <3>5
  <2> QED  BY <2>1, <2>2
<1>6. CASE IsEos(b)
  <2>1. SetEos(d) = [d EXCEPT !.eos = TRUE, !.bit = 0]
    BY <1>4, <1>6 DEF SetEos
  <2>2. d.pos = len
    BY <1>6, <1>4, <1>3, <1>1 DEF IsEos, Sane, Reader, Lengths
  <2> DEFINE c == [d EXCEPT !.eos = TRUE, !.bit = 0]
  <2>3. c \in Reader
    BY <1>3, ReaderEnded
  <2>4. c.pos = len /\ c.bit = 0 /\ c.eos
    BY <2>2, <1>3 DEF Reader
  <2>5. ShiftBytes(b) = c
    BY <2>1, <1>5
  <2> HIDE DEF c
  <2>6. Sane(c) /\ Within(c, 7) /\ IsEos(c)
    BY <2>3, <2>4 DEF Sane, Reader, Within, IsEos, Lengths
  <2> QED  BY <2>5, <2>6, <1>6
<1>7. CASE ~IsEos(b)
  <2>1. SetEos(d) = d
    BY <1>4, <1>7 DEF SetEos
  <2>2. Sane(d) /\ Within(d, 7)
    BY <1>1, <1>2, <1>3, <1>7 DEF Sane, Within, IsEos, Reader, Lengths
  <2>3. PlaceOf(d) = PlaceOf(b)
    BY <1>1, <1>3 DEF PlaceOf, Sane, Reader, Lengths
  <2> QED  BY <2>1, <2>2, <2>3, <1>4, <1>5, <1>7
<1> QED  BY <1>6, <1>7

LEMMA FillKeeps ==
    ASSUME Lengths, NEW b, Sane(b), Within(b, 64)
    PROVE  LET c == Fill(b) IN
           /\ Sane(c) /\ Within(c, 32) /\ (IsEos(c) <=> IsEos(b))
           /\ ~IsEos(b) => PlaceOf(c) = PlaceOf(b)
<1>1. CASE b.bit < 32
  <2>1. Fill(b) = b
    BY <1>1 DEF Fill, Half
  <2> QED  BY <1>1, <2>1 DEF Within, Sane, Reader
<1>2. CASE ~(b.bit < 32) /\ b.pos + 8 < len
  <2> DEFINE c == [b EXCEPT !.pos = @ + 4, !.bit = @ - 32]
  <2>1. Fill(b) = c
    BY <1>2 DEF Fill, Half
  <2>2. b \in Reader /\ b.pos + 4 \in Int /\ b.bit - 32 \in Int
    BY DEF Sane, Reader
  <2>3. c \in Reader
    BY <2>2, ReaderSet
  <2>4. c.pos = b.pos + 4 /\ c.bit = b.bit - 32 /\ c.eos = b.eos
    BY <2>2 DEF Reader
  <2>5. ~b.eos /\ b.pos # len /\ c.pos # len /\ b.bit <= 64
    BY <1>2, <2>4, <2>2 DEF Sane, Reader, Within, Lengths
  <2> HIDE DEF c
  <2>6. ~IsEos(b) /\ ~IsEos(c)
    BY <2>5, <2>4, Zenon DEF IsEos
  <2>7. Sane(c) /\ Within(c, 32)
    BY <1>2, <2>2, <2>3, <2>4, <2>5 DEF Sane, Reader, Within, Lengths
  <2>8. PlaceOf(c) = PlaceOf(b)
    BY <2>2, <2>4 DEF PlaceOf, Reader, Lengths
  <2> QED  BY <2>1, <2>6, <2>7, <2>8
<1>3. CASE ~(b.bit < 32) /\ ~(b.pos + 8 < len)
  <2>1. Fill(b) = ShiftBytes(b)
    BY <1>3 DEF Fill, Half
  <2>2. ASSUME NEW c, Sane(c), Within(c, 7) PROVE Within(c, 32)
    BY <2>2 DEF Sane, Reader, Within
  <2> QED  BY <2>1, <2>2, ShiftKeeps
<1> QED  BY <1>1, <1>2, <1>3

\* Bits that are read are behind the last, or beyond the end.
LEMMA AdvanceKeeps ==
    ASSUME Lengths, NEW b, Sane(b), NEW n \in Nat, NEW k \in Nat, Within(b, k), k + n <= 64
    PROVE  LET c == Advance(b, n) IN
           /\ Sane(c) /\ Within(c, k + n) /\ (IsEos(b) => IsEos(c))
           /\ ~IsEos(c) => PlaceOf(c) = PlaceOf(b) + n /\ Has(b, n)
           /\ IsEos(c) /\ ~IsEos(b) => PlaceOf(b) + n > 8 * len
<1> DEFINE c == [b EXCEPT !.bit = @ + n]
<1>1. Advance(b, n) = c
  BY DEF Advance
<1>2. b \in Reader /\ b.pos \in Int /\ b.bit \in Int /\ b.bit + n \in Int
  BY DEF Sane, Reader
<1>3. c \in Reader
  BY <1>2, ReaderSet
<1>4. c.pos = b.pos /\ c.bit = b.bit + n /\ c.eos = b.eos
  BY <1>2 DEF Reader
<1> HIDE DEF c
<1>5. Sane(c) /\ Within(c, k + n)
  BY <1>2, <1>3, <1>4 DEF Sane, Within
<1>6. IsEos(b) => IsEos(c)
  BY <1>2, <1>4 DEF IsEos, Word
<1>7. ASSUME ~IsEos(c) PROVE PlaceOf(c) = PlaceOf(b) + n /\ Has(b, n)
  <2>1. ~b.eos /\ b.bit + n <= 64
    BY <1>7, <1>2, <1>4 DEF IsEos, Word, Within
  <2>2. Has(b, n)
    BY <2>1 DEF Has, Word
  <2> QED  BY <2>2, <1>2, <1>4 DEF PlaceOf, Lengths
<1>8. ASSUME IsEos(c), ~IsEos(b) PROVE PlaceOf(b) + n > 8 * len
  <2>1. ~b.eos /\ b.pos = len /\ b.bit + n > 64
    BY <1>8, <1>4 DEF IsEos, Word
  <2> QED  BY <2>1, <1>2 DEF PlaceOf, Lengths
<1> QED  BY <1>1, <1>5, <1>6, <1>7, <1>8

LEMMA BitsKeeps ==
    ASSUME Lengths, NEW b, Sane(b), NEW n \in Nat, NEW k \in Nat, Within(b, k), k + n <= 64
    PROVE  LET c == Bits(b, n) IN
           /\ Sane(c) /\ Within(c, 7) /\ (IsEos(b) => IsEos(c))
           /\ ~IsEos(c) => PlaceOf(c) = PlaceOf(b) + n /\ Has(b, n)
           /\ IsEos(c) /\ ~IsEos(b) => PlaceOf(b) + n > 8 * len
<1>1. CASE b.eos
  <2>1. Bits(b, n) = b
    BY <1>1 DEF Bits
  <2>2. IsEos(b)
    BY <1>1 DEF IsEos
  <2> QED  BY <1>1, <2>1, <2>2 DEF Sane, Within
<1>2. CASE ~b.eos
  <2> DEFINE d == Advance(b, n)
             c == ShiftBytes(d)
  <2>1. Bits(b, n) = c
    BY <1>2 DEF Bits
  <2>2. /\ Sane(d) /\ Within(d, k + n) /\ (IsEos(b) => IsEos(d))
        /\ ~IsEos(d) => PlaceOf(d) = PlaceOf(b) + n /\ Has(b, n)
        /\ IsEos(d) /\ ~IsEos(b) => PlaceOf(b) + n > 8 * len
    BY AdvanceKeeps
  <2> HIDE DEF d
  <2>3. Within(d, 64)
    BY <2>2 DEF Within, Sane, Reader
  <2>4. /\ Sane(c) /\ Within(c, 7) /\ (IsEos(c) <=> IsEos(d))
        /\ ~IsEos(d) => PlaceOf(c) = PlaceOf(d)
    BY <2>2, <2>3, ShiftKeeps
  <2> HIDE DEF c
  <2> QED  BY <2>1, <2>2, <2>4
<1> QED  BY <1>1, <1>2

\* The same of a symbol's reads.
LEMMA ReadKeeps ==
    ASSUME Lengths, NEW a \in Int, NEW p, Held(p, a), NEW n \in Nat, NEW k \in Nat,
           Within(p.b, k), k + n <= 64
    PROVE  Further(p, Read(p, n), n, a) /\ Within(Read(p, n).b, k + n)
<1> DEFINE q == Read(p, n)
           c == Advance(p.b, n)
<1>1. p.n \in Int /\ p.had \in BOOLEAN /\ Sane(p.b)
  BY DEF Held
<1>2. /\ Sane(c) /\ Within(c, k + n) /\ (IsEos(p.b) => IsEos(c))
      /\ ~IsEos(c) => PlaceOf(c) = PlaceOf(p.b) + n /\ Has(p.b, n)
      /\ IsEos(c) /\ ~IsEos(p.b) => PlaceOf(p.b) + n > 8 * len
  BY <1>1, AdvanceKeeps
<1> HIDE DEF c
<1>3. q = [b |-> c, had |-> p.had /\ Has(p.b, n), n |-> p.n + n]
  BY DEF Read, c
<1> HIDE DEF q
<1>4. q.b = c /\ (q.had <=> p.had /\ Has(p.b, n)) /\ q.n = p.n + n
  BY <1>3
<1>5. q \in [b : Reader, had : BOOLEAN, n : Int]
  BY <1>1, <1>2, <1>3 DEF Sane
<1>6. CASE IsEos(p.b)
  <2>1. a + p.n > 8 * len
    BY <1>6 DEF Held
  <2>2. a + q.n > 8 * len
    BY <2>1, <1>1, <1>4 DEF Lengths
  <2> QED  BY <2>2, <1>2, <1>4, <1>5, <1>6 DEF Further, Held, q
<1>7. CASE ~IsEos(p.b)
  <2>1. PlaceOf(p.b) = a + p.n /\ p.had
    BY <1>7 DEF Held
  <2>2. IsEos(c) => a + q.n > 8 * len
    BY <2>1, <1>1, <1>2, <1>4, <1>7
  <2>3. ~IsEos(c) => PlaceOf(c) = a + q.n /\ q.had
    BY <2>1, <1>1, <1>2, <1>4
  <2> QED  BY <2>2, <2>3, <1>2, <1>4, <1>5, <1>7 DEF Further, Held, q
<1> QED  BY <1>6, <1>7

LEMMA FilledKeeps ==
    ASSUME Lengths, NEW a \in Int, NEW p, Held(p, a), Within(p.b, 64)
    PROVE  Further(p, Filled(p), 0, a) /\ Within(Filled(p).b, 32)
<1> DEFINE q == Filled(p)
           c == Fill(p.b)
<1>1. p \in [b : Reader, had : BOOLEAN, n : Int] /\ Sane(p.b)
  BY DEF Held
<1>2. /\ Sane(c) /\ Within(c, 32) /\ (IsEos(c) <=> IsEos(p.b))
      /\ ~IsEos(p.b) => PlaceOf(c) = PlaceOf(p.b)
  BY <1>1, FillKeeps
<1> HIDE DEF c
<1>3. q = [p EXCEPT !.b = c]
  BY DEF Filled, c
<1> HIDE DEF q
<1>4. c \in Reader
  BY <1>2 DEF Sane
<1>5. q.b = c /\ q.had = p.had /\ q.n = p.n
  BY <1>1, <1>3
<1>6. q \in [b : Reader, had : BOOLEAN, n : Int]
  BY <1>1, <1>3, <1>4
<1>7. IF IsEos(q.b) THEN a + q.n > 8 * len ELSE PlaceOf(q.b) = a + q.n /\ q.had
  BY <1>2, <1>5 DEF Held
<1>8. p.n + 0 = p.n
  BY <1>1
<1> QED  BY <1>2, <1>5, <1>6, <1>7, <1>8 DEF Further, Held, q

LEMMA ExtraKeeps ==
    ASSUME Lengths, NEW a \in Int, NEW p, Held(p, a), NEW n \in Nat, NEW k \in Nat,
           Within(p.b, k), 7 <= k, k + n <= 64
    PROVE  Further(p, Extra(p, n), n, a) /\ Within(Extra(p, n).b, k)
<1>1. p.n \in Int /\ p.had \in BOOLEAN /\ Sane(p.b)
  BY DEF Held
<1>2. CASE n = 0
  <2>1. Extra(p, n) = p /\ p.n + n = p.n
    BY <1>1, <1>2 DEF Extra
  <2> QED  BY <2>1 DEF Further
<1>3. CASE n # 0
  <2> DEFINE q == Extra(p, n)
             c == Bits(p.b, n)
  <2>2. /\ Sane(c) /\ Within(c, 7) /\ (IsEos(p.b) => IsEos(c))
        /\ ~IsEos(c) => PlaceOf(c) = PlaceOf(p.b) + n /\ Has(p.b, n)
        /\ IsEos(c) /\ ~IsEos(p.b) => PlaceOf(p.b) + n > 8 * len
    BY <1>1, BitsKeeps
  <2> HIDE DEF c
  <2>3. q = [b |-> c, had |-> p.had /\ Has(p.b, n), n |-> p.n + n]
    BY <1>3 DEF Extra, c
  <2> HIDE DEF q
  <2>4. q.b = c /\ (q.had <=> p.had /\ Has(p.b, n)) /\ q.n = p.n + n
    BY <2>3
  <2>5. q \in [b : Reader, had : BOOLEAN, n : Int]
    BY <1>1, <2>2, <2>3 DEF Sane
  <2>0. Within(c, k)
    BY <2>2 DEF Within, Sane, Reader
  <2>6. CASE IsEos(p.b)
    <3>1. a + p.n > 8 * len
      BY <2>6 DEF Held
    <3>2. a + q.n > 8 * len
      BY <3>1, <1>1, <2>4 DEF Lengths
    <3> QED  BY <3>2, <2>0, <2>2, <2>4, <2>5, <2>6 DEF Further, Held, q
  <2>7. CASE ~IsEos(p.b)
    <3>1. PlaceOf(p.b) = a + p.n /\ p.had
      BY <2>7 DEF Held
    <3>2. IsEos(c) => a + q.n > 8 * len
      BY <3>1, <1>1, <2>2, <2>4, <2>7
    <3>3. ~IsEos(c) => PlaceOf(c) = a + q.n /\ q.had
      BY <3>1, <1>1, <2>2, <2>4
    <3> QED  BY <3>2, <3>3, <2>0, <2>2, <2>4, <2>5, <2>7 DEF Further, Held, q
  <2> QED  BY <2>6, <2>7
<1> QED  BY <1>2, <1>3

LEMMA FurtherOn ==
    ASSUME NEW a \in Int, NEW p, Held(p, a), NEW m \in Nat, NEW n \in Nat, NEW q, NEW t,
           Further(p, q, m, a), Further(q, t, n, a)
    PROVE  Further(p, t, m + n, a)
<1>1. p.n \in Int
  BY DEF Held
<1> QED  BY <1>1 DEF Further

---------------------------------------------------------------------------
(* A symbol read with BitReader *)

Begun == [b |-> gb, had |-> TRUE, n |-> 0]

\* b has read the bits before a, or run into the end.
HeldAt(b, a) == Sane(b) /\ IF IsEos(b) THEN a > 8 * len ELSE PlaceOf(b) = a

LEMMA BegunHeld ==
    ASSUME at \in Int, HeldAt(gb, at)
    PROVE  Held(Begun, at) /\ Begun.b = gb /\ Begun.n = 0 /\ Begun.had = TRUE
<1>1. Begun.b = gb /\ Begun.n = 0 /\ Begun.had = TRUE
  BY DEF Begun
<1>2. gb \in Reader
  BY DEF HeldAt, Sane
<1>3. Begun \in [b : Reader, had : BOOLEAN, n : Int]
  BY <1>2 DEF Begun
<1>4. at + Begun.n = at
  BY <1>1
<1> QED  BY <1>1, <1>3, <1>4 DEF Held, HeldAt

LEMMA HeldThen ==
    ASSUME NEW a \in Int, NEW p, Held(p, a)
    PROVE  HeldAt(p.b, a + p.n) /\ (~IsEos(p.b) => p.had) /\ p.n \in Int /\ p.had \in BOOLEAN
BY DEF Held, HeldAt

\* A symbol has been read, of at most 66 bits.
Taken(q) ==
    Held(q, at) /\ q.n \in 0..66 /\ Within(q.b, 62) /\ (IsEos(gb) => IsEos(q.b))

LEMMA LiteralTaken ==
    ASSUME BitsAssumption, Lengths, at \in Int, Held(Begun, at), Within(gb, 64),
           NEW s \in Literals, Len(s) # 2
    PROVE  Taken(SlowLiteral(s))
<1> DEFINE p1 == Filled(Begun)
           p2 == Read(p1, s[1])
           p3 == Read(p2, s[2])
           p4 == Filled(p3)
           p5 == Read(p4, s[3])
           p6 == Read(p5, s[4])
<1>1. Begun.b = gb /\ Begun.n = 0
  BY DEF Begun
<1>2. Further(Begun, p1, 0, at) /\ Within(p1.b, 32)
  BY <1>1, FilledKeeps
<1> HIDE DEF p1
<1>3. Held(p1, at) /\ p1.n = 0 /\ (IsEos(gb) => IsEos(p1.b))
  BY <1>1, <1>2 DEF Further
<1>4. CASE s \in {<<g>> : g \in CodeLengths}
  <2>1. s[1] \in 0..15 /\ Len(s) = 1
    BY <1>4 DEF BitsAssumption
  <2>2. SlowLiteral(s) = p2
    BY <2>1 DEF SlowLiteral, p1, Begun
  <2>3. Further(p1, p2, s[1], at) /\ Within(p2.b, 32 + s[1])
    BY <1>2, <1>3, <2>1, ReadKeeps
  <2> HIDE DEF p2
  <2>4. Held(p2, at) /\ p2.n = s[1] /\ (IsEos(gb) => IsEos(p2.b))
    BY <1>3, <2>1, <2>3 DEF Further
  <2>5. Within(p2.b, 62)
    BY <2>1, <2>3, <2>4 DEF Within, Held, Reader
  <2> QED  BY <2>1, <2>2, <2>4, <2>5 DEF Taken
<1>5. CASE s \in {<<g, r1, b, a>> : g, r1, b, a \in CodeLengths}
  <2>1. s[1] \in 0..15 /\ s[2] \in 0..15 /\ s[3] \in 0..15 /\ s[4] \in 0..15 /\ Len(s) = 4
    BY <1>5 DEF BitsAssumption
  <2>2. SlowLiteral(s) = p6
    BY <2>1 DEF SlowLiteral, p1, Begun
  <2>3. Further(p1, p2, s[1], at) /\ Within(p2.b, 32 + s[1])
    BY <1>2, <1>3, <2>1, ReadKeeps
  <2> HIDE DEF p2
  <2>4. Held(p2, at) /\ p2.n = s[1] /\ (IsEos(gb) => IsEos(p2.b))
    BY <1>3, <2>1, <2>3 DEF Further
  <2>5. Within(p2.b, 47)
    BY <2>1, <2>3, <2>4 DEF Within, Held, Reader
  <2>6. Further(p2, p3, s[2], at) /\ Within(p3.b, 47 + s[2])
    BY <2>1, <2>4, <2>5, ReadKeeps
  <2> HIDE DEF p3
  <2>7. Held(p3, at) /\ p3.n = s[1] + s[2] /\ (IsEos(gb) => IsEos(p3.b))
    BY <2>1, <2>4, <2>6 DEF Further
  <2>8. Within(p3.b, 64)
    BY <2>1, <2>6, <2>7 DEF Within, Held, Reader
  <2>9. Further(p3, p4, 0, at) /\ Within(p4.b, 32)
    BY <2>7, <2>8, FilledKeeps
  <2> HIDE DEF p4
  <2>10. Held(p4, at) /\ p4.n = s[1] + s[2] /\ (IsEos(gb) => IsEos(p4.b))
    BY <2>1, <2>7, <2>9 DEF Further
  <2>11. Further(p4, p5, s[3], at) /\ Within(p5.b, 32 + s[3])
    BY <2>1, <2>9, <2>10, ReadKeeps
  <2> HIDE DEF p5
  <2>12. Held(p5, at) /\ p5.n = s[1] + s[2] + s[3] /\ (IsEos(gb) => IsEos(p5.b))
    BY <2>1, <2>10, <2>11 DEF Further
  <2>13. Within(p5.b, 47)
    BY <2>1, <2>11, <2>12 DEF Within, Held, Reader
  <2>14. Further(p5, p6, s[4], at) /\ Within(p6.b, 47 + s[4])
    BY <2>1, <2>12, <2>13, ReadKeeps
  <2> HIDE DEF p6
  <2>15. Held(p6, at) /\ p6.n = s[1] + s[2] + s[3] + s[4] /\ (IsEos(gb) => IsEos(p6.b))
    BY <2>1, <2>12, <2>14 DEF Further
  <2>16. Within(p6.b, 62)
    BY <2>1, <2>14, <2>15 DEF Within, Held, Reader
  <2> QED  BY <2>1, <2>2, <2>15, <2>16 DEF Taken
<1>6. CASE s \in {<<g, p>> : g \in CodeLengths, p \in PackedLengths}
  BY <1>6
<1> QED  BY <1>4, <1>5, <1>6 DEF Literals

LEMMA CopyTaken ==
    ASSUME BitsAssumption, Lengths, at \in Int, Held(Begun, at), Within(gb, 64),
           NEW c \in Copies
    PROVE  Taken(SlowCopy(c))
<1> DEFINE p1 == Filled(Begun)
           p2 == Read(p1, c.code)
           p3 == Extra(p2, c.extra)
           p4 == Read(p3, c.dist)
           p5 == Filled(p4)
           p6 == Extra(p5, c.far)
<1>1. c.code \in 0..15 /\ c.extra \in 0..10 /\ c.dist \in 0..15 /\ c.far \in 0..18
  BY DEF Copies, BitsAssumption
<1>2. SlowCopy(c) = p6
  BY DEF SlowCopy, Begun
<1>3. Begun.b = gb /\ Begun.n = 0
  BY DEF Begun
<1>4. Further(Begun, p1, 0, at) /\ Within(p1.b, 32)
  BY <1>3, FilledKeeps
<1> HIDE DEF p1
<1>5. Held(p1, at) /\ p1.n = 0 /\ (IsEos(gb) => IsEos(p1.b))
  BY <1>3, <1>4 DEF Further
<1>6. Further(p1, p2, c.code, at) /\ Within(p2.b, 32 + c.code)
  BY <1>1, <1>4, <1>5, ReadKeeps
<1> HIDE DEF p2
<1>7. Held(p2, at) /\ p2.n = c.code /\ (IsEos(gb) => IsEos(p2.b))
  BY <1>1, <1>5, <1>6 DEF Further
<1>8. Within(p2.b, 47)
  BY <1>1, <1>6, <1>7 DEF Within, Held, Reader
<1>9. Further(p2, p3, c.extra, at) /\ Within(p3.b, 47)
  <2>1. 47 \in Nat /\ 7 <= 47 /\ c.extra \in Nat /\ 47 + c.extra <= 64
    BY <1>1
  <2> QED  BY <2>1, <1>7, <1>8, ExtraKeeps
<1> HIDE DEF p3
<1>10. Held(p3, at) /\ p3.n = c.code + c.extra /\ (IsEos(gb) => IsEos(p3.b))
  BY <1>1, <1>7, <1>9 DEF Further
<1>11. Further(p3, p4, c.dist, at) /\ Within(p4.b, 47 + c.dist)
  BY <1>1, <1>9, <1>10, ReadKeeps
<1> HIDE DEF p4
<1>12. Held(p4, at) /\ p4.n = c.code + c.extra + c.dist /\ (IsEos(gb) => IsEos(p4.b))
  BY <1>1, <1>10, <1>11 DEF Further
<1>13. Within(p4.b, 64)
  BY <1>1, <1>11, <1>12 DEF Within, Held, Reader
<1>14. Further(p4, p5, 0, at) /\ Within(p5.b, 32)
  BY <1>12, <1>13, FilledKeeps
<1> HIDE DEF p5
<1>15. Held(p5, at) /\ p5.n = c.code + c.extra + c.dist /\ (IsEos(gb) => IsEos(p5.b))
  BY <1>1, <1>12, <1>14 DEF Further
<1>16. Further(p5, p6, c.far, at) /\ Within(p6.b, 32)
  BY <1>1, <1>14, <1>15, ExtraKeeps
<1> HIDE DEF p6
<1>17. Held(p6, at) /\ p6.n = c.code + c.extra + c.dist + c.far /\ (IsEos(gb) => IsEos(p6.b))
  BY <1>1, <1>15, <1>16 DEF Further
<1>18. Within(p6.b, 62)
  BY <1>16, <1>17 DEF Within, Held, Reader
<1> QED  BY <1>1, <1>2, <1>17, <1>18 DEF Taken

---------------------------------------------------------------------------
(* A symbol read with Fast *)

\* g is at place a, with lo bits at least and room bytes before it to the end
\* of what there is, and has neither left the buffer nor run short.
Ready(g, lo, room, a) ==
    /\ g \in FastReader /\ ~g.out /\ ~g.short
    /\ lo <= g.avail /\ g.avail <= 63 /\ g.pos <= len - room
    /\ FastPlace(g) = a

LEMMA FastSet ==
    ASSUME NEW g \in FastReader, NEW x \in Int, NEW y \in Int, NEW e \in BOOLEAN
    PROVE  /\ [g EXCEPT !.pos = x, !.avail = y, !.out = e] \in FastReader
           /\ [g EXCEPT !.avail = x, !.short = e] \in FastReader
           /\ [g EXCEPT !.pos = x, !.avail = y] \in FastReader
           /\ [g EXCEPT !.short = e] \in FastReader
BY Zenon DEF FastReader

LEMMA RefillReady ==
    ASSUME Lengths, NEW a, NEW g, NEW lo \in Nat, NEW room \in Nat,
           Ready(g, lo, room, a), room >= 8
    PROVE  Ready(Refill(g), 56, room - 7, a)
<1> DEFINE x == g.pos + 7 - ((g.avail \div 8) % 8)
           y == 56 + (g.avail % 8)
           e == (g.out \/ g.pos + 8 > len)
           h == [g EXCEPT !.pos = x, !.avail = y, !.out = e]
<1>1. Refill(g) = h
  BY DEF Refill, FastBits
<1>2. g.pos \in Int /\ g.avail \in 0..63 /\ g.pos <= len - room
  BY DEF Ready, FastReader
<1>3. g.avail \div 8 \in 0..7 /\ g.avail % 8 \in 0..7
      /\ g.avail = 8 * (g.avail \div 8) + (g.avail % 8)
  BY <1>2, Eighths
<1>4. (g.avail \div 8) % 8 = g.avail \div 8
  BY <1>3
<1>5. x \in Int /\ x <= len - (room - 7) /\ y \in 56..63 /\ 8 * x - y = 8 * g.pos - g.avail
  BY <1>2, <1>3, <1>4 DEF Lengths
<1>6. e = FALSE
  BY <1>2 DEF Ready, Lengths
<1> HIDE DEF x, y, e
<1>7. e \in BOOLEAN /\ g \in FastReader
  BY <1>6 DEF Ready
<1>8. h \in FastReader
  <2>1. x \in Int /\ y \in Int
    BY <1>5
  <2> QED  BY <2>1, <1>7, FastSet
<1>9. h.pos = x /\ h.avail = y /\ ~h.out
  BY <1>6, <1>7 DEF FastReader
<1>10. h.short = g.short
  BY <1>7 DEF FastReader
<1> HIDE DEF h
<1>11. ~h.short
  BY <1>10 DEF Ready
<1>12. FastPlace(h) = a
  BY <1>5, <1>9 DEF FastPlace, Ready
<1> QED  BY <1>1, <1>5, <1>8, <1>9, <1>11, <1>12 DEF Ready

LEMMA ConsumeReady ==
    ASSUME NEW a \in Int, NEW g, NEW lo \in Nat, NEW room, Ready(g, lo, room, a),
           NEW n \in Nat, n <= lo, len \in Nat
    PROVE  Ready(Consume(g, n), lo - n, room, a + n)
<1> DEFINE x == g.avail - n
           e == (g.short \/ n > g.avail)
           h == [g EXCEPT !.avail = x, !.short = e]
<1>1. Consume(g, n) = h
  BY DEF Consume
<1>2. g \in FastReader /\ g.pos \in Int /\ g.avail \in Int /\ x \in Int
  BY DEF Ready, FastReader
<1>3. e = FALSE
  BY <1>2 DEF Ready
<1>4. x >= lo - n /\ x <= 63 /\ 8 * g.pos - x = a + n
  BY <1>2 DEF Ready, FastPlace
<1> HIDE DEF x, e
<1>5. e \in BOOLEAN
  BY <1>3
<1>6. h \in FastReader
  BY <1>2, <1>5, FastSet
<1>7. h.pos = g.pos /\ h.avail = x /\ ~h.short
  BY <1>2, <1>3 DEF FastReader
<1>8. h.out = g.out
  BY <1>2 DEF FastReader
<1> HIDE DEF h
<1>9. ~h.out
  BY <1>8 DEF Ready
<1> QED  BY <1>1, <1>4, <1>6, <1>7, <1>9 DEF Ready, FastPlace

\* The lookup has the bits of any code.
LEMMA LookupReady ==
    ASSUME NEW a, NEW g, NEW lo \in Nat, NEW room, Ready(g, lo, room, a), lo >= 15
    PROVE  Ready([g EXCEPT !.short = @ \/ g.avail < LongestCode], lo, room, a)
<1> DEFINE e == (g.short \/ g.avail < LongestCode)
           h == [g EXCEPT !.short = e]
<1>1. g \in FastReader /\ g.avail \in Int
  BY DEF Ready, FastReader
<1>2. e = FALSE
  BY <1>1 DEF Ready, LongestCode
<1> HIDE DEF e
<1>3. e \in BOOLEAN
  BY <1>2
<1>4. h \in FastReader
  BY <1>1, <1>3, FastSet
<1>5. h.pos = g.pos /\ h.avail = g.avail /\ ~h.short
  BY <1>1, <1>2 DEF FastReader
<1>6. h.out = g.out
  BY <1>1 DEF FastReader
<1> HIDE DEF h
<1>7. ~h.out
  BY <1>6 DEF Ready
<1>8. Ready(h, lo, room, a)
  BY <1>4, <1>5, <1>7 DEF Ready, FastPlace
<1> QED  BY <1>8 DEF h, e

LEMMA ReadRefilled ==
    ASSUME Lengths, NEW a \in Int, NEW g, NEW lo \in Nat, NEW room \in Nat,
           Ready(g, lo, room, a), lo >= 15, room >= 8, NEW n \in 0..15
    PROVE  Ready(ReadFast(g, n, TRUE), 56 - n, room - 7, a + n)
<1> DEFINE h == [g EXCEPT !.short = @ \/ g.avail < LongestCode]
           t == Refill(h)
<1>1. Ready(h, lo, room, a)
  BY LookupReady
<1> HIDE DEF h
<1>2. Ready(t, 56, room - 7, a)
  BY <1>1, RefillReady
<1>3. ReadFast(g, n, TRUE) = Consume(t, n)
  BY DEF ReadFast, h
<1> HIDE DEF t
<1>4. n \in Nat /\ n <= 56 /\ 56 \in Nat /\ room - 7 \in Nat /\ len \in Nat
  BY DEF Lengths
<1> QED  BY <1>2, <1>3, <1>4, ConsumeReady

LEMMA ReadAgain ==
    ASSUME Lengths, NEW a \in Int, NEW g, NEW lo \in Nat, NEW room \in Nat,
           Ready(g, lo, room, a), lo >= 15, NEW n \in 0..15
    PROVE  Ready(ReadFast(g, n, FALSE), lo - n, room, a + n)
<1> DEFINE h == [g EXCEPT !.short = @ \/ g.avail < LongestCode]
<1>1. Ready(h, lo, room, a)
  BY LookupReady
<1> HIDE DEF h
<1>2. ReadFast(g, n, FALSE) = Consume(h, n)
  BY DEF ReadFast, h
<1>3. n \in Nat /\ n <= lo /\ len \in Nat
  BY DEF Lengths
<1> QED  BY <1>1, <1>2, <1>3, ConsumeReady

\* Less is as good.
LEMMA ReadyFor ==
    ASSUME Lengths, NEW a, NEW g, NEW lo \in Int, NEW room \in Int, Ready(g, lo, room, a),
           NEW m \in Int, NEW k \in Int, m <= lo, k <= room
    PROVE  Ready(g, m, k, a)
BY DEF Ready, FastReader, Lengths

\* At a pixel's start, and at its end.
LEMMA FastLiteralReady ==
    ASSUME BitsAssumption, Lengths, at \in Int, Ready(fast, 15, 24, at), NEW s \in Literals
    PROVE  BitsOf(s) \in Nat /\ Ready(FastLiteral(s), 15, 10, at + BitsOf(s))
<1> DEFINE g1 == ReadFast(fast, s[1], TRUE)
<1>1. ASSUME s[1] \in 0..15 PROVE Ready(g1, 56 - s[1], 17, at + s[1])
  <2>1. 15 \in Nat /\ 24 \in Nat /\ 24 - 7 = 17 /\ 15 >= 15 /\ 24 >= 8
    OBVIOUS
  <2>2. Ready(ReadFast(fast, s[1], TRUE), 56 - s[1], 24 - 7, at + s[1])
    BY <1>1, <2>1, ReadRefilled, Zenon
  <2> QED  BY <2>1, <2>2
<1> HIDE DEF g1
<1>2. CASE s \in {<<g>> : g \in CodeLengths}
  <2>1. s[1] \in 0..15 /\ Len(s) = 1
    BY <1>2 DEF BitsAssumption
  <2>2. FastLiteral(s) = g1 /\ BitsOf(s) = s[1]
    BY <2>1 DEF FastLiteral, BitsOf, g1
  <2>3. 56 - s[1] \in Int /\ 17 \in Int /\ 15 <= 56 - s[1] /\ 10 <= 17
    BY <2>1
  <2> QED  BY <1>1, <2>1, <2>2, <2>3, ReadyFor
<1>3. CASE s \in {<<g, p>> : g \in CodeLengths, p \in PackedLengths}
  <2>1. s[1] \in 0..15 /\ s[2] \in 0..8 /\ Len(s) = 2
    BY <1>3 DEF BitsAssumption
  <2> DEFINE g2 == Consume(g1, s[2])
  <2>2. FastLiteral(s) = g2 /\ BitsOf(s) = s[1] + s[2]
    BY <2>1 DEF FastLiteral, BitsOf, g1
  <2>3. /\ at + s[1] \in Int /\ 56 - s[1] \in Nat /\ 17 \in Nat /\ s[2] \in Nat
        /\ s[2] <= 56 - s[1] /\ len \in Nat
    BY <2>1 DEF Lengths
  <2>4. Ready(g2, 56 - s[1] - s[2], 17, at + s[1] + s[2])
    BY <1>1, <2>1, <2>3, ConsumeReady
  <2> HIDE DEF g2
  <2>5. 56 - s[1] - s[2] \in Int /\ 17 \in Int /\ 15 <= 56 - s[1] - s[2] /\ 10 <= 17
        /\ at + s[1] + s[2] = at + (s[1] + s[2]) /\ s[1] + s[2] \in Nat
    BY <2>1
  <2>6. Ready(g2, 15, 10, at + s[1] + s[2])
    BY <2>4, <2>5, ReadyFor
  <2> QED  BY <2>2, <2>5, <2>6
<1>4. CASE s \in {<<g, r1, b, a>> : g, r1, b, a \in CodeLengths}
  <2>1. s[1] \in 0..15 /\ s[2] \in 0..15 /\ s[3] \in 0..15 /\ s[4] \in 0..15 /\ Len(s) = 4
    BY <1>4 DEF BitsAssumption
  <2> DEFINE g2 == ReadFast(g1, s[2], FALSE)
             g3 == ReadFast(g2, s[3], TRUE)
             g4 == ReadFast(g3, s[4], FALSE)
  <2>2. FastLiteral(s) = g4 /\ BitsOf(s) = s[1] + s[2] + s[3] + s[4]
    BY <2>1 DEF FastLiteral, BitsOf, g1
  <2>3. at + s[1] \in Int /\ 56 - s[1] \in Nat /\ 56 - s[1] >= 15 /\ 17 \in Nat
    BY <2>1
  <2>4. Ready(g2, 56 - s[1] - s[2], 17, at + s[1] + s[2])
    BY <1>1, <2>1, <2>3, ReadAgain
  <2> HIDE DEF g2
  <2>5. at + s[1] + s[2] \in Int /\ 56 - s[1] - s[2] \in Nat /\ 56 - s[1] - s[2] >= 15
        /\ 17 >= 8 /\ 17 - 7 = 10
    BY <2>1
  <2>6. Ready(g3, 56 - s[3], 17 - 7, at + s[1] + s[2] + s[3])
    BY <2>1, <2>3, <2>4, <2>5, ReadRefilled
  <2> HIDE DEF g3
  <2>7. at + s[1] + s[2] + s[3] \in Int /\ 56 - s[3] \in Nat /\ 56 - s[3] >= 15 /\ 10 \in Nat
        /\ Ready(g3, 56 - s[3], 10, at + s[1] + s[2] + s[3])
    BY <2>1, <2>5, <2>6
  <2>8. Ready(g4, 56 - s[3] - s[4], 10, at + s[1] + s[2] + s[3] + s[4])
    BY <2>1, <2>7, ReadAgain
  <2> HIDE DEF g4
  <2>9. /\ 56 - s[3] - s[4] \in Int /\ 15 <= 56 - s[3] - s[4]
        /\ s[1] + s[2] + s[3] + s[4] \in Nat
        /\ at + s[1] + s[2] + s[3] + s[4] = at + (s[1] + s[2] + s[3] + s[4])
    <3>1. s[1] \in Int /\ s[2] \in Int /\ s[3] \in Int /\ s[4] \in Int
      BY <2>1
    <3>2. at + s[1] + s[2] + s[3] + s[4] = at + (s[1] + s[2] + s[3] + s[4])
      BY <3>1
    <3> QED  BY <2>1, <3>2
  <2>10. Ready(g4, 15, 10, at + s[1] + s[2] + s[3] + s[4])
    <3>1. 15 \in Int /\ 10 \in Int /\ 10 <= 10
      OBVIOUS
    <3> QED  BY <2>8, <2>9, <3>1, ReadyFor
  <2> QED  BY <2>2, <2>9, <2>10
<1> QED  BY <1>2, <1>3, <1>4 DEF Literals

LEMMA FastFusedReady ==
    ASSUME BitsAssumption, Lengths, at \in Int, Ready(fast, 15, 24, at), NEW n \in PackedLengths
    PROVE  n \in Nat /\ Ready(FastFused(n), 15, 10, at + n)
<1> DEFINE e == (fast.short \/ fast.avail < n)
           h == [fast EXCEPT !.short = e]
           t == Refill(h)
<1>1. fast \in FastReader /\ fast.avail \in Int /\ n \in 0..8
  BY DEF Ready, FastReader, BitsAssumption
<1>2. e = FALSE
  BY <1>1 DEF Ready
<1>3. FastFused(n) = Consume(t, n)
  BY DEF FastFused
<1> HIDE DEF e
<1>4. e \in BOOLEAN
  BY <1>2
<1>5. h \in FastReader
  BY <1>1, <1>4, FastSet
<1>6. h.pos = fast.pos /\ h.avail = fast.avail /\ ~h.short
  BY <1>1, <1>2 DEF FastReader
<1>7. h.out = fast.out
  BY <1>1 DEF FastReader
<1> HIDE DEF h
<1>8. ~h.out
  BY <1>7 DEF Ready
<1>9. Ready(h, 15, 24, at)
  BY <1>5, <1>6, <1>8 DEF Ready, FastPlace
<1>10. 15 \in Nat /\ 24 \in Nat /\ 24 >= 8 /\ 24 - 7 = 17 /\ 17 \in Nat /\ 56 \in Nat
       /\ n \in Nat /\ n <= 56 /\ len \in Nat /\ 15 <= 56 - n /\ 10 <= 17 /\ 56 - n \in Int
  BY <1>1 DEF Lengths
<1>11. Ready(t, 56, 17, at)
  BY <1>9, <1>10, RefillReady
<1> HIDE DEF t
<1>12. Ready(Consume(t, n), 56 - n, 17, at + n)
  BY <1>10, <1>11, ConsumeReady
<1>13. Ready(Consume(t, n), 15, 10, at + n)
  BY <1>10, <1>12, ReadyFor
<1> QED  BY <1>3, <1>10, <1>13

LEMMA FastCopyReady ==
    ASSUME BitsAssumption, Lengths, at \in Int, Ready(fast, 15, 24, at), NEW c \in Copies
    PROVE  /\ c.code + c.extra + c.dist + c.far \in Nat
           /\ Ready(FastCopy(c), 15, 10, at + (c.code + c.extra + c.dist + c.far))
<1> DEFINE g1 == ReadFast(fast, c.code, TRUE)
           g2 == Consume(g1, c.extra)
           g3 == ReadFast(g2, c.dist, TRUE)
           g4 == Consume(g3, c.far)
<1>1. c.code \in 0..15 /\ c.extra \in 0..10 /\ c.dist \in 0..15 /\ c.far \in 0..18
  BY DEF Copies, BitsAssumption
<1>2. FastCopy(c) = g4
  BY DEF FastCopy
<1>3. 15 \in Nat /\ 24 \in Nat /\ 24 - 7 = 17 /\ 15 >= 15 /\ 24 >= 8 /\ 17 \in Nat /\ len \in Nat
  BY DEF Lengths
<1>4. Ready(g1, 56 - c.code, 17, at + c.code)
  BY <1>1, <1>3, ReadRefilled
<1> HIDE DEF g1
<1>5. at + c.code \in Int /\ 56 - c.code \in Nat /\ c.extra \in Nat /\ c.extra <= 56 - c.code
  BY <1>1
<1>6. Ready(g2, 56 - c.code - c.extra, 17, at + c.code + c.extra)
  BY <1>3, <1>4, <1>5, ConsumeReady
<1> HIDE DEF g2
<1>7. at + c.code + c.extra \in Int /\ 56 - c.code - c.extra \in Nat
      /\ 56 - c.code - c.extra >= 15 /\ 17 >= 8 /\ 17 - 7 = 10
  BY <1>1
<1>8. Ready(g3, 56 - c.dist, 10, at + c.code + c.extra + c.dist)
  BY <1>1, <1>3, <1>6, <1>7, ReadRefilled
<1> HIDE DEF g3
<1>9. at + c.code + c.extra + c.dist \in Int /\ 56 - c.dist \in Nat /\ 10 \in Nat
      /\ c.far \in Nat /\ c.far <= 56 - c.dist
  BY <1>1
<1>10. Ready(g4, 56 - c.dist - c.far, 10, at + c.code + c.extra + c.dist + c.far)
  BY <1>3, <1>8, <1>9, ConsumeReady
<1> HIDE DEF g4
<1>11. /\ 56 - c.dist - c.far \in Int /\ 15 <= 56 - c.dist - c.far
       /\ c.code + c.extra + c.dist + c.far \in Nat
       /\ at + c.code + c.extra + c.dist + c.far = at + (c.code + c.extra + c.dist + c.far)
  <2>1. c.code \in Int /\ c.extra \in Int /\ c.dist \in Int /\ c.far \in Int
    BY <1>1
  <2>2. at + c.code + c.extra + c.dist + c.far = at + (c.code + c.extra + c.dist + c.far)
    BY <2>1
  <2> QED  BY <1>1, <2>2
<1>12. Ready(g4, 15, 10, at + c.code + c.extra + c.dist + c.far)
  <2>1. 15 \in Int /\ 10 \in Int /\ 10 <= 10
    OBVIOUS
  <2> QED  BY <1>10, <1>11, <2>1, ReadyFor
<1> QED  BY <1>2, <1>11, <1>12

---------------------------------------------------------------------------
(* The invariant *)

\* The bits of the word a reader may have read when a symbol, or a header's
\* read, begins.  Only a still that has stopped has read all of them, as what
\* it had not got has come since.
Used == IF mode = "header" THEN 39 ELSE IF main THEN 64 ELSE 62

Shown ==
    HeldAt(gb, at) /\ Within(gb, Used) /\ (~IsEos(gb) => ~blind)

BitsInv ==
    /\ Lengths /\ at \in Int /\ main \in BOOLEAN /\ blind \in BOOLEAN
    /\ mode \in {"header", "flag", "fast", "slow", "more", "done", "bad"}
    /\ outside = FALSE
    /\ mode # "fast" => Shown
    /\ mode = "fast" => Ready(fast, 15, 10, at) /\ ~blind /\ base = 8
    /\ mode = "bad" => IsEos(gb)
    /\ mode \in {"more", "done"} => ~IsEos(gb)
    /\ mode = "slow" /\ Resumable => ~IsEos(gb)
    /\ mode = "more" => Resumable
    /\ mode = "flag" => ~main

LEMMA BitsBegins == BitsAssumption /\ BitsInit => BitsInv
<1> SUFFICES ASSUME BitsAssumption, BitsInit PROVE BitsInv
  OBVIOUS
<1>1. PICK s \in Sizes : \E n \in (IF s \in Growing THEN MinFirst..s ELSE {s}) : BitsInitOf(s, n)
  BY DEF BitsInit
<1>2. PICK n \in (IF s \in Growing THEN MinFirst..s ELSE {s}) : BitsInitOf(s, n)
  BY <1>1
<1>3. /\ s \in Nat /\ n \in Nat /\ n <= s /\ size = s /\ len = n /\ base = Least(n, 8)
      /\ s \in Growing => n >= 8
  BY <1>2 DEF BitsInitOf, BitsAssumption
<1>4. Lengths
  BY <1>3 DEF Lengths, Least
<1>5. gb = [pos |-> base, bit |-> 0, eos |-> FALSE] /\ at = 0
  BY <1>2 DEF BitsInitOf
<1>6. gb \in Reader /\ gb.pos = base /\ gb.bit = 0 /\ ~gb.eos
  BY <1>4, <1>5 DEF Lengths, Reader
<1>7. base <= len
  BY <1>3 DEF Least
<1>8. ~IsEos(gb)
  BY <1>6 DEF IsEos, Word
<1>9. HeldAt(gb, at) /\ Within(gb, 39)
  BY <1>4, <1>5, <1>6, <1>7, <1>8 DEF HeldAt, Sane, PlaceOf, Within, Lengths
<1>10. mode = "header" /\ ~main /\ main \in BOOLEAN /\ blind = FALSE /\ outside = FALSE
  BY <1>2 DEF BitsInitOf
<1>11. Shown
  BY <1>8, <1>9, <1>10 DEF Shown, Used
<1>12. at \in Int
  BY <1>5
<1> QED  BY <1>4, <1>10, <1>11, <1>12 DEF BitsInv

\* A reader that goes on where p is.
LEMMA ShownThen ==
    ASSUME at \in Int, NEW p, Held(p, at), IsEos(gb) => IsEos(p.b), ~IsEos(gb) => ~blind,
           Within(p.b, Used'), blind \in BOOLEAN,
           gb' = p.b, at' = at + p.n, blind' = (blind \/ ~p.had), len' = len, base' = base
    PROVE  Shown' /\ at' \in Int /\ blind' \in BOOLEAN /\ (IsEos(gb)' <=> IsEos(p.b))
<1>1. HeldAt(p.b, at + p.n) /\ (~IsEos(p.b) => p.had) /\ p.n \in Int /\ p.had \in BOOLEAN
  BY HeldThen
<1>2. IsEos(gb)' <=> IsEos(p.b)
  BY DEF IsEos
<1>3. HeldAt(gb, at)'
  BY <1>1, <1>2 DEF HeldAt, Sane, PlaceOf
<1>4. Within(gb, Used)'
  BY DEF Within
<1>5. ~IsEos(p.b) => ~blind'
  BY <1>1
<1> QED  BY <1>1, <1>2, <1>3, <1>4, <1>5 DEF Shown

LEMMA HeaderBitsKeep ==
    ASSUME BitsAssumption, BitsInv, NEW n \in HeaderReads, HeaderBits(n) PROVE BitsInv'
<1> DEFINE p == Extra(Begun, n)
<1>1. n \in 1..24 /\ Shown /\ Lengths /\ at \in Int /\ mode \in {"header", "flag"}
      /\ (mode = "flag" => n = 1 /\ ~main)
  BY DEF HeaderBits, BitsInv, BitsAssumption
<1>2. Held(Begun, at) /\ Begun.b = gb /\ Begun.n = 0
  BY <1>1, BegunHeld DEF Shown
<1>3. PICK k \in {39, 62} : Within(gb, k) /\ k + n <= 64
  BY <1>1 DEF Shown, Used
<1>4. Further(Begun, p, n, at) /\ Within(Bits(gb, n), 7)
  <2>1. k \in Nat /\ 7 <= k /\ n \in Nat
    BY <1>1, <1>3
  <2>2. Sane(gb)
    BY <1>1 DEF Shown, HeldAt
  <2> QED  BY <1>1, <1>2, <1>3, <2>1, <2>2, ExtraKeeps, BitsKeeps
<1>5. p = [b |-> Bits(gb, n), had |-> TRUE /\ Has(gb, n), n |-> 0 + n]
  BY <1>1 DEF Extra, Begun
<1> HIDE DEF p
<1>6. p.b = Bits(gb, n) /\ (p.had <=> Has(gb, n)) /\ p.n = n
  <2>1. p.n = 0 + n /\ p.b = Bits(gb, n) /\ (p.had <=> TRUE /\ Has(gb, n))
    BY <1>5
  <2>2. 0 + n = n
    BY <1>1
  <2> QED  BY <2>1, <2>2
<1>7. gb' = p.b /\ at' = at + p.n /\ blind' = (blind \/ ~p.had) /\ len' = len /\ base' = base
      /\ mode' = "header" /\ size' = size /\ main' = main /\ outside' = outside
  BY <1>6 DEF HeaderBits
<1>8. Within(p.b, Used')
  <2>1. Used' = 39
    BY <1>7 DEF Used
  <2>2. Sane(p.b)
    BY <1>4 DEF Further, Held
  <2> QED  BY <1>4, <1>6, <2>1, <2>2 DEF Within, Sane, Reader
<1>9. Shown' /\ at' \in Int /\ blind' \in BOOLEAN
  BY <1>1, <1>2, <1>4, <1>7, <1>8, ShownThen DEF Further, Shown, BitsInv
<1> QED  BY <1>7, <1>9 DEF BitsInv, Lengths

LEMMA HeaderCodeKeeps ==
    ASSUME BitsAssumption, BitsInv, NEW n \in HeaderCodes, NEW e \in HeaderReads \cup {0},
           HeaderCode(n, e)
    PROVE  BitsInv'
<1> DEFINE p1 == Filled(Begun)
           p2 == Read(p1, n)
           p == Extra(p2, e)
<1>1. n \in 0..7 /\ e \in 0..24 /\ Shown /\ Lengths /\ at \in Int /\ mode = "header"
  BY DEF HeaderCode, BitsInv, BitsAssumption
<1>2. Held(Begun, at) /\ Begun.b = gb /\ Begun.n = 0 /\ Within(gb, 39) /\ Sane(gb)
  BY <1>1, BegunHeld DEF Shown, Used, HeldAt
<1>3. Within(gb, 64)
  BY <1>2 DEF Within, Sane, Reader
<1>4. Further(Begun, p1, 0, at) /\ Within(p1.b, 32)
  BY <1>1, <1>2, <1>3, FilledKeeps
<1>5. gb' = p.b /\ at' = at + p.n /\ blind' = (blind \/ ~p.had) /\ len' = len /\ base' = base
      /\ mode' = mode /\ size' = size /\ main' = main /\ outside' = outside
  BY DEF HeaderCode, Begun
<1> HIDE DEF p1
<1>6. Held(p1, at) /\ p1.n = 0 /\ (IsEos(gb) => IsEos(p1.b))
  BY <1>2, <1>4 DEF Further
<1>7. Further(p1, p2, n, at) /\ Within(p2.b, 32 + n)
  <2>1. n \in Nat /\ 32 \in Nat /\ 32 + n <= 64
    BY <1>1
  <2> QED  BY <1>1, <1>4, <1>6, <2>1, ReadKeeps
<1> HIDE DEF p2
<1>8. Held(p2, at) /\ (IsEos(gb) => IsEos(p2.b))
  BY <1>6, <1>7 DEF Further
<1>9. Within(p2.b, 39)
  BY <1>1, <1>7, <1>8 DEF Within, Held, Reader
<1>10. Further(p2, p, e, at) /\ Within(p.b, 39)
  <2>1. e \in Nat /\ 39 \in Nat /\ 39 + e <= 64 /\ 7 <= 39
    BY <1>1
  <2> QED  BY <1>1, <1>8, <1>9, <2>1, ExtraKeeps
<1> HIDE DEF p
<1>11. Held(p, at) /\ (IsEos(gb) => IsEos(p.b))
  BY <1>8, <1>10 DEF Further
<1>12. Used' = 39
  BY <1>1, <1>5 DEF Used
<1>13. Shown' /\ at' \in Int /\ blind' \in BOOLEAN
  BY <1>1, <1>5, <1>10, <1>11, <1>12, ShownThen DEF Shown, BitsInv
<1> QED  BY <1>1, <1>5, <1>13 DEF BitsInv, Lengths

\* Where the words lie, a reader that looks eight bytes back is one of eight.
LEMMA FastAt ==
    ASSUME Lengths, HeldAt(gb, at), ~IsEos(gb), gb.pos >= 8
    PROVE  /\ base = 8 /\ FastOf(gb) \in FastReader
           /\ FastOf(gb).pos = gb.pos - 8 + (gb.bit \div 8) /\ FastOf(gb).avail = 0
           /\ ~FastOf(gb).out /\ ~FastOf(gb).short
           /\ gb.bit % 8 \in 0..7 /\ FastPlace(FastOf(gb)) + (gb.bit % 8) = at
<1>1. gb.pos \in Int /\ gb.bit \in Int /\ gb.pos <= len
  BY DEF HeldAt, Sane, Reader
<1>2. base = 8
  BY <1>1 DEF Lengths
<1>3. gb.bit \div 8 \in Int /\ gb.bit % 8 \in 0..7 /\ gb.bit = 8 * (gb.bit \div 8) + (gb.bit % 8)
  BY <1>1, Eighths
<1>4. at = 8 * (gb.pos - 8) + gb.bit
  BY <1>2 DEF HeldAt, PlaceOf
<1>5. gb.pos - 8 + (gb.bit \div 8) \in Int
  BY <1>1, <1>3
<1>6. FastOf(gb) \in FastReader
  BY <1>5 DEF FastOf, FastReader
<1>7. /\ FastOf(gb).pos = gb.pos - 8 + (gb.bit \div 8) /\ FastOf(gb).avail = 0
      /\ FastOf(gb).out = FALSE /\ FastOf(gb).short = FALSE
  BY DEF FastOf
<1>8. FastPlace(FastOf(gb)) + (gb.bit % 8) = at
  BY <1>1, <1>3, <1>4, <1>7 DEF FastPlace
<1> QED  BY <1>2, <1>3, <1>6, <1>7, <1>8

LEMMA HeaderEndsKeeps ==
    ASSUME BitsAssumption, BitsInv, HeaderEnds PROVE BitsInv'
<1>1. Shown /\ Lengths /\ at \in Int /\ mode = "header" /\ outside = FALSE
  BY DEF HeaderEnds, BitsInv
<1>2. gb' = gb /\ at' = at /\ blind' = blind /\ len' = len /\ base' = base /\ size' = size
      /\ outside' = outside /\ main' \in BOOLEAN
  BY DEF HeaderEnds
<1>3. Lengths' /\ at' \in Int /\ blind' \in BOOLEAN /\ outside' = FALSE
  BY <1>1, <1>2 DEF Lengths, BitsInv
<1>4. IsEos(gb)' <=> IsEos(gb)
  BY <1>2 DEF IsEos
<1>5. ASSUME mode' \in {"bad", "slow"} PROVE Shown'
  <2>1. HeldAt(gb, at)'
    BY <1>1, <1>2, <1>4 DEF HeldAt, Sane, PlaceOf, Shown
  <2>2. Used' \in {62, 64}
    BY <1>5 DEF Used
  <2>3. Within(gb, 39) /\ Sane(gb)
    BY <1>1 DEF Shown, Used, HeldAt
  <2>4. Within(gb, Used)'
    BY <1>2, <2>2, <2>3 DEF Within, Sane, Reader
  <2> QED  BY <1>1, <1>2, <1>4, <2>1, <2>4 DEF Shown
<1>6. CASE IsEos(gb)
  <2>1. mode' = "bad"
    BY <1>6 DEF HeaderEnds
  <2> QED  BY <1>2, <1>3, <1>4, <1>5, <1>6, <2>1 DEF BitsInv
<1>7. CASE ~IsEos(gb) /\ ~HasFast(gb)
  <2>1. mode' = "slow"
    BY <1>7 DEF HeaderEnds
  <2> QED  BY <1>2, <1>3, <1>4, <1>5, <1>7, <2>1 DEF BitsInv
<1>8. CASE ~IsEos(gb) /\ HasFast(gb)
  <2> DEFINE g == FastOf(gb)
             h == Refill(g)
             d == gb.bit % 8
  <2>1. mode' = "fast" /\ fast' = Consume(h, d)
    BY <1>8 DEF HeaderEnds
  <2>2. gb.pos >= 8 /\ g.pos + FastMargin <= len /\ HeldAt(gb, at)
    BY <1>1, <1>8 DEF HasFast, Shown
  <2>3. /\ base = 8 /\ g \in FastReader /\ g.avail = 0 /\ ~g.out /\ ~g.short
        /\ d \in 0..7 /\ FastPlace(g) + d = at
    BY <1>1, <1>8, <2>2, FastAt
  <2> HIDE DEF g, d
  <2>4. g.pos \in Int /\ len \in Nat /\ FastPlace(g) \in Int
    BY <1>1, <2>3 DEF FastReader, Lengths, FastPlace
  <2>5. g.pos <= len - 24 /\ 0 <= g.avail /\ g.avail <= 63
    BY <2>2, <2>3, <2>4 DEF BitsAssumption
  <2>6. Ready(g, 0, 24, FastPlace(g))
    BY <2>3, <2>5 DEF Ready
  <2>7. 0 \in Nat /\ 24 \in Nat /\ 24 >= 8 /\ 24 - 7 = 17 /\ 17 \in Nat /\ 56 \in Nat
        /\ d \in Nat /\ d <= 56 /\ 56 - d \in Int /\ 15 <= 56 - d /\ 10 <= 17
    BY <2>3
  <2>8. Ready(h, 56, 17, FastPlace(g))
    BY <1>1, <2>6, <2>7, RefillReady
  <2> HIDE DEF h
  <2>9. Ready(Consume(h, d), 56 - d, 17, FastPlace(g) + d)
    BY <2>4, <2>7, <2>8, ConsumeReady
  <2>10. Ready(Consume(h, d), 15, 10, at)
    BY <1>1, <2>3, <2>7, <2>9, ReadyFor
  <2>11. Ready(fast, 15, 10, at)'
    BY <1>2, <2>1, <2>10 DEF Ready, FastPlace
  <2>12. ~blind
    BY <1>1, <1>8 DEF Shown
  <2> QED  BY <1>2, <1>3, <2>1, <2>3, <2>11, <2>12 DEF BitsInv
<1> QED  BY <1>6, <1>7, <1>8

LEMMA FastSymbolKeeps ==
    ASSUME BitsInv, NEW n \in Nat, NEW g, FastSymbol(g, n), Ready(g, 15, 10, at + n)
    PROVE  BitsInv'
<1>1. mode = "fast" /\ mode' = mode /\ fast' = g /\ at' = at + n
      /\ UNCHANGED <<size, len, base, gb, main, blind, outside>>
  BY DEF FastSymbol
<1>2. Ready(fast, 15, 10, at)'
  BY <1>1 DEF Ready, FastPlace
<1>3. at' \in Int
  BY <1>1 DEF BitsInv
<1> QED  BY <1>1, <1>2, <1>3 DEF BitsInv, Lengths

\* A pixel begins with room for its refills.
LEMMA FastBegins ==
    ASSUME BitsAssumption, BitsInv, NEW g, NEW n, FastSymbol(g, n)
    PROVE  Ready(fast, 15, 24, at) /\ Lengths /\ at \in Int
<1>1. mode = "fast" /\ fast.pos <= len - FastMargin
  BY DEF FastSymbol
<1>2. Ready(fast, 15, 10, at) /\ Lengths /\ at \in Int
  BY <1>1 DEF BitsInv
<1>3. fast.pos <= len - 24
  BY <1>1, <1>2 DEF Ready, FastReader, Lengths, BitsAssumption
<1> QED  BY <1>2, <1>3 DEF Ready

LEMMA RoundedUp ==
    ASSUME NEW x \in 15..63
    PROVE  /\ (x + 7) \div 8 \in 2..8 /\ x % 8 \in 0..7 /\ (8 - (x % 8)) % 8 \in 0..7
           /\ 8 * ((x + 7) \div 8) - x = (8 - (x % 8)) % 8
<1> DEFINE c == (x + 7) \div 8
           t == (x + 7) % 8
           q == x \div 8
           m == x % 8
           u == (8 - m) % 8
<1>1. c \in Int /\ t \in 0..7 /\ x + 7 = 8 * c + t
  <2>1. x + 7 \in Int
    OBVIOUS
  <2> QED  BY <2>1, Eighths
<1>2. q \in Int /\ m \in 0..7 /\ x = 8 * q + m
  BY Eighths
<1>3. u = IF m = 0 THEN 0 ELSE 8 - m
  <2> HIDE DEF m
  <2> QED  BY <1>2
<1> HIDE DEF c, t, q, m, u
<1>4. u \in 0..7
  BY <1>2, <1>3
<1>5. CASE m = 0
  <2>1. c = q
    BY <1>1, <1>2, <1>5
  <2> QED  BY <1>2, <1>3, <1>4, <1>5, <2>1 DEF c, m, u
<1>6. CASE m # 0
  <2>1. c = q + 1
    BY <1>1, <1>2, <1>6
  <2>2. c \in 2..8 /\ 8 * c - x = u
    BY <1>2, <1>3, <1>6, <2>1
  <2> QED  BY <1>2, <1>4, <2>2 DEF c, m, u
<1> QED  BY <1>5, <1>6

LEMMA LeaveFastKeeps ==
    ASSUME BitsAssumption, BitsInv, LeaveFast PROVE BitsInv'
<1>1. mode = "fast" /\ Ready(fast, 15, 10, at) /\ ~blind /\ base = 8 /\ Lengths /\ at \in Int
      /\ outside = FALSE /\ main \in BOOLEAN
  BY DEF LeaveFast, BitsInv
<1> DEFINE c == (fast.avail + 7) \div 8
           m == fast.avail % 8
           b == Resumed(fast)
<1>2. fast.pos \in Int /\ fast.avail \in 15..63 /\ fast.pos <= len - 10 /\ ~fast.out /\ ~fast.short
      /\ 8 * fast.pos - fast.avail = at
  BY <1>1 DEF Ready, FastReader, FastPlace
<1>3. c \in 2..8 /\ m \in 0..7 /\ (8 - m) % 8 \in 0..7 /\ 8 * c - fast.avail = (8 - m) % 8
  BY <1>2, RoundedUp
<1>4. b = [pos |-> fast.pos - c + 8, bit |-> (8 - m) % 8, eos |-> FALSE]
  BY DEF Resumed
<1> HIDE DEF c, m, b
<1>5. b.pos = fast.pos - c + 8 /\ b.bit = (8 - m) % 8 /\ b.eos = FALSE
  BY <1>4
<1>6. fast.pos - c + 8 \in Int
  BY <1>2, <1>3
<1>7. b \in Reader
  BY <1>3, <1>4, <1>6 DEF Reader
<1>8. b.pos <= len /\ b.bit >= 0 /\ b.bit <= 7 /\ PlaceOf(b) = at
  BY <1>1, <1>2, <1>3, <1>5 DEF PlaceOf, Lengths
<1>9. ~IsEos(b)
  BY <1>3, <1>5, <1>8 DEF IsEos, Word
<1>10. HeldAt(b, at)
  BY <1>5, <1>7, <1>8, <1>9 DEF HeldAt, Sane
<1>11. gb' = b /\ mode' = "slow" /\ UNCHANGED <<size, len, base, main, at>>
  BY DEF LeaveFast, b
<1>12. (blind' <=> (blind \/ fast.short)) /\ (outside' <=> (outside \/ fast.out \/ b.pos > len))
       /\ blind' \in BOOLEAN /\ outside' \in BOOLEAN
  BY <1>11 DEF LeaveFast
<1>13. ~blind' /\ outside' = FALSE
  <2>1. ~(b.pos > len)
    BY <1>5, <1>6, <1>8, <1>1 DEF Lengths
  <2> QED  BY <1>1, <1>2, <1>12, <2>1
<1>14. ~IsEos(gb)'
  BY <1>9, <1>11 DEF IsEos
<1>15. HeldAt(gb, at)'
  BY <1>10, <1>11, <1>9, <1>14 DEF HeldAt, Sane, PlaceOf
<1>16. Within(gb, Used)'
  <2>1. Used' \in {62, 64}
    BY <1>11 DEF Used
  <2>2. b.bit <= Used'
    BY <1>8, <2>1, <1>7 DEF Reader
  <2> QED  BY <1>11, <2>2 DEF Within
<1>17. Shown'
  BY <1>13, <1>15, <1>16 DEF Shown
<1>18. Lengths'
  BY <1>1, <1>11 DEF Lengths
<1> QED  BY <1>1, <1>11, <1>12, <1>13, <1>14, <1>17, <1>18 DEF BitsInv

LEMMA SlowSymbolKeeps ==
    ASSUME BitsAssumption, BitsInv, NEW p, SlowSymbol(p), Taken(p) PROVE BitsInv'
<1>1. Shown /\ Lengths /\ at \in Int /\ mode = "slow" /\ outside = FALSE /\ main \in BOOLEAN
      /\ blind \in BOOLEAN /\ (Resumable => ~IsEos(gb))
  BY DEF SlowSymbol, BitsInv
<1>2. UNCHANGED <<size, len, base, main, outside>>
  BY DEF SlowSymbol
<1>3. Lengths'
  BY <1>1, <1>2 DEF Lengths
<1>4. ASSUME gb' = gb, at' = at, blind' = blind, mode' \in {"bad", "more"} PROVE Shown'
  <2>1. IsEos(gb)' <=> IsEos(gb)
    BY <1>2, <1>4 DEF IsEos
  <2>2. HeldAt(gb, at)'
    BY <1>1, <1>2, <1>4, <2>1 DEF HeldAt, Sane, PlaceOf, Shown
  <2>3. Used' = Used
    BY <1>1, <1>2, <1>4 DEF Used
  <2>4. Within(gb, Used)'
    BY <1>1, <1>2, <1>4, <2>3 DEF Within, Shown
  <2> QED  BY <1>1, <1>4, <2>1, <2>2, <2>4 DEF Shown
<1>5. CASE ~Resumable /\ IsEos(gb)
  <2>1. mode' = "bad" /\ gb' = gb /\ at' = at /\ blind' = blind
    BY <1>5 DEF SlowSymbol
  <2>2. IsEos(gb)'
    BY <1>2, <1>5, <2>1 DEF IsEos
  <2> QED  BY <1>1, <1>2, <1>3, <1>4, <2>1, <2>2 DEF BitsInv
<1>6. CASE ~(~Resumable /\ IsEos(gb)) /\ Resumable /\ Near /\ IsEos(p.b)
  <2>1. mode' = "more" /\ gb' = gb /\ at' = at /\ blind' = blind
    BY <1>6 DEF SlowSymbol
  <2>2. ~IsEos(gb)'
    BY <1>1, <1>2, <1>6, <2>1 DEF IsEos
  <2>3. Resumable'
    BY <1>2, <1>6 DEF Resumable
  <2> QED  BY <1>1, <1>2, <1>3, <1>4, <2>1, <2>2, <2>3 DEF BitsInv
<1>7. CASE ~(~Resumable /\ IsEos(gb)) /\ ~(Resumable /\ Near /\ IsEos(p.b))
  <2>1. gb' = p.b /\ at' = at + p.n /\ blind' = (blind \/ ~p.had) /\ mode' = mode
    BY <1>7 DEF SlowSymbol
  <2>2. Held(p, at) /\ p.n \in 0..66 /\ Within(p.b, 62) /\ (IsEos(gb) => IsEos(p.b))
    BY DEF Taken
  <2>3. Within(p.b, Used')
    <3>1. Used' \in {62, 64}
      BY <1>1, <2>1 DEF Used
    <3>2. p.b.bit \in Int
      BY <2>2 DEF Held, Sane, Reader
    <3> QED  BY <2>2, <3>1, <3>2 DEF Within
  <2>4. Shown' /\ at' \in Int /\ blind' \in BOOLEAN /\ (IsEos(gb)' <=> IsEos(p.b))
    BY <1>1, <1>2, <2>1, <2>2, <2>3, ShownThen DEF Shown
  <2>5. ASSUME Resumable PROVE ~IsEos(p.b)
    <3> SUFFICES ASSUME IsEos(p.b) PROVE FALSE
      OBVIOUS
    <3>1. ~Near /\ ~IsEos(gb) /\ base = 8
      BY <1>1, <1>7, <2>5 DEF Resumable, Lengths
    <3>2. at + p.n > 8 * len
      BY <2>2 DEF Held
    <3>3. gb.pos \in Int /\ gb.bit \in Int /\ gb.pos <= len /\ at = 8 * (gb.pos - 8) + gb.bit
      BY <1>1, <3>1 DEF Shown, HeldAt, Sane, Reader, PlaceOf
    <3>4. len - gb.pos > 8 /\ len \in Nat
      BY <1>1, <3>1, <3>3 DEF Near, BitsAssumption, Lengths
    <3>5. gb.bit <= 64
      <4>1. Used \in {62, 64}
        BY <1>1 DEF Used
      <4>2. gb.pos # len
        BY <3>3, <3>4
      <4> QED  BY <1>1, <3>3, <4>1, <4>2 DEF Shown, Within
    <3> QED  BY <2>2, <3>2, <3>3, <3>4, <3>5
  <2>6. Resumable' <=> Resumable
    BY <1>2 DEF Resumable
  <2> QED  BY <1>1, <1>2, <1>3, <2>1, <2>4, <2>5, <2>6 DEF BitsInv
<1> QED  BY <1>5, <1>6, <1>7

LEMMA EndsKeeps ==
    ASSUME BitsInv, Ends PROVE BitsInv'
<1>1. /\ Shown /\ Lengths /\ mode = "slow" /\ main \in BOOLEAN
      /\ Resumable => ~IsEos(gb)
  BY DEF Ends, BitsInv
<1>2. UNCHANGED <<size, len, base, gb, fast, main, at, blind, outside>>
  BY DEF Ends
<1>3. IsEos(gb)' <=> IsEos(gb)
  BY <1>2 DEF IsEos
<1>4. mode' \in {"bad", "done", "flag"} /\ (mode' = "bad" <=> ~Resumable /\ IsEos(gb))
      /\ (mode' = "flag" => ~main)
  BY <1>1 DEF Ends
<1>5. Used' = Used
  BY <1>1, <1>2, <1>4 DEF Used
<1>6. Shown'
  <2>1. HeldAt(gb, at)'
    BY <1>1, <1>2, <1>3 DEF HeldAt, Sane, PlaceOf, Shown
  <2>2. Within(gb, Used)'
    BY <1>1, <1>2, <1>5 DEF Within, Shown
  <2> QED  BY <1>1, <1>2, <1>3, <2>1, <2>2 DEF Shown
<1>7. Lengths'
  BY <1>1, <1>2 DEF Lengths
<1> QED  BY <1>1, <1>2, <1>3, <1>4, <1>6, <1>7 DEF BitsInv

\* A still goes on with the reader it stopped with: what has come is behind all
\* the reader has looked at.
LEMMA GrowKeeps ==
    ASSUME BitsAssumption, BitsInv, Grow PROVE BitsInv'
<1>1. /\ Shown /\ Lengths /\ at \in Int /\ mode = "more" /\ outside = FALSE /\ ~IsEos(gb) /\ ~blind
      /\ main = TRUE /\ base = 8 /\ len < size /\ blind \in BOOLEAN /\ size \in Growing
  BY DEF Grow, BitsInv, Resumable, Lengths, Shown
<1>2. UNCHANGED <<size, base, gb, main, at, blind, outside>> /\ len' \in len + 1..size
      /\ mode' \in {"fast", "slow"}
  BY DEF Grow
<1>3. len' \in Nat /\ len' > len /\ len' <= size
  BY <1>1, <1>2 DEF Lengths
<1>4. Lengths'
  BY <1>1, <1>2, <1>3 DEF Lengths
<1>5. gb \in Reader /\ gb.pos <= len /\ gb.bit >= 0 /\ ~gb.eos /\ gb.bit <= 64 /\ PlaceOf(gb) = at
  BY <1>1 DEF Shown, HeldAt, Sane, Reader, IsEos, Within, Used, Word
<1>6. gb.pos \in Int /\ gb.pos <= len' /\ gb.pos # len'
  BY <1>1, <1>3, <1>5 DEF Reader, Lengths
<1>7. ~IsEos(gb)'
  BY <1>2, <1>5, <1>6 DEF IsEos
<1>8. HeldAt(gb, at)'
  <2>1. Sane(gb)'
    BY <1>2, <1>5, <1>6 DEF Sane
  <2>2. PlaceOf(gb)' = at'
    BY <1>2, <1>5 DEF PlaceOf
  <2> QED  BY <1>7, <2>1, <2>2 DEF HeldAt
<1>9. CASE mode' = "slow"
  <2>1. Within(gb, Used)'
    BY <1>1, <1>2, <1>5, <1>9 DEF Within, Used
  <2>2. Shown'
    BY <1>1, <1>2, <1>8, <2>1 DEF Shown
  <2> QED  BY <1>1, <1>2, <1>4, <1>7, <1>9, <2>2 DEF BitsInv
<1>10. CASE mode' = "fast"
  <2> DEFINE g == FastOf(gb)
             d == gb.bit % 8
             h == [g EXCEPT !.pos = @ + 7, !.avail = 56]
             t == Consume(h, d)
  <2>1. gb.pos >= 8 /\ g.pos + FastMargin <= len' /\ fast' = t
    BY <1>10 DEF Grow, FastBits
  <2>2. /\ g \in FastReader /\ g.avail = 0 /\ ~g.out /\ ~g.short
        /\ d \in 0..7 /\ FastPlace(g) + d = at
    BY <1>1, <2>1, FastAt DEF Shown
  <2> HIDE DEF g, d
  <2>3. g.pos \in Int /\ g.pos + 7 \in Int /\ 56 \in Int
    BY <2>2 DEF FastReader
  <2>4. g.pos + 7 <= len' - 17
    BY <1>3, <2>1, <2>3 DEF BitsAssumption
  <2>5. h \in FastReader
    BY <2>2, <2>3, FastSet
  <2>6. h.pos = g.pos + 7 /\ h.avail = 56
    BY <2>2 DEF FastReader
  <2>7. h.out = g.out /\ h.short = g.short
    BY <2>2 DEF FastReader
  <2> HIDE DEF h
  <2>8. ~h.out /\ ~h.short
    BY <2>2, <2>7
  <2>9. FastPlace(h) = at - d
    BY <2>2, <2>3, <2>6, <1>1 DEF FastPlace
  <2> DEFINE room == len - (g.pos + 7)
  <2>10. room \in Int /\ at - d \in Int /\ 56 \in Nat /\ d \in Nat /\ d <= 56 /\ len \in Nat
         /\ 15 <= 56 - d /\ at - d + d = at /\ g.pos + 7 <= len - room /\ len - room = g.pos + 7
    BY <1>1, <2>2, <2>3 DEF Lengths
  <2> HIDE DEF room
  <2>11. Ready(h, 56, room, at - d)
    BY <2>5, <2>6, <2>8, <2>9, <2>10 DEF Ready
  <2>12. Ready(t, 56 - d, room, at - d + d)
    BY <2>10, <2>11, ConsumeReady
  <2> HIDE DEF t
  <2>13. /\ t \in FastReader /\ ~t.out /\ ~t.short /\ 15 <= t.avail /\ t.avail <= 63
         /\ t.pos <= len' - 10 /\ FastPlace(t) = at
    BY <1>3, <2>2, <2>3, <2>4, <2>10, <2>12 DEF Ready, FastReader
  <2>14. Ready(fast, 15, 10, at)'
    BY <1>2, <2>1, <2>13 DEF Ready, FastPlace
  <2> QED  BY <1>1, <1>2, <1>4, <1>10, <2>14 DEF BitsInv
<1> QED  BY <1>2, <1>9, <1>10

LEMMA BitsKept == BitsAssumption /\ BitsInv /\ [BitsNext]_bitVars => BitsInv'
<1> SUFFICES ASSUME BitsAssumption, BitsInv, [BitsNext]_bitVars PROVE BitsInv'
  OBVIOUS
<1>1. ASSUME NEW n \in HeaderReads, HeaderBits(n) PROVE BitsInv'
  BY <1>1, HeaderBitsKeep
<1>2. ASSUME NEW n \in HeaderCodes, NEW e \in HeaderReads \cup {0}, HeaderCode(n, e) PROVE BitsInv'
  BY <1>2, HeaderCodeKeeps
<1>3. ASSUME NEW s \in Literals, FastSymbol(FastLiteral(s), BitsOf(s)) PROVE BitsInv'
  <2>1. Ready(fast, 15, 24, at) /\ Lengths /\ at \in Int
    BY <1>3, FastBegins
  <2>2. BitsOf(s) \in Nat /\ Ready(FastLiteral(s), 15, 10, at + BitsOf(s))
    BY <2>1, FastLiteralReady
  <2> QED  BY <1>3, <2>2, FastSymbolKeeps
<1>4. ASSUME NEW n \in PackedLengths, FastSymbol(FastFused(n), n) PROVE BitsInv'
  <2>1. Ready(fast, 15, 24, at) /\ Lengths /\ at \in Int
    BY <1>4, FastBegins
  <2>2. n \in Nat /\ Ready(FastFused(n), 15, 10, at + n)
    BY <2>1, FastFusedReady
  <2> QED  BY <1>4, <2>2, FastSymbolKeeps
<1>5. ASSUME NEW c \in Copies, FastSymbol(FastCopy(c), c.code + c.extra + c.dist + c.far)
      PROVE  BitsInv'
  <2>1. Ready(fast, 15, 24, at) /\ Lengths /\ at \in Int
    BY <1>5, FastBegins
  <2>2. /\ c.code + c.extra + c.dist + c.far \in Nat
        /\ Ready(FastCopy(c), 15, 10, at + (c.code + c.extra + c.dist + c.far))
    BY <2>1, FastCopyReady
  <2> QED  BY <1>5, <2>2, FastSymbolKeeps
<1>6. ASSUME NEW p, SlowSymbol(p) PROVE /\ Lengths /\ at \in Int /\ Held(Begun, at) /\ Within(gb, 64)
  <2>1. Lengths /\ at \in Int /\ Shown /\ mode = "slow" /\ main \in BOOLEAN
    BY <1>6 DEF SlowSymbol, BitsInv
  <2>2. Held(Begun, at)
    BY <2>1, BegunHeld DEF Shown
  <2>3. Within(gb, 64)
    BY <2>1 DEF Shown, Used, HeldAt, Sane, Reader, Within
  <2> QED  BY <2>1, <2>2, <2>3
<1>7. ASSUME NEW s \in Literals, Len(s) # 2, SlowSymbol(SlowLiteral(s)) PROVE BitsInv'
  <2>1. Taken(SlowLiteral(s))
    BY <1>6, <1>7, LiteralTaken
  <2> QED  BY <1>7, <2>1, SlowSymbolKeeps
<1>8. ASSUME NEW c \in Copies, SlowSymbol(SlowCopy(c)) PROVE BitsInv'
  <2>1. Taken(SlowCopy(c))
    BY <1>6, <1>8, CopyTaken
  <2> QED  BY <1>8, <2>1, SlowSymbolKeeps
<1>9. ASSUME UNCHANGED bitVars PROVE BitsInv'
  BY <1>9 DEF bitVars, BitsInv, Lengths, Shown, HeldAt, Sane, PlaceOf, IsEos, Within, Used, Ready,
              FastPlace, Resumable
<1> QED  BY <1>1, <1>2, <1>3, <1>4, <1>5, <1>7, <1>8, <1>9, HeaderEndsKeeps, LeaveFastKeeps,
            EndsKeeps, GrowKeeps DEF BitsNext

\* Whatever is read, the reader is where the bits read so far end, or knows of
\* the end.
THEOREM Invariance == ASSUME BitsAssumption PROVE BitsSpec => []BitsInv
<1>1. BitsInit => BitsInv
  BY BitsBegins
<1>2. BitsInv /\ [BitsNext]_bitVars => BitsInv'
  BY BitsKept
<1> QED  BY <1>1, <1>2, PTL DEF BitsSpec

\* Whichever reader reads, the bits shown follow those read last; Fast loads no
\* word from outside the buffer and looks up no code with bits it has not got;
\* and an image ends, or a still stops, only with all bits read having been
\* there (bitreader.rs, entropy.rs).
THEOREM BitsReadInOrder == ASSUME BitsAssumption PROVE BitsSpec => []ReadInOrder
<1>1. BitsInv => ReadInOrder
  <2> SUFFICES ASSUME BitsInv PROVE ReadInOrder
    OBVIOUS
  <2>1. mode \in {"header", "flag", "slow", "more", "done"} /\ ~IsEos(gb) => PlaceOf(gb) = at /\ ~blind
    BY DEF BitsInv, Shown, HeldAt
  <2>2. mode = "fast" => FastPlace(fast) = at /\ ~fast.out /\ ~fast.short
    BY DEF BitsInv, Ready
  <2>3. mode = "bad" => at > 8 * len
    BY DEF BitsInv, Shown, HeldAt
  <2>4. ~outside /\ (mode \in {"more", "done"} => ~IsEos(gb))
    BY DEF BitsInv
  <2>5. ASSUME mode \in {"more", "done"}, len >= 8 PROVE at <= 8 * len
    <3>1. base = 8 /\ HeldAt(gb, at) /\ Within(gb, Used) /\ ~IsEos(gb) /\ len \in Nat
      BY <2>5 DEF BitsInv, Shown, Lengths
    <3>2. gb.pos \in Int /\ gb.bit \in Int /\ gb.pos <= len /\ at = 8 * (gb.pos - 8) + gb.bit
      BY <3>1 DEF HeldAt, Sane, Reader, PlaceOf
    <3>3. Used \in {62, 64}
      BY <2>5 DEF Used
    <3>4. gb.bit <= 64
      BY <3>1, <3>2, <3>3 DEF IsEos, Word, Within
    <3> QED  BY <3>1, <3>2, <3>4
  <2> QED  BY <2>1, <2>2, <2>3, <2>4, <2>5 DEF ReadInOrder
<1>2. BitsSpec => []BitsInv
  BY Invariance
<1> QED  BY <1>1, <1>2, PTL
=============================================================================
