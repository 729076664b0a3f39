---------------------------- MODULE LossyPixels ----------------------------
(***************************************************************************)
(* The arithmetic of a lossy frame: intra prediction (src/dsp/vp8pred.rs),  *)
(* the transforms and the loop filter (src/dsp/vp8.rs), and the order in    *)
(* which src/vp8/mod.rs applies the filter to the edges of a macroblock.    *)
(*                                                                         *)
(* Each is set against the format's own definition, which says the same    *)
(* in another way: a predictor by the direction it looks in, the filter on *)
(* signed samples, the short transforms as what the long ones give.        *)
(***************************************************************************)
EXTENDS Integers, Sequences

Least(a, b) == IF a < b THEN a ELSE b
Abs(v) == IF v < 0 THEN -v ELSE v
ClipUint8(v) == IF v < 0 THEN 0 ELSE IF v > 255 THEN 255 ELSE v
ClipInt8(v)  == IF v < -128 THEN -128 ELSE IF v > 127 THEN 127 ELSE v
Int16(v) == ((v + 32768) % 65536) - 32768

----------------------------------------------------------------------------
(* Prediction of a 4x4 block.  An edge e is [t, l, c]: eight samples above, *)
(* the last four those above and to the right, four to the left, a corner. *)

Avg2(a, b) == (a + b + 1) \div 2
Avg3(a, b, c) == (a + 2 * b + c + 2) \div 4

Modes == {"ve", "he", "dc", "ld", "rd", "vr", "hd", "vl", "hu", "tm"}

RECURSIVE SumTo(_, _)
SumTo(s, n) == IF n = 0 THEN 0 ELSE s[n] + SumTo(s, n - 1)

Pred4x4(mode, e) ==
    LET t == e.t   l == e.l   lt == e.c
        Rows(p) == [y \in 1..4 |-> p]
    IN CASE mode = "ve" ->
              Rows(<<Avg3(lt, t[1], t[2]), Avg3(t[1], t[2], t[3]),
                     Avg3(t[2], t[3], t[4]), Avg3(t[3], t[4], t[5])>>)
         [] mode = "he" ->
              LET p == <<Avg3(lt, l[1], l[2]), Avg3(l[1], l[2], l[3]),
                         Avg3(l[2], l[3], l[4]), (l[3] + 3 * l[4] + 2) \div 4>>
              IN [y \in 1..4 |-> [x \in 1..4 |-> p[y]]]
         [] mode = "dc" ->
              LET dc == (4 + SumTo(t, 4) + SumTo(l, 4)) \div 8
              IN Rows(<<dc, dc, dc, dc>>)
         [] mode = "rd" ->
              LET p == <<Avg3(l[4], l[3], l[2]), Avg3(l[3], l[2], l[1]), Avg3(l[2], l[1], lt),
                         Avg3(l[1], lt, t[1]), Avg3(lt, t[1], t[2]), Avg3(t[1], t[2], t[3]),
                         Avg3(t[2], t[3], t[4])>>
              IN [y \in 1..4 |-> [x \in 1..4 |-> p[4 + x - y]]]
         [] mode = "ld" ->
              LET p == [i \in 1..7 |-> IF i < 7 THEN Avg3(t[i], t[i + 1], t[i + 2])
                                       ELSE (t[7] + 3 * t[8] + 2) \div 4]
              IN [y \in 1..4 |-> [x \in 1..4 |-> p[x + y - 1]]]
         [] mode = "vr" ->
              <<<<Avg2(lt, t[1]), Avg2(t[1], t[2]), Avg2(t[2], t[3]), Avg2(t[3], t[4])>>,
                <<Avg3(l[1], lt, t[1]), Avg3(lt, t[1], t[2]), Avg3(t[1], t[2], t[3]),
                  Avg3(t[2], t[3], t[4])>>,
                <<Avg3(lt, l[1], l[2]), Avg2(lt, t[1]), Avg2(t[1], t[2]), Avg2(t[2], t[3])>>,
                <<Avg3(l[1], l[2], l[3]), Avg3(l[1], lt, t[1]), Avg3(lt, t[1], t[2]),
                  Avg3(t[1], t[2], t[3])>>>>
         [] mode = "vl" ->
              <<<<Avg2(t[1], t[2]), Avg2(t[2], t[3]), Avg2(t[3], t[4]), Avg2(t[4], t[5])>>,
                <<Avg3(t[1], t[2], t[3]), Avg3(t[2], t[3], t[4]), Avg3(t[3], t[4], t[5]),
                  Avg3(t[4], t[5], t[6])>>,
                <<Avg2(t[2], t[3]), Avg2(t[3], t[4]), Avg2(t[4], t[5]), Avg3(t[5], t[6], t[7])>>,
                <<Avg3(t[2], t[3], t[4]), Avg3(t[3], t[4], t[5]), Avg3(t[4], t[5], t[6]),
                  Avg3(t[6], t[7], t[8])>>>>
         [] mode = "hu" ->
              <<<<Avg2(l[1], l[2]), Avg3(l[1], l[2], l[3]), Avg2(l[2], l[3]),
                  Avg3(l[2], l[3], l[4])>>,
                <<Avg2(l[2], l[3]), Avg3(l[2], l[3], l[4]), Avg2(l[3], l[4]),
                  Avg3(l[3], l[4], l[4])>>,
                <<Avg2(l[3], l[4]), Avg3(l[3], l[4], l[4]), l[4], l[4]>>,
                <<l[4], l[4], l[4], l[4]>>>>
         [] mode = "hd" ->
              <<<<Avg2(lt, l[1]), Avg3(l[1], lt, t[1]), Avg3(lt, t[1], t[2]),
                  Avg3(t[1], t[2], t[3])>>,
                <<Avg2(l[1], l[2]), Avg3(lt, l[1], l[2]), Avg2(lt, l[1]), Avg3(l[1], lt, t[1])>>,
                <<Avg2(l[2], l[3]), Avg3(l[1], l[2], l[3]), Avg2(l[1], l[2]),
                  Avg3(lt, l[1], l[2])>>,
                <<Avg2(l[3], l[4]), Avg3(l[2], l[3], l[4]), Avg2(l[2], l[3]),
                  Avg3(l[1], l[2], l[3])>>>>
         [] mode = "tm" ->
              [y \in 1..4 |-> [x \in 1..4 |-> ClipUint8(l[y] + t[x] - lt)]]

(* By direction.  Edge(e, k) goes round the edge from the bottom of the    *)
(* left column (-4) past the corner (0) to the right of the row above (8);  *)
(* At2(k) lies half way between k and k + 1, At3(k) at k.                  *)
Edge(e, k) == IF k = 0 THEN e.c ELSE IF k > 0 THEN e.t[Least(k, 8)]
              ELSE e.l[Least(-k, 4)]

Directed(mode, e, x, y) ==
    LET At2(k) == Avg2(Edge(e, k), Edge(e, k + 1))
        At3(k) == Avg3(Edge(e, k - 1), Edge(e, k), Edge(e, k + 1))
    IN CASE mode = "ve" -> At3(x + 1)
         [] mode = "he" -> At3(-(y + 1))
         [] mode = "rd" -> At3(x - y)
         [] mode = "ld" -> At3(x + y + 2)
         [] mode = "vr" -> LET z == 2 * x - y
                           IN IF z >= 0
                              THEN IF z % 2 = 0 THEN At2(z \div 2) ELSE At3((z + 1) \div 2)
                              ELSE At3(z + 1)
         [] mode = "hd" -> LET z == 2 * y - x
                           IN IF z >= 0
                              THEN IF z % 2 = 0 THEN At2(-(z \div 2) - 1) ELSE At3(-((z - 1) \div 2) - 1)
                              ELSE At3(-z - 1)
         [] mode = "vl" -> LET from == x + y \div 2 + 1
                           IN IF x = 3 /\ y >= 2 THEN At3(y + 4)
                              ELSE IF y % 2 = 0 THEN At2(from) ELSE At3(from + 1)
         [] mode = "hu" -> LET z == x + 2 * y
                           IN IF z > 5 THEN e.l[4]
                              ELSE IF z % 2 = 0 THEN At2(-(z \div 2) - 2) ELSE At3(-(z \div 2) - 2)
         [] mode = "dc" -> (SumTo(e.t, 4) + SumTo(e.l, 4) + 4) \div 8
         [] mode = "tm" -> ClipUint8(e.l[y + 1] + e.t[x + 1] - e.c)

(* Each predictor gives each sample what its direction asks for.           *)
Pred4x4Right(e) ==
    \A mode \in Modes : \A x, y \in 0..3 : Pred4x4(mode, e)[y + 1][x + 1] = Directed(mode, e, x, y)

----------------------------------------------------------------------------
(* Prediction of a whole plane of a macroblock, n samples wide; the DC is  *)
(* that of the edges there are.                                            *)

CheckMode(mode, mbX, mbY) ==
    IF mode # "dc" THEN mode
    ELSE IF mbX = 0 THEN IF mbY # 0 THEN "topdc" ELSE "dc128"
    ELSE IF mbY # 0 THEN mode ELSE "leftdc"

PredDc(n, mode, t, l) ==
    CASE mode = "dc"     -> (n + SumTo(t, n) + SumTo(l, n)) \div (IF n = 8 THEN 16 ELSE 32)
      [] mode = "leftdc" -> (n \div 2 + SumTo(l, n)) \div n
      [] mode = "topdc"  -> (n \div 2 + SumTo(t, n)) \div n
      [] mode = "dc128"  -> 128

(* The mean of the samples in the picture, rounded, or 128.                *)
DcRight(n, t, l) ==
    \A mbX, mbY \in {0, 1} :
        LET edges == (IF mbX = 1 THEN 1 ELSE 0) + (IF mbY = 1 THEN 1 ELSE 0)
            sum == (IF mbY = 1 THEN SumTo(t, n) ELSE 0) + (IF mbX = 1 THEN SumTo(l, n) ELSE 0)
            mean == (2 * sum + edges * n) \div (2 * edges * n)
        IN PredDc(n, CheckMode("dc", mbX, mbY), t, l) = IF edges = 0 THEN 128 ELSE mean

----------------------------------------------------------------------------
(* Transforms.  A block is a sequence of 16, by rows.                      *)

Mul20091(a) == (a * 20091) \div 65536 + a
Mul35468(a) == (a * 35468) \div 65536

Butterfly(a, b, c, d) ==
    LET t0 == a + c   t1 == a - c
        t2 == Mul35468(b) - Mul20091(d)
        t3 == Mul20091(b) + Mul35468(d)
    IN <<t0 + t3, t1 + t2, t1 - t2, t0 - t3>>

Residue(block) ==
    LET column(i) == Butterfly(block[i], block[4 + i], block[8 + i], block[12 + i])
        tmp == [i \in 1..4 |-> [k \in 1..4 |-> Int16(column(i)[k])]]
        row(i) == Butterfly(tmp[1][i], tmp[2][i], tmp[3][i], tmp[4][i])
    IN [y \in 1..4 |-> [x \in 1..4 |-> (row(y)[x] + 4) \div 8]]

Added(v, r) == ClipUint8(v + r)
IdctAdd(v, block) == [y \in 1..4 |-> [x \in 1..4 |-> Added(v, Residue(block)[y][x])]]
IdctDcAdd(v, block) ==
    LET dc == Int16((block[1] + 4) \div 8)
    IN [y \in 1..4 |-> [x \in 1..4 |-> Added(v, dc)]]

(* The sixteen luma DCs of a block of DCs.                                 *)
Wht(dc) ==
    LET first(i) == LET t0 == dc[i] + dc[12 + i]   t1 == dc[4 + i] + dc[8 + i]
                        t2 == dc[4 + i] - dc[8 + i]   t3 == dc[i] - dc[12 + i]
                    IN <<Int16(t0 + t1), Int16(t3 + t2), Int16(t0 - t1), Int16(t3 - t2)>>
        cols == [i \in 1..4 |-> first(i)]
        second(r) == LET d(k) == cols[k][r]
                         t0 == d(1) + d(4) + 3   t1 == d(2) + d(3)
                         t2 == d(2) - d(3)       t3 == d(1) - d(4) + 3
                     IN <<t0 + t1, t3 + t2, t0 - t1, t3 - t2>>
    IN [k \in 1..16 |-> Int16(second((k - 1) \div 4 + 1)[((k - 1) % 4) + 1] \div 8)]

WhtDc(dc) == [k \in 1..16 |-> Int16((dc[1] + 3) \div 8)]

OnlyFirst(v) == [k \in 1..16 |-> IF k = 1 THEN v ELSE 0]

(* On a block with a first coefficient alone, the short transforms give    *)
(* what the long ones give.                                                *)
ShortTransformsRight(v, sample) ==
    /\ WhtDc(OnlyFirst(v)) = Wht(OnlyFirst(v))
    /\ IdctDcAdd(sample, OnlyFirst(v)) = IdctAdd(sample, OnlyFirst(v))

----------------------------------------------------------------------------
(* The loop filter, on the samples w[1..8] across an edge.                 *)

SimpleLimit(p1, p0, q0, q1, limit) == 2 * Abs(p0 - q0) + Abs(p1 - q1) \div 2 <= limit

NormalLimit(w, e, i) ==
    /\ SimpleLimit(w[3], w[4], w[5], w[6], e)
    /\ \A k \in {1, 2, 3, 5, 6, 7} : Abs(w[k] - w[k + 1]) <= i

Hev(w, thresh) == Abs(w[3] - w[4]) > thresh \/ Abs(w[6] - w[5]) > thresh

FilterCommon(w, is4tap) ==
    LET a0 == 3 * (w[5] - w[4])
        a == ClipInt8(IF is4tap THEN a0 + ClipInt8(w[3] - w[6]) ELSE a0)
        f1 == Least(a + 4, 127) \div 8
        f2 == Least(a + 3, 127) \div 8
        b == (f1 + 1) \div 2
        inner == [w EXCEPT ![4] = ClipUint8(w[4] + f2), ![5] = ClipUint8(w[5] - f1)]
    IN IF is4tap THEN inner
       ELSE [inner EXCEPT ![3] = ClipUint8(w[3] + b), ![6] = ClipUint8(w[6] - b)]

\* Divided toward zero.
FilterMbEdgeTruncated(w) ==
    LET Toward(n) == IF n < 0 THEN -((-n) \div 128) ELSE n \div 128
        a == ClipInt8(ClipInt8(w[3] - w[6]) + 3 * (w[5] - w[4]))
        a0 == Toward(27 * a + 63)
        a1 == Toward(18 * a + 63)
        a2 == Toward(9 * a + 63)
    IN [w EXCEPT ![2] = ClipUint8(w[2] + a2), ![3] = ClipUint8(w[3] + a1),
                 ![4] = ClipUint8(w[4] + a0), ![5] = ClipUint8(w[5] - a0),
                 ![6] = ClipUint8(w[6] - a1), ![7] = ClipUint8(w[7] - a2)]

FilterMbEdge(w) ==
    LET a == ClipInt8(ClipInt8(w[3] - w[6]) + 3 * (w[5] - w[4]))
        a0 == (27 * a + 63) \div 128
        a1 == (18 * a + 63) \div 128
        a2 == (9 * a + 63) \div 128
    IN [w EXCEPT ![2] = ClipUint8(w[2] + a2), ![3] = ClipUint8(w[3] + a1),
                 ![4] = ClipUint8(w[4] + a0), ![5] = ClipUint8(w[5] - a0),
                 ![6] = ClipUint8(w[6] - a1), ![7] = ClipUint8(w[7] - a2)]

LoopFilter(w, e, i, thresh, inner) ==
    IF ~NormalLimit(w, e, i) THEN w
    ELSE IF Hev(w, thresh) \/ inner THEN FilterCommon(w, Hev(w, thresh))
    ELSE FilterMbEdge(w)

LoopFilterSimple(w, limit) ==
    IF SimpleLimit(w[3], w[4], w[5], w[6], limit) THEN FilterCommon(w, TRUE) ELSE w

(* The format's filters work on samples less 128, in eight bits with sign. *)
Signed(v) == v - 128
Sample(v) == ClipInt8(v) + 128
Shifted(v, bits) == v \div 2 ^ bits

CommonAdjust(useOuter, w) ==
    LET p1 == Signed(w[3])   p0 == Signed(w[4])   q0 == Signed(w[5])   q1 == Signed(w[6])
        a == ClipInt8((IF useOuter THEN ClipInt8(p1 - q1) ELSE 0) + 3 * (q0 - p0))
        b == Shifted(ClipInt8(a + 3), 3)
        c == Shifted(ClipInt8(a + 4), 3)
    IN [w |-> [w EXCEPT ![4] = Sample(p0 + b), ![5] = Sample(q0 - c)], a |-> c]

SubblockFilter(w, hev) ==
    LET r == CommonAdjust(hev, w)   a == Shifted(r.a + 1, 1)
    IN IF hev THEN r.w
       ELSE [r.w EXCEPT ![3] = Sample(Signed(w[3]) + a), ![6] = Sample(Signed(w[6]) - a)]

MbFilter(w, hev) ==
    IF hev THEN CommonAdjust(TRUE, w).w
    ELSE LET s == [k \in 1..8 |-> Signed(w[k])]
             v == ClipInt8(ClipInt8(s[3] - s[6]) + 3 * (s[5] - s[4]))
             t(n) == ClipInt8(Shifted(n * v + 63, 7))
         IN [w EXCEPT ![2] = Sample(s[2] + t(9)), ![3] = Sample(s[3] + t(18)),
                      ![4] = Sample(s[4] + t(27)), ![5] = Sample(s[5] - t(27)),
                      ![6] = Sample(s[6] - t(18)), ![7] = Sample(s[7] - t(9))]

(* The filters give what the format's give, wherever their limits let them *)
(* filter, and leave the rest alone.                                       *)
FilterRight(w, e, i, thresh) ==
    LET hev == Hev(w, thresh)
        within == NormalLimit(w, e, i)
    IN /\ LoopFilter(w, e, i, thresh, TRUE) = IF within THEN SubblockFilter(w, hev) ELSE w
       /\ LoopFilter(w, e, i, thresh, FALSE) = IF within THEN MbFilter(w, hev) ELSE w
       /\ LoopFilterSimple(w, e) =
            IF SimpleLimit(w[3], w[4], w[5], w[6], e) THEN CommonAdjust(TRUE, w).w ELSE w

----------------------------------------------------------------------------
(* The edges of a macroblock, in the order they are filtered: <<direction,  *)
(* position, whether with the limit of a macroblock's edge>>; "n" inner    *)
(* edges come every four samples.  filter_mb_luma and filter_mb_chroma     *)
(* have a call that filters an outer edge with the inner ones behind it.   *)

InnerEdges(dir, n) == [k \in 1..n |-> <<dir, 4 * k, FALSE>>]
Outer(dir) == <<<<dir, 0, TRUE>>>>

Directional(dir, atEdge, inner, n) ==
    (IF ~atEdge /\ inner THEN Outer(dir) \o InnerEdges(dir, n)
     ELSE IF ~atEdge THEN Outer(dir) ELSE <<>>)
    \o (IF inner /\ atEdge THEN InnerEdges(dir, n) ELSE <<>>)

FilterMb(inner, mbX, mbY, n) ==
    Directional("h", mbX = 0, inner, n) \o Directional("v", mbY = 0, inner, n)

FilterMbSimple(inner, mbX, mbY) ==
    LET one(dir, at) ==
          IF at # 0 /\ inner THEN Outer(dir) \o InnerEdges(dir, 3)
          ELSE (IF at # 0 THEN Outer(dir) ELSE <<>>)
               \o (IF inner THEN InnerEdges(dir, 3) ELSE <<>>)
    IN one("h", mbX) \o one("v", mbY)

(* The kernel that filters a whole macroblock, told by the bits of "edges" *)
(* which outer edges to filter.                                            *)
FilterAll(edges, n) ==
    (IF edges % 2 = 1 THEN Outer("h") ELSE <<>>) \o InnerEdges("h", n)
    \o (IF edges \div 2 = 1 THEN Outer("v") ELSE <<>>) \o InnerEdges("v", n)

(* Left edge, inner vertical edges, top edge, inner horizontal edges, each *)
(* of those there are: whichever calls are made.                           *)
EdgesRight(inner, mbX, mbY) ==
    \A n \in {1, 3} :
        LET format == (IF mbX > 0 THEN Outer("h") ELSE <<>>)
                   \o (IF inner THEN InnerEdges("h", n) ELSE <<>>)
                   \o (IF mbY > 0 THEN Outer("v") ELSE <<>>)
                   \o (IF inner THEN InnerEdges("v", n) ELSE <<>>)
            edges == (IF mbX # 0 THEN 1 ELSE 0) + (IF mbY # 0 THEN 2 ELSE 0)
        IN /\ FilterMb(inner, mbX, mbY, n) = format
           /\ n = 3 => FilterMbSimple(inner, mbX, mbY) = format
           /\ inner => FilterAll(edges, n) = format

----------------------------------------------------------------------------
(* What predicting the luma of macroblock (mbX, mbY) of a frame "across"   *)
(* wide reads: for a block at (x, y) in it, the samples above and to its   *)
(* right, given by their place in the frame.                               *)

\* The pixels right of the block above, also on the right side.
TopRightBelow(mbX, mbY, across, x, y) ==
    LET px == 16 * mbX   py == 16 * mbY
    IN IF x = 3 /\ mbX = across - 1 THEN [k \in 1..4 |-> <<px + 15, py - 1>>]
       ELSE [k \in 1..4 |-> <<px + 4 * x + 3 + k, py + 4 * y - 1>>]

TopRight(mbX, mbY, across, x, y) ==
    LET px == 16 * mbX   py == 16 * mbY
    IN IF x = 3
       THEN IF mbX = across - 1 THEN [k \in 1..4 |-> <<px + 15, py - 1>>]
            ELSE [k \in 1..4 |-> <<px + 15 + k, py - 1>>]
       ELSE [k \in 1..4 |-> <<px + 4 * x + 3 + k, py + 4 * y - 1>>]

(* What has a value of this frame when a block is predicted: the row of    *)
(* 127 above it with its corner (frame_init), the column of 129 on its     *)
(* left as far as this row (start_row), whole macroblocks before this one, *)
(* and the blocks of this one before it.                                   *)
IsSet(p, mbX, mbY, across, x, y) ==
    LET px == p[1]   py == p[2]
        inMb == px \div 16 = mbX /\ py \div 16 = mbY
    IN \/ py = -1 /\ px >= -1 /\ px < 16 * across
       \/ px = -1 /\ py >= 0 /\ py < 16 * (mbY + 1)
       \/ px >= 0 /\ py >= 0 /\ px < 16 * across /\
            \/ py \div 16 < mbY
            \/ py \div 16 = mbY /\ px \div 16 < mbX
            \/ inMb /\ (\/ (py % 16) \div 4 < y
                        \/ (py % 16) \div 4 = y /\ (px % 16) \div 4 < x)

(* A block is predicted from samples of this frame alone, and the four     *)
(* above and to its right are the row above the macroblock's for every     *)
(* block on its right side.                                                *)
PredictsFromSet(across, down) ==
    \A mbX \in 0..across - 1, mbY \in 0..down - 1, x, y \in 0..3 :
        LET right == TopRight(mbX, mbY, across, x, y)
            above == {<<16 * mbX + 4 * x + k, 16 * mbY + 4 * y - 1>> : k \in -1..3}
            beside == {<<16 * mbX + 4 * x - 1, 16 * mbY + 4 * y + k>> : k \in 0..3}
        IN /\ \A p \in above \cup beside \cup {right[k] : k \in 1..4} :
                IsSet(p, mbX, mbY, across, x, y)
           /\ x = 3 => \A k \in 1..4 : right[k][2] = 16 * mbY - 1
============================================================================
