------------------------------ MODULE Rescale ------------------------------
(***************************************************************************)
(* One plane taken to another size (src/rescale.rs, src/dsp/rescale.rs).   *)
(* The rescaler is an accumulator between two clocks: source rows are      *)
(* imported while it wants them, destination rows exported while it does   *)
(* not, and the two rows of its work area keep what one destination row    *)
(* owes the next.  Every sample is a fixed-point number of Fix bits that   *)
(* wraps, as the 32-bit ones of the code do.                               *)
(***************************************************************************)
EXTENDS Integers, Sequences

CONSTANTS Fix,     \* bits of the fixed point (RFIX is 32)
          Top      \* the largest sample (255)

VARIABLES job,     \* [src |-> rows of samples, w |-> , h |-> the size asked]
          r,       \* the rescaler's fields
          irow, frow,   \* the accumulated row and the row just imported
          y,       \* source rows imported
          out      \* the destination rows, written in order

vars == <<job, r, irow, frow, y, out>>

One == 2 ^ Fix
Word(v) == v % One
MultFix(a, b) == Word((a * b + One \div 2) \div One)
MultFixFloor(a, b) == Word((a * b) \div One)
Frac(a, b) == Word((a * One) \div b)
Clip(v) == IF v > Top THEN Top ELSE v

\* The samples first + 1 .. first + n of a row.
SumOf(row, first, n) ==
    LET S[k \in 0 .. n] == IF k = 0 THEN 0 ELSE S[k - 1] + row[first + k] IN S[n]

SrcWidth == Len(job.src[1])
SrcHeight == Len(job.src)

(***************************************************************************)
(* Rescaler::new.  Enlarging spreads the ends onto the ends, so both       *)
(* lengths lose one; a ratio that needs every bit of the word becomes      *)
(* zero, which export takes as "copy the row".                             *)
(***************************************************************************)
New(sw, sh, dw, dh) ==
    LET xExpand == sw < dw
        yExpand == sh < dh
        xAdd == IF xExpand THEN dw - 1 ELSE sw
        xSub == IF xExpand THEN sw - 1 ELSE dw
        yAdd == IF yExpand THEN sh - 1 ELSE sh
        ySub == IF yExpand THEN dh - 1 ELSE dh
        ratio == (dh * One) \div (xAdd * yAdd)
    IN  [xExpand |-> xExpand, yExpand |-> yExpand,
         xAdd |-> xAdd, xSub |-> xSub, yAdd |-> yAdd, ySub |-> ySub,
         fx |-> IF xExpand THEN 0 ELSE Frac(1, xSub),
         fy |-> Frac(1, IF yExpand THEN xAdd ELSE ySub),
         fxy |-> IF yExpand \/ ratio > One - 1 THEN 0 ELSE ratio,
         accum |-> IF yExpand THEN ySub ELSE yAdd,
         dstY |-> 0]

WantsRow == ~ (r.dstY < job.h /\ r.accum <= 0)

CeilDiv(a, b) == (a + b - 1) \div b

\* A larger row: each sample blends the two the clock stands between.  The
\* clock steps by xSub and moves on a source sample when it runs out of xAdd.
ImportExpand(src) ==
    LET Left(x) == IF x = 0 THEN 0 ELSE CeilDiv(x * r.xSub, r.xAdd) - 1
        accum(x) == r.xAdd - (x * r.xSub - Left(x) * r.xAdd)
        Sample(x) == LET l == src[1 + Left(x)]
                         rt == IF Len(src) > 1 THEN src[2 + Left(x)] ELSE l
                     IN  Word(rt * r.xAdd + (l - rt) * accum(x))
    IN  [x \in 1 .. job.w |-> IF r.xSub = 0 THEN Word(src[1] * r.xAdd) ELSE Sample(x - 1)]

\* A row no larger: each sample takes the source samples its interval begins
\* or ends in, and hands the part past its end to the next one.
ImportShrink(src) ==
    LET Used(x) == CeilDiv(x * r.xAdd, r.xSub)
        Fract(x) == IF x = 0 THEN 0
                    ELSE Word(src[Used(x)] * (Used(x) * r.xSub - x * r.xAdd))
        Taken(x) == MultFix(Fract(x - 1), r.fx)
                    + SumOf(src, Used(x - 1), Used(x) - Used(x - 1))
    IN  [x \in 1 .. job.w |-> Word(Taken(x) * r.xSub - Fract(x))]

ImportRow ==
    /\ y < SrcHeight
    /\ WantsRow
    /\ LET row == IF r.xExpand THEN ImportExpand(job.src[y + 1])
                  ELSE ImportShrink(job.src[y + 1])
       IN  /\ frow' = row
           /\ irow' = IF r.yExpand THEN frow
                      ELSE [x \in 1 .. job.w |-> Word(irow[x] + row[x])]
    /\ y' = y + 1
    /\ r' = [r EXCEPT !.accum = @ - r.ySub]
    /\ UNCHANGED <<job, out>>

\* The row the rescaler is on, out of the pair of imported rows.
ExpandedRow ==
    LET b == Frac(- r.accum, r.ySub)
        Blend(x) == IF r.accum = 0 THEN frow[x]
                    ELSE Word((Word(0 - b) * frow[x] + b * irow[x] + One \div 2) \div One)
    IN  [x \in 1 .. job.w |-> Clip(MultFix(Blend(x), r.fy))]

\* Nothing kept for the next row.
OwedNothing(x) == 0

\* What of the row just imported belongs to the next destination row.
Owed(x) == LET yscale == Word(r.fy * (- r.accum))
           IN  IF yscale # 0 THEN MultFixFloor(frow[x], yscale) ELSE 0

ShrunkRow == [x \in 1 .. job.w |-> Clip(MultFix(Word(irow[x] - Owed(x)), r.fxy))]
DirectRow == [x \in 1 .. job.w |-> irow[x] % (Top + 1)]

ExportRow ==
    /\ ~ WantsRow
    /\ \/ r.yExpand /\ out' = Append(out, ExpandedRow) /\ irow' = irow
       \/ /\ ~ r.yExpand /\ r.fxy # 0
          /\ out' = Append(out, ShrunkRow)
          /\ irow' = [x \in 1 .. job.w |-> Owed(x)]
       \/ /\ ~ r.yExpand /\ r.fxy = 0
          /\ out' = Append(out, DirectRow)
          /\ irow' = [x \in 1 .. job.w |-> 0]
    /\ r' = [r EXCEPT !.accum = @ + r.yAdd, !.dstY = @ + 1]
    /\ UNCHANGED <<job, frow, y>>

InitOf(j) ==
    /\ job = j
    /\ r = New(Len(j.src[1]), Len(j.src), j.w, j.h)
    /\ irow = [x \in 1 .. j.w |-> 0]
    /\ frow = [x \in 1 .. j.w |-> 0]
    /\ y = 0
    /\ out = << >>

Next == ImportRow \/ ExportRow

-----------------------------------------------------------------------------
(***************************************************************************)
(* The reference: the weight of source place s in destination place d of a *)
(* line of n places made m.  Shrinking weighs by the overlap of the two    *)
(* intervals, enlarging by the distance to the two nearest places.         *)
(***************************************************************************)
Smaller(a, b) == IF a < b THEN a ELSE b
Larger(a, b) == IF a > b THEN a ELSE b
Weight(n, m, s, d) ==
    IF n < m
    THEN LET at == d * (n - 1) IN Larger(0, (m - 1) - (IF at > s * (m - 1)
                                                       THEN at - s * (m - 1)
                                                       ELSE s * (m - 1) - at))
    ELSE Larger(0, Smaller((s + 1) * m, (d + 1) * n) - Larger(s * m, d * n))
Full(n, m) == IF n < m THEN m - 1 ELSE n

Exact(dx, dy) ==
    LET Row(sy) == SumOf([k \in 1 .. SrcWidth |-> Weight(SrcWidth, job.w, k - 1, dx)
                                                  * job.src[sy][k]], 0, SrcWidth)
    IN  SumOf([k \in 1 .. SrcHeight |-> Weight(SrcHeight, job.h, k - 1, dy) * Row(k)],
              0, SrcHeight)
Whole == Full(SrcWidth, job.w) * Full(SrcHeight, job.h)

(***************************************************************************)
(* The scale 1 / x_add is kept as a fraction of one word, which cannot     *)
(* hold 1: a picture one sample wide made taller, or made two wide and     *)
(* taller, is scaled by zero.                                              *)
(***************************************************************************)
ScaleIsLost == r.yExpand /\ r.xAdd = 1

\* Every source row is used and every destination row written once, and a
\* sample is within one level of the exact average or interpolation, whatever
\* the clocks of the two axes leave over between rows.
RescaledWhole ==
    (~ ENABLED Next)
      => /\ y = SrcHeight /\ Len(out) = job.h
         /\ ScaleIsLost \/
            \A dx \in 1 .. job.w, dy \in 1 .. job.h :
               LET off == out[dy][dx] * Whole - Exact(dx - 1, dy - 1)
               IN  -Whole <= off /\ off <= Whole
=============================================================================
