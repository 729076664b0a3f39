----------------------------- MODULE LosslessRows -----------------------------
(***************************************************************************)
(* The inverse transforms over rows, src/vp8l/transform.rs, and the pixels *)
(* they are made of, src/dsp/vp8l.rs: predictors that work on all the      *)
(* channels of a word at once, or on an alpha image's green alone and out  *)
(* of order; runs of tiles of one mode, two rows at a time; and palettes   *)
(* expanded in place.                                                      *)
(*                                                                         *)
(* A channel is a number below Range: eight bits in the code.  A plane is  *)
(* a function from where a pixel lies.                                     *)
(***************************************************************************)
EXTENDS Integers, SequencesExt, Bitwise

CONSTANTS ChannelBits,  \* 8
          Block         \* BLOCK, the pixels expanded at a time

N == 2 ^ ChannelBits
Modes == 0..13
Black == 0          \* of green; the alpha channel's is N - 1
Clip(v) == IF v < 0 THEN 0 ELSE IF v >= N THEN N - 1 ELSE v
Abs(v) == IF v < 0 THEN -v ELSE v
\* i32 division, toward zero.
Half(v) == IF v < 0 THEN -((-v) \div 2) ELSE v \div 2

---------------------------------------------------------------------------
(* A word of two channels *)

Low   == N - 1
High  == N * Low
Evens == (High - N) + (Low - 1)
Pack(h, l) == N * h + l

\* add_pixels() and avg2(): the channels kept apart by masks, the word wrapping.
AddPixels(a, b) == ((((a & High) + (b & High)) % (N * N)) & High) | (((a & Low) + (b & Low)) & Low)
Avg2(a, b)      == (((a ^^ b) & Evens) \div 2) + (a & b)

WordsRight(a, b) ==
    LET h(v) == v \div N  l(v) == v % N
    IN  /\ AddPixels(a, b) = Pack((h(a) + h(b)) % N, (l(a) + l(b)) % N)
        /\ Avg2(a, b) = Pack((h(a) + h(b)) \div 2, (l(a) + l(b)) \div 2)

---------------------------------------------------------------------------
(* The predictors of one channel *)

Average(a, b) == (a + b) \div 2

\* pred_add_0() to pred_add_13(), with select() where the other channels are the
\* same in all three pixels.
Predicted(mode, l, t, tl, tr) ==
    CASE mode = 0 -> Black
      [] mode = 1 -> l
      [] mode = 2 -> t
      [] mode = 3 -> tr
      [] mode = 4 -> tl
      [] mode = 5 -> Average(Average(l, tr), t)
      [] mode = 6 -> Average(l, tl)
      [] mode = 7 -> Average(l, t)
      [] mode = 8 -> Average(tl, t)
      [] mode = 9 -> Average(t, tr)
      [] mode = 10 -> Average(Average(l, tl), Average(t, tr))
      [] mode = 11 -> IF Abs(l - tl) - Abs(t - tl) <= 0 THEN t ELSE l
      [] mode = 12 -> Clip(l + t - tl)
      [] mode = 13 -> LET a == Average(l, t) IN Clip(a + Half(a - tl))

\* pred_green_0() to pred_green_13(): the sums shifted once, what does not wait
\* for the left pixel worked out before it, and the two cases of a window.
Green(mode, l, t, tl, tr, g) ==
    LET window(lo, hi, inside, outside) == IF lo <= l /\ l <= hi THEN inside ELSE outside
    IN  CASE mode = 0 -> g
          [] mode = 1 -> (l + g) % N
          [] mode = 2 -> (t + g) % N
          [] mode = 3 -> (tr + g) % N
          [] mode = 4 -> (tl + g) % N
          [] mode = 5 -> ((l + tr + 2 * t + 4 * g) \div 4) % N
          [] mode = 6 -> ((l + tl + 2 * g) \div 2) % N
          [] mode = 7 -> ((l + t + 2 * g) \div 2) % N
          [] mode = 8 -> (Average(tl, t) + g) % N
          [] mode = 9 -> (Average(t, tr) + g) % N
          [] mode = 10 -> ((l + tl + 2 * Average(t, tr) + 4 * g) \div 4) % N
          [] mode = 11 -> window(tl - Abs(t - tl), tl + Abs(t - tl), (t + g) % N, (l + g) % N)
          [] mode = 12 -> window(tl - t, N - 1 + tl - t, (l + ((t - tl + g) % N)) % N,
                                 IF t >= tl THEN (g - 1) % N ELSE g)
          [] mode = 13 -> LET a == Average(l, t) IN (Clip(a + Half(a - tl)) + g) % N

\* Green predicted alone is the green of the whole pixel's prediction.
GreenRight(mode, l, t, tl) ==
    \A tr \in 0..N - 1, g \in 0..N - 1 :
        Green(mode, l, t, tl, tr, g) = (Predicted(mode, l, t, tl, tr) + g) % N

---------------------------------------------------------------------------
(* predictor_rows() *)

\* A run of n pixels at `out` below the row at `up`.
Run(p, mode, out, up, n) ==
    FoldLeft(LAMBDA q, i : [q EXCEPT ![out + i] =
                (@ + Predicted(mode, IF mode = 0 THEN 0 ELSE q[out + i - 1],
                               q[up + i], IF up + i = 0 THEN 0 ELSE q[up + i - 1],
                               q[up + i + 1])) % N],
             p, [i \in 1..n |-> i - 1])

\* The runs of a tile row: neighbouring tiles of the same mode are one.
Runs(modes, width, bits) ==
    LET tiles == (width - 1) \div 2 ^ bits + 1
        ends == {k \in 1..tiles : k = tiles \/ modes[k] # modes[k - 1]}
        end(k) == Min({k * 2 ^ bits, width})
        begin(k) == LET before == {j \in ends : j < k}
                    IN  IF before = {} THEN 1 ELSE end(Max(before))
    IN  SelectSeq([k \in 1..tiles |-> [mode |-> modes[k - 1], x |-> begin(k), n |-> end(k) - begin(k)]],
                  LAMBDA r : \E k \in ends : r.x = begin(k) /\ r.x + r.n = end(k) /\ r.n > 0)

\* One of the modes left out.
ReadsTopRightThree == {3, 5, 9}

ReadsTopRight == {3, 5, 9, 10}
\* A row's first pixel is predicted from above, and put behind the row above,
\* where the top right of the last is read.
FirstOf(p, row, up, width) ==
    LET q == [p EXCEPT ![row] = (@ + p[up]) % N]
    IN  IF up + width # row THEN [q EXCEPT ![up + width] = q[row]] ELSE q

OneRow(p, runs, row, up, width) ==
    FoldLeft(LAMBDA q, r : Run(q, r.mode, row + r.x, up + r.x, r.n),
             FirstOf(p, row, up, width), runs)

\* Two rows a run at a time: the lower row's run waits for the upper row's next
\* one when it reads the top right.
TwoRows(p, runs, row, up, stride, width) ==
    LET below == row + stride
        lower(q, r) == Run(q, r.mode, below + r.x, row + r.x, r.n)
        settle(a) == [p |-> IF a.held = <<>> THEN a.p ELSE lower(a.p, a.held[1]), held |-> <<>>]
        hold(a, r) == IF r.mode \in ReadsTopRight THEN [a EXCEPT !.held = <<r>>]
                      ELSE [a EXCEPT !.p = lower(@, r)]
        one(a, r) == hold(settle([a EXCEPT !.p = Run(@, r.mode, row + r.x, up + r.x, r.n)]), r)
        firsts == FirstOf(FirstOf(p, row, up, width), below, row, width)
    IN  settle(FoldLeft(one, [p |-> firsts, held |-> <<>>], runs)).p

\* The rows y0 to y1, at `base`, below the row at `upper`; the image's first
\* row from black and from the left.  A mode that does not exist is an error.
PredictorRows(p, modes, base, stride, width, bits, y0, y1, upper) ==
    LET first == Run([p EXCEPT ![base] = (@ + Black) % N], 1, base + 1, base, width - 1)
        runs(y) == Runs(modes[y \div 2 ^ bits], width, bits)
        bad(y) == \E r \in Range(runs(y)) : r.mode \notin Modes
        pair(y) == y + 1 < y1 /\ (y + 1) \div 2 ^ bits = y \div 2 ^ bits
        at(y) == base + (y - y0) * stride
        up(y) == IF y = y0 THEN upper ELSE at(y - 1)
        from == IF y0 = 0 THEN 1 ELSE y0
        one(a, y) ==
            IF ~a.ok \/ y < a.next THEN a
            ELSE IF bad(y) THEN [a EXCEPT !.ok = FALSE]
            ELSE IF pair(y)
            THEN [a EXCEPT !.next = y + 2,
                           !.p = TwoRows(@, runs(y), at(y), up(y), stride, width)]
            ELSE [a EXCEPT !.next = y + 1, !.p = OneRow(@, runs(y), at(y), up(y), width)]
    IN  FoldLeft(one, [p |-> IF y0 = 0 THEN first ELSE p, ok |-> TRUE, next |-> from],
                 [i \in 1..y1 - from |-> from + i - 1])

\* Each pixel from those around it, in order: the top right of a row's last is
\* the row's own first.
Rebuilt(px, modes, width, bits, h) ==
    LET v[q \in 0..width * h - 1] ==
            LET x == q % width  y == q \div width
            IN  (px[x, y] +
                 (IF q = 0 THEN Black ELSE IF y = 0 THEN v[q - 1] ELSE IF x = 0 THEN v[q - width]
                  ELSE Predicted(modes[y \div 2 ^ bits][x \div 2 ^ bits], v[q - 1],
                                 v[q - width], v[q - width - 1], v[q - width + 1]))) % N
    IN  v

\* Whatever the distance of the rows, and wherever they are cut into calls.
InTwoCalls(plane, modes, width, stride, bits, h, cut) ==
    LET below(a, y) ==
            LET b == PredictorRows(a.p, modes, y * stride, stride, width, bits, y,
                                   IF y = 0 THEN cut ELSE h, IF y = 0 THEN 0 ELSE (y - 1) * stride)
            IN  [b EXCEPT !.ok = @ /\ a.ok]
    IN  FoldLeft(below, [p |-> plane, ok |-> TRUE], <<0, cut>>)
AsRebuilt(all, px, modes, width, stride, bits, h) ==
    LET used(y) == {modes[y \div 2 ^ bits][t] : t \in 0..(width - 1) \div 2 ^ bits}
        legal == width = 1 \/ \A y \in 1..h - 1 : used(y) \subseteq Modes
    IN  /\ all.ok <=> legal
        /\ legal => \A x \in 0..width - 1, y \in 0..h - 1 :
              all.p[y * stride + x] = Rebuilt(px, modes, width, bits, h)[y * width + x]
PredictorRight(px, modes, width, stride, bits, h, cut) ==
    LET plane == [i \in 0..stride * h + width |->
                    IF i \div stride < h /\ i % stride < width THEN px[i % stride, i \div stride] ELSE N - 1]
    IN  AsRebuilt(InTwoCalls(plane, modes, width, stride, bits, h, cut),
                  px, modes, width, stride, bits, h)

---------------------------------------------------------------------------
(* color_rows(), subtract_green_rows() *)

\* color_row() up to the arithmetic of color_delta(): the new red decides blue.
Signed(b) == IF b >= N \div 2 THEN b - N ELSE b
Delta(m, c) == (Signed(m) * Signed(c)) \div 2 ^ (ChannelBits - 3)
ColorPixel(px, m) ==
    LET red == (px.r + Delta(m.greenRed, px.g)) % N
    IN  [px EXCEPT !.r = red,
                   !.b = (@ + Delta(m.greenBlue, px.g) + Delta(m.redBlue, red)) % N]
AddGreen(px) == [px EXCEPT !.r = (@ + px.g) % N, !.b = (@ + px.g) % N]
ColorRow(row, mults, bits) ==
    LET end(x) == Min({(x \div 2 ^ bits) * 2 ^ bits + 2 ^ bits, Len(row)})
        run(a, x) == IF x < a.x THEN a
                     ELSE [x |-> end(x),
                           row |-> [i \in DOMAIN row |->
                                       IF i - 1 \in x..end(x) - 1
                                       THEN ColorPixel(a.row[i], mults[x \div 2 ^ bits]) ELSE a.row[i]]]
    IN  FoldLeft(run, [x |-> 0, row |-> row], [i \in 1..Len(row) |-> i - 1]).row
ColorRight(row, mults, bits) ==
    ColorRow(row, mults, bits) = [i \in DOMAIN row |-> ColorPixel(row[i], mults[(i - 1) \div 2 ^ bits])]

---------------------------------------------------------------------------
(* color_indexing_rows() and color_indexing_alpha() *)

Digit(packed, i, per) == (packed \div 2 ^ (i * (ChannelBits \div per))) % 2 ^ (ChannelBits \div per)
Entry(palette, i) == IF i < Len(palette) THEN palette[i + 1] ELSE 0

\* expand_palette_rows(): from the last row to the first and in a row from the
\* last pixels to the first, as the rows lie further apart than they did.
Expand(p, dst, src, width, h, palette, per) ==
    LET full == width \div per
        group(q, y, k, n) ==
            LET packed == q[y * src + k]
            IN  [i \in DOMAIN q |-> IF i \in y * dst + k * per..y * dst + k * per + n - 1
                                    THEN Entry(palette, Digit(packed, i - y * dst - k * per, per)) ELSE q[i]]
        block(q, y, b) ==
            LET start == Max({b - Block, 0})
                idx == [k \in start..b - 1 |-> q[y * src + k]]
            IN  [i \in DOMAIN q |->
                    LET x == i - y * dst
                    IN  IF x \in start * per..b * per - 1
                        THEN Entry(palette, Digit(idx[x \div per], x % per, per)) ELSE q[i]]
        row(q, y) ==
            FoldLeft(LAMBDA a, k : block(a, y, full - (k - 1) * Block),
                     IF width % per = 0 THEN q ELSE group(q, y, full, width % per),
                     [k \in 1..(full + Block - 1) \div Block |-> k])
    IN  FoldLeft(row, p, [k \in 1..h |-> h - k])

\* An image without a shared pixel is mapped where it lies.
Indexed(p, dst, src, width, h, palette, per) ==
    IF per > 1 THEN Expand(p, dst, src, width, h, palette, per)
    ELSE [i \in DOMAIN p |-> IF i \div dst < h /\ i % dst < width THEN Entry(palette, p[i]) ELSE p[i]]

\* No packed pixel is written over before it has been read.
PaletteRight(p, src, width, h, palette, per) ==
    LET to == Indexed(p, width, src, width, h, palette, per)
    IN  \A x \in 0..width - 1, y \in 0..h - 1 :
            to[y * width + x] = Entry(palette, Digit(p[y * src + x \div per], x % per, per))
=============================================================================
