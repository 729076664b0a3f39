------------------------------ MODULE AlphaPlane ------------------------------
(***************************************************************************)
(* The alpha plane of a lossy frame: lossy_decode_frame() and              *)
(* decode_alpha() of src/driver/lossy.rs, alpha_pipelined(), alpha_rows()  *)
(* and AlphaRows of src/vp8l/mod.rs, and the filters of src/dsp.           *)
(*                                                                         *)
(* An alpha image's green is the plane.  With two threads its rows go from *)
(* the entropy decoder to the transforms in bands that come back to be     *)
(* used again: a few while the transforms run beside, as many as it takes  *)
(* when no thread could be started and they run after.  While every pixel  *)
(* has the same channels other than green, green is predicted by itself;   *)
(* the first row where one differs is predicted whole, below a row put     *)
(* together again from what is left of it.                                 *)
(*                                                                         *)
(* A pixel is <<green, rest>>, below G and below R.                        *)
(***************************************************************************)
EXTENDS Integers, SequencesExt

CONSTANTS
    Frames,     \* the frames decoded: a record each, see InitOf
    BandRows,   \* ALPHA_BAND_ROWS
    PipelinePieces  \* PIPELINE_PIECES

G == 4
R == 2
Black == <<0, 1>>   \* opaque, which is in the rest

VARIABLES
    frame,      \* the frame: its coding, transforms, filter and threads
    plane,      \* alpha_plane
    rows,       \* AlphaRows: green, scratch, rest, byGreen, and ok
    bands,      \* made, todo: those sent on, back: those that came back
    dec,        \* the entropy decoder: its state, the rows done and sent
    xf,         \* the transforms: "none", "beside", "after", "gone"
    unfiltered, dstUsed,    \* alpha_unfiltered and alpha_dst_used
    result      \* "none", "ok", "alpha", "colour", "panic"

vars == <<frame, plane, rows, bands, dec, xf, unfiltered, dstUsed, result>>

W == frame.w
H == frame.h

---------------------------------------------------------------------------
(* The transforms, and green by itself *)

Add(p, q)    == <<(p[1] + q[1]) % G, (p[2] + q[2]) % R>>
Mode(x, y)   == frame.modes[x \div 2][y \div 2]
Abs(n)       == IF n < 0 THEN -n ELSE n
Clamp(n)     == IF n < 0 THEN 0 ELSE IF n >= G THEN G - 1 ELSE n

\* select() looks across the channels.
Select(l, t, tl) ==
    LET near(a) == Abs(a[1] - tl[1]) + Abs(a[2] - tl[2])
    IN  IF near(l) <= near(t) THEN t ELSE l
Predicted(mode, black, l, t, tl, tr) ==
    CASE mode = "black" -> black [] mode = "left" -> l [] mode = "above" -> t
      [] mode = "corner" -> tr   [] OTHER -> Select(l, t, tl)
BadRow(y) == y > 0 /\ \E x \in 1..W - 1 : Mode(x, y) = "none"

\* A row of pixels below `up`, of green alone when black has nothing else; the
\* top right of its last is its own first.
PredictRow(row, up, y, black) ==
    LET first == IF y = 0 THEN Add(row[0], black) ELSE Add(row[0], up[0])
        p[x \in 0..W - 1] ==
            IF x = 0 THEN first
            ELSE IF y = 0 THEN Add(row[x], p[x - 1])
            ELSE Add(row[x], Predicted(Mode(x, y), black, p[x - 1], up[x], up[x - 1],
                                       IF x = W - 1 THEN first ELSE up[x + 1]))
    IN  p

Recolor(p, x)  == <<p[1], (p[2] + p[1] + x) % R>>
AddGreen(p)    == <<p[1], (p[2] + p[1]) % R>>
Palette(p)     == <<(3 * p[1] + 1) % G, 0>>
PaletteGreen(p) == Palette(p)[1]

\* Inverse::rows(): the list backwards over the rows of a band, the last
\* predicted row kept in scratch.
FullRows(a, y0, y1) ==
    LET ys == [i \in 1..y1 - y0 |-> y0 + i - 1]
        predict(b, y) ==
            IF ~b.ok \/ BadRow(y) THEN [b EXCEPT !.ok = FALSE]
            ELSE LET r == PredictRow(b.px[y], b.scratch, y, Black)
                 IN  [b EXCEPT !.px[y] = r, !.scratch = r]
        each(b, F(_, _)) ==
            [b EXCEPT !.px = [y \in DOMAIN @ |-> [x \in DOMAIN @[y] |->
                                 IF y \in y0..y1 - 1 THEN F(@[y][x], x) ELSE @[y][x]]]]
        undo(b, t) == IF ~b.ok THEN b
                      ELSE CASE t = "predictor" -> FoldLeft(predict, b, ys)
                             [] t = "color" -> each(b, Recolor)
                             [] t = "green" -> each(b, LAMBDA p, x : AddGreen(p))
                             [] OTHER -> each(b, LAMBDA p, x : Palette(p))
    IN  FoldLeft(undo, a, Reverse(frame.list))

\* green_alpha() and uses_black().
GreenAlpha(list) == /\ list # <<>> /\ Last(list) = "predictor"
                    /\ Range(Front(list)) \subseteq {"color", "green"}
\* A first row taken by green whatever its other channels become.
UsesBlackNever == FALSE

UsesBlack  == \E x \in DOMAIN frame.modes : \E y \in DOMAIN frame.modes[x] :
                 frame.modes[x][y] = "black"

\* green_row(): "whole" when a pixel's other channels would differ.
Uniform(res, from) == \A x \in from..W - 1 : res[x][2] = 0
GreenRow(a, y) ==
    LET res  == a.px[y]
        rest == Add(res[0], Black)[2]
        up   == [x \in 0..W - 1 |-> <<a.green[(y + 1) % 2][x], 0>>]
        by   == PredictRow([x \in 0..W - 1 |-> <<res[x][1], 0>>], up, y, <<Black[1], 0>>)
    IN  IF ~Uniform(res, IF y = 0 THEN 1 ELSE 0) \/ (y = 0 /\ rest # Black[2] /\ UsesBlack)
        THEN [a EXCEPT !.st = "whole"]
        ELSE IF BadRow(y) THEN [a EXCEPT !.ok = FALSE]
        ELSE [a EXCEPT !.green[y % 2] = [x \in 0..W - 1 |-> by[x][1]],
                       !.rest = IF y = 0 THEN rest ELSE @]

\* A filter's row, in place, below the row before it.
UnfilterRow(p, y, mode) ==
    LET m == IF y = 0 THEN "horizontal" ELSE mode
        up(x) == IF y = 0 THEN 0 ELSE p[y - 1][x]
        r[x \in 0..W - 1] ==
            LET add == IF m = "vertical" \/ x = 0 THEN up(x)
                       ELSE IF m = "horizontal" THEN r[x - 1]
                       ELSE Clamp(r[x - 1] + up(x) - up(x - 1))
            IN  (p[y][x] + add) % G
    IN  IF mode = "none" THEN p ELSE [p EXCEPT ![y] = r]

\* AlphaRows::rows(): by green for as long as it goes, then whole, below the
\* row above put together from its green and the rest.
Take(a, y, r) == [a EXCEPT !.plane = UnfilterRow([@ EXCEPT ![y] = r], y, frame.filter)]
RowsFrom(f, t) == [i \in 1..t - f |-> f + i - 1]
AfterGreen(b, y) ==
    IF b.st = "whole"
    THEN [b EXCEPT !.byGreen = FALSE, !.from = y,
                   !.scratch = IF y = 0 THEN @
                               ELSE [x \in 0..W - 1 |-> <<b.green[(y + 1) % 2][x], b.rest>>]]
    ELSE IF b.ok THEN [Take(b, y, b.green[y % 2]) EXCEPT !.from = y + 1] ELSE b
ByGreen(a, y0, y1) ==
    FoldLeft(LAMBDA b, y : IF b.st = "green" /\ b.ok THEN AfterGreen(GreenRow(b, y), y) ELSE b,
             [a EXCEPT !.st = IF a.byGreen THEN "green" ELSE "whole", !.from = y0],
             RowsFrom(y0, y1))
TakeGreen(a, y1) ==
    IF ~a.ok THEN a
    ELSE FoldLeft(LAMBDA b, y : Take(b, y, [x \in 0..W - 1 |-> b.px[y][x][1]]),
                  a, RowsFrom(a.from, y1))
ByWhole(a, y1) == IF a.from = y1 \/ ~a.ok THEN a ELSE TakeGreen(FullRows(a, a.from, y1), y1)
AlphaRows(a, y0, y1) == ByWhole(ByGreen(a, y0, y1), y1)

\* The rows that a call takes to the plane.
Taken(y0, y1) ==
    AlphaRows(rows @@ [px |-> frame.px, plane |-> plane, from |-> y0, st |-> "green"], y0, y1)
TakeRows(a) == /\ plane' = a.plane
               /\ rows' = [f \in DOMAIN rows |-> a[f]]

---------------------------------------------------------------------------
(* The frame *)

\* The threads of the two that alpha has.
AlphaThreads == LET n == IF frame.big THEN frame.threads ELSE 1
                IN  IF n > 1 /\ (n >= 5 \/ frame.heavy) THEN Min({2, n - 1}) ELSE 1
Pipelined == AlphaThreads > 1 /\ {"predictor", "color"} \cap Range(frame.list) # {}

\* alpha_bands()
Ceil(a, b) == (a + b - 1) \div b
Most       == Max({2 * Ceil(Ceil(H, BandRows), PipelinePieces), 3})

Starting   == result = "none" /\ dec.st = "idle"
AllRows    == [y \in 1..H |-> y - 1]
ResultOf(ok) == IF ~frame.colourOk THEN "colour" ELSE IF ok THEN "ok" ELSE "alpha"
Return(ok) == result' = ResultOf(ok) /\ dec' = [dec EXCEPT !.st = "joined"]

\* What is left of decode_alpha(): the green taken when the decoder has not,
\* and the filter undone when it has not been.
Unfiltered(p) == FoldLeft(LAMBDA q, y : UnfilterRow(q, y, frame.filter), p, AllRows)

\* ALPHA_COMPRESSION_NONE: the bytes are the plane.
Raw ==
    /\ Starting /\ frame.coding = "raw"
    /\ plane' = IF frame.short THEN plane
                ELSE Unfiltered([y \in 0..H - 1 |-> [x \in 0..W - 1 |-> frame.px[y][x][1]]])
    /\ Return(~frame.short)
    /\ UNCHANGED <<frame, rows, bands, xf, unfiltered, dstUsed>>

\* decode_alpha_8b(): a palette's indices, whose entries' green is the plane.
Indexed ==
    /\ Starting /\ frame.coding = "indexed"
    /\ dstUsed' = (frame.badAt = H) /\ unfiltered' = FALSE
    /\ plane' = IF frame.badAt < H THEN plane
                ELSE Unfiltered([y \in 0..H - 1 |->
                                    [x \in 0..W - 1 |-> PaletteGreen(frame.px[y][x])]])
    /\ Return(frame.badAt = H)
    /\ UNCHANGED <<frame, rows, bands, xf>>

\* One thread, the pixels first: a palette among the transforms has the picture
\* transformed whole, and otherwise alpha_rows() takes it band by band.
Whole ==
    /\ Starting /\ frame.coding = "vp8l" /\ ~Pipelined
    /\ LET palette == "palette" \in Range(frame.list)
           direct  == frame.list = <<"palette">>
           band(a, n) == IF ~a.ok THEN a
                         ELSE AlphaRows(a, n * BandRows, Min({(n + 1) * BandRows, H}))
           start == rows @@ [px |-> frame.px, plane |-> plane, from |-> 0, st |-> "green"]
           green(a) == [y \in 0..H - 1 |-> [x \in 0..W - 1 |-> a.px[y][x][1]]]
       IN  \E done \in {IF palette THEN FullRows(start, 0, H)
                        ELSE FoldLeft(band, start, [n \in 1..Ceil(H, BandRows) |-> n - 1])} :
           LET ok == frame.badAt = H /\ done.ok
           IN  /\ dstUsed' = (ok /\ (~palette \/ direct))
               /\ unfiltered' = (ok /\ ~palette /\ frame.filter # "none")
               /\ IF frame.badAt < H THEN UNCHANGED <<plane, rows>>
                  ELSE IF palette
                  THEN plane' = (IF ok THEN Unfiltered(green(done)) ELSE plane) /\ UNCHANGED rows
                  ELSE TakeRows(done)
               /\ Return(ok)
    /\ UNCHANGED <<frame, bands, xf>>

\* alpha_pipelined(): the transforms beside, or after when no thread starts.
Begin ==
    /\ Starting /\ frame.coding = "vp8l" /\ Pipelined
    /\ xf' \in {"beside", "after"}
    /\ dec' = [dec EXCEPT !.st = "run"]
    /\ UNCHANGED <<frame, plane, rows, bands, unfiltered, dstUsed, result>>

\* A piece of the payload makes some more rows, or is not coded right.
DecodePiece ==
    /\ dec.st = "run" /\ dec.sent = dec.done
    /\ \/ ~rows.ok /\ dec' = [dec EXCEPT !.st = "ok"]
       \/ /\ rows.ok /\ \E y \in dec.done + 1..frame.badAt : dec' = [dec EXCEPT !.done = y]
       \/ /\ rows.ok /\ frame.badAt < H /\ dec' = [dec EXCEPT !.st = "bad"]
       \/ /\ rows.ok /\ dec.done = H /\ dec' = [dec EXCEPT !.st = "ok"]
    /\ UNCHANGED <<frame, plane, rows, bands, xf, unfiltered, dstUsed, result>>

\* No more even when nobody brings any back until the last is sent.
MayMakeBeside == bands.made < Most

\* The next band of the piece's rows: one that came back, a new one, or a wait
\* that only a transform thread that is gone ends.
MayMake  == bands.made < Most \/ xf = "after"
Waits    == dec.st = "run" /\ dec.sent < dec.done /\ bands.back = 0 /\ ~MayMake
HandOver ==
    /\ dec.st = "run" /\ dec.sent < dec.done /\ ~Waits
    /\ LET end == Min({dec.sent + BandRows, dec.done})
       IN  /\ bands' = [made |-> IF bands.back > 0 THEN bands.made ELSE bands.made + 1,
                        back |-> IF bands.back > 0 THEN bands.back - 1 ELSE 0,
                        todo |-> IF xf = "gone" THEN bands.todo
                                 ELSE Append(bands.todo, <<dec.sent, end>>)]
           /\ dec' = [dec EXCEPT !.sent = end]
    /\ UNCHANGED <<frame, plane, rows, xf, unfiltered, dstUsed, result>>
HungUp ==
    /\ Waits /\ xf = "gone" /\ dec' = [dec EXCEPT !.st = "bad"]
    /\ UNCHANGED <<frame, plane, rows, bands, xf, unfiltered, dstUsed, result>>

\* The transform thread: a band in order, and back.  After an error it only
\* sends them back.
TransformBand ==
    /\ bands.todo # <<>>
    /\ xf = "beside" \/ (xf = "after" /\ dec.st \in {"ok", "bad"})
    /\ LET b == Head(bands.todo)
       IN  IF rows.ok THEN TakeRows(Taken(b[1], b[2])) ELSE UNCHANGED <<plane, rows>>
    /\ bands' = [bands EXCEPT !.todo = Tail(@), !.back = @ + 1]
    /\ UNCHANGED <<frame, dec, xf, unfiltered, dstUsed, result>>
Panic ==
    /\ frame.panics /\ bands.todo # <<>> /\ xf = "beside" /\ xf' = "gone"
    /\ bands' = [bands EXCEPT !.todo = <<>>]
    /\ UNCHANGED <<frame, plane, rows, dec, unfiltered, dstUsed, result>>

\* join(): a panic is passed on; the decoder's error is before the transforms'.
Join ==
    /\ dec.st \in {"ok", "bad"} /\ bands.todo = <<>>
    /\ LET ok == dec.st = "ok" /\ rows.ok
       IN  /\ dstUsed' = (ok /\ xf # "gone")
           /\ unfiltered' = (ok /\ xf # "gone" /\ frame.filter # "none")
           /\ result' = IF xf = "gone" THEN "panic" ELSE ResultOf(ok)
    /\ dec' = [dec EXCEPT !.st = "joined"]
    /\ UNCHANGED <<frame, plane, rows, bands, xf>>

\* The buffers are those of the frame decoded here before, but the plane, which
\* alpha_plane_reserve() clears.
InitOf(f) ==
    LET row(v) == [x \in 0..f.w - 1 |-> v]
    IN  /\ frame = f
        /\ plane = [y \in 0..f.h - 1 |-> row(0)]
        /\ rows = [green |-> [s \in 0..1 |-> row(3)], scratch |-> row(<<2, 1>>), rest |-> 0,
                   byGreen |-> GreenAlpha(f.list), ok |-> TRUE]
        /\ bands = [made |-> 0, todo |-> <<>>, back |-> 0]
        /\ dec = [st |-> "idle", done |-> 0, sent |-> 0]
        /\ xf = "none" /\ unfiltered = FALSE /\ dstUsed = FALSE /\ result = "none"
Init == \E f \in Frames : InitOf(f)

Next == \/ Raw \/ Indexed \/ Whole \/ Begin \/ DecodePiece \/ HandOver \/ HungUp
        \/ TransformBand \/ Panic \/ Join

Spec == Init /\ [][Next]_vars /\ WF_vars(Next)

---------------------------------------------------------------------------
(* What the chunk holds: every transform undone over the whole image, the
   green of it, and the filter undone over that *)

FullImage(f) ==
    LET pixels == {<<x, y>> : x \in 0..f.w - 1, y \in 0..f.h - 1}
        predicted(im) ==
            LET p[q \in 0..f.w * f.h - 1] ==
                    LET x == q % f.w  y == q \div f.w
                    IN  Add(im[x, y],
                            IF q = 0 THEN Black
                            ELSE IF y = 0 THEN p[q - 1]
                            ELSE IF x = 0 THEN p[q - f.w]
                            ELSE Predicted(f.modes[x \div 2][y \div 2], Black, p[q - 1],
                                           p[q - f.w], p[q - f.w - 1], p[q - f.w + 1]))
            IN  [xy \in pixels |-> p[xy[2] * f.w + xy[1]]]
        undo(im, t) == CASE t = "predictor" -> predicted(im)
                         [] t = "color" -> [xy \in pixels |-> Recolor(im[xy], xy[1])]
                         [] t = "green" -> [xy \in pixels |-> AddGreen(im[xy])]
                         [] OTHER -> [xy \in pixels |-> Palette(im[xy])]
    IN  FoldLeft(undo, [xy \in pixels |-> f.px[xy[2]][xy[1]]], Reverse(f.list))

RightPlane(f) ==
    LET im == FullImage(f)
        v[q \in 0..f.w * f.h - 1] ==
            LET x == q % f.w  y == q \div f.w
                left  == IF x = 0 THEN 0 ELSE v[q - 1]
                above == IF y = 0 THEN 0 ELSE v[q - f.w]
                corner == IF x = 0 \/ y = 0 THEN 0 ELSE v[q - f.w - 1]
                add == IF f.filter = "none" THEN 0
                       ELSE IF y = 0 THEN left
                       ELSE IF x = 0 \/ f.filter = "vertical" THEN above
                       ELSE IF f.filter = "horizontal" THEN left
                       ELSE Clamp(left + above - corner)
            IN  (im[x, y][1] + add) % G
    IN  [y \in 0..f.h - 1 |-> [x \in 0..f.w - 1 |-> v[y * f.w + x]]]
Sound(f) == /\ f.badAt = f.h /\ ~f.short
            /\ "predictor" \in Range(f.list) =>
                  \A y \in 1..f.h - 1 : \A x \in 1..f.w - 1 : f.modes[x \div 2][y \div 2] # "none"
Expected == [f \in Frames |-> IF Sound(f) THEN RightPlane(f) ELSE <<>>]

\* The plane of a frame that decodes is what its chunk holds, filtered back
\* exactly once, whichever way it was decoded and wherever green could no
\* longer be predicted alone; a frame fails exactly when it is damaged, the
\* colour planes deciding first; and the bands out stay within their number
\* while the transforms run beside.
AlphaAsCoded ==
    /\ result = "ok" => Sound(frame) /\ frame.colourOk /\ plane = Expected[frame]
    /\ result = "alpha" => ~Sound(frame) /\ frame.colourOk
    /\ result = "colour" => ~frame.colourOk
    /\ result = "panic" => frame.panics
    /\ xf = "beside" => bands.made <= Most
    /\ bands.made = bands.back + Len(bands.todo) \/ xf = "gone"

\* The decoder waiting for a band never waits for good: one is with the
\* transforms, which send it back, or they are gone, which ends the wait.
WaitEnds == Waits => (xf = "beside" /\ bands.todo # <<>>) \/ xf = "gone"
=============================================================================
