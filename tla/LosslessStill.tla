---------------------------- MODULE LosslessStill ----------------------------
(***************************************************************************)
(* A lossless still: still_step(), still_peek(), decode_frame() and the    *)
(* two-thread pipeline of src/vp8l/mod.rs, as next_picture() and           *)
(* partial_picture() of src/driver/mod.rs call them while the chunk is     *)
(* still arriving and once it is there.                                    *)
(*                                                                         *)
(* The entropy decoder stops at the first symbol that runs past the data   *)
(* and goes on from there when there is more.  Its pixels are residuals:   *)
(* backward references and the colour cache read them as coded, so the     *)
(* inverse transforms either wait for the whole image and run in place, or *)
(* run behind the decoder on a copy, a batch of rows at a time, with the   *)
(* last predicted row carried from one batch to the next.                  *)
(*                                                                         *)
(* A pixel is a number below M.  A transform is any function of what it    *)
(* reads: the predictor of the pixels left, above and above to the right,  *)
(* the colour transform of the pixel and its tile, the palette of the      *)
(* digits packed in a pixel.                                               *)
(***************************************************************************)
EXTENDS Integers, SequencesExt

CONSTANTS
    Images,         \* the stills decoded, see ImagesAssumption
    ThreadCounts,   \* the threads option
    RowBatch,       \* ROW_BATCH
    FirstTry,       \* the least bytes a first attempt needs
    FastMargin,     \* FAST_MARGIN
    TailMargin,     \* TAIL_MARGIN
    PipelinePieces, \* PIPELINE_PIECES
    MinStep,        \* PIPELINE_MIN_STEP
    MaxRewinds,     \* bound: the times the file is decoded again
    MaxErrors       \* bound: the failed calls

M == 5

\* header: the bytes of the frame header.  symbols: what codes the pixels, with
\* `at` the payload's bytes read once each is.  cache: the entries of the
\* colour cache.  groups: the prefix code groups, by tiles of two by two.
\* packed: the coded width, less than w when the palette packs pixels.
\* badMode: the row with a predictor that does not exist, or h.
ImagesAssumption ==
    \A i \in Images :
        /\ i.w \in Nat \ {0} /\ i.h \in Nat \ {0} /\ i.packed \in 1..i.w
        /\ i.packed = IF "palette" \in Range(i.transforms) THEN (i.w + 1) \div 2 ELSE i.w
        /\ i.header \in Nat \ {0} /\ i.size \in Nat /\ i.badMode \in 1..i.h
        /\ i.cache \in Nat /\ i.groups \in 1..2
        /\ \A k \in 1..Len(i.symbols) :
              i.symbols[k].at >= IF k = 1 THEN i.header ELSE i.symbols[k - 1].at

BoundsAssumption ==
    /\ ThreadCounts \subseteq Nat \ {0} /\ RowBatch \in Nat \ {0}
    /\ MinStep \in Nat \ {0} /\ PipelinePieces \in Nat \ {0}
    /\ {FirstTry, FastMargin, TailMargin, MaxRewinds, MaxErrors} \subseteq Nat

VARIABLES
    img, threads,       \* the file and the option
    avail, whole,       \* the bytes that have arrived, and whether all have
    active, nextTry,    \* Decoder.active and next_try
    resume,             \* Resume and gb: symbols read, pos, cached, x, y, hg
    cache,              \* color_cache
    argb, stride,       \* the coded pixels, and how far apart their rows are
    out, scratch,       \* the copy, by rows, and the last row predicted there
    rowsOut, peeked,    \* rows_out and peeked
    shows,              \* lossless_out: "none", "still" or "argb"
    pipe,               \* the two threads of pipeline(), or NoPipe
    passed,             \* the chunk is behind the read position
    status,             \* what the last call said: "open", "done", "failed"
    rewinds, errors

decoderVars == <<active, nextTry, resume, cache, argb, stride, out, scratch,
                 rowsOut, peeked, shows, pipe, passed, status, errors>>
vars == <<img, threads, avail, whole, rewinds, decoderVars>>

NoPipe == <<>>
Fresh  == [k |-> 0, pos |-> 0, cached |-> 0, x |-> 0, y |-> 0, hg |-> 0]
Total  == img.packed * img.h

\* The bytes read before symbol k, and the entries of a cleared colour cache.
Starts(k)  == IF k = 1 THEN img.header ELSE img.symbols[k - 1].at
EmptyCache == [s \in 0..img.cache - 1 |-> 0]

---------------------------------------------------------------------------
(* The entropy decoder *)

\* GroupMap::at(), and where the loops look a group up: at the first pixel of
\* a tile, and never when there is one group.
GroupAt(x, y) == IF img.groups = 1 THEN 0 ELSE ((x \div 2) + (y \div 2)) % 2
AtTile(x)     == img.groups > 1 /\ x % 2 = 0
Regroup(d)    == [d EXCEPT !.hg = GroupAt(d.x, d.y)]
Tiled(d)      == IF AtTile(d.x) THEN Regroup(d) ELSE d

\* A code read with another group's tables gives another pixel.
Literal(d, v) == IF d.hg = GroupAt(d.x, d.y) THEN v ELSE (v + 1) % M

Move(d, n) == [d EXCEPT !.pos = @ + n,
                        !.x = (d.x + n) % img.packed,
                        !.y = @ + (d.x + n) \div img.packed]
Put(d, p)  == Move([d EXCEPT !.px[d.pos] = p], 1)

\* cache_fill(): the pixels from `from` on, the last of a slot staying.
FillFrom(d, from) ==
    LET of(s) == {p \in from..d.pos - 1 : d.px[p] % img.cache = s}
    IN  [d EXCEPT !.cached = d.pos,
                  !.cache = [s \in DOMAIN @ |->
                                IF of(s) = {} THEN @[s] ELSE d.px[Max(of(s))]]]
Fill(d) == IF img.cache = 0 THEN d ELSE FillFrom(d, d.cached)

\* backward_reference() and copy_block().
Reaches(d, s) == s.v <= d.pos /\ s.len <= Total - d.pos
Copy(d, s) ==
    Move([d EXCEPT !.px = [p \in DOMAIN @ |->
             IF p \in d.pos..d.pos + s.len - 1
             THEN d.px[d.pos - s.v + ((p - d.pos) % s.v)] ELSE @[p]]], s.len)
Regrouped(d) == IF img.groups > 1 /\ ~AtTile(d.x) THEN Regroup(d) ELSE d

\* A symbol of the bulk of the stream: the cache takes each pixel as it is
\* made, and of a copy that repeats itself the last repetition.
FillLast(d, n) == IF img.cache = 0 THEN d ELSE FillFrom(d, d.pos - n)
FastSymbol(d, s) ==
    CASE s.kind = "literal" -> Fill(Put(d, Literal(d, s.v)))
      [] s.kind = "copy" ->
            IF Reaches(d, s) THEN FillLast(Regrouped(Copy(d, s)), Min({s.len, s.v}))
            ELSE [d EXCEPT !.st = "bad"]
      [] OTHER -> IF img.cache = 0 THEN [d EXCEPT !.st = "bad"] ELSE Fill(Put(d, d.cache[s.v]))

\* A symbol near the end: the cache takes the pixels of a whole row, or when
\* the next lookup needs them.
FillAtRow(d)     == IF d.x = 0 THEN Fill(d) ELSE d
PutCached(d, s)  == Put(d, d.cache[s])
SlowSymbol(d, s) ==
    CASE s.kind = "literal" -> FillAtRow(Put(d, Literal(d, s.v)))
      [] s.kind = "copy" -> IF Reaches(d, s) THEN Fill(Regrouped(Copy(d, s)))
                            ELSE [d EXCEPT !.st = "bad"]
      [] OTHER -> IF img.cache = 0 THEN [d EXCEPT !.st = "bad"] ELSE PutCached(Fill(d), s.v)

\* A symbol that runs past the data was not one.  Only near the end is it looked
\* for; the group found for it stays.
Past(d, k, end) == img.symbols[k].at > end
Near(d, k, end) == end - Starts(k) <= TailMargin
\* A stop that takes the symbol cut short as read.
SuspendedBehind(d) ==
    [Tiled(d) EXCEPT !.st = "more", !.k = @ + 1]

Suspended(d)    == [Tiled(d) EXCEPT !.st = "more"]

Symbol(d, k, end, resumable) ==
    LET s == img.symbols[k]
        fast == d.fast /\ Starts(k) + FastMargin <= end
        to == Tiled([d EXCEPT !.fast = fast, !.k = k])
    IN  IF d.st # "run" \/ d.pos >= Total THEN d
        ELSE IF fast THEN FastSymbol(to, s)
        ELSE IF ~resumable /\ Past(d, k, end) THEN [d EXCEPT !.st = "bad"]
        ELSE IF Past(d, k, end) /\ Near(d, k, end) THEN Suspended(d)
        ELSE SlowSymbol(to, IF Past(d, k, end) THEN [s EXCEPT !.kind = "literal", !.v = 0] ELSE s)

\* decode_pixels(): as far as the first `end` bytes go.
Ended(d) == IF d.st = "run" THEN [d EXCEPT !.st = "done"] ELSE d
DecodePixels(r, px, c, end, resumable) ==
    LET from == r @@ [px |-> px, cache |-> c, st |-> "run", fast |-> TRUE]
        next == r.k + 1
        fast == next <= Len(img.symbols) /\ Starts(next) + FastMargin <= end
    IN  Ended(FoldLeft(LAMBDA e, k : Symbol(e, k, end, resumable),
                       IF fast THEN Fill(from) ELSE from,
                       [i \in 1..Len(img.symbols) - r.k |-> r.k + i]))

ResumeOf(d) == [f \in DOMAIN Fresh |-> d[f]]

---------------------------------------------------------------------------
(* The inverse transforms *)

Pixels(w) == [0..img.h - 1 -> [0..w - 1 -> Nat]]
Rounded(rows) == rows - (rows % RowBatch)

\* predictor_rows() and predict_batch(): the row above the first is the one
\* in scratch; the top right of the last pixel is the row's own first.
PredictRow(row, up, w) ==
    LET r[x \in 0..w - 1] ==
            IF x = 0 THEN (row[0] + up[0]) % M
            ELSE LET left == r[x - 1]
                     topRight == IF x = w - 1 THEN (row[0] + up[0]) % M ELSE up[x + 1]
                 IN  (row[x] + left + up[x] + 2 * topRight) % M
    IN  [x \in DOMAIN row |-> IF x < w THEN r[x] ELSE row[x]]
PredictFirst(row, w) ==
    LET r[x \in 0..w - 1] == IF x = 0 THEN (row[0] + 1) % M ELSE (row[x] + r[x - 1]) % M
    IN  [x \in DOMAIN row |-> IF x < w THEN r[x] ELSE row[x]]

Predict(b, y0, y1, w) ==
    LET step(a, y) ==
            LET row == IF y = 0 THEN PredictFirst(a.rows[0], w)
                                ELSE PredictRow(a.rows[y], a.up, w)
            IN  [a EXCEPT !.rows[y] = row, !.up = row]
        to == FoldLeft(step, [rows |-> b.rows, up |-> b.scratch],
                       [i \in 1..y1 - y0 |-> y0 + i - 1])
    IN  IF img.badMode \in y0..y1 - 1 THEN [b EXCEPT !.ok = FALSE]
        ELSE [b EXCEPT !.rows = to.rows, !.scratch = to.up]

EachPixel(b, y0, y1, w, F(_, _, _)) ==
    [b EXCEPT !.rows = [y \in DOMAIN @ |-> [x \in DOMAIN @[y] |->
        IF y \in y0..y1 - 1 /\ x < w THEN F(@[y][x], x, y) ELSE @[y][x]]]]

Recolor(p, x, y) == (p + 2 * ((x \div 2) + (y \div 2))) % M
AddGreen(p, x, y) == (2 * p) % M
\* Two pixels to a byte, the first in the low digit.
PaletteEntry(packed, x) == 3 - ((packed \div (IF x % 2 = 0 THEN 1 ELSE 2)) % 2)
Expand(b, y0, y1) ==
    [b EXCEPT !.rows = [y \in DOMAIN @ |-> [x \in DOMAIN @[y] |->
        IF y \in y0..y1 - 1 THEN PaletteEntry(@[y][x \div 2], x) ELSE @[y][x]]]]

\* Inverse::rows() and apply_transform_batches(): the list backwards over rows
\* y0..y1; what a later transform needs of the row above is kept in scratch.
Undo(rows, scr, y0, y1) ==
    LET palette == "palette" \in Range(img.transforms)
        w(i) == IF \E j \in i + 1..Len(img.transforms) : img.transforms[j] = "palette"
                THEN img.w ELSE img.packed
        one(b, i) ==
            LET t == img.transforms[i]
            IN  IF ~b.ok THEN b
                ELSE CASE t = "predictor" -> Predict(b, y0, y1, w(i))
                       [] t = "color" -> EachPixel(b, y0, y1, w(i), Recolor)
                       [] t = "green" -> EachPixel(b, y0, y1, w(i), AddGreen)
                       [] OTHER -> Expand(b, y0, y1)
    IN  FoldLeft(one, [rows |-> rows, scratch |-> scr, ok |-> TRUE],
                 Reverse([i \in 1..Len(img.transforms) |-> i]))

\* The rows of the coded pixels, and of the picture they become in place.
RowsAt(px, step) == [y \in 0..img.h - 1 |-> [x \in 0..img.w - 1 |->
                        IF x < step THEN px[y * step + x] ELSE 0]]
Flat(rows) == [p \in 0..img.w * img.h - 1 |-> rows[p \div img.w][p % img.w]]

\* copy_packed_rows() and transform_rows().  A batch that fails is left half done.
CopyPacked(rows, px, y0, y1) ==
    [y \in DOMAIN rows |-> [x \in DOMAIN rows[y] |->
        IF y \in y0..y1 - 1 /\ x < img.packed THEN px[y * img.packed + x] ELSE rows[y][x]]]
TransformRows(rows, scr, px, y0, y1) ==
    IF y0 >= y1 THEN [rows |-> rows, scratch |-> scr, ok |-> TRUE]
    ELSE Undo(CopyPacked(rows, px, y0, y1), scr, y0, y1)

\* apply_transforms(): in place, one after the other over the whole image when
\* there is a palette or one transform, and otherwise batch by batch.
ApplyTransforms(px, scr) ==
    LET all == RowsAt(px, img.packed)
        batched == Len(img.transforms) > 1 /\ "palette" \notin Range(img.transforms)
        batch(b, n) == IF ~b.ok THEN b
                       ELSE Undo(b.rows, b.scratch, n * RowBatch,
                                 Min({(n + 1) * RowBatch, img.h}))
    IN  IF batched
        THEN FoldLeft(batch, [rows |-> all, scratch |-> scr, ok |-> TRUE],
                      [n \in 1..(img.h + RowBatch - 1) \div RowBatch |-> n - 1])
        ELSE Undo(all, scr, 0, img.h)

---------------------------------------------------------------------------
(* The calls *)

Keep(d)       == resume' = ResumeOf(d) /\ cache' = d.cache
Coding(px)    == [p \in 0..img.w * img.h - 1 |-> IF p \in DOMAIN px THEN px[p] ELSE 0]
\* An end that leaves the rows as far apart as they were coded.
AbandonedAsItIs == active' = FALSE /\ UNCHANGED stride /\ status' = "failed" /\ errors' = errors + 1

Abandoned     == active' = FALSE /\ stride' = img.w /\ status' = "failed" /\ errors' = errors + 1
Finished      == active' = FALSE /\ stride' = img.w /\ status' = "done" /\ UNCHANGED errors
GoesOn        == active' = TRUE /\ stride' = img.packed /\ status' = "open" /\ UNCHANGED errors
CanCall       == pipe = NoPipe /\ ~passed /\ status # "done" /\ errors < MaxErrors

\* pipelines(), of an image taken to be large enough.
Pipelines == threads > 1 /\ {"predictor", "color"} \cap Range(img.transforms) # {}

\* still_rows(): decode on, and when someone has looked transform behind; else
\* the whole image once it is there.  An error is the end of the image.
\* Of the decoder's end d, the rows transformed behind it and the whole image.
RowsDone(d) == IF d.st = "more" THEN Rounded(d.y) ELSE d.y
StillTo(d, xf, all, complete) ==
    LET rows == RowsDone(d)
        pk   == active /\ peeked
        ro   == IF active THEN rowsOut ELSE 0
        inPlace == d.st = "done" /\ ~pk
        bad  == d.st = "bad" \/ (d.st = "more" /\ complete)
        ok   == ~bad /\ xf.ok
    IN  /\ peeked' = pk
        /\ Keep(d)
        /\ out' = IF bad THEN out ELSE xf.rows
        /\ argb' = IF ok /\ inPlace THEN Flat(all.rows) ELSE Coding(d.px)
        /\ scratch' = IF ok /\ inPlace THEN all.scratch
                      ELSE IF bad THEN scratch ELSE xf.scratch
        /\ rowsOut' = IF ok /\ pk THEN Max({ro, rows}) ELSE ro
        /\ IF ~ok \/ (inPlace /\ ~all.ok) THEN Abandoned
           ELSE IF d.st = "done" THEN Finished ELSE GoesOn
StillAt(d, complete) ==
    StillTo(d, IF active /\ peeked THEN TransformRows(out, scratch, d.px, rowsOut, RowsDone(d))
               ELSE [rows |-> out, scratch |-> scratch, ok |-> TRUE],
            ApplyTransforms(d.px, scratch), complete)
StillRows(r, px, c, complete) == StillAt(DecodePixels(r, px, c, avail, TRUE), complete)

Coded == [p \in 0..Total - 1 |-> argb[p]]
First == Max({img.size \div 16, FirstTry})

\* next_picture() and lossless_step() before the chunk is whole: nothing until
\* there is enough to try, then the header, then the pixels there are.
Step ==
    /\ CanCall /\ ~whole
    /\ UNCHANGED <<img, threads, avail, whole, rewinds, pipe, passed>>
    /\ IF active
       THEN StillRows(resume, Coded, cache, FALSE) /\ shows' = "still" /\ UNCHANGED nextTry
       ELSE IF avail < First \/ avail < nextTry
       THEN status' = "open" /\ UNCHANGED <<active, nextTry, resume, cache, argb, stride,
                                            out, scratch, rowsOut, peeked, shows, errors>>
       ELSE IF avail < img.header
       THEN /\ status' = "open" /\ nextTry' = 2 * avail
            /\ UNCHANGED <<active, resume, cache, argb, stride, out, scratch,
                           rowsOut, peeked, shows, errors>>
       ELSE /\ StillRows(Fresh, Coded, EmptyCache, FALSE)
            /\ shows' = IF status' = "failed" THEN shows ELSE "still"
            /\ UNCHANGED nextTry

\* The call that finds the chunk whole, with a still begun.
Finish ==
    /\ CanCall /\ whole /\ active /\ ~Pipelines
    /\ StillRows(resume, Coded, cache, TRUE)
    /\ shows' = "still" /\ passed' = TRUE
    /\ UNCHANGED <<img, threads, avail, whole, rewinds, pipe, nextTry>>

\* decode_frame(): the whole chunk at once, transformed in place.
FrameTo(d, all) ==
    /\ cache' = d.cache
    /\ IF d.st = "done" /\ all.ok
       THEN Finished /\ argb' = Flat(all.rows) /\ scratch' = all.scratch /\ shows' = "argb"
       ELSE Abandoned /\ argb' = Coding(d.px) /\ UNCHANGED <<scratch, shows>>
FrameAt(d) == FrameTo(d, ApplyTransforms(d.px, scratch))
DecodeFrame ==
    /\ CanCall /\ whole /\ ~active /\ ~Pipelines
    /\ FrameAt(DecodePixels(Fresh, Coded, EmptyCache, avail, FALSE))
    /\ UNCHANGED resume
    /\ passed' = TRUE
    /\ UNCHANGED <<img, threads, avail, whole, rewinds, pipe, nextTry, out, rowsOut, peeked>>

\* still_peek(): partial_picture() has a still begun transformed as far as it
\* goes.  A predictor that does not exist fails the call, not yet the still.
Peek ==
    /\ pipe = NoPipe /\ active
    /\ \E xf \in {TransformRows(out, scratch, Coded, rowsOut, Rounded(resume.y))} :
          /\ out' = xf.rows /\ scratch' = xf.scratch
          /\ rowsOut' = IF xf.ok THEN Max({rowsOut, Rounded(resume.y)}) ELSE rowsOut
    /\ peeked' = TRUE
    /\ UNCHANGED <<img, threads, avail, whole, active, nextTry, resume, cache, argb,
                   stride, shows, pipe, passed, status, rewinds, errors>>

---------------------------------------------------------------------------
(* Two threads: one decodes over growing prefixes, one transforms the rows *)

\* still_rows_pipelined() and decode_frame_inner() into pipeline().  Without a
\* thread to spare the transforms wait for the decoder to be done.
StartPipeline ==
    /\ CanCall /\ whole /\ Pipelines
    /\ peeked' = (active \/ peeked)
    /\ resume' = IF active THEN resume ELSE Fresh
    /\ cache' = IF active THEN cache ELSE EmptyCache
    /\ stride' = img.packed /\ passed' = TRUE
    /\ \E beside \in BOOLEAN :
          pipe' = [still |-> active, beside |-> beside, sent |-> IF active THEN rowsOut ELSE 0,
                   from |-> Starts(resume'.k + 1), end |-> Starts(resume'.k + 1),
                   bands |-> <<>>, failed |-> FALSE, dec |-> "run", xf |-> TRUE]
    /\ UNCHANGED <<img, threads, avail, whole, active, nextTry, argb, out, scratch,
                   rowsOut, shows, status, rewinds, errors>>

\* A turn of the loop of Pieces::decode().
PieceEnd == LET step == Min({Max({(avail - pipe.from) \div PipelinePieces, MinStep}),
                            Max({(avail - pipe.end) \div 4, MinStep})})
            IN  Min({pipe.end + step, avail})
PieceTo(d, end) ==
    LET bad  == d.st = "bad" \/ (d.st = "more" /\ end = avail)
        none == bad \/ d.y <= pipe.sent
    IN  /\ argb' = Coding(d.px) /\ Keep(d)
        /\ out' = IF none THEN out ELSE CopyPacked(out, d.px, pipe.sent, d.y)
        /\ pipe' = [pipe EXCEPT
              !.end = end,
              !.dec = IF bad THEN "bad" ELSE IF d.st = "done" THEN "ok" ELSE "run",
              !.bands = IF none THEN @ ELSE Append(@, <<pipe.sent, d.y>>),
              !.sent = IF bad THEN @ ELSE Max({@, d.y})]
DecodePiece ==
    /\ pipe # NoPipe /\ pipe.dec = "run"
    /\ IF pipe.failed
       THEN pipe' = [pipe EXCEPT !.dec = "ok"] /\ UNCHANGED <<resume, cache, argb, out>>
       ELSE PieceTo(DecodePixels(resume, Coded, cache, PieceEnd, TRUE), PieceEnd)
    /\ UNCHANGED <<img, threads, avail, whole, active, nextTry, stride, scratch,
                   rowsOut, peeked, shows, passed, status, rewinds, errors>>

\* The other thread takes the rows in order; after an error it only drains them.
TransformBand ==
    /\ pipe # NoPipe /\ pipe.bands # <<>> /\ (pipe.beside \/ pipe.dec # "run")
    /\ \E xf \in {Undo(out, scratch, Head(pipe.bands)[1], Head(pipe.bands)[2])} :
           /\ IF pipe.xf THEN out' = xf.rows /\ scratch' = xf.scratch
                         ELSE UNCHANGED <<out, scratch>>
           /\ pipe' = [pipe EXCEPT !.bands = Tail(@), !.xf = pipe.xf /\ xf.ok,
                                   !.failed = ~(pipe.xf /\ xf.ok)]
    /\ UNCHANGED <<img, threads, avail, whole, active, nextTry, resume, cache, argb,
                   stride, rowsOut, peeked, shows, passed, status, rewinds, errors>>

\* The join: the decoder's error before the transforms'.  A whole frame's copy
\* takes the place of the pixels it came from.
JoinPipeline ==
    /\ pipe # NoPipe /\ pipe.dec # "run" /\ pipe.bands = <<>>
    /\ pipe' = NoPipe
    /\ IF pipe.dec = "bad" \/ ~pipe.xf
       THEN Abandoned /\ UNCHANGED <<argb, out, rowsOut>>
       ELSE /\ Finished
            /\ IF pipe.still THEN rowsOut' = pipe.sent /\ UNCHANGED <<argb, out>>
               ELSE argb' = Flat(out) /\ out' = RowsAt(argb, img.w) /\ UNCHANGED rowsOut
    /\ shows' = IF pipe.still THEN "still" ELSE IF status' = "done" THEN "argb" ELSE shows
    /\ UNCHANGED <<img, threads, avail, whole, nextTry, resume, cache, scratch, peeked,
                   passed, rewinds>>

---------------------------------------------------------------------------
(* The file *)

\* The chunk is whole when the byte that pads it is there too.
Arrive ==
    /\ pipe = NoPipe /\ status # "done" /\ ~whole
    /\ IF avail < img.size THEN avail' \in avail + 1..img.size /\ UNCHANGED whole
                           ELSE whole' = TRUE /\ UNCHANGED avail
    /\ UNCHANGED <<img, threads, rewinds, decoderVars>>

\* wpd_rewind(): Decoder::reset() of the still, whose pictures stay as they are.
Rewind ==
    /\ pipe = NoPipe /\ rewinds < MaxRewinds
    /\ rewinds' = rewinds + 1
    /\ active' = FALSE /\ nextTry' = 0 /\ peeked' = FALSE /\ rowsOut' = 0
    /\ resume' = Fresh /\ shows' = "none" /\ passed' = FALSE /\ status' = "open"
    /\ UNCHANGED <<img, threads, avail, whole, cache, argb, stride, out, scratch, pipe, errors>>

InitOf(i, t) ==
    /\ img = i /\ threads = t /\ avail = 0 /\ whole = FALSE
    /\ active = FALSE /\ nextTry = 0 /\ resume = Fresh /\ cache = EmptyCache
    /\ argb = [p \in 0..i.w * i.h - 1 |-> 0] /\ stride = i.w
    /\ out = RowsAt(argb, i.w) /\ scratch = [x \in 0..i.w - 1 |-> 0]
    /\ rowsOut = 0 /\ peeked = FALSE /\ shows = "none" /\ pipe = NoPipe
    /\ passed = FALSE /\ status = "open" /\ rewinds = 0 /\ errors = 0
Init == \E i \in Images, t \in ThreadCounts : InitOf(i, t)

Next == \/ Arrive \/ Step \/ Finish \/ DecodeFrame \/ Peek \/ Rewind
        \/ StartPipeline \/ DecodePiece \/ TransformBand \/ JoinPipeline

Spec == Init /\ [][Next]_vars

---------------------------------------------------------------------------
(* What the file holds, symbol by symbol and transform by transform *)

\* The pixels as coded, and whether the symbols make a whole image: a cache
\* entry is the last pixel before with that slot.
CodedImage(i) ==
    LET n == i.packed * i.h
        latest(px, s) == LET at == {p \in 1..Len(px) : px[p] % i.cache = s}
                         IN  IF at = {} THEN 0 ELSE px[Max(at)]
        repeat(px, s) == [p \in 1..Len(px) + s.len |->
                             IF p <= Len(px) THEN px[p]
                             ELSE px[Len(px) - s.v + 1 + ((p - Len(px) - 1) % s.v)]]
        add(a, s) ==
            IF ~a.ok \/ Len(a.px) = n THEN a
            ELSE IF s.at > i.size THEN [a EXCEPT !.ok = FALSE]
            ELSE CASE s.kind = "literal" -> [a EXCEPT !.px = Append(@, s.v)]
                   [] s.kind = "slot" -> IF i.cache = 0 THEN [a EXCEPT !.ok = FALSE]
                                         ELSE [a EXCEPT !.px = Append(@, latest(@, s.v))]
                   [] OTHER -> IF s.v > Len(a.px) \/ s.len > n - Len(a.px)
                               THEN [a EXCEPT !.ok = FALSE]
                               ELSE [a EXCEPT !.px = repeat(@, s)]
    IN  FoldLeft(add, [px |-> <<>>, ok |-> TRUE], i.symbols)

\* The picture: every transform undone over all the rows there are.
Undone(px, i) ==
    LET rows == Len(px) \div i.packed
        row(y) == [x \in 0..i.w - 1 |-> IF x < i.packed THEN px[y * i.packed + x + 1] ELSE 0]
        wide(t) == IF \E j \in t + 1..Len(i.transforms) : i.transforms[j] = "palette"
                   THEN i.w ELSE i.packed
        predicted(im, w) ==
            LET p[q \in 0..rows * w - 1] ==
                    LET x == q % w  y == q \div w  res == im[y][x]
                    IN  IF q = 0 THEN (res + 1) % M
                        ELSE IF y = 0 THEN (res + p[q - 1]) % M
                        ELSE IF x = 0 THEN (res + p[q - w]) % M
                        ELSE (res + p[q - 1] + p[q - w] + 2 * p[q - w + 1]) % M
            IN  [y \in DOMAIN im |-> [x \in DOMAIN im[y] |->
                    IF x < w THEN p[y * w + x] ELSE im[y][x]]]
        undo(im, t) ==
            CASE i.transforms[t] = "predictor" -> predicted(im, wide(t))
              [] i.transforms[t] = "color" ->
                    [y \in DOMAIN im |-> [x \in DOMAIN im[y] |->
                        IF x < wide(t) THEN Recolor(im[y][x], x, y) ELSE im[y][x]]]
              [] i.transforms[t] = "green" ->
                    [y \in DOMAIN im |-> [x \in DOMAIN im[y] |->
                        IF x < wide(t) THEN AddGreen(im[y][x], x, y) ELSE im[y][x]]]
              [] OTHER -> [y \in DOMAIN im |-> [x \in DOMAIN im[y] |->
                              PaletteEntry(im[y][x \div 2], x)]]
    IN  FoldLeft(undo, [y \in 0..rows - 1 |-> row(y)],
                 Reverse([t \in 1..Len(i.transforms) |-> t]))

RightOf(i) ==
    LET c == CodedImage(i)
    IN  [ok |-> c.ok /\ Len(c.px) = i.packed * i.h
                /\ ~("predictor" \in Range(i.transforms) /\ i.badMode < i.h),
         rows |-> Undone(c.px, i)]


Right == [i \in Images |-> RightOf(i)]
Picture == IF shows = "still" /\ peeked THEN out ELSE RowsAt(argb, img.w)

\* However the file arrives, whoever looks in between, and on however many
\* threads: a still that is done is the picture the file holds, one that fails
\* holds none, the rows a look was given are final, and a picture not being
\* decoded has its rows its width apart (still_abandon()'s promise).
StillAsWhole ==
    /\ status = "done" => Right[img].ok /\ Picture = Right[img].rows
    /\ status = "failed" => ~Right[img].ok
    /\ \A y \in 0..rowsOut - 1 : pipe = NoPipe /\ peeked => out[y] = Right[img].rows[y]
    /\ shows # "none" /\ ~active /\ pipe = NoPipe => stride = img.w
=============================================================================
