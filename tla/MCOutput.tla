------------------------------ MODULE MCOutput ------------------------------
(***************************************************************************)
(* What becomes of decoded rows: rows handed out while more arrive, frames *)
(* composed on a canvas, pictures scaled, converted and exported, and the  *)
(* C handle that lends the memory they go to.  A behaviour is one part's:  *)
(* `part` says which.  The handle has its own variables, and the slots v1  *)
(* to v11 stand for those of any other part.  A part that is a calculation *)
(* takes no step: v1 is the case looked at.                                *)
(***************************************************************************)
EXTENDS Handle, Sequences

VARIABLES part, v1, v2, v3, v4, v5, v6, v7, v8, v9, v10, v11

\* The slots behind a part's own, which it leaves alone.
behind6 == <<v7, v8, v9, v10, v11>>
behind3 == <<v4, v5, v6, behind6>>
slots   == <<v1, v2, v3, behind3>>

Idle6 == v7 = 0 /\ v8 = 0 /\ v9 = 0 /\ v10 = 0 /\ v11 = 0
Idle3 == v4 = 0 /\ v5 = 0 /\ v6 = 0 /\ Idle6
Idle1 == v2 = 0 /\ v3 = 0 /\ Idle3

---------------------------------------------------------------------------
(* Stills handed out while they arrive, of every kind and sampling, and one *)
(* that is cropped.  A lossless one that fails is PartialShown's.           *)

OutputStills ==
    [kind : {"lossy"}, height : {7, 8}, crop : {FALSE}, sampling : {"Fancy", "FastFancy", "Simple"}]
    \cup [kind : {"lossless", "lossy"}, height : {7}, crop : {TRUE}, sampling : {"Fancy"}]
    \cup [kind : {"lossless"}, height : {8}, crop : {FALSE}, sampling : {"Fancy"}]

Partial == INSTANCE PartialRows WITH
    still <- v1, rows <- v2, live <- v3, begun <- v4, failed <- v5, format <- v6, sink <- v7,
    conv <- v8, buf <- v9, told <- v10, changes <- v11,
    Stills <- OutputStills, Formats <- {"native", "yuva", "packed", "packed2"}, Strip <- 4,
    MayFail <- {"lossy"}, Switches <- FALSE, MaxChanges <- 2

\* Bands of four rows and more each, as split_bands() leaves them.
WindowCases ==
    {c \in [of : {"window"}, sampling : Partial!Samplings, h : 1..12, rows : {0, 2, 4}, m : 0..12, n : 1..2] :
        c.m <= c.h /\ (c.n = 1 \/ (c.m >= 4 * c.n /\ c.h - c.m >= 4 * c.n))}

---------------------------------------------------------------------------
(* A canvas of odd sides, frames at odd and even places on it, some cut off *)
(* at its edge, opaque, blended, disposed of, lossless.                     *)

Alpha(k, x, y) == LET n == (x + 2 * y + k) % 5
                  IN  IF k = 0 THEN "full" ELSE IF k = 4 THEN "part"
                      ELSE IF n < 2 THEN "full" ELSE IF n = 2 THEN "part" ELSE "none"
Frame(p, k, lossless, blend, dispose) ==
    [x |-> p[1], y |-> p[2], w |-> p[3], h |-> p[4], dw |-> p[5], dh |-> p[6], alpha |-> k # 0,
     lossless |-> lossless, blend |-> blend, dispose |-> dispose,
     seen |-> [q \in (0..p[3] - 1) \X (0..p[4] - 1) |-> Alpha(k, q[1], q[2])]]
Places == {<<0, 0, 5, 3, 5, 3>>, <<0, 0, 3, 2, 3, 2>>, <<2, 0, 3, 3, 3, 3>>, <<0, 0, 4, 3, 5, 3>>,
           <<2, 2, 2, 1, 3, 1>>}
CanvasFrames ==
    {Frame(p, k, FALSE, b, d) : p \in Places, k \in {0, 1, 4}, b \in BOOLEAN, d \in BOOLEAN}
    \cup {Frame(p, 3, TRUE, b, TRUE) : p \in Places, b \in BOOLEAN}

Composed == INSTANCE Canvas WITH
    canvas <- v1, anim <- v2, shown <- v3,
    CanvasWidth <- 5, CanvasHeight <- 3, MaxFrames <- 3,
    Outs <- {"planar", "premultiplied"}, Frames <- CanvasFrames

---------------------------------------------------------------------------
(* A C handle, its input and the planes lent to it, at places that overlap *)
(* and that do not, with strides of either sign.                           *)

At(from, to) == [from |-> from, to |-> to]
PlaneAt(data, size, stride) == [data |-> data, size |-> size, stride |-> stride]

LentInputs == {At(0, 3), At(4, 8), At(8, 14)}
LentPlanes == {PlaneAt(6, 4, 2), PlaneAt(10, 7, -3), PlaneAt(9, 2, 2)}
LentImages == {[len |-> 2, rows |-> 2], [len |-> 2, rows |-> 3]}

ASSUME LentMemory

---------------------------------------------------------------------------
(* Planes scaled up and down, of even samples and of uneven ones.          *)

Grey(w, h) == { [y \in 1..h |-> [x \in 1..w |-> 15]],
                [y \in 1..h |-> [x \in 1..w |-> (3 * x + 5 * y) % 16]],
                [y \in 1..h |-> [x \in 1..w |-> IF (x + y) % 2 = 0 THEN 15 ELSE 0]] }

Scaled == INSTANCE Rescale WITH
    job <- v1, r <- v2, irow <- v3, frow <- v4, y <- v5, out <- v6, Fix <- 16, Top <- 15

---------------------------------------------------------------------------
(* Pictures on their way out: each format, coding and kind of frame, under *)
(* the crops, scales and flips the decoder accepts, into a sink or not.    *)

Exported == INSTANCE Exports WITH MaxScaled <- 12
Px(a, c) == [a |-> a, c |-> c]
Clear  == <<Px(255, 255), Px(0, 0), Px(255, 0), Px(255, 100)>>
Tinted == <<Px(255, 200), Px(128, 200), Px(0, 0), Px(255, 255)>>
Solid  == <<Px(255, 255), Px(255, 10), Px(255, 0), Px(255, 100)>>
ExportCases ==
    {c \in [of : {"export"}, kind : {"still", "composite", "subframe"},
            coded : {"argb", "yuva420p", "yuv420p"}, px : {Clear, Tinted, Solid},
            format : Exported!Formats \cup {Exported!Native}, crop : {<<>>, <<1, 2>>, <<2, 2>>},
            scale : {0, 1, 2}, flip : BOOLEAN, sink : BOOLEAN] :
        Exported!Accepted(c) /\ (c.coded = "yuv420p" => c.px = Solid)}
    \cup [of : {"size"}, w : 0..6, h : 0..6, sw : 1..5, sh : 1..5]
    \cup [of : {"crop"}, left : -1..4, top : -1..4, width : -1..4, height : -1..4,
          sw : {1, 3, 4}, sh : {1, 4}, packed : BOOLEAN]
ExportsRight(c) ==
    CASE c.of = "export" -> Exported!ExportRight(c)
      [] c.of = "size" -> Exported!SizeRight(c.w, c.h, c.sw, c.sh)
      [] c.of = "crop" -> Exported!CropRight(c, c.sw, c.sh, c.packed)

---------------------------------------------------------------------------

Case(p, cases) == part = p /\ v1 \in cases /\ Idle1

OutputInit ==
    /\ Init
    /\ \/ part = "partial" /\ Partial!Init
       \/ part = "canvas" /\ Composed!Init /\ Idle3
       \/ part = "handle" /\ v1 = 0 /\ Idle1
       \/ /\ part = "scaled" /\ Idle6
          /\ \E sw, sh, dw, dh \in 1..5 : \E p \in Grey(sw, sh) :
                 Scaled!InitOf([src |-> p, w |-> dw, h |-> dh])
       \/ Case("windows", WindowCases) \/ Case("exports", ExportCases)

OutputNext ==
    \/ part = "partial" /\ Partial!Next /\ UNCHANGED <<part, vars>>
    \/ part = "canvas" /\ Composed!Next /\ UNCHANGED <<part, behind3, vars>>
    \/ part = "handle" /\ Next /\ UNCHANGED <<part, slots>>
    \/ part = "scaled" /\ Scaled!Next /\ UNCHANGED <<part, behind6, vars>>

---------------------------------------------------------------------------
(* What each part promises; its module says of which code.  HandleSafe is  *)
(* Handle's own.                                                           *)

\* A row that a call for part of a still says is valid is final
\* (driver/mod.rs, export.rs).
ValidRowsAreFinal == part = "partial" => Partial!ValidRowsAreFinal

\* The canvas shows what composing its frames one by one would, in whichever
\* form its pixels are kept (anim.rs, driver/anim.rs, blit.rs, image.rs).
CanvasAsComposed == part = "canvas" => Composed!CanvasAsComposed

\* Rows are converted from the rows their filter names, rescaled as the whole
\* plane would be, and exported in the format asked for with their alpha
\* multiplied in once (convert.rs, rescale.rs, driver/export.rs).
OutputRight ==
    /\ part = "windows" => Partial!WindowsRight(v1.sampling, v1.h, v1.rows, v1.m, v1.n)
    /\ part = "exports" => ExportsRight(v1)
    /\ part = "scaled" => Scaled!RescaledWhole
=============================================================================
