-------------------------------- MODULE Canvas --------------------------------
(***************************************************************************)
(* The canvas an animation is composited on: decode_anmf() and             *)
(* anim_composite() of src/driver/anim.rs, is_key_frame() and regions() of *)
(* src/anim.rs, and the copying, blending and clearing of src/blit.rs and  *)
(* src/image.rs.                                                           *)
(*                                                                         *)
(* A pixel is the sequence of the images seen through it, lowest first;    *)
(* <<>> is clear.  A chroma sample of a canvas kept as YUVA is such a      *)
(* sequence too, of its own: it covers two by two pixels, and the code     *)
(* blends it by the averages of their alphas.  What the canvas should show *)
(* is kept beside it, composed frame after frame with none of the code's   *)
(* shortcuts.                                                              *)
(***************************************************************************)
EXTENDS Integers, SequencesExt, FiniteSetsExt

CONSTANTS
    CanvasWidth, CanvasHeight,
    Frames,     \* records [x, y, w, h, dw, dh, alpha, seen, lossless, blend,
                \* dispose]: place, size, declared size, whether the image has
                \* alpha, a pixel's alpha ("full", "part", "none"), its flags
    Outs,       \* the kinds of output format: "planar", "packed", "premultiplied"
    MaxFrames

VARIABLES
    canvas,     \* [format, px, uv, premultiplied] and form: how px is stored
    anim,       \* AnimState: index and prev
    shown       \* what the canvas should show, and the kind of the last output

vars == <<canvas, anim, shown>>

Pixels == (0..CanvasWidth - 1) \X (0..CanvasHeight - 1)
Half(n) == (n + 1) \div 2
Blocks == (0..Half(CanvasWidth) - 1) \X (0..Half(CanvasHeight) - 1)
Rect(x, y, w, h) == [x |-> x, y |-> y, w |-> w, h |-> h]
Whole == Rect(0, 0, CanvasWidth, CanvasHeight)
Inside(r) == {p \in Pixels : /\ p[1] \in r.x..r.x + r.w - 1
                             /\ p[2] \in r.y..r.y + r.h - 1}
\* The chroma samples a rectangle's own, rounded, size reaches.
BlocksOf(r) == (r.x \div 2..r.x \div 2 + Half(r.w) - 1)
               \X (r.y \div 2..r.y \div 2 + Half(r.h) - 1)

Junk == <<[id |-> 0, alpha |-> "part"]>>
Empty == [format |-> "none", px |-> [p \in Pixels |-> Junk],
          uv |-> [b \in Blocks |-> <<0>>], premultiplied |-> FALSE, form |-> FALSE]
NoFrame == [rect |-> Rect(0, 0, 0, 0), dispose |-> FALSE, key |-> FALSE]

Init ==
    /\ canvas = Empty
    /\ anim = [index |-> 0, prev |-> NoFrame]
    /\ shown = [px |-> [p \in Pixels |-> <<>>], out |-> "planar"]

Full(w, h) == w = CanvasWidth /\ h = CanvasHeight

\* A frame of the canvas's size, whatever shows through it.
KeyFrameOfSize(f) ==
    \/ anim.index = 0
    \/ f.x = 0 /\ f.y = 0 /\ Full(f.dw, f.dh)
    \/ /\ anim.prev.dispose
       /\ Full(anim.prev.rect.w, anim.prev.rect.h) \/ anim.prev.key

KeyFrame(f) ==
    \/ anim.index = 0
    \/ (~f.alpha \/ ~f.blend) /\ f.x = 0 /\ f.y = 0 /\ Full(f.dw, f.dh)
    \/ /\ anim.prev.dispose
       /\ Full(anim.prev.rect.w, anim.prev.rect.h) \/ anim.prev.key

-----------------------------------------------------------------------------
(* regions(): the parts of an image to blend, and the part to copy.       *)

Region(x, y, w, h, blend) == [x |-> x, y |-> y, w |-> w, h |-> h, blend |-> blend]

\* How far from start, in the image, its overlap with the last frame goes.
Overlap(at, size, prev, prevSize) ==
    LET k == Max({at, prev}) - at
    IN  <<k, Min({at + size, prev + prevSize}) - at - k>>

Even(n) == 2 * (n \div 2)

Regions(f, key, hasPlane, aligned) ==
    LET all(blend) == {Region(0, 0, f.w, f.h, blend)}
        prev == anim.prev.rect
        ox == Overlap(f.x, f.w, prev.x, prev.w)
        oy == Overlap(f.y, f.h, prev.y, prev.h)
        kx == ox[1]
        ky == oy[1]
        kw == IF aligned /\ ox[2] > 0 THEN Even(ox[2]) ELSE ox[2]
        kh == IF aligned /\ oy[2] > 0 THEN Even(oy[2]) ELSE oy[2]
    IN  IF key \/ ~f.blend \/ ~hasPlane THEN all(FALSE)
        ELSE IF ~anim.prev.dispose \/ kw <= 0 \/ kh <= 0 THEN all(TRUE)
        ELSE {Region(0, 0, f.w, ky, TRUE),
              Region(0, ky + kh, f.w, f.h - ky - kh, TRUE),
              Region(0, ky, kx, kh, TRUE),
              Region(kx + kw, ky, f.w - kx - kw, kh, TRUE),
              Region(kx, ky, kw, kh, FALSE)}

-----------------------------------------------------------------------------
(* paint(): the pixels of one region, and its chroma samples.              *)

Over(old, id, alpha) == CASE alpha = "full" -> <<id>>
                          [] alpha = "none" -> old
                          [] OTHER -> Append(old, id)
Copied(id, alpha) == IF alpha = "none" THEN <<>> ELSE <<id>>

Id(f, p) == [id |-> anim.index + 1, alpha |-> f.seen[<<p[1] - f.x, p[2] - f.y>>]]
Put(f, r, old, p) == LET id == Id(f, p)
                     IN  IF r.blend THEN Over(old, id, id.alpha) ELSE Copied(id, id.alpha)

\* The pixels a sample's alpha is averaged over: those of its block that are
\* in the region.
Covered(r, b) == {p \in Inside(r) : p[1] \div 2 = b[1] /\ p[2] \div 2 = b[2]}

\* blend_row_uv(), which reads the alphas blend_row_ya() has yet to write.
Tint(f, r, px, old, b) ==
    LET alphas == {Id(f, p).alpha : p \in Covered(r, b)}
        id == anim.index + 1
    IN  IF ~r.blend \/ alphas = {"full"} THEN <<id>>
        ELSE IF alphas = {"none"} THEN old
        ELSE IF \A p \in Covered(r, b) : px[p] = <<>> THEN <<id>>
        ELSE Append(old, id)

Paint(f, c, region) ==
    LET r == [region EXCEPT !.x = @ + f.x, !.y = @ + f.y]
    IN  IF r.w <= 0 \/ r.h <= 0 THEN c
        ELSE [c EXCEPT
                !.px = [p \in Pixels |-> IF p \in Inside(r) THEN Put(f, r, @[p], p) ELSE @[p]],
                !.uv = IF c.format = "argb" THEN @
                       ELSE [b \in Blocks |-> IF b \in BlocksOf(r)
                                              THEN Tint(f, r, c.px, @[b], b) ELSE @[b]]]

-----------------------------------------------------------------------------
(* prepare_canvas(): the buffer there is, or a new one, ready to paint on. *)

Clear(c, r) ==
    [c EXCEPT !.px = [p \in Pixels |-> IF p \in Inside(r) THEN <<>> ELSE @[p]],
              !.uv = [b \in Blocks |-> IF b \in BlocksOf(r) THEN <<>> ELSE @[b]]]

\* The pixels turned and the turn forgotten.
ReconciledForgets(c, premultiply) ==
    [c EXCEPT !.form = IF c.format = "argb" /\ c.premultiplied # premultiply THEN ~@ ELSE @]

\* reconcile_alpha()
Reconciled(c, premultiply) ==
    [c EXCEPT !.premultiplied = premultiply,
              !.form = IF c.format = "argb" /\ c.premultiplied # premultiply
                       THEN ~@ ELSE @]

Prepared(f, key, format, premultiply) ==
    LET kept == IF key /\ canvas.format # format THEN Empty ELSE canvas
        fresh == kept.format = "none"
        c == IF fresh THEN [Empty EXCEPT !.format = format, !.premultiplied = premultiply,
                                         !.form = premultiply]
             ELSE kept
        covers == f.x = 0 /\ f.y = 0 /\ Full(f.w, f.h)
        argb == IF format = "argb" /\ c.format = "yuva"
                THEN [c EXCEPT !.format = "argb", !.premultiplied = FALSE, !.form = FALSE]
                ELSE c
        ready == IF fresh \/ key THEN IF covers THEN c ELSE Clear(c, Whole)
                 ELSE IF anim.prev.dispose THEN Clear(argb, anim.prev.rect)
                 ELSE argb
    IN  Reconciled(ready, premultiply)

\* decode_anmf(): the format the canvas must have for this frame.
Target(f, key, out) ==
    IF f.lossless \/ out # "planar" \/ (~key /\ canvas.format = "argb")
    THEN "argb" ELSE "yuva"

\* anim_composite(): the regions do not overlap, so their order says nothing.
Composite(f, key, out) ==
    LET target == Target(f, key, out)
        ready == Prepared(f, key, target, out = "premultiplied")
        parts == Regions(f, key, f.alpha \/ target = "argb", ready.format # "argb")
    IN  FoldSet(LAMBDA region, c : Paint(f, c, region), ready, parts)

-----------------------------------------------------------------------------
(* What the canvas should show.  A frame that declares the whole canvas    *)
(* and lets nothing through replaces all of it, whatever size its image    *)
(* turns out to have.                                                      *)
Composed(f) ==
    LET declared == Rect(f.x, f.y, f.dw, f.dh)
        gone == IF declared = Whole /\ (~f.alpha \/ ~f.blend) THEN Pixels
                ELSE IF anim.prev.dispose THEN Inside(anim.prev.rect)
                ELSE {}
        under == [p \in Pixels |-> IF p \in gone THEN <<>> ELSE shown.px[p]]
    IN  [p \in Pixels |-> IF p \in Inside(f)
                          THEN Put(f, [blend |-> f.blend], under[p], p)
                          ELSE under[p]]

\* A frame decoded and composited; the next is told what this one was.
Show ==
    \E f \in Frames, out \in Outs :
        /\ anim.index < MaxFrames
        /\ LET key == KeyFrame(f)
           IN  /\ canvas' = Composite(f, key, out)
               /\ anim' = [index |-> anim.index + 1,
                           prev |-> [rect |-> Rect(f.x, f.y, f.dw, f.dh),
                                     dispose |-> f.dispose, key |-> key]]
        /\ shown' = [px |-> Composed(f), out |-> out]

\* anim_state_reset(), by a rewind
Rewind ==
    /\ anim.index = MaxFrames
    /\ canvas' = Empty
    /\ anim' = [index |-> 0, prev |-> NoFrame]
    /\ shown' = [px |-> [p \in Pixels |-> <<>>], out |-> "planar"]

Next == Show \/ Rewind

-----------------------------------------------------------------------------
(* After any frames, whichever of them were key frames, whichever part of  *)
(* each was copied and whichever format the canvas had in between, every   *)
(* pixel shows what frame by frame disposal and blending give; the pixels  *)
(* are stored the way the output format wants them; and where one image    *)
(* alone is seen through a whole chroma block, the block has its colour.   *)
CanvasAsComposed ==
    anim.index > 0 =>
        /\ canvas.px = shown.px
        /\ canvas.format = "argb" => canvas.form = (shown.out = "premultiplied")
        /\ canvas.format = "yuva" =>
              \A b \in Blocks :
                  LET seen == {shown.px[p] : p \in Covered(Whole, b)}
                  IN  \A s \in seen : seen = {s} /\ Len(s) = 1 =>
                          canvas.uv[b] = <<s[1].id>>
=============================================================================
