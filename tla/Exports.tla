------------------------------ MODULE Exports ------------------------------
(***************************************************************************)
(* The way of a whole picture out of the decoder: export_packed of         *)
(* src/driver/export.rs, transform_image and the conversions of            *)
(* src/driver/convert.rs, and what a slot did to a frame of an animation   *)
(* before (src/driver/slot.rs).  A picture is a column of pixels with an   *)
(* alpha and one colour; where it is packed, planar, premultiplied and     *)
(* what its rows are is what the formats tell apart.  Four places may      *)
(* premultiply, each guarded by what the other three are taken to do.      *)
(***************************************************************************)
EXTENDS Integers, Sequences, SequencesExt

CONSTANTS MaxScaled     \* the largest scaled side

Opaque == 255

Planar == {"yuv420p", "yuva420p"}
Straight == {"argb", "rgba", "rgb", "rgba4444", "rgb565"}
Pre == {"argb_pre", "rgba_pre", "rgba4444_pre"}
TwoByte == {"rgba4444", "rgba4444_pre", "rgb565"}
Opaques == {"rgb", "rgb565", "yuv420p"}      \* formats that drop the alpha
Formats == Planar \union Straight \union Pre
Native == "native"                            \* no output format was set
IsPacked(format) == format \in Straight \union Pre
HasPacker(format) == format \in (Straight \union Pre) \ {"argb", "argb_pre"}

-----------------------------------------------------------------------------
(***************************************************************************)
(* Pixels.  multiply_row and premultiply_argb_row are the forward and      *)
(* inverse of each other up to rounding, and clear what is transparent.    *)
(***************************************************************************)
Premultiplied(p) == [p EXCEPT !.c = (@ * p.a) \div Opaque]
Divided(p) == [p EXCEPT !.c = IF p.a = 0 THEN 0
                              ELSE LET v == (@ * Opaque + p.a \div 2) \div p.a
                                   IN  IF v > Opaque THEN Opaque ELSE v]
Each(Op(_), px) == [y \in DOMAIN px |-> Op(px[y])]

\* The rescaler on a column of pixels, for a height that divides it.
Averaged(px, h) ==
    LET n == Len(px) \div h
        Mean(y, Of(_)) == LET S[k \in 0 .. n] ==
                                IF k = 0 THEN 0 ELSE S[k - 1] + Of(px[(y - 1) * n + k])
                          IN  (S[n] + n \div 2) \div n
        Alpha(p) == p.a
        Colour(p) == p.c
    IN  [y \in 1 .. h |-> [a |-> Mean(y, Alpha), c |-> Mean(y, Colour)]]

-----------------------------------------------------------------------------
(***************************************************************************)
(* Sizes.  A zero side of the scale keeps the aspect ratio; the origin of  *)
(* a crop of a planar picture is moved to an even place.                   *)
(***************************************************************************)
NoSize == <<0, 0>>
CeilDiv(a, b) == (a + b - 1) \div b
ScaledSize(scale, sw, sh) ==
    LET w == IF scale[1] = 0 THEN CeilDiv(sw * scale[2], sh) ELSE scale[1]
        h == IF scale[2] = 0 THEN CeilDiv(sh * w, sw) ELSE scale[2]
    IN  IF w <= 0 \/ h <= 0 \/ w > MaxScaled \/ h > MaxScaled THEN NoSize ELSE <<w, h>>

Even(v) == v - (v % 2)
CropOrigin(crop, sw, sh, packed) ==
    LET left == IF packed THEN crop.left ELSE Even(crop.left)
        top == IF packed THEN crop.top ELSE Even(crop.top)
        inside == /\ crop.left >= 0 /\ crop.top >= 0 /\ crop.width > 0 /\ crop.height > 0
                  /\ left <= sw /\ top <= sh
                  /\ crop.width <= sw - left /\ crop.height <= sh - top
    IN  [ok |-> inside, left |-> left, top |-> top]

-----------------------------------------------------------------------------
(***************************************************************************)
(* A case: [kind |-> "still" | "composite" | "subframe", coded |-> what    *)
(* the image decodes to, px, format, crop |-> <<top, height>> or << >>,    *)
(* scale |-> a height or 0, flip, sink].  "composite" is a picture of the  *)
(* canvas, "subframe" a frame of an animation on its own.                  *)
(***************************************************************************)
\* set_core_options() and set_animation_mode(): what is defined against the
\* canvas is refused for a frame on its own.
Transforms(c) == c.crop # << >> \/ c.scale # 0 \/ c.flip
Accepted(c) == ~ (c.kind = "subframe" /\ Transforms(c))

Animation(c) == c.kind # "still"
PremultiplyAfterPack(c) == c.kind # "composite"
\* Also where packing multiplies.
FramePremultiplyAlways(c) == Animation(c) /\ c.format \in Pre

FramePremultiply(c) == /\ Animation(c) /\ c.format \in Pre
                       /\ ~ (PremultiplyAfterPack(c) /\ c.format \in TwoByte)
FrameToArgb(c) == Animation(c) /\ IsPacked(c.format)

\* FrameSlot::prepare, and the canvas, which alone remembers in what form its
\* pixels are.
Source(c) ==
    LET argb == FrameToArgb(c) /\ c.coded # "argb"
        format == IF argb THEN "argb" ELSE c.coded
        premultiply == FramePremultiply(c) /\ format = "argb"
    IN  [format |-> format, full |-> FALSE,
         px |-> IF premultiply THEN Each(Premultiplied, c.px) ELSE c.px,
         known |-> premultiply /\ c.kind = "composite"]

CropImage(c, img) ==
    IF c.crop = << >> THEN [ok |-> TRUE, img |-> img]
    ELSE LET at == CropOrigin([left |-> 0, top |-> c.crop[1], width |-> 1, height |-> c.crop[2]],
                              1, Len(img.px), IsPacked(img.format))
         IN  IF at.ok THEN [ok |-> TRUE, img |-> [img EXCEPT !.px =
                                SubSeq(@, at.top + 1, at.top + c.crop[2])]]
             ELSE [ok |-> FALSE, img |-> img]

\* scale_image.  Colours are averaged by their weight: multiplied by the alpha
\* on the way in and divided on the way out, unless they are so already.
ScaleImage(img, h, chromaFull, weightLuma) ==
    LET weighted == \/ img.format = "argb" /\ ~ img.known
                    \/ weightLuma
        px == IF weighted THEN Each(Divided, Averaged(Each(Premultiplied, img.px), h))
              ELSE Averaged(img.px, h)
    IN  [img EXCEPT !.px = px, !.full = ~ IsPacked(img.format) /\ chromaFull]

ScaleView(c, view) ==
    LET planar == view.img.format \in Planar
        packed == IsPacked(c.format)
    IN  IF ~ view.ok \/ c.scale = 0 THEN view
        ELSE [ok |-> TRUE, img |-> ScaleImage(view.img, c.scale, planar /\ packed,
                                              planar /\ ~ packed /\ c.format # "yuv420p"
                                              /\ view.img.format = "yuva420p")]
TransformImage(c, img) == ScaleView(c, CropImage(c, img))

\* The alpha a picture of a format has.
Kept(format, px) ==
    IF format \in Opaques THEN [y \in DOMAIN px |-> [px[y] EXCEPT !.a = Opaque]] ELSE px

\* convert_to_packed and convert_to_packed_2byte.
ConvertToPacked(img, format, premultiply) ==
    LET px == IF premultiply /\ format \in TwoByte \intersect Pre
              THEN Each(Premultiplied, img.px) ELSE img.px
    IN  [img EXCEPT !.format = format, !.px = Kept(format, px), !.full = FALSE]

Route(c, img) ==
    IF ~ IsPacked(img.format) \/ c.format \in TwoByte THEN "upsample"
    ELSE IF img.format = c.format THEN "as_is"
    ELSE IF HasPacker(c.format) THEN "pack"
    ELSE IF c.format # "argb_pre" \/ img.format # "argb" THEN "unsupported"
    ELSE IF Animation(c) THEN "relabel" ELSE "copy"

\* The picture in the packed format, premultiplied where nothing did so before.
Packed(c, img) ==
    LET premultiply == c.format \in Pre /\ ~ Animation(c) /\ c.format \notin TwoByte
        route == Route(c, img)
        over(px) == IF premultiply THEN Each(Premultiplied, px) ELSE px
        upsampled == ConvertToPacked(img, c.format, PremultiplyAfterPack(c))
    IN  CASE route = "as_is" -> img
          [] route = "relabel" -> [img EXCEPT !.format = "argb_pre"]
          [] route = "upsample" -> [upsampled EXCEPT !.px = over(@)]
          [] OTHER -> [img EXCEPT !.format = c.format, !.px = Kept(c.format, over(@))]

\* The picture in a planar format: as it is where that is enough.
AsPlanar(img, format) ==
    IF ~ img.full /\ (img.format = format \/ img.format = "yuva420p") THEN img
    ELSE [img EXCEPT !.format = format, !.px = Kept(format, @), !.full = FALSE]

\* A sink takes the rows in the format asked for, packing what is not in it.
ToSink(img, format) ==
    IF img.format # format /\ img.format \notin Planar /\ ~ HasPacker(format)
    THEN [ok |-> FALSE, format |-> format, px |-> img.px]
    ELSE [ok |-> TRUE, format |-> format, px |-> Kept(format, img.px)]

AsAsked(c, img) == CASE c.format \in Planar -> AsPlanar(img, c.format)
                     [] c.format = Native -> img
                     [] OTHER -> Packed(c, img)
Flipped(c, img) == [img EXCEPT !.px = IF c.flip THEN Reverse(@) ELSE @]
HandOut(c, img, format) == IF c.sink THEN ToSink(img, format)
                           ELSE [ok |-> TRUE, format |-> format, px |-> Kept(format, img.px)]
ExportView(c, view) ==
    LET format == IF c.format = Native THEN view.img.format ELSE c.format
    IN  IF ~ view.ok \/ (IsPacked(c.format) /\ Route(c, view.img) = "unsupported")
        THEN [ok |-> FALSE, format |-> format, px |-> << >>]
        ELSE HandOut(c, Flipped(c, AsAsked(c, view.img)), format)
ExportPacked(c) == ExportView(c, TransformImage(c, Source(c)))

-----------------------------------------------------------------------------
(***************************************************************************)
(* The picture asked for, said once: the rows of the crop, at the size,    *)
(* in the order, each colour multiplied by its alpha once at most.         *)
(***************************************************************************)
RowsOf(c, even) ==
    LET top == IF even THEN Even(c.crop[1]) ELSE c.crop[1]
    IN  IF c.crop = << >> THEN c.px ELSE SubSeq(c.px, top + 1, top + c.crop[2])
\* A planar picture that is not kept planar with its alpha is scaled plane by
\* plane.
SizedAs(c, rows, plain) ==
    IF c.scale = 0 THEN rows
    ELSE IF plain THEN Averaged(rows, c.scale)
    ELSE Each(Divided, Averaged(Each(Premultiplied, rows), c.scale))
Formed(format, px) == IF format \in Pre THEN Each(Premultiplied, px) ELSE px
Turned(c, px) == IF c.flip THEN Reverse(px) ELSE px
Wanted(c) ==
    LET format == IF c.format = Native THEN c.coded ELSE c.format
        even == Source(c).format \in Planar
        plain == even /\ ~ (format = "yuva420p" /\ c.coded = "yuva420p")
        size == SizedAs(c, RowsOf(c, even), plain)
    IN  [ok |-> TRUE, format |-> format, px |-> Turned(c, Kept(format, Formed(format, size)))]

\* Whatever the picture was coded as, however it is cut, scaled, flipped and
\* handed out, it comes in the format asked for with each colour multiplied
\* by its alpha once or not at all.
Near(got, want) == /\ got.a = want.a
                   /\ got.c - want.c \in -1 .. 1
AsWanted(c, got, want) ==
    /\ got.ok /\ got.format = want.format /\ Len(got.px) = Len(want.px)
    /\ \A y \in DOMAIN got.px : Near(got.px[y], want.px[y])
ExportRight(c) == AsWanted(c, ExportPacked(c), Wanted(c))

\* A side left to the aspect ratio is the least that holds the source; a crop
\* lies inside it, at a place chroma has a sample of its own.
SizeRight(w, h, sw, sh) ==
    LET size == ScaledSize(<<w, h>>, sw, sh)
    IN  size # NoSize => /\ (w = 0 /\ h # 0) => /\ size[1] * sh >= sw * h
                                                /\ (size[1] - 1) * sh < sw * h
                         /\ size[1] \in 1 .. MaxScaled /\ size[2] \in 1 .. MaxScaled
CropRight(crop, sw, sh, packed) ==
    LET at == CropOrigin(crop, sw, sh, packed)
    IN  at.ok => /\ at.left \in 0 .. sw - 1 /\ at.left + crop.width <= sw
                 /\ at.top \in 0 .. sh - 1 /\ at.top + crop.height <= sh
                 /\ packed => at.left = crop.left /\ at.top = crop.top
                 /\ ~ packed => at.left % 2 = 0 /\ at.top % 2 = 0
=============================================================================
