---------------------------- MODULE LosslessHeader ----------------------------
(***************************************************************************)
(* The header of a lossless image, read_frame_header() and                 *)
(* read_image_header() of src/vp8l/mod.rs: the transforms with their       *)
(* images, each sized by the width the transforms before it have left, and *)
(* the groups of prefix codes, numbered anew when the image that assigns   *)
(* them leaves most numbers out.                                           *)
(*                                                                         *)
(* A header is a record: w and h; transforms, each with its kind and, by   *)
(* kind, the bits of its tiles or the colours of its palette; cacheBits;   *)
(* ids, the number of the group of each tile of the main image, with       *)
(* tileBits, or none; bad, the groups whose codes are not codes.           *)
(***************************************************************************)
EXTENDS Integers, SequencesExt

CONSTANTS MaxGroups,    \* 1000, where decode_entropy_image() starts to renumber
          MaxCache      \* 11

\* An image that leaves out the tiles cut off at the edge.
CeilShiftDown(v, s) == v \div 2 ^ s

CeilShift(v, s) == (v + 2 ^ s - 1) \div 2 ^ s
NoImage == [bits |-> 0, w |-> 0, h |-> 0]

\* parse_transform_color_indexing(): how many pixels of a small palette share
\* one, and the palette, whose entries are differences.
WidthBits(colours) ==
    IF colours <= 2 THEN 3 ELSE IF colours <= 4 THEN 2 ELSE IF colours <= 16 THEN 1 ELSE 0
Summed(deltas) ==
    FoldLeft(LAMBDA p, d : Append(p, IF p = <<>> THEN d ELSE (Last(p) + d) % 256), <<>>, deltas)

\* read_frame_header(): each transform once, with its image.
Transforms(h) ==
    LET side(a, t) == [bits |-> t.bits, w |-> CeilShift(a.reduced, t.bits),
                       h |-> CeilShift(h.h, t.bits)]
        add(a, t) ==
            LET b == [a EXCEPT !.list = Append(@, t.kind)]
            IN  IF ~a.ok \/ t.kind \in Range(a.list) THEN [a EXCEPT !.ok = FALSE]
                ELSE CASE t.kind = "predictor" -> [b EXCEPT !.predictor = side(a, t)]
                       [] t.kind = "color" -> [b EXCEPT !.color = side(a, t)]
                       [] t.kind = "palette" ->
                            [b EXCEPT !.palette = Summed(t.deltas),
                                      !.packBits = WidthBits(Len(t.deltas)),
                                      !.reduced = IF WidthBits(Len(t.deltas)) > 0
                                                  THEN CeilShift(h.w, WidthBits(Len(t.deltas))) ELSE @]
                       [] OTHER -> b
    IN  FoldLeft(add, [list |-> <<>>, ok |-> TRUE, reduced |-> h.w, predictor |-> NoImage,
                       color |-> NoImage, palette |-> <<>>, packBits |-> 0], h.transforms)

\* decode_entropy_image(): the groups numbered in the order they are met, when
\* there are too many or more than tiles.
Flat(ids) == FlattenSeq(ids)
Numbering(ids) ==
    LET codes == Max(Range(Flat(ids))) + 1
        met == FoldLeft(LAMBDA s, i : IF i \in Range(s) THEN s ELSE Append(s, i), <<>>, Flat(ids))
        mapped == ~(codes <= MaxGroups /\ codes <= Len(Flat(ids)))
    IN  [codes |-> codes, mapped |-> mapped,
         groups |-> IF mapped THEN Len(met) ELSE codes,
         to |-> [c \in 0..codes - 1 |-> IF ~mapped THEN c
                                        ELSE IF c \in Range(met)
                                        THEN (CHOOSE k \in 1..Len(met) : met[k] = c) - 1 ELSE -1]]

\* read_image_header(): a set of codes for every number, built where a group
\* takes them and only looked at where none does.  groups[g] is the number whose
\* codes group g reads.
OneGroup == [codes |-> 1, mapped |-> FALSE, groups |-> 1, to |-> [c \in {0} |-> 0]]
Numbered(h, n) ==
    LET read(a, c) ==
            IF ~a.ok \/ c \in h.bad THEN [a EXCEPT !.ok = FALSE]
            ELSE IF n.to[c] = -1 THEN a
            ELSE [a EXCEPT !.groups[n.to[c]] = c]
        all == FoldLeft(read, [ok |-> h.cacheBits \in 0..MaxCache,
                               groups |-> [g \in 0..n.groups - 1 |-> -1]],
                        [c \in 1..n.codes |-> c - 1])
    IN  [ok |-> all.ok, groups |-> all.groups, map |-> n,
         image |-> [y \in DOMAIN h.ids |-> [x \in DOMAIN h.ids[y] |-> n.to[h.ids[y][x]]]]]
ImageHeader(h) == Numbered(h, IF h.ids = <<>> THEN OneGroup ELSE Numbering(h.ids))

\* GroupMap::at(): the group of a pixel, the first when there is but one.
GroupOf(h, i, x, y) ==
    IF Cardinality(DOMAIN i.groups) = 1 \/ h.ids = <<>> THEN 0
    ELSE i.image[1 + (y \div 2 ^ h.tileBits)][1 + (x \div 2 ^ h.tileBits)]

\* Whichever way the groups are numbered, a pixel is read with the codes of the
\* group its tile names; every group that is there has codes; and every image
\* covers the rows and the width its transform is undone at, which is the full
\* width once a palette undone before it has been expanded.
HeadersRight(h, t, i) ==
    LET at(kind) == CHOOSE k \in 1..Len(t.list) : t.list[k] = kind
        wide(kind) == IF "palette" \in Range(t.list) /\ at("palette") > at(kind) THEN h.w ELSE t.reduced
        covers(img, kind) ==
            kind \in Range(t.list) =>
                /\ (wide(kind) - 1) \div 2 ^ img.bits < img.w
                /\ (h.h - 1) \div 2 ^ img.bits < img.h
    IN  /\ t.ok <=> IsInjective([k \in 1..Len(h.transforms) |-> h.transforms[k].kind])
        /\ t.ok => covers(t.predictor, "predictor") /\ covers(t.color, "color")
        /\ t.ok /\ t.packBits > 0 => t.reduced * (2 ^ t.packBits) >= h.w
        /\ i.ok => \A g \in DOMAIN i.groups : i.groups[g] # -1
        /\ i.ok /\ h.ids # <<>> =>
              \A x \in 0..h.w - 1, y \in 0..h.h - 1 :
                  i.groups[GroupOf(h, i, x, y)]
                      = h.ids[1 + (y \div 2 ^ h.tileBits)][1 + (x \div 2 ^ h.tileBits)]
HeaderRight(h) == HeadersRight(h, Transforms(h), ImageHeader(h))
=============================================================================
