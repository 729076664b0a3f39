------------------------------ MODULE MCCodecs ------------------------------
(***************************************************************************)
(* The parts of the two decoders, each on small inputs: what is read of a  *)
(* lossless picture, of an alpha plane and of a lossy picture, however the *)
(* bytes arrive and the work is spread.  A behaviour is one part's: `part` *)
(* says which.  Split work and the bits of a lossless picture have their   *)
(* own variables, and the slots v1 to v20 stand for those of any other     *)
(* part.  A part that is a calculation takes no step: v1 is the case       *)
(* looked at.                                                              *)
(***************************************************************************)
EXTENDS SplitWork, StreamBits, FiniteSets

VARIABLES part, v1, v2, v3, v4, v5, v6, v7, v8, v9, v10,
          v11, v12, v13, v14, v15, v16, v17, v18, v19, v20

\* The slots behind a part's own, which it leaves alone.
behind15 == <<v16, v17, v18, v19, v20>>
behind10 == <<v11, v12, v13, v14, v15, behind15>>
behind9  == <<v10, behind10>>
behind5  == <<v6, v7, v8, v9, behind9>>
slots    == <<v1, v2, v3, v4, v5, behind5>>

Idle15 == v16 = 0 /\ v17 = 0 /\ v18 = 0 /\ v19 = 0 /\ v20 = 0
Idle10 == v11 = 0 /\ v12 = 0 /\ v13 = 0 /\ v14 = 0 /\ v15 = 0 /\ Idle15
Idle9  == v10 = 0 /\ Idle10
Idle5  == v6 = 0 /\ v7 = 0 /\ v8 = 0 /\ v9 = 0 /\ Idle9
Idle1  == v2 = 0 /\ v3 = 0 /\ v4 = 0 /\ v5 = 0 /\ Idle5

---------------------------------------------------------------------------
(* Lossless stills: with and without a color cache, groups and a palette   *)
(* that packs two pixels into one; one whose code is broken; and one that  *)
(* ends early.                                                             *)

Literal(v)    == <<"literal", v, 1>>
Back(dist, n) == <<"copy", dist, n>>
Cached(slot)  == <<"slot", slot, 1>>
Picture(w, h, transforms, entries, groups, bad, list, bytes) ==
    [w |-> w, h |-> h, transforms |-> transforms, cache |-> entries, groups |-> groups,
     badMode |-> bad, header |-> 2, size |-> bytes,
     packed |-> IF transforms[1] = "palette" THEN (w + 1) \div 2 ELSE w,
     symbols |-> [k \in 1..Len(list) |->
         [kind |-> list[k][1], v |-> list[k][2], len |-> list[k][3], at |-> 2 + k]]]
StillImages == {
    Picture(3, 5, <<"predictor", "color", "green">>, 2, 2, 5,
            <<Literal(1), Literal(3), Cached(1), Back(3, 3), Literal(2), Cached(0), Literal(4),
              Back(2, 5), Cached(1)>>, 11),
    Picture(5, 3, <<"palette", "predictor">>, 2, 1, 3,
            <<Literal(1), Literal(3), Cached(1), Back(1, 2), Literal(2), Cached(0), Literal(4),
              Cached(0)>>, 10),
    Picture(2, 5, <<"predictor">>, 0, 2, 3,
            <<Literal(1), Back(1, 4), Literal(2), Literal(3), Back(4, 3)>>, 7),
    Picture(4, 5, <<"palette", "predictor">>, 0, 1, 5,
            <<Literal(1), Back(1, 4), Literal(2), Literal(3), Back(4, 4)>>, 7),
    Picture(2, 4, <<"green", "color">>, 0, 1, 4,
            <<Literal(1), Back(1, 4), Literal(2), Literal(3), Literal(4)>>, 6)}

Still == INSTANCE LosslessStill WITH
    img <- v1, threads <- v2, avail <- v3, whole <- v4, active <- v5, nextTry <- v6,
    resume <- v7, cache <- v8, argb <- v9, stride <- v10, out <- v11, scratch <- v12,
    rowsOut <- v13, peeked <- v14, shows <- v15, pipe <- v16, passed <- v17,
    status <- v18, rewinds <- v19, errors <- v20,
    Images <- StillImages, ThreadCounts <- {1, 2}, RowBatch <- 2, FirstTry <- 1,
    FastMargin <- 3, TailMargin <- 2, PipelinePieces <- 4, MinStep <- 2,
    MaxRewinds <- 1, MaxErrors <- 2

ASSUME Still!ImagesAssumption /\ Still!BoundsAssumption

---------------------------------------------------------------------------
(* Alpha planes: grids of <<green, whether another channel is used>>, under *)
(* each transform, filter and coding, with and without a second thread.     *)

Grid(lines) == [y \in 0..Len(lines) - 1 |-> [x \in 0..Len(lines[1]) - 1 |-> lines[y + 1][x + 1]]]
G(n) == <<n, 0>>
O(n) == <<n, 1>>
TopOnly == Grid(<< <<O(1), G(2), G(3)>>, <<G(1), G(0), G(3)>>, <<G(2), G(1), G(1)>>, <<G(3), G(2), G(0)>> >>)
Late    == Grid(<< <<G(1), G(2), G(3)>>, <<G(1), G(0), G(3)>>, <<G(2), G(1), O(1)>>, <<G(3), G(2), G(0)>> >>)
Early   == Grid(<< <<G(1), O(2), G(3)>>, <<G(1), G(0), O(3)>>, <<G(2), G(1), O(1)>>, <<G(3), G(2), G(0)>> >>)
Both    == Grid(<< <<O(1), G(0), G(0)>>, <<G(1), G(0), G(3)>>, <<G(2), G(2), G(1)>>, <<G(3), O(2), G(1)>> >>)
Tiles(a, b, c, d) == [x \in 0..1 |-> [y \in 0..1 |-> << <<a, b>>, <<c, d>> >>[y + 1][x + 1]]]
Plane == [w |-> 3, h |-> 4, coding |-> "vp8l", short |-> FALSE, px |-> TopOnly,
          modes |-> Tiles("select", "left", "corner", "above"), list |-> <<"green", "predictor">>,
          filter |-> "gradient", badAt |-> 4, colourOk |-> TRUE, threads |-> 1,
          big |-> TRUE, heavy |-> FALSE, panics |-> FALSE]
AlphaFrames ==
    {[Plane EXCEPT !.px = p, !.modes = m, !.list = l, !.filter = f, !.threads = t, !.heavy = t # 1] :
        p \in {TopOnly, Late, Early, Both}, t \in {1, 3}, f \in {"none", "vertical"},
        m \in {Tiles("select", "left", "corner", "above"), Tiles("above", "select", "black", "select")},
        l \in {<<"green", "predictor">>, <<"predictor", "color">>, <<"predictor">>, <<"color">>}}
    \cup {[Plane EXCEPT !.px = p, !.list = l, !.filter = f, !.threads = t] :
        p \in {TopOnly, Late}, l \in {<<"palette">>, <<"predictor", "palette">>},
        f \in {"none", "horizontal", "gradient"}, t \in {1, 5}}
    \cup {[Plane EXCEPT !.coding = "raw", !.list = <<>>, !.filter = f, !.short = s] :
        f \in {"none", "horizontal", "gradient"}, s \in BOOLEAN}
    \cup {[Plane EXCEPT !.coding = "indexed", !.list = <<"palette">>, !.filter = f, !.badAt = b] :
        f \in {"none", "gradient"}, b \in {2, 4}}
    \cup {[Plane EXCEPT !.threads = t, !.heavy = TRUE, !.badAt = b, !.colourOk = c, !.panics = p,
                        !.modes = m, !.px = q] :
        t \in {1, 2, 3}, b \in {2, 4}, c \in BOOLEAN, p \in BOOLEAN, q \in {TopOnly, Late},
        m \in {Tiles("above", "left", "none", "above"), Tiles("above", "left", "above", "above")}}

Alpha == INSTANCE AlphaPlane WITH
    frame <- v1, plane <- v2, rows <- v3, bands <- v4, dec <- v5, xf <- v6,
    unfiltered <- v7, dstUsed <- v8, result <- v9,
    Frames <- AlphaFrames, BandRows <- 1, PipelinePieces <- 4

---------------------------------------------------------------------------
(* The bits of a lossless picture: the configuration has streams around    *)
(* the margins of the fast reader, and one that grows.                     *)

ASSUME BitsAssumption

\* Where they stand in another part's behaviours.
NoBits == BitsInitOf(9, 9)

---------------------------------------------------------------------------
(* Work split over threads, some of which do not start and some of which   *)
(* panic.                                                                  *)

SplitCalls ==
    [op : {"join"}, items : {2}, threads : {1, 2}, panics : SUBSET {1, 2}]
    \cup [op : {"for_each"}, items : 4..5, threads : 0..4, panics : {{}, {1}, {2, 4}}]
    \cup [op : {"for_each"}, items : {1, 3}, threads : 1..4, panics : {{}, {1}}]

ASSUME CallsMeant

\* What split work stands at in another part's behaviours.
NoWork == InitOf([op |-> "for_each", items |-> 0, threads |-> 1, panics |-> {}])

---------------------------------------------------------------------------
(* The boolean coders: the wide one with and without its mark bit, and the  *)
(* narrow one.                                                              *)

Partitions == {<<170, 85, 3>>, <<254, 1, 128, 77>>, <<255, 255, 7>>, <<93>>}

Coder == INSTANCE BoolCoder WITH
    data <- v1, avail <- v2, wide <- v3, token <- v4, narrow <- v5, ref <- v6,
    last <- v7, kept <- v8, count <- v9,
    Load <- 2, Probs <- {1, 200}, MaxDecisions <- 5

---------------------------------------------------------------------------
(* Headers of lossy frames, good and broken, in any order and cut anywhere. *)

Plain == [key |-> TRUE, profile |-> 0, shown |-> TRUE, startCode |-> TRUE, total |-> 40, size |-> 8,
    width |-> 20, height |-> 16, segment |-> <<>>, simple |-> FALSE, level |-> 20, sharpness |-> 0,
    deltas |-> <<>>, log |-> 0, sizes |-> <<>>, tokens |-> <<0, 0, 0, 0, 0, 0, 0, 0>>, skip |-> <<>>,
    quant |-> [yac |-> 60, ydc |-> 0, y2dc |-> 0, y2ac |-> 0, uvdc |-> 0, uvac |-> 0]]
Levels(absolute) ==
    << [absolute |-> absolute, quant |-> <<0, 127, 60, -127>>, level |-> <<0, 63, -63, 20>>] >>
LossyHeaders == {Plain,
    [Plain EXCEPT !.segment = << [map |-> <<10, 255, 30>>, data |-> Levels(TRUE)] >>, !.sharpness = 7,
        !.deltas = << << <<63>>, <<-63>> >> >>, !.log = 2, !.sizes = <<3, 0, 2>>, !.skip = <<77>>,
        !.tokens = <<0, 9, 0, 0, 0, 0, 8, 7>>,
        !.quant = [yac |-> 0, ydc |-> -15, y2dc |-> 0, y2ac |-> -15, uvdc |-> 15, uvac |-> 15]],
    [Plain EXCEPT !.segment = << [map |-> <<>>, data |-> Levels(FALSE)] >>,
        !.deltas = << << <<>>, <<5>> >> >>, !.simple = TRUE, !.level = 63, !.sharpness = 3,
        !.width = 33, !.log = 1, !.sizes = <<4>>],
    [Plain EXCEPT !.segment = << [map |-> <<1, 2, 3>>, data |-> <<>>] >>, !.level = 0, !.skip = <<1>>,
        !.quant.yac = 127, !.quant.uvdc = 15],
    [Plain EXCEPT !.log = 3, !.sizes = <<1, 1, 1, 1, 1, 1, 1>>],
    [Plain EXCEPT !.log = 1, !.sizes = <<20>>],
    [Plain EXCEPT !.width = 0], [Plain EXCEPT !.key = FALSE], [Plain EXCEPT !.size = 31],
    [Plain EXCEPT !.size = 30, !.log = 1, !.sizes = <<0>>], [Plain EXCEPT !.startCode = FALSE],
    [Plain EXCEPT !.shown = FALSE], [Plain EXCEPT !.total = 9]}

Header == INSTANCE LossyHeader WITH
    dec <- v1, frame <- v2, avail <- v3, status <- v4, frames <- v5,
    Headers <- LossyHeaders, Cuts <- {5, 10, 15, 18, 20, 23, 27, 39}, MaxFrames <- 3

\* Planes of one row and of two, of widths at the edges of the sectors, behind
\* the end of an allocation anywhere in its line.
PlaneSizes ==
    [of : {"plane"}, w : 1..80, h : {1, 2, 15, 16, 17, 33}, at : {0, 16, 40}]
    \cup [of : {"plane"}, w : (900..1000) \cup (1900..1990), h : {3}, at : {8}]

---------------------------------------------------------------------------
(* Macroblocks of a frame of two by two: of either kind of mode, with and  *)
(* without coefficients, in patterns that leave out all but one of four.   *)

Coefs(n, dc, ac) == [n |-> n, dc |-> dc, ac |-> ac]
None == Coefs(0, 0, FALSE)
Varied(d) == CASE d = 0 -> None [] d % 3 = 1 -> Coefs(1, d, FALSE)
               [] d % 3 = 2 -> Coefs(3, d, TRUE) [] OTHER -> Coefs(16, 0, FALSE)
Pattern(p) == [b \in 0..23 |->
    CASE p = 1 -> Coefs(2, 1, TRUE)
      [] p = 3 -> IF b % 2 = 1 THEN Varied(b) ELSE None
      [] p = 4 -> IF (b \div 2) % 2 = 1 THEN Varied(b) ELSE None
      [] p = 5 -> IF (b \div 4) % 2 = 1 THEN Coefs(1, 3, FALSE) ELSE None
      [] OTHER -> None]
\* Without the DCs of the luma, which come with the block of their own.
WithoutDc(p) == [b \in 0..23 |->
    LET k == Pattern(p)[b] IN IF k = None THEN None ELSE Coefs(IF k.n = 1 THEN 2 ELSE k.n, 0, k.n # 16)]
FourByFour(p, skip) ==
    [i4 |-> TRUE, skip |-> skip, y2 |-> None, blocks |-> Pattern(p),
     modes |-> [b \in 0..15 |-> IF (b + p) % 3 = 0 THEN "tm" ELSE IF b > 11 THEN "h" ELSE "v"]]
Whole(p, y2, skip) ==
    [i4 |-> FALSE, skip |-> skip, y2 |-> y2, blocks |-> WithoutDc(p),
     modes |-> [b \in 0..15 |-> IF p % 2 = 0 THEN "tm" ELSE "dc"]]
CutShort == {FourByFour(1, FALSE), Whole(3, Coefs(4, 1, TRUE), FALSE)}
CodedMacroblocks ==
    {FourByFour(p, FALSE) : p \in {1, 3, 4, 5}} \cup {FourByFour(1, TRUE), Whole(0, None, TRUE)}
    \cup {Whole(0, Coefs(1, 7, FALSE), FALSE), Whole(3, Coefs(4, 1, TRUE), FALSE),
          Whole(2, Coefs(16, 0, FALSE), FALSE), Whole(5, Coefs(2, 0, TRUE), FALSE)}

Blocks == INSTANCE Macroblocks WITH
    x <- v1, y <- v2, top <- v3, left <- v4, topModes <- v5, leftModes <- v6, block <- v7,
    dcBlock <- v8, count <- v9, mb <- v10, step <- v11, coded <- v12, seen <- v13,
    added <- v14, retries <- v15,
    Across <- 2, Down <- 2, Coded <- CodedMacroblocks, Torn <- CutShort, MaxRetries <- 1

---------------------------------------------------------------------------
(* The calculations, each with its cases.                                  *)

Codes == INSTANCE PrefixCodes WITH
    MaxLen <- 4, TableBits <- 2, PackedBits <- 3, Literals <- 2, LongShift <- 2
Rising(n) == {c \in [1..n -> 0..4] : \A i \in 1..n - 1 : c[i] <= c[i + 1]}
Greens == {<<0, 1, 0>>, <<1, 1>>, <<2, 1, 2>>, <<3, 3, 2, 1>>, <<2, 2, 2, 2>>}
Others == {<<0, 1, 0>>, <<1, 1>>, <<2, 1, 2>>}
Tokens == [kind : {"length"}, n : {0, 2, 4}] \cup [kind : {"again", "zeros"}, n : {3}]
CodeCases ==
    [of : {"lengths"}, c : [1..5 -> 0..4] \cup Rising(7), most : {2, 3}]
    \cup [of : {"simple"}, symbols : {<<a>> : a \in 1..6} \cup {<<a, b>> : a \in 1..2, b \in 1..6}]
    \cup [of : {"tokens"}, list : UNION {[1..n -> Tokens] : n \in 0..4}, max : {2, 5, 6}]
    \cup [of : {"pixel"}, green : Greens, rest : [1..3 -> Others], large : BOOLEAN]
CodesRight(c) ==
    CASE c.of = "lengths" -> Codes!CodeRight(c.c, c.most)
      [] c.of = "simple" -> Codes!CodeRight(Codes!SimpleCode(c.symbols, 5), 3)
      [] c.of = "tokens" -> Codes!LengthsRight(c.list, 5, c.max)
      [] c.of = "pixel" -> Codes!PixelRight(c.green, c.rest, c.large, 0..255)

Images == INSTANCE LosslessHeader WITH MaxGroups <- 4, MaxCache <- 11
Transform(kind) == [kind |-> kind, bits |-> 2, deltas |-> IF kind = "palette" THEN <<5, 250, 3>> ELSE <<>>]
Kinds == {"predictor", "color", "green", "palette"}
ImageCases ==
    {[of |-> "image", w |-> 8, h |-> 7, tileBits |-> 2, cacheBits |-> b, bad |-> bad, ids |-> ids,
      transforms |-> [i \in DOMAIN ts |-> Transform(ts[i])]] :
        ts \in UNION {[1..n -> Kinds] : n \in 0..3}, b \in {0}, bad \in {{}},
        ids \in {<<>>, << <<0, 5>>, <<2, 0>> >>}}
    \cup {[of |-> "image", w |-> 8, h |-> 7, tileBits |-> 2, cacheBits |-> b, bad |-> bad,
           ids |-> << <<a[1], a[2]>>, <<a[3], a[4]>> >>, transforms |-> <<>>] :
        b \in {0, 4, 12}, bad \in {{}, {2}}, a \in [1..4 -> {0, 1, 2, 3, 5}]}

Lines == INSTANCE LosslessRows WITH ChannelBits <- 3, Block <- 2
Sample == [x \in 0..4, y \in 0..3 |-> (3 * x + 5 * y + x * y) % Lines!N]
LineCases ==
    [of : {"words"}, a : 0..Lines!N - 1]
    \cup [of : {"green"}, mode : Lines!Modes, l : 0..Lines!N - 1]
    \cup [of : {"predictor"}, first : [0..2 -> {1, 9, 14}], second : [0..2 -> {0, 3, 10, 12}],
          w : {1, 2, 5}, gap : {0, 2}, cut : 1..4]
    \cup [of : {"color"}, w : 1..5, m : [0..2 -> {0, 5}]]
    \cup [of : {"palette"}, per : {1, 2}, w : 1..5, colours : {<<1, 2>>, <<3, 0, 2, 1>>}, v : 0..5]
LinesRight(c) ==
    CASE c.of = "words" ->
            \A b, d \in 0..Lines!N - 1 : Lines!WordsRight(c.a * Lines!N + b, d * Lines!N + b)
      [] c.of = "green" -> \A t, tl \in 0..Lines!N - 1 : Lines!GreenRight(c.mode, c.l, t, tl)
      [] c.of = "predictor" ->
            Lines!PredictorRight(Sample, [y \in 0..1 |-> IF y = 0 THEN c.first ELSE c.second],
                                 c.w, c.w + c.gap, 1, 4, c.cut)
      [] c.of = "color" ->
            Lines!ColorRight([i \in 1..c.w |-> [r |-> 1, g |-> i, b |-> 6]],
                             [t \in 0..2 |-> [greenRed |-> c.m[t], greenBlue |-> 3, redBlue |-> 5]], 1)
      [] c.of = "palette" ->
            Lines!PaletteRight([i \in 0..c.w * 3 |-> (i * 5 + c.v) % Lines!N],
                               (c.w + c.per - 1) \div c.per, c.w, 3, c.colours, c.per)

Tree == INSTANCE LossyTokens
Values == {0, 1, -1, 2, -3, 4, 5, -6, 7, 10, -11, 18, 19, 35, 66, -67, 2114}
TokenCases ==
    [of : {"trees"}] \cup [of : {"none"}, start : {0, 1}, ctx : 0..2]
    \cup [of : {"one"}, start : {0, 1}, ctx : 0..2, v : Values]
    \cup [of : {"two"}, start : {0, 1}, ctx : {0, 2}, v : Values, w : {1, -1, 3, -6, 18, 67}]
TokensRight(c) ==
    CASE c.of = "trees" -> Tree!TreesRight
      [] c.of = "none" -> /\ Tree!TokensRight(<<>>, c.start, c.ctx)
                          /\ Tree!TokensRight([k \in 1..16 - c.start |-> 0], c.start, c.ctx)
      [] c.of = "one" -> Tree!TokensRight(
            [k \in 1..16 - c.start |-> IF k % 3 = 0 THEN 0 ELSE IF k % 2 = 0 THEN c.v ELSE 1], c.start, c.ctx)
      [] c.of = "two" -> /\ Tree!TokensRight(<<c.v, c.w>>, c.start, c.ctx)
                         /\ Tree!TokensRight(<<c.w, 0, 0, c.v, c.w>>, c.start, c.ctx)

Pixels == INSTANCE LossyPixels
\* An edge of one value but for one sample.
Edge(v, d, k) == [t |-> [i \in 1..8 |-> IF i = k THEN d ELSE v],
                  l |-> [i \in 1..4 |-> IF 8 + i = k THEN d ELSE v],
                  c |-> IF k = 13 THEN d ELSE v]
\* Eight samples across an edge.
Across(p, d) == <<p[1] + d[1], p[1] + d[2], p[1], p[2], p[3], p[4], p[4] + d[2], p[4] + d[1]>>
PixelCases ==
    [of : {"pred"}, k : 1..13, d : {0, 5, 98, 255}, base : {0, 100, 255}]
    \cup [of : {"dc"}, n : {8, 16}, a : {0, 3, 255}, b : {0, 7, 200}]
    \cup [of : {"idct"}, p : {0, 77, 255},
          v : {-32768, -4097, -13, -12, -5, -4, -1, 0, 3, 4, 5, 12, 1000, 32000}]
    \cup [of : {"filter"}, p : [1..4 -> {2, 60, 120, 126, 128, 131, 200, 253}], d : {<<0, 0>>, <<-2, 1>>}]
    \cup [of : {"edges"}, inner : BOOLEAN, x : 0..2, y : 0..2] \cup [of : {"set"}, across : {1, 3}]
PixelsRight(c) ==
    CASE c.of = "pred" -> Pixels!Pred4x4Right(Edge(c.base, c.d, c.k))
      [] c.of = "dc" -> Pixels!DcRight(c.n, [k \in 1..c.n |-> (c.a * k) % 256], [k \in 1..c.n |-> c.b])
      [] c.of = "idct" -> Pixels!ShortTransformsRight(c.v, c.p)
      [] c.of = "filter" -> /\ Pixels!FilterRight(Across(c.p, c.d), 20, 8, 1)
                            /\ Pixels!FilterRight(Across(c.p, c.d), 193, 63, 2)
      [] c.of = "edges" -> Pixels!EdgesRight(c.inner, c.x, c.y)
      [] c.of = "set" -> Pixels!PredictsFromSet(c.across, 2)

---------------------------------------------------------------------------

Case(p, cases) == part = p /\ v1 \in cases /\ Idle1

CodecsInit ==
    \/ part = "work" /\ Init /\ NoBits /\ v1 = 0 /\ Idle1
    \/ part = "bits" /\ BitsInit /\ NoWork /\ v1 = 0 /\ Idle1
    \/ /\ NoWork /\ NoBits
       /\ \/ part = "still" /\ Still!Init
          \/ part = "alpha" /\ Alpha!Init /\ Idle9
          \/ part = "coder" /\ (\E d \in Partitions : \E n \in 0..Len(d) : Coder!InitOf(d, n)) /\ Idle9
          \/ part = "header" /\ Header!Init /\ Idle5
          \/ part = "blocks" /\ Blocks!Init /\ Idle15
          \/ Case("codes", CodeCases) \/ Case("images", ImageCases) \/ Case("lines", LineCases)
          \/ Case("tokens", TokenCases) \/ Case("pixels", PixelCases) \/ Case("planes", PlaneSizes)

CodecsNext ==
    \/ part = "work" /\ Next /\ UNCHANGED <<part, bitVars, slots>>
    \/ part = "bits" /\ BitsNext /\ UNCHANGED <<part, vars, slots>>
    \/ part = "still" /\ Still!Next /\ UNCHANGED <<part, vars, bitVars>>
    \/ part = "alpha" /\ Alpha!Next /\ UNCHANGED <<part, behind9, vars, bitVars>>
    \/ part = "coder" /\ Coder!Next /\ UNCHANGED <<part, behind9, vars, bitVars>>
    \/ part = "header" /\ Header!Next /\ UNCHANGED <<part, behind5, vars, bitVars>>
    \/ part = "blocks" /\ Blocks!Next /\ UNCHANGED <<part, behind15, vars, bitVars>>

---------------------------------------------------------------------------
(* What each part promises; its module says of which code.  ReadInOrder is *)
(* StreamBits's own, PiecesRunOnce SplitWork's.                            *)

\* A lossless still is decoded as the whole file would be, however its bytes
\* arrive and whichever thread undoes the transforms (vp8l/mod.rs).
StillAsWhole == part = "still" => Still!StillAsWhole

\* An alpha plane is the one its bytes code, whichever way it is decoded, and
\* nobody waits for a band that nobody sends (driver/lossy.rs, vp8l/mod.rs).
AlphaRight == part = "alpha" => Alpha!AlphaAsCoded /\ Alpha!WaitEnds

\* Prefix codes, the header's images and the rows of the transforms are what
\* the format defines, through tables, numbers and packed words (vp8l).
LosslessRight ==
    /\ part = "codes" => CodesRight(v1)
    /\ part = "images" => Images!HeaderRight(v1)
    /\ part = "lines" => LinesRight(v1)

\* The three boolean coders read the same decisions, and know when they have
\* read what was not there (vp8/rac.rs).
CodersAgree == part = "coder" => Coder!CodersAgree

\* A macroblock is parsed in the context of its neighbours, reconstructed from
\* its own coefficients, once, and filtered inside where it has any
\* (vp8/mod.rs).
MacroblocksRight ==
    part = "blocks" => Blocks!ParsedInContext /\ Blocks!AddedOnce /\ Blocks!FilteredInside

\* A frame's header is read afresh whatever was decoded before, and tokens,
\* predictions, transforms and filters are what the format defines (vp8, dsp).
LossyRight ==
    /\ part = "header" => Header!ReadAfresh /\ Header!NeverWaitsInVain
                          /\ Header!PartitionsTile /\ Header!InRange
    /\ part = "planes" => Header!PlanesRight(v1.w, v1.h, v1.at)
    /\ part = "tokens" => TokensRight(v1)
    /\ part = "pixels" => PixelsRight(v1)
=============================================================================
