---------------------------- MODULE LossyHeader ----------------------------
(***************************************************************************)
(* The header of a lossy frame: what Decoder::frame_init and               *)
(* decode_frame_header of src/vp8/mod.rs leave in a decoder that may have  *)
(* decoded other frames before, or stopped half way through this header    *)
(* for want of data, and the layout of the planes it decodes into.         *)
(*                                                                         *)
(* A header is a record of its syntax elements, as the first partition     *)
(* yields them.  Of the token probabilities one column is kept: a value    *)
(* for each of the eight bands, spread over the sixteen positions.         *)
(***************************************************************************)
EXTENDS Integers, Sequences

CONSTANTS Headers,      \* the headers a decoder may meet
          Cuts,         \* how many bytes may be there when it is called
          MaxFrames     \* bound: frames a decoder is given

(* h.key, h.profile, h.shown, h.startCode  the ten bytes before the first   *)
(* h.total, h.size       bytes of the frame, and of its first partition     *)
(* h.width, h.height                                                        *)
(* h.segment             <<>>, or <<[map, data]>>: map is <<>> or three      *)
(*                       probabilities, data is <<>> or a record             *)
(*                       [absolute, quant, level]                            *)
(* h.simple, h.level, h.sharpness                                           *)
(* h.deltas              <<>>, or <<d>>: d an update for ref 0 and mode 0,   *)
(*                       each <<>> or <<value>>                              *)
(* h.log, h.sizes        the partitions: their number, and the sizes of all *)
(*                       but the last                                       *)
(* h.quant               [yac, ydc, y2dc, y2ac, uvdc, uvac]                 *)
(* h.tokens              band -> 0 (kept) or a probability                   *)
(* h.skip                <<>> or <<probability>>                             *)

VARIABLES dec,      \* the decoder: everything a later frame could find stale
          frame,    \* the header it is at
          avail,    \* bytes of the frame that have arrived
          status,   \* what the last call returned
          frames    \* frames begun

vars == <<dec, frame, avail, status, frames>>

Clip(v, bits) == LET top == 2 ^ bits - 1
                 IN IF v < 0 THEN 0 ELSE IF v > top THEN top ELSE v

Least(a, b) == IF a < b THEN a ELSE b
Greatest(a, b) == IF a < b THEN b ELSE a

----------------------------------------------------------------------------
(* Planes.                                                                 *)

RowPad == 32
ColPad == 64
Align  == 64

RoundUp(n) == ((n + Align - 1) \div Align) * Align

StrideFor(width) ==
    LET stride == RoundUp(width + ColPad)
    IN IF stride % 1024 = 0 THEN stride + Align ELSE stride

(* The bytes of a plane of w x h pixels, its borders and its slack.        *)
LengthOf(w, h) == RoundUp((h + 2 * RowPad) * StrideFor(w) + 2 * Align)

(* Where each plane lies in an allocation that starts at address "at".      *)
Planes(width, height, at) ==
    LET w == <<width, (width + 1) \div 2, (width + 1) \div 2>>
        h == <<height, (height + 1) \div 2, (height + 1) \div 2>>
        len == [p \in 1..3 |-> LengthOf(w[p], h[p])]
        base == <<0, len[1], len[1] + len[2]>>
        pad == (Align - (at % Align)) % Align
    IN [p \in 1..3 |->
          [stride |-> StrideFor(w[p]), base |-> base[p] + pad, len |-> len[p],
           origin |-> RowPad * StrideFor(w[p]) + ColPad]]

Allocated(width, height) ==
    LET h2 == (height + 1) \div 2   w2 == (width + 1) \div 2
    IN Align + LengthOf(width, height) + 2 * LengthOf(w2, h2)

(* The planes of a picture never overlap, start on a cache line whatever   *)
(* address the allocation has, and hold every pixel that decoding touches: *)
(* whole macroblocks, the row above with the corner on its left and four   *)
(* pixels past its right end, and the column on the left.                  *)
PlanesRight(width, height, at) ==
    LET P == Planes(width, height, at)
        size == <<16, 8, 8>>
        mbs(n) == (n + 15) \div 16
        Right(p) == size[p] * mbs(width)
        Below(p) == size[p] * mbs(height)
        At(p, x, y) == P[p].origin + y * P[p].stride + x
    IN /\ \A p \in 1..3 :
            /\ (P[p].base + at) % Align = 0
            /\ P[p].stride % 1024 # 0
            /\ At(p, -1, -1) >= 0
            /\ At(p, Right(p) + 3, -1) < At(p, -1, 0)
            /\ At(p, Right(p) - 1, Below(p) - 1) < P[p].len
            /\ At(p, Right(p) - 1, 0) < At(p, -1, 1)
       /\ \A p \in 1..2 : P[p].base + P[p].len <= P[p + 1].base
       /\ P[3].base + P[3].len <= Allocated(width, height)

----------------------------------------------------------------------------
(* The parts of the header.                                                *)

NoSegments == [enabled |-> FALSE, map |-> FALSE, absolute |-> FALSE,
               quant |-> <<0, 0, 0, 0>>, level |-> <<0, 0, 0, 0>>]
NoDeltas   == [enabled |-> FALSE, ref |-> 0, mode |-> 0]

BandOf  == <<0, 1, 2, 3, 6, 4, 5, 6, 6, 6, 6, 6, 6, 6, 6, 7>>
IndexesOf ==
    <<<<0>>, <<1>>, <<2>>, <<3>>, <<5>>, <<6>>, <<4, 7, 8, 9, 10, 11, 12, 13, 14>>, <<15>>>>
DefaultToken(band) == 100 + band

FreshTokens == [i \in 1..16 |-> DefaultToken(BandOf[i])]

WithTokens(token, updates) ==
    [i \in 1..16 |->
        LET band == CHOOSE b \in 1..8 : \E k \in DOMAIN IndexesOf[b] : IndexesOf[b][k] = i - 1
        IN IF updates[band] # 0 THEN updates[band] ELSE token[i]]

WithSegments(d, h) ==
    IF h.segment = <<>> THEN d
    ELSE LET s == h.segment[1]
             data == IF s.data = <<>> THEN d.segments
                     ELSE [d.segments EXCEPT !.absolute = s.data[1].absolute,
                                             !.quant = s.data[1].quant,
                                             !.level = s.data[1].level]
         IN [d EXCEPT !.segments = [data EXCEPT !.enabled = TRUE, !.map = s.map # <<>>],
                      !.segmentId = IF s.map = <<>> THEN @ ELSE s.map]

WithDeltas(d, h) ==
    IF h.deltas = <<>> THEN d
    ELSE LET u == h.deltas[1]
             one(old, new) == IF new = <<>> THEN old ELSE new[1]
         IN [d EXCEPT !.deltas = [enabled |-> TRUE, ref  |-> one(@.ref, u[1]),
                                                    mode |-> one(@.mode, u[2])]]

(* The level and interior limit of a segment, for I4 macroblocks or others. *)
Strength(d, h, s, i4) ==
    LET base == IF ~d.segments.enabled THEN h.level
                ELSE IF d.segments.absolute THEN d.segments.level[s]
                ELSE d.segments.level[s] + h.level
        delta == IF d.deltas.enabled
                 THEN d.deltas.ref + (IF i4 THEN d.deltas.mode ELSE 0) ELSE 0
        level == Clip(base + delta, 6)
        inner == IF h.sharpness = 0 THEN level
                 ELSE Least(level \div 2 ^ ((h.sharpness + 3) \div 4), 9 - h.sharpness)
    IN [level |-> level, inner |-> Greatest(inner, 1)]

Strengths(d, h) == [s \in 1..4 |-> [i4 \in BOOLEAN |-> Strength(d, h, s, i4)]]

DcTable == <<
    4, 5, 6, 7, 8, 9, 10, 10, 11, 12, 13, 14, 15, 16, 17, 17, 18, 19, 20, 20, 21, 21,
    22, 22, 23, 23, 24, 25, 25, 26, 27, 28, 29, 30, 31, 32, 33, 34, 35, 36, 37, 37, 38,
    39, 40, 41, 42, 43, 44, 45, 46, 46, 47, 48, 49, 50, 51, 52, 53, 54, 55, 56, 57, 58,
    59, 60, 61, 62, 63, 64, 65, 66, 67, 68, 69, 70, 71, 72, 73, 74, 75, 76, 76, 77, 78,
    79, 80, 81, 82, 83, 84, 85, 86, 87, 88, 89, 91, 93, 95, 96, 98, 100, 101, 102, 104,
    106, 108, 110, 112, 114, 116, 118, 122, 124, 126, 128, 130, 132, 134, 136, 138,
    140, 143, 145, 148, 151, 154, 157>>

AcTable == <<
    4, 5, 6, 7, 8, 9, 10, 11, 12, 13, 14, 15, 16, 17, 18, 19, 20, 21, 22, 23, 24, 25,
    26, 27, 28, 29, 30, 31, 32, 33, 34, 35, 36, 37, 38, 39, 40, 41, 42, 43, 44, 45, 46,
    47, 48, 49, 50, 51, 52, 53, 54, 55, 56, 57, 58, 60, 62, 64, 66, 68, 70, 72, 74, 76,
    78, 80, 82, 84, 86, 88, 90, 92, 94, 96, 98, 100, 102, 104, 106, 108, 110, 112, 114,
    116, 119, 122, 125, 128, 131, 134, 137, 140, 143, 146, 149, 152, 155, 158, 161,
    164, 167, 170, 173, 177, 181, 185, 189, 193, 197, 201, 205, 209, 213, 217, 221,
    225, 229, 234, 239, 245, 249, 254, 259, 264, 269, 274, 279, 284>>

Quantizer(d, h, s) ==
    LET base == IF ~d.segments.enabled THEN h.quant.yac
                ELSE IF d.segments.absolute THEN d.segments.quant[s]
                ELSE d.segments.quant[s] + h.quant.yac
        Dc(delta) == DcTable[Clip(base + delta, 7) + 1]
        Ac(delta) == AcTable[Clip(base + delta, 7) + 1]
    IN [y  |-> <<Dc(h.quant.ydc), Ac(0)>>,
        y2 |-> <<2 * Dc(h.quant.y2dc), Greatest((Ac(h.quant.y2ac) * 101581) \div 65536, 8)>>,
        uv |-> <<Least(Dc(h.quant.uvdc), 132), Ac(h.quant.uvac)>>]

Quantizers(d, h) == [s \in 1..4 |-> Quantizer(d, h, s)]

----------------------------------------------------------------------------
(* The partitions of the coefficients.                                     *)

Count(h)    == 2 ^ h.log
Table(h)    == 10 + h.size
TableEnd(h) == Table(h) + 3 * (Count(h) - 1)

RECURSIVE StartOf(_, _)
StartOf(h, i) == IF i = 1 THEN TableEnd(h) ELSE StartOf(h, i - 1) + h.sizes[i - 1]

PartitionsFit(h) == /\ TableEnd(h) <= h.total
                    /\ \A i \in 1..Count(h) : StartOf(h, i) <= h.total

SizeOf(h, i) == IF i < Count(h) THEN h.sizes[i] ELSE h.total - StartOf(h, i)

(* The start and size of every partition; those past the number in use     *)
(* keep what an earlier frame left.                                        *)
Layout(old, h) ==
    [i \in 1..8 |-> IF i <= Count(h) THEN <<StartOf(h, i), SizeOf(h, i)>> ELSE old[i]]

----------------------------------------------------------------------------
(* decode_frame_header and frame_init.  A result is [dec, status].          *)

FreshDecoder ==
    [segments |-> NoSegments, segmentId |-> <<255, 255, 255>>, deltas |-> NoDeltas,
     token |-> [i \in 1..16 |-> 0], simple |-> FALSE, level |-> 0, strengths |-> <<>>,
     quantizers |-> <<>>, count |-> 0, layout |-> [i \in 1..8 |-> <<0, 0>>],
     skip |-> FALSE, skipProb |-> 0, width |-> 0, height |-> 0, across |-> 0,
     picture |-> <<>>, deblock |-> FALSE, topModes |-> <<>>, topNnz |-> <<>>]

(* update_dimensions: buffers by the row are made again for another size.   *)
WithSize(d, h) ==
    IF h.width = d.width /\ h.height = d.height /\ d.picture # <<>> THEN d
    ELSE LET across == (h.width + 15) \div 16
         IN [d EXCEPT !.width = h.width, !.height = h.height, !.across = across,
                      !.picture = <<>>, !.topModes = [i \in 1..across |-> "dc"],
                      !.topNnz = [i \in 1..across |-> 0]]

\* The segments of the frame before.
WithResetTokens(d) == [d EXCEPT !.token = FreshTokens, !.deltas = NoDeltas]

WithReset(d) == [d EXCEPT !.token = FreshTokens, !.segments = NoSegments, !.deltas = NoDeltas]

(* Up to the partitions, and from there to the end.                        *)
ToPartitions(d, h) ==
    LET e == WithDeltas(WithSegments(WithSize(WithReset(d), h), h), h)
    IN [e EXCEPT !.simple = h.simple, !.level = h.level, !.count = Count(h),
                 !.strengths = Strengths(e, h)]

FromPartitions(d, h) ==
    [d EXCEPT !.layout = Layout(@, h), !.quantizers = Quantizers(d, h),
              !.token = WithTokens(@, h.tokens), !.skip = h.skip # <<>>,
              !.skipProb = IF h.skip = <<>> THEN @ ELSE h.skip[1]]

DecodeHeader(d, h, have) ==
    LET at(e, s) == [dec |-> e, status |-> s]
        e == ToPartitions(d, h)
    IN CASE ~h.key -> at(d, "invalid")
         [] h.key /\ h.profile > 3 -> at(d, "invalid")
         [] h.key /\ h.profile <= 3 /\ ~h.shown -> at(d, "unsupported")
         [] OTHER ->
              IF Table(h) > h.total THEN at(d, "invalid")
              ELSE IF have < Table(h) THEN at(d, "more")
              ELSE IF ~h.startCode THEN at(d, "invalid")
              ELSE IF h.width = 0 \/ h.height = 0 THEN at(WithReset(d), "invalid")
              ELSE IF TableEnd(h) > h.total THEN at(e, "invalid")
              ELSE IF have < TableEnd(h) THEN at(e, "more")
              ELSE IF ~PartitionsFit(h) THEN at(e, "invalid")
              ELSE at(FromPartitions(e, h), "done")

(* frame_init: the picture, and the contexts of the first row.             *)
FrameInit(d, h, have) ==
    IF h.total < 10 THEN [dec |-> d, status |-> "invalid"]
    ELSE IF have < 10 THEN [dec |-> d, status |-> "more"]
    ELSE LET r == DecodeHeader(d, h, have)
             e == r.dec
         IN IF r.status # "done" THEN r
            ELSE [status |-> "done",
                  dec |-> [e EXCEPT !.picture = <<e.width, e.height>>,
                                    !.deblock = e.level # 0,
                                    !.topNnz = [i \in DOMAIN @ |-> 0],
                                    !.topModes = [i \in DOMAIN @ |-> "dc"]]]

----------------------------------------------------------------------------
HaveOf(h) == {n \in Cuts : n <= h.total} \cup {h.total}

Init == /\ dec = FreshDecoder
        /\ frame \in Headers
        /\ avail = 0
        /\ status = "more"
        /\ frames = 1

(* frame_init is called again with the bytes that have come since.         *)
Call == /\ status = "more"
        /\ avail < frame.total
        /\ \E n \in HaveOf(frame) :
             /\ n > avail
             /\ avail' = n
             /\ LET r == FrameInit(dec, frame, n)
                IN dec' = r.dec /\ status' = r.status
        /\ UNCHANGED <<frame, frames>>

(* The decoder goes on to another frame; decoding the one before has left  *)
(* its last row of macroblocks in the contexts.                            *)
NextFrame == /\ frames < MaxFrames
             /\ frame' \in Headers
             /\ frames' = frames + 1
             /\ avail' = 0
             /\ status' = "more"
             /\ dec' = IF status = "done"
                       THEN [dec EXCEPT !.topNnz = [i \in DOMAIN @ |-> 511],
                                        !.topModes = [i \in DOMAIN @ |-> "tm"]]
                       ELSE dec

Next == Call \/ NextFrame
Spec == Init /\ [][Next]_vars

----------------------------------------------------------------------------
(* What decoding the rows reads of the decoder.                            *)
Reads(d) ==
    [segments |-> d.segments, token |-> d.token, simple |-> d.simple,
     strengths |-> d.strengths, quantizers |-> d.quantizers, deblock |-> d.deblock,
     segmentId |-> IF d.segments.map THEN d.segmentId ELSE <<>>,
     skipProb |-> IF d.skip THEN <<d.skipProb>> ELSE <<>>,
     partitions |-> SubSeq(d.layout, 1, d.count), picture |-> d.picture,
     size |-> <<d.width, d.height, d.across>>, topModes |-> d.topModes, topNnz |-> d.topNnz]

(* A header leaves the decoder as it would a new one, whatever frames it   *)
(* decoded before and however often the header was begun without enough    *)
(* data.                                                                   *)
ReadAfresh ==
    status = "done" => Reads(dec) = Reads(FrameInit(FreshDecoder, frame, frame.total).dec)

(* The decoder asks for more data only while the frame has more to come,    *)
(* and a frame that is whole gets the verdict a new decoder would give it.  *)
NeverWaitsInVain ==
    avail = frame.total =>
        status # "more" /\ status = FrameInit(FreshDecoder, frame, frame.total).status

(* The partitions in use lie one after the other from the table of their   *)
(* sizes to the end of the frame.                                          *)
PartitionsTile ==
    status = "done" =>
        /\ dec.layout[1][1] = TableEnd(frame)
        /\ \A i \in 1..dec.count - 1 :
             dec.layout[i + 1][1] = dec.layout[i][1] + dec.layout[i][2]
        /\ dec.layout[dec.count][1] + dec.layout[dec.count][2] = frame.total
        /\ dec.layout[dec.count][2] >= 0

(* Every quantizer is positive and fits the sixteen bits it is stored in,  *)
(* the filter's levels index its table of thresholds, and the limit of a   *)
(* macroblock's edge fits a byte.                                          *)
InRange ==
    status = "done" =>
        \A s \in 1..4 :
           /\ \A q \in {dec.quantizers[s].y, dec.quantizers[s].y2, dec.quantizers[s].uv} :
                \A i \in 1..2 : q[i] \in 1..32767
           /\ \A i4 \in BOOLEAN :
                LET f == dec.strengths[s][i4]
                IN /\ f.level \in 0..63
                   /\ f.inner \in 1..63
                   /\ 2 * f.level + f.inner + 4 <= 255
           /\ dec.quantizers[s].uv[1] <= 132 /\ dec.quantizers[s].y2[2] >= 8

============================================================================
