---------------------------- MODULE Macroblocks ----------------------------
(***************************************************************************)
(* The modes and coefficients of a lossy frame, macroblock by macroblock:   *)
(* Decoder::decode_mb_mode, Coeffs::parse_mb and decode_mb_coeffs of        *)
(* src/vp8/mod.rs, and the transforms that intra_predict and idct_mb then  *)
(* apply.  Parsing is right only in its contexts, which are packed in a    *)
(* few bits a column, carried from macroblock to macroblock and put back   *)
(* when one has to be parsed again; reconstruction has to use up every     *)
(* coefficient, for the next macroblock is parsed into the same blocks.    *)
(*                                                                         *)
(* A block's coefficients are a pair: the first, and whether others are    *)
(* there.  What the transforms compute is LossyPixels' subject.            *)
(***************************************************************************)
EXTENDS Integers, Sequences, FiniteSets

CONSTANTS Across, Down,  \* macroblocks in a row, and rows
          Coded,         \* what a macroblock of the file may be
          Torn,          \* those the data may run out in
          MaxRetries     \* bound: macroblocks parsed again for want of data

(* A coded macroblock c:                                                   *)
(*   c.i4      whether it has a mode for each luma block                   *)
(*   c.modes   the mode of each of the 16 blocks (c.i4), or one mode        *)
(*   c.skip    whether it is coded as having no coefficients               *)
(*   c.y2      the coefficients of the DCs' block, ~c.i4                    *)
(*   c.blocks  the coefficients of the 24 blocks                           *)
(* Coefficients: [n, dc, ac], n one past the last one coded, 0 for none.   *)

VARIABLES x, y,         \* the macroblock at hand
          top, left,    \* non-zero flags: by column, and of the row
          topModes, leftModes,
          block,        \* the 24 blocks, each [dc, ac]
          dcBlock,      \* the block of the luma DCs
          count,        \* nzc: one past the last coefficient of each block
          mb,           \* [i4, skip, modes] as parsed
          step,         \* "parse", "reconstruct" or "end"
          coded,        \* history: what has been parsed, by position
          seen,         \* history: the contexts the last one was parsed in
          added,        \* history: what reconstruction added to each block
          retries

vars == <<x, y, top, left, topModes, leftModes, block, dcBlock, count, mb, step,
          coded, seen, added, retries>>

Empty == [n |-> 0, dc |-> 0, ac |-> FALSE]

(* What a block holds: a first coefficient <<d, a>>, its own or the share   *)
(* of a block of DCs with d and a in it, and whether others are not zero.   *)
Zero       == [dc |-> <<0, FALSE>>, ac |-> FALSE]
ValueOf(k) == [dc |-> <<k.dc, FALSE>>, ac |-> k.ac]

(* Only coefficients that are not zero are written.                        *)
Read(old, k) == [dc |-> IF k.dc # 0 THEN <<k.dc, FALSE>> ELSE old.dc,
                 ac |-> k.ac \/ old.ac]

----------------------------------------------------------------------------
(* The flags: luma 0-3, U 4-5, V 6-7, Y2 8; one above and one to the left. *)

Y2 == 24
FlagAbove(b) == IF b = Y2 THEN 8
                ELSE IF b < 16 THEN b % 4
                ELSE 4 + 2 * ((b - 16) \div 4) + (b % 2)
\* The column of a chroma block for its row.
FlagLeftColumn(b)  == IF b = Y2 THEN 8
                      ELSE IF b < 16 THEN b \div 4
                      ELSE 4 + 2 * ((b - 16) \div 4) + (b % 2)

FlagLeft(b)  == IF b = Y2 THEN 8
                ELSE IF b < 16 THEN b \div 4
                ELSE 4 + 2 * ((b - 16) \div 4) + ((b \div 2) % 2)

Context(nz, b) == (IF FlagAbove(b) \in nz.top THEN 1 ELSE 0)
                + (IF FlagLeft(b) \in nz.left THEN 1 ELSE 0)

Flagged(nz, b, n) ==
    IF n # 0 THEN [top |-> nz.top \cup {FlagAbove(b)}, left |-> nz.left \cup {FlagLeft(b)}]
             ELSE [top |-> nz.top \ {FlagAbove(b)}, left |-> nz.left \ {FlagLeft(b)}]

(* The flags before blocks 0, 1, ..., 24, from those before the first.     *)
RECURSIVE FlagsFrom(_, _, _)
FlagsFrom(nz, b, c) ==
    IF b = 24 THEN <<nz>> ELSE <<nz>> \o FlagsFrom(Flagged(nz, b, c.blocks[b].n), b + 1, c)

----------------------------------------------------------------------------
(* decode_intra4x4_modes: the modes read, each in the context of the mode  *)
(* above it and the one on its left.                                       *)
ModeContexts(c, above, before) ==
    [b \in 0..15 |-> <<IF b < 4 THEN above[b + 1] ELSE c.modes[b - 4],
                       IF b % 4 = 0 THEN before[b \div 4 + 1] ELSE c.modes[b - 1]>>]

Column(modes, x0) == [k \in 1..4 |-> modes[4 * (k - 1) + x0]]
Row(modes, y0)    == [k \in 1..4 |-> modes[4 * y0 + k - 1]]
AllAs(mode)       == [k \in 1..4 |-> mode]

(* The transform of a block with count n: the first coefficient alone, or  *)
(* all of them; each clears what it uses.                                  *)
DcOnly(k) == [k EXCEPT !.ac = FALSE]
Transformed(k, n) == IF n = 0 THEN Zero ELSE IF n = 1 THEN DcOnly(k) ELSE k
Cleared(k, n)     == IF n = 0 THEN k ELSE IF n = 1 THEN [k EXCEPT !.dc = Zero.dc] ELSE Zero

(* decode_mb_coeffs: flags, counts, blocks and the contexts they were read  *)
(* in.  The luma blocks start at their second coefficient when the DCs     *)
(* have a block of their own, whose transform then fills them in.          *)
Coefficients(c, nz, old, oldDcs) ==
    LET first == IF c.i4 THEN nz ELSE Flagged(nz, Y2, c.y2.n)
        flags == FlagsFrom(first, 0, c)
        dcs == IF c.i4 THEN Empty ELSE c.y2
        any == \E b \in 0..23 : c.blocks[b].n # 0
        read == [b \in 0..23 |-> Read(old[b], c.blocks[b])]
        readDcs == Read(oldDcs, dcs)
        spread == <<readDcs.dc[1], dcs.n > 1 /\ readDcs.ac>>
    IN [nz |-> flags[25],
        y2Context |-> IF c.i4 THEN <<>> ELSE <<Context(nz, Y2)>>,
        contexts |-> [b \in 0..23 |-> Context(flags[b + 1], b)],
        count |-> [b \in 0..23 |-> c.blocks[b].n + (IF b < 16 /\ dcs.n # 0 THEN 1 ELSE 0)],
        block |-> [b \in 0..23 |-> IF b < 16 /\ dcs.n # 0
                                   THEN [read[b] EXCEPT !.dc = spread] ELSE read[b]],
        dcBlock |-> Cleared(readDcs, dcs.n),
        skip |-> dcs.n = 0 /\ ~any]

----------------------------------------------------------------------------
InitOf(across) ==
        /\ x = 0 /\ y = 0
        /\ top = [i \in 0..across - 1 |-> {}] /\ left = {}
        /\ topModes = [i \in 0..across - 1 |-> AllAs("dc")]
        /\ leftModes = AllAs("dc")
        /\ block = [b \in 0..23 |-> Zero]
        /\ dcBlock = Zero
        /\ count = [b \in 0..23 |-> 0]
        /\ mb = [i4 |-> FALSE, skip |-> FALSE]
        /\ step = "parse"
        /\ coded = <<>>
        /\ seen = <<>>
        /\ added = <<>>
        /\ retries = 0

Init == InitOf(Across)

(* parse_mb: modes, then coefficients, then what a macroblock without any  *)
(* does to the flags.                                                      *)
ParseMacroblock(c) ==
    LET nz == [top |-> top[x], left |-> left]
    IN \E r \in {Coefficients(c, nz, block, dcBlock)} :
    LET skip == c.skip \/ r.skip
        after == IF c.skip THEN nz ELSE r.nz
        keep == IF c.i4 THEN {8} ELSE {}
    IN /\ top' = [top EXCEPT ![x] = IF skip THEN after.top \cap keep ELSE after.top]
       /\ left' = IF skip THEN after.left \cap keep ELSE after.left
       /\ block' = IF c.skip THEN block ELSE r.block
       /\ dcBlock' = IF c.skip THEN dcBlock ELSE r.dcBlock
       /\ count' = IF c.skip THEN count ELSE r.count
       /\ mb' = [i4 |-> c.i4, skip |-> skip]
       /\ topModes' = [topModes EXCEPT ![x] = IF c.i4 THEN Row(c.modes, 3)
                                              ELSE AllAs(c.modes[0])]
       /\ leftModes' = IF c.i4 THEN Column(c.modes, 3) ELSE AllAs(c.modes[0])
       /\ seen' = [modes |-> IF c.i4 THEN ModeContexts(c, topModes[x], leftModes) ELSE <<>>,
                   y2 |-> IF c.skip THEN <<>> ELSE r.y2Context,
                   blocks |-> IF c.skip THEN <<>> ELSE r.contexts]
       /\ coded' = Append(coded, c)

Parse == /\ step = "parse"
         /\ \E c \in Coded : ParseMacroblock(c)
         /\ step' = "reconstruct"
         /\ UNCHANGED <<x, y, added, retries>>

\* What was read of the macroblock is left in its blocks.
OutOfDataKeeps ==
    /\ step = "parse" /\ retries < MaxRetries
    /\ \E c \in Torn : /\ block' = [b \in 0..23 |-> Read(block[b], c.blocks[b])]
                       /\ UNCHANGED <<count, mb>>
    /\ retries' = retries + 1
    /\ UNCHANGED <<x, y, top, left, topModes, leftModes, dcBlock, step, coded, seen, added>>

(* The data runs out in a macroblock of a file that is still arriving:     *)
(* restore_mb_state() puts the contexts back and clears what was read, up  *)
(* to some block.  The counts and the skip flag are left.                  *)
OutOfData ==
    /\ step = "parse" /\ retries < MaxRetries
    /\ \E c \in Torn :
         /\ count' = [b \in 0..23 |-> IF b < 20 THEN c.blocks[b].n ELSE count[b]]
         /\ mb' = [i4 |-> c.i4, skip |-> FALSE]
    /\ block' = [b \in 0..23 |-> Zero]
    /\ dcBlock' = Zero
    /\ retries' = retries + 1
    /\ UNCHANGED <<x, y, top, left, topModes, leftModes, step, coded, seen, added>>

(* idct_mb() takes four counts at a time: four blocks of which none has    *)
(* more than a first coefficient go to one call, which transforms all four  *)
(* whether they have it or not.                                            *)
Quad(b) == {4 * (b \div 4) + k : k \in 0..3}
\* Four blocks left out for the first of them.
ByFourFirst(n, b) == IF n[4 * (b \div 4)] = 0 THEN 0
                     ELSE IF \A k \in Quad(b) : n[k] <= 1 THEN 1 ELSE n[b]

ByFour(n, b) == IF \A k \in Quad(b) : n[k] = 0 THEN 0
                ELSE IF \A k \in Quad(b) : n[k] <= 1 THEN 1 ELSE n[b]

Reconstruct ==
    LET n == IF mb.i4 /\ mb.skip THEN [b \in 0..23 |-> IF b < 16 THEN 0 ELSE count[b]]
             ELSE count
        by == [b \in 0..23 |->
                 IF b < 16 /\ mb.i4 THEN n[b]       \* intra_predict, block by block
                 ELSE IF mb.skip THEN 0 ELSE ByFour(n, b)]
        lastColumn == x = Across - 1
    IN /\ step = "reconstruct"
       /\ count' = n
       /\ added' = [b \in 0..23 |-> Transformed(block[b], by[b])]
       /\ block' = [b \in 0..23 |-> Cleared(block[b], by[b])]
       /\ x' = IF lastColumn THEN 0 ELSE x + 1
       /\ y' = IF lastColumn THEN y + 1 ELSE y
       /\ left' = IF lastColumn THEN {} ELSE left       \* start_row
       /\ leftModes' = IF lastColumn THEN AllAs("dc") ELSE leftModes
       /\ step' = IF lastColumn /\ y = Down - 1 THEN "end" ELSE "parse"
       /\ UNCHANGED <<top, topModes, dcBlock, mb, coded, seen, retries>>

Next == Parse \/ OutOfData \/ Reconstruct
Spec == Init /\ [][Next]_vars

----------------------------------------------------------------------------
(* The format's contexts, from the macroblocks around.                     *)

CodedAt(i, j) == coded[j * Across + i + 1]
InFrame(i, j) == i >= 0 /\ j >= 0

HasCoefficients(c, b) == ~c.skip /\ c.blocks[b].n # 0

(* Whether the block above (dx, dy) = (0, -1), or to the left, has any.    *)
Neighbour(i, j, b, up) ==
    LET size == IF b < 16 THEN 4 ELSE 2
        base == IF b < 16 THEN 0 ELSE IF b < 20 THEN 16 ELSE 20
        col == (b - base) % size    row == (b - base) \div size
        in == IF up THEN row > 0 ELSE col > 0
        nb == base + IF up THEN (IF row > 0 THEN row - 1 ELSE size - 1) * size + col
                     ELSE row * size + (IF col > 0 THEN col - 1 ELSE size - 1)
        i0 == IF up \/ in THEN i ELSE i - 1
        j0 == IF ~up \/ in THEN j ELSE j - 1
    IN IF InFrame(i0, j0) /\ HasCoefficients(CodedAt(i0, j0), nb) THEN 1 ELSE 0

(* The nearest macroblock above, or to the left, that has a block of DCs.  *)
DcNeighbour(i, j, up) ==
    LET path == IF up THEN {<<i, k>> : k \in 0..j - 1} ELSE {<<k, j>> : k \in 0..i - 1}
        with == {p \in path : ~CodedAt(p[1], p[2]).i4}
        near == CHOOSE p \in with : \A q \in with : q[1] <= p[1] /\ q[2] <= p[2]
    IN IF with = {} THEN 0
       ELSE LET c == CodedAt(near[1], near[2])
            IN IF ~c.skip /\ c.y2.n # 0 THEN 1 ELSE 0

ModeAt(i, j, b) == IF ~InFrame(i, j) THEN "dc"
                   ELSE IF CodedAt(i, j).i4 THEN CodedAt(i, j).modes[b]
                   ELSE CodedAt(i, j).modes[0]

(* A macroblock is parsed in the contexts the format gives it: the modes   *)
(* and the coefficients of the blocks above and to the left, and for the   *)
(* DCs those of the last macroblock that had any.                          *)
ParsedInContext ==
    step = "reconstruct" =>
        LET c == CodedAt(x, y)
        IN /\ c.i4 => \A b \in 0..15 :
                seen.modes[b] = <<IF b < 4 THEN ModeAt(x, y - 1, b + 12) ELSE c.modes[b - 4],
                                  IF b % 4 = 0 THEN ModeAt(x - 1, y, b + 3) ELSE c.modes[b - 1]>>
           /\ ~c.skip => \A b \in 0..23 :
                seen.blocks[b] = Neighbour(x, y, b, TRUE) + Neighbour(x, y, b, FALSE)
           /\ (~c.skip /\ ~c.i4) =>
                seen.y2 = <<DcNeighbour(x, y, TRUE) + DcNeighbour(x, y, FALSE)>>

(* Every coefficient coded is added once, in its own block, and nothing    *)
(* else is; the next macroblock finds the blocks empty.                    *)
Residual(c, b) ==
    IF c.skip THEN Zero
    ELSE LET own == ValueOf(c.blocks[b])
         IN IF c.i4 \/ b >= 16 \/ c.y2.n = 0 THEN own
            ELSE [own EXCEPT !.dc = <<c.y2.dc, c.y2.ac>>]

AddedOnce ==
    step \in {"parse", "end"} =>
        /\ \A b \in 0..23 : block[b] = Zero
        /\ dcBlock = Zero
        /\ coded # <<>> => \A b \in 0..23 : added[b] = Residual(coded[Len(coded)], b)

(* The inner edges are filtered unless the macroblock has one mode and no   *)
(* coefficient (filter_level_for_mb).                                      *)
InnerFilter == ~mb.skip \/ mb.i4
FilteredInside ==
    step = "reconstruct" =>
        LET c == CodedAt(x, y)
        IN InnerFilter <=> (c.i4 \/ (~c.skip /\ (c.y2.n # 0 \/ \E b \in 0..23 : c.blocks[b].n # 0)))

MacroblocksRight == ParsedInContext /\ AddedOnce /\ FilteredInside
============================================================================
