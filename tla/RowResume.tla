------------------------------- MODULE RowResume -------------------------------
(***************************************************************************)
(* The rows of a lossy still that is still arriving: frame_init(),         *)
(* extend() and the resumable decode_rows_planes() of src/vp8/mod.rs, as   *)
(* vp8_lossy_step() of src/driver/lossy.rs calls them.                     *)
(*                                                                         *)
(* A macroblock takes its modes from the first partition, which is all     *)
(* there before the frame starts, and its coefficients from the partition  *)
(* of its row, read through a window that ends where the data does.  One   *)
(* whose coefficients ran past the window is undone and parsed again when  *)
(* more has arrived.  Reconstruction predicts from its neighbours as they  *)
(* are before the loop filter, which therefore runs a macroblock or two    *)
(* and a row behind; rows_finalized() is what it has left for good.        *)
(*                                                                         *)
(* The contents of a macroblock are where it was parsed from: how far the  *)
(* two coders had got, and which macroblocks had last written the contexts *)
(* above it and to its left.                                               *)
(***************************************************************************)
EXTENDS Integers, FiniteSets

CONSTANTS
    W, H,           \* mb_width and mb_height
    MaxPartitions,  \* MAX_PARTITIONS
    InitBytes,      \* the bytes a coder needs to start: none in 64 bits, else 3
    Files,          \* the frames decoded, see FilesAssumption
    MaxReopened,    \* bound: the frames decoded after the first
    MaxFailures     \* bound: the failed calls that are followed by another

Mb    == (0..H - 1) \X (0..W - 1)
Parts == 0..MaxPartitions - 1
Filters == {"off", "simple", "normal"}

ASSUME SizeAssumption ==
    /\ W \in Nat \ {0} /\ H \in Nat \ {0} /\ MaxPartitions \in Nat \ {0}
    /\ InitBytes \in Nat /\ MaxReopened \in Nat /\ MaxFailures \in Nat

\* need[m]: the bytes of its partition read once m is parsed, all that came
\* before it included.  modesDry: the macroblocks before the first partition
\* runs dry.
ASSUME FilesAssumption ==
    \A f \in Files :
        /\ f.partitions \in 1..MaxPartitions
        /\ f.need \in [Mb -> Nat] /\ f.size \in [0..f.partitions - 1 -> Nat]
        /\ f.modesDry \in 0..W * H
        /\ f.filter \in Filters
        /\ \A m, n \in Mb :
              /\ m[1] % f.partitions = n[1] % f.partitions
              /\ m[1] < n[1] \/ (m[1] = n[1] /\ m[2] <= n[2])
              => f.need[m] <= f.need[n]

VARIABLES
    file, avail, reopened,  \* the frame's chunk and how much of it has arrived
    active, past, status,   \* vp8_active, whether pos is past the chunk, and
                            \* what the last call came to
    call, at, check,        \* the row loop: its place, its macroblock, `check`
    mbY, mbX, rowsDone,     \* mb_y, mb_x and mb_rows_done
    ready, clamped,         \* partition_ready and partition_clamped
    modes, coder,           \* the coders: c and coeff_partition
    modeTop, modeLeft,      \* intra4x4_pred_mode_top and _left
    nnzTop, nnzLeft,        \* top_nnz and left_nnz
    strength,               \* filter_strength, two rows by parity
    parsed,                 \* what each macroblock was reconstructed from
    luma, chroma,           \* the strength each was filtered with
    spoiled,                \* history: macroblocks predicted from filtered pixels
    failures                \* how many calls the frame has failed

inVars      == <<file, avail, reopened>>
loopVars    == <<call, at, check>>
savedVars   == <<mbY, mbX, rowsDone>>
partVars    == <<ready, clamped>>
contextVars == <<modes, coder, modeTop, modeLeft, nnzTop, nnzLeft>>
pixelVars   == <<strength, parsed, luma, chroma, spoiled>>
callVars    == <<active, past, status, failures>>
vars == <<inVars, loopVars, savedVars, partVars, contextVars, pixelVars, callVars>>

None     == <<>>
Unopened == [read |-> 0, over |-> FALSE, end |-> 0]

PartOf(y) == y % file.partitions
Raster(m) == m[1] * W + m[2]
Deblock   == file.filter # "off"

-----------------------------------------------------------------------------
(* The partitions and their windows.                                       *)

InUse == 0..file.partitions - 1

Before[p \in Parts] == IF p = 0 THEN 0 ELSE Before[p - 1] + file.size[p - 1]

Total == Before[file.partitions - 1] + file.size[file.partitions - 1]

Have(p)   == avail - Before[p]
Window(p) == IF Have(p) >= file.size[p] THEN file.size[p] ELSE Have(p)
Opens(p)  == Have(p) >= file.size[p] \/ Have(p) >= InitBytes

\* open_partitions(), where those in `rdy` are started and `clm` clamped.
OpenPartitions(rdy, clm) ==
    LET opened == {p \in InUse : Opens(p)} IN
    /\ ready' = rdy \cup opened
    /\ clamped' = (clm \ opened) \cup {p \in opened : Window(p) < file.size[p]}
    /\ coder' = [p \in Parts |->
                    IF p \notin opened THEN coder[p]
                    ELSE IF p \in rdy THEN [coder[p] EXCEPT !.end = Window(p)]
                    ELSE [Unopened EXCEPT !.end = Window(p)]]
-----------------------------------------------------------------------------
(* Pixels, in boxes of a plane's own coordinates.                          *)

Box(x0, x1, y0, y1) == [x0 |-> x0, x1 |-> x1, y0 |-> y0, y1 |-> y1]

Meet(a, b) == a.x0 <= b.x1 /\ b.x0 <= a.x1 /\ a.y0 <= b.y1 /\ b.y0 <= a.y1

\* A macroblock is predicted from the column left of it and the row above it,
\* corner included, and in luma from four pixels beyond that row's end.
Reads(n, m) ==
    LET x == n * m[2]
        y == n * m[1]
        beyond == IF n = 16 /\ m[2] < W - 1 THEN 4 ELSE 0
    IN {Box(x - 1, x - 1, y, y + n - 1), Box(x - 1, x + n - 1 + beyond, y - 1, y - 1)}

\* The filter changes `out` pixels on either side of a macroblock's edge, and
\* inside it all but the last `keep` of a row or column.
Out(n)  == IF file.filter = "simple" THEN 1 ELSE 3
Keep(n) == IF file.filter = "simple" THEN 3 ELSE 2

Writes(n, m) ==
    LET x == n * m[2]
        y == n * m[1]
        left == IF m[2] = 0 THEN x ELSE x - Out(n)
        up   == IF m[1] = 0 THEN y ELSE y - Out(n)
    IN IF n = 8 /\ file.filter = "simple" THEN {}
       ELSE {Box(left, x + n - 1 - Keep(n), y, y + n - 1),
             Box(x, x + n - 1, up, y + n - 1 - Keep(n))}

Filtered(f) == {m \in Mb : f[m] # None}

\* Predicting m would read what filtering has changed.
Spoils(m, l, c) ==
    \/ \E f \in Filtered(l), r \in Reads(16, m) : \E w \in Writes(16, f) : Meet(r, w)
    \/ \E f \in Filtered(c), r \in Reads(8, m) : \E w \in Writes(8, f) : Meet(r, w)

\* filter_mb_at() for each of S, in order.
FilterAt(f, S, str) == [m \in Mb |-> IF m \in S THEN str[m[1] % 2][m[2]] ELSE f[m]]
-----------------------------------------------------------------------------
(* vp8_lossy_step(): frame_init() or extend(), then decode_rows().         *)

Arrive ==
    /\ call = "idle" /\ avail < Total
    /\ avail' \in avail + 1..Total
    /\ UNCHANGED <<file, reopened, loopVars, savedVars, partVars, contextVars,
                   pixelVars, callVars>>

\* The frame header has not all arrived.
HeaderNeedsMore ==
    /\ call = "idle" /\ ~active /\ ~past /\ status # "done" /\ avail = -1
    /\ status' = "more"
    /\ UNCHANGED <<inVars, loopVars, savedVars, partVars, contextVars, pixelVars,
                   active, past, failures>>

\* The chunk is handed to the decoder, to go on with later (vp8_lossy_step) or
\* not (vp8_lossy_decode_frame).  Once it is all there it is handed over once:
\* next_picture() moves pos past it first.
Call(resumable) ==
    /\ call' = "row"
    /\ active' = resumable
    /\ past' = (avail = Total)

\* A frame_init() that takes the partitions opened before for its own.
FrameInitKeepsReady ==
    /\ call = "idle" /\ ~active /\ ~past /\ status # "done" /\ avail >= 0
    /\ OpenPartitions(ready, {})
    /\ modes' = [read |-> 0, over |-> FALSE]
    /\ modeTop' = [x \in 0..W - 1 |-> None] /\ nnzTop' = [x \in 0..W - 1 |-> None]
    /\ mbX' = 0 /\ mbY' = 0 /\ rowsDone' = 0
    /\ Call(avail < Total) /\ at' = <<0, 0>>
    /\ UNCHANGED <<inVars, check, modeLeft, nnzLeft, pixelVars, status, failures>>

FrameInit ==
    /\ call = "idle" /\ ~active /\ ~past /\ status # "done" /\ avail >= 0
    /\ OpenPartitions({}, {})
    /\ modes' = [read |-> 0, over |-> FALSE]
    /\ modeTop' = [x \in 0..W - 1 |-> None] /\ nnzTop' = [x \in 0..W - 1 |-> None]
    /\ mbX' = 0 /\ mbY' = 0 /\ rowsDone' = 0
    /\ Call(avail < Total) /\ at' = <<0, 0>>
    /\ UNCHANGED <<inVars, check, modeLeft, nnzLeft, pixelVars, status, failures>>

Extend ==
    /\ call = "idle" /\ active /\ ~past
    /\ failures <= MaxFailures
    /\ OpenPartitions(ready, clamped)
    /\ Call(TRUE) /\ at' = <<mbY, mbX>>
    /\ UNCHANGED <<inVars, check, savedVars, modes, modeTop, modeLeft, nnzTop,
                   nnzLeft, pixelVars, status, failures>>

\* To ask for more of a whole chunk is an error.
Return(s) ==
    /\ call' = "idle"
    /\ status' = IF s = "more" /\ past THEN "error" ELSE s
    /\ active' = (active /\ s # "done")
    /\ failures' = failures + (IF status' = "error" THEN 1 ELSE 0)
    /\ UNCHANGED past

\* Before a row: its partition has to be open.  The row above left mb_x at 0,
\* so only the first row of a call may start in the middle.
PartitionNeedsMore ==
    /\ call = "row" /\ at[1] < H
    /\ PartOf(at[1]) \notin ready
    /\ mbX' = 0 /\ mbY' = at[1]
    /\ Return("more")
    /\ UNCHANGED <<inVars, at, check, rowsDone, partVars, contextVars, pixelVars>>

StartRow ==
    /\ call = "row" /\ at[1] < H
    /\ PartOf(at[1]) \in ready
    /\ check' = (PartOf(at[1]) \in clamped)
    /\ IF mbX = 0 THEN modeLeft' = None /\ nnzLeft' = None
                  ELSE UNCHANGED <<modeLeft, nnzLeft>>
    /\ call' = "mb" /\ at' = <<at[1], mbX>>
    /\ UNCHANGED <<inVars, savedVars, partVars, modes, coder, modeTop, nnzTop,
                   pixelVars, callVars>>

\* The coefficients of the macroblock in hand run past their coder's window.
Overruns(m) == coder[PartOf(m[1])].over \/ file.need[m] > coder[PartOf(m[1])].end

\* To go on behind the macroblock that ran past the window.
MbNeedsMoreSkips ==
    /\ call = "mb" /\ at[2] < W
    /\ check /\ Overruns(at)
    /\ mbX' = at[2] + 1 /\ mbY' = at[1]
    /\ Return("more")
    /\ UNCHANGED <<inVars, at, check, rowsDone, partVars, contextVars, pixelVars>>

\* To leave its partition's coder overrun.
MbNeedsMoreOverrun ==
    /\ call = "mb" /\ at[2] < W
    /\ check /\ Overruns(at)
    /\ mbX' = at[2] /\ mbY' = at[1]
    /\ coder' = [coder EXCEPT ![PartOf(at[1])].over = TRUE]
    /\ Return("more")
    /\ UNCHANGED <<inVars, at, check, rowsDone, partVars, modes, modeTop, modeLeft,
                   nnzTop, nnzLeft, pixelVars>>

\* To leave the modes read, the first partition being whole.
MbNeedsMoreKeepsModes ==
    /\ call = "mb" /\ at[2] < W
    /\ check /\ Overruns(at)
    /\ mbX' = at[2] /\ mbY' = at[1]
    /\ modes' = [read |-> modes.read + 1, over |-> modes.over \/ Raster(at) >= file.modesDry]
    /\ Return("more")
    /\ UNCHANGED <<inVars, at, check, rowsDone, partVars, coder, modeTop, modeLeft,
                   nnzTop, nnzLeft, pixelVars>>

\* parse_mb() of one that ran past a clamped window, and restore_mb_state().
MbNeedsMore ==
    /\ call = "mb" /\ at[2] < W
    /\ check /\ Overruns(at)
    /\ mbX' = at[2] /\ mbY' = at[1]
    /\ Return("more")
    /\ UNCHANGED <<inVars, at, check, rowsDone, partVars, contextVars, pixelVars>>

\* The parse of a macroblock that stays, contexts and coders moved on.
Parse(m) ==
    /\ modes' = [read |-> modes.read + 1, over |-> modes.over \/ Raster(m) >= file.modesDry]
    /\ coder' = [coder EXCEPT ![PartOf(m[1])] =
                    [read |-> @.read + 1, over |-> Overruns(m), end |-> @.end]]
    /\ modeTop' = [modeTop EXCEPT ![m[2]] = m] /\ modeLeft' = m
    /\ nnzTop' = [nnzTop EXCEPT ![m[2]] = m] /\ nnzLeft' = m
    /\ parsed' = [parsed EXCEPT ![m] =
                    [modes |-> modes.read, part |-> coder[PartOf(m[1])].read,
                     above |-> <<modeTop[m[2]], nnzTop[m[2]]>>,
                     beside |-> <<modeLeft, nnzLeft>>]]

\* Chroma filtered as soon as the macroblock below is reached.
ReconstructChromaEarly(m) ==
    LET y == m[1]
        x == m[2]
        c == IF Deblock /\ y > 0 THEN FilterAt(chroma, {<<y - 1, x>>}, strength) ELSE chroma
        s == IF Deblock THEN [strength EXCEPT ![y % 2][x] = m] ELSE strength
    IN
    /\ chroma' = c
    /\ spoiled' = IF Spoils(m, luma, c) THEN spoiled \cup {m} ELSE spoiled
    /\ strength' = s
    /\ luma' = IF Deblock /\ y > 0 /\ x > 0 THEN FilterAt(luma, {<<y - 1, x - 1>>}, s) ELSE luma

\* reconstruct_mb(): chroma is filtered two macroblocks behind, before the
\* prediction, luma one behind, after it, both in the row above.
Reconstruct(m) ==
    LET y == m[1]
        x == m[2]
        c == IF Deblock /\ y > 0 /\ x > 1 THEN FilterAt(chroma, {<<y - 1, x - 2>>}, strength)
             ELSE chroma
        s == IF Deblock THEN [strength EXCEPT ![y % 2][x] = m] ELSE strength
    IN
    /\ chroma' = c
    /\ spoiled' = IF Spoils(m, luma, c) THEN spoiled \cup {m} ELSE spoiled
    /\ strength' = s
    /\ luma' = IF Deblock /\ y > 0 /\ x > 0 THEN FilterAt(luma, {<<y - 1, x - 1>>}, s) ELSE luma

Macroblock ==
    /\ call = "mb" /\ at[2] < W
    /\ ~(check /\ Overruns(at))
    /\ Parse(at)
    /\ Reconstruct(at)
    /\ at' = <<at[1], at[2] + 1>>
    /\ UNCHANGED <<inVars, call, check, savedVars, partVars, callVars>>

\* A finish_row() that leaves out the chroma two from the end.
FinishRowOne(y, filter) ==
    LET above == IF y > 0 THEN {<<y - 1, W - 1>>} ELSE {}
        last  == IF filter /\ y + 1 = H THEN {<<y, x>> : x \in 0..W - 1} ELSE {}
    IN
    /\ luma' = IF Deblock THEN FilterAt(luma, above \cup last, strength) ELSE luma
    /\ chroma' = IF Deblock THEN FilterAt(chroma, above \cup last, strength) ELSE chroma
    /\ UNCHANGED <<strength, parsed, spoiled>>

\* finish_row(): the end of the row above, and the last row whole.
FinishRow(y, filter) ==
    LET above == IF y > 0 THEN {<<y - 1, W - 1>>} ELSE {}
        two   == IF y > 0 /\ W > 1 THEN {<<y - 1, W - 2>>} ELSE {}
        last  == IF filter /\ y + 1 = H THEN {<<y, x>> : x \in 0..W - 1} ELSE {}
    IN
    /\ luma' = IF Deblock THEN FilterAt(luma, above \cup last, strength) ELSE luma
    /\ chroma' = IF Deblock THEN FilterAt(chroma, above \cup two \cup last, strength)
                 ELSE chroma
    /\ UNCHANGED <<strength, parsed, spoiled>>

RanDry(y) == modes.over \/ coder[PartOf(y)].over

EndRowDry ==
    /\ call = "mb" /\ at[2] = W
    /\ ~check /\ RanDry(at[1])
    /\ FinishRow(at[1], FALSE)
    /\ Return("error")
    /\ UNCHANGED <<inVars, at, check, savedVars, partVars, contextVars>>

\* To count the row just decoded, whatever the filter will change of it.
EndRowEarly ==
    /\ call = "mb" /\ at[2] = W
    /\ check \/ ~RanDry(at[1])
    /\ FinishRow(at[1], TRUE)
    /\ mbX' = 0
    /\ rowsDone' = IF active THEN at[1] + 1 ELSE rowsDone
    /\ call' = "row" /\ at' = <<at[1] + 1, 0>>
    /\ UNCHANGED <<inVars, check, mbY, partVars, contextVars, callVars>>

EndRow ==
    /\ call = "mb" /\ at[2] = W
    /\ check \/ ~RanDry(at[1])
    /\ FinishRow(at[1], TRUE)
    /\ mbX' = 0
    /\ rowsDone' = IF active THEN at[1] + (IF Deblock THEN 0 ELSE 1) ELSE rowsDone
    /\ call' = "row" /\ at' = <<at[1] + 1, 0>>
    /\ UNCHANGED <<inVars, check, mbY, partVars, contextVars, callVars>>

\* Every row is done: decode_rows_tmpl() looks at every coder there is.
EndFrame ==
    /\ call = "row" /\ at[1] = H
    /\ mbY' = H /\ rowsDone' = H
    /\ Return(IF modes.over \/ \E p \in Parts : coder[p].over THEN "error" ELSE "done")
    /\ UNCHANGED <<inVars, at, check, mbX, partVars, contextVars, pixelVars>>

\* Another still is opened, wherever this one got to.  FrameSlot::reset()
\* leaves the VP8 decoder as it is; what is kept of the pixels here starts anew.
Reopen ==
    /\ call = "idle" /\ reopened < MaxReopened
    /\ reopened' = reopened + 1
    /\ file' \in Files /\ avail' = -1
    /\ active' = FALSE /\ past' = FALSE /\ status' = "none" /\ failures' = 0
    /\ parsed' = [m \in Mb |-> None] /\ luma' = [m \in Mb |-> None]
    /\ chroma' = [m \in Mb |-> None] /\ spoiled' = {}
    /\ UNCHANGED <<loopVars, savedVars, partVars, contextVars, strength>>

\* The program need not go on.
Stop == call = "idle" /\ UNCHANGED vars

Init ==
    /\ file \in Files /\ avail = -1 /\ reopened = 0
    /\ active = FALSE /\ past = FALSE /\ status = "none" /\ failures = 0
    /\ call = "idle" /\ at = <<0, 0>> /\ check = FALSE
    /\ mbY = 0 /\ mbX = 0 /\ rowsDone = 0
    /\ ready = {} /\ clamped = {}
    /\ modes = [read |-> 0, over |-> FALSE]
    /\ coder = [p \in Parts |-> Unopened]
    /\ modeTop = [x \in 0..W - 1 |-> None] /\ modeLeft = None
    /\ nnzTop = [x \in 0..W - 1 |-> None] /\ nnzLeft = None
    /\ strength = [i \in 0..1 |-> [x \in 0..W - 1 |-> None]]
    /\ parsed = [m \in Mb |-> None]
    /\ luma = [m \in Mb |-> None] /\ chroma = [m \in Mb |-> None]
    /\ spoiled = {}

DecodeRows ==
    \/ PartitionNeedsMore \/ StartRow
    \/ MbNeedsMore \/ Macroblock
    \/ EndRowDry \/ EndRow \/ EndFrame

Next ==
    \/ Arrive \/ HeaderNeedsMore \/ FrameInit \/ Extend \/ Reopen \/ Stop
    \/ DecodeRows

Spec == Init /\ [][Next]_vars

-----------------------------------------------------------------------------
(* Properties.                                                             *)

Coder == [read : Nat, over : BOOLEAN, end : Nat]

TypeOK ==
    /\ file \in Files /\ avail \in -1..Total /\ reopened \in 0..MaxReopened
    /\ active \in BOOLEAN /\ past \in BOOLEAN /\ check \in BOOLEAN
    /\ failures \in 0..MaxFailures + 1
    /\ status \in {"none", "more", "done", "error"}
    /\ call \in {"idle", "row", "mb"} /\ at \in (0..H) \X (0..W)
    /\ mbY \in 0..H /\ mbX \in 0..W - 1 /\ rowsDone \in 0..H
    /\ ready \subseteq Parts /\ clamped \subseteq Parts
    /\ call # "idle" => (clamped \subseteq ready /\ ready \subseteq InUse)
    /\ modes \in [read : Nat, over : BOOLEAN] /\ coder \in [Parts -> Coder]
    /\ {modeLeft, nnzLeft} \subseteq Mb \cup {None}
    /\ {modeTop, nnzTop} \subseteq [0..W - 1 -> Mb \cup {None}]
    /\ {luma, chroma} \subseteq [Mb -> Mb \cup {None}]
    /\ spoiled \subseteq Mb

Parsed == {m \in Mb : parsed[m] # None}

\* What decoding the whole frame on one thread parses a macroblock from.
Whole(m) ==
    LET above  == IF m[1] = 0 THEN None ELSE <<m[1] - 1, m[2]>>
        beside == IF m[2] = 0 THEN None ELSE <<m[1], m[2] - 1>>
    IN [modes |-> Raster(m), part |-> W * (m[1] \div file.partitions) + m[2],
        above |-> <<above, above>>, beside |-> <<beside, beside>>]

\* The frame is damaged: a partition of its own does not last.
Damaged ==
    \/ file.modesDry < W * H
    \/ \E m \in Mb : file.need[m] > file.size[PartOf(m[1])]

\* However the data arrives, and whatever the decoder did before, each
\* macroblock that stays is parsed from where decoding the frame at once would
\* parse it, until the frame has failed (save_mb_state, restore_mb_state and
\* what frame_init and start_row reset).
ParsedAsWhole == failures = 0 => \A m \in Parsed : parsed[m] = Whole(m)

\* A macroblock that stays was parsed from bytes that were there, unless the
\* partition ends before it (partition_clamped, `check`).
ParsedFromData ==
    failures = 0 => \A m \in Parsed :
        LET p == PartOf(m[1]) IN
        file.need[m] <= file.size[p] => file.need[m] <= Have(p)

\* Both, of everything the decoder keeps from call to call.
ParsedInStep == TypeOK /\ ParsedAsWhole /\ ParsedFromData

\* Prediction never reads what the loop filter has changed (reconstruct_mb,
\* finish_row), wherever the row was left and taken up again.
PredictedFromUnfiltered == failures = 0 => spoiled = {}

\* Each macroblock is filtered with its own strength, though two rows share
\* the array; a finished frame is parsed whole and, unless the filter is off,
\* filtered whole (filter_strength, finish_row).
FilteredWhole ==
    /\ failures = 0 => \A m \in Mb : {luma[m], chroma[m]} \subseteq {None, m}
    /\ status = "done" =>
          /\ Parsed = Mb
          /\ Deblock => Filtered(luma) = Mb /\ Filtered(chroma) = Mb

\* The filter follows the prediction at its distance, and reaches the end.
FilterFollows == PredictedFromUnfiltered /\ FilteredWhole

\* rows_finalized(), in luma rows.
RowsFinalized ==
    LET extra == CASE file.filter = "off" -> 0 [] file.filter = "simple" -> 2
                   [] OTHER -> 8
        rows  == 16 * rowsDone - extra
    IN IF rowsDone >= H THEN 16 * H ELSE IF rows < 0 THEN 0 ELSE rows

\* partial_picture() keeps back what interpolating the chroma still waits for;
\* a luma row r then reads chroma rows up to ChromaOf(mode, r).
Sampling == {"Point", "Fancy", "FastFancy", "ExtraFancy"}

RowsShown(mode) ==
    LET rows == RowsFinalized
        back == CASE mode = "ExtraFancy" -> 10 [] mode = "FastFancy" -> 4 [] OTHER -> 1
    IN IF rows = 0 \/ rows = 16 * H THEN rows
       ELSE IF rows < back THEN 0 ELSE rows - back

ChromaOf(mode, r) ==
    CASE mode = "Point" -> r \div 2
      [] mode = "Fancy" -> (r + 1) \div 2
      [] mode = "FastFancy" -> (r \div 2) + 1 + (r % 2)
      [] OTHER -> (r \div 2) + 4 + (r % 2)

ToChange(n, f) ==
    {n * m[1] : m \in Mb \ Parsed}
    \cup (IF Deblock THEN UNION {{b.y0 : b \in Writes(n, m)} : m \in Mb \ Filtered(f)} ELSE {})

Final ==
    /\ \A y \in ToChange(16, luma) : y >= RowsFinalized
    /\ \A y \in ToChange(8, chroma) : y >= (RowsFinalized + 1) \div 2
    /\ \A y \in ToChange(8, chroma), mode \in Sampling :
          RowsShown(mode) > 0 /\ RowsShown(mode) < 16 * H =>
              y > ChromaOf(mode, RowsShown(mode) - 1)

\* A row given out as final is not written again, nor is the chroma that goes
\* with it or that it is interpolated from (rows_finalized, partial_picture), until a call fails.
FinalRowsStay == active /\ failures = 0 => Final

\* A frame fails only if it is damaged, and then does not succeed: no call
\* asks for more of a chunk that is all there, and what another frame left in
\* the decoder does not count (decode_rows_tmpl, ran_dry, next_picture).
FailsIfDamaged ==
    /\ status = "error" => Damaged
    /\ status = "done" => ~Damaged
=============================================================================
