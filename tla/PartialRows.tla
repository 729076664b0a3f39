----------------------------- MODULE PartialRows -----------------------------
(***************************************************************************)
(* A still shown while it arrives: partial_picture() of src/driver/mod.rs, *)
(* the picture next_picture() hands out when it is done, and the row       *)
(* exports of src/driver/export.rs that both go through.                   *)
(*                                                                         *)
(* The decoder's rows become final from the top.  Those converted to the   *)
(* output's format stay converted: the next call goes on after them, and   *)
(* from the top again only when the format or the sink has changed.  A row *)
(* converted is "final" when every row its filter read was, and "early"    *)
(* otherwise.                                                              *)
(***************************************************************************)
EXTENDS RowWindows

CONSTANTS
    Stills,     \* kind ("lossy", "lossless"), height, sampling, crop (or scale, flip)
    Formats,    \* of "native", "yuva", "packed" and "packed2"
    Strip,      \* strip_rows() of the width
    MayFail,    \* the stills (by kind) whose decoding may fail
    Switches,   \* the format also changes where converted_rows is miscounted
    MaxChanges  \* bound: how often the format and the sink change

VARIABLES
    still,
    rows,       \* rows of the source that are final
    live,       \* the still is being decoded: vp8_active, vp8l's active
    begun,      \* still_lossy or still_lossless
    failed,     \* its decoding has failed
    format,     \* out_format
    sink,       \* rows go to the caller's memory: what is there, or <<>>
    conv,       \* converted_rows and converted_format
    buf,        \* the buffers of converted rows, "converted" and "output"
    told,       \* what the last call handed out: rows_valid and the rows
    changes

vars == <<still, rows, live, begun, failed, format, sink, conv, buf, told, changes>>

H        == still.height
Blank(h) == [y \in 0..h - 1 |-> "none"]
Nothing  == [valid |-> 0, rows |-> << >>]
Upto(r)  == [y \in 0..H - 1 |-> IF y < r THEN "final" ELSE "none"]

\* A row made of luma row w[1] and the chroma rows after it.
Made(y, w) ==
    IF w = Stale THEN "none"
    ELSE IF w # RowOf(still.sampling, H, y) THEN "early"
    ELSE IF w[1] < rows /\ \A t \in 2..Len(w) : rows = H \/ 2 * w[t] < rows
         THEN "final" ELSE "early"

\* still_packed_direct() and still_packed_2byte(), of a lossy picture.
Over(old, new) == [y \in 0..H - 1 |-> IF y \in DOMAIN new THEN Made(y, new[y]) ELSE old[y]]
Packed(old, s, e) ==
    Over(old, Convert(still.sampling, H, IF format = "packed2" THEN Strip ELSE 0, s, e, 1).rows)

\* Rows that need no row but their own, s up to e: pack_rows(),
\* ensure_yuva_rows() and export_external_rows() from a view of the source.
Each(old, s, e) == [y \in 0..H - 1 |-> IF y \in s..e - 1
                                       THEN IF y < rows THEN "final" ELSE "early" ELSE old[y]]
\* A lossy picture has a buffer of its own for its packed rows.
IsPacked(f) == f \in {"packed", "packed2"}
Packs       == IsPacked(format)
Place == IF still.kind = "lossy" /\ Packs THEN "converted" ELSE "output"
\* What is there to go on from: with nothing converted the buffer is made anew.
Old(s) == IF s = 0 THEN Blank(H) ELSE buf[Place]
\* The rows s up to e of the buffer, copied to the sink.
Copied(from, s, e) == [y \in 0..H - 1 |-> IF y \in s..e - 1 THEN from[y] ELSE sink[y]]

---------------------------------------------------------------------------
(* The exports: what they leave converted, and what they hand out *)

Hand(valid, own) == told' = [valid |-> valid, rows |-> IF sink = <<>> THEN own ELSE sink']
Again            == IF conv.format = format THEN conv.rows ELSE 0
Converted(r)     == conv' = [rows |-> r, format |-> format]

\* export_still_packed(): not fewer rows than were converted, whatever to.
HandPacked(new, s, e) ==
    /\ buf' = [buf EXCEPT ![Place] = new] /\ Converted(e)
    /\ sink' = IF sink = <<>> THEN sink ELSE Copied(new, ConvertedFrom(still.sampling, s), e)
    /\ Hand(e, new)
StillPacked(want) ==
    LET s == Again
        e == Max({want, conv.rows})
    IN  HandPacked(Packed(Old(s), s, e), s, e)

\* Rows from a view of the source or converted each on its own, `e` of them:
\* partial_picture() of a lossy still in a planar format, its own or with an
\* opaque alpha plane, and export_still_lossless().
StillRows(s, e) ==
    LET own  == format = "native"
        new  == Each(Old(s), s, e)
        view == IF own THEN Upto(rows) ELSE new
    IN  /\ buf' = IF own THEN buf ELSE [buf EXCEPT ![Place] = new]
        /\ Converted(e)
        /\ sink' = IF sink = <<>> THEN sink ELSE Copied(view, s, e)
        /\ Hand(e, view)
StillPlanar(want)   == StillRows(Again, Max({want, Again}))
StillLossless(want) == StillRows(Again, Max({want, conv.rows}))

\* export_packed(): the whole picture, through `output` if it is converted.
\* What crop leaves there is another picture.
ExportWhole ==
    LET all == Each(Blank(H), 0, H)
    IN  /\ buf' = IF format = "native" THEN buf
                  ELSE [buf EXCEPT !.output = IF still.crop THEN Blank(H) ELSE all]
        /\ sink' = IF sink = <<>> THEN sink ELSE all
        /\ Hand(H, all)

---------------------------------------------------------------------------
(* The calls *)

\* lossless_rows() and lossy_rows(): a lossless still that is not being decoded
\* is taken to be all there.
SourceRows == IF live \/ (still.kind = "lossy" /\ failed) THEN rows ELSE H

Partial ==
    /\ begun
    /\ IF still.crop
       THEN SourceRows = H /\ ExportWhole /\ UNCHANGED conv
       ELSE IF still.kind = "lossless" THEN StillLossless(SourceRows)
       ELSE IF Packs
       THEN StillPacked(Vouched(still.sampling, H, SourceRows))
       ELSE StillPlanar(SourceRows)
    /\ UNCHANGED <<still, rows, live, begun, failed, format, changes>>

\* More rows are final: an even number, until all are.
Arrive ==
    /\ ~failed /\ (live \/ ~begun)
    /\ \E r \in {n \in rows..H - 1 : n % 2 = 0} :
          /\ begun => r > rows
          /\ rows' = r
    /\ begun' = TRUE /\ live' = TRUE
    /\ UNCHANGED <<still, failed, format, sink, conv, buf, told, changes>>

\* still_abandon() ends a lossless still; a lossy one stays begun.
Fail ==
    /\ still.kind \in MayFail /\ live /\ ~failed
    /\ failed' = TRUE /\ live' = (still.kind = "lossy")
    /\ UNCHANGED <<still, rows, begun, format, sink, conv, buf, told, changes>>

\* The last rows are there, and next_picture() hands them out:
\* emit_still_lossy() and export_complete_still_lossless().
Emit ==
    /\ ~failed /\ begun /\ live
    /\ rows' = H /\ live' = FALSE
    /\ UNCHANGED <<still, begun, failed, format, sink, conv, buf, told, changes>>
Picture ==
    /\ begun /\ ~live /\ ~failed
    /\ IF still.kind = "lossy" /\ Packs /\ ~still.crop THEN StillPacked(H)
       ELSE /\ ExportWhole
            /\ conv' = IF still.kind = "lossy" THEN conv ELSE [conv EXCEPT !.rows = H]
    /\ UNCHANGED <<still, rows, live, begun, failed, format, changes>>

\* Where rows are counted in a format that were not converted to it: of a lossy
\* still, rows converted to a planar format count for a packed one; of a
\* lossless one that is out, all rows do for the format before the last.
Miscounted(f) ==
    \/ /\ still.kind = "lossy" /\ IsPacked(f)
       /\ conv.rows > 0 /\ ~IsPacked(conv.format)
    \/ still.kind = "lossless" /\ begun /\ ~live /\ f = conv.format

\* set_output_format() keeps what is converted; set_sink() drops it when rows
\* went or will go to the caller's memory.
SetFormat ==
    /\ changes < MaxChanges /\ changes' = changes + 1
    /\ \E f \in Formats \ {format} : (Miscounted(f) => Switches) /\ format' = f
    /\ told' = Nothing
    /\ UNCHANGED <<still, rows, live, begun, failed, sink, conv, buf>>
SetSink ==
    /\ changes < MaxChanges /\ changes' = changes + 1
    /\ \E s \in {<<>>, Blank(H)} :
          /\ sink' = s
          /\ conv' = IF sink # <<>> \/ s # <<>> THEN [rows |-> 0, format |-> "unset"] ELSE conv
    /\ told' = Nothing
    /\ UNCHANGED <<still, rows, live, begun, failed, format, buf>>

InitOf(s) ==
    /\ still = s /\ rows = 0 /\ live = FALSE /\ begun = FALSE /\ failed = FALSE
    /\ format \in Formats /\ sink = <<>>
    /\ conv = [rows |-> 0, format |-> "unset"]
    /\ buf = [p \in {"converted", "output"} |-> Blank(s.height)] /\ told = Nothing /\ changes = 0
Init == \E s \in Stills : InitOf(s)

Next == Partial \/ Arrive \/ Fail \/ Emit \/ Picture \/ SetFormat \/ SetSink
Spec == Init /\ [][Next]_vars

\* Every row a call says is valid is there and is what it will be in the whole
\* picture: its filter has read no row the decoder had yet to finish.
ValidRowsAreFinal == \A y \in 0..told.valid - 1 : told.rows[y] = "final"
=============================================================================
