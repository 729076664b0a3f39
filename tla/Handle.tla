-------------------------------- MODULE Handle --------------------------------
(***************************************************************************)
(* A decoder behind the C API, the frame its caller keeps and the memory   *)
(* both of them touch: capi/src/decoder.rs and capi/src/frame.rs.          *)
(*                                                                         *)
(* Memory is addresses, from 0.  The caller lends some of it as   *)
(* input, to be read where it is, and some as planes to write rows to; a   *)
(* plane's rows may go down as well as up.  A frame's pixels belong to the *)
(* decoder, to the planes lent, or to an owner that wpd_decode() made and  *)
(* that only the frame names.  The image is a still with one plane, whose  *)
(* size shows once it is decoded.                                          *)
(***************************************************************************)
EXTENDS Integers, FiniteSets

CONSTANTS
    Inputs,     \* the input lent: records [from, to]
    Planes,     \* the planes lent: records [data, size, stride]
    Images,     \* what the input holds: records [len, rows], one plane's shape
    OutFormats, \* "packed", "planar": which code writes the rows of a part
    MaxOwners   \* how many frames wpd_decode() hands out

VARIABLES
    handle,     \* the decoder: poisoned, opened, input, range, overlap
    sink,       \* set_output_buffer(): the planes, the rows written, and whether they ever lay over the input
    image,      \* what is being decoded, its format and the rows there are
    converted,  \* converted_rows
    frame,      \* the caller's WPDFrame: whose pixels, and its owner
    owners,     \* how many there were, those alive, and whether one died twice
    call        \* what the last call did: it, its answer, what it wrote

vars == <<handle, sink, image, converted, frame, owners, call>>

Nothing == [from |-> 0, to |-> 0]
NoPlane == [data |-> -1, size |-> 0, stride |-> 0]
NoFrame == [pixels |-> "null", owner |-> 0]
NoHandle == [poisoned |-> FALSE, opened |-> FALSE, input |-> Nothing,
             range |-> Nothing, overlap |-> FALSE]
NoSink == [plane |-> NoPlane, filled |-> {}, clashed |-> FALSE]
NoImage == [len |-> 0, rows |-> 0, ready |-> 0,
            format |-> "packed", done |-> FALSE]

Bytes(r) == r.from..r.to - 1
Abs(n) == IF n < 0 THEN -n ELSE n

Init ==
    /\ handle = NoHandle
    /\ sink = NoSink
    /\ image = NoImage
    /\ converted = 0
    /\ frame = NoFrame
    /\ owners = [made |-> 0, live |-> {}, twice |-> FALSE]
    /\ call = [op |-> "none", ret |-> "ok", wrote |-> {}, valid |-> 0]

Answer(op, ret) == call' = [op |-> op, ret |-> ret, wrote |-> {}, valid |-> 0]

\* guarded(): a handle that panicked answers nothing more.
Usable == ~handle.poisoned

Refuse(op) ==
    /\ handle.poisoned
    /\ Answer(op, "internal")
    /\ UNCHANGED <<handle, sink, image, converted, frame, owners>>

-----------------------------------------------------------------------------
(* The calls that lend memory.                                             *)

\* wpd_decoder_set_output_buffer(): planes that are the same leave the sink,
\* and the rows it was given, alone.
SetOutputBuffer(p) ==
    /\ Usable
    /\ IF sink.plane = p
       THEN UNCHANGED <<sink, converted>>
       ELSE /\ sink' = [NoSink EXCEPT !.plane = p]
            /\ converted' = 0
    /\ Answer("buffer", "ok")
    /\ UNCHANGED <<handle, image, frame, owners>>

DropOutputBuffer ==
    /\ Usable
    /\ sink # NoSink
    /\ sink' = NoSink
    /\ converted' = 0
    /\ Answer("buffer", "ok")
    /\ UNCHANGED <<handle, image, frame, owners>>

\* wpd_decoder_open_borrowed(), or a first wpd_decoder_update(): reset(), and
\* the input read where it is.  With bad headers the input is let go of.
Lend(r, ok) ==
    /\ Usable
    /\ handle' = [handle EXCEPT !.opened = ok, !.input = IF ok THEN r ELSE Nothing]
    /\ converted' = 0
    /\ sink' = [sink EXCEPT !.filled = {}]
    /\ IF ok THEN \E i \in Images, f \in OutFormats :
                     image' = [NoImage EXCEPT !.len = i.len, !.rows = i.rows, !.format = f]
       ELSE image' = NoImage
    /\ Answer("lend", IF ok THEN "ok" ELSE "error")
    /\ UNCHANGED <<frame, owners>>

\* wpd_decoder_update(): the same bytes and more, wherever they are now.
Update(r) ==
    /\ Usable
    /\ handle.opened
    /\ r.to - r.from >= handle.input.to - handle.input.from
    /\ handle' = [handle EXCEPT !.input = r]
    /\ Answer("update", "ok")
    /\ UNCHANGED <<sink, image, converted, frame, owners>>

\* More rows of the still are decoded, by a call that hands nothing out; so
\* does one after the still was handed out.
Decode ==
    /\ Usable
    /\ handle.opened
    /\ image.ready < image.rows \/ image.done
    /\ image' = [image EXCEPT !.ready = IF image.done THEN @ ELSE @ + 1]
    /\ Answer("next", "none")
    /\ UNCHANGED <<handle, sink, converted, frame, owners>>

-----------------------------------------------------------------------------
(* The rows of a plane: External of frame.rs.                              *)

\* external_plane_fits()
PlaneFits(p, len, rows) ==
    /\ rows > 0 /\ Abs(p.stride) >= len /\ p.size >= len
    /\ rows - 1 <= (p.size - len) \div Abs(p.stride)

\* The bytes of rows that only go up.
ExtentUp(p, len, rows) ==
    [from |-> p.data, to |-> p.data + (rows - 1) * Abs(p.stride) + len]

\* vet(): the bytes the rows take up, from the lowest to the highest.
Extent(p, len, rows) ==
    LET offset == (rows - 1) * Abs(p.stride)
    IN  IF p.stride < 0 THEN [from |-> p.data - offset, to |-> p.data + len]
        ELSE [from |-> p.data, to |-> p.data + offset + len]

Overlaps(a, b) == b.from < b.to /\ a.from < b.to /\ b.from < a.to

\* vet(), with protect_input() having noted where the input is.
Vetted(p, range) ==
    LET ext == Extent(p, image.len, image.rows)
    IN  /\ PlaneFits(p, image.len, image.rows)
        /\ ext.from >= 0
        /\ ~Overlaps(ext, range)

Clash(p, range) ==
    /\ PlaneFits(p, image.len, image.rows)
    /\ Extent(p, image.len, image.rows).from >= 0
    /\ Overlaps(Extent(p, image.len, image.rows), range)

\* row(): where row y goes.
Row(p, y) == p.data + y * p.stride..p.data + y * p.stride + image.len - 1

-----------------------------------------------------------------------------
(* Handing a picture out.                                                  *)

\* wpd_frame_free()
Freed(o) == IF frame.owner = 0 THEN o
            ELSE [o EXCEPT !.live = @ \ {frame.owner},
                           !.twice = @ \/ frame.owner \notin o.live]


\* protect_input(), then fits() of the plane, which says what it ran into.
Protected == [handle EXCEPT !.range = handle.input,
                            !.overlap = sink.plane # NoPlane /\ Clash(sink.plane, handle.input)]

\* The rows a call copies to the sink, as they were and as they become.
Written(rows) == UNION {Row(sink.plane, y) : y \in rows}
Fill(rows) == [sink EXCEPT !.filled = @ \cup rows]

Gives(op, wrote, valid) == call' = [op |-> op, ret |-> "ok", wrote |-> wrote, valid |-> valid]

\* wpd_decoder_next_frame(), once the still is whole: every row is written
\* that the parts handed out before did not leave in place.  A frame the
\* caller owned is released only for one that replaces it.
NextFrame ==
    /\ Usable
    /\ handle.opened
    /\ image.ready = image.rows /\ ~image.done
    /\ handle' = Protected
    /\ LET first == IF image.format = "packed" THEN converted ELSE 0
           rows == first..image.rows - 1
       IN  IF sink.plane = NoPlane
           THEN /\ converted' = image.rows
                /\ owners' = Freed(owners)
                /\ frame' = [pixels |-> "own", owner |-> 0]
                /\ Gives("next", {}, 0)
                /\ UNCHANGED sink
           ELSE IF Vetted(sink.plane, handle.input)
           THEN /\ converted' = IF image.format = "packed" THEN image.rows ELSE converted
                /\ owners' = Freed(owners)
                /\ frame' = [pixels |-> "sink", owner |-> 0]
                /\ sink' = Fill(rows)
                /\ Gives("next", Written(rows), image.rows)
           ELSE /\ Answer("next", IF handle'.overlap THEN "overlap" ELSE "small")
                /\ sink' = [sink EXCEPT !.clashed = @ \/ handle'.overlap]
                /\ UNCHANGED <<converted, frame, owners>>
    /\ image' = [image EXCEPT !.done = call'.ret = "ok"]

\* wpd_decoder_partial_frame(): whatever the frame held is let go of before
\* anything is tried.  For planar output the rows count as converted before
\* the planes are looked at.
PartialFrame ==
    /\ Usable
    /\ handle.opened
    /\ handle' = Protected
    /\ owners' = Freed(owners)
    /\ LET upto == IF converted > image.ready THEN converted ELSE image.ready
           rows == converted..upto - 1
       IN  IF image.ready = 0
           THEN Answer("partial", "none") /\ frame' = NoFrame /\ UNCHANGED <<sink, converted>>
           ELSE IF sink.plane = NoPlane
           THEN /\ converted' = upto
                /\ frame' = [pixels |-> "own", owner |-> 0]
                /\ Gives("partial", {}, 0)
                /\ UNCHANGED sink
           ELSE IF Vetted(sink.plane, handle.input)
           THEN /\ converted' = upto
                /\ frame' = [pixels |-> "sink", owner |-> 0]
                /\ sink' = Fill(rows)
                /\ Gives("partial", Written(rows), upto)
           ELSE /\ converted' = IF image.format = "planar" THEN upto ELSE converted
                /\ frame' = NoFrame
                /\ sink' = [sink EXCEPT !.clashed = @ \/ handle'.overlap]
                /\ Answer("partial", IF handle'.overlap THEN "overlap" ELSE "small")
    /\ UNCHANGED image

\* A call that panics part way: the guard keeps the handle poisoned.
Panic(part) ==
    /\ Usable
    /\ handle.opened
    /\ handle' = [Protected EXCEPT !.poisoned = TRUE]
    /\ IF part THEN owners' = Freed(owners) /\ frame' = NoFrame
       ELSE UNCHANGED <<owners, frame>>
    /\ Answer(IF part THEN "partial" ELSE "next", "internal")
    /\ UNCHANGED <<sink, image, converted>>

-----------------------------------------------------------------------------
(* The calls that need no handle.                                          *)

\* wpd_frame_free()
FrameFree ==
    /\ frame # NoFrame
    /\ owners' = Freed(owners)
    /\ frame' = NoFrame
    /\ Answer("free", "ok")
    /\ UNCHANGED <<handle, sink, image, converted>>

\* wpd_decode() and wpd_decode_into() release a frame that has an owner, and
\* leave one that has none as it is until there is another.
Released == IF frame.owner = 0 THEN frame ELSE NoFrame

\* wpd_decode(): at, the step that fails: its own decoder, a plane's copy, or none.
DecodeOwned(at) ==
    /\ owners.made < MaxOwners
    /\ LET o == Freed(owners)
           new == o.made + 1
       IN  CASE at = "decoder" -> owners' = o /\ frame' = Released
             [] at = "plane" -> owners' = [o EXCEPT !.made = new] /\ frame' = NoFrame
             [] OTHER -> /\ owners' = [o EXCEPT !.made = new, !.live = @ \cup {new}]
                         /\ frame' = [pixels |-> "owner", owner |-> new]
    /\ Answer("decode", IF at = "none" THEN "ok" ELSE "error")
    /\ UNCHANGED <<handle, sink, image, converted>>

\* wpd_decoder_free()
HandleFree ==
    /\ handle # NoHandle
    /\ handle' = NoHandle
    /\ sink' = NoSink
    /\ image' = NoImage
    /\ converted' = 0
    /\ frame' = IF frame.owner = 0 THEN NoFrame ELSE frame
    /\ Answer("close", "ok")
    /\ UNCHANGED owners

Next ==
    \/ \E op \in {"next", "partial"} : Refuse(op)
    \/ \E p \in Planes : SetOutputBuffer(p)
    \/ DropOutputBuffer
    \/ \E r \in Inputs, ok \in BOOLEAN : Lend(r, ok)
    \/ \E r \in Inputs : Update(r)
    \/ Decode \/ NextFrame \/ PartialFrame
    \/ \E part \in BOOLEAN : Panic(part)
    \/ FrameFree \/ HandleFree
    \/ \E at \in {"decoder", "plane", "none"} : DecodeOwned(at)

Spec == Init /\ [][Next]_vars

-----------------------------------------------------------------------------
\* What callers lend, and images: lengths and addresses are numbers, a row has
\* at least one byte and an image one row (check_image_size, VP8X and VP8).
LentMemory ==
    /\ \A r \in Inputs : r = [from |-> r.from, to |-> r.to] /\ r.from \in Nat /\ r.to \in Nat
    /\ \A p \in Planes : /\ p = [data |-> p.data, size |-> p.size, stride |-> p.stride]
                         /\ p.data \in Nat /\ p.size \in Nat /\ p.stride \in Int
    /\ \A i \in Images : i.len \in Nat \ {0} /\ i.rows \in Nat \ {0}
    /\ OutFormats \subseteq {"packed", "planar"}

\* The bytes a plane lends: from its first row, the way its stride points.
Lent(p) == IF p.stride > 0 THEN p.data..p.data + p.size - 1
           ELSE p.data + image.len - p.size..p.data + image.len - 1

(* Whatever the calls and whatever they fail at: an owner is alive exactly *)
(* while the frame names it and is released once; no byte of the input in  *)
(* use is written, and none the caller did not lend; a part that fails     *)
(* leaves an empty frame; and every row said to be valid was written to    *)
(* the planes, as long as they never lay over the input.                   *)
HandleSafe ==
    /\ owners.live = {frame.owner} \ {0} /\ ~owners.twice
    /\ call.wrote \cap Bytes(handle.input) = {}
    /\ call.wrote # {} => call.wrote \subseteq Lent(sink.plane)
    /\ call.op = "partial" /\ call.ret # "ok" /\ ~handle.poisoned => frame = NoFrame
    /\ call.valid > 0 /\ ~sink.clashed => 0..call.valid - 1 \subseteq sink.filled
=============================================================================
