------------------------------- MODULE Stream -------------------------------
(***************************************************************************)
(* A file that arrives piece by piece: the input window of src/input.rs,   *)
(* the header scan of src/container.rs and the walk over the chunks in     *)
(* src/driver/mod.rs, under the stream calls of the decoder.               *)
(*                                                                         *)
(* The caller appends, and the window drops what the walk has passed; or   *)
(* it updates with ever longer buffers of its own; or it opens the file as *)
(* it is.  The scan goes ahead of the walk, each from chunk to chunk, and  *)
(* both keep offsets into the file, which the window turns into places in  *)
(* what it holds.                                                          *)
(*                                                                         *)
(* The file is a RIFF header and chunks, in units: RiffHeader of them for  *)
(* the header, one for the tag and size of a chunk, then its payload.  A   *)
(* unit is known by its offset, so that what is read can be compared with  *)
(* what was meant.  Bitstreams without a container are not modelled.       *)
(***************************************************************************)
EXTENDS Integers, Sequences, SequencesExt

CONSTANTS
    Files,          \* see FilesAssumption
    Threshold,      \* COMPACT_THRESHOLD, in units
    Junk            \* units the caller goes on with after the last chunk

RiffHeader == 2

Tags == {"VP8X", "ALPH", "ANIM", "ANMF", "VP8", "META"}

\* `missing` units of the last payload are declared but not in the file.
\* `declares` and `alpha`: the flags of a VP8X chunk.  `agrees`: the size in an
\* image's header is that of the canvas.  `need`: the units of it its rows take.
\* `fits`: a frame is long enough for its header and lies inside the canvas.
ASSUME FilesAssumption ==
    \A f \in Files :
        /\ f.chunks \in Seq(Range(f.chunks)) \ {<<>>}
        /\ f.missing \in 0..f.chunks[Len(f.chunks)].len
        /\ \A i \in DOMAIN f.chunks : LET c == f.chunks[i] IN
              /\ c.tag \in Tags /\ c.len \in Nat
              /\ c.tag = "VP8X" => {c.declares, c.alpha} \subseteq BOOLEAN
              /\ c.tag = "ALPH" => c.len > 0
              /\ c.tag = "ANMF" => c.fits \in BOOLEAN /\ (c.fits => c.len > 0)
              /\ c.tag = "VP8" => c.agrees \in BOOLEAN /\ c.need \in 1..c.len
              /\ c.tag = "META" => c.which \in Nat /\ c.len > 0

ASSUME ThresholdAssumption == Threshold \in Nat /\ Junk \in Nat

VARIABLES
    file, fed,              \* the file, and how much of it the caller has given
    streaming, inputMode,   \* Decoder.streaming and input_mode
    eos,
    buf, borrowed,          \* Input: the bytes held, and whose they are
    size, discarded,        \* Window
    scan,                   \* Scan
    headersValid,
    pos, end, animation,    \* the walk: its place, and what it took of the scan
    alpha,                  \* alpha_pending, and frame.alpha_data_offset if set
    active, decoded,        \* vp8_active, and what the image was decoded from
    stillReady, stillDone,
    meta,                   \* the metadata captured, by kind
    call, via,              \* the call in progress, and which one rescans
    status,                 \* what the last call came to
    shown                   \* history: the pictures and errors of the walk

fileVars   == <<file, fed>>
modeVars   == <<streaming, inputMode, eos>>
windowVars == <<buf, borrowed, size, discarded>>
walkVars   == <<pos, alpha, active, decoded, stillReady, stillDone, shown>>
scanVars   == <<scan, headersValid, end, animation, meta>>
callVars   == <<call, via, status>>
vars == <<fileVars, modeVars, windowVars, walkVars, scanVars, callVars>>

None    == -1
Missing == -2

Chunk == DOMAIN file.chunks

Start ==
    LET s[i \in 1..Len(file.chunks) + 1] ==
            IF i = 1 THEN RiffHeader ELSE s[i - 1] + 1 + file.chunks[i - 1].len
    IN s

\* The end the RIFF header declares, and what there is for the caller to give.
RiffEnd  == Start[Len(file.chunks) + 1]
Supply   == RiffEnd - file.missing + (IF file.missing = 0 THEN Junk ELSE 0)

Least(a, b) == IF a < b THEN a ELSE b

-----------------------------------------------------------------------------
(* The window.                                                             *)

\* Input::at(): the unit at an offset.
At(o) == IF o < discarded \/ o - discarded >= Len(buf) THEN Missing ELSE buf[o - discarded + 1]

Units(from, to) == [i \in 1..to - from |-> from + i - 1]

\* Input::chunk().
Piece(o, n) == [i \in 1..n |-> At(o + i - 1)]

\* The chunk whose tag is read at an offset.
Read(o) == file.chunks[CHOOSE i \in Chunk : Start[i] = At(o)]

\* file_compact(): the walk's place, or the alpha it still needs.
KeepPos == pos

Keep == IF alpha.pending /\ alpha.at < pos THEN alpha.at ELSE pos

\* Whether compact() finds moving the rest worth it.
Compacts ==
    /\ ~borrowed
    /\ discarded <= Keep /\ Keep <= size
    /\ Keep - discarded >= Threshold /\ Keep - discarded >= (size - Keep) \div 2

\* The place to keep taken for a distance.
AppendUnitsFar(data) ==
    LET from == IF Compacts THEN Keep ELSE discarded IN
    /\ discarded' = IF Compacts THEN discarded + Keep ELSE discarded
    /\ buf' = SubSeq(buf, from - discarded + 1, size - discarded) \o data
    /\ size' = size + Len(data)
    /\ UNCHANGED borrowed

\* Input::append() of `data` after file_compact().
AppendUnits(data) ==
    LET from == IF Compacts THEN Keep ELSE discarded IN
    /\ discarded' = from
    /\ buf' = SubSeq(buf, from - discarded + 1, size - discarded) \o data
    /\ size' = size + Len(data)
    /\ UNCHANGED borrowed

Install(n, lent) ==
    /\ buf' = Units(0, n) /\ borrowed' = lent
    /\ size' = n /\ discarded' = 0

EmptyWindow == buf' = <<>> /\ borrowed' = FALSE /\ size' = 0 /\ discarded' = 0

-----------------------------------------------------------------------------
(* The calls that bring data.                                              *)

Idle == call = "idle"

Rescan(how) == call' = "headers" /\ via' = how /\ UNCHANGED status

Answer(s) == status' = s /\ UNCHANGED <<call, via>>

Open(n, lent) ==
    /\ Idle /\ via = "none"
    /\ fed' = n /\ Install(n, lent)
    /\ Rescan("open")
    /\ UNCHANGED <<file, modeVars, scanVars, walkVars>>

OpenStream ==
    /\ Idle /\ via = "none"
    /\ streaming' = TRUE /\ via' = "stream"
    /\ UNCHANGED <<fileVars, inputMode, eos, windowVars, scanVars, walkVars, call, status>>

Accepts(mode) == Idle /\ streaming /\ ~eos /\ inputMode \in {"untouched", mode}

\* riff_room(): the header is read from what is buffered, what comes, or both.
Left == IF RiffEnd > size THEN RiffEnd - size ELSE 0

RoomFromScan(n) == IF scan.pos > 0 THEN Left ELSE n

Room(n) == IF scan.pos > 0 \/ size + n >= RiffHeader THEN Left ELSE n

Append_(n) ==
    /\ Accepts("append")
    /\ fed + n <= Supply
    /\ fed' = fed + n /\ inputMode' = "append"
    /\ LET used == Least(Room(n), n) IN
       IF used = 0
       THEN Answer("ok") /\ UNCHANGED windowVars
       ELSE AppendUnits(Units(fed, fed + used)) /\ Rescan("append")
    /\ UNCHANGED <<file, streaming, eos, scanVars, walkVars>>

\* The window has no room, or no memory for more: the caller may try again.
AppendFails(n) ==
    /\ Accepts("append")
    /\ fed + n <= Supply /\ Room(n) > 0
    /\ inputMode' = "append"
    /\ AppendUnits(<<>>)
    /\ Answer("nomem")
    /\ UNCHANGED <<fileVars, streaming, eos, scanVars, walkVars>>

\* update() or update_owned() with a buffer that holds all given before.
Update(n, lent) ==
    /\ Accepts("update")
    /\ n >= fed /\ n >= size
    /\ fed' = n /\ inputMode' = "update"
    /\ Install(n, lent)
    /\ Rescan("update")
    /\ UNCHANGED <<file, streaming, eos, scanVars, walkVars>>

TakeUpdateBuffer ==
    /\ Idle /\ streaming /\ ~eos /\ inputMode = "update" /\ size > 0
    /\ EmptyWindow
    /\ end' = 0
    /\ UNCHANGED <<fileVars, modeVars, scan, headersValid, animation, meta, walkVars, callVars>>

EndOfStream ==
    /\ Idle /\ streaming /\ ~eos
    /\ eos' = TRUE
    /\ Rescan("eos")
    /\ UNCHANGED <<fileVars, streaming, inputMode, windowVars, scanVars, walkVars>>

-----------------------------------------------------------------------------
(* rescan_headers(): Scan::headers(), then what is taken from it.          *)

Flags == file.chunks[scan.vp8x]

Declares == scan.vp8x # 0 /\ Flags.declares

AnimDeclared == scan.anim \/ Declares

\* still_alpha_allowed()
AlphaAllowed == scan.vp8x = 0 \/ Flags.alpha

TakenAgain(kinds) == [k \in DOMAIN meta \cup kinds |->
    Piece(scan.meta[k], file.chunks[CHOOSE i \in Chunk : Start[i] + 1 = scan.meta[k]].len)]

Taken(kinds) == [k \in DOMAIN meta \cup kinds |->
    IF k \in DOMAIN meta THEN meta[k]
    ELSE Piece(scan.meta[k], file.chunks[CHOOSE i \in Chunk : Start[i] + 1 = scan.meta[k]].len)]

\* capture_metadata(): what has been found and is still in the window.
Capture == meta' = Taken({k \in DOMAIN scan.meta : discarded <= scan.meta[k]})

\* How the call that rescans ends.
Verdict(s) ==
    IF s # "ok" THEN s
    ELSE IF via \in {"open", "eos"} /\ scan.truncated THEN "truncated"
    ELSE IF via \in {"open", "eos"} /\ scan.images = 0 /\ scan.frames = 0 THEN "invalid"
    ELSE "ok"

Rescanned(s) ==
    /\ Capture
    /\ call' = "idle" /\ UNCHANGED via
    /\ IF s = "ok"
       THEN /\ end' = scan.end /\ animation' = scan.anim
            /\ pos' = IF headersValid THEN pos ELSE RiffHeader
       ELSE UNCHANGED <<end, animation, pos>>
    /\ LET bad == \/ via = "open" /\ Verdict(s) # "ok"
                  \/ via \in {"append", "update"} /\ s \notin {"ok", "truncated"}
       IN /\ headersValid' = (~bad /\ (headersValid \/ s = "ok"))
          /\ IF bad /\ via # "append" THEN EmptyWindow ELSE UNCHANGED windowVars
    /\ status' = IF via \in {"append", "update"} /\ s = "truncated" THEN "ok" ELSE Verdict(s)
    /\ eos' = (eos \/ (via = "open" /\ Verdict(s) = "ok"))
    /\ UNCHANGED <<fileVars, streaming, inputMode, scan, alpha, active, decoded,
                   stillReady, stillDone, shown>>

ScanRiffStale ==
    /\ call = "headers"
    /\ size >= RiffHeader \/ scan.pos > 0
    /\ scan' = [scan EXCEPT !.pos = IF @ = 0 THEN RiffHeader ELSE @,
                            !.end = Least(RiffEnd, size),
                            !.truncated = @ \/ RiffEnd > size]
    /\ call' = "chunks"
    /\ UNCHANGED <<fileVars, modeVars, windowVars, walkVars, headersValid, end,
                   animation, meta, via, status>>

ScanRiff ==
    /\ call = "headers"
    /\ size >= RiffHeader \/ scan.pos > 0
    /\ scan' = [scan EXCEPT !.pos = IF @ = 0 THEN RiffHeader ELSE @,
                            !.end = Least(RiffEnd, size),
                            !.truncated = RiffEnd > size]
    /\ call' = "chunks"
    /\ UNCHANGED <<fileVars, modeVars, windowVars, walkVars, headersValid, end,
                   animation, meta, via, status>>

\* Part of a header: in a file that is opened, too little of it to be taken for
\* one is refused.
ScanTooShort ==
    /\ call = "headers"
    /\ size < RiffHeader /\ scan.pos = 0
    /\ \/ Rescanned("truncated")
       \/ size > 0 /\ ~streaming /\ Rescanned("invalid")

InScan  == scan.pos + 1 <= scan.end
Current == Read(scan.pos)
IsWhole == scan.end - (scan.pos + 1) >= Current.len

\* What headers() refuses of a chunk.
FirstChunk(c) == scan.pos = RiffHeader => c.tag \in {"VP8X", "VP8"}

Conflict(c) == scan.vp8x # 0 /\ ~c.agrees

Refused(c) ==
    \/ ~FirstChunk(c)
    \/ c.tag = "VP8X" /\ scan.vp8x # 0
    \/ c.tag \in {"ALPH", "VP8"} /\ AnimDeclared
    \/ c.tag = "ANIM" /\ scan.still
    \/ c.tag = "ANMF" /\ (~scan.anim \/ ~c.fits \/ (~Declares /\ scan.frames > 0))

\* The chunk is all there and goes into what the scan has found.
ScanChunk ==
    /\ call = "chunks" /\ InScan /\ IsWhole
    /\ LET c == Current IN
       /\ ~Refused(c)
       /\ ~(c.tag = "VP8" /\ scan.images = 0 /\ Conflict(c))
       /\ scan' = [scan EXCEPT
            !.pos    = @ + 1 + c.len,
            !.vp8x   = IF c.tag = "VP8X" THEN CHOOSE i \in Chunk : Start[i] = scan.pos ELSE @,
            !.sized  = @ \/ c.tag \in {"VP8X", "VP8"},
            !.still  = @ \/ c.tag \in {"ALPH", "VP8"},
            !.anim   = @ \/ c.tag = "ANIM",
            !.frames = IF c.tag = "ANMF" THEN @ + 1 ELSE @,
            !.images = IF c.tag = "VP8" THEN @ + 1 ELSE @,
            !.meta   = IF c.tag = "META" /\ c.which \notin DOMAIN @
                       THEN [k \in DOMAIN @ \cup {c.which} |->
                               IF k = c.which THEN scan.pos + 1 ELSE @[k]]
                       ELSE @]
    /\ UNCHANGED <<fileVars, modeVars, windowVars, walkVars, headersValid, end,
                   animation, meta, callVars>>

ScanRefuses ==
    /\ call = "chunks" /\ InScan /\ IsWhole
    /\ Refused(Current)
    /\ Rescanned("invalid")

\* The first image, whose size conflicts with the canvas, was counted before
\* the two are compared.
CountConflict ==
    /\ call = "chunks" /\ InScan /\ IsWhole
    /\ LET c == Current IN
       /\ ~Refused(c) /\ c.tag = "VP8" /\ scan.images = 0 /\ Conflict(c)
    /\ scan' = [scan EXCEPT !.images = 1, !.still = TRUE]
    /\ call' = "refuse"
    /\ UNCHANGED <<fileVars, modeVars, windowVars, walkVars, headersValid, end,
                   animation, meta, via, status>>

RefuseConflict == call = "refuse" /\ Rescanned("invalid")

\* The chunk has not all arrived: a still's header is read all the same, once
\* a unit of it is there.
ScanPartial ==
    /\ call = "chunks" /\ InScan /\ ~IsWhole
    /\ LET c == Current
           image == streaming /\ c.tag = "VP8" /\ scan.images = 0
           header == image /\ scan.end > scan.pos + 1
       IN
       /\ scan' = [scan EXCEPT !.truncated = TRUE,
                               !.still = @ \/ (image /\ ~AnimDeclared),
                               !.sized = @ \/ (header /\ ~AnimDeclared)]
       /\ call' = IF ~FirstChunk(c) \/ (image /\ AnimDeclared) \/ (header /\ Conflict(c))
                  THEN "refuse" ELSE "scanned"
    /\ UNCHANGED <<fileVars, modeVars, windowVars, walkVars, headersValid, end,
                   animation, meta, via, status>>

ScanAll ==
    /\ call = "chunks" /\ ~InScan
    /\ call' = "scanned"
    /\ UNCHANGED <<fileVars, modeVars, windowVars, walkVars, scanVars, via, status>>

ScanEnds ==
    /\ call = "scanned"
    /\ Rescanned(IF ~scan.sized THEN (IF scan.truncated THEN "truncated" ELSE "invalid")
                 ELSE IF ~streaming /\ ~scan.truncated /\ AnimDeclared /\ ~scan.anim
                 THEN "invalid" ELSE "ok")

-----------------------------------------------------------------------------
(* next_picture().                                                         *)

Events(e) == shown' = Append(shown, e)

Returned(s) == call' = "idle" /\ status' = s /\ UNCHANGED via

Walking == call = "walk"

NoHeaders ==
    /\ Idle /\ via # "none" /\ (streaming \/ eos)
    /\ ~headersValid \/ size = 0
    /\ Answer(IF eos THEN "truncated" ELSE "none")
    /\ UNCHANGED <<fileVars, modeVars, windowVars, scanVars, walkVars>>

NextPicture ==
    /\ Idle /\ headersValid /\ size > 0
    /\ call' = IF stillReady /\ ~stillDone THEN "emit" ELSE "walk"
    /\ UNCHANGED <<fileVars, modeVars, windowVars, scanVars, walkVars, via, status>>

\* emit_still_lossy(): the picture may not get out, and is kept if so.
Emit ==
    /\ call = "emit"
    /\ stillDone' = TRUE /\ Events([picture |-> decoded])
    /\ Returned("picture")
    /\ UNCHANGED <<fileVars, modeVars, windowVars, scanVars, pos, alpha, active,
                   decoded, stillReady>>

EmitFailsDone ==
    /\ call = "emit"
    /\ stillDone' = TRUE
    /\ Returned("unexported")
    /\ UNCHANGED <<fileVars, modeVars, windowVars, scanVars, pos, alpha, active,
                   decoded, stillReady, shown>>

EmitFails ==
    /\ call = "emit"
    /\ Returned("unexported")
    /\ UNCHANGED <<fileVars, modeVars, windowVars, scanVars, walkVars>>

InWalk == pos + 1 <= end
Here   == Read(pos)
Avail  == end - (pos + 1)

WalkEnds ==
    /\ Walking /\ ~InWalk
    /\ Returned("none")
    /\ UNCHANGED <<fileVars, modeVars, windowVars, scanVars, walkVars>>

StillPending(c) == c.tag = "VP8" /\ ~animation /\ ~stillDone

\* The chunk runs past what is there.
RunsPast ==
    /\ Walking /\ InWalk /\ Avail < Here.len
    /\ eos \/ ~StillPending(Here)
    /\ Returned(IF eos THEN "truncated" ELSE "none")
    /\ UNCHANGED <<fileVars, modeVars, windowVars, scanVars, walkVars>>

\* What decoding the image at pos reads: its first unit, and its alpha's.
Image(at) == <<At(at), IF alpha.has THEN At(alpha.at) ELSE None>>

\* vp8_lossy_step(): the image starts, with its alpha, once its header is
\* there, and ends once its rows are.
Step(at, have, need, pending) ==
    /\ IF active \/ have = 0 THEN UNCHANGED <<decoded, alpha>>
       ELSE decoded' = Image(at) /\ alpha' = [alpha EXCEPT !.pending = pending]
    /\ active' = (have > 0 /\ have < need)
    /\ IF have >= need
       THEN stillReady' = TRUE /\ call' = "emit" /\ UNCHANGED <<via, status>>
       ELSE UNCHANGED stillReady /\ Returned("none")
    /\ UNCHANGED <<stillDone, shown>>

\* An alpha the container does not declare stays pending.
StepArriving ==
    /\ Walking /\ InWalk /\ Avail < Here.len
    /\ ~eos /\ StillPending(Here)
    /\ Step(pos + 1, Avail, Here.need, alpha.pending /\ ~alpha.has)
    /\ UNCHANGED <<fileVars, modeVars, windowVars, scanVars, pos>>

\* The chunk is whole, and pos goes past it before it is looked at.
WalkOn(tag) ==
    /\ Walking /\ InWalk /\ Avail >= Here.len
    /\ Here.tag = tag
    /\ pos' = pos + 1 + Here.len
    /\ UNCHANGED <<fileVars, modeVars, windowVars, scanVars>>

SkipChunk ==
    \/ /\ \E tag \in Tags \ {"ALPH", "VP8", "ANMF"} : WalkOn(tag)
       /\ UNCHANGED <<alpha, active, decoded, stillReady, stillDone, shown, callVars>>
    \/ /\ WalkOn("VP8") /\ ~StillPending(Here)
       /\ UNCHANGED <<alpha, active, decoded, stillReady, stillDone, shown, callVars>>

\* vp8_lossy_decode_frame(), or the last step of an image that has started.
WalkImage ==
    /\ WalkOn("VP8") /\ StillPending(Here)
    /\ Step(pos + 1, Here.len, Here.need, FALSE)

\* The pin is the offset; has_alpha stays for the image.
WalkAlpha ==
    /\ WalkOn("ALPH")
    /\ ~stillDone /\ ~active /\ ~alpha.pending
    /\ alpha' = IF AlphaAllowed THEN [pending |-> TRUE, has |-> TRUE, at |-> pos + 1]
                ELSE [alpha EXCEPT !.pending = TRUE]
    /\ UNCHANGED <<active, decoded, stillReady, stillDone, shown, callVars>>

RefuseAlpha ==
    /\ WalkOn("ALPH")
    /\ stillDone \/ active \/ alpha.pending
    /\ Events([error |-> At(pos)]) /\ Returned("invalid")
    /\ UNCHANGED <<alpha, active, decoded, stillReady, stillDone>>

WalkFrame ==
    /\ WalkOn("ANMF")
    /\ Events([picture |-> <<At(pos + 1), None>>]) /\ Returned("picture")
    /\ UNCHANGED <<alpha, active, decoded, stillReady, stillDone>>

RewindPending ==
    /\ Idle /\ headersValid /\ inputMode # "append"
    /\ pos' = RiffHeader
    /\ active' = FALSE /\ stillReady' = FALSE /\ stillDone' = FALSE
    /\ shown' = <<>>
    /\ Answer("ok")
    /\ UNCHANGED <<fileVars, modeVars, windowVars, scanVars, decoded, alpha>>

\* anim_state_reset(), and back to the first chunk.
Rewind ==
    /\ Idle /\ headersValid /\ inputMode # "append"
    /\ pos' = RiffHeader
    /\ alpha' = [pending |-> FALSE, has |-> FALSE, at |-> alpha.at]
    /\ active' = FALSE /\ stillReady' = FALSE /\ stillDone' = FALSE
    /\ shown' = <<>>
    /\ Answer("ok")
    /\ UNCHANGED <<fileVars, modeVars, windowVars, scanVars, decoded>>

Init ==
    /\ file \in Files /\ fed = 0
    /\ streaming = FALSE /\ inputMode = "untouched" /\ eos = FALSE
    /\ buf = <<>> /\ borrowed = FALSE /\ size = 0 /\ discarded = 0
    /\ scan = [pos |-> 0, end |-> 0, truncated |-> FALSE, vp8x |-> 0, sized |-> FALSE,
               still |-> FALSE, anim |-> FALSE, frames |-> 0, images |-> 0, meta |-> <<>>]
    /\ headersValid = FALSE /\ end = 0 /\ animation = FALSE /\ meta = <<>>
    /\ pos = 0 /\ alpha = [pending |-> FALSE, has |-> FALSE, at |-> 0]
    /\ active = FALSE /\ decoded = <<None, None>>
    /\ stillReady = FALSE /\ stillDone = FALSE /\ shown = <<>>
    /\ call = "idle" /\ via = "none" /\ status = "none"

Supplies ==
    \/ \E n \in 0..Supply, lent \in BOOLEAN : Open(n, lent) \/ Update(n, lent)
    \/ OpenStream
    \/ \E n \in 1..Supply : Append_(n) \/ AppendFails(n)
    \/ TakeUpdateBuffer \/ EndOfStream

Scans ==
    \/ ScanRiff \/ ScanTooShort \/ ScanChunk \/ ScanRefuses
    \/ CountConflict \/ RefuseConflict \/ ScanPartial \/ ScanAll \/ ScanEnds

Walks ==
    \/ NoHeaders \/ NextPicture \/ Emit \/ EmitFails
    \/ WalkEnds \/ RunsPast \/ StepArriving
    \/ SkipChunk \/ WalkImage \/ WalkAlpha \/ RefuseAlpha \/ WalkFrame
    \/ Rewind

Next == Supplies \/ Scans \/ Walks

Spec == Init /\ [][Next]_vars

-----------------------------------------------------------------------------
(* What the file means, read as a whole.                                   *)

Tagged(tag)    == {i \in Chunk : file.chunks[i].tag = tag}
Before(i, tag) == {j \in Tagged(tag) : j < i}

Stills    == Tagged("VP8") \cup Tagged("ALPH")

DeclaredBefore(i) == \E j \in Before(i, "VP8X") : file.chunks[j].declares

\* The image, its alpha, and the alphas that are nobody's.
IsImage(i)  == i \in Tagged("VP8") /\ Before(i, "VP8") = {}
IsAlpha(i)  == /\ i \in Tagged("ALPH")
               /\ Before(i, "VP8") = {} /\ Before(i, "ALPH") = {}
CarriesAlpha(i) == \A j \in Before(i, "VP8X") : file.chunks[j].alpha

AlphaOf(i) == LET a == {j \in Before(i, "ALPH") : IsAlpha(j)} IN
              IF a = {} \/ ~CarriesAlpha(i) THEN None
              ELSE Start[CHOOSE j \in a : TRUE] + 1

Event(i) ==
    CASE IsImage(i) -> <<[picture |-> <<Start[i] + 1, AlphaOf(i)>>]>>
      [] i \in Tagged("ANMF") -> <<[picture |-> <<Start[i] + 1, None>>]>>
      [] i \in Tagged("ALPH") /\ ~IsAlpha(i) -> <<[error |-> Start[i]]>>
      [] OTHER -> <<>>

Whole == FlattenSeq([i \in Chunk |-> Event(i)])

\* The chunks come in an order that makes a picture.
Legal ==
    /\ file.chunks[1].tag \in {"VP8X", "VP8"}
    /\ \A i \in Tagged("VP8X") : Before(i, "VP8X") = {}
    /\ \A i \in Stills : ~DeclaredBefore(i) /\ Before(i, "ANIM") = {}
    /\ \A i \in Tagged("ANIM") : \A j \in Stills : j > i
    /\ \A i \in Tagged("ANMF") :
          /\ Before(i, "ANIM") # {} /\ file.chunks[i].fits
          /\ DeclaredBefore(i) \/ Before(i, "ANMF") = {}
    /\ Tagged("VP8") \cup Tagged("ANMF") # {}

Conflicts == \E i \in Tagged("VP8") :
                IsImage(i) /\ Before(i, "VP8X") # {} /\ ~file.chunks[i].agrees

\* A canvas that comes after the image, and declares an animation.
DeclaredLate == \E i \in Tagged("VP8X") : Before(i, "VP8") # {} /\ file.chunks[i].declares

-----------------------------------------------------------------------------
(* Properties.                                                             *)

\* The variables have their types: the window, the scan and the walk keep
\* offsets into the file, and every flag is one.
TypeOK ==
    /\ file \in Files /\ fed \in 0..Supply
    /\ {streaming, eos, borrowed, headersValid, animation, active, stillReady,
        stillDone, scan.truncated, scan.sized, scan.still, scan.anim,
        alpha.pending, alpha.has} \subseteq BOOLEAN
    /\ inputMode \in {"untouched", "append", "update"}
    /\ {size, discarded, pos, end, scan.pos, scan.end, alpha.at} \subseteq 0..Supply
    /\ scan.vp8x \in {0} \cup Chunk /\ scan.frames \in Nat /\ scan.images \in Nat
    /\ call \in {"idle", "headers", "chunks", "refuse", "scanned", "walk", "emit"}
    /\ via \in {"none", "open", "stream", "append", "update", "eos"}
    /\ status \in {"none", "ok", "invalid", "truncated", "nomem", "picture", "unexported"}

\* Whatever was appended in whichever pieces, dropped from the front or thrown
\* away behind the file's end, the window holds the units from `discarded` to
\* `size`, each in its place (Input::append, Input::compact).  And `size` is what
\* was appended, up to the end the RIFF header declares: "a caller appending
\* forever holds at most the file the header describes" (riff_room), and never
\* less than has come of that file.
WindowHoldsFile ==
    /\ buf = Units(discarded, size)
    /\ inputMode = "append" => size = Least(fed, RiffEnd)

\* The window is never compacted past what is still to be read: where the walk
\* stands, the alpha of an image not yet started, and where the scan goes on
\* (file_compact, and the offsets taken by the walk and by Scan::headers).  Not
\* where an image conflicts with its canvas: it is refused and then accepted,
\* and the walk goes back to a first chunk that may have been let go of.
NeededKept ==
    /\ headersValid /\ ~Conflicts => discarded <= pos
    /\ headersValid /\ size > 0 /\ alpha.pending /\ alpha.has => discarded <= alpha.at
    /\ scan.pos > 0 => discarded <= scan.pos

\* Between calls, metadata the scan has passed has been copied, the first
\* chunk of each kind, with its own bytes, before the window lets go of them
\* (capture_metadata in rescan_headers).
FirstMeta(k, upto) == {i \in Tagged("META") :
    /\ file.chunks[i].which = k /\ Start[i + 1] <= upto
    /\ \A j \in Before(i, "META") : file.chunks[j].which # k}

MetadataCaptured ==
    Idle => \A k \in {file.chunks[i].which : i \in Tagged("META")} :
        LET first == FirstMeta(k, scan.pos) IN
        IF first = {} THEN k \notin DOMAIN meta
        ELSE \A i \in first :
                k \in DOMAIN meta /\ meta[k] = Units(Start[i] + 1, Start[i + 1])

\* The window holds what came, keeps what is needed, and what it lets go of has
\* been copied.
FileKept == TypeOK /\ WindowHoldsFile /\ NeededKept /\ MetadataCaptured

\* However the file arrives, the pictures and the refused alphas are those of
\* one walk over the whole file, in its order, each image with the alpha that
\* is its own (next_picture, file_compact, anim_state_reset on a rewind).  Not
\* where an image conflicts with its canvas: see NeededKept.
ShownAsWhole == ~Conflicts => IsPrefix(shown, Whole)

\* And none is missing when the walk comes to an end: with the stream ended and
\* the file all there, a call that finds no further picture has shown them all,
\* but for the files left out above.
NothingSkipped ==
    [][ /\ call = "walk" /\ call' = "idle" /\ status' = "none"
        /\ eos /\ size >= RiffEnd /\ ~Conflicts
        => shown = Whole ]_vars

\* A file is accepted at its end just when it is legal and all there, the same
\* in one piece as in many: the scan keeps what it needs from call to call
\* (Scan::headers, check_final_headers).  But a still whose canvas comes after it
\* and declares an animation is refused by open() alone.  Files whose image
\* conflicts with the canvas are left to ConflictRefused.
SameVerdict ==
    [][ /\ call \in {"headers", "chunks", "refuse", "scanned"} /\ call' = "idle"
        /\ via \in {"open", "eos"} /\ ~Conflicts
        => (status' = "ok" <=> /\ Legal /\ size >= RiffEnd
                               /\ via = "open" => ~DeclaredLate) ]_vars

\* "Match libwebp: conflicting still dimensions are invalid."
\* (container.rs:277): no call accepts such a file at its end.
ConflictRefused ==
    [][ /\ call \in {"headers", "chunks", "refuse", "scanned"} /\ call' = "idle"
        /\ via \in {"open", "eos"} /\ Conflicts
        => status' # "ok" ]_vars
=============================================================================
