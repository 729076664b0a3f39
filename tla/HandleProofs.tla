---------------------------- MODULE HandleProofs ----------------------------
(***************************************************************************)
(* Memory behind the C API is used for one thing at a time, proved for any *)
(* inputs and planes a caller may lend and any images, whatever the calls  *)
(* and whatever they fail at.                                              *)
(***************************************************************************)
EXTENDS Handle, TLAPS

-----------------------------------------------------------------------------
(* Where the rows of a plane are.                                          *)

LEMMA Monotone ==
    ASSUME NEW y \in Nat, NEW k \in Nat, NEW s \in Nat, y <= k
    PROVE  y * s <= k * s /\ y * s \in Nat /\ k * s \in Nat
<1>1. PICK d \in Nat : k = y + d
  <2>1. k - y \in Nat /\ k = y + (k - y)
    OBVIOUS
  <2> QED  BY <2>1
<1>2. k * s = y * s + d * s
  BY <1>1
<1>3. y * s \in Nat /\ d * s \in Nat
  BY <1>1
<1> QED  BY <1>2, <1>3

LEMMA Divides ==
    ASSUME NEW k \in Nat, NEW s \in Nat, NEW n \in Nat, s > 0, k <= n \div s
    PROVE  k * s <= n
<1>1. n \div s \in Nat /\ (n \div s) * s <= n
  OBVIOUS
<1>2. k * s <= (n \div s) * s
  BY <1>1, Monotone
<1>3. k * s \in Int /\ (n \div s) * s \in Int
  BY <1>1, Monotone
<1> QED  BY <1>1, <1>2, <1>3

\* An interval within another.
LEMMA Within ==
    ASSUME NEW a \in Int, NEW b \in Int, NEW c \in Int, NEW d \in Int, a <= c, d <= b
    PROVE  c..d \subseteq a..b
OBVIOUS

Measured(p) == p.data \in Nat /\ p.size \in Nat /\ p.stride \in Int

\* The rows of a plane that fits the image are within its extent, which is
\* within what was lent.
LEMMA RowsLie ==
    ASSUME NEW p, Measured(p), image.len \in Nat \ {0}, image.rows \in Nat \ {0},
           PlaneFits(p, image.len, image.rows), NEW y \in 0..image.rows - 1
    PROVE  /\ Row(p, y) \subseteq Lent(p)
           /\ Row(p, y) \subseteq Bytes(Extent(p, image.len, image.rows))
<1>1. PICK s \in Nat, n \in Nat : /\ s = Abs(p.stride) /\ s >= image.len /\ s > 0
                                  /\ n = p.size - image.len
                                  /\ image.rows - 1 <= n \div s
  BY DEF PlaneFits, Measured, Abs
<1>2. PICK top \in Nat : top = (image.rows - 1) * s /\ top <= n
  <2>1. (image.rows - 1) * s <= n
    BY <1>1, Divides
  <2> QED  BY <2>1, Monotone, <1>1
<1>3. PICK at \in Nat : at = y * s /\ at <= top
  BY <1>2, Monotone
<1>4. CASE p.stride > 0
  <2>1. p.stride = s
    BY <1>1, <1>4 DEF Abs, Measured
  <2>2. Row(p, y) = p.data + at..p.data + at + image.len - 1
    BY <2>1, <1>3 DEF Row
  <2>3. Extent(p, image.len, image.rows) = [from |-> p.data, to |-> p.data + top + image.len]
    BY <1>1, <1>2, <1>4 DEF Extent, Measured
  <2>4. Bytes(Extent(p, image.len, image.rows)) = p.data..p.data + top + image.len - 1
    <3> DEFINE e == Extent(p, image.len, image.rows)
    <3>1. e.from = p.data /\ e.to = p.data + top + image.len
      BY <2>3
    <3>2. e.to - 1 = p.data + top + image.len - 1
      BY ONLY <3>1, Measured(p), top \in Nat, image.len \in Nat DEF Measured
    <3>3. Bytes(e) = e.from..e.to - 1
      BY DEF Bytes
    <3> HIDE DEF e
    <3> QED  BY <3>1, <3>2, <3>3, Zenon DEF e
  <2>5. Lent(p) = p.data..p.data + p.size - 1
    BY <1>4 DEF Lent
  <2>6. /\ p.data + at \in Int /\ p.data \in Int /\ p.data + at + image.len - 1 \in Int
        /\ p.data + top + image.len - 1 \in Int /\ p.data + p.size - 1 \in Int
        /\ p.data <= p.data + at
        /\ p.data + at + image.len - 1 <= p.data + top + image.len - 1
        /\ p.data + at + image.len - 1 <= p.data + p.size - 1
    BY ONLY <1>1, <1>2, <1>3, Measured(p), image.len \in Nat \ {0} DEF Measured
  <2>7. /\ p.data + at..p.data + at + image.len - 1 \subseteq p.data..p.data + p.size - 1
        /\ p.data + at..p.data + at + image.len - 1 \subseteq p.data..p.data + top + image.len - 1
    BY ONLY <2>6, Within
  <2> QED  BY ONLY <2>2, <2>4, <2>5, <2>7
<1>5. CASE ~(p.stride > 0)
  <2>1. p.stride = -s /\ p.stride < 0
    BY <1>1, <1>5 DEF Abs, Measured
  <2>2. y * p.stride = -at
    BY <2>1, <1>3
  <2>3. Row(p, y) = p.data - at..p.data - at + image.len - 1
    BY <2>2, <1>3 DEF Row, Measured
  <2>4. Extent(p, image.len, image.rows) = [from |-> p.data - top, to |-> p.data + image.len]
    BY <1>1, <1>2, <2>1 DEF Extent
  <2>5. Bytes(Extent(p, image.len, image.rows)) = p.data - top..p.data + image.len - 1
    <3> DEFINE e == Extent(p, image.len, image.rows)
    <3>1. e.from = p.data - top /\ e.to = p.data + image.len
      BY <2>4
    <3>2. e.to - 1 = p.data + image.len - 1
      BY ONLY <3>1, Measured(p), top \in Nat, image.len \in Nat DEF Measured
    <3>3. Bytes(e) = e.from..e.to - 1
      BY DEF Bytes
    <3> HIDE DEF e
    <3> QED  BY <3>1, <3>2, <3>3, Zenon DEF e
  <2>6. Lent(p) = p.data + image.len - p.size..p.data + image.len - 1
    BY <1>5 DEF Lent
  <2>7. /\ p.data - at \in Int /\ p.data - top \in Int /\ p.data - at + image.len - 1 \in Int
        /\ p.data + image.len - 1 \in Int /\ p.data + image.len - p.size \in Int
        /\ p.data - top <= p.data - at /\ p.data + image.len - p.size <= p.data - at
        /\ p.data - at + image.len - 1 <= p.data + image.len - 1
    BY ONLY <1>1, <1>2, <1>3, Measured(p), image.len \in Nat \ {0} DEF Measured
  <2>8. /\ p.data - at..p.data - at + image.len - 1
               \subseteq p.data + image.len - p.size..p.data + image.len - 1
        /\ p.data - at..p.data - at + image.len - 1
               \subseteq p.data - top..p.data + image.len - 1
    BY ONLY <2>7, Within
  <2> QED  BY ONLY <2>3, <2>5, <2>6, <2>8
<1> QED  BY <1>4, <1>5

\* Rows of a plane that was vetted against an input are not in it.
LEMMA RowsMiss ==
    ASSUME NEW p, Measured(p), image.len \in Nat \ {0}, image.rows \in Nat \ {0},
           NEW r, r.from \in Int, r.to \in Int,
           Vetted(p, r), NEW y \in 0..image.rows - 1
    PROVE  Row(p, y) \cap Bytes(r) = {}
<1> DEFINE e == Extent(p, image.len, image.rows)
<1>1. PlaneFits(p, image.len, image.rows) /\ ~Overlaps(e, r)
  BY DEF Vetted
<1>2. Row(p, y) \subseteq Bytes(e)
  BY <1>1, RowsLie
<1>3. e.from \in Int /\ e.to \in Int
  <2>1. PICK s \in Nat : s = Abs(p.stride)
    BY DEF Measured, Abs
  <2>2. (image.rows - 1) * s \in Int
    OBVIOUS
  <2> QED  BY <2>1, <2>2 DEF Extent, Measured
<1>4. Bytes(e) \cap Bytes(r) = {}
  <2> HIDE DEF e
  <2> QED  BY <1>1, <1>3 DEF Overlaps, Bytes
<1> QED  BY <1>2, <1>4

-----------------------------------------------------------------------------
(* The inductive invariant.                                                *)

Area   == [from : Int, to : Int]
Lease  == Planes \cup {NoPlane}

Typed ==
    /\ handle \in [poisoned : BOOLEAN, opened : BOOLEAN, input : Area, range : Area,
                   overlap : BOOLEAN]
    /\ sink \in [plane : Lease, filled : SUBSET Int, clashed : BOOLEAN]
    /\ image \in [len : Nat, rows : Nat, ready : Nat, format : {"packed", "planar"},
                  done : BOOLEAN]
    /\ image.ready <= image.rows
    /\ handle.opened => image.len > 0 /\ image.rows > 0
    /\ converted \in Nat
    /\ frame \in [pixels : {"null", "own", "sink", "owner"}, owner : Nat]
    /\ owners \in [made : Nat, live : SUBSET Nat, twice : BOOLEAN]

\* The frame's owner is the one that is alive.
Owned == owners.live = {frame.owner} \ {0} /\ ~owners.twice

\* The planes are too small for the image, or not where memory is: no row of it
\* was or will be written to them.
TooSmall ==
    ~ /\ PlaneFits(sink.plane, image.len, image.rows)
      /\ Extent(sink.plane, image.len, image.rows).from >= 0

\* The rows converted are in the planes.  A part that could not be written there
\* counts as converted all the same, and the planes are then too small for good.
InPlanes ==
    sink.plane # NoPlane /\ ~sink.clashed =>
        TooSmall \/ 0..converted - 1 \subseteq sink.filled

\* What the last call wrote and said.
Apart  == call.wrote \cap Bytes(handle.input) = {}
Inside == call.wrote # {} => call.wrote \subseteq Lent(sink.plane)
Empty  == call.op = "partial" /\ call.ret # "ok" /\ ~handle.poisoned => frame = NoFrame
Shown  == call.valid > 0 /\ ~sink.clashed => 0..call.valid - 1 \subseteq sink.filled

HandleInv == Typed /\ Owned /\ InPlanes /\ Apart /\ Inside /\ Empty /\ Shown

LEMMA InvariantIsSafe == HandleInv => HandleSafe
BY DEF HandleInv, HandleSafe, Owned, Apart, Inside, Empty, Shown

LEMMA PlanesMeasured ==
    ASSUME LentMemory, Typed
    PROVE  sink.plane # NoPlane => Measured(sink.plane)
BY DEF LentMemory, Typed, Lease, Measured

\* A call that writes no row.
LEMMA SilentCall ==
    ASSUME call'.wrote = {}, call'.valid = 0, call'.op # "partial" \/ call'.ret = "ok"
    PROVE  Apart' /\ Inside' /\ Empty' /\ Shown'
BY DEF Apart, Inside, Empty, Shown

LEMMA AnswerSilent ==
    ASSUME NEW op, NEW ret, Answer(op, ret)
    PROVE  /\ call'.op = op /\ call'.ret = ret /\ call'.wrote = {} /\ call'.valid = 0
BY DEF Answer

\* The owner a frame names dies once.
LEMMA FreedOnce ==
    ASSUME Typed, Owned
    PROVE  /\ Freed(owners) \in [made : Nat, live : SUBSET Nat, twice : BOOLEAN]
           /\ Freed(owners).live = {} /\ ~Freed(owners).twice
           /\ Freed(owners).made = owners.made
BY DEF Typed, Owned, Freed

-----------------------------------------------------------------------------
(* Each call keeps it.                                                     *)

LEMMA InitHolds == LentMemory /\ Init => HandleInv
<1> SUFFICES ASSUME LentMemory, Init PROVE HandleInv
  OBVIOUS
<1>1. Typed
  BY DEF Init, Typed, NoHandle, NoSink, NoImage, NoFrame, Nothing, Area, Lease
<1>2. Owned /\ InPlanes
  BY DEF Init, Owned, InPlanes, NoFrame, NoSink
<1>3. Apart /\ Inside /\ Empty /\ Shown
  BY DEF Init, Apart, Inside, Empty, Shown
<1> QED  BY <1>1, <1>2, <1>3 DEF HandleInv

LEMMA RefuseKeeps ==
    ASSUME LentMemory, HandleInv, NEW op \in {"next", "partial"}, Refuse(op)
    PROVE  HandleInv'
<1>1. /\ call'.wrote = {} /\ call'.valid = 0
  BY AnswerSilent DEF Refuse
<1>2. Typed' /\ Owned' /\ InPlanes'
  BY <1>1 DEF Refuse, HandleInv, Typed, Owned, InPlanes, TooSmall, PlaneFits, Extent, Abs
<1>3. Apart' /\ Inside' /\ Empty' /\ Shown'
  BY <1>1 DEF Refuse, Apart, Inside, Empty, Shown
<1> QED  BY <1>2, <1>3 DEF HandleInv

LEMMA SetOutputBufferKeeps ==
    ASSUME LentMemory, HandleInv, NEW p \in Planes, SetOutputBuffer(p)
    PROVE  HandleInv'
<1>1. /\ call'.wrote = {} /\ call'.valid = 0 /\ call'.op = "buffer"
  BY AnswerSilent DEF SetOutputBuffer
<1>2. Typed' /\ Owned'
  <2>1. sink' \in [plane : Lease, filled : SUBSET Int, clashed : BOOLEAN] /\ converted' \in Nat
    <3>1. CASE sink.plane = p
      BY <3>1 DEF SetOutputBuffer, HandleInv, Typed
    <3>2. CASE sink.plane # p
      <4>1. sink' = [plane |-> p, filled |-> {}, clashed |-> FALSE] /\ converted' = 0
        BY <3>2 DEF SetOutputBuffer, NoSink
      <4> QED  BY <4>1 DEF Lease
    <3> QED  BY <3>1, <3>2
  <2> QED  BY <2>1 DEF SetOutputBuffer, HandleInv, Typed, Owned
<1>3. InPlanes'
  BY DEF SetOutputBuffer, HandleInv, InPlanes, TooSmall, PlaneFits, Extent, Abs, NoSink, Typed
<1> QED  BY <1>1, <1>2, <1>3, SilentCall DEF HandleInv

LEMMA DropOutputBufferKeeps ==
    ASSUME LentMemory, HandleInv, DropOutputBuffer
    PROVE  HandleInv'
<1>1. /\ call'.wrote = {} /\ call'.valid = 0 /\ call'.op = "buffer"
  BY AnswerSilent DEF DropOutputBuffer
<1>2. Typed' /\ Owned' /\ InPlanes'
  BY <1>1 DEF DropOutputBuffer, HandleInv, Typed, Owned, InPlanes, NoSink, Lease
<1> QED  BY <1>1, <1>2, SilentCall DEF HandleInv

LEMMA LendKeeps ==
    ASSUME LentMemory, HandleInv, NEW r \in Inputs, NEW ok \in BOOLEAN, Lend(r, ok)
    PROVE  HandleInv'
<1>1. /\ call'.wrote = {} /\ call'.valid = 0 /\ call'.op = "lend"
  BY AnswerSilent DEF Lend
<1>2. r \in Area
  BY DEF LentMemory, Area
<1>3. /\ image' \in [len : Nat, rows : Nat, ready : Nat, format : {"packed", "planar"}, done : BOOLEAN]
      /\ image'.ready = 0
      /\ ok => image'.len > 0 /\ image'.rows > 0
  <2>1. CASE ok
    <3>1. PICK i \in Images, f \in OutFormats :
              image' = [NoImage EXCEPT !.len = i.len, !.rows = i.rows, !.format = f]
      BY <2>1 DEF Lend
    <3>2. i.len \in Nat \ {0} /\ i.rows \in Nat \ {0} /\ f \in {"packed", "planar"}
      BY DEF LentMemory
    <3>3. image' = [len |-> i.len, rows |-> i.rows, ready |-> 0, format |-> f, done |-> FALSE]
      BY <3>1 DEF NoImage
    <3> QED  BY <3>2, <3>3
  <2>2. CASE ~ok
    <3>1. image' = NoImage
      BY <2>2, Zenon DEF Lend
    <3> QED  BY <2>2, <3>1 DEF NoImage
  <2> QED  BY <2>1, <2>2
<1>4. Typed'
  <2>1. /\ handle' \in [poisoned : BOOLEAN, opened : BOOLEAN, input : Area, range : Area,
                       overlap : BOOLEAN]
        /\ handle'.opened = ok
    <3>1. (IF ok THEN r ELSE Nothing) \in Area
      BY <1>2 DEF Nothing, Area
    <3>2. handle' = [handle EXCEPT !.opened = ok, !.input = IF ok THEN r ELSE Nothing]
      BY DEF Lend
    <3> QED  BY <3>1, <3>2 DEF HandleInv, Typed
  <2>2. sink' \in [plane : Lease, filled : SUBSET Int, clashed : BOOLEAN]
    BY DEF Lend, HandleInv, Typed
  <2>3. image'.ready <= image'.rows
    BY <1>3
  <2>4. handle'.opened => image'.len > 0 /\ image'.rows > 0
    BY <1>3, <2>1, Zenon
  <2>5. converted' = 0 /\ UNCHANGED <<frame, owners>>
    BY DEF Lend
  <2> QED  BY <1>3, <2>1, <2>2, <2>3, <2>4, <2>5 DEF HandleInv, Typed
<1>5. Owned' /\ InPlanes'
  <2>1. Owned'
    BY DEF Lend, HandleInv, Owned
  <2>2. InPlanes'
    <3>1. converted' = 0
      BY DEF Lend
    <3>2. 0..converted' - 1 = {}
      BY <3>1
    <3> QED  BY <3>2 DEF InPlanes
  <2> QED  BY <2>1, <2>2
<1> QED  BY <1>1, <1>4, <1>5, SilentCall DEF HandleInv

LEMMA UpdateKeeps ==
    ASSUME LentMemory, HandleInv, NEW r \in Inputs, Update(r)
    PROVE  HandleInv'
<1>1. /\ call'.wrote = {} /\ call'.valid = 0 /\ call'.op = "update"
  BY AnswerSilent DEF Update
<1>2. r \in Area
  BY DEF LentMemory, Area
<1>3. Typed' /\ Owned'
  BY <1>1, <1>2 DEF Update, HandleInv, Typed, Owned
<1>4. InPlanes'
  BY DEF Update, HandleInv, InPlanes, TooSmall, PlaneFits, Extent, Abs
<1> QED  BY <1>1, <1>3, <1>4, SilentCall DEF HandleInv

LEMMA DecodeKeeps ==
    ASSUME LentMemory, HandleInv, Decode
    PROVE  HandleInv'
<1>1. /\ call'.wrote = {} /\ call'.valid = 0 /\ call'.op = "next"
  BY AnswerSilent DEF Decode
<1>2. image'.len = image.len /\ image'.rows = image.rows
  BY DEF Decode, HandleInv, Typed
<1>3. Typed' /\ Owned'
  BY <1>1 DEF Decode, HandleInv, Typed, Owned
<1>4. InPlanes'
  BY <1>2 DEF Decode, HandleInv, InPlanes, TooSmall, PlaneFits, Extent, Abs
<1> QED  BY <1>1, <1>3, <1>4, SilentCall DEF HandleInv

LEMMA FrameFreeKeeps ==
    ASSUME LentMemory, HandleInv, FrameFree
    PROVE  HandleInv'
<1>1. /\ call'.wrote = {} /\ call'.valid = 0 /\ call'.op = "free"
  BY AnswerSilent DEF FrameFree
<1>2. Typed' /\ Owned'
  BY <1>1, FreedOnce DEF FrameFree, HandleInv, Typed, Owned, NoFrame
<1>3. InPlanes'
  BY DEF FrameFree, HandleInv, InPlanes, TooSmall, PlaneFits, Extent, Abs
<1> QED  BY <1>1, <1>2, <1>3, SilentCall DEF HandleInv

LEMMA HandleFreeKeeps ==
    ASSUME LentMemory, HandleInv, HandleFree
    PROVE  HandleInv'
<1>1. /\ call'.wrote = {} /\ call'.valid = 0 /\ call'.op = "close"
  BY AnswerSilent DEF HandleFree
<1>2. Typed' /\ Owned' /\ InPlanes'
  BY <1>1 DEF HandleFree, HandleInv, Typed, Owned, InPlanes, NoHandle, NoSink, NoImage, NoFrame,
              Nothing, Area, Lease
<1> QED  BY <1>1, <1>2, SilentCall DEF HandleInv

LEMMA DecodeOwnedKeeps ==
    ASSUME LentMemory, HandleInv, NEW at \in {"decoder", "plane", "none"}, DecodeOwned(at)
    PROVE  HandleInv'
<1> DEFINE o == Freed(owners)
<1>1. /\ call'.wrote = {} /\ call'.valid = 0 /\ call'.op = "decode"
  BY AnswerSilent DEF DecodeOwned
<1>2. /\ o \in [made : Nat, live : SUBSET Nat, twice : BOOLEAN]
      /\ o.live = {} /\ ~o.twice
  BY FreedOnce DEF HandleInv
<1>3. /\ owners' \in [made : Nat, live : SUBSET Nat, twice : BOOLEAN]
      /\ frame' \in [pixels : {"null", "own", "sink", "owner"}, owner : Nat]
      /\ owners'.live = {frame'.owner} \ {0} /\ ~owners'.twice
  <2>1. CASE at = "decoder"
    <3>1. owners' = o /\ frame' = Released
      BY <2>1 DEF DecodeOwned
    <3>2. Released \in [pixels : {"null", "own", "sink", "owner"}, owner : Nat] /\ Released.owner = 0
      BY DEF Released, HandleInv, Typed, NoFrame
    <3> HIDE DEF o
    <3> QED  BY <1>2, <3>1, <3>2
  <2>2. CASE at = "plane"
    <3>1. owners' = [o EXCEPT !.made = o.made + 1] /\ frame' = NoFrame
      BY <2>2 DEF DecodeOwned
    <3> HIDE DEF o
    <3> QED  BY <1>2, <3>1 DEF NoFrame
  <2>3. CASE at = "none"
    <3>1. /\ owners' = [o EXCEPT !.made = o.made + 1, !.live = @ \cup {o.made + 1}]
          /\ frame' = [pixels |-> "owner", owner |-> o.made + 1]
      BY <2>3 DEF DecodeOwned
    <3> HIDE DEF o
    <3>2. PICK n \in Nat : n = o.made + 1 /\ n # 0
      BY <1>2
    <3>3. /\ owners' = [made |-> n, live |-> {n}, twice |-> FALSE]
          /\ frame' = [pixels |-> "owner", owner |-> n]
      BY <1>2, <3>1, <3>2
    <3>4. {n} \ {0} = {n} /\ {n} \subseteq Nat
      BY <3>2
    <3>5. owners' \in [made : Nat, live : SUBSET Nat, twice : BOOLEAN]
      BY <3>3, <3>4
    <3>6. frame' \in [pixels : {"null", "own", "sink", "owner"}, owner : Nat]
      BY <3>3
    <3> QED  BY <3>3, <3>4, <3>5, <3>6
  <2> QED  BY <2>1, <2>2, <2>3
<1>4. Typed' /\ Owned'
  BY <1>1, <1>3 DEF DecodeOwned, HandleInv, Typed, Owned
<1>5. InPlanes'
  BY DEF DecodeOwned, HandleInv, InPlanes, TooSmall, PlaneFits, Extent, Abs
<1> QED  BY <1>1, <1>4, <1>5, SilentCall DEF HandleInv

\* A handle on its way out of a call that hands pictures out.
LEMMA ProtectedTyped ==
    ASSUME LentMemory, Typed
    PROVE  /\ Protected \in [poisoned : BOOLEAN, opened : BOOLEAN, input : Area, range : Area,
                             overlap : BOOLEAN]
           /\ Protected.input = handle.input /\ Protected.opened = handle.opened
           /\ Protected.poisoned = handle.poisoned
           /\ Protected.overlap =
                  (sink.plane # NoPlane /\ Clash(sink.plane, handle.input))
<1>1. PICK b \in BOOLEAN : b = (sink.plane # NoPlane /\ Clash(sink.plane, handle.input))
  OBVIOUS
<1>2. Protected = [handle EXCEPT !.range = handle.input, !.overlap = b]
  BY <1>1, Zenon DEF Protected
<1> QED  BY <1>1, <1>2 DEF Typed

\* Planes that were not fit for the image either lay over the input or are
\* too small for good.
LEMMA ClashOrSmall ==
    ASSUME ~Vetted(sink.plane, handle.input), ~Clash(sink.plane, handle.input)
    PROVE  TooSmall
BY DEF Vetted, Clash, TooSmall

\* Rows written to vetted planes: inside what was lent, and not in the input.
LEMMA RowsWritten ==
    ASSUME LentMemory, HandleInv, handle.opened, sink.plane # NoPlane,
           Vetted(sink.plane, handle.input),
           NEW rows, rows \subseteq 0..image.rows - 1
    PROVE  /\ Written(rows) \cap Bytes(handle.input) = {}
           /\ Written(rows) \subseteq Lent(sink.plane)
<1>1. Measured(sink.plane)
  BY PlanesMeasured DEF HandleInv
<1>2. image.len \in Nat \ {0} /\ image.rows \in Nat \ {0}
  BY DEF HandleInv, Typed
<1>3. handle.input.from \in Int /\ handle.input.to \in Int
  BY DEF HandleInv, Typed, Area
<1>4. ASSUME NEW y \in rows
      PROVE  Row(sink.plane, y) \subseteq Lent(sink.plane)
             /\ Row(sink.plane, y) \cap Bytes(handle.input) = {}
  <2>1. PlaneFits(sink.plane, image.len, image.rows)
    BY DEF Vetted
  <2>2. y \in 0..image.rows - 1
    BY <1>4
  <2> QED  BY <1>1, <1>2, <1>3, <2>1, <2>2, RowsLie, RowsMiss
<1> QED  BY <1>4 DEF Written

\* A call that fills rows of the planes, and says how many are valid.
LEMMA RowsGiven ==
    ASSUME LentMemory, HandleInv, handle.opened, sink.plane # NoPlane,
           Vetted(sink.plane, handle.input),
           NEW rows, rows \subseteq 0..image.rows - 1, NEW op, NEW valid \in Nat,
           0..valid - 1 \subseteq rows \cup 0..converted - 1,
           handle'.input = handle.input, image'.len = image.len, image'.rows = image.rows,
           sink' = Fill(rows), Gives(op, Written(rows), valid)
    PROVE  /\ sink' \in [plane : Lease, filled : SUBSET Int, clashed : BOOLEAN]
           /\ ~sink'.clashed => 0..valid - 1 \subseteq sink'.filled
           /\ Apart' /\ Inside' /\ Empty' /\ Shown'
<1>1. /\ sink'.plane = sink.plane /\ sink'.filled = sink.filled \cup rows
      /\ sink'.clashed = sink.clashed
      /\ sink' \in [plane : Lease, filled : SUBSET Int, clashed : BOOLEAN]
  BY DEF Fill, HandleInv, Typed
<1>2. call'.op = op /\ call'.ret = "ok" /\ call'.wrote = Written(rows) /\ call'.valid = valid
  BY DEF Gives
<1>3. ~TooSmall
  BY DEF Vetted, TooSmall
<1>4. ~sink.clashed => 0..converted - 1 \subseteq sink.filled
  BY <1>3 DEF HandleInv, InPlanes
<1>5. ~sink'.clashed => 0..valid - 1 \subseteq sink'.filled
  BY <1>1, <1>4
<1>6. Lent(sink.plane)' = Lent(sink.plane)
  BY <1>1 DEF Lent
<1>7. Apart' /\ Inside'
  BY <1>2, <1>6, RowsWritten DEF Apart, Inside, Bytes
<1>8. Empty' /\ Shown'
  BY <1>2, <1>5 DEF Empty, Shown
<1> QED  BY <1>1, <1>5, <1>7, <1>8

\* What a call that hands a picture out leaves as it was, in the shape of it.
LEMMA PictureKeeps ==
    ASSUME LentMemory, HandleInv, handle.opened, handle' = Protected,
           image' = image \/ \E b \in BOOLEAN : image' = [image EXCEPT !.done = b]
    PROVE  /\ handle' \in [poisoned : BOOLEAN, opened : BOOLEAN, input : Area, range : Area,
                           overlap : BOOLEAN]
           /\ handle'.opened /\ handle'.input = handle.input
           /\ handle'.poisoned = handle.poisoned
           /\ handle'.overlap = (sink.plane # NoPlane /\ Clash(sink.plane, handle.input))
           /\ image' \in [len : Nat, rows : Nat, ready : Nat, format : {"packed", "planar"},
                          done : BOOLEAN]
           /\ image'.len = image.len /\ image'.rows = image.rows /\ image'.ready = image.ready
           /\ image'.ready <= image'.rows /\ image'.len > 0 /\ image'.rows > 0
           /\ sink'.plane = sink.plane => TooSmall' = TooSmall
<1>1. /\ handle' \in [poisoned : BOOLEAN, opened : BOOLEAN, input : Area, range : Area,
                      overlap : BOOLEAN]
      /\ handle'.opened = handle.opened /\ handle'.input = handle.input
      /\ handle'.poisoned = handle.poisoned
      /\ handle'.overlap = (sink.plane # NoPlane /\ Clash(sink.plane, handle.input))
  BY ProtectedTyped, Zenon DEF HandleInv
<1>2. /\ image' \in [len : Nat, rows : Nat, ready : Nat, format : {"packed", "planar"},
                     done : BOOLEAN]
      /\ image'.len = image.len /\ image'.rows = image.rows /\ image'.ready = image.ready
  BY DEF HandleInv, Typed
<1>3. image'.ready <= image'.rows /\ image'.len > 0 /\ image'.rows > 0
  BY <1>2 DEF HandleInv, Typed
<1>4. sink'.plane = sink.plane => TooSmall' = TooSmall
  BY <1>2, Zenon DEF TooSmall, PlaneFits, Extent
<1> QED  BY <1>1, <1>2, <1>3, <1>4, Zenon

\* A picture that stays with the decoder, or that the planes would not take.
LEMMA NotInPlanes ==
    ASSUME HandleInv, NEW op, NEW ret, Answer(op, ret) \/ Gives(op, {}, 0),
           op = "partial" => Gives(op, {}, 0) \/ frame' = NoFrame
    PROVE  Apart' /\ Inside' /\ Empty' /\ Shown'
<1>1. call'.op = op /\ call'.wrote = {} /\ call'.valid = 0
  BY DEF Answer, Gives
<1>2. Empty'
  <2>1. Gives(op, {}, 0) => call'.ret = "ok"
    BY DEF Gives
  <2> QED  BY <1>1, <2>1 DEF Empty
<1> QED  BY <1>1, <1>2 DEF Apart, Inside, Shown

LEMMA NextFrameKeeps ==
    ASSUME LentMemory, HandleInv, NextFrame
    PROVE  HandleInv'
<1> DEFINE rows == (IF image.format = "packed" THEN converted ELSE 0)..image.rows - 1
           o == Freed(owners)
<1>1. handle' = Protected /\ handle.opened
  BY DEF NextFrame
<1>2. \E b \in BOOLEAN : image' = [image EXCEPT !.done = b]
  BY DEF NextFrame
<1>3. /\ handle' \in [poisoned : BOOLEAN, opened : BOOLEAN, input : Area, range : Area,
                      overlap : BOOLEAN]
      /\ handle'.opened /\ handle'.input = handle.input
      /\ handle'.overlap = (sink.plane # NoPlane /\ Clash(sink.plane, handle.input))
      /\ image' \in [len : Nat, rows : Nat, ready : Nat, format : {"packed", "planar"},
                     done : BOOLEAN]
      /\ image'.len = image.len /\ image'.rows = image.rows
      /\ image'.ready <= image'.rows /\ image'.len > 0 /\ image'.rows > 0
      /\ sink'.plane = sink.plane => TooSmall' = TooSmall
  BY <1>1, <1>2, PictureKeeps, Zenon
<1>4. /\ o \in [made : Nat, live : SUBSET Nat, twice : BOOLEAN]
      /\ o.live = {} /\ ~o.twice
  BY FreedOnce DEF HandleInv
<1>5. image.rows \in Nat /\ converted \in Nat /\ image.ready \in Nat
  BY DEF HandleInv, Typed
<1>6. CASE sink.plane = NoPlane
  <2>1. /\ converted' = image.rows /\ owners' = o /\ frame' = [pixels |-> "own", owner |-> 0]
        /\ Gives("next", {}, 0) /\ UNCHANGED sink
    BY <1>6, Zenon DEF NextFrame
  <2>2. Owned' /\ InPlanes'
    BY <1>4, <1>6, <2>1 DEF Owned, InPlanes
  <2>3. Typed'
    BY <1>3, <1>4, <1>5, <2>1 DEF HandleInv, Typed
  <2>4. Apart' /\ Inside' /\ Empty' /\ Shown'
    BY <2>1, NotInPlanes
  <2> QED  BY <2>2, <2>3, <2>4 DEF HandleInv
<1>7. CASE sink.plane # NoPlane /\ Vetted(sink.plane, handle.input)
  <2>1. /\ converted' = (IF image.format = "packed" THEN image.rows ELSE converted)
        /\ owners' = o /\ frame' = [pixels |-> "sink", owner |-> 0]
        /\ sink' = Fill(rows) /\ Gives("next", Written(rows), image.rows)
    BY <1>7, Zenon DEF NextFrame
  <2>2. rows \subseteq 0..image.rows - 1 /\ 0..image.rows - 1 \subseteq rows \cup 0..converted - 1
    BY <1>5
  <2>3. /\ sink' \in [plane : Lease, filled : SUBSET Int, clashed : BOOLEAN]
        /\ ~sink'.clashed => 0..image.rows - 1 \subseteq sink'.filled
        /\ Apart' /\ Inside' /\ Empty' /\ Shown'
    <3> HIDE DEF rows
    <3> QED  BY <1>1, <1>3, <1>5, <1>7, <2>1, <2>2, RowsGiven
  <2>4. Typed' /\ Owned'
    BY <1>3, <1>4, <1>5, <2>1, <2>3 DEF HandleInv, Typed, Owned
  <2>5. InPlanes'
    <3>1. /\ sink'.filled = sink.filled \cup rows /\ sink'.clashed = sink.clashed
          /\ sink'.plane = sink.plane
      BY <2>1 DEF Fill, HandleInv, Typed
    <3>2. ~TooSmall
      BY <1>7 DEF Vetted, TooSmall
    <3>3. ~sink.clashed => 0..converted - 1 \subseteq sink.filled
      BY <1>7, <3>2 DEF HandleInv, InPlanes
    <3> QED  BY <2>1, <2>3, <3>1, <3>3 DEF InPlanes
  <2> QED  BY <2>3, <2>4, <2>5 DEF HandleInv
<1>8. CASE sink.plane # NoPlane /\ ~Vetted(sink.plane, handle.input)
  <2>1. /\ Answer("next", IF handle'.overlap THEN "overlap" ELSE "small")
        /\ sink' = [sink EXCEPT !.clashed = @ \/ handle'.overlap]
        /\ UNCHANGED <<converted, frame, owners>>
    BY <1>8, Zenon DEF NextFrame
  <2>2. PICK b \in BOOLEAN : b = (sink.clashed \/ handle'.overlap)
    OBVIOUS
  <2>3. sink' = [sink EXCEPT !.clashed = b]
    BY <2>1, <2>2, Zenon
  <2>4. /\ sink' \in [plane : Lease, filled : SUBSET Int, clashed : BOOLEAN]
        /\ sink'.plane = sink.plane /\ sink'.filled = sink.filled /\ sink'.clashed = b
    BY <2>3 DEF HandleInv, Typed
  <2>5. Typed' /\ Owned'
    BY <1>3, <2>1, <2>4 DEF HandleInv, Typed, Owned
  <2>6. InPlanes'
    <3>1. converted' = converted /\ TooSmall' = TooSmall
      BY <1>3, <2>1, <2>4, Zenon
    <3>2. ~b => ~sink.clashed
      BY <2>2
    <3>3. sink.plane # NoPlane /\ ~b => TooSmall' \/ 0..converted' - 1 \subseteq sink'.filled
      <4>1. 0..converted' - 1 \subseteq sink'.filled <=> 0..converted - 1 \subseteq sink.filled
        BY <2>4, <3>1
      <4> QED  BY <3>1, <3>2, <4>1, Zenon DEF HandleInv, InPlanes
    <3> QED  BY <2>4, <3>3, Zenon DEF InPlanes
  <2>7. Apart' /\ Inside' /\ Empty' /\ Shown'
    BY <2>1, NotInPlanes
  <2> QED  BY <2>5, <2>6, <2>7 DEF HandleInv
<1> QED  BY <1>6, <1>7, <1>8

LEMMA PartialFrameKeeps ==
    ASSUME LentMemory, HandleInv, PartialFrame
    PROVE  HandleInv'
<1> DEFINE o == Freed(owners)
<1>1. handle' = Protected /\ handle.opened /\ image' = image /\ owners' = o
  BY DEF PartialFrame
<1>2. /\ handle' \in [poisoned : BOOLEAN, opened : BOOLEAN, input : Area, range : Area,
                      overlap : BOOLEAN]
      /\ handle'.opened /\ handle'.input = handle.input
      /\ handle'.overlap = (sink.plane # NoPlane /\ Clash(sink.plane, handle.input))
      /\ image' \in [len : Nat, rows : Nat, ready : Nat, format : {"packed", "planar"},
                     done : BOOLEAN]
      /\ image'.len = image.len /\ image'.rows = image.rows
      /\ image'.ready <= image'.rows /\ image'.len > 0 /\ image'.rows > 0
      /\ sink'.plane = sink.plane => TooSmall' = TooSmall
  BY <1>1, PictureKeeps, Zenon
<1>3. /\ o \in [made : Nat, live : SUBSET Nat, twice : BOOLEAN]
      /\ o.live = {} /\ ~o.twice
  BY FreedOnce DEF HandleInv
<1>4. image.rows \in Nat /\ converted \in Nat /\ image.ready \in Nat /\ image.ready <= image.rows
  BY DEF HandleInv, Typed
<1>5. PICK upto \in Nat : /\ upto = (IF converted > image.ready THEN converted ELSE image.ready)
                          /\ upto = converted \/ (converted <= upto /\ upto <= image.rows)
  <2>1. CASE converted > image.ready
    BY <1>4, <2>1
  <2>2. CASE ~(converted > image.ready)
    BY <1>4, <2>2
  <2> QED  BY <2>1, <2>2
<1> DEFINE rows == converted..upto - 1
<1>6. rows \subseteq 0..image.rows - 1 /\ 0..upto - 1 \subseteq rows \cup 0..converted - 1
  BY <1>4, <1>5
<1>7. frame' \in [pixels : {"null", "own", "sink", "owner"}, owner : Nat] /\ frame'.owner = 0
      => Owned' /\ owners' \in [made : Nat, live : SUBSET Nat, twice : BOOLEAN]
  BY <1>1, <1>3 DEF Owned
<1>8. CASE image.ready = 0
  <2>1. Answer("partial", "none") /\ frame' = NoFrame /\ UNCHANGED <<sink, converted>>
    BY <1>8, Zenon DEF PartialFrame
  <2>2. Owned' /\ Typed'
    BY <1>2, <1>7, <2>1 DEF NoFrame, HandleInv, Typed
  <2>3. InPlanes'
    BY <1>2, <2>1 DEF HandleInv, InPlanes
  <2> QED  BY <2>1, <2>2, <2>3, NotInPlanes DEF HandleInv
<1>9. CASE image.ready # 0 /\ sink.plane = NoPlane
  <2>1. /\ converted' = upto /\ frame' = [pixels |-> "own", owner |-> 0]
        /\ Gives("partial", {}, 0) /\ UNCHANGED sink
    BY <1>5, <1>9, Zenon DEF PartialFrame
  <2>2. Owned' /\ Typed' /\ InPlanes'
    BY <1>2, <1>7, <1>9, <2>1 DEF HandleInv, Typed, InPlanes
  <2> QED  BY <2>1, <2>2, NotInPlanes DEF HandleInv
<1>10. CASE image.ready # 0 /\ sink.plane # NoPlane /\ Vetted(sink.plane, handle.input)
  <2>1. /\ converted' = upto /\ frame' = [pixels |-> "sink", owner |-> 0]
        /\ sink' = Fill(rows) /\ Gives("partial", Written(rows), upto)
    BY <1>5, <1>10, Zenon DEF PartialFrame
  <2>2. /\ sink' \in [plane : Lease, filled : SUBSET Int, clashed : BOOLEAN]
        /\ ~sink'.clashed => 0..upto - 1 \subseteq sink'.filled
        /\ Apart' /\ Inside' /\ Empty' /\ Shown'
    <3> HIDE DEF rows
    <3> QED  BY <1>1, <1>2, <1>6, <1>10, <2>1, RowsGiven
  <2>3. Owned' /\ Typed' /\ InPlanes'
    BY <1>2, <1>7, <2>1, <2>2 DEF HandleInv, Typed, InPlanes
  <2> QED  BY <2>2, <2>3 DEF HandleInv
<1>11. CASE image.ready # 0 /\ sink.plane # NoPlane /\ ~Vetted(sink.plane, handle.input)
  <2>1. /\ converted' = (IF image.format = "planar" THEN upto ELSE converted)
        /\ frame' = NoFrame
        /\ sink' = [sink EXCEPT !.clashed = @ \/ handle'.overlap]
        /\ Answer("partial", IF handle'.overlap THEN "overlap" ELSE "small")
    BY <1>5, <1>11, Zenon DEF PartialFrame
  <2>2. PICK b \in BOOLEAN : b = (sink.clashed \/ handle'.overlap)
    OBVIOUS
  <2>3. sink' = [sink EXCEPT !.clashed = b]
    BY <2>1, <2>2, Zenon
  <2>4. /\ sink' \in [plane : Lease, filled : SUBSET Int, clashed : BOOLEAN]
        /\ sink'.plane = sink.plane /\ sink'.clashed = b
    BY <2>3 DEF HandleInv, Typed
  <2>5. Typed' /\ Owned'
    BY <1>2, <1>4, <1>7, <2>1, <2>4 DEF HandleInv, Typed, NoFrame
  <2>6. InPlanes'
    <3>1. ~b => ~Clash(sink.plane, handle.input)
      BY <1>2, <1>11, <2>2, Zenon
    <3>2. ~b => TooSmall
      BY <1>11, <3>1, ClashOrSmall
    <3>3. TooSmall' = TooSmall
      BY <1>2, <2>4, Zenon
    <3> QED  BY <2>4, <3>2, <3>3, Zenon DEF InPlanes
  <2>7. Apart' /\ Inside' /\ Empty' /\ Shown'
    BY <2>1, NotInPlanes
  <2> QED  BY <2>5, <2>6, <2>7 DEF HandleInv
<1> QED  BY <1>8, <1>9, <1>10, <1>11

LEMMA PanicKeeps ==
    ASSUME LentMemory, HandleInv, NEW part \in BOOLEAN, Panic(part)
    PROVE  HandleInv'
<1>1. handle' = [Protected EXCEPT !.poisoned = TRUE] /\ handle.opened
      /\ UNCHANGED <<sink, image, converted>>
  BY DEF Panic
<1>2. /\ handle' \in [poisoned : BOOLEAN, opened : BOOLEAN, input : Area, range : Area,
                      overlap : BOOLEAN]
      /\ handle'.opened /\ handle'.poisoned
  <2>1. /\ Protected \in [poisoned : BOOLEAN, opened : BOOLEAN, input : Area, range : Area,
                          overlap : BOOLEAN]
        /\ Protected.opened = handle.opened
    BY ProtectedTyped DEF HandleInv
  <2> QED  BY <1>1, <2>1
<1>3. /\ frame' \in [pixels : {"null", "own", "sink", "owner"}, owner : Nat]
      /\ owners' \in [made : Nat, live : SUBSET Nat, twice : BOOLEAN]
      /\ Owned'
  <2>1. CASE part
    <3>1. owners' = Freed(owners) /\ frame' = NoFrame
      BY <2>1, Zenon DEF Panic
    <3> QED  BY <3>1, FreedOnce DEF HandleInv, Owned, NoFrame
  <2>2. CASE ~part
    <3>1. UNCHANGED <<owners, frame>>
      BY <2>2, Zenon DEF Panic
    <3> QED  BY <3>1 DEF HandleInv, Owned, Typed
  <2> QED  BY <2>1, <2>2
<1>4. Typed'
  BY <1>1, <1>2, <1>3 DEF HandleInv, Typed
<1>5. InPlanes'
  BY <1>1 DEF HandleInv, InPlanes, TooSmall, PlaneFits, Extent, Abs
<1>6. call'.wrote = {} /\ call'.valid = 0
  BY AnswerSilent DEF Panic
<1>7. Apart' /\ Inside' /\ Empty' /\ Shown'
  BY <1>2, <1>6 DEF Apart, Inside, Empty, Shown
<1> QED  BY <1>3, <1>4, <1>5, <1>7 DEF HandleInv

-----------------------------------------------------------------------------
(* The theorem.                                                            *)

LEMMA StutterKeeps == HandleInv /\ UNCHANGED vars => HandleInv'
<1> SUFFICES ASSUME HandleInv, UNCHANGED vars PROVE HandleInv'
  OBVIOUS
<1>1. Typed' /\ Owned' /\ InPlanes'
  BY DEF vars, HandleInv, Typed, Owned, InPlanes, TooSmall, PlaneFits, Extent, Abs
<1>2. Apart' /\ Inside' /\ Empty' /\ Shown'
  BY DEF vars, HandleInv, Apart, Inside, Empty, Shown, Bytes, Lent
<1> QED  BY <1>1, <1>2 DEF HandleInv

LEMMA NextHolds ==
    ASSUME LentMemory, HandleInv, [Next]_vars
    PROVE  HandleInv'
<1>1. CASE UNCHANGED vars
  BY <1>1, StutterKeeps
<1>2. CASE Next
  BY <1>2, RefuseKeeps, SetOutputBufferKeeps, DropOutputBufferKeeps, LendKeeps, UpdateKeeps,
     DecodeKeeps, NextFrameKeeps, PartialFrameKeeps, PanicKeeps, FrameFreeKeeps,
     HandleFreeKeeps, DecodeOwnedKeeps
     DEF Next
<1> QED  BY <1>1, <1>2

\* The invariant holds, of whatever memory a caller lends.
THEOREM Invariance == ASSUME LentMemory PROVE Spec => []HandleInv
<1>1. Init => HandleInv
  BY InitHolds
<1>2. HandleInv /\ [Next]_vars => HandleInv'
  BY NextHolds
<1> QED  BY <1>1, <1>2, PTL DEF Spec

\* Whatever the calls through the C API and whatever they fail at, an owner is
\* alive just while the caller's frame names it and is released once; no byte of
\* the input in use is written and none that was not lent; and rows said to be
\* valid were written, as long as the planes never lay over the input.
THEOREM LendingIsSafe == ASSUME LentMemory PROVE Spec => []HandleSafe
<1>1. HandleInv => HandleSafe
  BY InvariantIsSafe
<1> QED  BY <1>1, Invariance, PTL
=============================================================================
