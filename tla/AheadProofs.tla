----------------------------- MODULE AheadProofs -----------------------------
(***************************************************************************)
(* What Ahead promises, proved for every set of files and options, every   *)
(* size of the ring and every length of run.                               *)
(*                                                                         *)
(* The frames of the run still to be walked are the numbers pos..end - 1,  *)
(* and one more while a frame is being taken.  That they are no more than  *)
(* the ring has entries keeps their places apart; that each entry names    *)
(* the chunk the walk will come to keeps the run in step; and that a frame *)
(* is pending just when the pool has it tells which slots are stand-ins.   *)
(* All of it together is inductive, and says what a frame taken shows.     *)
(***************************************************************************)
EXTENDS Ahead, FiniteSetTheorems, SequenceTheorems, TLAPS

-----------------------------------------------------------------------------
(* The inductive invariant.                                                *)

\* A frame is being taken: pos is past it already.
Held == call \in {"collect", "swap", "follow"}
Oldest == IF Held THEN pos - 1 ELSE pos

\* The chunk of frame pos.
Upcoming == IF call \in {"fill", "take", "alone"} THEN base ELSE cursor

EntryOf(j) == entries[At(j)]
Ready(j) ==
    /\ EntryOf(j).out = Image(EntryOf(j).base, runSettings)
    /\ slots[At(j)].holds = EntryOf(j).out

\* The frames in use are no more than the ring has places for.
Window ==
    /\ pos <= end
    /\ Held => 1 <= pos
    /\ end - Oldest <= Len(entries)
    /\ Owed \subseteq (IF call = "collect" THEN pos - 1 ELSE pos)..end - 1

\* What is left of the run are the chunks the walk comes to next.
Frames ==
    \A j \in pos..end - 1 :
        /\ EntryOf(j).base = Upcoming + (j - pos)
        /\ IsA(Fits, EntryOf(j).base)
        /\ EntryOf(j).pending <=> j \in Owed
        /\ j \notin Owed => Ready(j)

InStep ==
    call # "drain" =>
        /\ pos < Upcoming
        /\ Frames
        /\ next # None => next = Upcoming + (end - pos) /\ (Held \/ ~Spent)
        /\ call = "alone" => Spent

\* Each job is for the chunk of its entry, under the run's settings.
Carried ==
    call # "drain" =>
        \A j \in Owed : jobs[j].image = Image(EntryOf(j).base, runSettings)

\* The frame being taken is the one asked for, under the options in force.
InHand ==
    /\ call = "collect" => pos - 1 \in Owed /\ EntryOf(pos - 1).base = base
    /\ call = "swap" => Ready(pos - 1) /\ EntryOf(pos - 1).base = base
    /\ Held => runSettings = settings

Asked ==
    call \in {"fill", "take", "collect", "swap", "alone"} \/ (call = "drain" /\ then = "alone")
        => base + 1 = cursor /\ 1 <= base /\ IsA(Decoded, base)

Drains ==
    /\ Len(entries) > 0 => pool # Nothing
    /\ call = "drain" => Pool!In("queued") = {}

Inv == TypeOK /\ BuffersKept /\ Window /\ InStep /\ Carried /\ InHand /\ Asked /\ Drains

-----------------------------------------------------------------------------
(* The ring.                                                               *)

\* Frames less than a turn of the ring apart have places of their own.
LEMMA RingPlaces ==
    ASSUME NEW n \in Nat \ {0}, NEW i \in Nat, NEW j \in Nat
    PROVE  /\ RingOf(n, i) \in 1..n
           /\ RingOf(n, i) = RingOf(n, j) /\ i - j < n /\ j - i < n => i = j
           /\ i < n => RingOf(n, i) = i + 1
<1>1. i = n * (i \div n) + (i % n) /\ i % n \in 0..n - 1 /\ i \div n \in Int
  OBVIOUS
<1>2. j = n * (j \div n) + (j % n) /\ j % n \in 0..n - 1 /\ j \div n \in Int
  OBVIOUS
<1> DEFINE p == i \div n
           q == j \div n
<1>3. ASSUME i % n = j % n, i - j < n, j - i < n PROVE i = j
  <2>1. i - j = n * (p - q)
    BY <1>1, <1>2, <1>3
  <2>2. p - q \in Int
    BY <1>1, <1>2
  <2> HIDE DEF p, q
  <2>3. p - q = 0
    BY <2>1, <2>2, <1>3
  <2> QED  BY <2>1, <2>3
<1>4. i < n => i % n = i
  OBVIOUS
<1> QED  BY <1>1, <1>2, <1>3, <1>4 DEF RingOf

LEMMA Lengths ==
    ASSUME TypeOK
    PROVE  /\ Len(entries) \in Nat /\ DOMAIN entries = 1..Len(entries)
           /\ Len(slots) \in Nat /\ DOMAIN slots = 1..Len(slots)
           /\ Len(entries) <= Len(slots)
           /\ \A k \in 1..Len(slots) : slots[k] \in SlotType
           /\ \A k \in 1..Len(entries) :
                  /\ entries[k] \in EntryType
                  /\ entries[k].base \in 1..MaxChunks
                  /\ entries[k].out \in Images /\ entries[k].pending \in BOOLEAN
<1>1. /\ Len(entries) \in Nat /\ DOMAIN entries = 1..Len(entries)
      /\ Len(slots) \in Nat /\ DOMAIN slots = 1..Len(slots)
      /\ Len(entries) <= Len(slots)
      /\ \A k \in 1..Len(slots) : slots[k] \in SlotType
      /\ \A k \in 1..Len(entries) : entries[k] \in EntryType
  BY LenProperties, ElementOfSeq DEF TypeOK
<1> QED  BY <1>1 DEF EntryType

LEMMA Numbers ==
    ASSUME TypeOK
    PROVE  /\ MaxChunks \in Nat /\ pos \in Nat /\ end \in Nat /\ next \in Nat
           /\ base \in Nat /\ cursor \in Nat /\ Index \subseteq Nat
           /\ end <= MaxChunks /\ Oldest \in Int
  BY MaxChunksAssumption DEF TypeOK, Index, Oldest

\* Every frame has a place, and frames less than a turn of the ring apart have
\* different ones.
LEMMA Places ==
    ASSUME TypeOK
    PROVE  /\ \A i \in Nat : Len(entries) > 0 => At(i) \in 1..Len(entries)
           /\ \A i, j \in Nat :
                  /\ i - j < Len(entries) /\ j - i < Len(entries)
                  /\ At(i) = At(j)
                  => i = j
<1>1. Len(entries) \in Nat
  BY Lengths
<1>2. \A i \in Nat : Len(entries) > 0 => At(i) \in 1..Len(entries)
  BY <1>1, RingPlaces DEF At
<1>3. ASSUME NEW i \in Nat, NEW j \in Nat,
             i - j < Len(entries), j - i < Len(entries), At(i) = At(j)
      PROVE  i = j
  <2>1. Len(entries) \in Nat \ {0}
    BY <1>1, <1>3
  <2> QED  BY <2>1, <1>3, RingPlaces DEF At
<1> QED  BY <1>2, <1>3

\* So the frames in use are apart.
LEMMA InUse ==
    ASSUME TypeOK, Window
    PROVE  /\ \A j \in Oldest..end - 1 : j \in Nat /\ At(j) \in 1..Len(entries)
           /\ \A i, j \in Oldest..end - 1 : At(i) = At(j) => i = j
           /\ Oldest \in Nat /\ Oldest <= end /\ pos..end - 1 \subseteq Oldest..end - 1
           /\ Owed \subseteq Oldest..end - 1
<1>1. /\ Len(entries) \in Nat /\ end \in Nat /\ pos \in Nat /\ Oldest \in Nat
      /\ Oldest <= end /\ end - Oldest <= Len(entries) /\ Oldest <= pos
      /\ call = "collect" => Oldest = pos - 1
  BY Lengths, Numbers DEF Window, Oldest, Held
<1>2. \A j \in Oldest..end - 1 : j \in Nat /\ Len(entries) > 0
  BY <1>1
<1>3. \A i, j \in Oldest..end - 1 : i - j < Len(entries) /\ j - i < Len(entries)
  BY <1>1
<1>4. Owed \subseteq Oldest..end - 1
  BY <1>1 DEF Window
<1>5. \A j \in Oldest..end - 1 : At(j) \in 1..Len(entries)
  BY <1>2, Places
<1>6. \A i, j \in Oldest..end - 1 : At(i) = At(j) => i = j
  BY <1>2, <1>3, Places
<1>7. pos..end - 1 \subseteq Oldest..end - 1
  BY <1>1
<1> QED  BY <1>1, <1>2, <1>4, <1>5, <1>6, <1>7

\* One slot, or one entry, of the ring is replaced.
LEMMA SlotPut ==
    ASSUME TypeOK, NEW k \in 1..Len(slots), NEW e \in SlotType,
           NEW s, s = [slots EXCEPT ![k] = e]
    PROVE  /\ s \in Seq(SlotType) /\ Len(s) = Len(slots) /\ DOMAIN s = 1..Len(slots)
           /\ \A i \in 1..Len(slots) : s[i] = IF i = k THEN e ELSE slots[i]
<1>1. slots \in Seq(SlotType)
  BY DEF TypeOK
<1>2. /\ s \in Seq(SlotType) /\ Len(s) = Len(slots)
      /\ \A i \in 1..Len(slots) : s[i] = IF i = k THEN e ELSE slots[i]
  BY <1>1, ExceptSeq
<1> QED  BY <1>1, <1>2, Lengths

LEMMA EntryPut ==
    ASSUME TypeOK, NEW k \in 1..Len(entries), NEW e \in EntryType,
           NEW s, s = [entries EXCEPT ![k] = e]
    PROVE  /\ s \in Seq(EntryType) /\ Len(s) = Len(entries)
           /\ \A i \in 1..Len(entries) : s[i] = IF i = k THEN e ELSE entries[i]
<1>1. entries \in Seq(EntryType)
  BY DEF TypeOK
<1> QED  BY <1>1, ExceptSeq

\* The frames left stay in step where no entry or slot of theirs changes.
LEMMA FramesStay ==
    ASSUME Frames, file' = file, pos' = pos, end' = end, runSettings' = runSettings,
           Upcoming' = Upcoming, Len(entries)' = Len(entries),
           \A j \in pos..end - 1 : /\ j \in Owed' <=> j \in Owed
                                  /\ entries'[At(j)] = entries[At(j)]
                                  /\ slots'[At(j)] = slots[At(j)]
    PROVE  Frames'
<1>1. \A j \in pos..end - 1 :
         /\ EntryOf(j)' = EntryOf(j)
         /\ Ready(j) => Ready(j)'
  BY DEF EntryOf, At, Ready
<1>2. \A c : IsA(Fits, c)' <=> IsA(Fits, c)
  BY DEF IsA
<1> QED  BY <1>1, <1>2 DEF Frames

\* A chunk is one of the file's.
LEMMA ChunkThere ==
    ASSUME TypeOK, NEW kinds, NEW c \in Nat, IsA(kinds, c)
    PROVE  c <= MaxChunks
<1>1. Len(file) \in Nat /\ Len(file) <= MaxChunks
  BY FilesAssumption, LenProperties DEF TypeOK
<1> QED  BY <1>1, MaxChunksAssumption DEF IsA

-----------------------------------------------------------------------------
(* Steps that leave the run, the ring and the pool alone.                  *)

LEMMA SetOptionsStep == ASSUME Inv, SetOptions PROVE Inv'
<1> USE DEF SetOptions, outVars, runVars, ringVars, poolVars, callVars
<1>1. TypeOK'
  BY DEF Inv, TypeOK
<1>2. BuffersKept' /\ Window' /\ Drains'
  BY DEF Inv, BuffersKept, Window, Drains, Owed, Oldest, Held, RingOf, Pool!In
<1>3. InStep' /\ Carried'
  BY DEF Inv, InStep, Carried, Frames, Ready, EntryOf, At, RingOf, Upcoming, Held, Spent,
         IsA, Owed
<1>4. InHand' /\ Asked'
  BY DEF Inv, InHand, Asked, Held, IsA
<1> QED  BY <1>1, <1>2, <1>3, <1>4 DEF Inv

\* Past the end of the run there is none left to be out of step with.
LEMMA Exhausted ==
    ASSUME Inv, Spent
    PROVE  pos..end - 1 = {} /\ (call # "collect" => Owed = {})
<1>1. pos \in Nat /\ end \in Nat
  BY Numbers DEF Inv
<1> QED  BY <1>1 DEF Inv, Spent, Window

LEMMA GoPast ==
    ASSUME Inv, call = "idle", Spent, cursor' = cursor + 1, cursor <= MaxChunks,
           shown' \in {shown, <<cursor>>},
           UNCHANGED <<file, whole, settings, threads, frame, runVars, ringVars,
                       poolVars, callVars>>
    PROVE  Inv'
<1> USE DEF runVars, ringVars, poolVars, callVars
<1>1. TypeOK'
  BY MaxChunksAssumption DEF Inv, TypeOK
<1>2. BuffersKept' /\ Window' /\ Drains'
  BY DEF Inv, BuffersKept, Window, Drains, Owed, Oldest, Held, RingOf, Pool!In
<1>3. pos..end - 1 = {} /\ Owed = {}
  BY Exhausted
<1>4. Carried'
  BY <1>3 DEF Carried, Owed
<1>5. InStep'
  <2>1. pos < cursor /\ next = None /\ pos \in Nat /\ cursor \in Nat
    BY Numbers DEF Inv, InStep, Upcoming, Held
  <2>2. Frames'
    BY <1>3 DEF Frames
  <2> QED  BY <2>1, <2>2 DEF InStep, Upcoming
<1>6. InHand' /\ Asked'
  BY DEF Inv, InHand, Asked, Held
<1> QED  BY <1>1, <1>2, <1>4, <1>5, <1>6 DEF Inv

\* Between calls a frame of the run left is the one the walk is at.
LEMMA AtTheCursor ==
    ASSUME Inv, call \in {"idle", "fill", "take"}, ~Spent
    PROVE  /\ pos \in pos..end - 1
           /\ EntryOf(pos).base = Upcoming /\ IsA(Fits, Upcoming)
<1>1. pos \in Nat /\ end \in Nat /\ pos < end /\ Upcoming \in Nat
  BY Numbers DEF Inv, Spent, Upcoming
<1>2. Frames
  BY DEF Inv, InStep
<1>3. EntryOf(pos).base = Upcoming + (pos - pos) /\ IsA(Fits, EntryOf(pos).base)
  BY <1>1, <1>2 DEF Frames
<1> QED  BY <1>1, <1>3

LEMMA SkipStep == ASSUME Inv, Skip PROVE Inv'
<1>1. Spent
  BY AtTheCursor DEF Skip, IsA, Fits, Upcoming
<1>2. cursor \in Nat /\ cursor <= MaxChunks
  BY Numbers, ChunkThere DEF Inv, Skip
<1> QED  BY <1>1, <1>2, GoPast DEF Skip, outVars

LEMMA RefuseStep == ASSUME Inv, Refuse PROVE Inv'
<1>1. Spent
  BY AtTheCursor DEF Refuse, IsA, Fits, Upcoming
<1>2. cursor \in Nat /\ cursor <= MaxChunks
  BY Numbers, ChunkThere DEF Inv, Refuse
<1> QED  BY <1>1, <1>2, GoPast DEF Refuse

LEMMA NextFrameStep == ASSUME Inv, NextFrame PROVE Inv'
<1> USE DEF NextFrame, outVars, runVars, ringVars, poolVars
<1>1. cursor \in 1..MaxChunks
  BY Numbers, ChunkThere DEF Inv, TypeOK
<1>2. TypeOK'
  BY <1>1, MaxChunksAssumption DEF Inv, TypeOK, Calls
<1>3. BuffersKept' /\ Window' /\ Drains'
  BY DEF Inv, BuffersKept, Window, Drains, Owed, Oldest, Held, RingOf, Pool!In
<1>4. InStep' /\ Carried'
  BY DEF Inv, InStep, Carried, Frames, Ready, EntryOf, At, RingOf, Upcoming, Held, Spent,
         IsA, Owed
<1>5. InHand' /\ Asked'
  BY <1>1 DEF Inv, InHand, Asked, Held, IsA
<1> QED  BY <1>2, <1>3, <1>4, <1>5 DEF Inv

LEMMA TakeNothingStep == ASSUME Inv, TakeNothing PROVE Inv'
<1> USE DEF TakeNothing, walkVars, outVars, runVars, ringVars, poolVars
<1>1. TypeOK'
  BY DEF Inv, TypeOK, Calls
<1>2. BuffersKept' /\ Window' /\ Drains'
  BY DEF Inv, BuffersKept, Window, Drains, Owed, Oldest, Held, RingOf, Pool!In
<1>3. InStep' /\ Carried'
  BY DEF Inv, InStep, Carried, Frames, Ready, EntryOf, At, RingOf, Upcoming, Held, Spent,
         IsA, Owed
<1>4. InHand' /\ Asked'
  BY DEF Inv, InHand, Asked, Held, IsA
<1> QED  BY <1>1, <1>2, <1>3, <1>4 DEF Inv

\* Nothing is started: the walk goes on to take.
LEMMA NotFilled ==
    ASSUME Inv, call = "fill", call' = "take",
           UNCHANGED <<walkVars, outVars, runVars, ringVars, poolVars, base, then>>
    PROVE  Inv'
<1> USE DEF walkVars, outVars, runVars, ringVars, poolVars
<1>1. TypeOK'
  BY DEF Inv, TypeOK, Calls
<1>2. BuffersKept' /\ Window' /\ Drains'
  BY DEF Inv, BuffersKept, Window, Drains, Owed, Oldest, Held, RingOf, Pool!In
<1>3. InStep' /\ Carried'
  BY DEF Inv, InStep, Carried, Frames, Ready, EntryOf, At, RingOf, Upcoming, Held, Spent,
         IsA, Owed
<1>4. InHand' /\ Asked'
  BY DEF Inv, InHand, Asked, Held, IsA
<1> QED  BY <1>1, <1>2, <1>3, <1>4 DEF Inv

LEMMA AloneStep == ASSUME Inv, Alone PROVE Inv'
<1> USE DEF Alone, walkVars, runVars, ringVars, poolVars
<1>1. base \in 1..MaxChunks /\ base + 1 = cursor /\ settings \in Settings
  BY Numbers, ChunkThere DEF Inv, TypeOK, Asked
<1>2. TypeOK'
  <2>1. Image(base, settings) \in Images
    BY <1>1 DEF Image, Images
  <2>2. frame' \in SlotType
    BY <2>1 DEF Inv, TypeOK, SlotType
  <2> QED  BY <1>1, <2>1, <2>2, MaxChunksAssumption DEF Inv, TypeOK, Calls, None
<1>3. BuffersKept' /\ Window' /\ Drains'
  BY DEF Inv, BuffersKept, Window, Drains, Owed, Oldest, Held, RingOf, Pool!In, TypeOK,
         SlotType
<1>4. Spent /\ pos < base /\ pos \in Nat
  BY Numbers DEF Inv, InStep, Upcoming
<1>5. pos..end - 1 = {} /\ Owed = {} /\ next = None
  BY <1>4, Exhausted DEF Inv, InStep, Held
<1>6. InStep' /\ Carried'
  BY <1>1, <1>4, <1>5 DEF InStep, Carried, Frames, Upcoming, Owed
<1>7. InHand' /\ Asked'
  BY DEF Inv, InHand, Asked, Held
<1> QED  BY <1>2, <1>3, <1>6, <1>7 DEF Inv

-----------------------------------------------------------------------------
(* Taking a frame.                                                         *)

LEMMA TakeStep == ASSUME Inv, Take PROVE Inv'
<1> USE DEF Take, walkVars, outVars, ringVars, poolVars
<1>1. /\ pos \in pos..end - 1 /\ pos \in Nat /\ end \in Nat /\ pos < end
      /\ end <= MaxChunks /\ MaxChunks \in Nat
      /\ EntryOf(pos).base = base /\ IsA(Fits, base)
      /\ runSettings = settings
  BY AtTheCursor, Numbers DEF Inv, Upcoming, Matches, Spent, EntryOf
<1>2. /\ base + 1 = cursor /\ base \in Nat
      /\ EntryOf(pos).pending <=> pos \in Owed
      /\ pos \notin Owed => Ready(pos)
      /\ \A k \in DOMAIN entries : entries[k].pending \in BOOLEAN
  BY <1>1, Numbers, Lengths DEF Inv, InStep, Frames, Asked
<1>3. call' = IF pos \in Owed THEN "collect" ELSE "swap"
  BY <1>2 DEF EntryOf
<1>4. TypeOK'
  BY <1>1, <1>3 DEF Inv, TypeOK, Calls
<1>5. BuffersKept' /\ Drains'
  BY <1>3 DEF Inv, BuffersKept, Drains, Owed, RingOf, Pool!In
<1>6. Window'
  <2>1. Oldest' = pos /\ Held'
    BY <1>1, <1>3 DEF Oldest, Held
  <2>2. Owed' = Owed /\ Owed \subseteq pos..end - 1 /\ Oldest = pos
    BY DEF Inv, Window, Owed, Oldest, Held
  <2>3. pos' = pos + 1 /\ end' = end /\ Len(entries)' = Len(entries)
    OBVIOUS
  <2>4. Owed' \subseteq (IF call' = "collect" THEN pos' - 1 ELSE pos')..end' - 1
    BY <1>1, <1>3, <2>2, <2>3
  <2> QED  BY <1>1, <2>1, <2>2, <2>3, <2>4 DEF Inv, Window
<1>7. InStep'
  <2>1. /\ Upcoming = base /\ Upcoming' = cursor /\ call # "drain" /\ call' # "drain"
        /\ Held' /\ call' # "alone" /\ ~Held
    BY <1>3 DEF Upcoming, Held
  <2>2. Frames'
    <3> SUFFICES ASSUME NEW j \in pos + 1..end - 1
                 PROVE  /\ EntryOf(j).base = cursor + (j - (pos + 1))
                        /\ IsA(Fits, EntryOf(j).base)
                        /\ EntryOf(j).pending <=> j \in Owed
                        /\ j \notin Owed => Ready(j)
      BY <2>1 DEF Frames, EntryOf, IsA, Ready, Owed, At, RingOf
    <3>1. j \in pos..end - 1 /\ j \in Int
      BY <1>1
    <3>2. base + (j - pos) = cursor + (j - (pos + 1))
      BY <1>1, <1>2, <3>1
    <3> QED  BY <2>1, <3>1, <3>2 DEF Inv, InStep, Frames
  <2>3. pos' < Upcoming'
    BY <1>1, <1>2, <2>1 DEF Inv, InStep
  <2>4. next' # None => next' = Upcoming' + (end' - pos')
    <3>1. next # None => next = base + (end - pos)
      BY <2>1 DEF Inv, InStep
    <3>2. base + (end - pos) = cursor + (end - (pos + 1))
      BY <1>1, <1>2
    <3> QED  BY <2>1, <3>1, <3>2
  <2> QED  BY <2>1, <2>2, <2>3, <2>4 DEF InStep
<1>8. Carried'
  BY <1>3 DEF Inv, Carried, Owed, EntryOf, At, RingOf
<1>9. InHand'
  <2>1. pos' - 1 = pos
    BY <1>1
  <2>2. /\ EntryOf(pos - 1)' = EntryOf(pos) /\ Owed' = Owed
        /\ Ready(pos) => Ready(pos - 1)'
    <3>1. At(pos - 1)' = At(pos)
      BY <2>1 DEF At, RingOf
    <3> QED  BY <3>1 DEF EntryOf, Owed, Ready
  <2> QED  BY <1>1, <1>2, <1>3, <2>1, <2>2 DEF InHand
<1>10. Asked'
  BY <1>3 DEF Inv, Asked, IsA
<1> QED  BY <1>4, <1>5, <1>6, <1>7, <1>8, <1>9, <1>10 DEF Inv

\* The place of the frame being taken is no other's.
LEMMA InHandApart ==
    ASSUME Inv, Held
    PROVE  /\ pos - 1 \in Nat /\ At(pos - 1) \in 1..Len(entries)
           /\ pos - 1 \in Oldest..end - 1 /\ Oldest = pos - 1
           /\ \A j \in pos..end - 1 : At(j) # At(pos - 1)
<1>1. /\ Oldest = pos - 1 /\ pos \in Nat /\ end \in Nat /\ 1 <= pos /\ pos <= end
  BY Numbers DEF Inv, Window, Oldest
<1>2. pos - 1 \in Oldest..end - 1
  BY <1>1
<1>3. \A j \in pos..end - 1 : j \in Oldest..end - 1 /\ j # pos - 1
  BY <1>1
<1> QED  BY <1>1, <1>2, <1>3, InUse DEF Inv

LEMMA SwapStep == ASSUME Inv, Swap PROVE Inv'
<1> USE DEF walkVars, runVars, poolVars
<1> DEFINE k == At(pos - 1)
<1>0. /\ call = "swap" /\ call' = "follow"
      /\ frame' = slots[k]
      /\ slots' = [slots EXCEPT ![k] = [frame EXCEPT !.holds = Nothing]]
      /\ shown' = IF slots[k].holds = entries[k].out THEN entries[k].out ELSE Nothing
      /\ UNCHANGED <<walkVars, runVars, entries, poolVars, base, then>>
  BY DEF Swap
<1>1. /\ Held /\ Held' /\ pos \in Nat /\ pos - 1 \in Nat /\ Oldest = pos - 1
      /\ k \in 1..Len(entries) /\ k \in 1..Len(slots) /\ k \in DOMAIN slots
      /\ Owed \subseteq pos..end - 1 /\ Owed' = Owed /\ entries' = entries
      /\ \A j \in pos..end - 1 : At(j) # k
  BY <1>0, InHandApart, Lengths, Numbers DEF Inv, Held, Window, Owed
<1> HIDE DEF k
<1>3. /\ frame \in SlotType /\ slots[k] \in SlotType /\ entries[k].out \in Images
      /\ [frame EXCEPT !.holds = Nothing] \in SlotType
      /\ [frame EXCEPT !.holds = Nothing].real = frame.real
  BY <1>1, Lengths DEF Inv, TypeOK, SlotType, Images, Nothing
<1>4. /\ slots' \in Seq(SlotType) /\ Len(slots') = Len(slots)
      /\ DOMAIN slots' = DOMAIN slots
  <2> DEFINE e == [frame EXCEPT !.holds = Nothing]
  <2>1. e \in SlotType /\ slots' = [slots EXCEPT ![k] = e] /\ TypeOK
    BY <1>0, <1>3 DEF Inv
  <2> HIDE DEF e
  <2> QED  BY <1>1, <2>1, SlotPut, Lengths
<1>5. TypeOK'
  BY <1>0, <1>3, <1>4 DEF Inv, TypeOK, Calls, Images
<1>6. BuffersKept'
  <2>1. \A j \in Owed : RingOf(Len(entries), j) # k
    BY <1>0, <1>1 DEF At
  <2>2. slots[k].real
    BY <1>1, <2>1 DEF Inv, BuffersKept
  <2>3. \A i \in DOMAIN slots : slots'[i] = IF i = k THEN [frame EXCEPT !.holds = Nothing]
                                             ELSE slots[i]
    BY <1>0, <1>1 DEF Inv, TypeOK
  <2>4. \A i \in DOMAIN slots' :
            ~slots'[i].real <=> \E j \in Owed : RingOf(Len(entries), j) = i
    BY <1>3, <1>4, <2>1, <2>3 DEF Inv, BuffersKept
  <2> QED  BY <1>0, <1>1, <2>2, <2>4 DEF Inv, BuffersKept, RingOf
<1>7. Window' /\ Drains' /\ Asked'
  BY <1>0, <1>1 DEF Inv, Window, Drains, Asked, Oldest, Held, Owed, Pool!In, IsA
<1>8. InStep' /\ Carried'
  <2>1. \A j \in pos..end - 1 : slots'[At(j)] = slots[At(j)]
    BY <1>0, <1>1 DEF Inv, TypeOK
  <2>2. Frames => Frames'
    BY <1>0, <1>1, <2>1, FramesStay DEF Upcoming
  <2>3. InStep'
    BY <1>0, <1>1, <2>2 DEF Inv, InStep, Upcoming
  <2>4. Carried'
    BY <1>0, <1>1 DEF Inv, Carried, EntryOf, At, RingOf, Owed
  <2> QED  BY <2>3, <2>4
<1>9. InHand'
  BY <1>0, <1>1 DEF Inv, InHand
<1> QED  BY <1>5, <1>6, <1>7, <1>8, <1>9 DEF Inv

LEMMA CollectStep == ASSUME Inv, Collect PROVE Inv'
<1> USE DEF walkVars, outVars, runVars
<1> DEFINE j == pos - 1
           k == At(j)
           image == jobs[j].image
           slot == [jobs[j].slot EXCEPT !.holds = image]
           entry == [entries[k] EXCEPT !.pending = FALSE, !.out = image]
<1>1. /\ call = "collect" /\ call' = "swap"
      /\ status' = [status EXCEPT ![j] = "walk"]
      /\ jobs' = [jobs EXCEPT ![j] = NoJob]
      /\ slots' = [slots EXCEPT ![k] = slot]
      /\ entries' = [entries EXCEPT ![k] = entry]
      /\ UNCHANGED <<walkVars, outVars, runVars, pool, base, then>>
  BY DEF Collect, BringBack, Pool!Return
<1>2. /\ Held /\ Held' /\ pos \in Nat /\ j \in Nat /\ Oldest = j /\ Oldest' = j
      /\ j \in Owed /\ j \in Index /\ entries[k].base = base /\ j \in Oldest..end - 1
      /\ k \in 1..Len(entries) /\ k \in 1..Len(slots)
      /\ \A i \in pos..end - 1 : At(i) # k
      /\ Owed \subseteq Oldest..end - 1
  BY <1>1, InHandApart, InUse, Lengths, Numbers
     DEF Inv, Held, Oldest, Owed, InHand, EntryOf
<1>3. /\ image = Image(base, runSettings) /\ image \in Images
      /\ jobs[j].slot \in SlotType /\ jobs[j].slot.real
      /\ slot \in SlotType /\ slot.real /\ slot.holds = image
  <2>1. jobs[j] \in [slot : SlotType, image : Images]
    BY <1>2 DEF Inv, TypeOK
  <2>2. jobs[j].slot.real /\ image = Image(base, runSettings)
    BY <1>1, <1>2 DEF Inv, BuffersKept, Carried, EntryOf
  <2> QED  BY <2>1, <2>2 DEF SlotType
<1> HIDE DEF k, image
<1>4. /\ entry \in EntryType
      /\ entry.base = base /\ entry.out = image /\ ~entry.pending
  <2>1. entries[k] \in EntryType
    BY <1>2, Lengths DEF Inv
  <2> QED  BY <1>2, <1>3, <2>1 DEF EntryType
<1> HIDE DEF slot, entry
<1>5. /\ slots' \in Seq(SlotType) /\ Len(slots') = Len(slots)
      /\ DOMAIN slots' = DOMAIN slots /\ DOMAIN slots = 1..Len(slots)
      /\ \A i \in 1..Len(slots) : slots'[i] = IF i = k THEN slot ELSE slots[i]
  <2>1. TypeOK /\ slots' = [slots EXCEPT ![k] = slot] /\ slot \in SlotType
    BY <1>1, <1>3 DEF Inv
  <2> QED  BY <1>2, <2>1, SlotPut, Lengths
<1>6. /\ entries' \in Seq(EntryType)
      /\ Len(entries') = Len(entries)
      /\ \A i \in 1..Len(entries) : entries'[i] = IF i = k THEN entry ELSE entries[i]
  <2>1. /\ TypeOK /\ k \in 1..Len(entries) /\ entry \in EntryType
        /\ entries' = [entries EXCEPT ![k] = entry]
    BY <1>1, <1>2, <1>4 DEF Inv
  <2>2. entries \in Seq(EntryType)
    BY <2>1 DEF TypeOK
  <2> QED  BY <2>1, <2>2, ExceptSeq
<1>7. TypeOK'
  <2>1. NoJob \in [slot : SlotType, image : Images]
    BY DEF NoJob, StandIn, SlotType, Images
  <2>2. jobs' \in [Index -> [slot : SlotType, image : Images]]
    BY <1>1, <2>1 DEF Inv, TypeOK
  <2>3. status' \in [Index -> Pool!Statuses]
    BY <1>1 DEF Inv, TypeOK, Pool!Statuses
  <2> QED  BY <1>1, <1>5, <1>6, <2>2, <2>3 DEF Inv, TypeOK, Calls
<1>8. Owed' = Owed \ {j} /\ \A i \in Owed' : jobs'[i] = jobs[i]
  BY <1>1, <1>2 DEF Inv, TypeOK, Owed
<1>9. \A i \in Owed' : At(i) # k
  BY <1>2, <1>8, InUse DEF k, Inv
<1>10. BuffersKept'
  <2>1. \A i \in Owed : RingOf(Len(entries), i) = k => i = j
    BY <1>2, InUse DEF k, Inv, At
  <2>2. \A i \in DOMAIN slots' :
            ~slots'[i].real <=> \E l \in Owed' : RingOf(Len(entries)', l) = i
    <3> SUFFICES ASSUME NEW i \in 1..Len(slots)
                 PROVE  ~slots'[i].real <=> \E l \in Owed' : RingOf(Len(entries), l) = i
      BY <1>5, <1>6
    <3>1. CASE i = k
      BY <1>3, <1>5, <1>8, <2>1, <3>1
    <3>2. CASE i # k
      BY <1>5, <1>8, <3>2 DEF Inv, BuffersKept, k, At
    <3> QED  BY <3>1, <3>2
  <2> QED  BY <1>1, <1>8, <2>2 DEF Inv, BuffersKept, RingOf
<1>11. Window'
  <2>1. Owed' \subseteq pos..end - 1
    BY <1>2, <1>8, Numbers DEF Inv
  <2> QED  BY <1>1, <1>2, <1>6, <2>1 DEF Inv, Window
<1>12. InStep'
  <2>1. \A i \in pos..end - 1 : /\ entries'[At(i)] = entries[At(i)]
                               /\ slots'[At(i)] = slots[At(i)]
    BY <1>2, <1>5, <1>6, Lengths, InUse DEF Inv
  <2>2. Upcoming' = Upcoming /\ (\A i \in pos..end - 1 : i \in Owed' <=> i \in Owed)
    BY <1>1, <1>2, <1>8 DEF Upcoming
  <2>3. Frames'
    BY <1>1, <1>6, <2>1, <2>2, FramesStay DEF Inv, InStep
  <2> QED  BY <1>1, <1>2, <2>2, <2>3 DEF Inv, InStep
<1>13. Carried'
  <2>1. \A i \in Owed' : EntryOf(i)' = EntryOf(i)
    <3>1. \A i \in Owed : At(i) \in 1..Len(entries)
      BY <1>2, InUse DEF Inv
    <3> QED  BY <1>6, <1>8, <1>9, <3>1 DEF EntryOf, At
  <2> QED  BY <1>1, <1>8, <2>1 DEF Inv, Carried
<1>14. InHand'
  <2>1. (Ready(pos - 1) /\ EntryOf(pos - 1).base = base)'
    <3>1. (At(pos - 1))' = k
      BY <1>1, <1>6 DEF At, k
    <3> QED  BY <1>1, <1>2, <1>3, <1>4, <1>5, <1>6, <3>1 DEF Ready, EntryOf
  <2> QED  BY <1>1, <1>2, <2>1 DEF Inv, InHand
<1>15. Asked' /\ Drains'
  BY <1>1, <1>6, <1>8 DEF Inv, Asked, Drains, IsA
<1> QED  BY <1>7, <1>10, <1>11, <1>12, <1>13, <1>14, <1>15 DEF Inv

-----------------------------------------------------------------------------
(* Going on after a frame.                                                 *)

\* The frame at `end` has a place free, and would be for the chunk `next`.
LEMMA NextInLine ==
    ASSUME Inv, call = "follow", next # None
    PROVE  /\ pos \in Nat /\ end \in Nat /\ cursor \in Nat /\ next \in Nat
           /\ Len(entries) \in Nat /\ MaxChunks \in Nat
           /\ 1 <= pos /\ pos <= end /\ end < next /\ next = cursor + (end - pos)
           /\ end - pos < Len(entries)
           /\ At(end) \in 1..Len(entries) /\ At(end) \in 1..Len(slots)
           /\ \A j \in pos..end - 1 : At(j) # At(end)
           /\ Owed \subseteq pos..end - 1
<1>1. /\ pos \in Nat /\ end \in Nat /\ cursor \in Nat /\ next \in Nat
      /\ Len(entries) \in Nat /\ MaxChunks \in Nat
      /\ 1 <= pos /\ pos <= end /\ pos < cursor /\ next = cursor + (end - pos)
      /\ end - (pos - 1) <= Len(entries)
      /\ Owed \subseteq pos..end - 1
  BY Numbers, Lengths DEF Inv, Window, InStep, Held, Oldest, Upcoming
<1>2. end < next /\ end - pos < Len(entries) /\ Len(entries) > 0
  BY <1>1
<1>3. At(end) \in 1..Len(entries)
  BY <1>1, <1>2, Places DEF Inv
<1>4. ASSUME NEW j \in pos..end - 1 PROVE At(j) # At(end)
  <2>1. j \in Nat /\ j # end /\ end - j < Len(entries) /\ j - end < Len(entries)
    BY <1>1, <1>2
  <2> QED  BY <2>1, <1>1, Places DEF Inv
<1> QED  BY <1>1, <1>2, <1>3, <1>4, Lengths DEF Inv

LEMMA FollowStep ==
    ASSUME Inv, call = "follow", call' = "idle", base' = None, next # None, Follow,
           UNCHANGED <<walkVars, outVars, then>>
    PROVE  Inv'
<1> USE DEF walkVars, outVars
<1> DEFINE k == At(end)
           e == [Entry(next) EXCEPT !.pending = TRUE]
           job == [slot |-> slots[k], image |-> Image(next, runSettings)]
<1>1. /\ entries' = [entries EXCEPT ![k] = e]
      /\ jobs' = [jobs EXCEPT ![end] = job]
      /\ slots' = [slots EXCEPT ![k] = StandIn]
      /\ status' = [status EXCEPT ![end] = "queued"]
      /\ pos' = pos /\ end' = end + 1 /\ next' = next + 1
      /\ UNCHANGED <<runSettings, runThreads, pool>>
      /\ IsA({"frame"}, next)
  BY DEF Follow, HandOn
<1>2. /\ pos \in Nat /\ end \in Nat /\ cursor \in Nat /\ next \in Nat
      /\ Len(entries) \in Nat /\ MaxChunks \in Nat
      /\ 1 <= pos /\ pos <= end /\ end < next /\ next = cursor + (end - pos)
      /\ end - pos < Len(entries) /\ next <= MaxChunks
      /\ k \in 1..Len(entries) /\ k \in 1..Len(slots)
      /\ \A j \in pos..end - 1 : At(j) # k
      /\ Owed \subseteq pos..end - 1
  BY <1>1, NextInLine, ChunkThere DEF Inv
<1>3. end \in Index /\ end + 1 \in 0..MaxChunks /\ next + 1 \in 0..MaxChunks + 1
  BY <1>2 DEF Index
<1>4. /\ e \in EntryType /\ e.base = next /\ e.pending
      /\ StandIn \in SlotType /\ StandIn.real = FALSE
  <2>1. next \in 1..MaxChunks
    BY <1>2
  <2> QED  BY <2>1 DEF EntryType, Entry, Images, StandIn, SlotType
<1>5. /\ slots[k] \in SlotType /\ slots[k].real
      /\ job \in [slot : SlotType, image : Images]
      /\ job.slot = slots[k] /\ job.image = Image(next, runSettings)
  <2>1. slots[k] \in SlotType
    BY <1>2, Lengths DEF Inv
  <2>2. \A j \in Owed : RingOf(Len(entries), j) # k
    BY <1>2 DEF At
  <2>3. slots[k].real
    BY <1>2, <2>2, Lengths DEF Inv, BuffersKept
  <2>4. Image(next, runSettings) \in Images
    BY <1>2 DEF Image, Images, Inv, TypeOK
  <2> QED  BY <2>1, <2>3, <2>4
<1> HIDE DEF k, e, job
<1>6. /\ slots' \in Seq(SlotType) /\ Len(slots') = Len(slots)
      /\ DOMAIN slots' = 1..Len(slots) /\ DOMAIN slots = 1..Len(slots)
      /\ \A i \in 1..Len(slots) : slots'[i] = IF i = k THEN StandIn ELSE slots[i]
  <2>1. TypeOK /\ slots' = [slots EXCEPT ![k] = StandIn] /\ StandIn \in SlotType
    BY <1>1, <1>4 DEF Inv
  <2> QED  BY <1>2, <2>1, SlotPut, Lengths
<1>7. /\ entries' \in Seq(EntryType) /\ Len(entries') = Len(entries)
      /\ \A i \in 1..Len(entries) : entries'[i] = IF i = k THEN e ELSE entries[i]
  <2>1. /\ entries \in Seq(EntryType) /\ k \in 1..Len(entries) /\ e \in EntryType
        /\ entries' = [entries EXCEPT ![k] = e]
    BY <1>1, <1>2, <1>4 DEF Inv, TypeOK
  <2> QED  BY <2>1, ExceptSeq
<1>8. TypeOK'
  <2>1. jobs' \in [Index -> [slot : SlotType, image : Images]]
    BY <1>1, <1>3, <1>5 DEF Inv, TypeOK
  <2>2. status' \in [Index -> Pool!Statuses]
    BY <1>1, <1>3 DEF Inv, TypeOK, Pool!Statuses
  <2>3. base' \in 0..MaxChunks
    BY <1>2 DEF None
  <2> QED  BY <1>1, <1>3, <1>6, <1>7, <2>1, <2>2, <2>3 DEF Inv, TypeOK, Calls
<1>9. /\ Owed' = Owed \cup {end} /\ end \notin Owed
      /\ jobs'[end] = job /\ \A i \in Owed : jobs'[i] = jobs[i]
  <2>1. end \notin Owed
    BY <1>2
  <2> QED  BY <1>1, <1>3, <2>1 DEF Inv, TypeOK, Owed
<1>10. BuffersKept'
  <2>1. \A i \in Owed : RingOf(Len(entries), i) # k
    BY <1>2 DEF At
  <2>2. RingOf(Len(entries), end) = k
    BY DEF k, At
  <2>3. \A i \in DOMAIN slots' :
            ~slots'[i].real <=> \E l \in Owed' : RingOf(Len(entries)', l) = i
    <3> SUFFICES ASSUME NEW i \in 1..Len(slots)
                 PROVE  ~slots'[i].real <=> \E l \in Owed' : RingOf(Len(entries), l) = i
      BY <1>6, <1>7
    <3>1. CASE i = k
      BY <1>4, <1>6, <1>9, <2>2, <3>1
    <3>2. CASE i # k
      BY <1>6, <1>9, <2>2, <3>2 DEF Inv, BuffersKept
    <3> QED  BY <3>1, <3>2
  <2>4. \A i \in Owed' : jobs'[i].slot.real
    BY <1>5, <1>9 DEF Inv, BuffersKept
  <2> QED  BY <2>3, <2>4 DEF Inv, BuffersKept, RingOf
<1>11. Window'
  <2>1. Owed' \subseteq pos..end
    BY <1>2, <1>9
  <2>2. Oldest' = pos /\ ~Held'
    BY <1>1 DEF Oldest, Held
  <2>3. end + 1 - 1 = end
    BY <1>2
  <2> QED  BY <1>1, <1>2, <1>7, <2>1, <2>2, <2>3 DEF Window
<1>12. \A i \in pos..end :
          /\ EntryOf(i)' = IF i = end THEN e ELSE EntryOf(i)
          /\ i # end => slots'[At(i)] = slots[At(i)] /\ At(i)' = At(i)
  <2> SUFFICES ASSUME NEW i \in pos..end
               PROVE  /\ EntryOf(i)' = IF i = end THEN e ELSE EntryOf(i)
                      /\ i # end => slots'[At(i)] = slots[At(i)] /\ At(i)' = At(i)
    OBVIOUS
  <2>1. At(i)' = At(i)
    BY <1>7 DEF At
  <2>2. CASE i = end
    BY <1>2, <1>7, <2>1, <2>2 DEF EntryOf, k
  <2>3. CASE i # end
    <3>1. i \in pos..end - 1 /\ At(i) # k
      BY <1>2, <2>3
    <3>2. At(i) \in 1..Len(entries) /\ At(i) \in 1..Len(slots)
      BY <3>1, InUse, Lengths DEF Inv
    <3> QED  BY <1>6, <1>7, <2>1, <2>3, <3>1, <3>2 DEF EntryOf
  <2> QED  BY <2>2, <2>3
<1>13. InStep'
  <2>1. /\ Upcoming = cursor /\ Upcoming' = cursor /\ ~Spent' /\ pos' < Upcoming'
        /\ Frames
    BY <1>1, <1>2 DEF Inv, InStep, Upcoming, Spent
  <2>2. next' = Upcoming' + (end' - pos')
    BY <1>1, <1>2, <2>1
  <2>3. Frames'
    <3> SUFFICES ASSUME NEW i \in pos..end
                 PROVE  /\ EntryOf(i)'.base = cursor + (i - pos)
                        /\ IsA(Fits, EntryOf(i)'.base)
                        /\ EntryOf(i)'.pending <=> i \in Owed'
                        /\ i \notin Owed' => Ready(i)'
      BY <1>1, <1>2, <2>1 DEF Frames, IsA
    <3>1. CASE i = end
      BY <1>1, <1>2, <1>4, <1>9, <1>12, <3>1 DEF IsA, Fits
    <3>2. CASE i # end
      <4>1. i \in pos..end - 1
        BY <1>2, <3>2
      <4>2. /\ EntryOf(i).base = cursor + (i - pos)
            /\ IsA(Fits, EntryOf(i).base)
            /\ EntryOf(i).pending <=> i \in Owed
            /\ i \notin Owed => Ready(i)
        BY <2>1, <4>1 DEF Frames
      <4>3. Ready(i) => Ready(i)'
        BY <1>1, <1>12, <3>2 DEF Ready
      <4> QED  BY <1>9, <1>12, <3>2, <4>2, <4>3
    <3> QED  BY <3>1, <3>2
  <2> QED  BY <2>1, <2>2, <2>3 DEF InStep
<1>14. Carried'
  <2>1. Owed' \subseteq pos..end
    BY <1>2, <1>9
  <2> QED  BY <1>1, <1>4, <1>5, <1>9, <1>12, <2>1 DEF Inv, Carried
<1>15. InHand' /\ Asked'
  BY DEF InHand, Asked, Held
<1>16. Drains'
  BY <1>1, <1>7 DEF Inv, Drains
<1> QED  BY <1>8, <1>10, <1>11, <1>13, <1>14, <1>15, <1>16 DEF Inv

\* The call ends with the run as it was, but for entries nobody is owed.
LEMMA FollowEnds ==
    ASSUME Inv, call = "follow", call' = "idle", base' = None, next' = None,
           entries' \in Seq(EntryType), Len(entries') = Len(entries),
           \A j \in pos..end - 1 : entries'[At(j)] = entries[At(j)],
           UNCHANGED <<walkVars, outVars, pos, end, runSettings, runThreads,
                       slots, poolVars, then>>
    PROVE  Inv'
<1> USE DEF walkVars, outVars, poolVars
<1>1. TypeOK'
  BY Numbers DEF Inv, TypeOK, Calls, None
<1>2. BuffersKept' /\ Drains'
  BY DEF Inv, BuffersKept, Drains, Owed, RingOf
<1>3. Window'
  <2>1. /\ Oldest = pos - 1 /\ Oldest' = pos /\ ~Held' /\ Len(entries) \in Nat
        /\ pos \in Nat /\ end \in Nat
    BY Numbers, Lengths DEF Inv, Oldest, Held
  <2> QED  BY <2>1 DEF Inv, Window, Owed
<1>4. InStep'
  <2>1. Frames /\ Upcoming' = Upcoming /\ Owed' = Owed
    BY DEF Inv, InStep, Upcoming, Owed
  <2>2. Frames'
    BY <2>1, FramesStay
  <2> QED  BY <2>1, <2>2 DEF Inv, InStep
<1>5. Carried'
  <2>1. Owed' = Owed /\ Owed \subseteq pos..end - 1
    BY DEF Inv, Window, Owed
  <2>2. \A j \in pos..end - 1 : EntryOf(j)' = EntryOf(j)
    BY DEF EntryOf, At
  <2> QED  BY <2>1, <2>2 DEF Inv, Carried
<1>6. InHand' /\ Asked'
  BY DEF InHand, Asked, Held
<1> QED  BY <1>1, <1>2, <1>3, <1>4, <1>5, <1>6 DEF Inv

LEMMA FollowAheadStep == ASSUME Inv, FollowAhead PROVE Inv'
<1>1. /\ call = "follow" /\ call' = "idle" /\ base' = None
      /\ UNCHANGED <<walkVars, outVars, then>>
  BY DEF FollowAhead
<1>2. CASE next # None /\ Follow
  BY <1>1, <1>2, FollowStep
<1>3. CASE next # None /\ StopBefore
  <2>1. /\ next' = None /\ UNCHANGED <<pos, end, runSettings, runThreads, slots, poolVars>>
        /\ entries' = IF IsA({"frame"}, next)
                      THEN [entries EXCEPT ![At(end)] = Entry(next)] ELSE entries
    BY <1>3 DEF StopBefore
  <2>2. /\ At(end) \in 1..Len(entries) /\ entries \in Seq(EntryType)
        /\ \A j \in pos..end - 1 : At(j) # At(end) /\ At(j) \in 1..Len(entries)
    BY <1>1, <1>3, NextInLine, InUse DEF Inv, TypeOK
  <2>3. CASE IsA({"frame"}, next)
    <3>1. Entry(next) \in EntryType
      <4>1. next \in 1..MaxChunks
        BY <1>1, <1>3, <2>3, NextInLine, ChunkThere DEF Inv
      <4> QED  BY <4>1 DEF Entry, EntryType, Images
    <3>2. entries' = [entries EXCEPT ![At(end)] = Entry(next)]
      BY <2>1, <2>3
    <3>3. /\ entries' \in Seq(EntryType) /\ Len(entries') = Len(entries)
          /\ \A i \in 1..Len(entries) :
                 entries'[i] = IF i = At(end) THEN Entry(next) ELSE entries[i]
      BY <2>2, <3>1, <3>2, ExceptSeq
    <3> QED  BY <1>1, <2>1, <2>2, <3>3, FollowEnds
  <2>4. CASE ~IsA({"frame"}, next)
    BY <1>1, <2>1, <2>2, <2>4, FollowEnds
  <2> QED  BY <2>3, <2>4
<1>4. CASE next = None /\ UNCHANGED <<runVars, ringVars, poolVars>>
  BY <1>1, <1>4, FollowEnds DEF runVars, ringVars, Inv, TypeOK
<1> QED  BY <1>1, <1>2, <1>3, <1>4 DEF FollowAhead

-----------------------------------------------------------------------------
(* The pool's threads.                                                     *)

LEMMA ThreadsStep ==
    ASSUME Inv, NEW done \in AtMostOne, NEW begun \in AtMostOne, Threads(done, begun)
    PROVE  Inv'
<1> USE DEF walkVars, outVars, runVars, ringVars, callVars
<1>1. /\ UNCHANGED <<walkVars, outVars, runVars, ringVars, pool, jobs, callVars>>
      /\ done \subseteq Pool!In("decoding") /\ begun \subseteq Pool!In("queued")
      /\ status' = [f \in Index |-> IF f \in done THEN "decoded"
                                   ELSE IF f \in begun THEN "decoding" ELSE status[f]]
  BY DEF Threads, Pool!Decode
<1>2. TypeOK'
  BY <1>1 DEF Inv, TypeOK, Pool!Statuses
<1>3. Owed' = Owed
  BY <1>1 DEF Owed, Pool!In
<1>4. BuffersKept' /\ Window'
  BY <1>1, <1>3 DEF Inv, BuffersKept, Window, Oldest, Held, RingOf
<1>5. InStep' /\ Carried'
  BY <1>1, <1>3 DEF Inv, InStep, Carried, Frames, Ready, EntryOf, At, RingOf, Upcoming,
                    Held, Spent, IsA
<1>6. InHand' /\ Asked'
  BY <1>1, <1>3 DEF Inv, InHand, Asked, Held, IsA, EntryOf, Ready, At, RingOf
<1>7. Drains'
  BY <1>1 DEF Inv, Drains, Pool!In
<1> QED  BY <1>2, <1>4, <1>5, <1>6, <1>7 DEF Inv

LEMMA BeginStep == ASSUME Inv, Begin PROVE Inv'
  BY ThreadsStep DEF Begin, AtMostOne

LEMMA FinishStep == ASSUME Inv, Finish PROVE Inv'
  BY ThreadsStep DEF Finish, AtMostOne

-----------------------------------------------------------------------------
(* Clearing the run.                                                       *)

\* Whatever goes back to the ring goes to its own place, with its buffers.
LEMMA BackInPlace ==
    ASSUME Inv, NEW back \in SUBSET Owed, PutBack(Len(entries), back)
    PROVE  /\ slots' \in Seq(SlotType) /\ Len(slots') = Len(slots)
           /\ jobs' \in [Index -> [slot : SlotType, image : Images]]
           /\ \A j \in Owed \ back : jobs'[j] = jobs[j]
           /\ \A k \in 1..Len(slots) :
                  ~slots'[k].real <=> \E j \in Owed \ back : At(j) = k
<1> DEFINE n == Len(entries)
           There(k) == \E j \in back : RingOf(n, j) = k
           It(k) == CHOOSE j \in back : RingOf(n, j) = k
<1>1. /\ slots' = [k \in DOMAIN slots |-> IF There(k) THEN jobs[It(k)].slot ELSE slots[k]]
      /\ jobs' = [j \in Index |-> IF j \in back THEN NoJob ELSE jobs[j]]
  BY DEF PutBack
<1>2. \A k : There(k) => It(k) \in back /\ RingOf(n, It(k)) = k
  OBVIOUS
<1>3. /\ DOMAIN slots = 1..Len(slots) /\ Len(slots) \in Nat
      /\ \A k \in 1..Len(slots) : slots[k] \in SlotType
      /\ jobs \in [Index -> [slot : SlotType, image : Images]]
      /\ \A j \in Owed : j \in Index /\ jobs[j].slot.real
      /\ \A k \in 1..Len(slots) : ~slots[k].real <=> \E j \in Owed : RingOf(n, j) = k
  BY Lengths DEF Inv, TypeOK, BuffersKept, Owed
<1>4. \A i, j \in Owed : RingOf(n, i) = RingOf(n, j) => i = j
  BY InUse DEF Inv, At
<1>5. NoJob \in [slot : SlotType, image : Images]
  BY DEF NoJob, StandIn, SlotType, Images
<1> HIDE DEF n, It
<1>6. \A k \in 1..Len(slots) :
         /\ slots'[k] = IF There(k) THEN jobs[It(k)].slot ELSE slots[k]
         /\ slots'[k] \in SlotType
  BY <1>1, <1>2, <1>3
<1>7. slots' \in Seq(SlotType) /\ Len(slots') = Len(slots)
  <2>1. slots' \in [1..Len(slots) -> SlotType]
    BY <1>1, <1>3, <1>6
  <2> QED  BY <2>1, <1>3, LenProperties, SeqDef
<1>8. /\ jobs' \in [Index -> [slot : SlotType, image : Images]]
      /\ \A j \in Owed \ back : jobs'[j] = jobs[j]
  BY <1>1, <1>3, <1>5
<1>9. ASSUME NEW k \in 1..Len(slots)
      PROVE  ~slots'[k].real <=> \E j \in Owed \ back : RingOf(n, j) = k
  <2>1. CASE There(k)
    <3>1. slots'[k].real
      BY <1>2, <1>3, <1>6, <2>1
    <3>2. \A j \in Owed \ back : RingOf(n, j) # k
      BY <1>4, <2>1
    <3> QED  BY <3>1, <3>2
  <2>2. CASE ~There(k)
    BY <1>3, <1>6, <2>2
  <2> QED  BY <2>1, <2>2
<1> QED  BY <1>7, <1>8, <1>9 DEF n, At

\* A run that is over is in step with any walk.
LEMMA OverInStep ==
    ASSUME RunOver, Owed' = {}, call' \in {"idle", "alone"}, TypeOK', Asked',
           frame'.real, \A k \in 1..Len(slots') : slots'[k].real
    PROVE  Inv'
<1>1. pos' = 0 /\ end' = 0 /\ next' = None /\ entries' = <<>> /\ Len(entries') = 0
  BY DEF RunOver
<1>2. BuffersKept'
  <2>1. DOMAIN slots' = 1..Len(slots')
    BY LenProperties DEF TypeOK
  <2> QED  BY <2>1 DEF BuffersKept
<1>3. Window'
  BY <1>1 DEF Window, Oldest, Held
<1>4. InStep'
  <2>1. 0 < Upcoming'
    <3>1. cursor' \in 1..MaxChunks + 1 /\ base' \in 0..MaxChunks /\ MaxChunks \in Nat
      BY MaxChunksAssumption DEF TypeOK
    <3>2. CASE call' = "idle"
      BY <3>1, <3>2 DEF Upcoming
    <3>3. CASE call' = "alone"
      BY <3>1, <3>3 DEF Upcoming, Asked
    <3> QED  BY <3>2, <3>3
  <2>2. Frames'
    BY <1>1 DEF Frames
  <2> QED  BY <1>1, <2>1, <2>2 DEF InStep, Spent
<1>5. Carried' /\ InHand' /\ Drains'
  BY <1>1 DEF Carried, InHand, Drains, Held
<1> QED  BY <1>2, <1>3, <1>4, <1>5 DEF Inv

\* What is left of the run when no frame of it is pending is with the walk.
LEMMA NothingOwed ==
    ASSUME Inv, call \in {"idle", "fill", "take"}, ~(Pending /\ pool # Nothing)
    PROVE  Owed = {}
<1>1. Owed \subseteq pos..end - 1 /\ Frames
  BY DEF Inv, Window, InStep
<1>2. SUFFICES ASSUME NEW j \in Owed PROVE FALSE
  OBVIOUS
<1>3. At(j) \in 1..Len(entries) /\ DOMAIN entries = 1..Len(entries) /\ Len(entries) \in Nat
  BY InUse, Lengths DEF Inv
<1>4. EntryOf(j).pending
  BY <1>1 DEF Frames
<1>5. Pending
  BY <1>3, <1>4 DEF Pending, EntryOf
<1>6. pool # Nothing
  BY <1>3 DEF Inv, Drains
<1> QED  BY <1>5, <1>6

\* With it every slot has its buffers.
LEMMA AllReal ==
    ASSUME Inv, Owed = {}
    PROVE  \A k \in 1..Len(slots) : slots[k].real
  BY Lengths DEF Inv, BuffersKept

LEMMA ClearStep ==
    ASSUME Inv, call \in {"idle", "take"}, NEW goOn \in {"idle", "alone"}, Clear(goOn),
           file' \in Files, whole' \in BOOLEAN, cursor' \in 1..MaxChunks + 1,
           frame' \in SlotType, frame'.real,
           shown' \in Images \cup {<<c>> : c \in 1..MaxChunks},
           goOn = "alone" => base + 1 = cursor' /\ 1 <= base /\ IsA(Decoded, base)',
           UNCHANGED <<settings, threads, base>>
    PROVE  Inv'
<1>1. CASE Pending /\ pool # Nothing
  <2> DEFINE back == Pool!In("queued")
  <2>1. /\ PutBack(Len(entries), back)
        /\ status' = [f \in Index |-> IF status[f] = "queued" THEN "walk" ELSE status[f]]
        /\ call' = "drain" /\ then' = goOn
        /\ UNCHANGED <<entries, runVars, pool>>
    BY <1>1 DEF Clear, Pool!Recall
  <2>2. back \in SUBSET Owed
    BY DEF Pool!In, Owed
  <2>3. Owed' = Owed \ back
    BY <2>1 DEF Owed, Pool!In
  <2>4. Pool!In("queued")' = {}
    BY <2>1 DEF Pool!In
  <2>5. /\ slots' \in Seq(SlotType) /\ Len(slots') = Len(slots)
        /\ jobs' \in [Index -> [slot : SlotType, image : Images]]
        /\ \A j \in Owed \ back : jobs'[j] = jobs[j]
        /\ \A k \in 1..Len(slots) :
               ~slots'[k].real <=> \E j \in Owed \ back : At(j) = k
    BY <2>1, <2>2, BackInPlace
  <2> HIDE DEF back
  <2>6. TypeOK'
    <3>1. status' \in [Index -> Pool!Statuses]
      BY <2>1 DEF Inv, TypeOK, Pool!Statuses
    <3> QED  BY <2>1, <2>5, <3>1 DEF Inv, TypeOK, Calls, runVars
  <2>7. BuffersKept'
    <3>1. DOMAIN slots' = 1..Len(slots)
      BY <2>5, LenProperties
    <3>2. \A j \in Owed' : jobs'[j].slot.real
      BY <2>3, <2>5 DEF Inv, BuffersKept
    <3>3. \A k \in DOMAIN slots' :
              ~slots'[k].real <=> \E j \in Owed' : RingOf(Len(entries)', j) = k
      BY <2>1, <2>3, <2>5, <3>1 DEF At
    <3> QED  BY <3>2, <3>3 DEF BuffersKept, RingOf
  <2>8. Window'
    <3>1. Oldest = pos /\ Oldest' = pos /\ ~Held' /\ Owed \subseteq pos..end - 1
      BY <2>1 DEF Inv, Window, Oldest, Held, runVars
    <3> QED  BY <2>1, <2>3, <3>1 DEF Inv, Window, runVars
  <2>9. InStep' /\ Carried' /\ InHand'
    BY <2>1 DEF InStep, Carried, InHand, Held
  <2>10. Asked'
    BY <2>1 DEF Asked
  <2>11. Drains'
    BY <2>1, <2>4 DEF Inv, Drains
  <2> QED  BY <2>6, <2>7, <2>8, <2>9, <2>10, <2>11 DEF Inv
<1>2. CASE ~(Pending /\ pool # Nothing)
  <2>1. /\ RunOver /\ call' = goOn /\ UNCHANGED <<slots, poolVars, then>>
    BY <1>2 DEF Clear
  <2>2. Owed' = {} /\ Owed = {}
    BY <1>2, <2>1, NothingOwed DEF Owed, poolVars
  <2>3. \A k \in 1..Len(slots') : slots'[k].real
    BY <2>1, <2>2, AllReal
  <2>4. TypeOK'
    <3>1. entries' \in Seq(EntryType) /\ Len(entries') = 0
      BY <2>1 DEF RunOver
    <3>2. Len(slots) \in Nat /\ MaxChunks \in Nat
      BY Lengths, MaxChunksAssumption DEF Inv
    <3>3. pos' \in 0..MaxChunks /\ end' \in 0..MaxChunks /\ next' \in 0..MaxChunks + 1
      BY <2>1, <3>2 DEF RunOver, None
    <3> QED  BY <2>1, <3>1, <3>2, <3>3 DEF Inv, TypeOK, Calls, RunOver, poolVars
  <2>5. Asked'
    BY <2>1 DEF Asked
  <2> QED  BY <2>1, <2>2, <2>3, <2>4, <2>5, OverInStep
<1> QED  BY <1>1, <1>2

LEMMA TakeMismatchStep == ASSUME Inv, TakeMismatch PROVE Inv'
<1>1. call = "take" /\ Clear("alone") /\ UNCHANGED <<walkVars, outVars, base>>
  BY DEF TakeMismatch
<1>2. /\ file \in Files /\ whole \in BOOLEAN /\ cursor \in 1..MaxChunks + 1
      /\ frame \in SlotType /\ frame.real
      /\ shown \in Images \cup {<<c>> : c \in 1..MaxChunks}
  BY DEF Inv, TypeOK, BuffersKept
<1>3. base + 1 = cursor /\ 1 <= base /\ IsA(Decoded, base)'
  BY <1>1 DEF Inv, Asked, IsA, walkVars
<1> QED  BY <1>1, <1>2, <1>3, ClearStep DEF walkVars, outVars

LEMMA OpenStep == ASSUME Inv, NEW f \in Files, NEW w \in BOOLEAN, Open(f, w) PROVE Inv'
<1>1. /\ call = "idle" /\ Clear("idle")
      /\ file' = f /\ whole' = w /\ cursor' = 1
      /\ frame' = [frame EXCEPT !.holds = Nothing]
      /\ shown' = Nothing
      /\ UNCHANGED <<settings, threads, base>>
  BY DEF Open
<1>2. frame' \in SlotType /\ frame'.real
  BY <1>1 DEF Inv, TypeOK, BuffersKept, SlotType, Images
<1>3. shown' \in Images /\ cursor' \in 1..MaxChunks + 1
  BY <1>1, MaxChunksAssumption DEF Images
<1> QED  BY <1>1, <1>2, <1>3, ClearStep

LEMMA DrainedStep == ASSUME Inv, Drained PROVE Inv'
<1> DEFINE back == Pool!In("decoded")
<1>1. /\ call = "drain" /\ RunOver /\ PutBack(Len(entries), back)
      /\ Pool!In("decoding") = {}
      /\ status' = [f \in Index |-> IF status[f] = "decoded" THEN "walk" ELSE status[f]]
      /\ call' = then /\ then' = "idle"
      /\ UNCHANGED <<walkVars, outVars, pool, base>>
  BY DEF Drained, Pool!RecallDecoded
<1>2. Owed = back /\ Owed' = {}
  BY <1>1 DEF Pool!In, Owed, Inv, TypeOK, Pool!Statuses, Drains
<1>3. /\ slots' \in Seq(SlotType) /\ Len(slots') = Len(slots)
      /\ jobs' \in [Index -> [slot : SlotType, image : Images]]
      /\ \A k \in 1..Len(slots) :
             ~slots'[k].real <=> \E j \in Owed \ back : At(j) = k
  BY <1>1, <1>2, BackInPlace
<1> HIDE DEF back
<1>4. \A k \in 1..Len(slots') : slots'[k] \in SlotType /\ slots'[k].real
  <2>1. \A k \in 1..Len(slots') : slots'[k] \in SlotType
    BY <1>3, ElementOfSeq
  <2> QED  BY <1>2, <1>3, <2>1 DEF SlotType
<1>5. TypeOK'
  <2>1. entries' \in Seq(EntryType) /\ Len(entries') = 0
    BY <1>1 DEF RunOver
  <2>2. Len(slots) \in Nat /\ MaxChunks \in Nat
    BY Lengths, MaxChunksAssumption DEF Inv
  <2>3. pos' \in 0..MaxChunks /\ end' \in 0..MaxChunks /\ next' \in 0..MaxChunks + 1
    BY <1>1, <2>2 DEF RunOver, None
  <2>4. status' \in [Index -> Pool!Statuses]
    BY <1>1 DEF Inv, TypeOK, Pool!Statuses
  <2> QED  BY <1>1, <1>3, <2>1, <2>2, <2>3, <2>4
           DEF Inv, TypeOK, Calls, RunOver, walkVars, outVars
<1>6. Asked' /\ frame'.real /\ call' \in {"idle", "alone"}
  BY <1>1 DEF Inv, TypeOK, Asked, IsA, BuffersKept, walkVars, outVars
<1> QED  BY <1>1, <1>2, <1>4, <1>5, <1>6, OverInStep

-----------------------------------------------------------------------------
(* Starting a run.                                                         *)

\* The ring when as many slots are added as the run still needs.
Grown(n) ==
    slots \o [k \in 1..(IF n > Len(slots) THEN n - Len(slots) ELSE 0) |-> Slot]

LEMMA GrownRing ==
    ASSUME Inv, Owed = {}, NEW n \in Nat, n <= MaxSlots
    PROVE  /\ Grown(n) \in Seq(SlotType) /\ Len(Grown(n)) \in Nat
           /\ n <= Len(Grown(n)) /\ Len(Grown(n)) <= MaxSlots
           /\ DOMAIN Grown(n) = 1..Len(Grown(n))
           /\ \A k \in 1..Len(Grown(n)) : Grown(n)[k] \in SlotType /\ Grown(n)[k].real
<1> DEFINE d == IF n > Len(slots) THEN n - Len(slots) ELSE 0
           more == [k \in 1..d |-> Slot]
<1>1. /\ Len(slots) \in Nat /\ Len(slots) <= MaxSlots /\ MaxSlots \in Nat
      /\ slots \in Seq(SlotType)
      /\ \A k \in 1..Len(slots) : slots[k].real
  BY Lengths, AllReal, MaxSlotsAssumption DEF Inv, TypeOK
<1>2. d \in Nat /\ n <= Len(slots) + d /\ Len(slots) + d <= MaxSlots
  BY <1>1
<1>3. Slot \in SlotType /\ Slot.real
  BY DEF Slot, SlotType, Images
<1> HIDE DEF d
<1>4. /\ more \in Seq(SlotType) /\ Len(more) = d
      /\ \A k \in 1..d : more[k] = Slot
  <2>1. more \in [1..d -> SlotType]
    BY <1>3
  <2> QED  BY <1>2, <2>1, SeqDef, LenProperties
<1> HIDE DEF more
<1>5. /\ slots \o more \in Seq(SlotType) /\ Len(slots \o more) = Len(slots) + d
      /\ \A k \in 1..Len(slots) + d :
             (slots \o more)[k] = IF k <= Len(slots) THEN slots[k] ELSE more[k - Len(slots)]
  BY <1>1, <1>4, ConcatProperties
<1>6. ASSUME NEW k \in 1..Len(slots) + d PROVE (slots \o more)[k].real
  <2>1. CASE k <= Len(slots)
    BY <1>1, <1>5, <2>1
  <2>2. CASE ~(k <= Len(slots))
    <3>1. k - Len(slots) \in 1..d
      BY <1>1, <1>2, <2>2
    <3> QED  BY <1>3, <1>4, <1>5, <2>2, <3>1
  <2> QED  BY <2>1, <2>2
<1>7. \A k \in 1..Len(slots) + d : (slots \o more)[k] \in SlotType
  BY <1>5, ElementOfSeq
<1>8. Grown(n) = slots \o more
  BY DEF Grown, more, d
<1> QED  BY <1>1, <1>2, <1>5, <1>6, <1>7, <1>8, LenProperties

LEMMA StartStep ==
    ASSUME Inv, call = "fill", Spent, call' = "take",
           NEW want \in Nat, NEW n \in 1..MaxSlots, NEW m \in 1..MaxSlots,
           StartRun(want, n, m), UNCHANGED <<walkVars, outVars, base, then>>
    PROVE  Inv'
<1> USE DEF walkVars, outVars
<1> DEFINE all == Grown(n)
           first == [all[1] EXCEPT !.holds = Image(base, settings)]
           Job(j) == [slot |-> all[j + 1], image |-> Image(base + j, settings)]
           Of(k) == [base |-> base + k - 1, pending |-> k # 1,
                     out |-> IF k = 1 THEN Image(base, settings) ELSE Nothing]
<1>1. /\ n \in Nat /\ m \in Nat /\ 2 <= n /\ 1 <= m /\ m <= n /\ n <= MaxSlots
      /\ base \in Nat /\ 1 <= base /\ MaxChunks \in Nat /\ base + 1 = cursor
      /\ settings \in Settings
      /\ \A i \in 0..n - 1 : IsA(Fits, base + i)
  <2>1. 2 <= n /\ m \in 1..n /\ \A i \in 0..n - 1 : IsA(Fits, base + i)
    BY DEF StartRun, Usable
  <2>2. base \in Nat /\ 1 <= base /\ base + 1 = cursor /\ settings \in Settings
    BY Numbers DEF Inv, Asked, TypeOK
  <2> QED  BY <2>1, <2>2, MaxSlotsAssumption, MaxChunksAssumption
<1>2. base + n <= MaxChunks + 1
  <2>1. IsA(Fits, base + (n - 1)) /\ base + (n - 1) \in Nat
    BY <1>1
  <2>2. base + (n - 1) <= MaxChunks
    BY <2>1, ChunkThere DEF Inv
  <2> QED  BY <1>1, <2>2
<1>3. Owed = {} /\ next = None
  BY Exhausted DEF Inv, InStep, Held
<1>4. /\ all \in Seq(SlotType) /\ Len(all) \in Nat /\ n <= Len(all) /\ Len(all) <= MaxSlots
      /\ DOMAIN all = 1..Len(all)
      /\ \A k \in 1..Len(all) : all[k] \in SlotType /\ all[k].real
  BY <1>1, <1>3, GrownRing
<1>5. /\ pool' = Sizes
      /\ status' = [j \in Index |-> IF j < m THEN "queued"
                                   ELSE IF pool # Sizes THEN "walk" ELSE status[j]]
      /\ jobs' = [j \in Index |-> IF j < m THEN Job(j)
                                 ELSE IF pool # Sizes THEN NoJob ELSE jobs[j]]
      /\ slots' = [k \in DOMAIN all |-> IF k = 1 THEN first
                                       ELSE IF k <= m THEN StandIn ELSE all[k]]
      /\ entries' = [k \in 1..m |-> Of(k)]
      /\ pos' = 0 /\ end' = m
      /\ next' = IF m < n THEN None ELSE Beyond(want, n)
      /\ runSettings' = settings /\ runThreads' = threads
  BY DEF StartRun, Grown
<1> HIDE DEF all
<1>6. /\ Image(base, settings) \in Images
      /\ first \in SlotType /\ first.real /\ first.holds = Image(base, settings)
      /\ StandIn \in SlotType /\ ~StandIn.real
      /\ NoJob \in [slot : SlotType, image : Images]
  <2>1. all[1] \in SlotType /\ all[1].real
    BY <1>1, <1>4
  <2>2. Image(base, settings) \in Images
    BY <1>1, <1>2 DEF Image, Images
  <2> QED  BY <2>1, <2>2 DEF SlotType, StandIn, NoJob, Images
<1>7. \A k \in 1..m : /\ Of(k) \in EntryType /\ Of(k).base = base + (k - 1)
                      /\ Of(k).pending <=> k # 1
                      /\ k = 1 => Of(k).out = Image(base, settings)
  <2>1. \A k \in 1..m : base + k - 1 \in 1..MaxChunks /\ base + k - 1 = base + (k - 1)
    BY <1>1, <1>2
  <2> QED  BY <1>6, <2>1 DEF EntryType, Images
<1>8. \A j \in 1..m - 1 : /\ Job(j) \in [slot : SlotType, image : Images]
                          /\ Job(j).slot.real /\ Job(j).image = Image(base + j, settings)
  <2> SUFFICES ASSUME NEW j \in 1..m - 1
               PROVE  /\ Job(j) \in [slot : SlotType, image : Images]
                      /\ Job(j).slot.real /\ Job(j).image = Image(base + j, settings)
    OBVIOUS
  <2>1. j + 1 \in 1..Len(all) /\ base + j \in 1..MaxChunks
    BY <1>1, <1>2, <1>4
  <2>2. Image(base + j, settings) \in Images
    BY <1>1, <2>1 DEF Image, Images
  <2> QED  BY <1>4, <2>1, <2>2
<1> HIDE DEF first, Of, Job
<1>9. Index = 1..MaxChunks /\ m <= MaxChunks
  BY <1>1, <1>2 DEF Index
<1>10. Owed' = 1..m - 1
  <2>1. \A j \in Index : status[j] = "walk"
    BY <1>3 DEF Owed
  <2>2. \A j \in Index : status'[j] # "walk" <=> j < m
    BY <1>5, <2>1
  <2>3. Owed' = {j \in Index : j < m}
    BY <2>2 DEF Owed
  <2> QED  BY <1>1, <1>9, <2>3
<1>11. /\ slots' \in Seq(SlotType) /\ Len(slots') = Len(all) /\ DOMAIN slots' = 1..Len(all)
      /\ \A k \in 1..Len(all) :
             slots'[k] = IF k = 1 THEN first ELSE IF k <= m THEN StandIn ELSE all[k]
  <2>1. slots' \in [1..Len(all) -> SlotType]
    BY <1>4, <1>5, <1>6
  <2> QED  BY <1>4, <1>5, <2>1, SeqDef, LenProperties
<1>12. /\ entries' \in Seq(EntryType) /\ Len(entries') = m
       /\ \A k \in 1..m : entries'[k] = Of(k)
  <2>1. entries' \in [1..m -> EntryType]
    BY <1>5, <1>7
  <2> QED  BY <1>1, <1>5, <2>1, SeqDef, LenProperties
<1>13. \A j \in 0..m - 1 : RingOf(m, j) = j + 1
  BY <1>1, RingPlaces
<1>14. TypeOK'
  <2>1. jobs' \in [Index -> [slot : SlotType, image : Images]]
    <3>1. \A j \in Index : j < m => j \in 1..m - 1
      BY <1>1, <1>9
    <3> QED  BY <1>5, <1>6, <1>8, <3>1 DEF Inv, TypeOK
  <2>2. status' \in [Index -> Pool!Statuses]
    BY <1>5 DEF Inv, TypeOK, Pool!Statuses
  <2>3. next' \in 0..MaxChunks + 1
    BY <1>1, <1>2, <1>5 DEF Beyond, None
  <2>4. pos' \in 0..MaxChunks /\ end' \in 0..MaxChunks /\ m <= Len(all)
    BY <1>1, <1>4, <1>5, <1>9
  <2> QED  BY <1>4, <1>5, <1>11, <1>12, <2>1, <2>2, <2>3, <2>4 DEF Inv, TypeOK, Calls
<1>15. \A j \in Owed' : j \in 1..m - 1 /\ j \in 0..m - 1 /\ jobs'[j] = Job(j)
  BY <1>1, <1>5, <1>9, <1>10
<1>16. BuffersKept'
  <2>1. \A j \in Owed' : jobs'[j].slot.real
    BY <1>15, <1>8
  <2>2. ASSUME NEW k \in 1..Len(all)
        PROVE  ~slots'[k].real <=> \E j \in Owed' : RingOf(m, j) = k
    <3>1. CASE k = 1
      BY <1>6, <1>10, <1>11, <1>13, <1>15, <3>1
    <3>2. CASE k # 1 /\ k <= m
      <4>1. k - 1 \in Owed' /\ RingOf(m, k - 1) = k
        BY <1>1, <1>10, <1>13, <3>2
      <4> QED  BY <1>6, <1>11, <3>2, <4>1
    <3>3. CASE k # 1 /\ ~(k <= m)
      <4>1. \A j \in 1..m - 1 : j + 1 # k
        BY <1>1, <3>3
      <4>2. \A j \in Owed' : RingOf(m, j) # k
        BY <1>13, <1>15, <4>1
      <4> QED  BY <1>4, <1>11, <3>3, <4>2
    <3> QED  BY <3>1, <3>2, <3>3
  <2> QED  BY <1>11, <1>12, <2>1, <2>2 DEF Inv, BuffersKept, RingOf
<1>17. Window'
  <2>1. Oldest' = 0 /\ ~Held'
    BY <1>5 DEF Oldest, Held
  <2> QED  BY <1>1, <1>5, <1>10, <1>12, <2>1 DEF Window
<1>18. \A j \in 0..m - 1 :
           /\ j + 1 \in 1..m /\ j + 1 \in 1..Len(all)
           /\ At(j)' = j + 1 /\ EntryOf(j)' = entries'[j + 1]
  BY <1>1, <1>4, <1>12, <1>13 DEF At, EntryOf
<1>19. InStep'
  <2>1. Upcoming' = base /\ pos' = 0 /\ end' = m /\ ~Spent'
    BY <1>1, <1>5 DEF Upcoming, Spent
  <2>2. next' # None => next' = base + (m - 0)
    <3>1. CASE m < n
      BY <1>5, <3>1
    <3>2. CASE ~(m < n)
      <4>1. m = n /\ base + (m - 0) = base + n
        BY <1>1, <3>2
      <4> QED  BY <1>5, <3>2, <4>1 DEF Beyond
    <3> QED  BY <3>1, <3>2
  <2>3. Frames'
    <3> SUFFICES ASSUME NEW j \in 0..m - 1
                 PROVE  /\ EntryOf(j)'.base = base + (j - 0)
                        /\ IsA(Fits, EntryOf(j)'.base)
                        /\ EntryOf(j)'.pending <=> j \in Owed'
                        /\ j \notin Owed' => Ready(j)'
      BY <2>1 DEF Frames, IsA
    <3>1. /\ EntryOf(j)'.base = base + ((j + 1) - 1)
          /\ EntryOf(j)'.pending <=> j + 1 # 1
          /\ j + 1 = 1 => EntryOf(j)'.out = Image(base, settings)
      BY <1>12, <1>18, <1>7
    <3>2. /\ base + ((j + 1) - 1) = base + j /\ base + (j - 0) = base + j
          /\ IsA(Fits, base + j) /\ (j \in Owed' <=> j # 0) /\ (j + 1 = 1 <=> j = 0)
      BY <1>1, <1>10
    <3>3. j = 0 => Ready(j)'
      <4> SUFFICES ASSUME j = 0 PROVE Ready(j)'
        OBVIOUS
      <4>1. slots'[1] = first /\ At(j)' = 1
        BY <1>1, <1>4, <1>11, <1>18
      <4>2. EntryOf(j)'.base = base /\ EntryOf(j)'.out = Image(base, settings)
        BY <1>1, <3>1, <3>2
      <4> QED  BY <1>5, <1>6, <4>1, <4>2 DEF Ready
    <3> QED  BY <3>1, <3>2, <3>3
  <2> QED  BY <1>1, <2>1, <2>2, <2>3 DEF InStep
<1>20. Carried'
  <2> SUFFICES ASSUME NEW j \in Owed'
               PROVE  jobs'[j].image = Image(EntryOf(j)'.base, settings)
    BY <1>5 DEF Carried
  <2>1. /\ EntryOf(j)'.base = base + ((j + 1) - 1)
        /\ jobs'[j].image = Image(base + j, settings)
    BY <1>12, <1>15, <1>18, <1>7, <1>8
  <2>2. base + ((j + 1) - 1) = base + j
    BY <1>1, <1>15
  <2> QED  BY <2>1, <2>2
<1>21. InHand' /\ Asked'
  BY DEF Inv, InHand, Asked, Held, IsA
<1>22. Drains'
  <2>1. pool' # Nothing
    BY <1>5 DEF Sizes, Nothing
  <2> QED  BY <2>1 DEF Drains
<1> QED  BY <1>14, <1>16, <1>17, <1>19, <1>20, <1>21, <1>22 DEF Inv

LEMMA FillAheadStep == ASSUME Inv, FillAhead PROVE Inv'
<1>1. /\ call = "fill" /\ call' = "take"
      /\ UNCHANGED <<walkVars, outVars, base, then>>
  BY DEF FillAhead
<1>2. CASE Spent /\ \E want \in 2..Lesser(threads, MaxSlots), n, m \in 1..MaxSlots :
                        StartRun(want, n, m)
  <2>1. threads \in Nat /\ MaxSlots \in Nat
    BY ThreadOptionsAssumption, MaxSlotsAssumption DEF Inv, TypeOK
  <2>2. \A want \in 2..Lesser(threads, MaxSlots) : want \in Nat
    BY <2>1
  <2> QED  BY <1>1, <1>2, <2>2, StartStep
<1>3. CASE UNCHANGED <<runVars, ringVars, poolVars>>
  BY <1>1, <1>3, NotFilled
<1> QED  BY <1>2, <1>3 DEF FillAhead

-----------------------------------------------------------------------------
(* The invariant, and what it says.                                        *)

LEMMA InvInit == Init => Inv
<1> SUFFICES ASSUME Init PROVE Inv
  OBVIOUS
<1>1. MaxChunks \in Nat /\ Owed = {} /\ Spent
  BY MaxChunksAssumption DEF Init, Pool!Init, Owed, Spent
<1>2. TypeOK
  <2>1. slots \in Seq(SlotType) /\ entries \in Seq(EntryType) /\ Len(slots) = 0
        /\ Len(entries) = 0
    BY DEF Init
  <2>2. Slot \in SlotType /\ NoJob \in [slot : SlotType, image : Images]
    BY DEF Slot, NoJob, StandIn, SlotType, Images
  <2>3. MaxSlots \in Nat
    BY MaxSlotsAssumption
  <2> QED  BY <1>1, <2>1, <2>2, <2>3
           DEF Init, Pool!Init, Pool!Statuses, TypeOK, Calls, None, Images
<1>3. BuffersKept
  <2>1. DOMAIN slots = {}
    BY DEF Init
  <2> QED  BY <1>1, <2>1 DEF Init, BuffersKept, Slot
<1>4. Window /\ Drains
  BY <1>1 DEF Init, Window, Oldest, Held, Drains
<1>5. InStep
  <2>1. Frames
    BY DEF Init, Frames
  <2> QED  BY <2>1 DEF Init, InStep, Upcoming
<1>6. Carried /\ InHand /\ Asked
  BY <1>1 DEF Init, Carried, InHand, Asked, Held
<1> QED  BY <1>2, <1>3, <1>4, <1>5, <1>6 DEF Inv

LEMMA InvNext == Inv /\ [Next]_vars => Inv'
<1> SUFFICES ASSUME Inv, [Next]_vars PROVE Inv'
  OBVIOUS
<1>1. CASE SetOptions
  BY <1>1, SetOptionsStep
<1>2. CASE Skip
  BY <1>2, SkipStep
<1>3. CASE Refuse
  BY <1>3, RefuseStep
<1>4. CASE NextFrame
  BY <1>4, NextFrameStep
<1>5. ASSUME NEW f \in Files, NEW w \in BOOLEAN, Open(f, w) PROVE Inv'
  BY <1>5, OpenStep
<1>6. CASE FillAhead
  BY <1>6, FillAheadStep
<1>7. CASE TakeNothing
  BY <1>7, TakeNothingStep
<1>8. CASE TakeMismatch
  BY <1>8, TakeMismatchStep
<1>9. CASE Take
  BY <1>9, TakeStep
<1>10. CASE Collect
  BY <1>10, CollectStep
<1>11. CASE Swap
  BY <1>11, SwapStep
<1>12. CASE FollowAhead
  BY <1>12, FollowAheadStep
<1>13. CASE Alone
  BY <1>13, AloneStep
<1>14. CASE Drained
  BY <1>14, DrainedStep
<1>15. CASE Begin
  BY <1>15, BeginStep
<1>16. CASE Finish
  BY <1>16, FinishStep
<1>17. CASE UNCHANGED vars
  <2>1. TypeOK'
    BY <1>17 DEF Inv, TypeOK, vars, walkVars, outVars, runVars, ringVars, poolVars, callVars
  <2>2. BuffersKept' /\ Window' /\ Drains'
    BY <1>17 DEF Inv, BuffersKept, Window, Drains, Owed, Oldest, Held, RingOf, Pool!In,
                 vars, walkVars, outVars, runVars, ringVars, poolVars, callVars
  <2>3. InStep' /\ Carried'
    BY <1>17 DEF Inv, InStep, Carried, Frames, Ready, EntryOf, At, RingOf, Upcoming, Held,
                 Spent, IsA, Owed,
                 vars, walkVars, outVars, runVars, ringVars, poolVars, callVars
  <2>4. InHand' /\ Asked'
    BY <1>17 DEF Inv, InHand, Asked, Held, IsA, EntryOf, Ready, At, RingOf, Owed,
                 vars, walkVars, outVars, runVars, ringVars, poolVars, callVars
  <2> QED  BY <2>1, <2>2, <2>3, <2>4 DEF Inv
<1> QED  BY <1>1, <1>2, <1>3, <1>4, <1>5, <1>6, <1>7, <1>8, <1>9, <1>10, <1>11, <1>12,
            <1>13, <1>14, <1>15, <1>16, <1>17 DEF Next, WalkStep

\* Between two calls the frames left of a run are the ones the walk comes to
\* next, each in a place of its own with its buffers: what the runs check on
\* two slots and four chunks holds for every ring and every file.
THEOREM Invariance == Spec => []Inv
<1>1. Init => Inv
  BY InvInit
<1>2. Inv /\ [Next]_vars => Inv'
  BY InvNext
<1> QED  BY <1>1, <1>2, PTL DEF Spec

LEMMA InStepBetweenCalls == Inv => RingInStep
<1> SUFFICES ASSUME Inv PROVE RingInStep
  OBVIOUS
<1>1. TypeOK /\ BuffersKept
  BY DEF Inv
<1>2. RunInStep
  <2> SUFFICES ASSUME call = "idle" PROVE RunInStep
    BY DEF RunInStep
  <2>1. Oldest = pos /\ Upcoming = cursor /\ ~Held
    BY DEF Oldest, Upcoming, Held
  <2> QED  BY <2>1 DEF Inv, Window, InStep, Frames, EntryOf, RunInStep
<1> QED  BY <1>1, <1>2 DEF RingInStep

\* The slots keep their buffers and the run its place (slot.rs, anim.rs),
\* whatever options change or files are opened with frames being decoded.
THEOREM InStepAlways == Spec => []RingInStep
<1>1. Inv => RingInStep
  BY InStepBetweenCalls
<1> QED  BY <1>1, Invariance, PTL

-----------------------------------------------------------------------------
(* The walk and the pool.                                                  *)

\* A step that starts a run, one that hands a frame on, and any other.
LEMMA StartHands ==
    ASSUME Inv, call = "fill", Spent, NEW want \in Nat, NEW n \in 1..MaxSlots,
           NEW m \in 1..MaxSlots, StartRun(want, n, m)
    PROVE  /\ Owed = {} /\ next = None /\ m \in Nat \ {0} /\ m - 1 <= MaxChunks
           /\ status' = [j \in Index |-> IF j \in 1..m - 1 THEN "queued" ELSE status[j]]
           /\ \A j \in Index : status[j] = "walk"
<1>1. Owed = {} /\ next = None
  BY Exhausted DEF Inv, InStep, Held
<1>2. \A j \in Index : status[j] = "walk"
  BY <1>1 DEF Owed
<1>3. /\ n \in Nat /\ m \in Nat /\ 2 <= n /\ 1 <= m /\ m <= n
      /\ base \in Nat /\ 1 <= base /\ IsA(Fits, base + (n - 1))
  <2>1. /\ 2 <= n /\ m \in 1..n /\ \A i \in 0..n - 1 : IsA(Fits, base + i)
        /\ base \in Nat /\ 1 <= base /\ n \in Nat
    BY Numbers, MaxSlotsAssumption DEF StartRun, Usable, Inv, Asked
  <2>2. n - 1 \in 0..n - 1
    BY <2>1
  <2> QED  BY <2>1, <2>2
<1>4. m - 1 <= MaxChunks
  <2>1. base + (n - 1) <= MaxChunks
    BY <1>3, ChunkThere DEF Inv
  <2> QED  BY <1>3, <2>1, MaxChunksAssumption
<1>5. \A j \in Index : j < m <=> j \in 1..m - 1
  BY <1>3, MaxChunksAssumption DEF Index
<1>6. status' = [j \in Index |-> IF j < m THEN "queued"
                               ELSE IF pool # Sizes THEN "walk" ELSE status[j]]
  BY DEF StartRun
<1> QED  BY <1>1, <1>2, <1>3, <1>4, <1>5, <1>6

LEMMA FollowHands ==
    ASSUME Inv, call = "follow", next # None, Follow
    PROVE  /\ status' = [status EXCEPT ![end] = "queued"]
           /\ end \in Index /\ status[end] = "walk" /\ pool' = pool
<1>1. /\ status' = [status EXCEPT ![end] = "queued"] /\ pool' = pool
      /\ IsA({"frame"}, next)
  BY DEF Follow, HandOn
<1>2. next <= MaxChunks
  BY <1>1, NextInLine, ChunkThere DEF Inv
<1>3. end \in Index /\ end \notin Owed
  BY <1>2, NextInLine DEF Index
<1> QED  BY <1>1, <1>3 DEF Owed

\* What every other step asks of the pool, if anything.
Elsewhere ==
    \/ UNCHANGED status /\ UNCHANGED pool
    \/ Pool!Recall /\ UNCHANGED pool
    \/ Pool!RecallDecoded /\ UNCHANGED pool
    \/ call = "collect" /\ Pool!Return(pos - 1) /\ UNCHANGED pool
    \/ /\ \E done, begun \in AtMostOne : Pool!Decode(done, begun)
       /\ UNCHANGED <<pool, call>>

LEMMA PoolSteps ==
    ASSUME Inv, [Next]_vars
    PROVE  \/ /\ call = "fill" /\ Spent /\ call' = "take"
              /\ \E want \in Nat, n, m \in 1..MaxSlots : StartRun(want, n, m)
           \/ call = "follow" /\ call' = "idle" /\ next # None /\ Follow
           \/ Elsewhere
<1> USE DEF poolVars, walkVars, outVars, runVars, ringVars, callVars
<1>1. CASE UNCHANGED <<status, pool>>
  BY <1>1 DEF Elsewhere
<1>2. CASE SetOptions \/ Skip \/ Refuse \/ NextFrame
  BY <1>2, <1>1 DEF SetOptions, Skip, Refuse, NextFrame
<1>3. CASE TakeNothing \/ Take \/ Swap \/ Alone
  BY <1>3, <1>1 DEF TakeNothing, Take, Swap, Alone
<1>4. ASSUME NEW g \in {"idle", "alone"}, Clear(g) PROVE Elsewhere
  BY <1>4 DEF Clear, Elsewhere
<1>5. ASSUME NEW f \in Files, NEW w \in BOOLEAN, Open(f, w) PROVE Elsewhere
  BY <1>4, <1>5 DEF Open
<1>6. CASE TakeMismatch
  BY <1>4, <1>6 DEF TakeMismatch
<1>7. CASE FillAhead
  <2>1. threads \in Nat /\ MaxSlots \in Nat
    BY ThreadOptionsAssumption, MaxSlotsAssumption DEF Inv, TypeOK
  <2>2. \A want \in 2..Lesser(threads, MaxSlots) : want \in Nat
    BY <2>1
  <2> QED  BY <1>1, <1>7, <2>2 DEF FillAhead
<1>8. CASE Collect
  BY <1>8 DEF Collect, BringBack, Elsewhere
<1>9. CASE FollowAhead
  BY <1>1, <1>9 DEF FollowAhead, StopBefore
<1>10. CASE Drained
  BY <1>10 DEF Drained, Elsewhere
<1>11. CASE Begin \/ Finish
  BY <1>11 DEF Begin, Finish, Threads, AtMostOne, Elsewhere
<1>12. CASE UNCHANGED vars
  BY <1>1, <1>12 DEF vars
<1> QED  BY <1>2, <1>3, <1>5, <1>6, <1>7, <1>8, <1>9, <1>10, <1>11, <1>12
         DEF Next, WalkStep

LEMMA KeepsToThePool == Inv /\ [Next]_vars => [Pool!Next]_status
<1> SUFFICES ASSUME Inv, [Next]_vars PROVE [Pool!Next]_status
  OBVIOUS
<1>1. ASSUME call = "fill", Spent, NEW want \in Nat, NEW n \in 1..MaxSlots,
             NEW m \in 1..MaxSlots, StartRun(want, n, m)
      PROVE  Pool!Next
  <2>1. /\ m \in Nat \ {0} /\ m - 1 <= MaxChunks
        /\ status' = [j \in Index |-> IF j \in 1..m - 1 THEN "queued" ELSE status[j]]
        /\ \A j \in Index : status[j] = "walk"
    BY <1>1, StartHands
  <2>2. 1..m - 1 \in SUBSET Index
    BY <2>1, MaxChunksAssumption DEF Index
  <2>3. Pool!Hand(1..m - 1)
    BY <2>1, <2>2 DEF Pool!Hand, Pool!In
  <2> QED  BY <2>2, <2>3 DEF Pool!Next
<1>2. ASSUME call = "follow", next # None, Follow PROVE Pool!Next
  <2>1. /\ status' = [status EXCEPT ![end] = "queued"]
        /\ end \in Index /\ status[end] = "walk"
    BY <1>2, FollowHands
  <2>2. Pool!Hand({end})
    BY <2>1 DEF Pool!Hand, Pool!In, Inv, TypeOK
  <2> QED  BY <2>1, <2>2 DEF Pool!Next
<1>3. ASSUME Elsewhere PROVE [Pool!Next]_status
  <2>1. ASSUME call = "collect", Pool!Return(pos - 1) PROVE Pool!Next
    <3>1. pos - 1 \in Index
      BY <2>1 DEF Inv, InHand, Owed
    <3> QED  BY <2>1, <3>1 DEF Pool!Next
  <2>2. ASSUME NEW done \in AtMostOne, NEW begun \in AtMostOne, Pool!Decode(done, begun)
        PROVE  Pool!Next
    BY <2>2 DEF AtMostOne, Pool!Next
  <2> QED  BY <1>3, <2>1, <2>2 DEF Elsewhere, Pool!Next
<1> QED  BY <1>1, <1>2, <1>3, PoolSteps

LEMMA HandsAsMeant == Inv /\ [Next]_vars => [HandsInOrder]_vars
<1> SUFFICES ASSUME Inv, [Next]_vars PROVE HandsInOrder
  OBVIOUS
<1> DEFINE handed == {j \in Index : status[j] = "walk" /\ status'[j] = "queued"}
<1>1. ASSUME call = "fill", Spent, NEW want \in Nat, NEW n \in 1..MaxSlots,
             NEW m \in 1..MaxSlots, StartRun(want, n, m)
      PROVE  HandsInOrder
  <2>1. /\ Owed = {} /\ next = None /\ m \in Nat \ {0} /\ m - 1 <= MaxChunks
        /\ status' = [j \in Index |-> IF j \in 1..m - 1 THEN "queued" ELSE status[j]]
        /\ \A j \in Index : status[j] = "walk"
    BY <1>1, StartHands
  <2>2. handed = 1..m - 1
    BY <2>1, MaxChunksAssumption DEF Index
  <2>3. Cardinality(1..m - 1) = m - 1
    <3>1. m - 1 \in Nat /\ 1 \in Int /\ m - 1 \in Int
      BY <2>1
    <3>2. Cardinality(1..m - 1) = IF 1 > m - 1 THEN 0 ELSE (m - 1) - 1 + 1
      BY <3>1, FS_Interval
    <3> QED  BY <3>1, <3>2
  <2> QED  BY <1>1, <2>1, <2>2, <2>3 DEF HandsInOrder
<1>2. ASSUME call = "follow", next # None, Follow PROVE HandsInOrder
  <2>1. /\ status' = [status EXCEPT ![end] = "queued"]
        /\ end \in Index /\ status[end] = "walk" /\ pool' = pool
    BY <1>2, FollowHands
  <2>2. handed = {end}
    BY <2>1 DEF Inv, TypeOK
  <2> QED  BY <1>2, <2>1, <2>2 DEF HandsInOrder
<1>3. ASSUME Elsewhere PROVE HandsInOrder
  <2>1. handed = {} /\ pool' = pool
    BY <1>3 DEF Elsewhere, Pool!Recall, Pool!RecallDecoded, Pool!Return, Pool!Decode,
                Pool!In, Inv, TypeOK
  <2>2. call = "collect" => \A j \in Owed : pos - 1 <= j
    BY Numbers DEF Inv, Window
  <2> QED  BY <2>1, <2>2 DEF HandsInOrder
<1> QED  BY <1>1, <1>2, <1>3, PoolSteps

\* A run is started with nothing outstanding, frames are handed over and
\* collected in order, and a pool replaced when it is idle (slot.rs: "a run is
\* only started once the one before it has been collected"); and all the walk
\* asks of the pool is something FrameJobs lets it ask.
THEOREM UsedAsMeant == Spec => PoolUsedAsMeant
<1>1. Init => Pool!Init
  BY DEF Init
<1>2. Inv /\ [Next]_vars => [Pool!Next]_status
  BY KeepsToThePool
<1>3. Inv /\ [Next]_vars => [HandsInOrder]_vars
  BY HandsAsMeant
<1>4. Spec => UsesThePool
  BY <1>3, Invariance, PTL DEF Spec, UsesThePool
<1>5. Spec => KeepsToFrameJobs
  BY <1>1, <1>2, Invariance, PTL DEF Spec, KeepsToFrameJobs, Pool!Spec
<1> QED  BY <1>4, <1>5 DEF PoolUsedAsMeant

-----------------------------------------------------------------------------
(* Decoding ahead implements decoding each frame when its turn comes.      *)

\* Where SerialWalk sees the walk: before the frame a call is to hand out.
SerialCursor == IF Coming THEN base ELSE cursor

\* Nothing a caller sees changes.
LEMMA Unseen ==
    ASSUME SerialCursor' = SerialCursor, UNCHANGED <<file, settings, shown>>
    PROVE  [Serial!Next]_(Serial!vars)
  BY DEF Serial!vars, SerialCursor

\* The frame asked for is handed out as it is now under the options in force.
LEMMA HandedOut ==
    ASSUME Inv, Coming, ~Coming', cursor' = cursor, shown' = Image(base, settings),
           UNCHANGED <<file, settings>>
    PROVE  Serial!NextFrame
<1>1. base + 1 = cursor /\ IsA(Decoded, base)
  BY DEF Inv, Asked, Coming
<1> QED  BY <1>1 DEF Serial!NextFrame, Serial!Decoded, Decoded, IsA, Image

LEMMA StepsAreSerial == Inv /\ [Next]_vars => [Serial!Next]_(Serial!vars)
<1> SUFFICES ASSUME Inv, [Next]_vars PROVE [Serial!Next]_(Serial!vars)
  OBVIOUS
<1> USE DEF walkVars, outVars, runVars, ringVars, poolVars, callVars
<1>1. CASE SetOptions
  <2>1. Serial!SetOptions
    BY <1>1 DEF SetOptions, Serial!SetOptions, Coming
  <2> QED  BY <2>1 DEF Serial!Next
<1>2. CASE Skip
  <2>1. Serial!Skip
    BY <1>2 DEF Skip, Serial!Skip, Coming, IsA
  <2> QED  BY <2>1 DEF Serial!Next
<1>3. CASE Refuse
  <2>1. Serial!Refuse
    BY <1>3 DEF Refuse, Serial!Refuse, Coming, IsA
  <2> QED  BY <2>1 DEF Serial!Next
<1>4. CASE NextFrame
  BY <1>4, Unseen DEF NextFrame, SerialCursor, Coming
<1>5. ASSUME NEW f \in Files, NEW w \in BOOLEAN, Open(f, w)
      PROVE  [Serial!Next]_(Serial!vars)
  <2>1. ~Coming'
    BY <1>5 DEF Open, Clear, Coming
  <2>2. Serial!Open(f)
    BY <1>5, <2>1 DEF Open, Serial!Open, Serial!Nothing, Nothing
  <2> QED  BY <2>2 DEF Serial!Next
<1>6. CASE FillAhead \/ TakeNothing
  BY <1>6, Unseen DEF FillAhead, TakeNothing, SerialCursor, Coming
<1>7. CASE TakeMismatch
  BY <1>7, Unseen DEF TakeMismatch, Clear, SerialCursor, Coming
<1>8. CASE Take
  BY <1>8, Unseen DEF Take, SerialCursor, Coming
<1>9. CASE Collect
  BY <1>9, Unseen DEF Collect, BringBack, SerialCursor, Coming
<1>10. CASE Swap
  <2>1. /\ EntryOf(pos - 1).out = Image(base, settings)
        /\ slots[At(pos - 1)].holds = EntryOf(pos - 1).out
    BY <1>10 DEF Swap, Inv, InHand, Held, Ready
  <2>2. shown' = Image(base, settings)
    BY <1>10, <2>1 DEF Swap, EntryOf
  <2>3. Serial!NextFrame
    BY <1>10, <2>2, HandedOut DEF Swap, Coming
  <2> QED  BY <2>3 DEF Serial!Next
<1>11. CASE FollowAhead
  BY <1>11, Unseen DEF FollowAhead, SerialCursor, Coming
<1>12. CASE Alone
  <2>1. Serial!NextFrame
    BY <1>12, HandedOut DEF Alone, Coming
  <2> QED  BY <2>1 DEF Serial!Next
<1>13. CASE Drained
  BY <1>13, Unseen DEF Drained, SerialCursor, Coming, Inv, TypeOK
<1>14. CASE Begin \/ Finish
  BY <1>14, Unseen DEF Begin, Finish, Threads, SerialCursor, Coming
<1>15. CASE UNCHANGED vars
  BY <1>15, Unseen DEF vars, SerialCursor, Coming
<1> QED  BY <1>1, <1>2, <1>3, <1>4, <1>5, <1>6, <1>7, <1>8, <1>9, <1>10, <1>11, <1>12,
            <1>13, <1>14, <1>15 DEF Next, WalkStep

\* Each call hands out the next frame of the file as it is now, decoded under
\* the options in force now: decoding ahead cannot be told from decoding each
\* frame when its turn comes.
THEOREM AheadIsTransparent == Spec => Transparent
<1>1. Init => Serial!Init
  BY DEF Init, Serial!Init, Coming, Nothing, Serial!Nothing
<1>2. Inv /\ [Next]_vars => [Serial!Next]_(Serial!vars)
  BY StepsAreSerial
<1> QED  BY <1>1, <1>2, Invariance, PTL DEF Spec, Transparent, Serial!Spec
=============================================================================
