-------------------------------- MODULE Ahead --------------------------------
(***************************************************************************)
(* Decoding an animation ahead of the walk that composites it: Ahead of    *)
(* src/driver/slot.rs and its use by src/driver/anim.rs, over the pool as  *)
(* FrameJobs promises it.                                                  *)
(*                                                                         *)
(* A run of frames goes round a ring of slots: frame j of the run is slot  *)
(* and entry j % n.  The first is decoded by the walk, the rest go to the  *)
(* pool with their slot; as the walk takes a frame it swaps the slot in    *)
(* for its own and hands the frame that follows the run to the slot it     *)
(* emptied.  Options may change, and the file be rewound or another opened,*)
(* between any two calls, with frames still being decoded.                 *)
(*                                                                         *)
(* A chunk is what the walk makes of it: a frame, one too small to be      *)
(* worth a thread, a broken one that only decoding finds out about, one    *)
(* that does not fit the canvas, or no frame at all.                       *)
(* How many frames the memory budget allows (ahead_share), and whether a   *)
(* payload is copied, are left open, so every outcome of both is covered.  *)
(***************************************************************************)
EXTENDS Integers, Sequences, FiniteSets

CONSTANTS
    Settings,       \* values of FrameSettings
    ThreadOptions,  \* values of the thread option
    MaxSlots,       \* MAX_SLOTS
    Files,          \* the files opened: sequences of chunks, by their kinds
    MaxChunks       \* bound: the chunks of a file

ASSUME SettingsAssumption      == Settings # {}
ASSUME ThreadOptionsAssumption == ThreadOptions \subseteq Nat \ {0}
ASSUME MaxSlotsAssumption      == MaxSlots \in Nat \ {0, 1}
ASSUME MaxChunksAssumption     == MaxChunks \in Nat
ASSUME FilesAssumption ==
    \A f \in Files : /\ f \in Seq({"frame", "small", "broken", "misfit", "other"})
                      /\ Len(f) <= MaxChunks

VARIABLES
    file, whole, cursor,    \* Decoder: the chunks, if all are there; the walk's place
    settings, threads,      \* Decoder: the options in force
    frame, shown,           \* Decoder.frame, and what the last call came to
    slots, entries,         \* Ahead.slots and Ahead.entries
    pos, end, next,         \* Ahead: the run's next frame, its end, its next chunk
    runSettings, runThreads,\* Ahead: what the run was started with
    pool,                   \* the sizes the pool was made for
    status, jobs,           \* where FrameJobs has each frame, and what went with it
    call, base, then        \* the step of a call in progress, the chunk it is for,
                            \* and where it goes on after a clear

walkVars == <<file, whole, cursor, settings, threads>>
outVars  == <<frame, shown>>
runVars  == <<pos, end, next, runSettings, runThreads>>
ringVars == <<slots, entries>>
poolVars == <<pool, status, jobs>>
callVars == <<call, base, then>>
vars == <<walkVars, outVars, runVars, ringVars, poolVars, callVars>>

None    == 0
Nothing == <<>>

\* What the walk decodes, and what of it a run may hold.
Decoded == {"frame", "small", "broken"}
Fits    == {"frame", "small"}

Lesser(a, b) == IF a < b THEN a ELSE b

Index == 1..MaxChunks
Pool  == INSTANCE FrameJobs WITH Frame <- Index

\* A slot, and the stand-in std::mem::take leaves for it: one without its
\* buffers.  What a slot holds is forgotten when it goes back to the ring.
Slot     == [real |-> TRUE, holds |-> Nothing]
StandIn  == [real |-> FALSE, holds |-> Nothing]
Entry(c) == [base |-> c, out |-> Nothing, pending |-> FALSE]
NoJob    == [slot |-> StandIn, image |-> Nothing]

IsA(kinds, c) == c <= Len(file) /\ file[c] \in kinds

\* Where the ring has frame j of the run (counted from one here).
RingOf(n, j) == (j % n) + 1
At(j) == RingOf(Len(entries), j)

Spent == pos >= end

\* An image decoded from chunk c under s.
Image(c, s) == <<c, s>>

-----------------------------------------------------------------------------
(* Between calls.                                                          *)

SetOptions ==
    /\ call = "idle"
    /\ settings' \in Settings /\ threads' \in ThreadOptions
    /\ UNCHANGED <<file, whole, cursor, outVars, runVars, ringVars, poolVars, callVars>>

Skip ==
    /\ call = "idle" /\ IsA({"other"}, cursor)
    /\ cursor' = cursor + 1
    /\ UNCHANGED <<file, whole, settings, threads, outVars, runVars, ringVars,
                   poolVars, callVars>>

\* decode_anmf() fails a frame that does not fit before it looks at the run.
Refuse ==
    /\ call = "idle" /\ IsA({"misfit"}, cursor)
    /\ cursor' = cursor + 1
    /\ shown' = <<cursor>>
    /\ UNCHANGED <<file, whole, settings, threads, frame, runVars, ringVars,
                   poolVars, callVars>>

NextFrame ==
    /\ call = "idle" /\ IsA(Decoded, cursor)
    /\ cursor' = cursor + 1
    /\ base' = cursor
    /\ call' = "fill"
    /\ UNCHANGED <<file, whole, settings, threads, outVars, runVars, ringVars,
                   poolVars, then>>

-----------------------------------------------------------------------------
(* fill_ahead() and Ahead::start().                                        *)

\* Whether a lookahead for `want` finds n frames usable: those whose header and
\* bitstream fit, up to the first chunk that is no frame or does not.
Usable(want, n) == n <= want /\ \A i \in 0..n - 1 : IsA(Fits, base + i)

\* Where the run may go on after its first n frames: not past one that was
\* looked at and does not fit.
Beyond(want, n) ==
    IF n < want /\ IsA({"misfit", "broken"}, base + n) THEN None ELSE base + n

Sizes == <<Lesser(threads, MaxSlots), Lesser(threads - 1, MaxSlots)>>

\* A run of the n frames from base on is started; it ends before frame m if
\* that one's payload cannot be copied.
StartRun(want, n, m) ==
    LET more == [k \in 1..(IF n > Len(slots) THEN n - Len(slots) ELSE 0)
                    |-> Slot]
        all  == slots \o more
        lost == pool # Sizes
    IN
    /\ 2 <= n /\ Usable(want, n) /\ m \in 1..n
    /\ \E i \in 0..n - 1 : IsA({"frame"}, base + i)
    /\ pool' = Sizes
    /\ status' = [j \in Index |-> IF j < m THEN "queued"
                                  ELSE IF lost THEN "walk" ELSE status[j]]
    /\ jobs' = [j \in Index |-> IF j < m
                                THEN [slot |-> all[j + 1],
                                      image |-> Image(base + j, settings)]
                                ELSE IF lost THEN NoJob ELSE jobs[j]]
    /\ slots' = [k \in DOMAIN all |->
                    IF k = 1 THEN [all[1] EXCEPT !.holds = Image(base, settings)]
                    ELSE IF k <= m THEN StandIn ELSE all[k]]
    /\ entries' = [k \in 1..m |->
                    [base |-> base + k - 1, pending |-> k # 1,
                     out |-> IF k = 1 THEN Image(base, settings) ELSE Nothing]]
    /\ pos' = 0 /\ end' = m
    /\ next' = IF m < n THEN None ELSE Beyond(want, n)
    /\ runSettings' = settings /\ runThreads' = threads

FillAhead ==
    /\ call = "fill"
    /\ \/ /\ Spent /\ whole
          /\ \E want \in 2..Lesser(threads, MaxSlots), n, m \in 1..MaxSlots :
                StartRun(want, n, m)
       \/ UNCHANGED <<runVars, ringVars, poolVars>>
    /\ call' = "take"
    /\ UNCHANGED <<walkVars, outVars, base, then>>
-----------------------------------------------------------------------------
(* Ahead::clear().                                                         *)

Pending == \E k \in DOMAIN entries : entries[k].pending

\* The slots of the frames in `back` return to the ring, and the jobs are gone.
PutBack(n, back) ==
    /\ slots' = [k \in DOMAIN slots |->
                    IF \E j \in back : RingOf(n, j) = k
                    THEN jobs[CHOOSE j \in back : RingOf(n, j) = k].slot
                    ELSE slots[k]]
    /\ jobs' = [j \in Index |-> IF j \in back THEN NoJob ELSE jobs[j]]

RunOver ==
    /\ entries' = <<>>
    /\ pos' = 0 /\ end' = 0 /\ next' = None
    /\ UNCHANGED <<runSettings, runThreads>>

ClearUndrained(goOn) ==
    /\ RunOver
    /\ call' = goOn
    /\ UNCHANGED <<slots, poolVars, then>>

\* Pool::drain gives the frames no thread has begun back at once ...
Clear(goOn) ==
    IF Pending /\ pool # Nothing
    THEN /\ PutBack(Len(entries), Pool!In("queued"))
         /\ Pool!Recall
         /\ call' = "drain" /\ then' = goOn
         /\ UNCHANGED <<entries, runVars, pool>>
    ELSE /\ RunOver
         /\ call' = goOn
         /\ UNCHANGED <<slots, poolVars, then>>

\* ... and the others once no thread is decoding.
Drained ==
    /\ call = "drain"
    /\ PutBack(Len(entries), Pool!In("decoded"))
    /\ Pool!RecallDecoded
    /\ RunOver
    /\ call' = then /\ then' = "idle"
    /\ UNCHANGED <<walkVars, outVars, pool, base>>

\* rewind() and open(): the options stay, the file may be another.
Open(f, w) ==
    /\ call = "idle"
    /\ file' = f /\ whole' = w /\ cursor' = 1
    /\ frame' = [frame EXCEPT !.holds = Nothing]
    /\ shown' = Nothing
    /\ Clear("idle")
    /\ UNCHANGED <<settings, threads, base>>

-----------------------------------------------------------------------------
(* take_ahead(), Ahead::collect() and follow_ahead().                      *)

MatchesBaseOnly ==
    entries[At(pos)].base = base

Matches ==
    /\ entries[At(pos)].base = base
    /\ runSettings = settings
    /\ runThreads = threads

\* Nothing was decoded ahead for this frame: the walk decodes it itself.
TakeNothing ==
    /\ call = "take" /\ Spent
    /\ call' = "alone"
    /\ UNCHANGED <<walkVars, outVars, runVars, ringVars, poolVars, base, then>>

\* The run is about something else.
TakeMismatch ==
    /\ call = "take" /\ ~Spent /\ ~Matches
    /\ Clear("alone")
    /\ UNCHANGED <<walkVars, outVars, base>>

Take ==
    /\ call = "take" /\ ~Spent /\ Matches
    /\ pos' = pos + 1
    /\ call' = IF entries[At(pos)].pending THEN "collect" ELSE "swap"
    /\ UNCHANGED <<walkVars, outVars, end, next, runSettings, runThreads, ringVars,
                   poolVars, base, then>>

\* Frame j is back in its slot, whoever decoded it.
BringBack(j) ==
    LET k == At(j)
        image == jobs[j].image
    IN  /\ Pool!Return(j)
        /\ slots' = [slots EXCEPT ![k] = [jobs[j].slot EXCEPT !.holds = image]]
        /\ entries' = [entries EXCEPT ![k] = [@ EXCEPT !.pending = FALSE, !.out = image]]
        /\ jobs' = [jobs EXCEPT ![j] = NoJob]
        /\ call' = "swap"
        /\ UNCHANGED <<walkVars, outVars, runVars, pool, base, then>>

CollectDecodedOnly ==
    call = "collect" /\ status[pos - 1] = "decoded" /\ BringBack(pos - 1)

\* Decoded by a thread, or by the walk itself if none has begun it.
Collect ==
    call = "collect" /\ BringBack(pos - 1)

\* The slot is swapped in whole, and the picture made from it.
SwapMovedOut ==
    /\ call = "swap"
    /\ LET k == At(pos - 1) IN
       /\ frame' = slots[k]
       /\ slots' = [slots EXCEPT ![k] = StandIn]
       /\ shown' = IF slots[k].holds = entries[k].out THEN entries[k].out ELSE Nothing
    /\ call' = "follow"
    /\ UNCHANGED <<walkVars, runVars, entries, poolVars, base, then>>

Swap ==
    /\ call = "swap"
    /\ LET k == At(pos - 1) IN
       /\ frame' = slots[k]
       /\ slots' = [slots EXCEPT ![k] = [frame EXCEPT !.holds = Nothing]]
       /\ shown' = IF slots[k].holds = entries[k].out THEN entries[k].out ELSE Nothing
    /\ call' = "follow"
    /\ UNCHANGED <<walkVars, runVars, entries, poolVars, base, then>>

\* The frame at `next` goes to the slot just emptied, and that to the pool.
HandOn ==
    LET k == At(end) IN
    /\ entries' = [entries EXCEPT ![k] = [Entry(next) EXCEPT !.pending = TRUE]]
    /\ jobs' = [jobs EXCEPT ![end] = [slot |-> slots[k],
                                      image |-> Image(next, runSettings)]]
    /\ slots' = [slots EXCEPT ![k] = StandIn]
    /\ status' = [status EXCEPT ![end] = "queued"]
    /\ end' = end + 1
    /\ UNCHANGED <<pos, runSettings, runThreads, pool>>

FollowUnchecked ==
    HandOn /\ next' = next + 1

FollowNextKept ==
    /\ IsA({"frame"}, next) /\ end - pos < Len(entries)
    /\ HandOn /\ next' = next

\* Where it is a frame worth a thread, and the run has a slot free.
Follow ==
    /\ IsA({"frame"}, next) /\ end - pos < Len(entries)
    /\ HandOn /\ next' = next + 1

StopBeforeGoesOn ==
    UNCHANGED <<runVars, ringVars, poolVars>>

\* The run ends before a chunk that is not worth a thread, or is not copied.
StopBefore ==
    /\ entries' = IF IsA({"frame"}, next) THEN [entries EXCEPT ![At(end)] = Entry(next)]
                  ELSE entries
    /\ next' = None
    /\ UNCHANGED <<pos, end, runSettings, runThreads, slots, poolVars>>

FollowAhead ==
    /\ call = "follow"
    /\ \/ next # None /\ Follow
       \/ next # None /\ StopBefore
       \/ next = None /\ UNCHANGED <<runVars, ringVars, poolVars>>
    /\ call' = "idle" /\ base' = None
    /\ UNCHANGED <<walkVars, outVars, then>>

Alone ==
    /\ call = "alone"
    /\ frame' = [frame EXCEPT !.holds = Image(base, settings)]
    /\ shown' = Image(base, settings)
    /\ call' = "idle" /\ base' = None
    /\ UNCHANGED <<walkVars, runVars, ringVars, poolVars, then>>

-----------------------------------------------------------------------------
\* The pool's threads, at any time: each begins a frame, finishes one, or both.
Threads(done, begun) ==
    /\ Pool!Decode(done, begun)
    /\ UNCHANGED <<walkVars, outVars, runVars, ringVars, pool, jobs, callVars>>

AtMostOne == {{}} \cup {{j} : j \in Index}

Finish == \E j \in Index, begun \in AtMostOne : Threads({j}, begun)
Begin  == \E j \in Index : Threads({}, {j})

Init ==
    /\ file \in Files /\ whole \in BOOLEAN /\ cursor = 1
    /\ settings \in Settings /\ threads \in ThreadOptions
    /\ frame = Slot /\ shown = Nothing
    /\ slots = <<>> /\ entries = <<>>
    /\ pos = 0 /\ end = 0 /\ next = None
    /\ runSettings = settings /\ runThreads = None
    /\ pool = Nothing
    /\ Pool!Init
    /\ jobs = [j \in Index |-> NoJob]
    /\ call = "idle" /\ base = None /\ then = "idle"

WalkStep ==
    \/ FillAhead \/ TakeNothing \/ TakeMismatch \/ Take \/ Collect \/ Swap
    \/ FollowAhead \/ Alone \/ Drained

Next ==
    \/ SetOptions \/ Skip \/ Refuse \/ NextFrame
    \/ \E f \in Files, w \in BOOLEAN : Open(f, w)
    \/ WalkStep
    \/ Begin \/ Finish

Spec == Init /\ [][Next]_vars

\* A frame a thread has begun gets finished, which FramePool shows; the call
\* in progress goes on whenever it can.
Fairness ==
    /\ WF_vars(WalkStep)
    /\ WF_vars(Finish)

FairSpec == Spec /\ Fairness

-----------------------------------------------------------------------------
(* Properties.                                                             *)

Calls == {"idle", "fill", "take", "collect", "swap", "follow", "alone", "drain"}

Images == {Nothing} \cup (1..MaxChunks) \X Settings
SlotType == [real : BOOLEAN, holds : Images]
EntryType == [base : 1..MaxChunks, out : Images, pending : BOOLEAN]

TypeOK ==
    /\ file \in Files /\ whole \in BOOLEAN
    /\ cursor \in 1..MaxChunks + 1
    /\ settings \in Settings /\ threads \in ThreadOptions
    /\ frame \in SlotType
    /\ shown \in Images \cup {<<c>> : c \in 1..MaxChunks}
    /\ slots \in Seq(SlotType) /\ Len(slots) <= MaxSlots
    /\ entries \in Seq(EntryType)
    /\ Len(entries) <= Len(slots)
    /\ pos \in 0..MaxChunks /\ end \in 0..MaxChunks /\ next \in 0..MaxChunks + 1
    /\ runSettings \in Settings /\ runThreads \in ThreadOptions \cup {None}
    /\ status \in [Index -> Pool!Statuses]
    /\ jobs \in [Index -> [slot : SlotType, image : Images]]
    /\ call \in Calls /\ base \in 0..MaxChunks /\ then \in {"idle", "alone"}

Owed == {j \in Index : status[j] # "walk"}

\* No slot loses its buffers: the walk's has them, each job took its slot's
\* along, and a stand-in is left in the ring just where one is with the pool.
\* A run cut short, drained or refilled leaks none (anim.rs: the swap
\* "recycles the buffers the outgoing frame was using").
BuffersKept ==
    /\ frame.real
    /\ \A j \in Owed : jobs[j].slot.real
    /\ \A k \in DOMAIN slots :
           ~slots[k].real <=> \E j \in Owed : RingOf(Len(entries), j) = k

\* Between calls the run is in step with the walk: what is left of it are the
\* very frames the walk comes to next, one after the other, those pending and
\* no others with the pool, and it goes on at the chunk after them.
RunInStep ==
    call = "idle" =>
        /\ \A j \in pos..end - 1 :
               LET e == entries[At(j)] IN
               /\ e.base = cursor + (j - pos)
               /\ e.pending <=> j \in Owed
        /\ Owed \subseteq pos..end - 1
        /\ end - pos <= Len(entries)
        /\ next # None => next = cursor + (end - pos) /\ ~Spent

\* The ring keeps its slots and the run its place, whatever comes between two
\* calls.
RingInStep == TypeOK /\ BuffersKept /\ RunInStep

\* The walk uses the pool as FramePool's calling thread does: a run starts
\* once the one before is collected and has ended, frames follow one at a time
\* while it goes on, they are collected in order, and a pool is only replaced
\* when it has nothing left to do (slot.rs: "a run is only started once the
\* one before it has been collected").
HandsInOrder ==
    LET handed == {j \in Index : status[j] = "walk" /\ status'[j] = "queued"} IN
    /\ pool' # pool => Owed = {}
    /\ handed # {} =>
           \/ (Owed = {} /\ next = None /\ handed = 1..Cardinality(handed))
           \/ (next # None /\ handed = {end})
    /\ call = "collect" /\ call' = "swap" => \A j \in Owed : pos - 1 <= j

UsesThePool == [][HandsInOrder]_vars

\* The pool is asked for nothing it does not promise.
KeepsToFrameJobs == Pool!Spec
PoolUsedAsMeant == UsesThePool /\ KeepsToFrameJobs

\* Decoding ahead cannot be told from decoding each frame when its turn comes:
\* every call hands out the next frame of the file as it is now, decoded under
\* the options in force now.
Coming ==
    \/ call \in {"fill", "take", "collect", "swap", "alone"}
    \/ (call = "drain" /\ then = "alone")

Serial == INSTANCE SerialWalk WITH
    cursor <- IF Coming THEN base ELSE cursor

Transparent == Serial!Spec

\* A call for the next frame returns, even if no thread ever takes a frame up.
PictureReturns == (call # "idle") ~> (call = "idle")
=============================================================================
