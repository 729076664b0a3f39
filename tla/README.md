# wpd in TLA+

wpd decodes WebP: stills and animations, lossy (VP8) and lossless (VP8L), from
a whole file or one that is still arriving, on one thread or several. This
directory holds TLA+ modules of its threads, its resumable decoders, the
arithmetic those rest on and the way a picture takes out of the library, the TLC
configurations that check them on small instances, and theorems that TLAPS
proves for every instance. Paths below are relative to the crate (`src/` is the
library, `capi/` the C API around it).

    tlc -config FramePoolSafe.cfg MCFramePool      # check a run
    tlapm FramePoolProofs.tla                      # check the proofs

## 1. What is in the system

Threads appear in four places. Everything else runs on the caller's thread,
call after call, but most of it can be interrupted by the end of the data and
resumed when more has arrived.

| Component | State | Operations | What makes it correct |
|---|---|---|---|
| Frame pool, `driver/slot.rs` `Pool`, `Shared`, `Queue`, `work` | under one mutex: frames waiting and finished, counts of threads and of running frames, `ending`, `lent`; two condition variables | `new`, `submit`, `end`, `collect`, `drain`, drop; each thread's loop | each frame is in one place; never more threads at work than the option allows; no lost wakeup; threads leave when told; calls return |
| Decoded-ahead run, `driver/slot.rs` `Ahead`, `driver/anim.rs` | a ring of slots and entries, the run's position and end, the chunk that follows, the settings it was started under | `start`, `take_ahead`/`collect`, `follow`, `stop`, `clear`, `walk_threads` | the walk shows exactly what decoding on one thread shows; slots keep their buffers; the ring and the walk stay in step |
| Relay, `task.rs` `relay` | one channel per step, an idle channel back, the threads | `take`, `pass`, `finish`; each step thread; spawn that fails | steps see passes in order, none lost or doubled; refusals and panics unwind; no wait without end |
| Work halves and pieces, `task.rs` `join`, `for_each` | scoped threads | two closures side by side; pieces split over threads | every piece runs once, whichever threads start |
| Lossy rows, `vp8/mod.rs` `decode_rows_*` | bitstream partitions, the row state above, filter delay | rows in order, rows over a relay of one or two steps | the relayed rows are the rows in order |
| Lossy rows of a file still arriving, `vp8/mod.rs`, `driver/lossy.rs` | what is saved of a macroblock (`ResumeState`), partitions ready and clamped, `vp8_active` | `frame_init`, `extend`, save and restore, the rows called final | a macroblock undone leaves nothing behind; prediction reads unfiltered pixels; rows called final stay |
| Boolean coders, `vp8/rac.rs` | a range, a value, bits loaded, an end mark | load, decide, renormalise, overrun | the three coders read the same decisions |
| Lossy header, modes, coefficients, pixels, `vp8/mod.rs`, `vp8/tables.rs`, `dsp/vp8*.rs` | segments, deltas, quantizers, probabilities; flags and modes of the neighbours; a macroblock's blocks | read the header, parse a macroblock, predict, transform, filter | a header owes nothing to the frame before; contexts are the neighbours'; each coefficient is added once |
| Lossless still, `vp8l/mod.rs`, `vp8l/entropy.rs` | bit reader, transforms, colour cache, position in the image, rows out | `still_step`, `still_peek`, `decode_frame`, `pipeline` | resuming anywhere gives the same pixels; the two threads of the pipeline keep apart |
| Lossless bits, codes, transforms, `vp8l/bitreader.rs`, `huffman.rs`, `transform.rs`, `dsp/vp8l.rs` | tables, a window of bits, planes | build codes, read symbols, invert transforms | every bit is read once; canonical codes; inverses |
| Lossy frame and alpha, `driver/lossy.rs`, `vp8l/mod.rs` `alpha_*` | an alpha plane, bands between two threads | decode colour and alpha side by side | the plane coded, whichever way it is decoded; no wait without end |
| Decoder, `driver/mod.rs` | the window, headers seen, the walk's position, pending alpha, what is ready to emit, rows converted | open, open_stream, append, update, end_of_stream, options, next_picture, partial_picture, rewind | a file fed in parts decodes to what the whole file does; offsets follow the window; rows called valid are |
| Input window, `input.rs` | owned, borrowed or shared bytes, a start offset | append, compact, replace, borrow | the bytes at an offset are the file's |
| Container scan, `container.rs` | position, chunks seen, flags | `headers` on growing data | the same answer as one pass |
| Animation compositing, `anim.rs`, `driver/anim.rs`, `compose.rs`, `blit.rs`, `image.rs` | canvas, previous frame's box and disposal | key-frame test, regions, paint | the canvas is the frames composed one by one |
| Conversion, rescaling, export, `convert.rs`, `rescale.rs`, `driver/convert.rs`, `driver/export.rs` | rows in, rows out, what owes a later row | convert in bands and strips, rescale, crop, premultiply | each row once, from the rows its filter names; alpha multiplied in once |
| C API, `capi/src/decoder.rs`, `frame.rs` | a handle, what the caller lent, the frames handed out | open, update, planes, next and partial frame, free | no memory is used for two things, or after it was given back |
| Log, Rust API, options, errors, assembly, tools | | | thin, or outside the library's logic |

How they interact. `next_picture()` walks the chunks of the input window. At an
ANMF chunk, `decode_anmf()` asks `Ahead` for a frame decoded ahead, which
starts, feeds and drains the frame pool; threads of the pool decode into slots
and never touch the decoder. The walk composites the slot onto the canvas and
exports the canvas. A lossy image decoded with more than one thread to itself
runs its rows over a relay, and its alpha plane beside them; a lossless one
pipelines entropy decoding and transforms. A frame of the pool is decoded on
one thread, so the two kinds of parallelism meet only in the thread budget
(`walk_threads`). A still that arrives bit by bit is decoded by the same
decoders, each of which saves where it stopped; `partial_picture()` exports the
rows they call final. The caller may change options, rewind or reopen between
any two calls.

What is hard is listed, line by line, under `hazards` in `PROJECT.json`, with
the properties that are about it.

## 2. Modules

    SerialWalk   FrameJobs                    RowsInOrder
        ^         ^     ^                          ^
        |implements     |implements                |implements
        Ahead ----+   FramePool                RowRelay --extends--> Relay
          ^              ^                         ^
       MCAhead      MCFramePool                 MCRows

        Stream      RowResume      MCCodecs                    MCOutput
          ^             ^             |                           |
       MCStream    MCRowResume   LosslessStill AlphaPlane      RowWindows
                                 StreamBits PrefixCodes         ^ extends
                                 LosslessHeader LosslessRows   PartialRows <- MCPartialRows
                                 BoolCoder LossyHeader         Canvas Rescale
                                 Macroblocks LossyTokens       Exports Handle
                                 LossyPixels SplitWork

    Theorems about    are in
    Ahead             AheadProofs
    FramePool         FramePoolProofs
    Relay, RowRelay   RowRelayProofs
    RowResume         RowResumeProofs
    Stream            StreamProofs
    SplitWork         SplitWorkProofs
    StreamBits        StreamBitsProofs
    Handle            HandleProofs

`MCCodecs` and `MCOutput` put several modules into one run. They do not
interact there: a behaviour belongs to one of them, named by `part`, and the
others' variables stand still. `MCCodecs` extends `SplitWork` and `StreamBits` and
instantiates the rest. A module without variables is a set of cases,
each an initial state.

### FramePool and FrameJobs

`FramePool` is the monitor of `driver/slot.rs` at the grain of its critical
sections: one action for what happens between taking the mutex and giving it up
or sleeping. A thread is at `free`, `starting`, `ready` (about to take the
mutex), `asleep` on `work`, `decoding` (the job is out of the queue, the mutex
is free), `joining` (returned from its loop) or `over`. The walk is at one place
in `call`. `NotifyOne` wakes any one sleeper, `notify_all` all of them, and
`SpuriousWakeup` any of them for no reason. The pool's own variables are the
fields of `Queue`: `waiting`, `finished`, `threads`, `running`, `ending`,
`lent`, plus the threads `submit` has still to start. The actions of the walk
that follow a notify are separate from the critical section before it, because
the code unlocks first.

The caller is modelled as `Ahead` uses the pool: a run is submitted, its frames
are collected in order, a frame may be handed over after each one, the run is
ended or drained, the pool dropped at any idle moment, and the walk composites
with `walk_threads()` threads between calls. `owed`, `handed` and `going` say how
far the run is; `single` and `spread` are the walk's locals.

`FrameJobs` is what the pool promises, one status per frame: with the walk,
queued, in progress, decoded. Frames are handed over, taken up in any order,
returned, recalled to be decoded by the walk, or abandoned all together.

### Ahead and SerialWalk

`Ahead` is the ring and its walk over `FrameJobs` (not over `FramePool`: that
the pool keeps to `FrameJobs` is checked in `FramePoolSafe`, that `Ahead` uses it
by its rules, and that it makes only the calls `FramePool` models, in
`PoolUsedAsMeant`; each is proved too). A file is a sequence of chunks, by what the walk makes
of them: a frame, one too small to be worth a thread, one whose image turns out
broken, one that does not fit the canvas, no frame. An image is named by the chunk and the settings it was decoded
with. How many frames the memory budget allows and whether a payload can be
copied are left open, so all outcomes are covered. Between any two calls
options may change and the file be rewound or another opened.

`SerialWalk` is decoding without threads: each call shows the next chunk,
decoded with the settings in force when it is called. `Transparent` is that
`Ahead` implements it.

### Relay

`Relay` is `task.rs` `relay()`: `N` steps, a channel before each, and the idle
channel back to the caller, with `B` buffers. Passes are numbered as the caller
makes them, so a channel is a sequence of numbers. `sender` and `receiver` say
which ends are alive; a step that finds its own receiver empty and its sender
gone leaves, dropping both of its ends. `call` is the caller's place: spawning,
producing, waiting in `take()`, joining, returned or re-raising a panic. `route`
is `Across` the threads or `Here`, the latter also when a spawn fails and the
steps already started have been unwound. `passed`, `refused`, `seen`, `back`,
`entered`, `ended` and `panicked` are history.

The producer is any caller that takes before it passes, and never holds every
buffer while it asks for another: across threads such a `take()` would wait for
ever, and no producer in the crate does so. A producer that panics is not
modelled.

### RowRelay and RowsInOrder

`RowRelay` EXTENDS `Relay` with the producer and steps `decode_rows_relayed()` of
`vp8/mod.rs` puts on it, one schedule a run: modes, coefficients and
reconstruction on a thread each; coefficients apart (`coeffs_outweigh()`); or
reconstruction apart. Rows are their numbers; the modes run dry at one row and
the coefficients at another, anywhere or nowhere. Every step of `RowRelay` is a
step of `Relay` with the program's own state beside it. `RowsInOrder` is
`decode_rows_planes()` on one thread: row after row, the one that ran dry without
its loop filter, and an error if any was dry.

### RowResume

The rows of one lossy still whose chunk is still arriving, macroblock by
macroblock. `Arrive` brings bytes. A `next_picture()` that gets as far as
`vp8_lossy_step()` or `vp8_lossy_decode_frame()` begins with `HeaderNeedsMore` or `FrameInit`, or with
`Extend` when the frame has started, and goes on through the row loop: `StartRow` or
`PartitionNeedsMore` for a row, `Macroblock` or `MbNeedsMore` for a macroblock, `EndRow`,
`EndRowDry`, `EndFrame`. `Macroblock` is the parse of modes and coefficients and what
is reconstructed of it, `MbNeedsMore` the parse that ran past the window, with all that
is put back of it. `ready` and `clamped` are the partitions that have been opened and
those whose window ends where the data does. `Reopen` leaves the frame
anywhere and decodes another with the same decoder.

Bytes are counted, not modelled: `need[m]` says how much of its partition has been
read once macroblock m is parsed, and a coder that is asked for more than its
window holds has overrun. What a macroblock was reconstructed from is a record of
where both coders stood and who had last written its contexts, which must be
what a decoder with all the data would have recorded. The loop filter is
modelled by the boxes of pixels it writes, prediction by those it reads. A
frame whose modes run dry, or whose partitions lack bytes when the chunk ends,
is damaged, and has to fail.

### Stream

The input window, the header scan and the walk over the chunks, under the
calls of a stream. A file is a RIFF header and chunks in units; each unit is known by
its offset, so the window's contents, what metadata was copied and what an image was
decoded from can be compared with what was meant. `Open`, `OpenStream`, `Append_`,
`AppendFails`, `Update`, `TakeUpdateBuffer`, `EndOfStream`, `Rewind` and `NextPicture`
(or `NoHeaders`) are the calls. The first ones go on to `ScanRiff` and then chunk by chunk
through `Scan::headers()` until `Rescanned`, which is `capture_metadata()` and all
that `rescan_headers()` and its callers make of the result; `NextPicture` goes on chunk
by chunk through `next_picture()`. `call` is the place in the call, `via` which call it is that
rescans, `status` what the last one came to, `shown` the pictures and refused alphas so far.

The size of an image and the flags of a `VP8X` chunk are attributes of the chunk;
`need` is how many units of an image its rows take, so a still may be shown
before its chunk is whole. `RowResume` is the decoder below `Step`.

`MCRows` puts the two schedules with one step on a thread of its own (`RowRelay`
with `N = 1`) and the one with two (`N = 2`) into one specification.

### LosslessStill

A lossless still from its first bytes to its picture. `Arrive` brings bytes and
calls `still_step()`: nothing, until `First` finds enough of them; then `DecodePixels`
as far as they go, symbol by symbol (`FastSymbol` in bulk, `SlowSymbol` near the end,
`Suspended` at one that runs past it). `Peek` is `still_peek()`, which undoes the transforms
of the rows there are on a copy; `DecodeFrame` decodes what came whole, with `StartPipeline`,
`DecodePiece`, `TransformBand` and `JoinPipeline` when a thread helps. `Rewind` is the
walk going back to the still. `Abandoned` is what a failure leaves.

A pixel is a number below 5 and a transform a function of what the code reads:
left, above, above and right; the tile; the digits packed in a pixel. Where code
reads a pixel already transformed, or not yet, the number differs. The picture
meant (`RightOf`) is computed from the symbols in one pass, without batches or copies.

### AlphaPlane

`Begin` decides how the plane is decoded (raw, indexed colours, lossless, with green
alone or whole, in a pipeline or not) and does it but for the pipeline, where `DecodePiece`
and `HandOver` are the entropy thread's and `TransformBand` the other's, over
bands that come back; `HungUp` and `Panic` are the ends of a thread that failed, `Join` the caller's.
`AlphaRows` is `AlphaRows::rows()`: green predicted alone, and where it stops
being possible the row above put together again.

### StreamBits, PrefixCodes, LosslessHeader, LosslessRows

`StreamBits` is the two readers of lossless bits at the place they read from:
how many bits are loaded, how many bytes behind them, and what is shown next.
`FastOf`, `Resumed` and `LeaveFast` are the handover; `Grow` brings bytes. Only the values
of the bits are left out. How many extra bits a length and a distance take is told apart: a still that
stopped with its word used up goes on with half of it used, and a code with the 18 extra bits
of a distance would not fit in the rest, as one with the 10 of a length does.

`PrefixCodes` builds tables from code lengths and reads pixels through them,
`LengthsRight` through the run-length coded lengths too, against the canonical code
defined on the lengths. `LosslessHeader` computes what each transform's image and
the entropy image measure, and renumbers the groups that are used. `LosslessRows`
inverts the transforms a row, or two, at a time, on packed words and in place, against
one pixel after the other.

### SplitWork

`join()`, `for_each()`: chunks given to scoped threads, which may not start; pieces
that may panic; the caller's own chunk; the joining.

### BoolCoder, LossyHeader, Macroblocks, LossyTokens, LossyPixels

`BoolCoder` runs the wide coder, the token coder it becomes and the narrow coder side
by side over one partition, next to a reference that shifts bit by bit; each
step is one decision, and more data may arrive when the coders ran dry.

`LossyHeader` is the decoder a header is read into, whatever frame it decoded
before: `Call` is `frame_init()` with any part of the frame there, `NextFrame` another frame
or another decoder. What must not be stale is compared with a new decoder's. It
also lays out the planes (`PlanesRight`).

`Macroblocks` parses and reconstructs one macroblock after the other: `Parse`,
`OutOfData` (put back and asked again), `Reconstruct`. The flags and modes
of the neighbours are kept the way the code packs them; the contexts meant
are looked up in the frame. `LossyTokens` unrolls modes and coefficients as the code
does, against the format's trees. `LossyPixels` has predictors, transforms, loop
filters and the order of their edges, against definitions of another form.

### Canvas

`Show` is `decode_anmf()` and `anim_composite()` of one frame: key frame or not, regions
copied or blended, what is cleared, the form the canvas is stored in and its change
(`Reconciled`). A pixel is the stack of images seen through it; `shown` is the
canvas composed without regions or key frames. A chroma sample is a stack of its own, and
is compared only where one image alone is seen through its block.

### RowWindows, PartialRows, Rescale, Exports, Handle

`RowWindows` says, for each sampling, which luma and chroma rows a converted row is made of,
and cuts a conversion into bands and strips as `convert.rs` does. `PartialRows` EXTENDS it
with the still being shown while it arrives: `Arrive`, `Fail`, `Emit`, `Picture` and
`Partial` are the decoder and the two calls, `SetFormat` and `SetSink` the caller's
changes, two of them in the run, at any time of a still: to another format and back again.
A row is "final" or "early" by the rows its filter read.

`Rescale` is the rescaler of one plane, row in, row out, in fixed point, against the
weights of an exact average or interpolation. `Exports` sends a picture through crop,
scale, flip, conversion and premultiplication by the route `export_packed()` takes; a
pixel is an alpha and one colour. A frame shown on its own has no crop, scale or flip (`Accepted`):
`set_core_options()` and `set_animation_mode()` refuse the one with the other. `Handle` is the C API over addresses: what the caller
lent to be read and to be written, what the decoder owns, what frames name.

## 3. Runs

| Run | Question | Properties | Instance |
|---|---|---|---|
| `FramePoolSafe` | Is a frame in one place, a thread counted and joined, the budget kept, every wakeup delivered, and does the pool implement `FrameJobs`? | `TypeOK` `ThreadBudget` `LentForAFrameInProgress` `EachFrameInOnePlace` `ThreadsCounted` `NoLostWakeup` `NoThreadOutlivesThePool` `KeepsItsPromise` | thread options 2 and 3, up to three turns, three frames, four threads (so that a pool may be replaced); 367,840 states up to symmetry of the threads |
| `FramePoolLive` | Do calls return, are frames taken, do threads leave? | `CallsReturn` `FramesAreTaken` `ThreadsLeave` | option 2, three threads, three frames; 174,543 states |
| `AheadRuns` | Does decoding ahead show what decoding serially shows, keep slots and ring whole, use the pool by its rules, and return even if the pool's threads never run? | `RingInStep` `PoolUsedAsMeant` `Transparent` `PictureReturns` | five short files with every kind of chunk, two settings, options 1 to 3, rings of up to three; 202,440 states |
| `RelayRuns` | Order, wholeness, refusals, and the end of every wait | `InOrder` `WholeOnReturn` `TurnedAwayOnlyAtTheEnd` `CallsReturn` | three steps, three buffers, seven passes, one option that relays across threads and one that does not; 66,736 states |
| `RowsRelayed` | Do the schedules of three threads and of two decode the rows as one thread does? | `AsOnOneThread` | six rows over four buffers (`RELAY_ROWS`), every pair of rows to run dry at |
| `ResumeAnyCut` | Do the rows of a still come out the same wherever its bytes are cut, and after any other frame? | `ParsedInStep` `FilterFollows` `FinalRowsStay` `FailsIfDamaged` | twelve macroblocks in three columns, two partitions, each kind of filter, macroblocks that take no bytes, sound and damaged frames; coders that need three bytes to start; a second frame and a failed call; 190,967 states |
| `StreamCuts` | Is a file the same however it is cut into calls, and is what is dropped never needed? | `FileKept` `ShownAsWhole` `NothingSkipped` `SameVerdict` | sixteen files of one to five chunks, legal and not, every cut, appended, updated, opened or rewound; 79,994 states |
| `CodecsDecode` | Do the decoders' parts, lossless, alpha and lossy, give what their bits say? | `StillAsWhole` `AlphaRight` `ReadInOrder` `LosslessRight` `PiecesRunOnce` `CodersAgree` `MacroblocksRight` `LossyRight` | the constants and cases are in `MCCodecs`, those of `StreamBits` in the cfg; 280,007 states |
| `OutputRight` | Do rows, frames and pictures leave the library whole, final and in the form asked for? | `ValidRowsAreFinal` `CanvasAsComposed` `HandleSafe` `OutputRight` | in `MCOutput`; 209,423 states |
| `ResumeStale` | Does a sound frame decode after a damaged one of more partitions? It does not | `FailsIfDamaged` | four macroblocks; a violation is expected |
| `StreamConflict` | Is a still that conflicts with its canvas refused for good? It is not | `ConflictRefused` | one file; a violation is expected |
| `PartialShown` | Are the rows of a lossless still that failed called valid? They are | `ValidRowsAreFinal` | one still of eight rows; a violation is expected |

Why these bounds. The pool's conditions compare `running` with `Size` or `Beside`
and `waiting` with empty; three frames over two turns give a frame waiting, one
running and one finished at once, and a second run reuses the indices. `MaxJobs`,
`MaxSlots`, `MaxPass`, `MaxChunks`, `MaxReopened`, `MaxFailures`, `MaxRewinds`, `MaxErrors`,
`MaxRetries`, `MaxFrames`, `MaxDecisions`, `MaxChanges`, `MaxOwners`, `MaxScaled` and the length of the
files are the only bounds.
In `Ahead` a ring of three wraps in files of seven chunks and a run of two
inside a ring of three leaves a slot unused. A relay of three steps has one that
is neither first nor last, and seven passes over three buffers go twice round.
Six rows over four buffers make the producer wait for a buffer and finish the
row in it. In `ResumeAnyCut` three columns are a first, a middle and a last
macroblock, and four rows give each partition two and the filter's delay a row
with two above it; the second frame finds the decoder anywhere the first can leave it.
In `StreamCuts` the threshold for compacting is four units: the largest file is compacted
twice, with an alpha pending and without. The file whose image conflicts with its canvas is
below the threshold: with a lower one the walk of it reads a chunk that was let go of (see Findings),
where the model has no next state to give.

In `MCCodecs` the stills have more rows than two batches, symbols that end inside a row
and copies across rows, a cache filled and read, a palette that packs two pixels,
a broken code and an early end; the margins of the fast loop are smaller than the data. Streams of
3, 9, 28 and 32 bytes lie on both sides of a word and of the fast reader's margin. Alpha
planes have a row of another channel first, in the middle, late and twice, and bands
of one row, so that four are out at once. Partitions of up to four bytes are
loaded two at a time; the first probability is near 0 and the second beyond a half. A
frame of two by two macroblocks has a first and a last of everything, and the patterns leave out
blocks in each of the groups of four the transforms take together. Codes have up to seven
symbols of up to four bits over a root of two, so a link table may itself be partly filled. In
`LosslessRows` a channel has three bits: the formulas for words hold no constant but
the channel's width, and all pairs of channels are tried.

In `MCOutput` heights run over every remainder of the pairs the filters work in and of
bands and strips; the canvas is odd on both sides and frames lie at even and odd ends of it,
three of them so that one is composed over what two left. The addresses of `Handle` let input and
planes overlap, touch and miss, with strides up and down. Planes up to five by five are scaled to
up to five by five, which has every order of source and destination clocks. Fix is 16 bits
in `Rescale`, 32 in the code: what is checked is the clocks and the debts between rows, within
one level.

Symmetry is used only in `FramePoolSafe`, for threads, which no formula names. Deadlock is not
checked where a decoder or a caller may stop: a picture that is out, a stream that is at its end.

A run asks several questions of one graph of states where they share the instance; `CodecsDecode`
and `OutputRight` put unrelated small graphs side by side.

### The properties

Pool: `ThreadBudget` (frames in progress, the walk's own, and the threads it
composites with, never exceed the option while the walk works);
`LentForAFrameInProgress` (the turn is lent only while the walk waits, for a frame
in progress); `EachFrameInOnePlace`; `ThreadsCounted` (the count is what is
alive, through failing spawns and exits); `NoLostWakeup` (if there is a frame
and a turn for it, enough threads are awake or about to be woken; that the walk wakes is `CallsReturn`'s);
`NoThreadOutlivesThePool`; `KeepsItsPromise` (it implements `FrameJobs`);
`CallsReturn`; `FramesAreTaken`; `ThreadsLeave`.

`ThreadsLeave` rests on how the pool is used: the walk collects in order, `clear()`
always ends what it drained, and a run starts only after the one before was
ended or collected. `PoolUsedAsMeant` checks those assumptions of the caller's.

Run: `RingInStep` (no slot is left a stand-in unless its frame is out; entry and slot j of the
run are at j modulo the ring, hold the chunk the walk will reach, and none is reused while
out); `PoolUsedAsMeant`; `Transparent`; `PictureReturns`.

Relay: `InOrder` (each step sees 1, 2, 3, ... and the buffers come back in that
order); `WholeOnReturn` (on return, every step up to the first that refused has
seen everything that reached it); `TurnedAwayOnlyAtTheEnd` (a pass or a take is
refused only after a step said no or panicked); `CallsReturn`.

Rows: `AsOnOneThread` (the schedule implements `RowsInOrder`, which includes that
it returns).

Rows of a file still arriving: `ParsedInStep` (each macroblock was parsed from
where a decoder with all the data parses it, whatever was undone and parsed again
before, and none that is kept from beyond its window); `FilterFollows` (prediction reads
unfiltered pixels, and a picture that comes back was filtered everywhere,
with each macroblock's own strength); `FinalRowsStay` (no row that
was called final is written again, nor any it is interpolated from); `FailsIfDamaged` (a frame that
is all there fails just when it is damaged). Until a call fails, that is, but for `FailsIfDamaged` and
for finished frames.

Stream: `FileKept` (each unit in its place in the window, nothing past the end the header declares
buffered, nothing before it lost; the walk's place, a pending alpha and the scan's place are
in the window, the walk's unless the image conflicts with its canvas; metadata is copied before it goes, once); `ShownAsWhole` (pictures, their alpha and the
refused alphas are a prefix of those of one walk over the whole file); `NothingSkipped` (and all of
them when the walk ends; both, again, unless the image conflicts with its canvas); `SameVerdict` (a file is accepted at its end just when it is legal and
complete, `open()` and a stream alike, but for an animation declared behind a still); `ConflictRefused`. The whole file's meaning
(`Whole`, `Legal`) is defined on its chunks alone, without window, scan or walk.

Codecs: `StillAsWhole` (a still that is done is the picture the file holds, one that failed holds
none, rows a look was given are final, a picture given up has its rows its width apart);
`AlphaRight` (the plane is what its chunk holds, a frame fails just when it is damaged, and a
decoder that waits for a band gets one); `ReadInOrder` (the bits shown follow those read last,
nothing is looked up with bits that are not there, a reader stops only before what it has not
got, and a picture called done lies within its bytes); `LosslessRight`; `PiecesRunOnce`; `CodersAgree` (the coders decide alike and run dry at
the same decision); `MacroblocksRight` (contexts are the neighbours', each coefficient is added
once, inner edges are filtered where the format says); `LossyRight` (a header leaves the decoder
as it would a new one, is waited for only while more can come, its partitions tile the
frame, quantizers and strengths are in range; trees, tokens, pixels, planes).

Output: `ValidRowsAreFinal` (a row called valid is what it will be in the whole picture);
`CanvasAsComposed`; `HandleSafe` (an owner is alive just while its frame names it and released
once; no byte of the input in use is written, nor any the caller did not lend; rows called valid were
written to the planes); `OutputRight` (rows are converted from the rows their filter names, each once,
scaled as the whole plane would be, exported with their alpha multiplied in once).

### Fairness

Weak fairness of each thread, that is of the steps it takes alone: an operating
system runs a thread that can run, and a mutex held for a bounded time is given
up. The walk gets weak fairness of the steps inside a call, never of making one:
the program need not ask for another picture, and need not make the step that
ends a frame's decoding wait for a caller. `SpuriousWakeup` has no fairness.
`AheadRuns` gives the pool's threads none, since the walk decodes a frame nobody
took itself. In `Relay` a step's own work is taken to end. That `produce` ends is the
producer's affair: `CallsReturn` speaks of `take`, the spawns and the joining. The parts of
`CodecsDecode` and `OutputRight` are checked for safety; that a wait of the alpha decoder ends is
stated as `WaitEnds`, of the states it waits in.

### Findings

A finished frame fails if any coder has overrun (`vp8/mod.rs:1602-1605` and
1787-1789), but only those of its own partitions were started again, so a sound
frame with fewer partitions than a damaged one before it is refused
(`ResumeStale`). `driver/anim.rs:404-405` says that the images of frames "depend on nothing but their
own bytes", which `Ahead` takes for granted and which holds but for this.

`Scan::headers()` counts a still before it compares its size with the canvas
(`container.rs:660`), and the count outlives the refusal: the next scan, of another `append()` or of
`end_of_stream()`, compares nothing and accepts the file (`StreamConflict`, against the
comment at 277). The walk then starts at offset 12 again (`driver/mod.rs:526-529`), where
an appended stream may have been compacted: `next_picture()` asks the window for a chunk header there and
gets an empty slice. The proof of `FileKept` found this, where it needed a refusal to be for
good; `NeededKept`, `ShownAsWhole` and `NothingSkipped` except such a file by name (`Conflicts`), and so do
the theorems about it.

A lossless still that fails while it arrives is abandoned, but stays the decoder's still; the next
`partial_picture()` takes it for one that is done and calls every row valid (`driver/mod.rs:1211`,
against `api.rs:456-457`; `PartialShown`).

Met while modelling, kept out of the runs by a condition that names it:

* `Relay::pass` (`task.rs:164-166`) is documented: "False once a step has said it wants no more
  ...; the steps never see the buffer then, and it is not given back." On one thread the pass in which a
  step says no returns false although that step and those before it saw the buffer, and it goes back
  to the idle queue (`task.rs:173-177`). No caller depends on it.
* `converted_rows` taken for rows of another format, twice (`Miscounted` of `PartialRows`, which shows
  both with `Switches = TRUE`; the run has it FALSE and makes every other change of format).
  A lossy still asked for in a packed format after a planar one: `export_still_packed()` takes the planar
  rows for its own (`driver/export.rs:381-383`) and counts rows whose chroma is not final.
  A lossless still peeked at in one format and handed out in another: `export_complete_still_lossless()`
  counts all rows (`driver/mod.rs:379`) and leaves `converted_format`, so that `partial_picture()` in the first
  format again calls every row valid and converts none of them.
* `1 / x_add` in 32 bits of fraction is 0 for `x_add = 1`: `ScaleIsLost` of `Rescale`.
* Where the first byte of a partition is 255 the narrow coder differs from the wide ones, which carry
  what is past the range: `Excess` of `BoolCoder`. No encoder writes one.
* A still whose `VP8X` chunk comes after it and declares an animation that has no `ANIM` chunk is refused by
  `open()`, since `Scan::headers()` asks for one only where the whole file is given at once (`container.rs:697-706`), and
  accepted by `end_of_stream()`. `SameVerdict` names it: `DeclaredLate`.
* The docs say that no rows are valid of an output that is cropped, scaled or flipped;
  `partial_picture()` says all are once all are decoded, which is the more useful.

## 4. Proofs

What follows is proved for every value of the constants that the named assumptions
allow. TLC has checked each inductive invariant on the instances of section 3.

`FramePoolProofs`: `Spec => []Inv` for any number of threads, slots and frames
and any thread options, and from it `TypeOK`, `ThreadBudget`,
`LentForAFrameInProgress`, `EachFrameInOnePlace` and `NoThreadOutlivesThePool`.
None of them is inductive alone: the budget needs that `running` counts the
decoding threads and that a lent turn is given back where `AfterRun` says; that
needs every frame to be in one place; and the joining needs the start of a
thread to be counted before it runs. Cardinalities come from the lemmas on
finite sets of the library.

Its second section adds `ThreadsCounted` and `NoLostWakeup`. `Counted` is about the sets of threads
that are alive, and follows from `Inv`. The wakeups need `AwakeEnough`: while a thread sleeps, those awake or starting are at least as
many as could be of use (`Useful`: the lesser of the frames waiting and the turns free), but for one that a `submit` of
one frame owes until its `notify_one`, and but for a batch until its `notify_all`. A step
is shown to lower both sides by the same amount.

Its third section: every step of `FramePool` is a step of `FrameJobs` or none, under the mapping that
reads a frame's status off the queue (`KeepsItsPromise`). It needs of `Inv` that a frame is in one place,
so that a status that changes changes for the frame the action names and for no other.

`AheadProofs`: the ring and its walk, for any files, settings, thread options and ring.
`Window` keeps the frames in use no more than the ring has places, so no two share one;
`InStep` says that the entry of each frame of the run names the chunk the walk will come to, and is
pending just while the pool has the frame; `Carried` and `InHand` that jobs and the frame being taken are of that
chunk under the run's settings. From them follow `RingInStep`, `PoolUsedAsMeant` (so `FrameJobs` may stand for the pool), and `Transparent`: each call shows what
`SerialWalk` shows, since what is taken from the ring is the chunk at the walk's position under
the settings the call found.

`RowRelayProofs`, of the relay: `TypeOK`, `InOrder` and `WholeOnReturn` of `Relay`, for
any number of steps, buffers and passes. The argument numbers the passes: a
channel holds exactly the run of numbers from what its reader has entered to
what its writer has ended, in order. `Inv` is the conjunction of that (`Flow`),
where a buffer in a hand is (`Hands`), which ends are open (`Ends`), how `passed`
relates to the first channel (`Passes`), what is not yet so while spawning
(`Unproduced`), the caller's stages (`Stages`), and why a thread has left (`Left`): it
said no, it panicked, the next one was gone, or all there was had come. `Left` is
what makes the relay whole when it returns, and needs the others to be kept. The action property
`TurnedAwayOnlyAtTheEnd` needs two more facts: that while `take` waits the producer does not hold
every buffer, or was turned away (`MayAsk`), and that no sender goes before the caller's own unless a step
said no or panicked (`EndsInTurn`).

And of the frame on top of it: every step of `RowRelay` maps to a step of `RowsInOrder` or none, for each of the
schedules and any rows to run dry at (`RowsAsOnOneThread`). The invariant joins the relay's to the program's state: no step
panics (`Calm`), what the buffers in the channels say of their rows (`Passing`, `Passed`), how far each step's own
row counter is (`Parsing`, `Rebuilding`), and what the caller returns (`Outcome`). `AsOnOneThread`, which TLC
checks, also says that it returns.

`RowResumeProofs`: a still of any size, partitions, filter and bytes per macroblock, cut anywhere, after any number of
other frames. `RowInv` says where the frame stands (`Placed`), what a new frame finds (`Fresh`), which
partitions are opened and which end where the data does (`Windows`), and then tells everything
from the macroblock the frame has come to: the coders' places and the contexts of its neighbours
(`InStep`, which is what restoring a `ResumeState` has to bring back), which pixels are filtered and with whose
strength (`Behind`), and which coder has run dry (`Dry`). `ParsedInStep`, `FilterFollows` and
`FinalRowsStay` follow. `FailsIfDamaged` is proved under `Clear`: the frame is the decoder's first,
or all files have the same number of partitions. Without that it is false, as `ResumeStale` shows and
section 3 says. `DoneIsWhole` needs no such condition: a frame that is called decoded is not damaged.

`StreamProofs`: any file, threshold for compacting and way to cut the file into calls. `StreamInv` says that the
window starts no later than the walk stands, the walk no later than the scan, and the scan no
later than what was given (`Window`, `Ordered`, `Scanning`); that what the scan has found is what the
chunks before its place are (`Found`, `FoundMeta`); which metadata is copied, and that the rest is
still in the window (`Copied`); and where an alpha in waiting is (`Alphas`). The order would not last by itself,
because `rescan_headers()` puts the walk back to the first chunk when headers that were refused are accepted.
So the invariant needs `ForGood`: a refusal leaves the scan at a chunk it will refuse whatever comes after it.
That is false of an image that conflicts with its canvas, which is refused once; hence `~Conflicts` in
`Invariance` and `FileIsKept`.

Two more invariants stand on `StreamInv`. `VerdictInv` (`ScanIsSound`) says that what the scan has found is all there
was before its place, in an order that makes a picture (`Sound`), and that only a file that is not all there stops it
short (`Short`): so a chunk it refuses makes the file illegal, and a scan that has been through the file
decides as `Legal` does (`VerdictIsSame`). `PictureInv` (`ShownSoFar`) says that what is shown is what the
chunks behind the walk mean, the walk standing before the image with that image's own alpha in waiting (`Fresh`), with it
decoded and not out (`Readied`), or behind it (`Finished`). It needs that the walk's end is the file's
(`EndRight`) and, so that nothing is shown when the walk begins, that headers once refused are not accepted later (`Lasting`, which says
of every way of arriving what `ForGood` says of one). `ShownIsWhole` and `NothingIsSkipped` follow: `Whole` is what its chunks come to one by
one (`WholeIs`), and the first of them come to a prefix of it (`UptoFirst`).

Inductions over the chunks of a file are by `NoDescent`, about a set of numbers, since one over an
operator is out of reach.

`SplitWorkProofs`: any number of items and threads, any of which may not start or may panic, under `CallsMeant`
(`join()` has two halves, and what panics is one of the items). `WorkInv` says that an item is in a chunk not begun,
in a thread's chunk or in the caller's own, once and in one of them, until it is run, and then in none (`EachOnce`,
`Apart`, `Accounted`), that only a panic drops what is left, and where the two halves of a `join()` may be when no thread is
beside it (`InTurn`). It starts from `CutOnce`: `chunks_mut(per)` puts every item into exactly one
chunk. `PiecesRunOnce` follows. `PiecesFit` is about `pieces()`: where it splits, no piece is below the minimum and no more
are cut than there are threads.

`StreamBitsProofs`: streams of any size, a still that arrives in any pieces, and any symbols within the lengths the format
allows (`BitsAssumption`). Both readers are followed by one number, the bits read so far. `BitsInv` says that a
`BitReader` shows the bit of that number or was asked for more than there is (`HeldAt`), how much of its word
may be used when a symbol begins (`Used`: all of it only in a still that stopped), and that a `Fast` has the bits of the
longest code and a pixel's margin behind it (`Ready`). Each symbol is then a chain of reads that
fit in the word (`LiteralTaken`, `CopyTaken`) or in `Fast`'s between two refills (`FastLiteralReady`, `FastCopyReady`),
and `FAST_MARGIN` is what two refills and the hand over need. `ReadInOrder` follows.

`HandleProofs`: any inputs, planes and images a caller may lend, under `LentMemory` (addresses and lengths are numbers, a row
has at least one byte and an image one row), whatever the calls and whatever they fail at. `HandleInv` ties the decoder's
state to the caller's memory: the rows counted as converted are in the planes unless those are too small for good
(`InPlanes`), an owner is alive just while the frame names it (`Owned`), and what the last call wrote is in
the planes lent (`Inside`) and off the input (`Apart`). What keeps it is
`RowsLie`: the rows of a plane that passed the code's checks lie within its extent, for a stride of
either sign, and the extent within what was lent.

Two of the models were restated for the prover with the same meaning: `ToCome` of `FramePool` is a set and not
a filtered sequence, and definitions by `CASE` whose guards overlapped are by `IF`.

What stays with TLC, and why:

* Everything temporal beyond safety: `CallsReturn`, `FramesAreTaken`, `ThreadsLeave`, `PictureReturns`, and that
  relayed rows return. Liveness and ENABLED are out of the prover's reach.
* What `LossyHeader`, `LossyPixels`, `LossyTokens` and `Macroblocks` compute (RECURSIVE operators), `LosslessRows` (bit
  operations), and the cases of `BoolCoder`, `PrefixCodes`, `LosslessHeader` and `Rescale`:
  what a recursion over data computes needs an induction the provers cannot instantiate.
* `PartialRows`, `Canvas`, `LosslessStill` and `AlphaPlane`: not yet attempted.
  Section 6 says what of them would be worth it.

## 5. What is abstracted, and what is not modelled

* In the modules of threads and of streams an image is its chunk and settings, a row
  its number: what a decoder makes of bytes is the subject of the modules under `MCCodecs`.
  That the two meet is taken from the code: `RowResume` names where a macroblock is parsed from
  and `Macroblocks` in what context; `LosslessStill` takes a symbol, `StreamBits` and `PrefixCodes`
  read one.
* Sizes in bytes: the memory budget (`ahead_share`) and failed allocations of a
  payload are choices the model makes freely.
* The thread option: `FramePool`'s `budget` is the option the pool was made for.
  `take_ahead()` clears a run started under another option before anything is
  composited, which is `Ahead`'s to show.
* Panics inside a frame are carried as its outcome; that `collect()` raises them
  again on the walk is not in `Ahead`. Steps of `RowRelay` do not panic (those of
  `Relay` may). The producer of `Relay` does not panic either.
* The contents of a slot that goes back to the ring are forgotten; a slot that
  holds stale pixels is one that will be written before it is read.
* A step's send and its leaving after a refusal are two steps, as in the code.
* `RowResume` leaves out the bytes of the frame header and the decoding of an alpha
  plane at the frame's start, either of which may fail the call. A call that fails on a
  chunk still arriving starts over at the failed call's first row when it is
  made again, and writes rows it had called final: hence the condition `failures = 0`.
* `Stream` has stills and animations in a RIFF container, lossy, whose bitstreams
  decode. Not the size limit, a metadata copy that runs out of memory, the capacity of the
  window's buffer (an append may fail at any time), bitstreams without a container nor the
  entries `frame_entry()` returns.
* `Macroblocks` keeps of a block its first coefficient and whether there are others; a
  coefficient times a quantizer, which wraps at 16 bits, is not computed.
* `LossyHeader` keeps one column of the token probabilities, for each of the eight bands.
* `Canvas` has no colour: that of a chroma sample blended from several images depends on
  averages the format does not define exactly. Which threads composite which rows is not in it.
* `RowWindows` names rows; the weights, the matrix and the columns of `dsp/yuv.rs` are not modelled, nor the
  horizontal half of the interpolation.
* `Exports` has one colour and whole columns; `Rescale` one plane.
* `Handle` has one plane and one still. Threads of the caller's that share a handle are excluded by its docs.

Not modelled: `log.rs`, whose held messages have no effect on pictures; the wrappers in `api.rs`, `handout.rs`,
`options.rs`, `error.rs` and the rest of the C API, which marshal arguments; assembly, which `tests/checkasm`
compares with the scalar kernels that are modelled here; tools, fuzzers and tests.

## 6. Plan

1. Theorems: of `PartialRows`, which
   rows are final; of `LosslessStill`, that a still comes out as the whole file would; of `Canvas`, that the canvas is as
   composed, region by region.
2. `Stream` further: a failing metadata copy, the entries of frames
   (`anmf`, `anmf_alpha`), images that do not decode, bitstreams without a container.
3. The weights of the chroma interpolation, and the colour conversions' fixed point.
