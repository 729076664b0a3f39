---------------------------- MODULE StreamProofs ----------------------------
(***************************************************************************)
(* A file that arrives in pieces is kept as long as it is needed, proved   *)
(* for every set of files, every threshold for compacting and however the  *)
(* file is cut into calls.                                                 *)
(*                                                                         *)
(* The window starts no later than the walk stands, the walk stands no     *)
(* later than the scan, and the scan no later than what has been given.    *)
(* The order of the first two is what append() relies on when it lets go   *)
(* of what the walk has passed, and would not last if the walk went back   *)
(* to the first chunk.  It does so when headers that were refused are      *)
(* accepted, so that a refusal has to be for good: the chunk it is for     *)
(* stays refused, whatever comes after it.  Only an image that conflicts   *)
(* with its canvas is refused once.                                        *)
(*                                                                         *)
(* What is made of the file follows, in two further invariants on top of   *)
(* that one.  The scan is sound: what it has found is all there was before *)
(* its place, in an order that makes a picture, and only a file that is    *)
(* not all there stops it short.  And what is shown is what the chunks     *)
(* behind the walk mean: no image yet, with the alpha in waiting its own;  *)
(* an image decoded and not yet out; or one that is out.                   *)
(***************************************************************************)
EXTENDS Stream, FiniteSetTheorems, SequenceTheorems, TLAPS

-----------------------------------------------------------------------------
(* The inductive invariant.                                                *)

Count  == Len(file.chunks)
Starts == {Start[i] : i \in 1..Count + 1}
Given  == Least(fed, RiffEnd)

AlphaType == [pending : BOOLEAN, has : BOOLEAN, at : Nat]

ScanTyped ==
    /\ scan = [pos |-> scan.pos, end |-> scan.end, truncated |-> scan.truncated,
               vp8x |-> scan.vp8x, sized |-> scan.sized, still |-> scan.still,
               anim |-> scan.anim, frames |-> scan.frames, images |-> scan.images,
               meta |-> scan.meta]
    /\ scan.meta = [k \in DOMAIN scan.meta |-> scan.meta[k]]

Typed == TypeOK /\ ScanTyped /\ alpha \in AlphaType

\* Which calls may have been made.
Calls ==
    /\ via = "none" => ~streaming /\ inputMode = "untouched" /\ fed = 0
    /\ via = "open" => ~streaming
    /\ via = "update" => inputMode = "update"
    /\ inputMode # "untouched" => streaming
    /\ inputMode = "append" => via \in {"stream", "append", "eos"}
    /\ streaming /\ inputMode = "untouched" => fed = 0
    /\ call \in {"walk", "emit"} => headersValid /\ size > 0

Window ==
    /\ buf = Units(discarded, size) /\ discarded <= size
    /\ inputMode = "append" => size = Given
    /\ inputMode # "append" => discarded = 0 /\ size \in {0, fed}

Ordered ==
    /\ pos \in {0} \cup Starts /\ scan.pos \in {0} \cup Starts
    /\ discarded <= pos /\ pos <= scan.pos /\ scan.pos <= Given
    /\ headersValid => pos > 0
    /\ end <= Given /\ scan.end <= Given
    /\ \A i \in Chunk : Start[i + 1] <= end => Start[i + 1] <= scan.pos

InHeaders == call \in {"chunks", "refuse", "scanned"}

Scanning ==
    /\ InHeaders => /\ scan.end = Least(RiffEnd, size) /\ scan.pos > 0
                    /\ ~scan.truncated => RiffEnd <= size
    /\ call = "scanned" => \A i \in Chunk : Start[i + 1] <= scan.end => Start[i + 1] <= scan.pos

\* What the scan has found is what the chunks before its place are.
Found ==
    /\ scan.vp8x # 0 => scan.vp8x \in Tagged("VP8X") /\ Start[scan.vp8x + 1] <= scan.pos
    /\ scan.images = 0 => \A i \in Tagged("VP8") : scan.pos < Start[i + 1]
    /\ scan.pos > RiffHeader =>
           /\ scan.sized /\ file.chunks[1].tag \in {"VP8X", "VP8"}
           /\ file.chunks[1].tag = "VP8X" => scan.vp8x = 1
           /\ file.chunks[1].tag = "VP8" => scan.still
    /\ file.chunks[1].tag = "VP8" => ~scan.anim
    /\ animation => scan.anim

FoundMeta ==
    /\ \A i \in Tagged("META") :
           Start[i + 1] <= scan.pos => file.chunks[i].which \in DOMAIN scan.meta
    /\ \A k \in DOMAIN scan.meta :
           \E i \in FirstMeta(k, scan.pos) : scan.meta[k] = Start[i] + 1

\* What of it is copied, and what can still be.
Copied ==
    /\ DOMAIN meta \subseteq DOMAIN scan.meta
    /\ ~InHeaders => DOMAIN meta = DOMAIN scan.meta
    /\ \A i \in Tagged("META") : LET k == file.chunks[i].which IN
           k \in DOMAIN scan.meta /\ scan.meta[k] = Start[i] + 1 =>
               IF k \in DOMAIN meta THEN meta[k] = Units(Start[i] + 1, Start[i + 1])
               ELSE discarded <= Start[i] /\ Start[i + 1] <= size

\* The scan stands at a chunk it refuses, and will whatever comes.
Halted ==
    \E i \in Chunk : LET c == file.chunks[i] IN
        /\ scan.pos = Start[i] /\ Start[i] < Given /\ Refused(c)
        /\ \/ Start[i + 1] <= Given
           \/ ~FirstChunk(c)
           \/ c.tag = "VP8" /\ scan.images = 0 /\ AnimDeclared

\* Headers that were accepted and then were not are so no more.
ForGood ==
    inputMode = "append" =>
        /\ call = "refuse" => Halted
        /\ ~headersValid /\ pos # 0 => Halted /\ call # "scanned"

\* An alpha in waiting is in the window.  It is that of an image behind a
\* canvas, so that whether it is allowed was decided before.
Alphas ==
    /\ alpha.pending /\ alpha.has => discarded <= alpha.at
    /\ alpha.has => file.chunks[1].tag = "VP8X" /\ file.chunks[1].alpha
    /\ file.chunks[1].tag = "VP8" /\ pos > RiffHeader => stillReady \/ stillDone
    /\ call = "walk" /\ stillReady => stillDone

StreamInv ==
    /\ Typed /\ Calls /\ Window /\ Ordered /\ Scanning
    /\ Found /\ FoundMeta /\ Copied /\ ForGood /\ Alphas

-----------------------------------------------------------------------------
(* Induction over the numbers.                                             *)

\* Induction, without an operator for what is proved: a set of numbers that
\* holds, of each of its members, the one before is empty.
LEMMA NoDescent ==
    ASSUME NEW T, T \subseteq Nat, \A n \in T : n > 0 /\ n - 1 \in T
    PROVE  T = {}
<1> SUFFICES ASSUME NEW m \in T PROVE FALSE
  OBVIOUS
<1> DEFINE S == T \cap 0..m
           R == S \ {m}
           f == [n \in S |-> n - 1]
<1>1. m \in Nat /\ m \in S
  OBVIOUS
<1>2. IsFiniteSet(0..m)
  BY <1>1, FS_Interval
<1>3. IsFiniteSet(S)
  BY <1>2, FS_Intersection
<1>4. IsFiniteSet(R) /\ Cardinality(R) = Cardinality(S) - 1
  BY <1>1, <1>3, FS_RemoveElement
<1>5. Cardinality(R) < Cardinality(S)
  BY <1>3, <1>4, FS_CardinalityType
<1>6. f \in [S -> R]
  <2> SUFFICES ASSUME NEW n \in S PROVE n - 1 \in R
    OBVIOUS
  <2>1. n \in Nat /\ n <= m /\ n - 1 \in T /\ n > 0
    BY <1>1
  <2> QED  BY <1>1, <2>1
<1>7. \E x, y \in S : x # y /\ f[x] = f[y]
  <2> HIDE DEF S, R, f
  <2> QED  BY <1>3, <1>4, <1>5, <1>6, FS_PigeonHole
<1>8. \A x, y \in S : f[x] = f[y] => x = y
  <2> SUFFICES ASSUME NEW x \in S, NEW y \in S, x - 1 = y - 1 PROVE x = y
    OBVIOUS
  <2>1. x \in Nat /\ y \in Nat
    OBVIOUS
  <2> QED  BY <2>1
<1> QED  BY <1>7, <1>8

-----------------------------------------------------------------------------
(* Where the chunks are.                                                   *)

LEMMA FileFacts ==
    ASSUME file \in Files
    PROVE  /\ Count \in Nat /\ Count >= 1 /\ Chunk = 1..Count
           /\ \A i \in Chunk : LET c == file.chunks[i] IN
                 /\ c.len \in Nat /\ c.tag \in Tags
                 /\ c.tag = "ALPH" => c.len > 0
                 /\ c.tag = "VP8" => c.need \in 1..c.len
                 /\ c.tag = "META" => c.len > 0
           /\ file.missing \in Nat /\ file.missing <= file.chunks[Count].len
<1>1. /\ file.chunks \in Seq(Range(file.chunks)) /\ file.chunks # <<>>
      /\ file.missing \in 0..file.chunks[Count].len
  BY FilesAssumption DEF Count
<1>0. ASSUME NEW i \in DOMAIN file.chunks
      PROVE  /\ file.chunks[i].tag \in Tags /\ file.chunks[i].len \in Nat
             /\ file.chunks[i].tag = "ALPH" => file.chunks[i].len > 0
             /\ file.chunks[i].tag = "VP8" => file.chunks[i].need \in 1..file.chunks[i].len
             /\ file.chunks[i].tag = "META" => file.chunks[i].len > 0
  BY FilesAssumption
<1>2. Len(file.chunks) \in Nat /\ DOMAIN file.chunks = 1..Len(file.chunks)
      /\ Len(file.chunks) # 0
  BY <1>1, EmptySeq
<1>3. Count \in Nat /\ Count >= 1 /\ Chunk = 1..Count
  BY <1>2 DEF Count, Chunk
<1>4. file.chunks[Count].len \in Nat
  BY <1>0, <1>3 DEF Chunk
<1>5. file.missing \in Nat /\ file.missing <= file.chunks[Count].len
  BY <1>1, <1>4
<1> QED  BY <1>0, <1>3, <1>5 DEF Chunk

\* f is where the first n chunks of c start.
Places(f, n, c) ==
    f = [i \in 1..n |-> IF i = 1 THEN RiffHeader ELSE f[i - 1] + 1 + c[i - 1].len]

LEMMA PlacesExist ==
    ASSUME NEW c, NEW n \in Nat
    PROVE  \E f : Places(f, n, c)
<1> DEFINE T == {m \in 0..n : ~\E f : Places(f, m, c)}
<1> SUFFICES T = {}
  OBVIOUS
<1>1. \E f : Places(f, 0, c)
  <2>1. Places([i \in 1..0 |-> 0], 0, c)
    BY DEF Places
  <2> QED  BY <2>1
<1>2. ASSUME NEW m \in 1..n, NEW f, Places(f, m - 1, c)
      PROVE  \E g : Places(g, m, c)
  <2> DEFINE g == [i \in 1..m |-> IF i = m THEN IF m = 1 THEN RiffHeader
                                               ELSE f[m - 1] + 1 + c[m - 1].len
                                  ELSE f[i]]
  <2>1. \A i \in 1..m - 1 : f[i] = IF i = 1 THEN RiffHeader ELSE f[i - 1] + 1 + c[i - 1].len
    BY <1>2 DEF Places
  <2>2. \A i \in 1..m : g[i] = IF i = 1 THEN RiffHeader ELSE g[i - 1] + 1 + c[i - 1].len
    <3> SUFFICES ASSUME NEW i \in 1..m
                 PROVE  g[i] = IF i = 1 THEN RiffHeader ELSE g[i - 1] + 1 + c[i - 1].len
      OBVIOUS
    <3>1. CASE i = 1
      <4>1. i = m \/ i \in 1..m - 1
        BY <3>1
      <4> QED  BY <2>1, <3>1, <4>1
    <3>2. CASE i # 1
      <4>1. i - 1 \in 1..m - 1 /\ i - 1 \in 1..m /\ i - 1 # m /\ (i = m \/ i \in 1..m - 1)
        BY <3>2
      <4> QED  BY <2>1, <3>2, <4>1
    <3> QED  BY <3>1, <3>2
  <2>3. g = [i \in 1..m |-> g[i]]
    OBVIOUS
  <2> HIDE DEF g
  <2>4. Places(g, m, c)
    BY <2>2, <2>3 DEF Places
  <2> QED  BY <2>4
<1>3. ASSUME NEW m \in T PROVE m > 0 /\ m - 1 \in T
  <2>1. m # 0
    BY <1>1, <1>3
  <2>2. m \in 1..n /\ m - 1 \in 0..n
    BY <2>1
  <2>3. ~\E f : Places(f, m - 1, c)
    BY <1>2, <1>3, <2>2
  <2> QED  BY <2>2, <2>3
<1>4. T \subseteq Nat
  OBVIOUS
<1> HIDE DEF T
<1> QED  BY <1>3, <1>4, NoDescent

\* A chunk starts where the one before it ends.
LEMMA StartIs ==
    ASSUME file \in Files
    PROVE  /\ Start[1] = RiffHeader
           /\ \A i \in Chunk : Start[i + 1] = Start[i] + 1 + file.chunks[i].len
<1>1. Count \in Nat /\ Chunk = 1..Count
  BY FileFacts
<1>2. \E f : Places(f, Count + 1, file.chunks)
  BY <1>1, PlacesExist
<1>3. \E f : f = [i \in 1..Count + 1 |->
                     IF i = 1 THEN RiffHeader ELSE f[i - 1] + 1 + file.chunks[i - 1].len]
  BY <1>2 DEF Places
<1>4. Start = [i \in 1..Count + 1 |->
                 IF i = 1 THEN RiffHeader ELSE Start[i - 1] + 1 + file.chunks[i - 1].len]
  BY <1>3 DEF Start, Count
<1>5. 1 \in 1..Count + 1
  BY <1>1
<1>6. ASSUME NEW i \in Chunk PROVE Start[i + 1] = Start[i] + 1 + file.chunks[i].len
  <2>1. i + 1 \in 1..Count + 1 /\ i + 1 # 1 /\ (i + 1) - 1 = i
    BY <1>1
  <2> HIDE DEF Start
  <2> QED  BY <1>4, <2>1
<1> HIDE DEF Start
<1> QED  BY <1>4, <1>5, <1>6

\* So the places of chunks are in the order of the chunks.
LEMMA StartsInOrder ==
    ASSUME file \in Files
    PROVE  /\ \A i \in 1..Count + 1 : Start[i] \in Nat /\ Start[i] >= RiffHeader
           /\ \A i \in Chunk, j \in 1..Count + 1 : i < j => Start[i + 1] <= Start[j]
<1> USE DEF RiffHeader
<1>1. Count \in Nat /\ Chunk = 1..Count /\ \A i \in Chunk : file.chunks[i].len \in Nat
  BY FileFacts
<1>2. \A i \in 1..Count + 1 : Start[i] \in Nat /\ Start[i] >= RiffHeader
  <2> DEFINE T == {i \in 1..Count + 1 : ~(Start[i] \in Nat /\ Start[i] >= RiffHeader)}
  <2>1. ASSUME NEW i \in T PROVE i > 0 /\ i - 1 \in T
    <3>1. i # 1 /\ i \in 1..Count + 1
      BY StartIs
    <3>2. i - 1 \in Chunk /\ i - 1 \in 1..Count + 1 /\ (i - 1) + 1 = i
      BY <1>1, <3>1
    <3>3. Start[i] = Start[i - 1] + 1 + file.chunks[i - 1].len /\ file.chunks[i - 1].len \in Nat
      BY <1>1, <3>2, StartIs
    <3>4. ~(Start[i - 1] \in Nat /\ Start[i - 1] >= RiffHeader)
      BY <3>3
    <3> QED  BY <3>2, <3>4
  <2>2. T \subseteq Nat
    BY <1>1
  <2> HIDE DEF T
  <2>3. T = {}
    BY <2>1, <2>2, NoDescent
  <2> QED  BY <2>3 DEF T
<1>3. ASSUME NEW i \in Chunk PROVE \A j \in 1..Count + 1 : i < j => Start[i + 1] <= Start[j]
  <2> DEFINE T == {j \in 1..Count + 1 : i < j /\ ~(Start[i + 1] <= Start[j])}
  <2>1. ASSUME NEW j \in T PROVE j > 0 /\ j - 1 \in T
    <3>1. j \in 1..Count + 1 /\ i < j /\ j # i + 1 /\ i \in 1..Count
      <4>1. j = i + 1 => Start[i + 1] <= Start[j]
        BY <1>2
      <4> QED  BY <1>1, <4>1
    <3>2. j - 1 \in Chunk /\ j - 1 \in 1..Count + 1 /\ (j - 1) + 1 = j /\ i < j - 1
          /\ i + 1 \in 1..Count + 1
      BY <1>1, <3>1
    <3>3. Start[j] = Start[j - 1] + 1 + file.chunks[j - 1].len /\ file.chunks[j - 1].len \in Nat
      BY <1>1, <3>2, StartIs
    <3>4. Start[j - 1] \in Nat /\ Start[i + 1] \in Nat /\ Start[j] \in Nat
      BY <1>2, <3>1, <3>2
    <3>5. ~(Start[i + 1] <= Start[j - 1])
      BY <3>3, <3>4
    <3> QED  BY <3>2, <3>5
  <2>2. T \subseteq Nat
    BY <1>1
  <2> HIDE DEF T
  <2>3. T = {}
    BY <2>1, <2>2, NoDescent
  <2> QED  BY <2>3 DEF T
<1> QED  BY <1>2, <1>3
LEMMA StartsApart ==
    ASSUME file \in Files, NEW i \in 1..Count + 1, NEW j \in 1..Count + 1
    PROVE  /\ Start[i] \in Nat /\ Start[j] \in Nat
           /\ i < j <=> Start[i] < Start[j]
           /\ Start[i] = Start[j] <=> i = j
<1>1. Count \in Nat /\ Chunk = 1..Count /\ \A k \in Chunk : file.chunks[k].len \in Nat
  BY FileFacts
<1>2. \A k \in 1..Count + 1 : Start[k] \in Nat
  BY StartsInOrder
<1>3. ASSUME NEW a \in 1..Count + 1, NEW b \in 1..Count + 1, a < b PROVE Start[a] < Start[b]
  <2>1. a \in Chunk
    BY <1>1, <1>3
  <2>2. Start[a + 1] = Start[a] + 1 + file.chunks[a].len /\ file.chunks[a].len \in Nat
    BY <1>1, <2>1, StartIs
  <2>3. Start[a + 1] <= Start[b]
    BY <1>3, <2>1, StartsInOrder
  <2> QED  BY <1>2, <2>2, <2>3
<1>4. i \in Int /\ j \in Int /\ Start[i] \in Nat /\ Start[j] \in Nat
  BY <1>1, <1>2
<1>5. i < j => Start[i] < Start[j]
  BY <1>3
<1>6. j < i => Start[j] < Start[i]
  BY <1>3
<1> QED  BY <1>4, <1>5, <1>6

\* The header declares where the last chunk ends.
LEMMA FileEnd ==
    ASSUME file \in Files
    PROVE  /\ RiffEnd \in Nat /\ RiffHeader < RiffEnd /\ Supply \in Nat
           /\ \A i \in Chunk : Start[i + 1] <= RiffEnd
           /\ \A p \in Starts : p \in Nat /\ RiffHeader <= p /\ p <= RiffEnd
<1>1. Count \in Nat /\ Count >= 1 /\ Chunk = 1..Count
      /\ \A k \in Chunk : file.chunks[k].len \in Nat
      /\ file.missing \in Nat /\ file.missing <= file.chunks[Count].len
  BY FileFacts
<1>2. RiffEnd = Start[Count + 1]
  BY DEF RiffEnd, Count
<1>3. \A k \in 1..Count + 1 : Start[k] \in Nat /\ RiffHeader <= Start[k]
  BY StartsInOrder DEF RiffHeader
<1>4. \A k \in 1..Count + 1 : Start[k] <= RiffEnd
  <2> SUFFICES ASSUME NEW k \in 1..Count + 1 PROVE Start[k] <= RiffEnd
    OBVIOUS
  <2>1. Count + 1 \in 1..Count + 1
    BY <1>1
  <2>2. k = Count + 1 \/ k < Count + 1
    BY <1>1
  <2>3. k < Count + 1 => Start[k] < Start[Count + 1]
    BY <2>1, StartsApart
  <2> QED  BY <1>2, <1>3, <2>1, <2>2, <2>3
<1>5. Count \in Chunk /\ Count \in 1..Count + 1 /\ Count + 1 \in 1..Count + 1
  BY <1>1
<1>6. RiffEnd = Start[Count] + 1 + file.chunks[Count].len
  BY <1>2, <1>5, StartIs
<1>7. RiffEnd \in Nat /\ RiffHeader < RiffEnd /\ RiffEnd - file.missing \in Nat
  BY <1>1, <1>3, <1>5, <1>6 DEF RiffHeader
<1>8. Supply \in Nat
  BY <1>7, ThresholdAssumption DEF Supply
<1>9. \A i \in Chunk : i + 1 \in 1..Count + 1
  BY <1>1
<1> QED  BY <1>3, <1>4, <1>7, <1>8, <1>9 DEF Starts

\* A place before the end is where a chunk starts.
LEMMA ChunkAt ==
    ASSUME file \in Files, NEW p \in Starts, p < RiffEnd
    PROVE  \E i \in Chunk : p = Start[i]
<1>1. PICK i \in 1..Count + 1 : p = Start[i]
  BY DEF Starts
<1>2. RiffEnd = Start[Count + 1] /\ RiffEnd \in Nat
  BY FileEnd DEF RiffEnd, Count
<1>3. i # Count + 1
  BY <1>1, <1>2
<1>4. i \in Chunk
  BY <1>1, <1>3, FileFacts
<1> QED  BY <1>1, <1>4

LEMMA ChunkEnds ==
    ASSUME file \in Files, NEW i \in Chunk
    PROVE  /\ Start[i] \in Nat /\ Start[i + 1] \in Nat /\ file.chunks[i].len \in Nat
           /\ Start[i + 1] = Start[i] + 1 + file.chunks[i].len
           /\ Start[i] < Start[i + 1] /\ Start[i + 1] <= RiffEnd
           /\ Start[i] \in Starts /\ Start[i + 1] \in Starts
           /\ i \in 1..Count + 1 /\ i + 1 \in 1..Count + 1 /\ i \in Nat
<1>1. Count \in Nat /\ Chunk = 1..Count /\ \A k \in Chunk : file.chunks[k].len \in Nat
  BY FileFacts
<1>2. i \in 1..Count + 1 /\ i + 1 \in 1..Count + 1 /\ i \in Nat
  BY <1>1
<1>3. Start[i] \in Nat /\ Start[i + 1] \in Nat
  BY <1>2, StartsInOrder
<1>4. Start[i + 1] = Start[i] + 1 + file.chunks[i].len /\ file.chunks[i].len \in Nat
  BY <1>1, StartIs
<1>5. Start[i] < Start[i + 1]
  BY <1>3, <1>4
<1> QED  BY <1>2, <1>3, <1>4, <1>5, FileEnd DEF Starts

\* The file stays what it is.
LEMMA SameFile ==
    ASSUME file' = file
    PROVE  /\ Start' = Start /\ RiffEnd' = RiffEnd /\ Starts' = Starts /\ Chunk' = Chunk
           /\ Supply' = Supply /\ Count' = Count /\ (Conflicts' <=> Conflicts)
           /\ \A tag : Tagged(tag)' = Tagged(tag)
           /\ \A i, tag : Before(i, tag)' = Before(i, tag)
           /\ \A k, p : FirstMeta(k, p)' = FirstMeta(k, p)
<1>1. Start' = Start /\ Chunk' = Chunk /\ Count' = Count
  BY DEF Start, Chunk, Count
<1>2. RiffEnd' = RiffEnd /\ Starts' = Starts /\ Supply' = Supply
  BY <1>1 DEF RiffEnd, Starts, Supply
<1>3. /\ \A tag : Tagged(tag)' = Tagged(tag)
      /\ \A i, tag : Before(i, tag)' = Before(i, tag)
  BY <1>1 DEF Tagged, Before
<1>4. \A k, p : FirstMeta(k, p)' = FirstMeta(k, p)
  BY <1>1, <1>3 DEF FirstMeta
<1>5. Conflicts' <=> Conflicts
  BY <1>1, <1>3 DEF Conflicts, IsImage, Tagged, Before
<1> QED  BY <1>1, <1>2, <1>3, <1>4, <1>5

-----------------------------------------------------------------------------
(* What the window holds.                                                  *)

LEMMA UnitsAre ==
    ASSUME NEW a \in Int, NEW b \in Int, a <= b
    PROVE  /\ Units(a, b) \in Seq(Int) /\ Len(Units(a, b)) = b - a
           /\ \A i \in 1..b - a : Units(a, b)[i] = a + i - 1
<1>1. b - a \in Nat
  OBVIOUS
<1>2. Units(a, b) = [i \in 1..b - a |-> a + i - 1]
  BY DEF Units
<1>3. \A i \in 1..b - a : a + i - 1 \in Int
  OBVIOUS
<1> QED  BY <1>1, <1>2, <1>3

\* What is kept of the window, and then what comes.
Joined(a, b, c, d) ==
    SubSeq(Units(a, c), b - a + 1, c - a) \o Units(c, d) = Units(b, d)

LEMMA UnitsJoin ==
    ASSUME NEW a \in Int, NEW b \in Int, NEW c \in Int, NEW d \in Int,
           a <= b, b <= c, c <= d
    PROVE  Joined(a, b, c, d)
<1> DEFINE s == SubSeq(Units(a, c), b - a + 1, c - a)
           t == Units(c, d)
           u == Units(b, d)
<1>0. /\ Len(Units(a, c)) = c - a /\ \A i \in 1..c - a : Units(a, c)[i] = a + i - 1
      /\ a <= c /\ b <= d
  <2>1. a <= c /\ b <= d
    OBVIOUS
  <2> QED  BY <2>1, UnitsAre
<1>1. \A i \in b - a + 1 .. c - a : Units(a, c)[i] \in Int
  <2> SUFFICES ASSUME NEW i \in b - a + 1 .. c - a PROVE Units(a, c)[i] \in Int
    OBVIOUS
  <2>1. i \in 1..c - a
    OBVIOUS
  <2> QED  BY <1>0, <2>1
<1>2. /\ s \in Seq(Int) /\ Len(s) = c - b
      /\ \A i \in 1..c - b : s[i] = b + i - 1
  <2>1. /\ SubSeq(Units(a, c), b - a + 1, c - a) \in Seq(Int)
        /\ Len(SubSeq(Units(a, c), b - a + 1, c - a))
             = IF b - a + 1 <= c - a THEN (c - a) - (b - a + 1) + 1 ELSE 0
        /\ \A i \in 1..(c - a) - (b - a + 1) + 1 :
               SubSeq(Units(a, c), b - a + 1, c - a)[i] = Units(a, c)[(b - a + 1) + i - 1]
    <3> HIDE DEF s
    <3>1. b - a + 1 \in Int /\ c - a \in Int
      OBVIOUS
    <3> QED  BY ONLY <1>1, <3>1, SubSeqProperties
  <2>2. (c - a) - (b - a + 1) + 1 = c - b /\ (b - a + 1 <= c - a <=> b + 1 <= c)
    OBVIOUS
  <2>3. ASSUME NEW i \in 1..c - b PROVE s[i] = b + i - 1
    <3>1. (b - a + 1) + i - 1 \in 1..c - a /\ a + ((b - a + 1) + i - 1) - 1 = b + i - 1
      OBVIOUS
    <3>2. Units(a, c)[(b - a + 1) + i - 1] = b + i - 1
      BY <1>0, <3>1
    <3> QED  BY <2>1, <2>2, <3>2
  <2>4. Len(s) = c - b
    BY <2>1, <2>2
  <2> QED  BY <2>1, <2>3, <2>4
<1>3. /\ t \in Seq(Int) /\ Len(t) = d - c /\ \A i \in 1..d - c : t[i] = c + i - 1
  BY UnitsAre
<1>4. /\ u \in Seq(Int) /\ Len(u) = d - b /\ \A i \in 1..d - b : u[i] = b + i - 1
  BY <1>0, UnitsAre
<1> HIDE DEF s, t, u
<1>5. /\ s \o t \in Seq(Int) /\ Len(s \o t) = Len(s) + Len(t)
      /\ \A i \in 1..Len(s) + Len(t) : (s \o t)[i] = IF i <= Len(s) THEN s[i] ELSE t[i - Len(s)]
  BY <1>2, <1>3, ConcatProperties
<1>6. Len(s \o t) = d - b /\ Len(s) + Len(t) = d - b
  BY <1>2, <1>3, <1>5
<1>7. ASSUME NEW i \in 1..d - b PROVE (s \o t)[i] = u[i]
  <2>1. CASE i <= c - b
    <3>1. i \in 1..c - b
      BY <2>1
    <3> QED  BY <1>2, <1>4, <1>5, <1>6, <2>1, <3>1
  <2>2. CASE ~(i <= c - b)
    <3>1. i - (c - b) \in 1..d - c /\ c + (i - (c - b)) - 1 = b + i - 1
      BY <2>2
    <3>2. (s \o t)[i] = t[i - (c - b)]
      BY <1>2, <1>5, <1>6, <2>2
    <3> QED  BY <1>3, <1>4, <3>1, <3>2
  <2> QED  BY <2>1, <2>2
<1>8. s \o t = u
  BY <1>4, <1>5, <1>6, <1>7, SeqEqual
<1> QED  BY <1>8 DEF s, t, u, Joined

\* A unit in the window is itself.
LEMMA UnitAt ==
    ASSUME buf = Units(discarded, size), discarded \in Nat, size \in Nat, discarded <= size,
           NEW o \in Int, discarded <= o, o < size
    PROVE  At(o) = o
<1>0. discarded \in Int /\ size \in Int
  OBVIOUS
<1>1. Len(buf) = size - discarded /\ \A i \in 1..size - discarded : buf[i] = discarded + i - 1
  BY <1>0, UnitsAre
<1>2. o - discarded + 1 \in 1..size - discarded /\ ~(o - discarded >= size - discarded)
      /\ discarded + (o - discarded + 1) - 1 = o
  OBVIOUS
<1>3. buf[o - discarded + 1] = o
  BY <1>1, <1>2
<1> QED  BY <1>1, <1>2, <1>3 DEF At

LEMMA ReadIs ==
    ASSUME file \in Files, buf = Units(discarded, size), discarded \in Nat, size \in Nat,
           discarded <= size,
           NEW i \in Chunk, discarded <= Start[i], Start[i] < size
    PROVE  Read(Start[i]) = file.chunks[i]
<1>1. At(Start[i]) = Start[i]
  BY ChunkEnds, UnitAt
<1>2. \A j \in Chunk : Start[j] = Start[i] <=> j = i
  BY ChunkEnds, StartsApart
<1>3. (CHOOSE j \in Chunk : Start[j] = At(Start[i])) = i
  BY <1>1, <1>2
<1> QED  BY <1>3 DEF Read

LEMMA PieceIs ==
    ASSUME buf = Units(discarded, size), discarded \in Nat, size \in Nat, discarded <= size,
           NEW o \in Nat, NEW n \in Nat, discarded <= o, o + n <= size
    PROVE  Piece(o, n) = Units(o, o + n)
<1>1. ASSUME NEW i \in 1..n PROVE At(o + i - 1) = o + i - 1
  <2>1. o + i - 1 \in Int /\ discarded <= o + i - 1 /\ o + i - 1 < size
    OBVIOUS
  <2> QED  BY <2>1, UnitAt
<1>2. (o + n) - o = n
  OBVIOUS
<1> QED  BY <1>1, <1>2 DEF Piece, Units

-----------------------------------------------------------------------------
(* What the parts say together, and what leaves them alone.                *)

LEMMA Numbers ==
    ASSUME StreamInv
    PROVE  /\ file \in Files /\ fed \in Nat /\ fed <= Supply /\ size \in Nat /\ discarded \in Nat
           /\ pos \in Nat /\ end \in Nat /\ scan.pos \in Nat /\ scan.end \in Nat
           /\ alpha.at \in Nat /\ size <= fed
           /\ RiffEnd \in Nat /\ RiffHeader < RiffEnd /\ Supply \in Nat
           /\ Given \in Nat /\ Given <= fed /\ Given <= RiffEnd
           /\ Least(RiffEnd, size) \in Nat /\ Least(RiffEnd, size) <= Given
           /\ Least(RiffEnd, size) <= size
           /\ inputMode = "append" => Least(RiffEnd, size) = Given
<1>1. /\ file \in Files /\ fed \in 0..Supply
      /\ {size, discarded, pos, end, scan.pos, scan.end, alpha.at} \subseteq 0..Supply
  BY DEF StreamInv, Typed, TypeOK
<1>2. RiffEnd \in Nat /\ RiffHeader < RiffEnd /\ Supply \in Nat
  BY <1>1, FileEnd
<1>3. /\ fed \in Nat /\ fed <= Supply /\ size \in Nat /\ discarded \in Nat
      /\ pos \in Nat /\ end \in Nat /\ scan.pos \in Nat /\ scan.end \in Nat /\ alpha.at \in Nat
  BY <1>1, <1>2
<1>4. Given \in Nat /\ Given <= fed /\ Given <= RiffEnd
  BY <1>2, <1>3 DEF Given, Least
<1>5. size <= fed /\ (inputMode = "append" => size = Given)
  BY <1>3, <1>4 DEF StreamInv, Window
<1>6. /\ Least(RiffEnd, size) \in Nat /\ Least(RiffEnd, size) <= Given
      /\ Least(RiffEnd, size) <= size
      /\ inputMode = "append" => Least(RiffEnd, size) = Given
  BY <1>2, <1>3, <1>4, <1>5 DEF Least, Given
<1> QED  BY <1>1, <1>2, <1>3, <1>4, <1>5, <1>6

LEMMA GivenGrows ==
    ASSUME StreamInv, file' = file, fed' \in Nat, fed <= fed'
    PROVE  Given' \in Nat /\ Given <= Given' /\ Given' <= fed' /\ Given' <= RiffEnd
<1>1. Given' = Least(fed', RiffEnd)
  BY SameFile DEF Given
<1>2. RiffEnd \in Nat /\ fed \in Nat /\ Given = Least(fed, RiffEnd)
  BY Numbers DEF Given
<1> QED  BY <1>1, <1>2 DEF Least

LEMMA FoundSame ==
    ASSUME Found, FoundMeta, UNCHANGED <<file, scan, animation>>
    PROVE  Found' /\ FoundMeta'
<1>1. Found'
  BY SameFile DEF Found
<1>2. FoundMeta'
  <2>1. FirstMeta(0, 0)' = FirstMeta(0, 0) /\ Chunk' = Chunk /\ Start' = Start
    BY SameFile
  <2>2. \A k : FirstMeta(k, scan.pos)' = FirstMeta(k, scan.pos)
    BY <2>1 DEF FirstMeta, Tagged, Before
  <2>3. Tagged("META")' = Tagged("META")
    BY SameFile
  <2> QED  BY <2>1, <2>2, <2>3 DEF FoundMeta
<1> QED  BY <1>1, <1>2

\* Outside the scan of the headers there is nothing left to copy.
LEMMA CopiedOutside ==
    ASSUME Copied, ~InHeaders, UNCHANGED <<file, scan, meta>>
    PROVE  Copied'
<1>1. Tagged("META")' = Tagged("META") /\ Start' = Start
  BY SameFile
<1>2. DOMAIN meta = DOMAIN scan.meta
  BY DEF Copied
<1>3. ASSUME NEW i \in Tagged("META")
      PROVE  LET k == file.chunks[i].which IN
             k \in DOMAIN scan.meta /\ scan.meta[k] = Start[i] + 1 =>
                 meta[k] = Units(Start[i] + 1, Start[i + 1])
  BY <1>2 DEF Copied
<1> QED  BY <1>1, <1>2, <1>3 DEF Copied

LEMMA CopiedSame ==
    ASSUME Copied, UNCHANGED <<file, scan, meta, discarded, size>>, InHeaders' <=> InHeaders
    PROVE  Copied'
<1>1. Tagged("META")' = Tagged("META") /\ Start' = Start
  BY SameFile
<1> QED  BY <1>1 DEF Copied

\* A chunk stays refused as long as the scan stays where it is.
LEMMA HaltedStays ==
    ASSUME Halted, file' = file, Given \in Nat, Given' \in Nat, Given <= Given', file \in Files,
           scan'.pos = scan.pos, scan'.vp8x = scan.vp8x, scan'.anim = scan.anim,
           scan'.frames = scan.frames, scan'.images = scan.images,
           scan.still => scan'.still
    PROVE  Halted'
<1>1. Start' = Start /\ Chunk' = Chunk
  BY SameFile
<1>2. (AnimDeclared' <=> AnimDeclared) /\ (Declares' <=> Declares)
  BY DEF AnimDeclared, Declares, Flags
<1>3. \A c : FirstChunk(c)' <=> FirstChunk(c)
  BY DEF FirstChunk
<1>4. PICK i \in Chunk :
          /\ scan.pos = Start[i] /\ Start[i] < Given /\ Refused(file.chunks[i])
          /\ \/ Start[i + 1] <= Given
             \/ ~FirstChunk(file.chunks[i])
             \/ file.chunks[i].tag = "VP8" /\ scan.images = 0 /\ AnimDeclared
  BY DEF Halted
<1>5. Refused(file.chunks[i])'
  BY <1>2, <1>3, <1>4 DEF Refused
<1>6. Start[i] < Given' /\ (Start[i + 1] <= Given => Start[i + 1] <= Given')
  BY <1>4, ChunkEnds
<1>7. FirstChunk(file.chunks[i])' <=> FirstChunk(file.chunks[i])
  BY <1>3
<1> QED  BY <1>1, <1>2, <1>4, <1>5, <1>6, <1>7 DEF Halted

LEMMA ForGoodSame ==
    ASSUME StreamInv, fed' \in Nat, fed <= fed', UNCHANGED <<file, scan, headersValid, pos>>,
           inputMode' = inputMode, call' \notin {"refuse", "scanned"}
    PROVE  ForGood'
<1>1. Given \in Nat /\ Given' \in Nat /\ Given <= Given' /\ file \in Files
  BY Numbers, GivenGrows
<1>2. Halted => Halted'
  BY <1>1, HaltedStays
<1> QED  BY <1>2 DEF StreamInv, ForGood

LEMMA OrderedSame ==
    ASSUME StreamInv, fed' \in Nat, fed <= fed', UNCHANGED <<file, scan, headersValid, pos, end>>,
           discarded' \in Nat, discarded' <= pos
    PROVE  Ordered'
<1>1. Given \in Nat /\ Given' \in Nat /\ Given <= Given'
  BY Numbers, GivenGrows
<1>2. Start' = Start /\ Chunk' = Chunk /\ Starts' = Starts
  BY SameFile
<1>3. pos \in Nat /\ end \in Nat /\ scan.pos \in Nat /\ scan.end \in Nat
  BY Numbers
<1> QED  BY <1>1, <1>2, <1>3 DEF StreamInv, Ordered

LEMMA AlphasSame ==
    ASSUME StreamInv, UNCHANGED <<file, alpha, pos, stillReady, stillDone>>,
           discarded' \in Nat, alpha.pending /\ alpha.has => discarded' <= alpha.at,
           call' = "walk" => call = "walk" \/ ~(stillReady /\ ~stillDone)
    PROVE  Alphas'
BY DEF StreamInv, Alphas

-----------------------------------------------------------------------------
(* The calls that bring data.                                              *)

LEMMA NoUnits == \A n \in Int : Units(n, n) = <<>>
<1> SUFFICES ASSUME NEW n \in Int PROVE Units(n, n) = <<>>
  OBVIOUS
<1>1. Units(n, n) \in Seq(Int) /\ Len(Units(n, n)) = 0
  BY UnitsAre
<1> QED  BY <1>1, EmptySeq

\* open_borrowed(), open_shared() and update(): the window is what was given.
LEMMA InstallKeeps ==
    ASSUME StreamInv, Idle, NEW n \in Nat, n <= Supply, NEW lent \in BOOLEAN,
           Install(n, lent), fed' = n, fed <= n, inputMode' # "append",
           inputMode # "append" \/ inputMode' = inputMode,
           call' = "headers", status' = status, via' \in {"open", "update"},
           inputMode' \in {"untouched", "update"},
           Calls',
           UNCHANGED <<file, streaming, eos, scanVars, walkVars>>
    PROVE  StreamInv'
<1>1. /\ buf' = Units(0, n) /\ borrowed' = lent /\ size' = n /\ discarded' = 0
      /\ fed' \in Nat /\ fed <= fed'
  BY DEF Install
<1>2. UNCHANGED <<file, scan, meta, animation, headersValid, pos, end, alpha, active,
                  decoded, stillReady, stillDone, shown>>
  BY DEF scanVars, walkVars
<1>3. Typed'
  <2>1. Supply' = Supply /\ Chunk' = Chunk /\ Supply \in Nat
    BY <1>2, SameFile, Numbers
  <2>2. Typed /\ n \in 0..Supply /\ 0 \in 0..Supply
    BY <2>1 DEF StreamInv
  <2>3. ScanTyped'
    BY <1>2, <2>2 DEF Typed, ScanTyped
  <2>4. TypeOK'
    BY <1>1, <1>2, <2>1, <2>2 DEF Typed, TypeOK
  <2> QED  BY <1>2, <2>2, <2>3, <2>4 DEF Typed, AlphaType
<1>4. Window'
  BY <1>1 DEF Window
<1>5. Ordered'
  <2>1. pos \in Nat
    BY Numbers
  <2> QED  BY <1>1, <1>2, <2>1, OrderedSame
<1>6. ~InHeaders /\ ~InHeaders' /\ Scanning'
  BY DEF Idle, InHeaders, Scanning
<1>7. Found' /\ FoundMeta'
  BY <1>2, FoundSame DEF StreamInv
<1>8. Copied'
  BY <1>2, <1>6, CopiedOutside DEF StreamInv
<1>9. ForGood'
  BY DEF ForGood
<1>10. Alphas'
  <2>1. alpha.at \in Nat
    BY Numbers
  <2> QED  BY <1>1, <1>2, <2>1, AlphasSame
<1> QED  BY <1>3, <1>4, <1>5, <1>6, <1>7, <1>8, <1>9, <1>10 DEF StreamInv

LEMMA OpenKeeps ==
    ASSUME StreamInv, NEW n \in 0..Supply, NEW lent \in BOOLEAN, Open(n, lent)
    PROVE  StreamInv'
<1>1. /\ Idle /\ via = "none" /\ fed' = n /\ Install(n, lent)
      /\ call' = "headers" /\ via' = "open" /\ status' = status
      /\ UNCHANGED <<file, streaming, inputMode, eos, scanVars, walkVars>>
  BY DEF Open, Rescan, modeVars
<1>2. ~streaming /\ inputMode = "untouched" /\ fed = 0
  BY <1>1 DEF StreamInv, Calls
<1>3. n \in Nat /\ n <= Supply /\ fed <= n
  BY <1>2, Numbers
<1>4. Calls'
  BY <1>1, <1>2 DEF Calls
<1> QED  BY <1>1, <1>2, <1>3, <1>4, InstallKeeps

LEMMA UpdateKeeps ==
    ASSUME StreamInv, NEW n \in 0..Supply, NEW lent \in BOOLEAN, Update(n, lent)
    PROVE  StreamInv'
<1>1. /\ Idle /\ streaming /\ inputMode \in {"untouched", "update"}
      /\ n >= fed /\ fed' = n /\ inputMode' = "update" /\ Install(n, lent)
      /\ call' = "headers" /\ via' = "update" /\ status' = status
      /\ UNCHANGED <<file, streaming, eos, scanVars, walkVars>>
  BY DEF Update, Accepts, Rescan
<1>2. n \in Nat /\ n <= Supply /\ fed <= n
  BY <1>1, Numbers
<1>3. Calls'
  BY <1>1 DEF Calls
<1> QED  BY <1>1, <1>2, <1>3, InstallKeeps

\* Nothing about the file, the window, the scan or the walk.
LEMMA OpenStreamKeeps ==
    ASSUME StreamInv, OpenStream
    PROVE  StreamInv'
<1>1. /\ Idle /\ via = "none" /\ streaming' = TRUE /\ via' = "stream"
      /\ UNCHANGED <<file, fed, inputMode, eos, buf, borrowed, size, discarded, scan,
                     headersValid, end, animation, meta, pos, alpha, active, decoded,
                     stillReady, stillDone, shown, call, status>>
  BY DEF OpenStream, fileVars, windowVars, scanVars, walkVars
<1>2. ~streaming /\ inputMode = "untouched" /\ fed = 0
  BY <1>1 DEF StreamInv, Calls
<1>3. fed \in Nat /\ discarded \in Nat
  BY Numbers
<1>4. Typed'
  <2>1. Supply' = Supply /\ Chunk' = Chunk
    BY <1>1, SameFile
  <2>2. ScanTyped'
    BY <1>1 DEF StreamInv, Typed, ScanTyped
  <2>3. TypeOK'
    BY <1>1, <2>1 DEF StreamInv, Typed, TypeOK
  <2> QED  BY <1>1, <2>2, <2>3 DEF StreamInv, Typed, AlphaType
<1>5. Calls'
  BY <1>1, <1>2 DEF Calls, Idle
<1>6. Window'
  BY <1>1, <1>2 DEF StreamInv, Window
<1>7. Ordered'
  BY <1>1, <1>3, OrderedSame DEF StreamInv, Ordered
<1>8. ~InHeaders /\ ~InHeaders' /\ Scanning'
  BY <1>1 DEF Idle, InHeaders, Scanning
<1>9. Found' /\ FoundMeta' /\ Copied'
  BY <1>1, <1>8, FoundSame, CopiedOutside DEF StreamInv
<1>10. ForGood'
  BY <1>1, <1>2 DEF ForGood
<1>11. Alphas'
  BY <1>1, <1>3, AlphasSame DEF StreamInv, Alphas, Idle
<1> QED  BY <1>4, <1>5, <1>6, <1>7, <1>8, <1>9, <1>10, <1>11 DEF StreamInv

\* What append() lets go of is behind the walk and not an alpha in waiting.
LEMMA Compaction ==
    ASSUME StreamInv, NEW n \in Nat, AppendUnits(Units(size, size + n))
    PROVE  /\ size' = size + n /\ discarded' \in Nat
           /\ discarded <= discarded' /\ discarded' <= pos /\ discarded' <= size
           /\ buf' = Units(discarded', size')
           /\ alpha.pending /\ alpha.has => discarded' <= alpha.at
           /\ UNCHANGED borrowed
<1>1. /\ size \in Nat /\ discarded \in Nat /\ pos \in Nat /\ alpha.at \in Nat
      /\ discarded <= size /\ discarded <= pos /\ buf = Units(discarded, size)
      /\ alpha.pending /\ alpha.has => discarded <= alpha.at
  BY Numbers DEF StreamInv, Window, Ordered, Alphas
<1>2. PICK from : from = IF Compacts THEN Keep ELSE discarded
  OBVIOUS
<1>3. /\ discarded' = from
      /\ buf' = SubSeq(buf, from - discarded + 1, size - discarded) \o Units(size, size + n)
      /\ size' = size + Len(Units(size, size + n)) /\ UNCHANGED borrowed
  BY <1>2 DEF AppendUnits
<1>4. /\ from \in Nat /\ discarded <= from /\ from <= pos /\ from <= size
      /\ alpha.pending /\ alpha.has => from <= alpha.at
  BY <1>1, <1>2 DEF Compacts, Keep
<1>5. Len(Units(size, size + n)) = n
  <2>1. size \in Int /\ size + n \in Int /\ size <= size + n /\ (size + n) - size = n
    BY <1>1
  <2> QED  BY <2>1, UnitsAre
<1>6. buf' = Units(from, size + n)
  <2>1. /\ discarded \in Int /\ from \in Int /\ size \in Int /\ size + n \in Int
        /\ discarded <= from /\ from <= size /\ size <= size + n
    BY <1>1, <1>4
  <2>2. Joined(discarded, from, size, size + n)
    BY ONLY <2>1, UnitsJoin
  <2> QED  BY <1>1, <1>3, <2>2 DEF Joined
<1> QED  BY <1>1, <1>3, <1>4, <1>5, <1>6

Fits(f, e, n, room) ==
    /\ Least(room, n) \in Nat
    /\ Least(f, e) + Least(room, n) = Least(f + n, e)
    /\ Least(room, n) > 0 => Least(f, e) = f

LEMMA RoomIs ==
    ASSUME NEW f \in Nat, NEW e \in Nat, NEW n \in Nat, NEW room \in Nat, RiffHeader < e,
           \/ room = IF e > Least(f, e) THEN e - Least(f, e) ELSE 0
           \/ room = n /\ Least(f, e) + n < RiffHeader
    PROVE  Fits(f, e, n, room)
BY DEF Fits, Least, RiffHeader

\* The window after append(), whether anything was taken or not.
LEMMA ArrivalKeeps ==
    ASSUME StreamInv, Idle, streaming, inputMode \in {"untouched", "append"},
           inputMode' = "append", call' \in {"idle", "headers"},
           via' \in {"stream", "append", "eos"},
           status' \in {"none", "ok", "invalid", "truncated", "nomem", "picture", "unexported"},
           fed' \in Nat, fed <= fed', fed' <= Supply, size' \in Nat, size <= size',
           size' = Given',
           discarded' \in Nat, discarded' <= pos, discarded' <= size',
           buf' = Units(discarded', size'), borrowed' \in BOOLEAN,
           alpha.pending /\ alpha.has => discarded' <= alpha.at,
           UNCHANGED <<file, streaming, eos, scanVars, walkVars>>
    PROVE  StreamInv'
<1>1. UNCHANGED <<file, scan, meta, animation, headersValid, pos, end, alpha, active,
                  decoded, stillReady, stillDone, shown>>
  BY DEF scanVars, walkVars
<1>2. Given' <= fed'
  BY <1>1, GivenGrows
<1>3. Typed'
  <2>1. Supply' = Supply /\ Chunk' = Chunk /\ Supply \in Nat
    BY <1>1, SameFile, Numbers
  <2>2. Typed /\ fed' \in 0..Supply /\ size' \in 0..Supply /\ discarded' \in 0..Supply
    BY <1>2, <2>1 DEF StreamInv
  <2>3. ScanTyped'
    BY <1>1, <2>2 DEF Typed, ScanTyped
  <2>4. TypeOK'
    BY <1>1, <2>1, <2>2 DEF Typed, TypeOK
  <2> QED  BY <1>1, <2>2, <2>3, <2>4 DEF Typed, AlphaType
<1>4. Calls'
  BY <1>1 DEF Calls
<1>5. Window'
  BY DEF Window
<1>6. Ordered'
  BY <1>1, OrderedSame
<1>7. ~InHeaders /\ ~InHeaders' /\ Scanning'
  BY DEF Idle, InHeaders, Scanning
<1>8. Found' /\ FoundMeta' /\ Copied'
  BY <1>1, <1>7, FoundSame, CopiedOutside DEF StreamInv
<1>9. ForGood'
  <2>1. CASE inputMode = "append"
    BY <1>1, <2>1, ForGoodSame
  <2>2. CASE inputMode = "untouched"
    <3>1. fed = 0 /\ scan.pos <= Given /\ pos <= scan.pos /\ pos \in Nat /\ Given <= fed
          /\ scan.pos \in Nat /\ Given \in Nat
      BY <2>2, Numbers DEF StreamInv, Calls, Ordered
    <3>2. pos' = 0
      BY <1>1, <3>1
    <3> QED  BY <3>2 DEF ForGood
  <2> QED  BY <2>1, <2>2
<1>10. Alphas'
  BY <1>1, AlphasSame
<1> QED  BY <1>3, <1>4, <1>5, <1>6, <1>7, <1>8, <1>9, <1>10 DEF StreamInv

\* What append() starts from.
LEMMA Appending ==
    ASSUME StreamInv, Accepts("append")
    PROVE  /\ Idle /\ streaming /\ ~eos /\ inputMode \in {"untouched", "append"}
           /\ size = Given /\ via \in {"stream", "append", "eos"}
<1>1. Idle /\ streaming /\ ~eos /\ inputMode \in {"untouched", "append"}
  BY DEF Accepts
<1>2. via \in {"stream", "append", "eos"}
  BY <1>1 DEF StreamInv, Calls, Typed, TypeOK
<1>3. size = Given
  <2>1. CASE inputMode = "append"
    BY <2>1 DEF StreamInv, Window
  <2>2. CASE inputMode = "untouched"
    <3>1. fed = 0 /\ size \in {0, fed} /\ Given \in Nat /\ Given <= fed
      BY <1>1, <2>2, Numbers DEF StreamInv, Calls, Window
    <3> QED  BY <3>1
  <2> QED  BY <1>1, <2>1, <2>2
<1> QED  BY <1>1, <1>2, <1>3

LEMMA AppendKeeps ==
    ASSUME StreamInv, NEW n \in 1..Supply, Append_(n)
    PROVE  StreamInv'
<1>1. PICK used : used = Least(Room(n), n)
  OBVIOUS
<1>2. /\ Accepts("append") /\ fed + n <= Supply /\ fed' = fed + n /\ inputMode' = "append"
      /\ IF used = 0 THEN Answer("ok") /\ UNCHANGED windowVars
         ELSE AppendUnits(Units(fed, fed + used)) /\ Rescan("append")
      /\ UNCHANGED <<file, streaming, eos, scanVars, walkVars>>
  BY <1>1 DEF Append_
<1>3. /\ Idle /\ streaming /\ inputMode \in {"untouched", "append"}
      /\ size = Given /\ via \in {"stream", "append", "eos"}
  BY <1>2, Appending
<1>4. /\ size \in Nat /\ fed \in Nat /\ RiffEnd \in Nat /\ scan.pos \in Nat /\ n \in Nat
      /\ RiffHeader < RiffEnd /\ discarded \in Nat /\ pos \in Nat /\ alpha.at \in Nat
  BY Numbers
<1>5. /\ used \in Nat /\ size + used = Least(fed + n, RiffEnd)
      /\ used > 0 => size = fed
  <2>1. size = Least(fed, RiffEnd)
    BY <1>3 DEF Given
  <2>2. \/ Room(n) = IF RiffEnd > Least(fed, RiffEnd) THEN RiffEnd - Least(fed, RiffEnd) ELSE 0
        \/ Room(n) = n /\ Least(fed, RiffEnd) + n < RiffHeader
    BY <1>4, <2>1 DEF Room, Left, RiffHeader
  <2>3. Room(n) \in Nat
    BY ONLY <1>4, <2>1, <2>2
  <2>4. Fits(fed, RiffEnd, n, Room(n))
    BY ONLY <1>4, <2>2, <2>3, RoomIs
  <2> QED  BY <1>1, <2>1, <2>4 DEF Fits
<1>6. Given' = Least(fed + n, RiffEnd)
  BY <1>2, SameFile DEF Given
<1>7. fed' \in Nat /\ fed <= fed' /\ fed' <= Supply
  BY <1>2, <1>4
<1>8. CASE used = 0
  <2>1. call' = call /\ via' = via /\ status' = "ok" /\ UNCHANGED <<buf, borrowed, size, discarded>>
    BY <1>2, <1>8 DEF Answer, windowVars
  <2>2. size' = Given' /\ size <= size'
    BY <1>4, <1>5, <1>6, <1>8, <2>1
  <2>3. /\ discarded' <= pos /\ discarded' <= size' /\ buf' = Units(discarded', size')
        /\ borrowed' \in BOOLEAN
        /\ alpha.pending /\ alpha.has => discarded' <= alpha.at
    BY <2>1 DEF StreamInv, Window, Ordered, Alphas, Typed, TypeOK
  <2> QED  BY <1>2, <1>3, <1>4, <1>7, <2>1, <2>2, <2>3, ArrivalKeeps DEF Idle
<1>9. CASE used # 0
  <2>1. AppendUnits(Units(size, size + used)) /\ call' = "headers" /\ via' = "append" /\ status' = status
    BY <1>2, <1>5, <1>9 DEF Rescan
  <2>2. /\ size' = size + used /\ discarded' \in Nat /\ discarded' <= pos /\ discarded' <= size
        /\ buf' = Units(discarded', size') /\ borrowed' = borrowed
        /\ alpha.pending /\ alpha.has => discarded' <= alpha.at
    BY <1>5, <2>1, Compaction
  <2>3. size' = Given' /\ size' \in Nat /\ size <= size' /\ discarded' <= size'
    BY <1>4, <1>5, <1>6, <2>2
  <2>4. borrowed' \in BOOLEAN
        /\ status' \in {"none", "ok", "invalid", "truncated", "nomem", "picture", "unexported"}
    BY <2>1, <2>2 DEF StreamInv, Typed, TypeOK
  <2> QED  BY <1>2, <1>3, <1>7, <2>1, <2>2, <2>3, <2>4, ArrivalKeeps
<1> QED  BY <1>8, <1>9

LEMMA AppendFailsKeeps ==
    ASSUME StreamInv, NEW n \in 1..Supply, AppendFails(n)
    PROVE  StreamInv'
<1>1. /\ Accepts("append") /\ inputMode' = "append" /\ AppendUnits(<<>>)
      /\ status' = "nomem" /\ call' = call /\ via' = via
      /\ UNCHANGED <<file, fed, streaming, eos, scanVars, walkVars>>
  BY DEF AppendFails, Answer, fileVars
<1>2. /\ Idle /\ streaming /\ inputMode \in {"untouched", "append"}
      /\ size = Given /\ via \in {"stream", "append", "eos"}
  BY <1>1, Appending
<1>3. /\ size \in Nat /\ fed \in Nat /\ fed <= Supply /\ size + 0 = size
  BY Numbers
<1>4. AppendUnits(Units(size, size + 0))
  BY <1>1, <1>3, NoUnits
<1>5. /\ size' = size + 0 /\ discarded' \in Nat /\ discarded' <= pos /\ discarded' <= size
      /\ buf' = Units(discarded', size') /\ borrowed' = borrowed
      /\ alpha.pending /\ alpha.has => discarded' <= alpha.at
  BY <1>4, Compaction
<1>6. size' = Given' /\ size' \in Nat /\ size <= size' /\ discarded' <= size'
  <2>1. Given' = Given
    BY <1>1, SameFile DEF Given
  <2> QED  BY <1>2, <1>3, <1>5, <2>1
<1>7. borrowed' \in BOOLEAN
  BY <1>5 DEF StreamInv, Typed, TypeOK
<1> QED  BY <1>1, <1>2, <1>3, <1>5, <1>6, <1>7, ArrivalKeeps DEF Idle

LEMMA TakeUpdateBufferKeeps ==
    ASSUME StreamInv, TakeUpdateBuffer
    PROVE  StreamInv'
<1>1. /\ Idle /\ streaming /\ inputMode = "update"
      /\ buf' = <<>> /\ borrowed' = FALSE /\ size' = 0 /\ discarded' = 0 /\ end' = 0
      /\ UNCHANGED <<file, fed, streaming, inputMode, eos, scan, headersValid, animation,
                     meta, pos, alpha, active, decoded, stillReady, stillDone, shown,
                     call, via, status>>
  BY DEF TakeUpdateBuffer, EmptyWindow, fileVars, modeVars, walkVars, callVars
<1>2. /\ pos \in Nat /\ alpha.at \in Nat /\ fed \in Nat /\ Given \in Nat /\ Supply \in Nat
      /\ file \in Files
  BY Numbers
<1>3. Typed'
  <2>1. Supply' = Supply /\ Chunk' = Chunk /\ 0 \in 0..Supply
    BY <1>1, <1>2, SameFile
  <2>2. ScanTyped'
    BY <1>1 DEF StreamInv, Typed, ScanTyped
  <2>3. TypeOK'
    BY <1>1, <2>1 DEF StreamInv, Typed, TypeOK
  <2> QED  BY <1>1, <2>2, <2>3 DEF StreamInv, Typed, AlphaType
<1>4. Calls'
  BY <1>1 DEF StreamInv, Calls, Idle
<1>5. Window'
  BY <1>1, NoUnits DEF Window
<1>6. Ordered'
  <2>1. Start' = Start /\ Chunk' = Chunk /\ Starts' = Starts /\ Given' = Given
    BY <1>1, SameFile DEF Given
  <2>2. \A i \in Chunk : ~(Start[i + 1] <= 0)
    <3> SUFFICES ASSUME NEW i \in Chunk PROVE ~(Start[i + 1] <= 0)
      OBVIOUS
    <3>1. Start[i] \in Nat /\ Start[i + 1] \in Nat /\ Start[i] < Start[i + 1]
      BY <1>2, ChunkEnds
    <3> QED  BY <3>1
  <2> QED  BY <1>1, <1>2, <2>1, <2>2 DEF StreamInv, Ordered
<1>7. ~InHeaders /\ ~InHeaders' /\ Scanning'
  BY <1>1 DEF Idle, InHeaders, Scanning
<1>8. Found' /\ FoundMeta' /\ Copied'
  BY <1>1, <1>7, FoundSame, CopiedOutside DEF StreamInv
<1>9. ForGood'
  BY <1>1 DEF ForGood
<1>10. Alphas'
  BY <1>1, <1>2, AlphasSame
<1> QED  BY <1>3, <1>4, <1>5, <1>6, <1>7, <1>8, <1>9, <1>10 DEF StreamInv

-----------------------------------------------------------------------------
(* The walk.                                                               *)

\* A step outside the scan of the headers, that brings no data.
LEMMA QuietKeeps ==
    ASSUME StreamInv, ~InHeaders,
           UNCHANGED <<file, fed, streaming, inputMode, windowVars, scanVars>>,
           eos' \in BOOLEAN, via' \in {"none", "open", "stream", "append", "update", "eos"},
           status' \in {"none", "ok", "invalid", "truncated", "nomem", "picture", "unexported"},
           call' \in {"idle", "walk", "emit", "headers"}, Calls',
           pos' \in {0} \cup Starts, discarded <= pos', pos' <= scan.pos,
           headersValid => pos' > 0, headersValid \/ pos' = pos,
           alpha' \in AlphaType, alpha'.at <= Supply,
           active' \in BOOLEAN, stillReady' \in BOOLEAN, stillDone' \in BOOLEAN,
           Alphas'
    PROVE  StreamInv'
<1>1. UNCHANGED <<buf, borrowed, size, discarded, scan, headersValid, end, animation, meta>>
  BY DEF windowVars, scanVars
<1>2. /\ file \in Files /\ scan.pos \in Nat /\ Supply \in Nat /\ discarded \in Nat
      /\ RiffEnd \in Nat /\ Given \in Nat /\ Given <= fed /\ fed \in Nat /\ fed <= Supply
  BY Numbers
<1>3. pos' \in Nat /\ pos' <= Supply /\ alpha'.at \in Nat
  <2>1. pos' \in Nat
    BY <1>2, FileEnd
  <2>2. scan.pos <= Given
    BY DEF StreamInv, Ordered
  <2> QED  BY <1>2, <2>1, <2>2 DEF AlphaType
<1>4. Start' = Start /\ Chunk' = Chunk /\ Starts' = Starts /\ Given' = Given /\ Supply' = Supply
  BY SameFile DEF Given
<1>5. Typed'
  <2>1. ScanTyped'
    BY <1>1 DEF StreamInv, Typed, ScanTyped
  <2>2. pos' \in 0..Supply /\ alpha'.at \in 0..Supply
    BY <1>2, <1>3
  <2>3. {alpha'.pending, alpha'.has} \subseteq BOOLEAN
    BY DEF AlphaType
  <2>4. TypeOK'
    BY <1>1, <1>4, <2>2, <2>3 DEF StreamInv, Typed, TypeOK
  <2> QED  BY <2>1, <2>4 DEF Typed, AlphaType
<1>6. Window'
  BY <1>1, <1>4 DEF StreamInv, Window
<1>7. Ordered'
  BY <1>1, <1>4 DEF StreamInv, Ordered
<1>8. ~InHeaders' /\ Scanning'
  BY DEF InHeaders, Scanning
<1>9. Found' /\ FoundMeta' /\ Copied'
  BY <1>1, FoundSame, CopiedOutside DEF StreamInv
<1>10. ForGood'
  <2>1. Halted => Halted'
    BY <1>1, <1>2, <1>4, HaltedStays
  <2> QED  BY <1>1, <2>1 DEF StreamInv, ForGood, InHeaders
<1> QED  BY <1>5, <1>6, <1>7, <1>8, <1>9, <1>10 DEF StreamInv

\* Only which call is in progress, and what it came to.
LEMMA AnswerKeeps ==
    ASSUME StreamInv, ~InHeaders, eos' \in BOOLEAN,
           UNCHANGED <<file, fed, streaming, inputMode, windowVars, scanVars, walkVars>>,
           via' = via \/ (via' = "eos" /\ streaming),
           status' \in {"none", "ok", "invalid", "truncated", "nomem", "picture", "unexported"},
           call' \in {"idle", "walk", "emit", "headers"},
           call' \in {"walk", "emit"} => headersValid /\ size > 0,
           call' = "walk" => call = "walk" \/ ~(stillReady /\ ~stillDone)
    PROVE  StreamInv'
<1>1. UNCHANGED <<pos, alpha, active, decoded, stillReady, stillDone, size, headersValid, discarded>>
  BY DEF walkVars, windowVars, scanVars
<1>2. Calls'
  BY <1>1 DEF StreamInv, Calls
<1>3. alpha.at \in Nat /\ discarded \in Nat /\ alpha.at <= Supply
  BY Numbers DEF StreamInv, Typed, TypeOK
<1>4. Alphas'
  BY <1>1, <1>3, AlphasSame DEF StreamInv, Alphas
<1>5. /\ pos' \in {0} \cup Starts /\ discarded <= pos' /\ pos' <= scan.pos
      /\ headersValid => pos' > 0
  BY <1>1 DEF StreamInv, Ordered
<1>6. /\ alpha' \in AlphaType /\ alpha'.at <= Supply
      /\ active' \in BOOLEAN /\ stillReady' \in BOOLEAN /\ stillDone' \in BOOLEAN
  BY <1>1, <1>3 DEF StreamInv, Typed, TypeOK
<1>7. via' \in {"none", "open", "stream", "append", "update", "eos"}
  BY DEF StreamInv, Typed, TypeOK
<1> QED  BY <1>1, <1>2, <1>4, <1>5, <1>6, <1>7, QuietKeeps

LEMMA EndOfStreamKeeps ==
    ASSUME StreamInv, EndOfStream
    PROVE  StreamInv'
<1>1. /\ ~InHeaders /\ eos' \in BOOLEAN /\ via' = "eos" /\ streaming
      /\ UNCHANGED <<file, fed, streaming, inputMode, windowVars, scanVars, walkVars>>
      /\ status' = status /\ call' = "headers"
  BY DEF EndOfStream, Idle, InHeaders, Rescan, fileVars
<1>2. status' \in {"none", "ok", "invalid", "truncated", "nomem", "picture", "unexported"}
  BY <1>1 DEF StreamInv, Typed, TypeOK
<1> QED  BY <1>1, <1>2, AnswerKeeps

\* The calls of next_picture() that take nothing from the file.
LEMMA AnsweredKeeps ==
    ASSUME StreamInv, NoHeaders \/ NextPicture \/ EmitFails \/ WalkEnds \/ RunsPast
    PROVE  StreamInv'
<1>1. /\ ~InHeaders /\ eos' = eos /\ via' = via
      /\ UNCHANGED <<file, fed, streaming, inputMode, windowVars, scanVars, walkVars>>
  BY DEF NoHeaders, NextPicture, EmitFails, WalkEnds, RunsPast, Idle, Walking, InHeaders,
         fileVars, modeVars, Answer, Returned
<1>2. status' = status \/ status' \in {"none", "truncated", "unexported"}
  BY DEF NoHeaders, NextPicture, EmitFails, WalkEnds, RunsPast, Answer, Returned
<1>3. /\ call' \in {"idle", "walk", "emit"}
      /\ call' \in {"walk", "emit"} => headersValid /\ size > 0
      /\ call' = "walk" => ~(stillReady /\ ~stillDone)
  BY DEF NoHeaders, NextPicture, EmitFails, WalkEnds, RunsPast, Answer, Returned, Idle
<1>4. eos' \in BOOLEAN
      /\ status' \in {"none", "ok", "invalid", "truncated", "nomem", "picture", "unexported"}
  BY <1>1, <1>2 DEF StreamInv, Typed, TypeOK
<1>5. /\ via' = via \/ (via' = "eos" /\ streaming)
      /\ call' \in {"idle", "walk", "emit", "headers"}
      /\ call' = "walk" => call = "walk" \/ ~(stillReady /\ ~stillDone)
  BY <1>1, <1>3
<1> QED  BY ONLY StreamInv, <1>1, <1>3, <1>4, <1>5, AnswerKeeps

LEMMA EmitKeeps ==
    ASSUME StreamInv, Emit
    PROVE  StreamInv'
<1>1. /\ call = "emit" /\ call' = "idle" /\ status' = "picture" /\ via' = via
      /\ stillDone' = TRUE
      /\ UNCHANGED <<file, fed, streaming, inputMode, eos, windowVars, scanVars, pos, alpha,
                     active, stillReady>>
  BY DEF Emit, Returned, fileVars, modeVars
<1>2. UNCHANGED <<size, headersValid, discarded>>
  BY <1>1 DEF windowVars, scanVars
<1>3. Calls'
  BY <1>1, <1>2 DEF StreamInv, Calls
<1>4. alpha.at \in Nat /\ discarded \in Nat /\ alpha.at <= Supply
  BY Numbers DEF StreamInv, Typed, TypeOK
<1>5. Alphas'
  BY <1>1, <1>2 DEF StreamInv, Alphas
<1>6. /\ pos' \in {0} \cup Starts /\ discarded <= pos' /\ pos' <= scan.pos
      /\ headersValid => pos' > 0
  BY <1>1 DEF StreamInv, Ordered
<1>7. /\ alpha' \in AlphaType /\ alpha'.at <= Supply /\ eos' \in BOOLEAN
      /\ active' \in BOOLEAN /\ stillReady' \in BOOLEAN /\ stillDone' \in BOOLEAN
      /\ via' \in {"none", "open", "stream", "append", "update", "eos"}
  BY <1>1, <1>4 DEF StreamInv, Typed, TypeOK
<1> QED  BY <1>1, <1>3, <1>5, <1>6, <1>7, QuietKeeps DEF InHeaders

LEMMA RewindKeeps ==
    ASSUME StreamInv, Rewind
    PROVE  StreamInv'
<1>1. /\ Idle /\ headersValid /\ inputMode # "append" /\ pos' = RiffHeader
      /\ alpha' = [pending |-> FALSE, has |-> FALSE, at |-> alpha.at]
      /\ active' = FALSE /\ stillReady' = FALSE /\ stillDone' = FALSE
      /\ status' = "ok" /\ call' = call /\ via' = via
      /\ UNCHANGED <<file, fed, streaming, inputMode, eos, windowVars, scanVars>>
  BY DEF Rewind, Answer, fileVars, modeVars
<1>2. UNCHANGED <<size, headersValid, discarded>>
  BY <1>1 DEF windowVars, scanVars
<1>3. Calls'
  BY <1>1, <1>2 DEF StreamInv, Calls, Idle
<1>4. alpha.at \in Nat /\ alpha.at <= Supply /\ pos \in Nat /\ scan.pos \in Nat /\ file \in Files
  BY Numbers DEF StreamInv, Typed, TypeOK
<1>5. /\ pos' \in {0} \cup Starts /\ discarded <= pos' /\ pos' <= scan.pos /\ pos' > 0
  <2>1. RiffHeader = Start[1] /\ 1 \in 1..Count + 1
    BY <1>4, StartIs, FileFacts
  <2>2. pos \in Starts /\ pos <= scan.pos /\ discarded = 0
    BY <1>1 DEF StreamInv, Ordered, Window
  <2>3. RiffHeader <= pos
    BY <1>4, <2>2, FileEnd
  <2>4. RiffHeader \in Starts
    BY <2>1 DEF Starts
  <2> QED  BY <1>1, <1>4, <2>2, <2>3, <2>4 DEF RiffHeader
<1>6. Alphas'
  BY <1>1 DEF Alphas, Idle, RiffHeader
<1>7. alpha' \in AlphaType /\ alpha'.at <= Supply
  BY <1>1, <1>4 DEF AlphaType
<1>8. /\ eos' \in BOOLEAN /\ via' \in {"none", "open", "stream", "append", "update", "eos"}
      /\ ~InHeaders /\ call' = "idle"
  BY <1>1 DEF StreamInv, Typed, TypeOK, InHeaders, Idle
<1> QED  BY <1>1, <1>3, <1>5, <1>6, <1>7, <1>8, QuietKeeps

\* Where the walk stands, and where it goes on.
LEMMA Walked ==
    ASSUME StreamInv, Walking, InWalk
    PROVE  /\ headersValid /\ size > 0 /\ pos > 0
           /\ pos + 1 <= Supply /\ Avail \in Nat
           /\ \E k \in Chunk :
                 /\ pos = Start[k] /\ Here = file.chunks[k] /\ RiffHeader <= pos
                 /\ pos > RiffHeader <=> k # 1
                 /\ Here.len \in Nat
                 /\ Here.tag = "VP8" => Here.need \in 1..Here.len
                 /\ Avail >= Here.len =>
                        /\ pos + 1 + Here.len = Start[k + 1] /\ RiffHeader < Start[k + 1]
                        /\ Start[k + 1] <= scan.pos
<1>1. headersValid /\ size > 0
  BY DEF StreamInv, Calls, Walking
<1>2. /\ file \in Files /\ pos \in Nat /\ end \in Nat /\ Given \in Nat /\ Given <= RiffEnd
      /\ Given <= fed /\ fed <= Supply /\ fed \in Nat /\ RiffEnd \in Nat /\ Supply \in Nat
      /\ size \in Nat /\ discarded \in Nat /\ scan.pos \in Nat
  BY Numbers
<1>3. /\ pos \in {0} \cup Starts /\ pos > 0 /\ end <= Given /\ pos <= scan.pos /\ discarded <= pos
      /\ discarded <= size /\ buf = Units(discarded, size)
  BY <1>1 DEF StreamInv, Ordered, Window
<1>4. pos \in Starts /\ RiffHeader <= pos /\ pos < RiffEnd /\ pos + 1 <= Supply
      /\ pos < Given /\ Avail \in Nat
  <2>1. pos \in Starts
    BY <1>3
  <2>2. RiffHeader <= pos
    BY <1>2, <2>1, FileEnd
  <2> QED  BY <1>2, <1>3, <2>1, <2>2 DEF InWalk, Avail
<1>5. PICK k \in Chunk : pos = Start[k]
  BY <1>2, <1>4, ChunkAt
<1>6. Given <= size
  <2>1. CASE inputMode = "append"
    BY <1>2, <2>1 DEF StreamInv, Window
  <2>2. CASE inputMode # "append"
    <3>1. size = fed
      BY <1>1, <1>2, <2>2 DEF StreamInv, Window
    <3> QED  BY <1>2, <3>1
  <2> QED  BY <2>1, <2>2
<1>7. Here = file.chunks[k]
  <2>1. discarded <= Start[k] /\ Start[k] < size
    BY <1>2, <1>3, <1>4, <1>5, <1>6
  <2> QED  BY <1>2, <1>3, <1>5, <2>1, ReadIs DEF Here
<1>8. pos > RiffHeader <=> k # 1
  <2>1. k \in 1..Count + 1 /\ 1 \in 1..Count + 1 /\ Start[1] = RiffHeader
    BY <1>2, ChunkEnds, FileFacts, StartIs
  <2>2. Start[k] = Start[1] <=> k = 1
    BY <1>2, <2>1, StartsApart
  <2> QED  BY <1>2, <1>4, <1>5, <2>1, <2>2 DEF RiffHeader
<1>9. /\ Here.len \in Nat
      /\ Here.tag = "VP8" => Here.need \in 1..Here.len
  BY <1>2, <1>7, FileFacts
<1>10. /\ Start[k + 1] = pos + 1 + Here.len /\ Start[k + 1] \in Nat
       /\ pos < Start[k + 1]
  BY <1>2, <1>5, <1>7, ChunkEnds
<1>11. ASSUME Avail >= Here.len
       PROVE  /\ RiffHeader < Start[k + 1] /\ Start[k + 1] <= scan.pos
  <2>1. Start[k + 1] <= end
    BY <1>2, <1>9, <1>10, <1>11 DEF Avail
  <2>2. Start[k + 1] <= scan.pos
    BY <2>1 DEF StreamInv, Ordered
  <2> QED  BY <1>2, <1>4, <1>10, <2>2 DEF RiffHeader
<1> QED  BY <1>1, <1>3, <1>4, <1>5, <1>7, <1>8, <1>9, <1>10, <1>11

\* A step of the walk, past a chunk or not.
LEMMA WalkKeeps ==
    ASSUME StreamInv, Walking, InWalk,
           UNCHANGED <<file, fed, streaming, inputMode, eos, windowVars, scanVars>>, via' = via,
           status' = status \/ status' \in {"none", "invalid", "picture"},
           call' \in {"idle", "walk", "emit"},
           \/ pos' = pos
           \/ Avail >= Here.len /\ pos' = pos + 1 + Here.len,
           alpha' \in AlphaType, alpha'.at <= Supply,
           active' \in BOOLEAN, stillReady' \in BOOLEAN, stillDone' \in BOOLEAN,
           Alphas'
    PROVE  StreamInv'
<1>1. UNCHANGED <<size, headersValid, discarded>>
  BY DEF windowVars, scanVars
<1>2. headersValid /\ size > 0
  BY Walked
<1>3. Calls'
  BY <1>1, <1>2 DEF StreamInv, Calls
<1>4. PICK k \in Chunk : /\ pos = Start[k]
                         /\ Avail >= Here.len =>
                                /\ pos + 1 + Here.len = Start[k + 1] /\ RiffHeader < Start[k + 1]
                                /\ Start[k + 1] <= scan.pos
  BY Walked
<1>5. /\ file \in Files /\ pos \in Nat /\ scan.pos \in Nat /\ discarded \in Nat
      /\ discarded <= pos /\ pos <= scan.pos
  BY Numbers DEF StreamInv, Ordered
<1>6. /\ Start[k] \in Starts /\ Start[k + 1] \in Starts /\ Start[k] \in Nat /\ Start[k + 1] \in Nat
      /\ Start[k] < Start[k + 1] /\ RiffHeader <= Start[k]
  BY <1>5, ChunkEnds, FileEnd
<1>7. /\ pos' \in Starts /\ discarded <= pos' /\ pos' <= scan.pos /\ pos' > 0
  BY <1>4, <1>5, <1>6 DEF RiffHeader
<1>8. eos' \in BOOLEAN /\ via' \in {"none", "open", "stream", "append", "update", "eos"}
      /\ status' \in {"none", "ok", "invalid", "truncated", "nomem", "picture", "unexported"}
      /\ ~InHeaders
  BY DEF StreamInv, Typed, TypeOK, InHeaders, Walking
<1>9. pos' \in {0} \cup Starts /\ call' \in {"idle", "walk", "emit", "headers"}
  BY <1>7
<1> QED  BY ONLY StreamInv, <1>2, <1>3, <1>7, <1>8, <1>9, QuietKeeps,
             UNCHANGED <<file, fed, streaming, inputMode, eos, windowVars, scanVars>>,
             alpha' \in AlphaType, alpha'.at <= Supply,
             active' \in BOOLEAN, stillReady' \in BOOLEAN, stillDone' \in BOOLEAN, Alphas'

\* What an image takes of its alpha, and how its decoding ends.
LEMMA Stepped ==
    ASSUME StreamInv, Walking, NEW at, NEW have \in Nat, NEW need \in Nat, NEW pending \in BOOLEAN,
           Step(at, have, need, pending)
    PROVE  /\ alpha' \in AlphaType /\ alpha'.at = alpha.at /\ alpha'.has = alpha.has
           /\ alpha'.pending => alpha.pending \/ pending
           /\ active' \in BOOLEAN /\ stillReady' \in BOOLEAN /\ stillDone' = stillDone
           /\ stillReady => stillReady'
           /\ have >= need => stillReady'
           /\ call' \in {"idle", "emit"} /\ via' = via /\ status' \in {status, "none"}
<1>1. alpha \in AlphaType /\ stillReady \in BOOLEAN
  BY DEF StreamInv, Typed, TypeOK
<1>2. alpha' = alpha \/ alpha' = [alpha EXCEPT !.pending = pending]
  BY DEF Step
<1>3. /\ alpha' \in AlphaType /\ alpha'.at = alpha.at /\ alpha'.has = alpha.has
      /\ alpha'.pending => alpha.pending \/ pending
  BY <1>1, <1>2 DEF AlphaType
<1>4. /\ active' \in BOOLEAN /\ stillReady' \in BOOLEAN /\ stillDone' = stillDone
      /\ stillReady => stillReady'
      /\ have >= need => stillReady'
      /\ call' \in {"idle", "emit"} /\ via' = via /\ status' \in {status, "none"}
  BY <1>1 DEF Step, Returned
<1> QED  BY <1>3, <1>4

LEMMA StepArrivingKeeps ==
    ASSUME StreamInv, StepArriving
    PROVE  StreamInv'
<1>1. /\ Walking /\ InWalk /\ StillPending(Here)
      /\ Step(pos + 1, Avail, Here.need, alpha.pending /\ ~alpha.has)
      /\ UNCHANGED <<file, fed, streaming, inputMode, eos, windowVars, scanVars>> /\ pos' = pos
  BY DEF StepArriving, fileVars, modeVars
<1>2. Avail \in Nat /\ Here.len \in Nat /\ Here.need \in 1..Here.len
  BY <1>1, Walked DEF StillPending
<1>3. Here.need \in Nat /\ (alpha.pending /\ ~alpha.has) \in BOOLEAN
  BY <1>2
<1>4. /\ alpha' \in AlphaType /\ alpha'.at = alpha.at /\ alpha'.has = alpha.has
      /\ alpha'.pending => alpha.pending
      /\ active' \in BOOLEAN /\ stillReady' \in BOOLEAN /\ stillDone' = stillDone
      /\ stillReady => stillReady'
      /\ call' \in {"idle", "emit"} /\ via' = via /\ status' \in {status, "none"}
  BY <1>1, <1>2, <1>3, Stepped
<1>5. alpha.at <= Supply /\ stillDone' \in BOOLEAN
  BY <1>4, Numbers DEF StreamInv, Typed, TypeOK
<1>6. Alphas'
  <2>1. discarded' = discarded
    BY <1>1 DEF windowVars
  <2> QED  BY <1>1, <1>4, <2>1 DEF StreamInv, Alphas
<1> QED  BY <1>1, <1>4, <1>5, <1>6, WalkKeeps

LEMMA WalkImageKeeps ==
    ASSUME StreamInv, WalkImage
    PROVE  StreamInv'
<1>1. /\ Walking /\ InWalk /\ StillPending(Here) /\ Avail >= Here.len
      /\ Step(pos + 1, Here.len, Here.need, FALSE)
      /\ UNCHANGED <<file, fed, streaming, inputMode, eos, windowVars, scanVars>>
      /\ pos' = pos + 1 + Here.len
  BY DEF WalkImage, WalkOn, fileVars, modeVars
<1>2. Here.len \in Nat /\ Here.need \in 1..Here.len
  BY <1>1, Walked DEF StillPending
<1>3. Here.need \in Nat /\ Here.len >= Here.need
  BY <1>2
<1>4. /\ alpha' \in AlphaType /\ alpha'.at = alpha.at /\ alpha'.has = alpha.has
      /\ alpha'.pending => alpha.pending
      /\ active' \in BOOLEAN /\ stillReady' \in BOOLEAN /\ stillDone' = stillDone
      /\ stillReady'
      /\ call' \in {"idle", "emit"} /\ via' = via /\ status' \in {status, "none"}
  BY <1>1, <1>2, <1>3, Stepped
<1>5. alpha.at <= Supply /\ stillDone' \in BOOLEAN
  BY <1>4, Numbers DEF StreamInv, Typed, TypeOK
<1>6. Alphas'
  <2>1. discarded' = discarded
    BY <1>1 DEF windowVars
  <2> QED  BY <1>1, <1>4, <2>1 DEF StreamInv, Alphas
<1> QED  BY <1>1, <1>4, <1>5, <1>6, WalkKeeps

\* Past a chunk, what is known of the alpha stays: only a still that is first
\* in the file is passed over once it is out.
LEMMA PassedKeeps ==
    ASSUME StreamInv, NEW tag, WalkOn(tag), tag # "VP8" \/ ~StillPending(Here),
           UNCHANGED <<alpha, active, stillReady, stillDone>>, via' = via,
           call' \in {call, "idle"}, status' = status \/ status' \in {"none", "invalid", "picture"}
    PROVE  StreamInv'
<1>1. /\ Walking /\ InWalk /\ Avail >= Here.len /\ Here.tag = tag
      /\ UNCHANGED <<file, fed, streaming, inputMode, eos, windowVars, scanVars>>
      /\ pos' = pos + 1 + Here.len
  BY DEF WalkOn, fileVars, modeVars
<1>2. PICK k \in Chunk : /\ pos = Start[k] /\ Here = file.chunks[k] /\ RiffHeader <= pos
                         /\ pos > RiffHeader <=> k # 1
  BY <1>1, Walked
<1>3. file.chunks[1].tag = "VP8" => stillReady \/ stillDone
  <2>1. CASE k # 1
    BY <1>2, <2>1 DEF StreamInv, Alphas
  <2>2. CASE k = 1 /\ file.chunks[1].tag = "VP8"
    <3>1. ~animation
      BY <2>2 DEF StreamInv, Found
    <3> QED  BY <1>1, <1>2, <2>2, <3>1 DEF StillPending
  <2> QED  BY <2>1, <2>2
<1>4. Alphas'
  <2>1. discarded' = discarded
    BY <1>1 DEF windowVars
  <2> QED  BY <1>1, <1>3, <2>1 DEF StreamInv, Alphas, Walking
<1>5. /\ alpha' \in AlphaType /\ alpha'.at <= Supply
      /\ active' \in BOOLEAN /\ stillReady' \in BOOLEAN /\ stillDone' \in BOOLEAN
  BY Numbers DEF StreamInv, Typed, TypeOK
<1>6. call' \in {"idle", "walk", "emit"}
  BY <1>1 DEF Walking
<1> QED  BY <1>1, <1>4, <1>5, <1>6, WalkKeeps

LEMMA PassingKeeps ==
    ASSUME StreamInv, SkipChunk \/ RefuseAlpha \/ WalkFrame
    PROVE  StreamInv'
<1>1. CASE SkipChunk
  <2>1. PICK tag : WalkOn(tag) /\ (tag # "VP8" \/ ~StillPending(Here))
    BY <1>1 DEF SkipChunk
  <2> QED  BY <1>1, <2>1, PassedKeeps DEF SkipChunk, callVars
<1>2. CASE RefuseAlpha
  BY <1>2, PassedKeeps DEF RefuseAlpha, Returned
<1>3. CASE WalkFrame
  BY <1>3, PassedKeeps DEF WalkFrame, Returned
<1> QED  BY <1>1, <1>2, <1>3

\* The alpha of a still is taken only behind a canvas.
LEMMA WalkAlphaKeeps ==
    ASSUME StreamInv, WalkAlpha
    PROVE  StreamInv'
<1>1. /\ Walking /\ InWalk /\ Avail >= Here.len /\ Here.tag = "ALPH"
      /\ ~stillDone /\ ~active /\ ~alpha.pending
      /\ alpha' = IF AlphaAllowed THEN [pending |-> TRUE, has |-> TRUE, at |-> pos + 1]
                  ELSE [alpha EXCEPT !.pending = TRUE]
      /\ UNCHANGED <<file, fed, streaming, inputMode, eos, windowVars, scanVars>>
      /\ UNCHANGED <<active, stillReady, stillDone, call, via, status>>
      /\ pos' = pos + 1 + Here.len
  BY DEF WalkAlpha, WalkOn, fileVars, modeVars, callVars
<1>2. PICK k \in Chunk : /\ pos = Start[k] /\ Here = file.chunks[k] /\ RiffHeader <= pos
                         /\ pos > RiffHeader <=> k # 1
                         /\ RiffHeader < Start[k + 1] /\ Start[k + 1] <= scan.pos
  BY <1>1, Walked
<1>3. /\ file \in Files /\ pos \in Nat /\ pos + 1 <= Supply /\ scan.pos \in Nat
      /\ alpha.at \in Nat /\ alpha.at <= Supply /\ discarded \in Nat /\ discarded <= pos
      /\ alpha \in AlphaType
  BY <1>1, Numbers, Walked DEF StreamInv, Typed, TypeOK, Ordered
<1>4. scan.pos > RiffHeader
  BY <1>2, <1>3, ChunkEnds DEF RiffHeader
<1>5. file.chunks[1].tag = "VP8X" /\ scan.vp8x = 1
  <2>1. file.chunks[1].tag # "VP8"
    <3> SUFFICES ASSUME file.chunks[1].tag = "VP8" PROVE FALSE
      OBVIOUS
    <3>1. k # 1
      BY <1>1, <1>2
    <3>2. stillReady \/ stillDone
      BY <1>2, <3>1 DEF StreamInv, Alphas
    <3> QED  BY <1>1, <3>2 DEF StreamInv, Alphas, Walking
  <2> QED  BY <1>4, <2>1 DEF StreamInv, Found
<1>6. AlphaAllowed <=> file.chunks[1].alpha
  BY <1>5 DEF AlphaAllowed, Flags
<1>7. /\ alpha' \in AlphaType /\ alpha'.at <= Supply
      /\ alpha'.has => file.chunks[1].alpha
      /\ alpha'.has => discarded <= alpha'.at
  <2>1. CASE AlphaAllowed
    BY <1>1, <1>3, <1>6, <2>1 DEF AlphaType
  <2>2. CASE ~AlphaAllowed
    <3>1. ~alpha.has
      BY <1>6, <2>2 DEF StreamInv, Alphas
    <3> QED  BY <1>1, <1>3, <2>2, <3>1 DEF AlphaType
  <2> QED  BY <2>1, <2>2
<1>8. Alphas'
  <2>1. discarded' = discarded
    BY <1>1 DEF windowVars
  <2> QED  BY <1>1, <1>5, <1>7, <2>1 DEF StreamInv, Alphas, Walking
<1>9. active' \in BOOLEAN /\ stillReady' \in BOOLEAN /\ stillDone' \in BOOLEAN
      /\ call' \in {"idle", "walk", "emit"} /\ status' = status
  BY <1>1 DEF StreamInv, Typed, TypeOK, Walking
<1> QED  BY <1>1, <1>7, <1>8, <1>9, WalkKeeps

-----------------------------------------------------------------------------
(* The scan of the headers.                                                *)

LEMMA ChunksApart ==
    ASSUME file \in Files, NEW i \in Chunk, NEW k \in Chunk
    PROVE  /\ i \in Nat /\ k \in Nat
           /\ Start[i + 1] <= Start[k] <=> i < k
           /\ Start[i + 1] <= Start[k + 1] <=> i <= k
           /\ Start[i] = Start[k] <=> i = k
<1>1. /\ i \in Nat /\ k \in Nat
      /\ i \in 1..Count + 1 /\ k \in 1..Count + 1
      /\ i + 1 \in 1..Count + 1 /\ k + 1 \in 1..Count + 1
  BY ChunkEnds
<1>2. /\ Start[i + 1] \in Nat /\ Start[k] \in Nat /\ Start[k + 1] \in Nat
      /\ k < i + 1 <=> Start[k] < Start[i + 1]
      /\ k + 1 < i + 1 <=> Start[k + 1] < Start[i + 1]
      /\ Start[i] = Start[k] <=> i = k
  BY <1>1, StartsApart
<1> QED  BY <1>1, <1>2

\* The chunk the scan looks at.
LEMMA ScanAt ==
    ASSUME StreamInv, InHeaders, InScan
    PROVE  \E k \in Chunk :
              /\ scan.pos = Start[k] /\ Current = file.chunks[k]
              /\ Start[k] < Given /\ RiffHeader <= scan.pos
              /\ scan.pos = RiffHeader <=> k = 1
              /\ IsWhole <=> Start[k + 1] <= scan.end
              /\ scan.pos + 1 + Current.len = Start[k + 1]
              /\ Current.tag \in Tags
<1>1. /\ file \in Files /\ size \in Nat /\ discarded \in Nat /\ Given \in Nat /\ Given <= RiffEnd
      /\ RiffEnd \in Nat /\ scan.pos \in Nat /\ scan.end \in Nat /\ pos \in Nat
      /\ Least(RiffEnd, size) <= size
  BY Numbers
<1>2. /\ scan.end = Least(RiffEnd, size) /\ scan.pos > 0 /\ scan.end <= Given
      /\ scan.pos \in {0} \cup Starts /\ discarded <= pos /\ pos <= scan.pos
      /\ discarded <= size /\ buf = Units(discarded, size)
  BY DEF StreamInv, Scanning, Ordered, Window
<1>3. scan.pos \in Starts /\ scan.pos < Given /\ scan.pos < RiffEnd /\ scan.pos < size
      /\ discarded <= scan.pos
  BY <1>1, <1>2 DEF InScan
<1>4. PICK k \in Chunk : scan.pos = Start[k]
  BY <1>1, <1>3, ChunkAt
<1>5. Current = file.chunks[k]
  BY <1>1, <1>2, <1>3, <1>4, ReadIs DEF Current
<1>6. RiffHeader <= scan.pos
  BY <1>1, <1>3, FileEnd
<1>7. scan.pos = RiffHeader <=> k = 1
  <2>1. 1 \in Chunk /\ Start[1] = RiffHeader
    BY <1>1, FileFacts, StartIs
  <2> QED  BY <1>1, <1>4, <2>1, ChunksApart
<1>8. /\ Current.len \in Nat /\ Current.tag \in Tags
      /\ Start[k + 1] = scan.pos + 1 + Current.len
  BY <1>1, <1>4, <1>5, ChunkEnds, FileFacts
<1>9. IsWhole <=> Start[k + 1] <= scan.end
  BY <1>1, <1>8 DEF IsWhole
<1> QED  BY <1>3, <1>4, <1>5, <1>6, <1>7, <1>8, <1>9

\* scan_headers() starts where it stopped, with what there is now.
LEMMA ScanRiffKeeps ==
    ASSUME StreamInv, ScanRiff
    PROVE  StreamInv'
<1>1. /\ call = "headers" /\ (size >= RiffHeader \/ scan.pos > 0)
      /\ scan' = [scan EXCEPT !.pos = IF @ = 0 THEN RiffHeader ELSE @,
                              !.end = Least(RiffEnd, size),
                              !.truncated = RiffEnd > size]
      /\ call' = "chunks"
      /\ UNCHANGED <<file, fed, streaming, inputMode, eos, buf, borrowed, size, discarded, pos,
                     alpha, active, decoded, stillReady, stillDone, shown, headersValid, end,
                     animation, meta, via, status>>
  BY DEF ScanRiff, fileVars, modeVars, windowVars, walkVars
<1>2. /\ file \in Files /\ size \in Nat /\ discarded \in Nat /\ Given \in Nat /\ fed \in Nat
      /\ RiffEnd \in Nat /\ RiffHeader < RiffEnd /\ scan.pos \in Nat /\ pos \in Nat
      /\ size <= fed /\ Given <= fed /\ fed <= Supply /\ Supply \in Nat
      /\ Least(RiffEnd, size) \in Nat /\ Least(RiffEnd, size) <= Given
      /\ alpha.at \in Nat /\ end \in Nat
  BY Numbers
<1>3. /\ Start' = Start /\ Chunk' = Chunk /\ Starts' = Starts /\ Given' = Given /\ Supply' = Supply
      /\ RiffEnd' = RiffEnd
  BY <1>1, SameFile DEF Given
<1>4. /\ scan' = [pos |-> scan'.pos, end |-> scan'.end, truncated |-> scan'.truncated,
                  vp8x |-> scan.vp8x, sized |-> scan.sized, still |-> scan.still,
                  anim |-> scan.anim, frames |-> scan.frames, images |-> scan.images,
                  meta |-> scan.meta]
      /\ scan'.pos = IF scan.pos = 0 THEN RiffHeader ELSE scan.pos
      /\ scan'.end = Least(RiffEnd, size) /\ scan'.truncated \in BOOLEAN
      /\ ~scan'.truncated => RiffEnd <= size
  <2>1. PICK p, t : p = (IF scan.pos = 0 THEN RiffHeader ELSE scan.pos) /\ t = (RiffEnd > size)
    OBVIOUS
  <2>2. scan' = [scan EXCEPT !.pos = p, !.end = Least(RiffEnd, size), !.truncated = t]
    BY <1>1, <2>1
  <2>3. scan' = [pos |-> p, end |-> Least(RiffEnd, size), truncated |-> t,
                 vp8x |-> scan.vp8x, sized |-> scan.sized, still |-> scan.still,
                 anim |-> scan.anim, frames |-> scan.frames, images |-> scan.images,
                 meta |-> scan.meta]
    BY <2>2 DEF StreamInv, Typed, ScanTyped
  <2>4. t \in BOOLEAN /\ (~t => RiffEnd <= size)
    <3>1. CASE RiffEnd > size
      <4>1. t = TRUE
        BY <2>1, <3>1
      <4> QED  BY <4>1
    <3>2. CASE RiffEnd <= size
      <4>1. (RiffEnd > size) = FALSE
        BY <1>2, <3>2
      <4>2. t = FALSE
        BY <2>1, <4>1, Zenon
      <4> QED  BY <3>2, <4>2
    <3> QED  BY <1>2, <3>1, <3>2
  <2> QED  BY <2>1, <2>3, <2>4
<1>5. /\ scan'.vp8x = scan.vp8x /\ scan'.sized = scan.sized /\ scan'.still = scan.still
      /\ scan'.anim = scan.anim /\ scan'.frames = scan.frames /\ scan'.images = scan.images
      /\ scan'.meta = scan.meta
  BY <1>4
<1>6. /\ scan'.pos \in Nat /\ scan.pos <= scan'.pos /\ scan'.pos <= Given /\ scan'.pos > 0
      /\ scan'.pos \in Starts
      /\ scan'.pos = scan.pos \/ (scan.pos = 0 /\ pos = 0 /\ scan'.pos = RiffHeader)
  <2>1. RiffHeader \in Starts
    <3>1. 1 \in 1..Count + 1 /\ Start[1] = RiffHeader
      BY <1>2, FileFacts, StartIs
    <3> QED  BY <3>1 DEF Starts
  <2>2. scan.pos = 0 => RiffHeader <= Given
    BY <1>1, <1>2 DEF Given, Least, RiffHeader
  <2>3. scan.pos <= Given /\ pos <= scan.pos /\ scan.pos \in {0} \cup Starts
    BY DEF StreamInv, Ordered
  <2>4. CASE scan.pos = 0
    BY <1>2, <1>4, <2>1, <2>2, <2>3, <2>4 DEF RiffHeader
  <2>5. CASE scan.pos # 0
    BY <1>2, <1>4, <2>3, <2>5
  <2> QED  BY <2>4, <2>5
<1>7. \A i \in Chunk : /\ Start[i] \in Nat /\ Start[i + 1] \in Nat /\ RiffHeader < Start[i + 1]
                       /\ Start[i + 1] <= scan'.pos <=> Start[i + 1] <= scan.pos
  <2> SUFFICES ASSUME NEW i \in Chunk
               PROVE  /\ Start[i] \in Nat /\ Start[i + 1] \in Nat /\ RiffHeader < Start[i + 1]
                      /\ Start[i + 1] <= scan'.pos <=> Start[i + 1] <= scan.pos
    OBVIOUS
  <2>1. Start[i] \in Nat /\ Start[i + 1] \in Nat /\ Start[i] < Start[i + 1] /\ RiffHeader <= Start[i]
    BY <1>2, ChunkEnds, FileEnd
  <2> QED  BY <1>6, <2>1 DEF RiffHeader
<1>8. Typed'
  <2>1. /\ scan'.pos \in 0..Supply /\ scan'.end \in 0..Supply
    BY <1>2, <1>4, <1>6
  <2>2. ScanTyped'
    BY <1>4, <1>5 DEF StreamInv, Typed, ScanTyped
  <2>3. TypeOK'
    BY <1>1, <1>3, <1>4, <1>5, <2>1 DEF StreamInv, Typed, TypeOK
  <2> QED  BY <1>1, <2>2, <2>3 DEF StreamInv, Typed, AlphaType
<1>9. Calls' /\ Window'
  BY <1>1, <1>3 DEF StreamInv, Calls, Window
<1>10. Ordered'
  <2>1. scan'.end <= Given
    BY <1>2, <1>4
  <2>2. pos <= scan'.pos
    BY <1>2, <1>6 DEF StreamInv, Ordered
  <2> QED  BY <1>1, <1>3, <1>6, <1>7, <2>1, <2>2 DEF StreamInv, Ordered
<1>11. Scanning'
  <2>1. scan'.end = Least(RiffEnd', size') /\ (~scan'.truncated => RiffEnd' <= size')
    BY <1>1, <1>3, <1>4
  <2> QED  BY <1>1, <1>6, <2>1 DEF Scanning
<1>12. Found'
  <2>1. \A tag : Tagged(tag)' = Tagged(tag)
    BY <1>1, SameFile
  <2>2. \A i \in Tagged("VP8") \cup Tagged("VP8X") : i \in Chunk
    BY DEF Tagged
  <2>3. scan.vp8x # 0 => scan.vp8x \in Tagged("VP8X") /\ Start[scan.vp8x + 1] <= scan'.pos
    BY <1>7, <2>2 DEF StreamInv, Found
  <2>4. scan.images = 0 => \A i \in Tagged("VP8") : scan'.pos < Start[i + 1]
    <3> SUFFICES ASSUME scan.images = 0, NEW i \in Tagged("VP8") PROVE scan'.pos < Start[i + 1]
      OBVIOUS
    <3>1. i \in Chunk /\ scan.pos < Start[i + 1]
      BY <2>2 DEF StreamInv, Found
    <3> QED  BY <1>6, <1>7, <3>1
  <2>5. scan'.pos > RiffHeader => scan.pos > RiffHeader
    BY <1>6 DEF RiffHeader
  <2> QED  BY <1>1, <1>3, <1>5, <2>1, <2>3, <2>4, <2>5 DEF StreamInv, Found
<1>13. FoundMeta'
  <2>1. Tagged("META")' = Tagged("META") /\ \A k, p : FirstMeta(k, p)' = FirstMeta(k, p)
    BY <1>1, SameFile
  <2>2. \A k : FirstMeta(k, scan'.pos) = FirstMeta(k, scan.pos)
    BY <1>7 DEF FirstMeta, Tagged
  <2>3. \A k : FirstMeta(k, scan.pos)' = FirstMeta(k, scan.pos)
    <3> SUFFICES ASSUME NEW k PROVE FirstMeta(k, scan.pos)' = FirstMeta(k, scan.pos)
      OBVIOUS
    <3>1. PICK p : p = scan'.pos
      OBVIOUS
    <3>2. FirstMeta(k, p)' = FirstMeta(k, p) /\ FirstMeta(k, p) = FirstMeta(k, scan.pos)
      BY <2>1, <2>2, <3>1
    <3>3. FirstMeta(k, scan.pos)' = FirstMeta(k, p)'
      BY <3>1 DEF FirstMeta
    <3> QED  BY <3>2, <3>3
  <2>4. \A i \in Tagged("META") : i \in Chunk
    BY DEF Tagged
  <2> QED  BY <1>1, <1>3, <1>5, <1>7, <2>1, <2>3, <2>4 DEF StreamInv, FoundMeta
<1>14. Copied'
  <2>1. Tagged("META")' = Tagged("META")
    BY <1>1, SameFile
  <2>2. InHeaders'
    BY <1>1 DEF InHeaders
  <2> QED  BY <1>1, <1>3, <1>5, <2>1, <2>2 DEF StreamInv, Copied
<1>15. ForGood'
  <2>1. pos # 0 => scan'.pos = scan.pos
    BY <1>6
  <2>2. pos # 0 /\ Halted => Halted'
    BY <1>1, <1>2, <1>3, <1>5, <2>1, HaltedStays
  <2> QED  BY <1>1, <2>2 DEF StreamInv, ForGood
<1>16. Alphas'
  BY <1>1, <1>2, AlphasSame DEF StreamInv, Alphas
<1> QED  BY <1>8, <1>9, <1>10, <1>11, <1>12, <1>13, <1>14, <1>15, <1>16 DEF StreamInv

\* A refusal that is for good is of the chunk the scan looks at.
LEMMA HaltedHere ==
    ASSUME file \in Files, Halted, NEW k \in Chunk, scan.pos = Start[k]
    PROVE  /\ Start[k] < Given /\ Refused(file.chunks[k])
           /\ \/ Start[k + 1] <= Given
              \/ ~FirstChunk(file.chunks[k])
              \/ file.chunks[k].tag = "VP8" /\ scan.images = 0 /\ AnimDeclared
<1>1. PICK i \in Chunk :
          /\ scan.pos = Start[i] /\ Start[i] < Given /\ Refused(file.chunks[i])
          /\ \/ Start[i + 1] <= Given
             \/ ~FirstChunk(file.chunks[i])
             \/ file.chunks[i].tag = "VP8" /\ scan.images = 0 /\ AnimDeclared
  BY DEF Halted
<1>2. i = k
  BY <1>1, ChunksApart
<1> QED  BY <1>1, <1>2

LEMMA ScanAllKeeps ==
    ASSUME StreamInv, ScanAll
    PROVE  StreamInv'
<1>1. /\ call = "chunks" /\ ~InScan /\ call' = "scanned"
      /\ UNCHANGED <<file, fed, streaming, inputMode, eos, buf, borrowed, size, discarded, pos,
                     alpha, active, decoded, stillReady, stillDone, shown, scan, headersValid,
                     end, animation, meta, via, status>>
  BY DEF ScanAll, fileVars, modeVars, windowVars, walkVars, scanVars
<1>2. /\ file \in Files /\ scan.pos \in Nat /\ scan.end \in Nat /\ Given \in Nat
      /\ pos \in Nat /\ discarded \in Nat /\ alpha.at \in Nat /\ fed \in Nat
      /\ inputMode = "append" => Least(RiffEnd, size) = Given
  BY Numbers
<1>3. scan.end <= scan.pos
  BY <1>1, <1>2 DEF InScan
<1>4. Start' = Start /\ Chunk' = Chunk /\ RiffEnd' = RiffEnd /\ Supply' = Supply /\ Given' = Given
  BY <1>1, SameFile DEF Given
<1>5. Typed' /\ Calls' /\ Window'
  <2>1. TypeOK' /\ ScanTyped'
    BY <1>1, <1>4 DEF StreamInv, Typed, TypeOK, ScanTyped
  <2>2. Typed'
    BY <1>1, <2>1 DEF StreamInv, Typed, AlphaType
  <2> QED  BY <1>1, <1>4, <2>2 DEF StreamInv, Calls, Window
<1>6. Ordered'
  BY <1>1, <1>2, OrderedSame DEF StreamInv, Ordered
<1>7. Scanning'
  <2>1. \A i \in Chunk : Start[i + 1] <= scan.end => Start[i + 1] <= scan.pos
    <3> SUFFICES ASSUME NEW i \in Chunk, Start[i + 1] <= scan.end PROVE Start[i + 1] <= scan.pos
      OBVIOUS
    <3>1. Start[i + 1] \in Nat
      BY <1>2, ChunkEnds
    <3> QED  BY <1>2, <1>3, <3>1
  <2>2. scan.end = Least(RiffEnd, size) /\ scan.pos > 0 /\ (~scan.truncated => RiffEnd <= size)
    BY <1>1 DEF StreamInv, Scanning, InHeaders
  <2> QED  BY <1>1, <1>4, <2>1, <2>2 DEF Scanning
<1>8. Found' /\ FoundMeta'
  BY <1>1, FoundSame DEF StreamInv
<1>9. Copied'
  BY <1>1, CopiedSame DEF StreamInv, InHeaders
<1>10. ForGood'
  <2>1. inputMode = "append" => ~Halted
    <3> SUFFICES ASSUME inputMode = "append", Halted PROVE FALSE
      OBVIOUS
    <3>1. PICK i \in Chunk : scan.pos = Start[i] /\ Start[i] < Given
      BY DEF Halted
    <3>2. scan.end = Given
      BY <1>1, <1>2 DEF StreamInv, Scanning, InHeaders
    <3> QED  BY <1>2, <1>3, <3>1, <3>2
  <2> QED  BY <1>1, <2>1 DEF StreamInv, ForGood
<1>11. Alphas'
  BY <1>1, <1>2, AlphasSame DEF StreamInv, Alphas
<1> QED  BY <1>5, <1>6, <1>7, <1>8, <1>9, <1>10, <1>11 DEF StreamInv

\* A chunk that has not all arrived.
LEMMA NoConflict ==
    ASSUME StreamInv, ~Conflicts, NEW k \in Chunk, scan.pos = Start[k],
           file.chunks[k].tag = "VP8", scan.images = 0
    PROVE  ~Conflict(file.chunks[k])
<1> SUFFICES ASSUME Conflict(file.chunks[k]) PROVE FALSE
  OBVIOUS
<1>1. /\ file \in Files /\ scan.pos \in Nat
  BY Numbers
<1>2. /\ scan.vp8x \in Tagged("VP8X") /\ Start[scan.vp8x + 1] <= scan.pos
      /\ ~file.chunks[k].agrees
      /\ \A i \in Tagged("VP8") : scan.pos < Start[i + 1]
  BY DEF StreamInv, Found, Conflict
<1>3. scan.vp8x \in Chunk /\ scan.vp8x < k
  <2>1. scan.vp8x \in Chunk
    BY <1>2 DEF Tagged
  <2> QED  BY <1>1, <1>2, <2>1, ChunksApart
<1>4. Before(k, "VP8X") # {}
  BY <1>2, <1>3 DEF Before
<1>5. Before(k, "VP8") = {}
  <2> SUFFICES ASSUME NEW j \in Tagged("VP8"), j < k PROVE FALSE
    BY DEF Before
  <2>1. j \in Chunk /\ scan.pos < Start[j + 1]
    BY <1>2 DEF Tagged
  <2>2. Start[j + 1] <= Start[k] /\ Start[j + 1] \in Nat
    BY <1>1, <2>1, ChunksApart, ChunkEnds
  <2> QED  BY <1>1, <2>1, <2>2
<1>6. k \in Tagged("VP8") /\ IsImage(k)
  BY <1>5 DEF Tagged, IsImage
<1> QED  BY <1>2, <1>4, <1>6 DEF Conflicts

LEMMA ScanPartialKeeps ==
    ASSUME StreamInv, ~Conflicts, ScanPartial
    PROVE  StreamInv'
<1>1. PICK c, image, header :
          /\ c = Current
          /\ image = (streaming /\ c.tag = "VP8" /\ scan.images = 0)
          /\ header = (image /\ scan.end > scan.pos + 1)
  OBVIOUS
<1>2. /\ call = "chunks" /\ InScan /\ ~IsWhole
      /\ scan' = [scan EXCEPT !.truncated = TRUE,
                              !.still = @ \/ (image /\ ~AnimDeclared),
                              !.sized = @ \/ (header /\ ~AnimDeclared)]
      /\ call' = IF ~FirstChunk(c) \/ (image /\ AnimDeclared) \/ (header /\ Conflict(c))
                 THEN "refuse" ELSE "scanned"
      /\ UNCHANGED <<file, fed, streaming, inputMode, eos, buf, borrowed, size, discarded, pos,
                     alpha, active, decoded, stillReady, stillDone, shown, headersValid,
                     end, animation, meta, via, status>>
  BY <1>1 DEF ScanPartial, fileVars, modeVars, windowVars, walkVars
<1>3. /\ file \in Files /\ scan.pos \in Nat /\ scan.end \in Nat /\ Given \in Nat
      /\ pos \in Nat /\ discarded \in Nat /\ alpha.at \in Nat /\ fed \in Nat
      /\ inputMode = "append" => Least(RiffEnd, size) = Given
  BY Numbers
<1>4. Start' = Start /\ Chunk' = Chunk /\ RiffEnd' = RiffEnd /\ Supply' = Supply /\ Given' = Given
      /\ Starts' = Starts
  BY <1>2, SameFile DEF Given
<1>5. PICK k \in Chunk :
          /\ scan.pos = Start[k] /\ c = file.chunks[k] /\ Start[k] < Given
          /\ ~(Start[k + 1] <= scan.end)
  BY <1>1, <1>2, ScanAt DEF InHeaders
<1>6. /\ scan' = [pos |-> scan.pos, end |-> scan.end, truncated |-> TRUE,
                  vp8x |-> scan.vp8x, sized |-> scan'.sized, still |-> scan'.still,
                  anim |-> scan.anim, frames |-> scan.frames, images |-> scan.images,
                  meta |-> scan.meta]
      /\ scan'.still \in BOOLEAN /\ scan'.sized \in BOOLEAN
      /\ scan.still => scan'.still
      /\ scan.sized => scan'.sized
  <2>1. PICK st, sz : st = (scan.still \/ (image /\ ~AnimDeclared))
                      /\ sz = (scan.sized \/ (header /\ ~AnimDeclared))
    OBVIOUS
  <2>2. scan' = [scan EXCEPT !.truncated = TRUE, !.still = st, !.sized = sz]
    BY <1>2, <2>1
  <2>3. scan' = [pos |-> scan.pos, end |-> scan.end, truncated |-> TRUE,
                 vp8x |-> scan.vp8x, sized |-> sz, still |-> st,
                 anim |-> scan.anim, frames |-> scan.frames, images |-> scan.images,
                 meta |-> scan.meta]
    BY <2>2 DEF StreamInv, Typed, ScanTyped
  <2>4. st \in BOOLEAN /\ sz \in BOOLEAN /\ (scan.still => st) /\ (scan.sized => sz)
    BY <2>1, Zenon
  <2> QED  BY <2>3, <2>4
<1>7. /\ scan'.pos = scan.pos /\ scan'.end = scan.end /\ scan'.truncated = TRUE
      /\ scan'.vp8x = scan.vp8x /\ scan'.anim = scan.anim /\ scan'.frames = scan.frames
      /\ scan'.images = scan.images /\ scan'.meta = scan.meta
  BY <1>6
<1>8. Typed' /\ Calls' /\ Window'
  <2>1. ScanTyped'
    BY <1>6, <1>7 DEF StreamInv, Typed, ScanTyped
  <2>2. TypeOK'
    BY <1>2, <1>4, <1>6, <1>7 DEF StreamInv, Typed, TypeOK
  <2>3. Typed'
    BY <1>2, <2>1, <2>2 DEF StreamInv, Typed, AlphaType
  <2> QED  BY <1>2, <1>4, <2>3 DEF StreamInv, Calls, Window
<1>9. Ordered'
  BY <1>2, <1>4, <1>7 DEF StreamInv, Ordered
<1>10. Scanning'
  <2>1. \A i \in Chunk : Start[i + 1] <= scan.end => Start[i + 1] <= scan.pos
    <3> SUFFICES ASSUME NEW i \in Chunk, Start[i + 1] <= scan.end PROVE Start[i + 1] <= scan.pos
      OBVIOUS
    <3>1. Start[i + 1] \in Nat /\ Start[k + 1] \in Nat
      BY <1>3, ChunkEnds
    <3>2. ~(Start[k + 1] <= Start[i + 1])
      BY <1>3, <1>5, <3>1
    <3>3. i < k
      <4>1. i \in Nat /\ k \in Nat /\ (Start[k + 1] <= Start[i + 1] <=> k <= i)
        BY <1>3, ChunksApart
      <4> QED  BY <3>2, <4>1
    <3> QED  BY <1>3, <1>5, <3>3, ChunksApart
  <2>2. scan.end = Least(RiffEnd, size) /\ scan.pos > 0
    BY <1>2 DEF StreamInv, Scanning, InHeaders
  <2> QED  BY <1>2, <1>4, <1>7, <2>1, <2>2 DEF Scanning
<1>11. Found' /\ FoundMeta'
  <2>1. \A tag : Tagged(tag)' = Tagged(tag)
    BY <1>2, SameFile
  <2>2. Found'
    BY <1>2, <1>4, <1>6, <1>7, <2>1 DEF StreamInv, Found
  <2>3. \A w : FirstMeta(w, scan.pos)' = FirstMeta(w, scan.pos)
    BY <1>2, <1>7, SameFile DEF FirstMeta
  <2> QED  BY <1>2, <1>4, <1>7, <2>1, <2>2, <2>3 DEF StreamInv, FoundMeta
<1>12. Copied'
  <2>1. Tagged("META")' = Tagged("META")
    BY <1>2, SameFile
  <2>2. InHeaders /\ InHeaders'
    BY <1>2 DEF InHeaders
  <2> QED  BY <1>2, <1>4, <1>7, <2>1, <2>2 DEF StreamInv, Copied
<1>13. ForGood'
  <2> SUFFICES ASSUME inputMode = "append"
               PROVE  /\ call' = "refuse" => Halted'
                      /\ ~headersValid /\ pos # 0 => Halted' /\ call' # "scanned"
    BY <1>2 DEF ForGood
  <2>1. Halted => Halted'
    BY <1>2, <1>3, <1>4, <1>6, <1>7, HaltedStays
  <2>2. streaming /\ scan.end = Given
    BY <1>2, <1>3 DEF StreamInv, Calls, Scanning, InHeaders
  <2>3. call' = "refuse" => Halted
    <3> SUFFICES ASSUME call' = "refuse" PROVE Halted
      OBVIOUS
    <3>1. ~FirstChunk(c) \/ (image /\ AnimDeclared)
      <4>1. image /\ Conflict(c) => FALSE
        BY <1>1, <1>5, NoConflict
      <4>2. header => image
        BY <1>1
      <4> QED  BY <1>2, <4>1, <4>2
    <3>2. Refused(c) /\ (~FirstChunk(c) \/ (c.tag = "VP8" /\ scan.images = 0 /\ AnimDeclared))
      BY <1>1, <3>1 DEF Refused
    <3> QED  BY <1>5, <3>2 DEF Halted
  <2>4. Halted => call' # "scanned"
    <3> SUFFICES ASSUME Halted PROVE call' = "refuse"
      OBVIOUS
    <3>1. \/ Start[k + 1] <= Given
          \/ ~FirstChunk(c)
          \/ c.tag = "VP8" /\ scan.images = 0 /\ AnimDeclared
      BY <1>3, <1>5, HaltedHere
    <3> QED  BY <1>1, <1>2, <1>5, <2>2, <3>1
  <2> QED  BY <2>1, <2>3, <2>4 DEF StreamInv, ForGood
<1>14. Alphas'
  BY <1>2, <1>3, AlphasSame DEF StreamInv, Alphas
<1> QED  BY <1>8, <1>9, <1>10, <1>11, <1>12, <1>13, <1>14 DEF StreamInv

LEMMA CountConflictNever ==
    ASSUME StreamInv, ~Conflicts
    PROVE  ~CountConflict
<1> SUFFICES ASSUME CountConflict PROVE FALSE
  OBVIOUS
<1>1. /\ call = "chunks" /\ InScan /\ Current.tag = "VP8" /\ scan.images = 0
      /\ Conflict(Current)
  BY DEF CountConflict
<1>2. PICK k \in Chunk : scan.pos = Start[k] /\ Current = file.chunks[k]
  BY <1>1, ScanAt DEF InHeaders
<1> QED  BY <1>1, <1>2, NoConflict

\* A chunk goes into what the scan has found.
LEMMA ScanChunkKeeps ==
    ASSUME StreamInv, ~Conflicts, ScanChunk
    PROVE  StreamInv'
<1>1. PICK c : c = Current
  OBVIOUS
<1>2. PICK at : at = CHOOSE i \in Chunk : Start[i] = scan.pos
  OBVIOUS
<1>3. PICK m : m = IF c.tag = "META" /\ c.which \notin DOMAIN scan.meta
                   THEN [w \in DOMAIN scan.meta \cup {c.which} |->
                           IF w = c.which THEN scan.pos + 1 ELSE scan.meta[w]]
                   ELSE scan.meta
  OBVIOUS
<1>4. PICK sized, still, anim :
          /\ sized = (scan.sized \/ c.tag \in {"VP8X", "VP8"})
          /\ still = (scan.still \/ c.tag \in {"ALPH", "VP8"})
          /\ anim = (scan.anim \/ c.tag = "ANIM")
  OBVIOUS
<1>5. /\ call = "chunks" /\ InScan /\ IsWhole /\ ~Refused(c)
      /\ scan' = [scan EXCEPT
            !.pos    = @ + 1 + c.len,
            !.vp8x   = IF c.tag = "VP8X" THEN at ELSE @,
            !.sized  = sized,
            !.still  = still,
            !.anim   = anim,
            !.frames = IF c.tag = "ANMF" THEN @ + 1 ELSE @,
            !.images = IF c.tag = "VP8" THEN @ + 1 ELSE @,
            !.meta   = m]
      /\ UNCHANGED <<file, fed, streaming, inputMode, eos, buf, borrowed, size, discarded, pos,
                     alpha, active, decoded, stillReady, stillDone, shown, headersValid,
                     end, animation, meta, call, via, status>>
  BY <1>1, <1>2, <1>3, <1>4
     DEF ScanChunk, fileVars, modeVars, windowVars, walkVars, callVars
<1>6. /\ file \in Files /\ scan.pos \in Nat /\ scan.end \in Nat /\ Given \in Nat
      /\ pos \in Nat /\ discarded \in Nat /\ alpha.at \in Nat /\ fed \in Nat /\ size \in Nat
      /\ Given <= fed /\ fed <= Supply /\ Supply \in Nat /\ Least(RiffEnd, size) <= size
  BY Numbers
<1>7. Start' = Start /\ Chunk' = Chunk /\ RiffEnd' = RiffEnd /\ Supply' = Supply /\ Given' = Given
      /\ Starts' = Starts
  BY <1>5, SameFile DEF Given
<1>8. PICK k \in Chunk :
          /\ scan.pos = Start[k] /\ c = file.chunks[k] /\ Start[k] < Given
          /\ RiffHeader <= scan.pos
          /\ scan.pos = RiffHeader <=> k = 1
          /\ Start[k + 1] <= scan.end
          /\ scan.pos + 1 + c.len = Start[k + 1]
  BY <1>1, <1>5, ScanAt DEF InHeaders
<1>9. at = k
  BY <1>2, <1>6, <1>8, ChunksApart
<1>10. /\ scan.end = Least(RiffEnd, size) /\ scan.pos > 0 /\ (~scan.truncated => RiffEnd <= size)
       /\ scan.end <= Given /\ pos <= scan.pos /\ discarded <= pos /\ scan.end <= size
  BY <1>5, <1>6 DEF StreamInv, Scanning, InHeaders, Ordered
<1>11. /\ Start[k] \in Nat /\ Start[k + 1] \in Nat /\ Start[k] < Start[k + 1]
       /\ Start[k + 1] <= Given /\ Start[k + 1] \in Starts /\ Start[k + 1] <= size
       /\ k \in Nat /\ RiffHeader < Start[k + 1]
  BY <1>6, <1>8, <1>10, ChunkEnds DEF RiffHeader
<1>12. /\ scan' = [pos |-> Start[k + 1], end |-> scan.end, truncated |-> scan.truncated,
                   vp8x |-> IF c.tag = "VP8X" THEN k ELSE scan.vp8x, sized |-> sized,
                   still |-> still, anim |-> anim,
                   frames |-> IF c.tag = "ANMF" THEN scan.frames + 1 ELSE scan.frames,
                   images |-> IF c.tag = "VP8" THEN scan.images + 1 ELSE scan.images,
                   meta |-> m]
  BY <1>5, <1>8, <1>9 DEF StreamInv, Typed, ScanTyped
<1>13. /\ scan'.pos = Start[k + 1] /\ scan'.end = scan.end /\ scan'.truncated = scan.truncated
       /\ scan'.vp8x = (IF c.tag = "VP8X" THEN k ELSE scan.vp8x) /\ scan'.sized = sized
       /\ scan'.still = still /\ scan'.anim = anim /\ scan'.meta = m
       /\ scan'.frames = (IF c.tag = "ANMF" THEN scan.frames + 1 ELSE scan.frames)
       /\ scan'.images = (IF c.tag = "VP8" THEN scan.images + 1 ELSE scan.images)
  BY <1>12
<1>14. /\ sized \in BOOLEAN /\ still \in BOOLEAN /\ anim \in BOOLEAN
       /\ scan.sized => sized
       /\ scan.still => still
       /\ scan.anim => anim
       /\ c.tag \in {"VP8X", "VP8"} => sized
       /\ c.tag = "VP8" => still
       /\ anim => scan.anim \/ c.tag = "ANIM"
  BY <1>4, Zenon
<1>15. Typed' /\ Calls' /\ Window'
  <2>1. m = [w \in DOMAIN m |-> m[w]]
    <3>1. scan.meta = [w \in DOMAIN scan.meta |-> scan.meta[w]]
      BY DEF StreamInv, Typed, ScanTyped
    <3> QED  BY <1>3, <3>1
  <2>2. ScanTyped'
    BY <1>12, <1>13, <2>1 DEF ScanTyped
  <2>3. /\ scan'.pos \in 0..Supply /\ scan'.vp8x \in {0} \cup Chunk
        /\ scan'.frames \in Nat /\ scan'.images \in Nat
    BY <1>6, <1>11, <1>13 DEF StreamInv, Typed, TypeOK
  <2>4. TypeOK'
    BY <1>5, <1>7, <1>13, <1>14, <2>3 DEF StreamInv, Typed, TypeOK
  <2>5. Typed'
    BY <1>5, <2>2, <2>4 DEF StreamInv, Typed, AlphaType
  <2> QED  BY <1>5, <1>7, <2>5 DEF StreamInv, Calls, Window
<1>16. \A i \in Chunk : /\ Start[i + 1] <= scan.pos => Start[i + 1] <= Start[k + 1]
                        /\ i \in Nat /\ Start[i + 1] \in Nat
                        /\ Start[i + 1] <= scan.pos <=> i < k
                        /\ Start[i + 1] <= Start[k + 1] <=> i <= k
  <2> SUFFICES ASSUME NEW i \in Chunk
               PROVE  /\ Start[i + 1] <= scan.pos => Start[i + 1] <= Start[k + 1]
                      /\ i \in Nat /\ Start[i + 1] \in Nat
                      /\ Start[i + 1] <= scan.pos <=> i < k
                      /\ Start[i + 1] <= Start[k + 1] <=> i <= k
    OBVIOUS
  <2>1. Start[i + 1] \in Nat /\ i \in Nat
    BY <1>6, ChunkEnds
  <2>2. /\ Start[i + 1] <= Start[k] <=> i < k
        /\ Start[i + 1] <= Start[k + 1] <=> i <= k
    BY <1>6, ChunksApart
  <2> QED  BY <1>8, <1>11, <2>1, <2>2
<1>17. Ordered'
  <2>1. /\ Start[k + 1] <= Given /\ scan'.end <= Given /\ pos <= Start[k + 1]
        /\ Start[k + 1] \in {0} \cup Starts
    BY <1>6, <1>8, <1>10, <1>11, <1>13
  <2> QED  BY <1>5, <1>7, <1>13, <1>16, <2>1 DEF StreamInv, Ordered
<1>18. Scanning'
  BY <1>5, <1>7, <1>10, <1>11, <1>13 DEF Scanning, InHeaders
<1>19. Found'
  <2>1. \A tag : Tagged(tag)' = Tagged(tag)
    BY <1>5, SameFile
  <2>2. \A tag : \A i \in Tagged(tag) : i \in Chunk /\ file.chunks[i].tag = tag
    BY DEF Tagged
  <2>3. scan'.vp8x # 0 => scan'.vp8x \in Tagged("VP8X") /\ Start[scan'.vp8x + 1] <= Start[k + 1]
    <3>1. CASE c.tag = "VP8X"
      BY <1>8, <1>11, <1>13, <3>1 DEF Tagged
    <3>2. CASE c.tag # "VP8X"
      BY <1>13, <1>16, <2>2, <3>2 DEF StreamInv, Found
    <3> QED  BY <3>1, <3>2
  <2>4. scan'.images = 0 => \A i \in Tagged("VP8") : Start[k + 1] < Start[i + 1]
    <3> SUFFICES ASSUME scan'.images = 0, NEW i \in Tagged("VP8") PROVE Start[k + 1] < Start[i + 1]
      OBVIOUS
    <3>1. c.tag # "VP8" /\ scan.images = 0
      <4>1. scan.images \in Nat
        BY DEF StreamInv, Typed, TypeOK
      <4> QED  BY <1>13, <4>1
    <3>2. i \in Chunk /\ i # k /\ scan.pos < Start[i + 1]
      BY <1>8, <2>2, <3>1 DEF StreamInv, Found
    <3> QED  BY <1>6, <1>11, <1>16, <3>2
  <2>5. /\ sized /\ file.chunks[1].tag \in {"VP8X", "VP8"}
        /\ file.chunks[1].tag = "VP8X" => scan'.vp8x = 1
        /\ file.chunks[1].tag = "VP8" => still
    <3>1. CASE k = 1
      <4>1. c.tag \in {"VP8X", "VP8"}
        BY <1>5, <1>8, <3>1 DEF Refused, FirstChunk
      <4> QED  BY <1>8, <1>13, <1>14, <3>1, <4>1
    <3>2. CASE k # 1
      <4>1. scan.pos > RiffHeader
        BY <1>6, <1>8, <3>2 DEF RiffHeader
      <4>2. file.chunks[1].tag = "VP8X" => c.tag # "VP8X"
        BY <1>5, <4>1 DEF StreamInv, Found, Refused
      <4> QED  BY <1>13, <1>14, <4>1, <4>2 DEF StreamInv, Found
    <3> QED  BY <3>1, <3>2
  <2>6. file.chunks[1].tag = "VP8" => ~anim
    <3> SUFFICES ASSUME file.chunks[1].tag = "VP8", anim PROVE FALSE
      OBVIOUS
    <3>1. c.tag = "ANIM"
      BY <1>14 DEF StreamInv, Found
    <3>2. k # 1
      BY <1>8, <3>1
    <3>3. scan.pos > RiffHeader
      BY <1>6, <1>8, <3>2 DEF RiffHeader
    <3> QED  BY <1>5, <3>1, <3>3 DEF StreamInv, Found, Refused
  <2>7. animation => anim
    BY <1>14 DEF StreamInv, Found
  <2> QED  BY <1>5, <1>7, <1>13, <2>1, <2>3, <2>4, <2>5, <2>6, <2>7 DEF Found
<1>20. FoundMeta'
  <2>1. Tagged("META")' = Tagged("META")
    BY <1>5, SameFile
  <2>2. \A i \in Tagged("META") : i \in Chunk /\ file.chunks[i].tag = "META"
    BY DEF Tagged
  <2>3. \A i \in Tagged("META") : Start[i + 1] <= Start[k + 1] => file.chunks[i].which \in DOMAIN m
    <3> SUFFICES ASSUME NEW i \in Tagged("META"), Start[i + 1] <= Start[k + 1]
                 PROVE  file.chunks[i].which \in DOMAIN m
      OBVIOUS
    <3>1. DOMAIN scan.meta \subseteq DOMAIN m
      BY <1>3
    <3>2. CASE i = k
      BY <1>3, <1>8, <2>2, <3>2
    <3>3. CASE i # k
      <4>1. i \in Chunk /\ i \in Nat /\ k \in Nat
        BY <1>11, <1>16, <2>2
      <4>2. i <= k
        BY <1>16, <4>1
      <4>3. i < k
        BY <3>3, <4>1, <4>2
      <4>4. Start[i + 1] <= scan.pos
        BY <1>16, <4>1, <4>3
      <4> QED  BY <3>1, <4>4 DEF StreamInv, FoundMeta
    <3> QED  BY <3>2, <3>3
  <2>4. \A w \in DOMAIN m : \E i \in FirstMeta(w, Start[k + 1]) : m[w] = Start[i] + 1
    <3> SUFFICES ASSUME NEW w \in DOMAIN m
                 PROVE  \E i \in FirstMeta(w, Start[k + 1]) : m[w] = Start[i] + 1
      OBVIOUS
    <3>1. CASE w \in DOMAIN scan.meta
      <4>1. m[w] = scan.meta[w]
        BY <1>3, <3>1
      <4>2. PICK i \in FirstMeta(w, scan.pos) : scan.meta[w] = Start[i] + 1
        BY <3>1 DEF StreamInv, FoundMeta
      <4>3. i \in FirstMeta(w, Start[k + 1])
        BY <1>16, <2>2 DEF FirstMeta
      <4> QED  BY <4>1, <4>2, <4>3
    <3>2. CASE w \notin DOMAIN scan.meta
      <4>1. c.tag = "META" /\ w = c.which /\ m[w] = scan.pos + 1
        BY <1>3, <3>2
      <4>2. k \in Tagged("META")
        BY <1>8, <4>1 DEF Tagged
      <4>3. \A j \in Before(k, "META") : file.chunks[j].which # w
        <5> SUFFICES ASSUME NEW j \in Tagged("META"), j < k, file.chunks[j].which = w PROVE FALSE
          BY DEF Before
        <5>1. Start[j + 1] <= scan.pos
          BY <1>16, <2>2
        <5> QED  BY <3>2, <5>1 DEF StreamInv, FoundMeta
      <4>4. k \in FirstMeta(w, Start[k + 1])
        BY <1>8, <1>11, <4>1, <4>2, <4>3 DEF FirstMeta
      <4> QED  BY <1>8, <4>1, <4>4
    <3> QED  BY <3>1, <3>2
  <2>5. \A w : FirstMeta(w, scan.pos)' = FirstMeta(w, Start[k + 1])
    <3> SUFFICES ASSUME NEW w PROVE FirstMeta(w, scan.pos)' = FirstMeta(w, Start[k + 1])
      OBVIOUS
    <3>1. PICK p : p = Start[k + 1]
      OBVIOUS
    <3>2. FirstMeta(w, p)' = FirstMeta(w, p)
      BY <1>5, SameFile
    <3>3. FirstMeta(w, scan.pos)' = FirstMeta(w, p)'
      BY <1>13, <3>1 DEF FirstMeta
    <3> QED  BY <3>1, <3>2, <3>3
  <2> QED  BY <1>5, <1>7, <1>13, <2>1, <2>3, <2>4, <2>5 DEF FoundMeta
<1>21. Copied'
  <2>1. Tagged("META")' = Tagged("META") /\ InHeaders'
    BY <1>5, SameFile DEF InHeaders
  <2>2. DOMAIN meta \subseteq DOMAIN m
    BY <1>3 DEF StreamInv, Copied
  <2>3. ASSUME NEW i \in Tagged("META"), NEW w, w = file.chunks[i].which,
               w \in DOMAIN m, m[w] = Start[i] + 1
        PROVE  IF w \in DOMAIN meta THEN meta[w] = Units(Start[i] + 1, Start[i + 1])
               ELSE discarded <= Start[i] /\ Start[i + 1] <= size
    <3>1. i \in Chunk
      BY DEF Tagged
    <3>2. CASE w \in DOMAIN scan.meta
      <4>1. m[w] = scan.meta[w]
        BY <1>3, <3>2
      <4> QED  BY <2>3, <3>2, <4>1 DEF StreamInv, Copied
    <3>3. CASE w \notin DOMAIN scan.meta
      <4>1. m[w] = scan.pos + 1 /\ w \notin DOMAIN meta
        BY <1>3, <2>3, <3>3 DEF StreamInv, Copied
      <4>2. Start[i] = Start[k]
        <5>1. Start[i] \in Nat
          BY <1>6, <3>1, ChunkEnds
        <5> QED  BY <1>8, <1>11, <2>3, <4>1, <5>1
      <4>3. i = k
        BY <1>6, <3>1, <4>2, ChunksApart
      <4> QED  BY <1>6, <1>8, <1>10, <1>11, <4>1, <4>3
    <3> QED  BY <3>2, <3>3
  <2> QED  BY <1>5, <1>7, <1>13, <2>1, <2>2, <2>3 DEF Copied
<1>22. ForGood'
  <2>1. ~Halted
    BY <1>5, <1>6, <1>8, HaltedHere
  <2> QED  BY <1>5, <2>1 DEF StreamInv, ForGood
<1>23. Alphas'
  BY <1>5, <1>6, AlphasSame DEF StreamInv, Alphas
<1> QED  BY <1>15, <1>17, <1>18, <1>19, <1>20, <1>21, <1>22, <1>23 DEF StreamInv

\* capture_metadata() copies what has been found, and it is all there.
LEMMA CaptureIs ==
    ASSUME StreamInv, Capture
    PROVE  /\ DOMAIN meta' = DOMAIN scan.meta
           /\ \A i \in Tagged("META") : LET w == file.chunks[i].which IN
                 w \in DOMAIN scan.meta /\ scan.meta[w] = Start[i] + 1
                 => meta'[w] = Units(Start[i] + 1, Start[i + 1])
<1>1. PICK kinds : kinds = {w \in DOMAIN scan.meta : discarded <= scan.meta[w]}
  OBVIOUS
<1>2. meta' = [w \in DOMAIN meta \cup kinds |->
         IF w \in DOMAIN meta THEN meta[w]
         ELSE Piece(scan.meta[w],
                    file.chunks[CHOOSE i \in Chunk : Start[i] + 1 = scan.meta[w]].len)]
  BY <1>1 DEF Capture, Taken
<1>3. /\ file \in Files /\ size \in Nat /\ discarded \in Nat
      /\ buf = Units(discarded, size) /\ discarded <= size
      /\ DOMAIN meta \subseteq DOMAIN scan.meta
  BY Numbers DEF StreamInv, Window, Copied
<1>4. ASSUME NEW w \in DOMAIN scan.meta
      PROVE  \E i \in Tagged("META") : file.chunks[i].which = w /\ scan.meta[w] = Start[i] + 1
  BY <1>4 DEF StreamInv, FoundMeta, FirstMeta
<1>5. \A i \in Tagged("META") : i \in Chunk
  BY DEF Tagged
<1>6. ASSUME NEW w \in DOMAIN scan.meta PROVE w \in DOMAIN meta \cup kinds
  <2>1. PICK i \in Tagged("META") : file.chunks[i].which = w /\ scan.meta[w] = Start[i] + 1
    BY <1>4
  <2>2. w \in DOMAIN meta \/ discarded <= Start[i]
    BY <2>1 DEF StreamInv, Copied
  <2>3. Start[i] \in Nat
    BY <1>3, <1>5, ChunkEnds
  <2>4. discarded <= Start[i] => discarded <= scan.meta[w]
    BY <1>3, <2>1, <2>3
  <2> QED  BY <1>1, <2>2, <2>4
<1>7. DOMAIN meta' = DOMAIN scan.meta
  BY <1>1, <1>2, <1>3, <1>6
<1>8. ASSUME NEW i \in Tagged("META"), NEW w, w = file.chunks[i].which,
             w \in DOMAIN scan.meta, scan.meta[w] = Start[i] + 1
      PROVE  meta'[w] = Units(Start[i] + 1, Start[i + 1])
  <2>1. IF w \in DOMAIN meta THEN meta[w] = Units(Start[i] + 1, Start[i + 1])
        ELSE discarded <= Start[i] /\ Start[i + 1] <= size
    BY <1>8 DEF StreamInv, Copied
  <2>2. CASE w \in DOMAIN meta
    BY <1>2, <2>1, <2>2
  <2>3. CASE w \notin DOMAIN meta
    <3>1. /\ Start[i] \in Nat /\ Start[i + 1] \in Nat /\ file.chunks[i].len \in Nat
          /\ Start[i + 1] = Start[i] + 1 + file.chunks[i].len
      BY <1>3, <1>5, ChunkEnds
    <3>2. \A j \in Chunk : Start[j] + 1 = Start[i] + 1 <=> j = i
      <4> SUFFICES ASSUME NEW j \in Chunk PROVE Start[j] + 1 = Start[i] + 1 <=> j = i
        OBVIOUS
      <4>1. Start[j] \in Nat /\ (Start[j] = Start[i] <=> j = i)
        BY <1>3, <1>5, ChunkEnds, ChunksApart
      <4> QED  BY <3>1, <4>1
    <3>3. (CHOOSE j \in Chunk : Start[j] + 1 = scan.meta[w]) = i
      BY <1>5, <1>8, <3>2
    <3>4. meta'[w] = Piece(Start[i] + 1, file.chunks[i].len)
      BY <1>2, <1>6, <1>8, <2>3, <3>3
    <3>5. PICK o \in Nat : o = Start[i] + 1 /\ o + file.chunks[i].len = Start[i + 1]
      BY <3>1
    <3>6. discarded <= o /\ o + file.chunks[i].len <= size
      BY <1>3, <2>1, <2>3, <3>1, <3>5
    <3>7. Piece(o, file.chunks[i].len) = Units(o, o + file.chunks[i].len)
      BY <1>3, <3>1, <3>6, PieceIs
    <3> QED  BY <3>4, <3>5, <3>7
  <2> QED  BY <2>2, <2>3
<1> QED  BY <1>7, <1>8

\* What rescan_headers() takes of the scan, and what a refusal leaves.
LEMMA RescannedKeeps ==
    ASSUME StreamInv, call \in {"headers", "chunks", "refuse", "scanned"},
           NEW s \in {"ok", "truncated", "invalid"}, Rescanned(s),
           s = "ok" => call = "scanned",
           s = "invalid" /\ inputMode = "append" => Halted
    PROVE  StreamInv'
<1>1. PICK bad : bad = (\/ via = "open" /\ Verdict(s) # "ok"
                        \/ via \in {"append", "update"} /\ s \notin {"ok", "truncated"})
  OBVIOUS
<1>2. bad \in BOOLEAN /\ (bad => via \in {"open", "append", "update"})
      /\ (bad /\ via = "append" => s = "invalid")
  BY <1>1, Zenon
<1>3. /\ Capture /\ call' = "idle" /\ via' = via
      /\ IF s = "ok" THEN /\ end' = scan.end /\ animation' = scan.anim
                          /\ pos' = IF headersValid THEN pos ELSE RiffHeader
         ELSE UNCHANGED <<end, animation, pos>>
      /\ headersValid' = (~bad /\ (headersValid \/ s = "ok"))
      /\ IF bad /\ via # "append" THEN EmptyWindow ELSE UNCHANGED windowVars
      /\ status' = IF via \in {"append", "update"} /\ s = "truncated" THEN "ok" ELSE Verdict(s)
      /\ eos' = (eos \/ (via = "open" /\ Verdict(s) = "ok"))
      /\ UNCHANGED <<file, fed, streaming, inputMode, scan, alpha, active, decoded,
                     stillReady, stillDone, shown>>
  BY <1>1 DEF Rescanned, fileVars
<1>4. /\ file \in Files /\ scan.pos \in Nat /\ scan.end \in Nat /\ Given \in Nat /\ end \in Nat
      /\ pos \in Nat /\ discarded \in Nat /\ alpha.at \in Nat /\ fed \in Nat /\ size \in Nat
      /\ Given <= fed /\ fed <= Supply /\ Supply \in Nat
  BY Numbers
<1>5. Start' = Start /\ Chunk' = Chunk /\ RiffEnd' = RiffEnd /\ Supply' = Supply /\ Given' = Given
      /\ Starts' = Starts
  BY <1>3, SameFile DEF Given
<1>6. /\ headersValid' \in BOOLEAN /\ eos' \in BOOLEAN
      /\ headersValid' => headersValid \/ s = "ok"
      /\ ~headersValid' => bad \/ (~headersValid /\ s # "ok")
  BY <1>2, <1>3, Zenon DEF StreamInv, Typed, TypeOK
<1>7. /\ status' \in {"none", "ok", "invalid", "truncated", "nomem", "picture", "unexported"}
  BY <1>3 DEF Verdict
<1>8. Window' /\ discarded' \in Nat /\ discarded' <= discarded /\ borrowed' \in BOOLEAN
      /\ size' \in Nat /\ size' <= Supply /\ (discarded' = discarded \/ discarded' = 0)
      /\ discarded' <= Supply
  <2>1. CASE bad /\ via # "append"
    <3>1. buf' = <<>> /\ borrowed' = FALSE /\ size' = 0 /\ discarded' = 0
      BY <1>3, <2>1 DEF EmptyWindow
    <3>2. inputMode # "append"
      BY <1>2, <2>1 DEF StreamInv, Calls
    <3>3. <<>> = Units(0, 0)
      BY NoUnits
    <3>4. buf' = Units(discarded', size') /\ discarded' <= size' /\ size' \in {0, fed'}
      BY <3>1, <3>3
    <3>5. Window'
      BY <1>3, <3>1, <3>2, <3>4 DEF Window
    <3>6. 0 <= discarded /\ 0 <= Supply
      BY <1>4
    <3>7. /\ discarded' \in Nat /\ discarded' <= discarded /\ borrowed' \in BOOLEAN
          /\ size' \in Nat /\ size' <= Supply /\ (discarded' = discarded \/ discarded' = 0)
          /\ discarded' <= Supply
      BY ONLY <3>1, <3>6
    <3> QED  BY <3>5, <3>7
  <2>2. CASE ~(bad /\ via # "append")
    <3>1. UNCHANGED <<buf, borrowed, size, discarded>>
      BY <1>3, <2>2 DEF windowVars
    <3>2. Window' /\ borrowed' \in BOOLEAN /\ size \in 0..Supply /\ discarded \in 0..Supply
      BY <1>3, <1>5, <3>1 DEF StreamInv, Window, Typed, TypeOK
    <3> QED  BY <1>4, <3>1, <3>2
  <2> QED  BY <2>1, <2>2
<1>9. s = "ok" => /\ scan.pos > 0 /\ RiffHeader <= scan.pos /\ RiffHeader \in Starts
                  /\ \A i \in Chunk : Start[i + 1] <= scan.end => Start[i + 1] <= scan.pos
  <2> SUFFICES ASSUME s = "ok"
               PROVE  /\ scan.pos > 0 /\ RiffHeader <= scan.pos /\ RiffHeader \in Starts
                      /\ \A i \in Chunk : Start[i + 1] <= scan.end => Start[i + 1] <= scan.pos
    OBVIOUS
  <2>1. /\ scan.pos > 0 /\ scan.pos \in Starts
        /\ \A i \in Chunk : Start[i + 1] <= scan.end => Start[i + 1] <= scan.pos
    BY <1>4 DEF StreamInv, Scanning, InHeaders, Ordered
  <2>2. RiffHeader <= scan.pos
    BY <1>4, <2>1, FileEnd
  <2>3. 1 \in 1..Count + 1 /\ Start[1] = RiffHeader
    BY <1>4, FileFacts, StartIs
  <2>4. RiffHeader \in Starts
    BY <2>3 DEF Starts
  <2> QED  BY <2>1, <2>2, <2>4
<1>10. /\ pos' \in Nat /\ pos' \in {0} \cup Starts /\ pos' <= scan.pos /\ discarded' <= pos'
       /\ headersValid' => pos' > 0
       /\ pos' = pos \/ pos' = RiffHeader
  <2>1. /\ pos \in {0} \cup Starts /\ pos <= scan.pos /\ discarded <= pos
        /\ headersValid => pos > 0
    BY DEF StreamInv, Ordered
  <2>2. CASE s # "ok" \/ headersValid
    <3>1. pos' = pos
      BY <1>3, <2>2
    <3> QED  BY <1>4, <1>6, <1>8, <2>1, <2>2, <3>1
  <2>3. CASE s = "ok" /\ ~headersValid
    <3>1. pos' = RiffHeader
      BY <1>3, <2>3
    <3>2. discarded = 0
      <4>1. CASE inputMode = "append"
        <5>1. pos = 0
          BY <2>3, <4>1 DEF StreamInv, ForGood
        <5> QED  BY <1>4, <2>1, <5>1
      <4>2. CASE inputMode # "append"
        BY <4>2 DEF StreamInv, Window
      <4> QED  BY <4>1, <4>2
    <3> QED  BY <1>4, <1>8, <1>9, <2>3, <3>1, <3>2 DEF RiffHeader
  <2> QED  BY <2>2, <2>3
<1>11. /\ end' \in Nat /\ end' <= Given
       /\ \A i \in Chunk : Start[i + 1] <= end' => Start[i + 1] <= scan.pos
       /\ animation' \in BOOLEAN
       /\ animation' => scan.anim
  <2>1. CASE s = "ok"
    BY <1>3, <1>4, <1>9, <2>1 DEF StreamInv, Ordered, Found, Typed, TypeOK
  <2>2. CASE s # "ok"
    BY <1>3, <1>4, <2>2 DEF StreamInv, Ordered, Found, Typed, TypeOK
  <2> QED  BY <2>1, <2>2
<1>12. Typed'
  <2>1. {size', discarded', pos', end'} \subseteq 0..Supply
    <3>1. scan.pos <= Given
      BY DEF StreamInv, Ordered
    <3>2. pos' <= Supply /\ end' <= Supply
      BY <1>4, <1>10, <1>11, <3>1
    <3> QED  BY <1>4, <1>8, <1>10, <1>11, <3>2
  <2>2. ScanTyped'
    BY <1>3 DEF StreamInv, Typed, ScanTyped
  <2>3. TypeOK'
    BY <1>3, <1>5, <1>6, <1>7, <1>8, <1>11, <2>1 DEF StreamInv, Typed, TypeOK
  <2> QED  BY <1>3, <2>2, <2>3 DEF StreamInv, Typed, AlphaType
<1>13. Calls'
  BY <1>3 DEF StreamInv, Calls
<1>14. Ordered'
  BY <1>3, <1>5, <1>8, <1>10, <1>11 DEF StreamInv, Ordered
<1>15. Scanning' /\ ~InHeaders'
  BY <1>3 DEF Scanning, InHeaders
<1>16. Found' /\ FoundMeta'
  <2>1. \A tag : Tagged(tag)' = Tagged(tag)
    BY <1>3, SameFile
  <2>2. Found'
    BY <1>3, <1>5, <1>11, <2>1 DEF StreamInv, Found
  <2>3. \A w : FirstMeta(w, scan.pos)' = FirstMeta(w, scan.pos)
    BY <1>3, SameFile DEF FirstMeta
  <2> QED  BY <1>3, <1>5, <2>1, <2>2, <2>3 DEF StreamInv, FoundMeta
<1>17. Copied'
  <2>1. Tagged("META")' = Tagged("META")
    BY <1>3, SameFile
  <2>2. /\ DOMAIN meta' = DOMAIN scan.meta
        /\ \A i \in Tagged("META") : LET w == file.chunks[i].which IN
              w \in DOMAIN scan.meta /\ scan.meta[w] = Start[i] + 1
              => meta'[w] = Units(Start[i] + 1, Start[i + 1])
    BY <1>3, CaptureIs
  <2> QED  BY <1>3, <1>5, <1>15, <2>1, <2>2 DEF Copied
<1>18. ForGood'
  <2> SUFFICES ASSUME inputMode = "append", ~headersValid', pos' # 0
               PROVE  Halted'
    BY <1>3 DEF ForGood
  <2>1. Halted
    <3>1. CASE bad
      <4>1. via = "append"
        BY <1>2, <3>1 DEF StreamInv, Calls
      <4> QED  BY <1>2, <3>1, <4>1
    <3>2. CASE ~headersValid /\ s # "ok"
      <4>1. pos # 0
        BY <1>3, <3>2
      <4> QED  BY <3>2, <4>1 DEF StreamInv, ForGood
    <3> QED  BY <1>6, <3>1, <3>2
  <2> QED  BY <1>3, <1>4, <1>5, <2>1, HaltedStays
<1>19. Alphas'
  <2>1. alpha.pending /\ alpha.has => discarded' <= alpha.at
    BY <1>4, <1>8 DEF StreamInv, Alphas
  <2>2. pos' > RiffHeader => pos' = pos
    BY <1>10 DEF RiffHeader
  <2> QED  BY <1>3, <2>1, <2>2 DEF StreamInv, Alphas
<1> QED  BY <1>12, <1>8, <1>13, <1>14, <1>15, <1>16, <1>17, <1>18, <1>19 DEF StreamInv

LEMMA RefusingKeeps ==
    ASSUME StreamInv, ScanTooShort \/ ScanRefuses \/ RefuseConflict
    PROVE  StreamInv'
<1>1. CASE ScanTooShort
  <2>1. PICK s \in {"truncated", "invalid"} : Rescanned(s) /\ (s = "invalid" => ~streaming)
    BY <1>1 DEF ScanTooShort
  <2>2. inputMode = "append" => streaming
    BY DEF StreamInv, Calls
  <2>3. call \in {"headers", "chunks", "refuse", "scanned"}
    BY <1>1 DEF ScanTooShort
  <2> QED  BY <2>1, <2>2, <2>3, RescannedKeeps
<1>2. CASE ScanRefuses
  <2>1. call = "chunks" /\ InScan /\ IsWhole /\ Refused(Current) /\ Rescanned("invalid")
    BY <1>2 DEF ScanRefuses
  <2>2. PICK k \in Chunk : scan.pos = Start[k] /\ Current = file.chunks[k]
                           /\ Start[k] < Given /\ Start[k + 1] <= scan.end
    BY <2>1, ScanAt DEF InHeaders
  <2>3. scan.end <= Given /\ scan.end \in Nat /\ Given \in Nat /\ Start[k + 1] \in Nat
    BY Numbers, ChunkEnds DEF StreamInv, Ordered
  <2>4. Start[k + 1] <= Given
    BY <2>2, <2>3
  <2>5. Halted
    BY <2>1, <2>2, <2>4 DEF Halted
  <2> QED  BY <2>1, <2>5, RescannedKeeps
<1>3. CASE RefuseConflict
  <2>1. call = "refuse" /\ Rescanned("invalid")
    BY <1>3 DEF RefuseConflict
  <2>2. inputMode = "append" => Halted
    BY <2>1 DEF StreamInv, ForGood
  <2> QED  BY <2>1, <2>2, RescannedKeeps
<1> QED  BY <1>1, <1>2, <1>3

\* A scan that has come to the end of the file has found what it is.
LEMMA ScanEndsKeeps ==
    ASSUME StreamInv, ScanEnds
    PROVE  StreamInv'
<1>1. PICK s : s = IF ~scan.sized THEN (IF scan.truncated THEN "truncated" ELSE "invalid")
                   ELSE IF ~streaming /\ ~scan.truncated /\ AnimDeclared /\ ~scan.anim
                   THEN "invalid" ELSE "ok"
  OBVIOUS
<1>2. call = "scanned" /\ Rescanned(s) /\ s \in {"ok", "truncated", "invalid"}
  BY <1>1 DEF ScanEnds
<1>3. s = "invalid" => (~scan.sized /\ ~scan.truncated) \/ ~streaming
  BY <1>1
<1>4. ~scan.truncated => scan.sized
  <2> SUFFICES ASSUME ~scan.truncated PROVE scan.sized
    OBVIOUS
  <2>1. /\ file \in Files /\ size \in Nat /\ RiffEnd \in Nat /\ scan.pos \in Nat /\ scan.end \in Nat
    BY Numbers
  <2>2. RiffEnd <= size /\ scan.end = Least(RiffEnd, size)
        /\ \A i \in Chunk : Start[i + 1] <= scan.end => Start[i + 1] <= scan.pos
    BY <1>2 DEF StreamInv, Scanning, InHeaders
  <2>3. 1 \in Chunk /\ Start[1] = RiffHeader
    BY <2>1, FileFacts, StartIs
  <2>4. Start[1] < Start[1 + 1] /\ Start[1 + 1] \in Nat /\ Start[1 + 1] <= RiffEnd
    BY <2>1, <2>3, ChunkEnds
  <2>5. scan.end = RiffEnd
    BY <2>1, <2>2 DEF Least
  <2>6. Start[1 + 1] <= scan.pos
    BY <2>2, <2>3, <2>4, <2>5
  <2>7. scan.pos > RiffHeader
    BY <2>1, <2>3, <2>4, <2>6 DEF RiffHeader
  <2> QED  BY <2>7 DEF StreamInv, Found
<1>5. inputMode = "append" => streaming
  BY DEF StreamInv, Calls
<1> QED  BY <1>2, <1>3, <1>4, <1>5, RescannedKeeps

-----------------------------------------------------------------------------
(* All steps together.                                                     *)

LEMMA InitKeeps == Init => StreamInv
<1> SUFFICES ASSUME Init PROVE StreamInv
  OBVIOUS
<1>1. /\ file \in Files /\ fed = 0
      /\ streaming = FALSE /\ inputMode = "untouched" /\ eos = FALSE
      /\ buf = <<>> /\ borrowed = FALSE /\ size = 0 /\ discarded = 0
      /\ headersValid = FALSE /\ end = 0 /\ animation = FALSE /\ meta = <<>>
      /\ pos = 0 /\ alpha = [pending |-> FALSE, has |-> FALSE, at |-> 0]
      /\ active = FALSE /\ stillReady = FALSE /\ stillDone = FALSE
      /\ call = "idle" /\ via = "none" /\ status = "none"
  BY DEF Init
<1>2. scan = [pos |-> 0, end |-> 0, truncated |-> FALSE, vp8x |-> 0, sized |-> FALSE,
              still |-> FALSE, anim |-> FALSE, frames |-> 0, images |-> 0, meta |-> <<>>]
  BY DEF Init
<1>3. /\ scan.pos = 0 /\ scan.end = 0 /\ scan.truncated = FALSE /\ scan.vp8x = 0
      /\ scan.sized = FALSE /\ scan.still = FALSE /\ scan.anim = FALSE
      /\ scan.frames = 0 /\ scan.images = 0 /\ scan.meta = <<>>
  BY <1>2
<1>4. /\ RiffEnd \in Nat /\ RiffHeader < RiffEnd /\ Supply \in Nat /\ Given = 0
      /\ \A i \in Chunk : Start[i + 1] \in Nat /\ 0 < Start[i + 1]
  <2>1. RiffEnd \in Nat /\ RiffHeader < RiffEnd /\ Supply \in Nat
    BY <1>1, FileEnd
  <2>2. ASSUME NEW i \in Chunk PROVE Start[i + 1] \in Nat /\ 0 < Start[i + 1]
    <3>1. Start[i] \in Nat /\ Start[i + 1] \in Nat /\ Start[i] < Start[i + 1]
      BY <1>1, ChunkEnds
    <3> QED  BY <3>1
  <2> QED  BY <1>1, <2>1, <2>2 DEF Given, Least, RiffHeader
<1>5. Typed
  <2>1. 0 \in 0..Supply
    BY <1>4
  <2>2. alpha.pending = FALSE /\ alpha.has = FALSE /\ alpha.at = 0
    BY <1>1
  <2>6. {streaming, eos, borrowed, headersValid, animation, active, stillReady,
         stillDone, scan.truncated, scan.sized, scan.still, scan.anim,
         alpha.pending, alpha.has} \subseteq BOOLEAN
    BY <1>1, <1>3, <2>2
  <2>7. fed \in 0..Supply
        /\ {size, discarded, pos, end, scan.pos, scan.end, alpha.at} \subseteq 0..Supply
    BY <1>1, <1>3, <2>1, <2>2, Zenon
  <2>8. scan.vp8x \in {0} \cup Chunk /\ scan.frames \in Nat /\ scan.images \in Nat
    BY <1>3
  <2>5. TypeOK
    BY <1>1, <2>6, <2>7, <2>8 DEF TypeOK
  <2>3. <<>> = [k \in DOMAIN <<>> |-> <<>>[k]]
    OBVIOUS
  <2>4. ScanTyped
    BY <1>2, <1>3, <2>3 DEF ScanTyped
  <2> QED  BY <1>1, <2>4, <2>5 DEF Typed, AlphaType
<1>6. Calls /\ Scanning /\ ForGood
  BY <1>1 DEF Calls, Scanning, InHeaders, ForGood
<1>7. Window
  <2>1. <<>> = Units(0, 0)
    BY NoUnits
  <2> QED  BY <1>1, <2>1 DEF Window
<1>8. Ordered
  BY <1>1, <1>3, <1>4 DEF Ordered
<1>9. Found
  BY <1>1, <1>3, <1>4 DEF Found, Tagged, RiffHeader
<1>10. FoundMeta
  <2>1. DOMAIN scan.meta = {}
    BY <1>3
  <2> QED  BY <1>3, <1>4, <2>1 DEF FoundMeta, Tagged
<1>11. Copied
  BY <1>1, <1>3 DEF Copied
<1>12. Alphas
  BY <1>1 DEF Alphas, RiffHeader
<1> QED  BY <1>5, <1>6, <1>7, <1>8, <1>9, <1>10, <1>11, <1>12 DEF StreamInv

LEMMA NextKeeps ==
    ASSUME StreamInv, ~Conflicts, Next
    PROVE  StreamInv'
<1>1. CASE Supplies
  BY <1>1, OpenKeeps, UpdateKeeps, OpenStreamKeeps, AppendKeeps, AppendFailsKeeps,
     TakeUpdateBufferKeeps, EndOfStreamKeeps DEF Supplies
<1>2. CASE Scans
  BY <1>2, ScanRiffKeeps, ScanChunkKeeps, CountConflictNever, ScanPartialKeeps, ScanAllKeeps,
     RefusingKeeps, ScanEndsKeeps DEF Scans
<1>3. CASE Walks
  BY <1>3, AnsweredKeeps, EmitKeeps, StepArrivingKeeps, PassingKeeps, WalkImageKeeps,
     WalkAlphaKeeps, RewindKeeps DEF Walks
<1> QED  BY <1>1, <1>2, <1>3 DEF Next

LEMMA FileStays == [Next]_vars => file' = file
<1> SUFFICES ASSUME [Next]_vars PROVE file' = file
  OBVIOUS
<1>1. CASE UNCHANGED vars
  BY <1>1 DEF vars, fileVars
<1>2. CASE Supplies
  BY <1>2 DEF Supplies, Open, Update, OpenStream, Append_, AppendFails, TakeUpdateBuffer,
              EndOfStream, fileVars
<1>3. CASE Scans
  BY <1>3 DEF Scans, ScanRiff, ScanTooShort, ScanChunk, ScanRefuses, CountConflict,
              RefuseConflict, ScanPartial, ScanAll, ScanEnds, Rescanned, fileVars
<1>4. CASE Walks
  BY <1>4 DEF Walks, NoHeaders, NextPicture, Emit, EmitFails, WalkEnds, RunsPast, StepArriving,
              SkipChunk, WalkImage, WalkAlpha, RefuseAlpha, WalkFrame, WalkOn, Rewind, fileVars
<1> QED  BY <1>1, <1>2, <1>3, <1>4 DEF Next

LEMMA StutterKeeps ==
    ASSUME StreamInv, UNCHANGED vars
    PROVE  StreamInv'
<1>1. UNCHANGED <<file, fed, streaming, inputMode, eos, buf, borrowed, size, discarded, pos,
                  alpha, active, decoded, stillReady, stillDone, shown, scan, headersValid,
                  end, animation, meta, call, via, status>>
  BY DEF vars, fileVars, modeVars, windowVars, walkVars, scanVars, callVars
<1>2. /\ Start' = Start /\ Chunk' = Chunk /\ RiffEnd' = RiffEnd /\ Supply' = Supply
      /\ Given' = Given /\ Starts' = Starts
  BY <1>1, SameFile DEF Given
<1>3. /\ pos \in Nat /\ discarded \in Nat /\ alpha.at \in Nat /\ fed \in Nat /\ Given \in Nat
      /\ file \in Files
  BY Numbers
<1>4. Typed' /\ Calls' /\ Window' /\ Scanning'
  <2>1. TypeOK' /\ ScanTyped'
    BY <1>1, <1>2 DEF StreamInv, Typed, TypeOK, ScanTyped
  <2>2. Typed'
    BY <1>1, <2>1 DEF StreamInv, Typed, AlphaType
  <2> QED  BY <1>1, <1>2, <2>2 DEF StreamInv, Calls, Window, Scanning, InHeaders
<1>5. Ordered'
  BY <1>1, <1>3, OrderedSame DEF StreamInv, Ordered
<1>6. Found' /\ FoundMeta' /\ Copied'
  BY <1>1, FoundSame, CopiedSame DEF StreamInv, InHeaders
<1>7. ForGood'
  <2>1. Halted => Halted'
    BY <1>1, <1>2, <1>3, HaltedStays
  <2> QED  BY <1>1, <2>1 DEF StreamInv, ForGood
<1>8. Alphas'
  BY <1>1, <1>3, AlphasSame DEF StreamInv, Alphas
<1> QED  BY <1>4, <1>5, <1>6, <1>7, <1>8 DEF StreamInv

\* The invariant holds, of a file whose image does not conflict with its canvas.
THEOREM Invariance == Spec => [](~Conflicts => StreamInv)
<1>1. Init => (~Conflicts => StreamInv)
  BY InitKeeps
<1>2. (~Conflicts => StreamInv) /\ [Next]_vars => (~Conflicts => StreamInv)'
  <2> SUFFICES ASSUME ~Conflicts => StreamInv, [Next]_vars, ~Conflicts' PROVE StreamInv'
    OBVIOUS
  <2>1. ~Conflicts
    BY FileStays, SameFile
  <2> QED  BY <2>1, NextKeeps, StutterKeeps
<1> QED  BY <1>1, <1>2, PTL DEF Spec

LEMMA InvariantKeepsFile ==
    ASSUME StreamInv
    PROVE  FileKept
<1>1. TypeOK
  BY DEF StreamInv, Typed
<1>2. WindowHoldsFile
  BY DEF StreamInv, Window, WindowHoldsFile, Given
<1>3. NeededKept
  <2>1. discarded \in Nat /\ pos \in Nat /\ scan.pos \in Nat
    BY Numbers
  <2> QED  BY <2>1 DEF StreamInv, Ordered, Alphas, NeededKept
<1>4. MetadataCaptured
  <2> SUFFICES ASSUME Idle, NEW k
               PROVE  IF FirstMeta(k, scan.pos) = {} THEN k \notin DOMAIN meta
                      ELSE \A i \in FirstMeta(k, scan.pos) :
                               k \in DOMAIN meta /\ meta[k] = Units(Start[i] + 1, Start[i + 1])
    BY DEF MetadataCaptured
  <2>1. DOMAIN meta = DOMAIN scan.meta
    BY DEF StreamInv, Copied, InHeaders, Idle
  <2>2. CASE FirstMeta(k, scan.pos) = {}
    BY <2>1, <2>2 DEF StreamInv, FoundMeta
  <2>3. ASSUME NEW i \in FirstMeta(k, scan.pos)
        PROVE  k \in DOMAIN meta /\ meta[k] = Units(Start[i] + 1, Start[i + 1])
    <3>1. /\ i \in Tagged("META") /\ file.chunks[i].which = k /\ Start[i + 1] <= scan.pos
          /\ \A j \in Before(i, "META") : file.chunks[j].which # k
      BY <2>3 DEF FirstMeta
    <3>2. k \in DOMAIN scan.meta
      BY <3>1 DEF StreamInv, FoundMeta
    <3>3. PICK j \in FirstMeta(k, scan.pos) : scan.meta[k] = Start[j] + 1
      BY <3>2 DEF StreamInv, FoundMeta
    <3>4. /\ j \in Tagged("META") /\ file.chunks[j].which = k
          /\ \A l \in Before(j, "META") : file.chunks[l].which # k
      BY <3>3 DEF FirstMeta
    <3>5. i = j
      <4>1. i \in Nat /\ j \in Nat
        <5>1. i \in Chunk /\ j \in Chunk /\ file \in Files
          BY <3>1, <3>4, Numbers DEF Tagged
        <5> QED  BY <5>1, ChunkEnds
      <4>2. ~(i < j) /\ ~(j < i)
        BY <3>1, <3>4 DEF Before
      <4> QED  BY <4>1, <4>2
    <3> QED  BY <2>1, <3>1, <3>2, <3>3, <3>5 DEF StreamInv, Copied
  <2> QED  BY <2>2, <2>3
<1> QED  BY <1>1, <1>2, <1>3, <1>4 DEF FileKept

\* However a file is cut into calls, the window holds what came, is never
\* compacted past what the walk, the scan or an alpha in waiting still needs, and
\* metadata is copied before it goes.  (Of a file whose image conflicts with its
\* canvas: see Invariance.)
THEOREM FileIsKept == Spec => [](~Conflicts => FileKept)
<1>1. (~Conflicts => StreamInv) => (~Conflicts => FileKept)
  BY InvariantKeepsFile
<1> QED  BY <1>1, Invariance, PTL

-----------------------------------------------------------------------------
(* The inductive invariant of what is made of the file: its verdict, and   *)
(* its pictures.                                                           *)

Rescanning == call \in {"headers", "chunks", "refuse", "scanned"}

Scanned(tag)  == {i \in Tagged(tag) : Start[i + 1] <= scan.pos}
ScannedStills == Scanned("VP8") \cup Scanned("ALPH")

\* What the scan has found is all there was, and it was in order.
Sound ==
    /\ \A i \in Scanned("VP8X") : i = scan.vp8x
    /\ scan.anim <=> Scanned("ANIM") # {}
    /\ scan.frames > 0 <=> Scanned("ANMF") # {}
    /\ scan.images > 0 <=> Scanned("VP8") # {}
    /\ ScannedStills # {} => scan.still
    /\ scan.still => ScannedStills # {} \/ \E i \in Tagged("VP8") : Start[i] = scan.pos
    /\ \A i \in ScannedStills : ~DeclaredBefore(i) /\ Before(i, "ANIM") = {}
    /\ \A i \in Scanned("ANIM"), j \in Stills : j > i
    /\ \A i \in Scanned("ANMF") :
          /\ Before(i, "ANIM") # {} /\ file.chunks[i].fits
          /\ DeclaredBefore(i) \/ Before(i, "ANMF") = {}

\* Less than the whole file is what makes a scan stop short.
Short ==
    /\ InHeaders /\ scan.truncated => size < RiffEnd
    /\ call = "refuse" => size < RiffEnd
    /\ headersValid => scan.sized
    /\ via = "eos" => streaming /\ eos
    /\ Rescanning => /\ via \in {"open", "append", "update", "eos"}
                     /\ via # "open" => streaming
                     /\ ~eos /\ inputMode # "append" => size = fed

VerdictInv == Sound /\ Short

\* Whether there is, or will be, something to walk over.
Fed  == size > 0 \/ ~eos
Live == headersValid /\ Fed

\* The walk goes to the end of what is there.
EndRight == headersValid /\ size > 0 /\ (~Rescanning \/ via = "eos") => end = Least(RiffEnd, size)

\* Headers that were accepted and then were not are so no more, appended to or not.
Lasting ==
    /\ via = "open" /\ Rescanning => pos = 0
    /\ Fed /\ via # "open" =>
          /\ call = "refuse" => Halted
          /\ ~headersValid /\ pos # 0 => Halted /\ call # "scanned"

\* The events of the first n chunks.
Upto == LET u[n \in 0..Count] == IF n = 0 THEN <<>> ELSE u[n - 1] \o Event(n) IN u

\* The image that is first.
Fresh(p) ==
    /\ Before(p, "VP8") = {}
    /\ shown = Upto[p - 1]
    /\ ~active =>
          /\ alpha.pending <=> Before(p, "ALPH") # {}
          /\ alpha.has <=> Before(p, "ALPH") # {} /\ file.chunks[1].alpha
          /\ \A j \in Before(p, "ALPH") : alpha.has /\ Before(j, "ALPH") = {} => alpha.at = Start[j] + 1
    /\ active => /\ p \in Tagged("VP8") /\ decoded = <<Start[p] + 1, AlphaOf(p)>>
                 /\ pos + 1 < Given

Readied(p) == \E m \in Tagged("VP8") :
    /\ IsImage(m) /\ p \in {m, m + 1} /\ ~active
    /\ shown = Upto[m - 1] /\ decoded = <<Start[m] + 1, AlphaOf(m)>>

Finished(p) == \E m \in Tagged("VP8") :
    /\ IsImage(m) /\ m <= p /\ ~active
    /\ shown = Upto[IF m = p THEN p ELSE p - 1]

ShowsAt(p) ==
    /\ ~stillReady /\ ~stillDone => Fresh(p)
    /\ stillReady /\ ~stillDone => Readied(p)
    /\ stillDone => Finished(p)

Shows ==
    /\ \E n \in 0..Count : shown = Upto[n]
    /\ pos = 0 => /\ shown = <<>> /\ ~active /\ ~stillReady /\ ~stillDone
                  /\ ~alpha.pending /\ ~alpha.has
    /\ Live => \E p \in 1..Count + 1 : pos = Start[p] /\ ShowsAt(p)
    /\ call = "emit" => stillReady /\ ~stillDone

PictureInv == EndRight /\ Lasting /\ Shows

-----------------------------------------------------------------------------
(* What is before a chunk.                                                 *)

\* The chunks the scan has passed are those before its place.
LEMMA ScannedHere ==
    ASSUME file \in Files, NEW k \in 1..Count + 1, scan.pos = Start[k]
    PROVE  /\ \A tag : Scanned(tag) = Before(k, tag)
           /\ ScannedStills = Before(k, "VP8") \cup Before(k, "ALPH")
<1>1. ASSUME NEW i \in Chunk PROVE Start[i + 1] <= Start[k] <=> i < k
  <2>1. i + 1 \in 1..Count + 1 /\ i \in Nat
    BY ChunkEnds
  <2>2. /\ Start[k] \in Nat /\ Start[i + 1] \in Nat
        /\ k < i + 1 <=> Start[k] < Start[i + 1]
    BY <2>1, StartsApart
  <2>3. k \in Nat
    BY FileFacts
  <2> QED  BY <2>1, <2>2, <2>3
<1>2. ASSUME NEW tag PROVE Scanned(tag) = Before(k, tag)
  BY <1>1 DEF Scanned, Before, Tagged
<1> QED  BY <1>2 DEF ScannedStills

LEMMA BeforeNext ==
    ASSUME file \in Files, NEW k \in Chunk, NEW tag
    PROVE  Before(k + 1, tag) = IF file.chunks[k].tag = tag THEN Before(k, tag) \cup {k}
                                ELSE Before(k, tag)
<1>1. \A i \in Chunk : i \in Nat
  BY ChunkEnds
<1>2. \A i \in Chunk : i < k + 1 <=> i < k \/ i = k
  BY <1>1
<1>3. Before(k + 1, tag) = {i \in Tagged(tag) : i < k \/ i = k}
  BY <1>2 DEF Before, Tagged
<1>4. k \in Tagged(tag) <=> file.chunks[k].tag = tag
  BY DEF Tagged
<1> QED  BY <1>3, <1>4 DEF Before

LEMMA BeforeLess ==
    ASSUME file \in Files, NEW k \in 1..Count + 1, NEW tag, NEW i \in Before(k, tag)
    PROVE  i \in Tagged(tag) /\ i \in Chunk /\ i \in Nat /\ k \in Nat /\ i < k
           /\ file.chunks[i].tag = tag
<1>1. i \in Tagged(tag) /\ i < k
  BY DEF Before
<1>2. i \in Chunk /\ file.chunks[i].tag = tag
  BY <1>1 DEF Tagged
<1>3. i \in Nat /\ k \in Nat
  BY <1>2, ChunkEnds, FileFacts
<1> QED  BY <1>1, <1>2, <1>3

LEMMA SameMeaning ==
    ASSUME file' = file
    PROVE  /\ \A i : DeclaredBefore(i)' <=> DeclaredBefore(i)
           /\ \A i : IsImage(i)' <=> IsImage(i)
           /\ \A i : IsAlpha(i)' <=> IsAlpha(i)
           /\ \A i : CarriesAlpha(i)' <=> CarriesAlpha(i)
           /\ \A i : AlphaOf(i)' = AlphaOf(i)
           /\ Stills' = Stills /\ Whole' = Whole
           /\ (Legal' <=> Legal) /\ (DeclaredLate' <=> DeclaredLate)
<1>1. /\ Start' = Start /\ Chunk' = Chunk
      /\ \A tag : Tagged(tag)' = Tagged(tag)
      /\ \A i, tag : Before(i, tag)' = Before(i, tag)
  BY SameFile
<1>2. /\ \A i : DeclaredBefore(i)' <=> DeclaredBefore(i)
      /\ \A i : IsImage(i)' <=> IsImage(i)
      /\ \A i : IsAlpha(i)' <=> IsAlpha(i)
      /\ \A i : CarriesAlpha(i)' <=> CarriesAlpha(i)
      /\ Stills' = Stills
  BY <1>1 DEF DeclaredBefore, IsImage, IsAlpha, CarriesAlpha, Stills
<1>3. \A i : AlphaOf(i)' = AlphaOf(i)
  BY DEF AlphaOf, IsAlpha, CarriesAlpha, Tagged, Before, Start, Chunk
<1>4. Whole' = Whole
  BY DEF Whole, Event, IsImage, IsAlpha, AlphaOf, CarriesAlpha, Tagged, Before, Start, Chunk
<1>5. (Legal' <=> Legal) /\ (DeclaredLate' <=> DeclaredLate)
  BY <1>1, <1>2 DEF Legal, DeclaredLate
<1> QED  BY <1>2, <1>3, <1>4, <1>5

LEMMA SoundSame ==
    ASSUME Sound, UNCHANGED <<file, scan>>
    PROVE  Sound'
<1>1. Start' = Start /\ \A tag : Tagged(tag)' = Tagged(tag)
  BY SameFile
<1>2. /\ \A tag : Scanned(tag)' = Scanned(tag)
      /\ ScannedStills' = ScannedStills
      /\ \A i, tag : Before(i, tag)' = Before(i, tag)
  BY <1>1, SameFile DEF Scanned, ScannedStills
<1>3. (\A i : DeclaredBefore(i)' <=> DeclaredBefore(i)) /\ Stills' = Stills
  BY SameMeaning
<1> QED  BY <1>1, <1>2, <1>3 DEF Sound

-----------------------------------------------------------------------------
(* The scan is sound.                                                      *)

\* What Refused() says of a chunk, in terms of those before it.
LEMMA RefusedMeans ==
    ASSUME StreamInv, Sound, NEW k \in Chunk, scan.pos = Start[k]
    PROVE  /\ FirstChunk(file.chunks[k]) <=> (k = 1 => file.chunks[k].tag \in {"VP8X", "VP8"})
           /\ scan.vp8x # 0 <=> Before(k, "VP8X") # {}
           /\ scan.vp8x # 0 => Before(k, "VP8X") = {scan.vp8x}
           /\ Declares <=> DeclaredBefore(k)
           /\ scan.anim <=> Before(k, "ANIM") # {}
           /\ scan.frames > 0 <=> Before(k, "ANMF") # {}
           /\ scan.images > 0 <=> Before(k, "VP8") # {}
<1>1. file \in Files /\ k \in 1..Count + 1
  BY Numbers, ChunkEnds
<1>2. \A tag : Scanned(tag) = Before(k, tag)
  BY <1>1, ScannedHere
<1>3. scan.vp8x # 0 => scan.vp8x \in Scanned("VP8X")
  BY DEF StreamInv, Found, Scanned
<1>4. 0 \notin Before(k, "VP8X")
  <2>1. \A i \in Before(k, "VP8X") : i \in Chunk
    BY DEF Before, Tagged
  <2>2. 0 \notin Chunk
    BY <1>1, FileFacts
  <2> QED  BY <2>1, <2>2
<1>5. /\ scan.vp8x # 0 <=> Before(k, "VP8X") # {}
      /\ scan.vp8x # 0 => Before(k, "VP8X") = {scan.vp8x}
  BY <1>2, <1>3, <1>4 DEF Sound
<1>6. Declares <=> DeclaredBefore(k)
  BY <1>5 DEF Declares, DeclaredBefore, Flags
<1>7. FirstChunk(file.chunks[k]) <=> (k = 1 => file.chunks[k].tag \in {"VP8X", "VP8"})
  <2>1. 1 \in Chunk /\ Start[1] = RiffHeader
    BY <1>1, FileFacts, StartIs
  <2>2. scan.pos = RiffHeader <=> k = 1
    BY <1>1, <2>1, ChunksApart
  <2> QED  BY <2>2 DEF FirstChunk
<1> QED  BY <1>2, <1>5, <1>6, <1>7 DEF Sound

\* A chunk in a legal file is not refused.
LEMMA LegalNotRefused ==
    ASSUME StreamInv, Sound, NEW k \in Chunk, scan.pos = Start[k], Refused(file.chunks[k])
    PROVE  ~Legal
<1> DEFINE c == file.chunks[k]
<1>0. file \in Files /\ k \in 1..Count + 1
  BY Numbers, ChunkEnds
<1>1. /\ FirstChunk(c) <=> (k = 1 => c.tag \in {"VP8X", "VP8"})
      /\ scan.vp8x # 0 <=> Before(k, "VP8X") # {}
      /\ Declares <=> DeclaredBefore(k)
      /\ scan.anim <=> Before(k, "ANIM") # {}
      /\ scan.frames > 0 <=> Before(k, "ANMF") # {}
  BY RefusedMeans
<1>2. \A tag : k \in Tagged(tag) <=> c.tag = tag
  BY DEF Tagged
<1>3. CASE ~FirstChunk(c)
  BY <1>1, <1>3 DEF Legal
<1>4. CASE c.tag = "VP8X" /\ scan.vp8x # 0
  BY <1>1, <1>2, <1>4 DEF Legal
<1>5. CASE c.tag \in {"ALPH", "VP8"} /\ AnimDeclared
  BY <1>1, <1>2, <1>5 DEF Legal, Stills, AnimDeclared
<1>6. CASE c.tag = "ANIM" /\ scan.still
  <2>1. PICK j \in Stills : j \in ScannedStills \/ (j \in Tagged("VP8") /\ Start[j] = scan.pos)
    BY <1>6 DEF Sound, ScannedStills, Scanned, Stills
  <2>2. j \in Chunk
    BY DEF Stills, Tagged
  <2>3. j # k
    BY <1>6 DEF Stills, Tagged
  <2>4. j \in ScannedStills
    BY <1>0, <2>1, <2>2, <2>3, ChunksApart
  <2>5. j < k /\ j \in Nat /\ k \in Nat
    <3>1. j \in Before(k, "VP8") \cup Before(k, "ALPH")
      BY <1>0, <2>4, ScannedHere
    <3> QED  BY <1>0, <3>1, BeforeLess
  <2>6. ~(j > k)
    BY <2>5
  <2> QED  BY <1>2, <1>6, <2>1, <2>6 DEF Legal
<1>7. CASE c.tag = "ANMF" /\ (~scan.anim \/ ~c.fits \/ (~Declares /\ scan.frames > 0))
  BY <1>1, <1>2, <1>7 DEF Legal
<1> QED  BY <1>3, <1>4, <1>5, <1>6, <1>7 DEF Refused

\* What a chunk adds to the scan.
LEMMA ScanChunkDoes ==
    ASSUME StreamInv, ScanChunk
    PROVE  \E k \in Chunk : LET c == file.chunks[k] IN
              /\ scan.pos = Start[k] /\ ~Refused(c) /\ Start[k + 1] <= scan.end
              /\ scan'.pos = Start[k + 1]
              /\ scan'.vp8x = IF c.tag = "VP8X" THEN k ELSE scan.vp8x
              /\ scan'.still <=> scan.still \/ c.tag \in {"ALPH", "VP8"}
              /\ scan'.anim <=> scan.anim \/ c.tag = "ANIM"
              /\ scan'.sized <=> scan.sized \/ c.tag \in {"VP8X", "VP8"}
              /\ scan'.frames = IF c.tag = "ANMF" THEN scan.frames + 1 ELSE scan.frames
              /\ scan'.images = IF c.tag = "VP8" THEN scan.images + 1 ELSE scan.images
              /\ scan'.truncated = scan.truncated /\ scan'.end = scan.end
<1>1. PICK c : c = Current
  OBVIOUS
<1>2. PICK at : at = CHOOSE i \in Chunk : Start[i] = scan.pos
  OBVIOUS
<1>3. PICK m : m = IF c.tag = "META" /\ c.which \notin DOMAIN scan.meta
                   THEN [w \in DOMAIN scan.meta \cup {c.which} |->
                           IF w = c.which THEN scan.pos + 1 ELSE scan.meta[w]]
                   ELSE scan.meta
  OBVIOUS
<1>4. PICK sized, still, anim :
          /\ sized = (scan.sized \/ c.tag \in {"VP8X", "VP8"})
          /\ still = (scan.still \/ c.tag \in {"ALPH", "VP8"})
          /\ anim = (scan.anim \/ c.tag = "ANIM")
  OBVIOUS
<1>5. /\ call = "chunks" /\ InScan /\ IsWhole /\ ~Refused(c)
      /\ scan' = [scan EXCEPT
            !.pos    = @ + 1 + c.len,
            !.vp8x   = IF c.tag = "VP8X" THEN at ELSE @,
            !.sized  = sized,
            !.still  = still,
            !.anim   = anim,
            !.frames = IF c.tag = "ANMF" THEN @ + 1 ELSE @,
            !.images = IF c.tag = "VP8" THEN @ + 1 ELSE @,
            !.meta   = m]
  BY <1>1, <1>2, <1>3, <1>4 DEF ScanChunk
<1>6. PICK k \in Chunk :
          /\ scan.pos = Start[k] /\ c = file.chunks[k]
          /\ Start[k + 1] <= scan.end /\ scan.pos + 1 + c.len = Start[k + 1]
  BY <1>1, <1>5, ScanAt DEF InHeaders
<1>7. at = k
  BY <1>2, <1>6, Numbers, ChunksApart
<1>8. /\ scan'.pos = Start[k + 1]
      /\ scan'.vp8x = IF c.tag = "VP8X" THEN k ELSE scan.vp8x
      /\ scan'.sized = sized /\ scan'.still = still /\ scan'.anim = anim
      /\ scan'.frames = IF c.tag = "ANMF" THEN scan.frames + 1 ELSE scan.frames
      /\ scan'.images = IF c.tag = "VP8" THEN scan.images + 1 ELSE scan.images
      /\ scan'.truncated = scan.truncated /\ scan'.end = scan.end
  BY <1>5, <1>6, <1>7 DEF StreamInv, Typed, ScanTyped
<1>9. /\ scan'.still <=> scan.still \/ c.tag \in {"ALPH", "VP8"}
      /\ scan'.anim <=> scan.anim \/ c.tag = "ANIM"
      /\ scan'.sized <=> scan.sized \/ c.tag \in {"VP8X", "VP8"}
  BY <1>4, <1>8, Zenon
<1> QED  BY <1>5, <1>6, <1>8, <1>9

LEMMA ScanChunkSound ==
    ASSUME StreamInv, Sound, ScanChunk
    PROVE  Sound'
<1>1. PICK k \in Chunk :
          /\ scan.pos = Start[k] /\ ~Refused(file.chunks[k])
          /\ scan'.pos = Start[k + 1]
          /\ scan'.vp8x = IF file.chunks[k].tag = "VP8X" THEN k ELSE scan.vp8x
          /\ scan'.still <=> scan.still \/ file.chunks[k].tag \in {"ALPH", "VP8"}
          /\ scan'.anim <=> scan.anim \/ file.chunks[k].tag = "ANIM"
          /\ scan'.frames = IF file.chunks[k].tag = "ANMF" THEN scan.frames + 1 ELSE scan.frames
          /\ scan'.images = IF file.chunks[k].tag = "VP8" THEN scan.images + 1 ELSE scan.images
  BY ScanChunkDoes
<1> DEFINE c == file.chunks[k]
<1>2. /\ file \in Files /\ file' = file /\ k \in 1..Count + 1 /\ k + 1 \in 1..Count + 1
      /\ scan.frames \in Nat /\ scan.images \in Nat
  BY Numbers, ChunkEnds DEF ScanChunk, fileVars, StreamInv, Typed, TypeOK
<1>3. /\ Start' = Start /\ Chunk' = Chunk /\ Count' = Count
      /\ \A tag : Tagged(tag)' = Tagged(tag)
      /\ \A i, tag : Before(i, tag)' = Before(i, tag)
      /\ \A i : DeclaredBefore(i)' <=> DeclaredBefore(i)
      /\ Stills' = Stills
  BY <1>2, SameFile, SameMeaning
<1>4. /\ \A tag : Scanned(tag) = Before(k, tag)
      /\ ScannedStills = Before(k, "VP8") \cup Before(k, "ALPH")
  BY <1>1, <1>2, ScannedHere
<1>5. \A tag : Scanned(tag)' = Before(k + 1, tag)
  <2>1. ASSUME NEW i \in Chunk PROVE Start[i + 1] <= Start[k + 1] <=> i < k + 1
    <3>1. i \in Nat /\ k \in Nat /\ (Start[i + 1] <= Start[k + 1] <=> i <= k)
      BY <1>2, ChunksApart
    <3> QED  BY <3>1
  <2> QED  BY <1>1, <1>3, <2>1 DEF Scanned, Before, Tagged
<1>6. \A tag : Scanned(tag)' = IF c.tag = tag THEN Scanned(tag) \cup {k} ELSE Scanned(tag)
  BY <1>2, <1>4, <1>5, BeforeNext
<1>7. ScannedStills' = IF c.tag \in {"ALPH", "VP8"} THEN ScannedStills \cup {k} ELSE ScannedStills
  BY <1>6 DEF ScannedStills
<1>8. /\ scan.vp8x # 0 <=> Before(k, "VP8X") # {}
      /\ Declares <=> DeclaredBefore(k)
      /\ scan.anim <=> Before(k, "ANIM") # {}
      /\ scan.frames > 0 <=> Before(k, "ANMF") # {}
  BY <1>1, RefusedMeans
<1>9. /\ c.tag = "VP8X" => scan.vp8x = 0
      /\ c.tag \in {"ALPH", "VP8"} => ~AnimDeclared
      /\ c.tag = "ANIM" => ~scan.still
      /\ c.tag = "ANMF" => scan.anim /\ c.fits /\ (Declares \/ ~(scan.frames > 0))
  BY <1>1 DEF Refused
<1>10. \A i \in Scanned("VP8X")' : i = scan'.vp8x
  BY <1>1, <1>4, <1>6, <1>8, <1>9 DEF Sound
<1>11. /\ scan'.anim <=> Scanned("ANIM")' # {}
       /\ scan'.frames > 0 <=> Scanned("ANMF")' # {}
       /\ scan'.images > 0 <=> Scanned("VP8")' # {}
  BY <1>1, <1>2, <1>6 DEF Sound
<1>12. ScannedStills' # {} => scan'.still
  BY <1>1, <1>7 DEF Sound
<1>13. scan'.still => ScannedStills' # {}
  <2>1. ASSUME NEW i \in Tagged("VP8"), Start[i] = scan.pos PROVE c.tag = "VP8"
    <3>1. i = k
      BY <1>1, <1>2, <2>1, ChunksApart DEF Tagged
    <3> QED  BY <3>1 DEF Tagged
  <2> QED  BY <1>1, <1>7, <2>1 DEF Sound
<1>14. \A i \in ScannedStills' : ~DeclaredBefore(i) /\ Before(i, "ANIM") = {}
  BY <1>7, <1>8, <1>9 DEF Sound, AnimDeclared
<1>15. \A i \in Scanned("ANIM")', j \in Stills : j > i
  <2> SUFFICES ASSUME c.tag = "ANIM", NEW j \in Stills PROVE j > k
    BY <1>6 DEF Sound
  <2>1. ~scan.still /\ ScannedStills = {}
    BY <1>9 DEF Sound
  <2>2. j \in Chunk /\ j # k /\ j \in Nat /\ k \in Nat
    BY <1>2, ChunkEnds DEF Stills, Tagged
  <2>3. ~(j < k)
    BY <1>4, <2>1 DEF Stills, Before
  <2> QED  BY <2>2, <2>3
<1>16. \A i \in Scanned("ANMF")' :
          /\ Before(i, "ANIM") # {} /\ file.chunks[i].fits
          /\ DeclaredBefore(i) \/ Before(i, "ANMF") = {}
  <2> SUFFICES ASSUME c.tag = "ANMF"
               PROVE  /\ Before(k, "ANIM") # {} /\ c.fits
                      /\ DeclaredBefore(k) \/ Before(k, "ANMF") = {}
    BY <1>6 DEF Sound
  <2> QED  BY <1>8, <1>9
<1> HIDE DEF c
<1> QED  BY <1>2, <1>3, <1>10, <1>11, <1>12, <1>13, <1>14, <1>15, <1>16 DEF Sound

LEMMA ScanRiffSound ==
    ASSUME StreamInv, Sound, ScanRiff
    PROVE  Sound'
<1>1. /\ file' = file /\ scan'.pos = (IF scan.pos = 0 THEN RiffHeader ELSE scan.pos)
      /\ scan'.vp8x = scan.vp8x /\ scan'.still = scan.still /\ scan'.anim = scan.anim
      /\ scan'.frames = scan.frames /\ scan'.images = scan.images
  BY DEF ScanRiff, fileVars, StreamInv, Typed, ScanTyped
<1>2. file \in Files /\ 1 \in 1..Count + 1 /\ Start[1] = RiffHeader /\ 1 \in Chunk
  BY Numbers, FileFacts, StartIs
<1>3. /\ Start' = Start /\ Chunk' = Chunk
      /\ \A tag : Tagged(tag)' = Tagged(tag)
      /\ \A i, tag : Before(i, tag)' = Before(i, tag)
      /\ \A i : DeclaredBefore(i)' <=> DeclaredBefore(i)
      /\ Stills' = Stills
  BY <1>1, SameFile, SameMeaning
<1>4. \A i \in Chunk : /\ Start[i] \in Nat /\ RiffHeader <= Start[i]
                       /\ Start[i] < Start[i + 1] /\ Start[i + 1] \in Nat
  BY <1>2, ChunkEnds, FileEnd
<1>5. \A i \in Chunk : scan.pos = 0 => /\ ~(Start[i + 1] <= scan.pos) /\ ~(Start[i + 1] <= RiffHeader)
                                       /\ Start[i] # scan.pos
  BY <1>4 DEF RiffHeader
<1>6. /\ \A tag : Scanned(tag)' = Scanned(tag)
      /\ ScannedStills' = ScannedStills
  BY <1>1, <1>3, <1>5 DEF Scanned, ScannedStills, Tagged
<1>7. scan.still => ScannedStills # {} \/ \E i \in Tagged("VP8") : Start[i] = scan'.pos
  BY <1>1, <1>5 DEF Sound, Tagged
<1> QED  BY <1>1, <1>3, <1>6, <1>7 DEF Sound

\* What part of a chunk adds to the scan.
LEMMA ScanPartialDoes ==
    ASSUME StreamInv, ~Conflicts, ScanPartial
    PROVE  \E k \in Chunk : LET c == file.chunks[k] IN
              /\ scan.pos = Start[k] /\ ~(Start[k + 1] <= scan.end)
              /\ scan'.pos = scan.pos /\ scan'.end = scan.end /\ scan'.vp8x = scan.vp8x
              /\ scan'.anim = scan.anim /\ scan'.frames = scan.frames
              /\ scan'.images = scan.images
              /\ scan.still => scan'.still
              /\ scan.sized => scan'.sized
              /\ scan'.still => scan.still \/ c.tag = "VP8"
              /\ call' \in {"refuse", "scanned"}
              /\ call' = "refuse" <=> \/ ~FirstChunk(c)
                                      \/ streaming /\ c.tag = "VP8" /\ scan.images = 0 /\ AnimDeclared
<1>1. PICK c, image, header :
          /\ c = Current
          /\ image = (streaming /\ c.tag = "VP8" /\ scan.images = 0)
          /\ header = (image /\ scan.end > scan.pos + 1)
  OBVIOUS
<1>2. /\ call = "chunks" /\ InScan /\ ~IsWhole
      /\ scan' = [scan EXCEPT !.truncated = TRUE,
                              !.still = @ \/ (image /\ ~AnimDeclared),
                              !.sized = @ \/ (header /\ ~AnimDeclared)]
      /\ call' = IF ~FirstChunk(c) \/ (image /\ AnimDeclared) \/ (header /\ Conflict(c))
                 THEN "refuse" ELSE "scanned"
  BY <1>1 DEF ScanPartial
<1>3. PICK k \in Chunk :
          /\ scan.pos = Start[k] /\ c = file.chunks[k] /\ Start[k] < Given
          /\ ~(Start[k + 1] <= scan.end)
  BY <1>1, <1>2, ScanAt DEF InHeaders
<1>4. PICK st, sz : st = (scan.still \/ (image /\ ~AnimDeclared))
                    /\ sz = (scan.sized \/ (header /\ ~AnimDeclared))
  OBVIOUS
<1>5. /\ scan'.pos = scan.pos /\ scan'.end = scan.end /\ scan'.vp8x = scan.vp8x
      /\ scan'.anim = scan.anim /\ scan'.frames = scan.frames
      /\ scan'.images = scan.images
      /\ scan'.still = st /\ scan'.sized = sz
  BY <1>2, <1>4 DEF StreamInv, Typed, ScanTyped
<1>6. /\ scan.still => st
      /\ scan.sized => sz
      /\ st => scan.still \/ c.tag = "VP8"
  BY <1>1, <1>4, Zenon
<1>7. /\ call' \in {"refuse", "scanned"}
      /\ call' = "refuse" <=> ~FirstChunk(c) \/ (image /\ AnimDeclared)
  <2>1. ~(header /\ Conflict(c))
    <3>1. header => image
      BY <1>1
    <3>2. image /\ Conflict(c) => FALSE
      BY <1>1, <1>3, NoConflict
    <3> QED  BY <3>1, <3>2
  <2> QED  BY <1>2, <2>1
<1> QED  BY <1>1, <1>3, <1>5, <1>6, <1>7

LEMMA ScanPartialSound ==
    ASSUME StreamInv, ~Conflicts, Sound, ScanPartial
    PROVE  Sound'
<1>1. PICK k \in Chunk :
              /\ scan.pos = Start[k]
              /\ scan'.pos = scan.pos /\ scan'.vp8x = scan.vp8x
              /\ scan'.anim = scan.anim /\ scan'.frames = scan.frames
              /\ scan'.images = scan.images
              /\ scan.still => scan'.still
              /\ scan'.still => scan.still \/ file.chunks[k].tag = "VP8"
  BY ScanPartialDoes
<1>2. file' = file
  BY DEF ScanPartial, fileVars
<1>3. /\ Start' = Start /\ Chunk' = Chunk
      /\ \A tag : Tagged(tag)' = Tagged(tag)
      /\ \A i, tag : Before(i, tag)' = Before(i, tag)
      /\ \A i : DeclaredBefore(i)' <=> DeclaredBefore(i)
      /\ Stills' = Stills
  BY <1>2, SameFile, SameMeaning
<1>4. /\ \A tag : Scanned(tag)' = Scanned(tag)
      /\ ScannedStills' = ScannedStills
  BY <1>1, <1>3 DEF Scanned, ScannedStills
<1>5. file.chunks[k].tag = "VP8" => \E i \in Tagged("VP8") : Start[i] = scan.pos
  BY <1>1 DEF Tagged
<1> QED  BY <1>1, <1>2, <1>3, <1>4, <1>5 DEF Sound

\* What a call that rescans leaves.
LEMMA RescannedDoes ==
    ASSUME StreamInv, NEW s \in {"ok", "truncated", "invalid"}, Rescanned(s)
    PROVE  /\ call' = "idle" /\ via' = via
           /\ UNCHANGED <<file, fed, streaming, inputMode, scan, alpha, active, decoded,
                          stillReady, stillDone, shown>>
           /\ s = "ok" => end' = scan.end /\ pos' = IF headersValid THEN pos ELSE RiffHeader
           /\ s # "ok" => UNCHANGED <<end, pos>>
           /\ headersValid' => headersValid \/ s = "ok"
           /\ headersValid' => size' = size
           /\ via = "open" => (headersValid' => Verdict(s) = "ok")
           /\ via \in {"append", "update"} => (headersValid' => s # "invalid")
           /\ ~headersValid' => \/ via = "open" \/ s = "invalid"
                                \/ ~headersValid /\ s = "truncated"
           /\ eos' <=> eos \/ (via = "open" /\ Verdict(s) = "ok")
           /\ size' = size \/ size' = 0
           /\ via \in {"open", "eos"} => status' = Verdict(s)
<1>1. PICK bad, open : /\ bad = (\/ via = "open" /\ Verdict(s) # "ok"
                                 \/ via \in {"append", "update"} /\ s \notin {"ok", "truncated"})
                       /\ open = (via = "open" /\ Verdict(s) = "ok")
  OBVIOUS
<1>2. /\ bad \in BOOLEAN /\ open \in BOOLEAN
      /\ bad <=> \/ via = "open" /\ Verdict(s) # "ok"
                 \/ via \in {"append", "update"} /\ s = "invalid"
      /\ open <=> via = "open" /\ Verdict(s) = "ok"
  BY <1>1, Zenon
<1>3. /\ call' = "idle" /\ via' = via
      /\ IF s = "ok" THEN /\ end' = scan.end
                          /\ pos' = IF headersValid THEN pos ELSE RiffHeader
         ELSE UNCHANGED <<end, pos>>
      /\ headersValid' = (~bad /\ (headersValid \/ s = "ok"))
      /\ IF bad /\ via # "append" THEN EmptyWindow ELSE UNCHANGED windowVars
      /\ status' = IF via \in {"append", "update"} /\ s = "truncated" THEN "ok" ELSE Verdict(s)
      /\ eos' = (eos \/ open)
      /\ UNCHANGED <<file, fed, streaming, inputMode, scan, alpha, active, decoded,
                     stillReady, stillDone, shown>>
  BY <1>1 DEF Rescanned, fileVars
<1>4. /\ headersValid' <=> ~bad /\ (headersValid \/ s = "ok")
      /\ eos' <=> eos \/ open
  BY <1>2, <1>3, Zenon DEF StreamInv, Typed, TypeOK
<1>5. /\ ~bad => size' = size
      /\ size' = size \/ size' = 0
  BY <1>3 DEF EmptyWindow, windowVars
<1> QED  BY <1>2, <1>3, <1>4, <1>5

-----------------------------------------------------------------------------
(* The verdict.                                                            *)

\* A call that brings data leaves the scan and the walk as they are.
Supplied ==
    /\ UNCHANGED <<file, scan, headersValid, pos, alpha, active, decoded,
                   stillReady, stillDone, shown>>
    /\ call = "idle" /\ call' \in {"idle", "headers"}
    /\ fed' \in Nat /\ fed <= fed'
    /\ \/ via = "none" /\ via' \in {"open", "stream"}
       \/ ~eos /\ via \notin {"none", "open"} /\ via' # "open"
    /\ via' = "eos" => streaming' /\ eos' /\ size' = size
    /\ call' = "headers" => /\ via' \in {"open", "append", "update", "eos"}
                            /\ via' # "open" => streaming'
                            /\ ~eos' /\ inputMode' # "append" => size' = fed'
    /\ call' = "idle" => size' \in {0, size}
    /\ end' = end \/ size' = 0
    /\ via' = "open" => call' = "headers"

LEMMA SuppliesDo ==
    ASSUME StreamInv, Short, Supplies
    PROVE  Supplied
<1> USE DEF Supplied
<1>0. fed \in Nat /\ (streaming => via \notin {"none", "open"}) /\ (via = "eos" => eos)
      /\ (via = "none" => fed = 0)
  BY Numbers DEF StreamInv, Calls, Short
<1>1. ASSUME NEW n \in 0..Supply, NEW lent \in BOOLEAN, Open(n, lent) PROVE Supplied
  <2>1. n \in Nat
    BY <1>1, Numbers
  <2> QED  BY <1>0, <1>1, <2>1 DEF Open, Idle, Install, Rescan, modeVars, scanVars, walkVars
<1>2. ASSUME NEW n \in 0..Supply, NEW lent \in BOOLEAN, Update(n, lent) PROVE Supplied
  <2>1. n \in Nat /\ fed <= n
    BY <1>2, Numbers DEF Update
  <2> QED  BY <1>0, <1>2, <2>1 DEF Update, Accepts, Idle, Install, Rescan, scanVars, walkVars
<1>3. ASSUME OpenStream PROVE Supplied
  BY <1>0, <1>3 DEF OpenStream, Idle, fileVars, windowVars, scanVars, walkVars
<1>4. ASSUME NEW n \in 1..Supply, Append_(n) PROVE Supplied
  <2>1. fed + n \in Nat /\ fed <= fed + n
    BY <1>0, Numbers
  <2>2. \/ call' = call /\ via' = via /\ size' = size
        \/ call' = "headers" /\ via' = "append"
    BY <1>4 DEF Append_, Answer, Rescan, windowVars
  <2> QED  BY <1>0, <1>4, <2>1, <2>2 DEF Append_, Accepts, Idle, scanVars, walkVars
<1>5. ASSUME NEW n \in 1..Supply, AppendFails(n) PROVE Supplied
  <2>1. Len(<<>>) = 0 /\ size \in Nat
    BY Numbers, EmptySeq
  <2>2. size' = size
    BY <1>5, <2>1 DEF AppendFails, AppendUnits
  <2> QED  BY <1>0, <1>5, <2>2 DEF AppendFails, Accepts, Idle, Answer, fileVars, scanVars, walkVars
<1>6. ASSUME TakeUpdateBuffer PROVE Supplied
  BY <1>0, <1>6 DEF TakeUpdateBuffer, Idle, EmptyWindow, fileVars, modeVars, walkVars, callVars
<1>7. ASSUME EndOfStream PROVE Supplied
  BY <1>0, <1>7 DEF EndOfStream, Idle, Rescan, fileVars, windowVars, scanVars, walkVars
<1> HIDE DEF Supplied
<1> QED  BY <1>1, <1>2, <1>3, <1>4, <1>5, <1>6, <1>7 DEF Supplies

LEMMA SuppliesVerdict ==
    ASSUME StreamInv, VerdictInv, Supplies
    PROVE  VerdictInv'
<1>1. Supplied
  BY SuppliesDo DEF VerdictInv
<1>2. Sound'
  BY <1>1, SoundSame DEF VerdictInv, Supplied
<1>3. Short'
  BY <1>1 DEF VerdictInv, Short, Supplied, InHeaders, Rescanning
<1> QED  BY <1>2, <1>3 DEF VerdictInv

\* What the walk leaves as it is.
LEMMA WalksDo ==
    ASSUME StreamInv, Walks
    PROVE  /\ UNCHANGED <<file, fed, streaming, inputMode, eos, scan, headersValid, end,
                          animation, size, discarded, buf>>
           /\ via' = via
           /\ call \in {"idle", "walk", "emit"} /\ call' \in {"idle", "walk", "emit"}
<1> USE DEF fileVars, modeVars, windowVars, scanVars, Idle, Walking, Answer, Returned
<1>1. CASE NoHeaders \/ NextPicture \/ Emit \/ EmitFails \/ WalkEnds \/ RunsPast \/ Rewind
  BY <1>1 DEF NoHeaders, NextPicture, Emit, EmitFails, WalkEnds, RunsPast, Rewind
<1>2. CASE StepArriving \/ WalkImage
  BY <1>2 DEF StepArriving, WalkImage, WalkOn, Step
<1>3. CASE SkipChunk \/ WalkAlpha \/ RefuseAlpha \/ WalkFrame
  BY <1>3 DEF SkipChunk, WalkAlpha, RefuseAlpha, WalkFrame, WalkOn, callVars
<1> QED  BY <1>1, <1>2, <1>3 DEF Walks

LEMMA WalksVerdict ==
    ASSUME StreamInv, VerdictInv, Walks
    PROVE  VerdictInv'
<1>1. /\ UNCHANGED <<file, fed, streaming, inputMode, eos, scan, headersValid, size>> /\ via' = via
      /\ call' \in {"idle", "walk", "emit"}
  BY WalksDo
<1>2. Sound'
  BY <1>1, SoundSame DEF VerdictInv
<1>3. Short'
  BY <1>1 DEF VerdictInv, Short, InHeaders, Rescanning
<1> QED  BY <1>2, <1>3 DEF VerdictInv

\* How a scan ends, and with what.
Ends(s) ==
    /\ s \in {"ok", "truncated", "invalid"} /\ Rescanned(s)
    /\ \/ /\ call = "headers" /\ s # "ok" /\ scan.pos = 0 /\ size < RiffHeader
          /\ s = "invalid" => ~streaming
       \/ /\ call = "chunks" /\ s = "invalid" /\ InScan /\ IsWhole /\ Refused(Current)
       \/ /\ call = "refuse" /\ s = "invalid"
       \/ /\ call = "scanned"
          /\ s = "truncated" <=> ~scan.sized /\ scan.truncated
          /\ s = "ok" <=> /\ scan.sized
                          /\ ~(~streaming /\ ~scan.truncated /\ AnimDeclared /\ ~scan.anim)

LEMMA ScansEnd ==
    ASSUME ScanTooShort \/ ScanRefuses \/ RefuseConflict \/ ScanEnds
    PROVE  \E s : Ends(s)
<1>1. CASE ScanTooShort
  BY <1>1 DEF ScanTooShort, Ends
<1>2. CASE ScanRefuses
  BY <1>2 DEF ScanRefuses, Ends
<1>3. CASE RefuseConflict
  BY <1>3 DEF RefuseConflict, Ends
<1>4. CASE ScanEnds
  <2>1. PICK s : s = IF ~scan.sized THEN (IF scan.truncated THEN "truncated" ELSE "invalid")
                     ELSE IF ~streaming /\ ~scan.truncated /\ AnimDeclared /\ ~scan.anim
                     THEN "invalid" ELSE "ok"
    OBVIOUS
  <2>2. call = "scanned" /\ Rescanned(s)
    BY <1>4, <2>1 DEF ScanEnds
  <2>3. /\ s \in {"ok", "truncated", "invalid"}
        /\ s = "truncated" <=> ~scan.sized /\ scan.truncated
        /\ s = "ok" <=> /\ scan.sized
                        /\ ~(~streaming /\ ~scan.truncated /\ AnimDeclared /\ ~scan.anim)
    BY <2>1
  <2> QED  BY <2>2, <2>3 DEF Ends
<1> QED  BY <1>1, <1>2, <1>3, <1>4

LEMMA EndsVerdict ==
    ASSUME StreamInv, VerdictInv, NEW s, Ends(s)
    PROVE  VerdictInv'
<1>1. /\ call' = "idle" /\ via' = via
      /\ UNCHANGED <<file, streaming, scan>>
      /\ headersValid' => headersValid \/ s = "ok"
      /\ eos => eos'
  BY RescannedDoes DEF Ends
<1>2. s = "ok" => scan.sized
  BY DEF Ends
<1>3. Sound'
  BY <1>1, SoundSame DEF VerdictInv
<1>4. Short'
  BY <1>1, <1>2 DEF VerdictInv, Short, InHeaders, Rescanning
<1> QED  BY <1>3, <1>4 DEF VerdictInv

LEMMA ScansVerdict ==
    ASSUME StreamInv, ~Conflicts, VerdictInv, Scans
    PROVE  VerdictInv'
<1>0. VerdictInv => Sound /\ Short
  BY DEF VerdictInv
<1>1. CASE ScanRiff
  <2>1. /\ UNCHANGED <<file, fed, streaming, inputMode, eos, size, headersValid>> /\ via' = via
        /\ call = "headers" /\ call' = "chunks"
        /\ scan'.truncated = (RiffEnd > size) /\ scan'.sized = scan.sized
    BY <1>1 DEF ScanRiff, fileVars, modeVars, windowVars, StreamInv, Typed, ScanTyped
  <2>2. scan'.truncated => size < RiffEnd
    BY <2>1, Numbers
  <2>3. Short'
    BY <1>0, <2>1, <2>2, SameFile DEF Short, InHeaders, Rescanning
  <2> QED  BY <1>0, <1>1, <2>3, ScanRiffSound DEF VerdictInv
<1>2. CASE ScanChunk
  <2>1. /\ UNCHANGED <<file, fed, streaming, inputMode, eos, size, headersValid, call, via>>
    BY <1>2 DEF ScanChunk, fileVars, modeVars, windowVars, callVars
  <2>2. scan'.truncated = scan.truncated /\ (scan.sized => scan'.sized)
    BY <1>2, ScanChunkDoes
  <2>3. Short'
    BY <1>0, <2>1, <2>2, SameFile DEF Short, InHeaders, Rescanning
  <2> QED  BY <1>0, <1>2, <2>3, ScanChunkSound DEF VerdictInv
<1>3. CASE ScanPartial
  <2>1. /\ UNCHANGED <<file, fed, streaming, inputMode, eos, size, headersValid>> /\ via' = via
        /\ call = "chunks" /\ call' \in {"refuse", "scanned"}
    BY <1>3, ScanPartialDoes DEF ScanPartial, fileVars, modeVars, windowVars
  <2>2. PICK k \in Chunk : ~(Start[k + 1] <= scan.end) /\ (scan.sized => scan'.sized)
    BY <1>3, ScanPartialDoes
  <2>3. size < RiffEnd
    <3>1. scan.end = Least(RiffEnd, size) /\ RiffEnd \in Nat /\ size \in Nat /\ file \in Files
      BY <2>1, Numbers DEF StreamInv, Scanning, InHeaders
    <3>2. Start[k + 1] <= RiffEnd /\ Start[k + 1] \in Nat
      BY <3>1, ChunkEnds
    <3> QED  BY <2>2, <3>1, <3>2 DEF Least
  <2>4. Short'
    BY <1>0, <2>1, <2>2, <2>3, SameFile DEF Short, InHeaders, Rescanning
  <2> QED  BY <1>0, <1>3, <2>4, ScanPartialSound DEF VerdictInv
<1>4. CASE ScanAll
  <2>1. /\ UNCHANGED <<file, fed, streaming, inputMode, eos, size, headersValid, scan>> /\ via' = via
        /\ call = "chunks" /\ call' = "scanned"
    BY <1>4 DEF ScanAll, fileVars, modeVars, windowVars, scanVars
  <2>2. Short'
    BY <1>0, <2>1, SameFile DEF Short, InHeaders, Rescanning
  <2> QED  BY <1>0, <2>1, <2>2, SoundSame DEF VerdictInv
<1>5. CASE ScanTooShort \/ ScanRefuses \/ RefuseConflict \/ ScanEnds
  BY <1>5, ScansEnd, EndsVerdict
<1> QED  BY <1>1, <1>2, <1>3, <1>4, <1>5, CountConflictNever DEF Scans

LEMMA InitVerdict ==
    ASSUME Init
    PROVE  VerdictInv
<1>1. /\ file \in Files /\ streaming = FALSE /\ call = "idle" /\ via = "none"
      /\ headersValid = FALSE
  BY DEF Init
<1>2. /\ scan.pos = 0 /\ scan.vp8x = 0 /\ scan.still = FALSE /\ scan.anim = FALSE
      /\ scan.frames = 0 /\ scan.images = 0
  BY DEF Init
<1>3. \A i \in Chunk : ~(Start[i + 1] <= 0)
  <2> SUFFICES ASSUME NEW i \in Chunk PROVE ~(Start[i + 1] <= 0)
    OBVIOUS
  <2>1. Start[i] \in Nat /\ Start[i + 1] \in Nat /\ Start[i] < Start[i + 1]
    BY <1>1, ChunkEnds
  <2> QED  BY <2>1
<1>4. (\A tag : Scanned(tag) = {}) /\ ScannedStills = {}
  BY <1>2, <1>3 DEF Scanned, ScannedStills, Tagged
<1>5. Sound
  BY <1>2, <1>4 DEF Sound
<1>6. Short
  BY <1>1 DEF Short, InHeaders, Rescanning
<1> QED  BY <1>5, <1>6 DEF VerdictInv

LEMMA StutterVerdict ==
    ASSUME StreamInv, VerdictInv, UNCHANGED vars
    PROVE  VerdictInv'
<1>1. UNCHANGED <<file, fed, streaming, inputMode, eos, size, scan, headersValid, call, via>>
  BY DEF vars, fileVars, modeVars, windowVars, scanVars, callVars
<1>2. RiffEnd' = RiffEnd
  BY <1>1, SameFile
<1> QED  BY <1>1, <1>2, SoundSame DEF VerdictInv, Short, InHeaders, Rescanning

\* What the scan has found when it has been through the whole file.
LEMMA AllScanned ==
    ASSUME StreamInv, VerdictInv, call = "scanned", ~scan.truncated
    PROVE  /\ size >= RiffEnd
           /\ \A tag : Scanned(tag) = Tagged(tag)
           /\ ScannedStills = Stills
           /\ Legal <=> scan.images > 0 \/ scan.frames > 0
<1>1. /\ file \in Files /\ size \in Nat /\ RiffEnd \in Nat /\ scan.pos \in Nat /\ scan.end \in Nat
  BY Numbers
<1>2. /\ RiffEnd <= size /\ scan.end = Least(RiffEnd, size)
      /\ \A i \in Chunk : Start[i + 1] <= scan.end => Start[i + 1] <= scan.pos
  BY DEF StreamInv, Scanning, InHeaders
<1>3. scan.end = RiffEnd
  BY <1>1, <1>2 DEF Least
<1>4. \A i \in Chunk : Start[i + 1] <= scan.pos
  BY <1>1, <1>2, <1>3, ChunkEnds
<1>5. /\ \A tag : Scanned(tag) = Tagged(tag)
      /\ ScannedStills = Stills
  BY <1>4 DEF Scanned, ScannedStills, Stills, Tagged
<1>6. file.chunks[1].tag \in {"VP8X", "VP8"}
  <2>1. 1 \in Chunk /\ Start[1] = RiffHeader
    BY <1>1, FileFacts, StartIs
  <2>2. Start[1] < Start[1 + 1] /\ Start[1 + 1] \in Nat /\ Start[1 + 1] <= scan.pos
    BY <1>1, <1>4, <2>1, ChunkEnds
  <2>3. scan.pos > RiffHeader
    BY <1>1, <2>1, <2>2 DEF RiffHeader
  <2> QED  BY <2>3 DEF StreamInv, Found
<1>7. \A i \in Tagged("VP8X") : Before(i, "VP8X") = {}
  <2> SUFFICES ASSUME NEW i \in Tagged("VP8X"), NEW j \in Before(i, "VP8X") PROVE FALSE
    OBVIOUS
  <2>1. i \in Chunk /\ i \in 1..Count + 1
    BY <1>1, ChunkEnds DEF Tagged
  <2>2. j < i /\ j \in Nat /\ i \in Nat /\ j \in Tagged("VP8X")
    BY <1>1, <2>1, BeforeLess, ChunkEnds
  <2>3. i = scan.vp8x /\ j = scan.vp8x
    BY <1>5, <2>2 DEF VerdictInv, Sound
  <2> QED  BY <2>2, <2>3
<1>8. /\ \A i \in Stills : ~DeclaredBefore(i) /\ Before(i, "ANIM") = {}
      /\ \A i \in Tagged("ANIM") : \A j \in Stills : j > i
      /\ \A i \in Tagged("ANMF") :
          /\ Before(i, "ANIM") # {} /\ file.chunks[i].fits
          /\ DeclaredBefore(i) \/ Before(i, "ANMF") = {}
  BY <1>5 DEF VerdictInv, Sound
<1>9. scan.images > 0 \/ scan.frames > 0 <=> Tagged("VP8") \cup Tagged("ANMF") # {}
  BY <1>5 DEF VerdictInv, Sound
<1>10. Legal <=> scan.images > 0 \/ scan.frames > 0
  BY <1>6, <1>7, <1>8, <1>9 DEF Legal
<1> QED  BY <1>1, <1>2, <1>5, <1>10

\* An animation is declared, and there is none: behind an image, or no picture at all.
LEMMA DeclaredOnly ==
    ASSUME StreamInv, VerdictInv, call = "scanned", ~scan.truncated, Legal
    PROVE  AnimDeclared /\ ~scan.anim <=> DeclaredLate
<1>1. /\ \A tag : Scanned(tag) = Tagged(tag)
      /\ scan.images > 0 \/ scan.frames > 0
  BY AllScanned
<1>2. scan.vp8x # 0 => scan.vp8x \in Tagged("VP8X")
  BY DEF StreamInv, Found
<1>3. /\ \A i \in Tagged("VP8X") : i = scan.vp8x
      /\ scan.anim <=> Tagged("ANIM") # {}
      /\ scan.frames > 0 <=> Tagged("ANMF") # {}
      /\ scan.images > 0 <=> Tagged("VP8") # {}
  BY <1>1 DEF VerdictInv, Sound
<1>4. \A i \in Chunk : i \in Nat /\ i # 0 /\ i \in 1..Count + 1
  <2>1. file \in Files
    BY Numbers
  <2> QED  BY <2>1, FileFacts, ChunkEnds
<1>5. ASSUME AnimDeclared, ~scan.anim PROVE DeclaredLate
  <2>1. scan.vp8x # 0 /\ file.chunks[scan.vp8x].declares
    BY <1>5 DEF AnimDeclared, Declares, Flags
  <2>2. Tagged("ANMF") = {}
    <3>1. \A i \in Tagged("ANMF") : Before(i, "ANIM") # {}
      BY DEF Legal
    <3>2. \A i : Before(i, "ANIM") = {}
      BY <1>3, <1>5 DEF Before
    <3> QED  BY <3>1, <3>2
  <2>3. PICK j \in Tagged("VP8") : TRUE
    BY <1>1, <1>3, <2>2
  <2>4. ~DeclaredBefore(j)
    BY DEF Legal, Stills
  <2>5. ~(scan.vp8x < j)
    BY <1>2, <2>1, <2>4 DEF DeclaredBefore, Before
  <2>6. j # scan.vp8x
    BY <1>2, <2>1 DEF Tagged
  <2>7. j < scan.vp8x
    BY <1>2, <1>4, <2>1, <2>5, <2>6 DEF Tagged
  <2>8. Before(scan.vp8x, "VP8") # {}
    BY <2>3, <2>7 DEF Before
  <2> QED  BY <1>2, <2>1, <2>8 DEF DeclaredLate
<1>6. ASSUME DeclaredLate PROVE AnimDeclared /\ ~scan.anim
  <2>1. PICK i \in Tagged("VP8X") : Before(i, "VP8") # {} /\ file.chunks[i].declares
    BY <1>6 DEF DeclaredLate
  <2>2. i = scan.vp8x /\ i # 0
    BY <1>3, <1>4, <2>1 DEF Tagged
  <2>3. PICK j \in Tagged("VP8") : TRUE
    BY <2>1 DEF Before
  <2>4. Tagged("ANIM") = {}
    <3> SUFFICES ASSUME NEW a \in Tagged("ANIM") PROVE FALSE
      OBVIOUS
    <3>1. j > a /\ Before(j, "ANIM") = {}
      BY DEF Legal, Stills
    <3>2. a \in Nat /\ j \in Nat
      BY <1>4 DEF Tagged
    <3>3. a < j
      BY <3>1, <3>2
    <3> QED  BY <3>1, <3>3 DEF Before
  <2> QED  BY <1>3, <2>1, <2>2, <2>4 DEF AnimDeclared, Declares, Flags
<1> QED  BY <1>5, <1>6

LEMMA EndsRight ==
    ASSUME StreamInv, VerdictInv, NEW s, Ends(s), via \in {"open", "eos"}
    PROVE  status' = "ok" <=> /\ Legal /\ size >= RiffEnd
                              /\ via = "open" => ~DeclaredLate
<1>1. status' = Verdict(s)
  BY RescannedDoes DEF Ends
<1>2. status' = "ok" <=> s = "ok" /\ ~scan.truncated /\ ~(scan.images = 0 /\ scan.frames = 0)
  BY <1>1 DEF Verdict
<1>3. /\ file \in Files /\ size \in Nat /\ RiffEnd \in Nat /\ RiffHeader < RiffEnd
      /\ scan.frames \in Nat /\ scan.images \in Nat
  BY Numbers DEF StreamInv, Typed, TypeOK
<1>4. CASE call = "headers"
  <2>1. s # "ok" /\ size < RiffHeader
    BY <1>4 DEF Ends
  <2>2. ~(size >= RiffEnd)
    BY <1>3, <2>1 DEF RiffHeader
  <2> QED  BY <1>2, <2>1, <2>2
<1>5. CASE call = "chunks"
  <2>1. s # "ok" /\ InScan /\ Refused(Current)
    BY <1>5 DEF Ends
  <2>2. PICK k \in Chunk : scan.pos = Start[k] /\ Current = file.chunks[k]
    BY <1>5, <2>1, ScanAt DEF InHeaders
  <2>3. ~Legal
    BY <2>1, <2>2, LegalNotRefused DEF VerdictInv
  <2> QED  BY <1>2, <2>1, <2>3
<1>6. CASE call = "refuse"
  <2>1. s # "ok" /\ size < RiffEnd
    BY <1>6 DEF Ends, VerdictInv, Short
  <2> QED  BY <1>2, <1>3, <2>1
<1>7. CASE call = "scanned" /\ scan.truncated
  <2>1. size < RiffEnd
    BY <1>7 DEF VerdictInv, Short, InHeaders
  <2> QED  BY <1>2, <1>3, <1>7, <2>1
<1>8. CASE call = "scanned" /\ ~scan.truncated
  <2>1. size >= RiffEnd /\ (Legal <=> scan.images > 0 \/ scan.frames > 0)
    BY <1>8, AllScanned
  <2>2. Legal <=> ~(scan.images = 0 /\ scan.frames = 0)
    BY <1>3, <2>1
  <2>3. Legal => (AnimDeclared /\ ~scan.anim <=> DeclaredLate)
    BY <1>8, DeclaredOnly
  <2>4. Legal => scan.sized
    <3>1. 1 \in Chunk /\ Start[1] = RiffHeader
      BY <1>3, FileFacts, StartIs
    <3>2. Start[1] < Start[1 + 1] /\ Start[1 + 1] \in Nat
      BY <1>3, <3>1, ChunkEnds
    <3>3. 1 \in Tagged(file.chunks[1].tag) /\ scan.pos \in Nat
      BY <3>1, Numbers DEF Tagged
    <3>4. Start[1 + 1] <= scan.pos
      BY <1>8, <3>3, AllScanned DEF Scanned
    <3>5. scan.pos > RiffHeader
      BY <3>1, <3>2, <3>3, <3>4 DEF RiffHeader
    <3> QED  BY <3>5 DEF StreamInv, Found
  <2>5. streaming <=> via = "eos"
    BY DEF StreamInv, Calls, VerdictInv, Short
  <2>6. s = "ok" <=> /\ scan.sized
                     /\ ~(~streaming /\ AnimDeclared /\ ~scan.anim)
    BY <1>8 DEF Ends
  <2> QED  BY <1>2, <1>8, <2>1, <2>2, <2>3, <2>4, <2>5, <2>6
<1>9. call \in {"headers", "chunks", "refuse", "scanned"}
  BY DEF Ends
<1> QED  BY <1>4, <1>5, <1>6, <1>7, <1>8, <1>9

LEMMA VerdictStep ==
    ASSUME StreamInv, VerdictInv, ~Conflicts, Next,
           call \in {"headers", "chunks", "refuse", "scanned"}, call' = "idle",
           via \in {"open", "eos"}
    PROVE  status' = "ok" <=> /\ Legal /\ size >= RiffEnd
                              /\ via = "open" => ~DeclaredLate
<1>1. ~Supplies
  BY SuppliesDo DEF VerdictInv, Supplied
<1>2. ~Walks
  BY WalksDo
<1>3. ~ScanRiff /\ ~ScanChunk /\ ~ScanPartial /\ ~ScanAll
  BY ScanPartialDoes DEF ScanRiff, ScanChunk, ScanAll, callVars
<1>4. ScanTooShort \/ ScanRefuses \/ RefuseConflict \/ ScanEnds
  BY <1>1, <1>2, <1>3, CountConflictNever DEF Next, Scans
<1> QED  BY <1>4, ScansEnd, EndsRight

\* The scan is sound, of a file whose image does not conflict with its canvas.
THEOREM ScanIsSound == Spec => [](~Conflicts => VerdictInv)
<1> DEFINE Inv == ~Conflicts => StreamInv /\ VerdictInv
<1>1. Init => Inv
  BY InitKeeps, InitVerdict
<1>2. Inv /\ [Next]_vars => Inv'
  <2> SUFFICES ASSUME Inv, [Next]_vars, ~Conflicts' PROVE (StreamInv /\ VerdictInv)'
    OBVIOUS
  <2>1. ~Conflicts
    BY FileStays, SameFile
  <2>2. StreamInv'
    BY <2>1, NextKeeps, StutterKeeps
  <2>3. VerdictInv'
    BY <2>1, SuppliesVerdict, ScansVerdict, WalksVerdict, StutterVerdict DEF Next
  <2> QED  BY <2>2, <2>3
<1>3. Inv => (~Conflicts => VerdictInv)
  OBVIOUS
<1> QED  BY <1>1, <1>2, <1>3, PTL DEF Spec

\* A file is accepted at its end just when it is legal and all there, in one
\* piece as in many; only open() also refuses an image before a canvas that
\* declares an animation (Scan::headers, check_final_headers).
THEOREM VerdictIsSame == Spec => SameVerdict
<1> DEFINE A == /\ call \in {"headers", "chunks", "refuse", "scanned"} /\ call' = "idle"
                /\ via \in {"open", "eos"} /\ ~Conflicts
                => (status' = "ok" <=> /\ Legal /\ size >= RiffEnd
                                       /\ via = "open" => ~DeclaredLate)
<1>1. ASSUME ~Conflicts => StreamInv, ~Conflicts => VerdictInv, [Next]_vars
      PROVE  [A]_vars
  <2>1. CASE Next
    BY <1>1, <2>1, VerdictStep
  <2>2. CASE UNCHANGED vars
    BY <2>2
  <2> QED  BY <1>1, <2>1, <2>2
<1>2. Spec => [][A]_vars
  BY <1>1, Invariance, ScanIsSound, PTL DEF Spec
<1> QED  BY <1>2 DEF SameVerdict

-----------------------------------------------------------------------------
(* Headers are refused for good, and the walk ends where the file does.    *)

LEMMA GivenHere ==
    ASSUME StreamInv, Short, Rescanning, Fed
    PROVE  Least(RiffEnd, size) = Given
<1>1. /\ size \in Nat /\ fed \in Nat /\ RiffEnd \in Nat
      /\ inputMode = "append" => Least(RiffEnd, size) = Given
  BY Numbers
<1>2. inputMode # "append" => size = fed
  <2>1. inputMode # "append" => size \in {0, fed}
    BY DEF StreamInv, Window
  <2> QED  BY <1>1, <2>1 DEF Short, Fed
<1> QED  BY <1>1, <1>2 DEF Given, Least

LEMMA NothingBefore ==
    ASSUME StreamInv
    PROVE  /\ via = "none" => pos = 0
           /\ scan.pos = 0 => pos = 0
           /\ pos = 0 => ~headersValid
           /\ via = "open" => ~streaming
<1>1. /\ pos \in Nat /\ scan.pos \in Nat /\ pos <= scan.pos /\ scan.pos <= Given
      /\ Given \in Nat /\ fed \in Nat /\ Given <= fed
  BY Numbers DEF StreamInv, Ordered
<1>2. via = "none" => fed = 0
  BY DEF StreamInv, Calls
<1>3. headersValid => pos > 0
  BY DEF StreamInv, Ordered
<1>4. via = "open" => ~streaming
  BY DEF StreamInv, Calls
<1> QED  BY <1>1, <1>2, <1>3, <1>4

LEMMA HaltedSame ==
    ASSUME StreamInv, Halted, UNCHANGED <<file, scan>>, fed' \in Nat, fed <= fed'
    PROVE  Halted'
<1>1. Given \in Nat /\ Given' \in Nat /\ Given <= Given' /\ file \in Files
  BY Numbers, GivenGrows
<1> QED  BY <1>1, HaltedStays

LEMMA SuppliesLast ==
    ASSUME StreamInv, Short, EndRight, Lasting, Supplies
    PROVE  EndRight' /\ Lasting'
<1>1. Supplied
  BY SuppliesDo
<1>2. Halted => Halted'
  BY <1>1, HaltedSame DEF Supplied
<1>3. EndRight'
  <2>1. RiffEnd' = RiffEnd
    BY <1>1, SameFile DEF Supplied
  <2> QED  BY <1>1, <2>1 DEF Supplied, EndRight, Rescanning
<1>4. Lasting'
  <2>1. CASE via = "none"
    <3>1. pos' = 0
      BY <1>1, <2>1, NothingBefore DEF Supplied
    <3> QED  BY <1>1, <3>1 DEF Lasting, Supplied
  <2>2. CASE via # "none"
    <3>1. Fed /\ via # "open" /\ via' # "open"
      BY <1>1, <2>2 DEF Supplied, Fed
    <3> QED  BY <1>1, <1>2, <3>1 DEF Lasting, Supplied
  <2> QED  BY <2>1, <2>2
<1> QED  BY <1>3, <1>4

LEMMA WalksLast ==
    ASSUME StreamInv, EndRight, Lasting, Walks
    PROVE  EndRight' /\ Lasting'
<1>1. /\ UNCHANGED <<file, fed, streaming, inputMode, eos, scan, headersValid, end, size>>
      /\ via' = via
      /\ call \in {"idle", "walk", "emit"} /\ call' \in {"idle", "walk", "emit"}
  BY WalksDo
<1>2. Halted => Halted'
  BY <1>1, Numbers, HaltedSame
<1>3. ~headersValid => pos' = pos
  <2>1. call \in {"walk", "emit"} => headersValid
    BY DEF StreamInv, Calls
  <2> QED  BY <2>1 DEF Walks, NoHeaders, NextPicture, Emit, EmitFails, WalkEnds, RunsPast, StepArriving,
              SkipChunk, WalkImage, WalkAlpha, RefuseAlpha, WalkFrame, WalkOn, Rewind, Walking, walkVars
<1>4. EndRight'
  <2>1. RiffEnd' = RiffEnd
    BY <1>1, SameFile
  <2> QED  BY <1>1, <2>1 DEF EndRight, Rescanning
<1>5. Lasting'
  BY <1>1, <1>2, <1>3 DEF Lasting, Rescanning, Fed
<1> QED  BY <1>4, <1>5

\* The steps within a scan.
ScanGoesOn == ScanRiff \/ ScanChunk \/ ScanPartial \/ ScanAll

LEMMA ScanningDoes ==
    ASSUME ScanGoesOn
    PROVE  /\ UNCHANGED <<file, fed, streaming, inputMode, eos, size, headersValid, end, pos,
                          alpha, active, decoded, stillReady, stillDone, shown>>
           /\ via' = via /\ Rescanning /\ Rescanning'
BY DEF ScanGoesOn, ScanRiff, ScanChunk, ScanPartial, ScanAll, fileVars, modeVars, windowVars,
       walkVars, scanVars, callVars, Rescanning

LEMMA ScanningLasts ==
    ASSUME StreamInv, ~Conflicts, Short, EndRight, Lasting, ScanGoesOn
    PROVE  EndRight' /\ Lasting'
<1>1. /\ UNCHANGED <<file, fed, streaming, inputMode, eos, size, headersValid, end, pos>>
      /\ via' = via /\ Rescanning /\ Rescanning'
  BY ScanningDoes
<1>2. /\ file \in Files /\ fed \in Nat /\ Given \in Nat /\ scan.pos \in Nat /\ scan.end \in Nat
      /\ pos \in Nat
  BY Numbers
<1>3. EndRight'
  <2>1. RiffEnd' = RiffEnd
    BY <1>1, SameFile
  <2> QED  BY <1>1, <2>1 DEF EndRight
<1>4. CASE ScanRiff
  <2>1. /\ call' = "chunks" /\ scan'.vp8x = scan.vp8x /\ scan'.anim = scan.anim
        /\ scan'.frames = scan.frames /\ scan'.images = scan.images /\ scan'.still = scan.still
        /\ scan.pos # 0 => scan'.pos = scan.pos
    BY <1>4 DEF ScanRiff, StreamInv, Typed, ScanTyped
  <2>2. pos # 0 /\ Halted => Halted'
    <3>1. Given' = Given
      BY <1>1, SameFile DEF Given
    <3> QED  BY <1>1, <1>2, <2>1, <3>1, NothingBefore, HaltedStays
  <2> QED  BY <1>1, <1>3, <2>1, <2>2 DEF Lasting, Rescanning, Fed
<1>5. CASE ScanChunk
  <2>1. call' = "chunks" /\ call = "chunks"
    BY <1>5 DEF ScanChunk, callVars
  <2>2. PICK k \in Chunk : scan.pos = Start[k] /\ ~Refused(file.chunks[k])
    BY <1>5, ScanChunkDoes
  <2>3. ~Halted
    BY <1>2, <2>2, HaltedHere
  <2> QED  BY <1>1, <1>3, <2>1, <2>3 DEF Lasting, Rescanning, Fed
<1>6. CASE ScanPartial
  <2>1. PICK k \in Chunk :
              /\ scan.pos = Start[k] /\ ~(Start[k + 1] <= scan.end)
              /\ scan'.pos = scan.pos /\ scan'.vp8x = scan.vp8x
              /\ scan'.anim = scan.anim /\ scan'.frames = scan.frames
              /\ scan'.images = scan.images
              /\ scan.still => scan'.still
              /\ call' \in {"refuse", "scanned"}
              /\ call' = "refuse" <=>
                    \/ ~FirstChunk(file.chunks[k])
                    \/ /\ streaming /\ file.chunks[k].tag = "VP8" /\ scan.images = 0
                       /\ AnimDeclared
    BY <1>6, ScanPartialDoes
  <2>2. Halted => Halted'
    <3>1. Given' = Given
      BY <1>1, SameFile DEF Given
    <3> QED  BY <1>1, <1>2, <2>1, <3>1, HaltedStays
  <2> SUFFICES ASSUME Fed, via # "open"
               PROVE  /\ call' = "refuse" => Halted'
                      /\ ~headersValid /\ pos # 0 => Halted' /\ call' # "scanned"
    BY <1>1, <1>3 DEF Lasting, Rescanning, Fed
  <2>3. call = "chunks" /\ InScan /\ Start[k] < Given /\ scan.end = Given /\ streaming
    <3>1. call = "chunks" /\ InScan
      BY <1>6 DEF ScanPartial
    <3>2. \E j \in Chunk : scan.pos = Start[j] /\ Start[j] < Given
      BY <3>1, ScanAt DEF InHeaders
    <3>3. scan.end = Given
      BY <1>1, <3>1, GivenHere DEF StreamInv, Scanning, InHeaders
    <3> QED  BY <1>1, <2>1, <3>1, <3>2, <3>3 DEF Short
  <2>4. call' = "refuse" => Halted
    <3> SUFFICES ASSUME call' = "refuse" PROVE Halted
      OBVIOUS
    <3>1. Refused(file.chunks[k])
      BY <2>1 DEF Refused
    <3> QED  BY <2>1, <2>3, <3>1 DEF Halted
  <2>5. Halted => call' # "scanned"
    <3> SUFFICES ASSUME Halted PROVE call' = "refuse"
      OBVIOUS
    <3>1. \/ Start[k + 1] <= Given
          \/ ~FirstChunk(file.chunks[k])
          \/ file.chunks[k].tag = "VP8" /\ scan.images = 0 /\ AnimDeclared
      BY <1>2, <2>1, HaltedHere
    <3> QED  BY <2>1, <2>3, <3>1
  <2>6. ~headersValid /\ pos # 0 => Halted
    BY DEF Lasting
  <2> QED  BY <2>2, <2>4, <2>5, <2>6
<1>7. CASE ScanAll
  <2>1. /\ call = "chunks" /\ ~InScan /\ call' = "scanned" /\ scan' = scan
    BY <1>7 DEF ScanAll, scanVars
  <2>2. Fed => ~Halted
    <3> SUFFICES ASSUME Fed, Halted PROVE FALSE
      OBVIOUS
    <3>1. PICK i \in Chunk : scan.pos = Start[i] /\ Start[i] < Given
      BY DEF Halted
    <3>2. scan.end = Given
      BY <1>1, <2>1, GivenHere DEF StreamInv, Scanning, InHeaders
    <3> QED  BY <1>2, <2>1, <3>1, <3>2 DEF InScan
  <2> QED  BY <1>1, <1>3, <2>1, <2>2 DEF Lasting, Rescanning, Fed
<1> QED  BY <1>4, <1>5, <1>6, <1>7 DEF ScanGoesOn

\* A scan that went through the whole file has found its size.
LEMMA SizedAtEnd ==
    ASSUME StreamInv, VerdictInv, call = "scanned", ~scan.truncated
    PROVE  scan.sized
<1>1. file \in Files /\ scan.pos \in Nat
  BY Numbers
<1>2. 1 \in Chunk /\ Start[1] = RiffHeader
  BY <1>1, FileFacts, StartIs
<1>3. Start[1] < Start[1 + 1] /\ Start[1 + 1] \in Nat
  BY <1>1, <1>2, ChunkEnds
<1>4. 1 \in Tagged(file.chunks[1].tag)
  BY <1>2 DEF Tagged
<1>5. Start[1 + 1] <= scan.pos
  BY <1>4, AllScanned DEF Scanned
<1>6. scan.pos > RiffHeader
  BY <1>1, <1>2, <1>3, <1>5 DEF RiffHeader
<1> QED  BY <1>6 DEF StreamInv, Found

LEMMA EndsLast ==
    ASSUME StreamInv, VerdictInv, EndRight, Lasting, NEW s, Ends(s)
    PROVE  EndRight' /\ Lasting'
<1>1. /\ call' = "idle" /\ via' = via
      /\ UNCHANGED <<file, fed, streaming, inputMode, scan>>
      /\ s = "ok" => end' = scan.end
      /\ s # "ok" => UNCHANGED <<end, pos>>
      /\ headersValid' => headersValid \/ s = "ok"
      /\ headersValid' => size' = size
      /\ via = "open" => (headersValid' => Verdict(s) = "ok")
      /\ via \in {"append", "update"} => (headersValid' => s # "invalid")
      /\ ~headersValid' => \/ via = "open" \/ s = "invalid"
                           \/ ~headersValid /\ s = "truncated"
      /\ eos' <=> eos \/ (via = "open" /\ Verdict(s) = "ok")
      /\ size' = size \/ size' = 0
  BY RescannedDoes DEF Ends
<1>2. /\ size \in Nat /\ fed \in Nat /\ file \in Files /\ Given \in Nat /\ scan.end \in Nat
  BY Numbers
<1>3. /\ Rescanning /\ s \in {"ok", "truncated", "invalid"}
      /\ via \in {"open", "append", "update", "eos"}
      /\ via # "open" => streaming
  BY DEF Ends, Rescanning, VerdictInv, Short
<1>4. s = "truncated" => pos = 0 \/ (call = "scanned" /\ ~headersValid)
  BY NothingBefore DEF Ends, VerdictInv, Short
<1>5. EndRight'
  <2>1. RiffEnd' = RiffEnd
    BY <1>1, SameFile
  <2> SUFFICES ASSUME headersValid', size' > 0 PROVE end' = Least(RiffEnd, size)
    BY <1>1, <2>1 DEF EndRight
  <2>2. CASE s = "ok"
    <3>1. call = "scanned"
      BY <2>2 DEF Ends
    <3> QED  BY <1>1, <2>2, <3>1 DEF StreamInv, Scanning, InHeaders
  <2>3. CASE s # "ok"
    <3>1. headersValid /\ s # "truncated"
      BY <1>1, <1>4, <2>3, NothingBefore
    <3>2. via = "eos"
      BY <1>1, <1>3, <2>3, <3>1 DEF Verdict
    <3> QED  BY <1>1, <2>3, <3>1, <3>2 DEF EndRight
  <2> QED  BY <2>2, <2>3
<1>6. Lasting'
  <2> SUFFICES ASSUME via # "open", Fed, ~headersValid', pos' # 0 PROVE Halted'
    <3>1. Fed' => Fed \/ via = "open"
      BY <1>1, <1>2 DEF Fed
    <3> QED  BY <1>1, <3>1 DEF Lasting, Rescanning
  <2>1. s \in {"invalid", "truncated"} /\ pos' = pos
    BY <1>1
  <2>2. s = "invalid"
    <3> SUFFICES ASSUME s = "truncated" PROVE FALSE
      BY <2>1
    <3> QED  BY <1>4, <2>1 DEF Lasting
  <2>3. Halted
    <3>1. CASE call = "headers"
      BY <2>1, <3>1, NothingBefore DEF Ends
    <3>2. CASE call = "chunks"
      <4>1. InScan /\ IsWhole /\ Refused(Current)
        BY <2>2, <3>2 DEF Ends
      <4>2. PICK k \in Chunk : scan.pos = Start[k] /\ Current = file.chunks[k]
                               /\ Start[k] < Given /\ Start[k + 1] <= scan.end
        BY <3>2, <4>1, ScanAt DEF InHeaders
      <4>3. scan.end <= Given /\ Start[k + 1] \in Nat
        BY <1>2, ChunkEnds DEF StreamInv, Ordered
      <4>4. Start[k + 1] <= Given
        BY <1>2, <4>2, <4>3
      <4> QED  BY <4>1, <4>2, <4>4 DEF Halted
    <3>3. CASE call = "refuse"
      BY <3>3 DEF Lasting
    <3>4. CASE call = "scanned"
      BY <1>3, <2>2, <3>4, SizedAtEnd DEF Ends
    <3> QED  BY <1>3, <3>1, <3>2, <3>3, <3>4 DEF Rescanning
  <2> QED  BY <1>1, <1>2, <2>3, HaltedSame
<1> QED  BY <1>5, <1>6

-----------------------------------------------------------------------------
(* The pictures of the first chunks.                                       *)

Things == {[picture |-> <<Start[i] + 1, AlphaOf(i)>>] : i \in Chunk}
          \cup {[picture |-> <<Start[i] + 1, None>>] : i \in Chunk}
          \cup {[error |-> Start[i]] : i \in Chunk}

LEMMA EventIs ==
    ASSUME NEW i \in Chunk
    PROVE  Event(i) \in Seq(Things)
<1>1. Event(i) \in {<<>>, <<[picture |-> <<Start[i] + 1, AlphaOf(i)>>]>>,
                    <<[picture |-> <<Start[i] + 1, None>>]>>, <<[error |-> Start[i]]>>}
  BY DEF Event
<1>2. PICK x, y, z : /\ x = [picture |-> <<Start[i] + 1, AlphaOf(i)>>]
                     /\ y = [picture |-> <<Start[i] + 1, None>>]
                     /\ z = [error |-> Start[i]]
  OBVIOUS
<1>3. x \in Things /\ y \in Things /\ z \in Things
  BY <1>2 DEF Things
<1>4. <<>> \in Seq(Things) /\ <<x>> \in Seq(Things) /\ <<y>> \in Seq(Things) /\ <<z>> \in Seq(Things)
  BY <1>3
<1> QED  BY <1>1, <1>2, <1>4

\* f is what the first 0 to n of the sequences e come to.
Joins(f, n, e) == f = [i \in 0..n |-> IF i = 0 THEN <<>> ELSE f[i - 1] \o e[i]]

LEMMA JoinsExist ==
    ASSUME NEW e, NEW n \in Nat
    PROVE  \E f : Joins(f, n, e)
<1> DEFINE T == {m \in 0..n : ~\E f : Joins(f, m, e)}
<1> SUFFICES T = {}
  OBVIOUS
<1>1. \E f : Joins(f, 0, e)
  <2>1. Joins([i \in 0..0 |-> <<>>], 0, e)
    BY DEF Joins
  <2> QED  BY <2>1
<1>2. ASSUME NEW m \in 1..n, NEW f, Joins(f, m - 1, e)
      PROVE  \E g : Joins(g, m, e)
  <2> DEFINE g == [i \in 0..m |-> IF i = m THEN f[m - 1] \o e[m] ELSE f[i]]
  <2>1. \A i \in 0..m - 1 : f[i] = IF i = 0 THEN <<>> ELSE f[i - 1] \o e[i]
    BY <1>2 DEF Joins
  <2>2. \A i \in 0..m : g[i] = IF i = 0 THEN <<>> ELSE g[i - 1] \o e[i]
    <3> SUFFICES ASSUME NEW i \in 0..m
                 PROVE  g[i] = IF i = 0 THEN <<>> ELSE g[i - 1] \o e[i]
      OBVIOUS
    <3>1. CASE i = 0
      <4>1. i # m /\ i \in 0..m - 1
        BY <3>1
      <4> QED  BY <2>1, <3>1, <4>1
    <3>2. CASE i # 0
      <4>1. i - 1 \in 0..m - 1 /\ i - 1 \in 0..m /\ i - 1 # m /\ (i = m \/ i \in 0..m - 1)
        BY <3>2
      <4>2. g[i - 1] = f[i - 1]
        BY <4>1
      <4>3. g[i] = IF i = m THEN f[m - 1] \o e[m] ELSE f[i]
        OBVIOUS
      <4> HIDE DEF g
      <4> QED  BY <2>1, <3>2, <4>1, <4>2, <4>3
    <3> QED  BY <3>1, <3>2
  <2>3. g = [i \in 0..m |-> g[i]]
    OBVIOUS
  <2> HIDE DEF g
  <2>4. Joins(g, m, e)
    BY <2>2, <2>3 DEF Joins
  <2> QED  BY <2>4
<1>3. ASSUME NEW m \in T PROVE m > 0 /\ m - 1 \in T
  <2>1. m # 0
    BY <1>1, <1>3
  <2>2. m \in 1..n /\ m - 1 \in 0..n
    BY <2>1
  <2>3. ~\E f : Joins(f, m - 1, e)
    BY <1>2, <1>3, <2>2
  <2> QED  BY <2>2, <2>3
<1>4. T \subseteq Nat
  OBVIOUS
<1> HIDE DEF T
<1> QED  BY <1>3, <1>4, NoDescent

LEMMA UptoIs ==
    ASSUME file \in Files
    PROVE  /\ Upto[0] = <<>>
           /\ \A n \in Chunk : Upto[n] = Upto[n - 1] \o Event(n)
<1>1. Count \in Nat /\ Chunk = 1..Count
  BY FileFacts
<1>2. PICK e : e = [i \in Chunk |-> Event(i)]
  OBVIOUS
<1>3. PICK f : f = [i \in 0..Count |-> IF i = 0 THEN <<>> ELSE f[i - 1] \o e[i]]
  BY <1>1, JoinsExist DEF Joins
<1>4. f = [i \in 0..Count |-> IF i = 0 THEN <<>> ELSE f[i - 1] \o Event(i)]
  <2>1. \A i \in 0..Count : (IF i = 0 THEN <<>> ELSE f[i - 1] \o e[i])
                             = (IF i = 0 THEN <<>> ELSE f[i - 1] \o Event(i))
    <3> SUFFICES ASSUME NEW i \in 0..Count, i # 0 PROVE e[i] = Event(i)
      OBVIOUS
    <3>1. i \in Chunk
      BY <1>1
    <3> QED  BY <1>2, <3>1
  <2> QED  BY <1>3, <2>1, Zenon
<1>5. Upto = [i \in 0..Count |-> IF i = 0 THEN <<>> ELSE Upto[i - 1] \o Event(i)]
  BY <1>4 DEF Upto
<1> HIDE DEF Upto
<1>6. 0 \in 0..Count
  BY <1>1
<1>7. ASSUME NEW n \in Chunk PROVE Upto[n] = Upto[n - 1] \o Event(n)
  <2>1. n \in 0..Count /\ n # 0
    BY <1>1
  <2> QED  BY <1>5, <2>1
<1> QED  BY <1>5, <1>6, <1>7

LEMMA UptoTyped ==
    ASSUME file \in Files
    PROVE  \A n \in 0..Count : Upto[n] \in Seq(Things)
<1>1. Count \in Nat /\ Chunk = 1..Count
  BY FileFacts
<1> DEFINE T == {n \in 0..Count : Upto[n] \notin Seq(Things)}
<1>2. ASSUME NEW n \in T PROVE n > 0 /\ n - 1 \in T
  <2>1. n # 0
    <3>1. <<>> \in Seq(Things)
      BY EmptySeq
    <3>2. Upto[0] = <<>>
      BY UptoIs
    <3> QED  BY <3>1, <3>2
  <2>2. n \in Chunk /\ n - 1 \in 0..Count
    BY <1>1, <2>1
  <2>3. Upto[n] = Upto[n - 1] \o Event(n) /\ Event(n) \in Seq(Things)
    BY <2>2, UptoIs, EventIs
  <2>4. Upto[n - 1] \notin Seq(Things)
    BY <2>3, ConcatProperties
  <2> QED  BY <1>1, <2>2, <2>4
<1>3. T \subseteq Nat
  BY <1>1
<1> HIDE DEF T
<1>4. T = {}
  BY <1>2, <1>3, NoDescent
<1> QED  BY <1>4 DEF T

\* The pictures of the first chunks are the first pictures.
LEMMA UptoFirst ==
    ASSUME file \in Files, NEW n \in 0..Count
    PROVE  IsPrefix(Upto[n], Upto[Count])
<1>0. Count \in Nat /\ Chunk = 1..Count /\ \A m \in 0..Count : Upto[m] \in Seq(Things)
  BY FileFacts, UptoTyped
<1> DEFINE First(s, t) == Len(s) <= Len(t) /\ \A j \in 1..Len(s) : s[j] = t[j]
           T == {d \in 0..Count : ~First(Upto[Count - d], Upto[Count])}
<1>1. ASSUME NEW d \in T PROVE d > 0 /\ d - 1 \in T
  <2>1. d # 0
    BY <1>0
  <2>2. /\ Count - d \in 0..Count /\ (Count - d) + 1 \in Chunk /\ d - 1 \in 0..Count
        /\ Count - (d - 1) = (Count - d) + 1 /\ ((Count - d) + 1) - 1 = Count - d
    BY <1>0, <2>1
  <2>3. PICK s, t, u, e : /\ s = Upto[Count - d] /\ t = Upto[(Count - d) + 1] /\ u = Upto[Count]
                          /\ e = Event((Count - d) + 1)
    OBVIOUS
  <2>4. t = s \o e /\ s \in Seq(Things) /\ e \in Seq(Things) /\ u \in Seq(Things) /\ t \in Seq(Things)
    <3>1. Upto[(Count - d) + 1] = Upto[((Count - d) + 1) - 1] \o Event((Count - d) + 1)
      BY <2>2, UptoIs
    <3>2. (Count - d) + 1 \in 0..Count /\ Count \in 0..Count
      BY <1>0, <2>2
    <3> QED  BY <1>0, <2>2, <2>3, <3>1, <3>2, EventIs
  <2>5. First(t, u) => First(s, u)
    <3>1. Len(s) \in Nat /\ Len(e) \in Nat /\ Len(u) \in Nat
      BY <2>4
    <3>2. Len(t) = Len(s) + Len(e) /\ \A j \in 1..Len(s) : t[j] = s[j]
      BY <2>4
    <3>3. \A j \in 1..Len(s) : j \in 1..Len(t)
      BY <3>1, <3>2
    <3> QED  BY <3>1, <3>2, <3>3
  <2>6. ~First(s, u)
    BY <1>1, <2>3
  <2> HIDE DEF First
  <2>7. ~First(Upto[Count - (d - 1)], Upto[Count])
    BY <2>2, <2>3, <2>5, <2>6
  <2>8. d > 0
    BY <1>0, <2>1
  <2> QED  BY <2>2, <2>7, <2>8
<1>2. T \subseteq Nat
  BY <1>0
<1> HIDE DEF T
<1>3. T = {}
  BY <1>1, <1>2, NoDescent
<1>4. First(Upto[n], Upto[Count])
  <2>1. Count - n \in 0..Count /\ Count - (Count - n) = n
    BY <1>0
  <2> QED  BY <1>3, <2>1 DEF T
<1>5. PICK s, t : s = Upto[n] /\ t = Upto[Count]
  OBVIOUS
<1>6. s \in Seq(Things) /\ t \in Seq(Things) /\ First(s, t)
  <2>1. Count \in 0..Count
    BY <1>0
  <2> QED  BY <1>0, <1>4, <1>5, <2>1
<1>7. SubSeq(s, 1, Len(s)) = SubSeq(t, 1, Len(s))
  BY <1>6
<1> QED  BY <1>5, <1>6, <1>7 DEF IsPrefix

\* And those of all chunks are those of the file.
LEMMA WholeIs ==
    ASSUME file \in Files
    PROVE  Whole = Upto[Count]
<1>0. Count \in Nat /\ Count >= 1 /\ Chunk = 1..Count /\ \A m \in 0..Count : Upto[m] \in Seq(Things)
  BY FileFacts, UptoTyped
<1>1. PICK e : e = [i \in Chunk |-> Event(i)]
  OBVIOUS
<1>2. Len(e) = Count /\ \A i \in 1..Count : e[i] = Event(i) /\ Event(i) \in Seq(Things)
  BY <1>0, <1>1, EventIs
<1>3. ASSUME NEW i \in 1..Count
      PROVE  Upto[i] = IF i = 1 THEN e[i] ELSE Upto[i - 1] \o e[i]
  <2>1. Upto[i] = Upto[i - 1] \o e[i] /\ e[i] \in Seq(Things)
    BY <1>0, <1>2, UptoIs
  <2>2. i = 1 => Upto[i - 1] = <<>>
    BY UptoIs
  <2>3. <<>> \o e[i] = e[i]
    BY <2>1, ConcatEmptySeq
  <2> QED  BY <2>1, <2>2, <2>3
<1>4. PICK g : g = [i \in 1..Count |-> Upto[i]]
  OBVIOUS
<1>5. g = [i \in 1..Len(e) |-> IF i = 1 THEN e[i] ELSE g[i - 1] \o e[i]]
  <2>1. \A i \in 1..Count : g[i] = IF i = 1 THEN e[i] ELSE g[i - 1] \o e[i]
    <3> SUFFICES ASSUME NEW i \in 1..Count
                 PROVE  g[i] = IF i = 1 THEN e[i] ELSE g[i - 1] \o e[i]
      OBVIOUS
    <3>1. i # 1 => i - 1 \in 1..Count
      BY <1>0
    <3> QED  BY <1>3, <1>4, <3>1
  <2> QED  BY <1>2, <1>4, <2>1
<1>6. \E f : f = [i \in 1..Len(e) |-> IF i = 1 THEN e[i] ELSE f[i - 1] \o e[i]]
  BY <1>5
<1>7. PICK f : /\ f = [i \in 1..Len(e) |-> IF i = 1 THEN e[i] ELSE f[i - 1] \o e[i]]
               /\ FlattenSeq(e) = f[Len(e)]
  <2>1. PICK f : f = CHOOSE h : h = [i \in 1..Len(e) |-> IF i = 1 THEN e[i] ELSE h[i - 1] \o e[i]]
    OBVIOUS
  <2>2. f = [i \in 1..Len(e) |-> IF i = 1 THEN e[i] ELSE f[i - 1] \o e[i]]
    BY <1>6, <2>1
  <2>3. Len(e) # 0
    BY <1>0, <1>2
  <2>4. FlattenSeq(e) = f[Len(e)]
    BY <2>1, <2>3, Zenon DEF FlattenSeq
  <2> QED  BY <2>2, <2>4
<1> DEFINE T == {i \in 1..Count : f[i] # Upto[i]}
<1>8. ASSUME NEW i \in T PROVE i > 0 /\ i - 1 \in T
  <2>1. f[i] = IF i = 1 THEN e[i] ELSE f[i - 1] \o e[i]
    BY <1>2, <1>7
  <2>2. i # 1
    BY <1>3, <2>1
  <2>3. i - 1 \in 1..Count /\ i > 0
    BY <1>0, <2>2
  <2>4. f[i - 1] # Upto[i - 1]
    <3>1. f[i] = f[i - 1] \o e[i] /\ Upto[i] = Upto[i - 1] \o e[i]
      BY <1>3, <2>1, <2>2
    <3> QED  BY <1>8, <3>1, Zenon
  <2> QED  BY <2>3, <2>4
<1>9. T \subseteq Nat
  BY <1>0
<1> HIDE DEF T
<1>10. T = {}
  BY <1>8, <1>9, NoDescent
<1>11. f[Count] = Upto[Count]
  BY <1>0, <1>10 DEF T
<1> QED  BY <1>1, <1>2, <1>7, <1>11 DEF Whole

LEMMA UptoSame ==
    ASSUME file' = file
    PROVE  Upto' = Upto /\ Count' = Count
BY DEF Upto, Count, Event, IsImage, IsAlpha, AlphaOf, CarriesAlpha, Tagged, Before, Start, Chunk

LEMMA EventCases ==
    ASSUME NEW k \in Chunk
    PROVE  /\ IsImage(k) => Event(k) = <<[picture |-> <<Start[k] + 1, AlphaOf(k)>>]>>
           /\ k \in Tagged("ANMF") => Event(k) = <<[picture |-> <<Start[k] + 1, None>>]>>
           /\ k \in Tagged("ALPH") /\ ~IsAlpha(k) => Event(k) = <<[error |-> Start[k]]>>
           /\ ~IsImage(k) /\ k \notin Tagged("ANMF") /\ (k \in Tagged("ALPH") => IsAlpha(k))
              => Event(k) = <<>>
<1>1. PICK x, y, z : /\ x = <<[picture |-> <<Start[k] + 1, AlphaOf(k)>>]>>
                     /\ y = <<[picture |-> <<Start[k] + 1, None>>]>>
                     /\ z = <<[error |-> Start[k]]>>
  OBVIOUS
<1>2. Event(k) = CASE IsImage(k) -> x
                   [] k \in Tagged("ANMF") -> y
                   [] k \in Tagged("ALPH") /\ ~IsAlpha(k) -> z
                   [] OTHER -> <<>>
  BY <1>1, Zenon DEF Event
<1>3. /\ IsImage(k) => k \in Tagged("VP8")
      /\ ~(k \in Tagged("VP8") /\ k \in Tagged("ANMF"))
      /\ ~(k \in Tagged("VP8") /\ k \in Tagged("ALPH"))
      /\ ~(k \in Tagged("ANMF") /\ k \in Tagged("ALPH"))
  BY DEF IsImage, Tagged
<1> QED  BY <1>1, <1>2, <1>3

\* What one more chunk adds.
LEMMA UptoNext ==
    ASSUME file \in Files, NEW k \in Chunk
    PROVE  /\ k \in 0..Count /\ k - 1 \in 0..Count /\ (k + 1) - 1 = k
           /\ Event(k) = <<>> => Upto[k] = Upto[k - 1]
           /\ \A x : Event(k) = <<x>> => Upto[k] = Append(Upto[k - 1], x)
<1>1. Count \in Nat /\ Chunk = 1..Count
  BY FileFacts
<1>2. k \in 0..Count /\ k - 1 \in 0..Count /\ (k + 1) - 1 = k
  BY <1>1
<1>3. Upto[k] = Upto[k - 1] \o Event(k) /\ Upto[k - 1] \in Seq(Things) /\ Event(k) \in Seq(Things)
  BY <1>2, UptoIs, UptoTyped, EventIs
<1>4. Event(k) = <<>> => Upto[k] = Upto[k - 1]
  BY <1>3, ConcatEmptySeq
<1>5. ASSUME NEW x, Event(k) = <<x>> PROVE Upto[k] = Append(Upto[k - 1], x)
  <2>1. x \in Things
    <3>1. PICK e \in Seq(Things) : e = <<x>>
      BY <1>3, <1>5
    <3>2. e[1] = x /\ 1 \in 1..Len(e)
      BY <3>1
    <3> QED  BY <3>1, <3>2, ElementOfSeq
  <2>2. Append(Upto[k - 1], x) = Upto[k - 1] \o <<x>>
    BY <1>3, <2>1, AppendIsConcat
  <2> QED  BY <1>3, <1>5, <2>2
<1> QED  BY <1>2, <1>4, <1>5

\* Of the chunks of a kind before a place, if any, one is the first.
LEMMA FirstOfKind ==
    ASSUME file \in Files, NEW k \in Chunk, NEW tag, Before(k, tag) # {}
    PROVE  \E j \in Before(k, tag) : Before(j, tag) = {}
<1> SUFFICES ASSUME \A j \in Before(k, tag) : Before(j, tag) # {} PROVE FALSE
  OBVIOUS
<1>0. Count \in Nat /\ Chunk = 1..Count /\ k \in 1..Count + 1
  BY FileFacts, ChunkEnds
<1> DEFINE T == {d \in 0..Count : \E j \in Before(k, tag) : j <= d}
<1>1. ASSUME NEW d \in T PROVE d > 0 /\ d - 1 \in T
  <2>1. PICK j \in Before(k, tag) : j <= d
    OBVIOUS
  <2>2. j \in Chunk /\ j \in 1..Count /\ j < k
    BY <1>0, <2>1, BeforeLess
  <2>3. PICK i \in Before(j, tag) : TRUE
    BY <2>1
  <2>4. i \in Tagged(tag) /\ i \in Chunk /\ i < j
    BY <2>2, <2>3, BeforeLess, ChunkEnds
  <2>5. i \in Before(k, tag) /\ i <= d - 1 /\ d > 0 /\ d - 1 \in 0..Count
    BY <1>0, <2>1, <2>2, <2>4 DEF Before
  <2> QED  BY <2>5
<1>2. T \subseteq Nat
  BY <1>0
<1>3. T # {}
  <2>1. PICK j \in Before(k, tag) : TRUE
    OBVIOUS
  <2>2. j \in 1..Count /\ j <= Count /\ Count \in 0..Count
    BY <1>0, BeforeLess
  <2> QED  BY <2>2
<1> HIDE DEF T
<1> QED  BY <1>1, <1>2, <1>3, NoDescent

-----------------------------------------------------------------------------
(* The walk shows them.                                                    *)

\* A step that leaves the walk where it is.
LEMMA ShowsSame ==
    ASSUME StreamInv, Shows, UNCHANGED <<file, pos, alpha, active, decoded, stillReady, stillDone, shown>>,
           fed' \in Nat, fed <= fed', Live' => Live,
           call' = "emit" => stillReady /\ ~stillDone
    PROVE  Shows'
<1>1. /\ Start' = Start /\ Chunk' = Chunk /\ Count' = Count /\ Upto' = Upto
      /\ \A tag : Tagged(tag)' = Tagged(tag)
      /\ \A i, tag : Before(i, tag)' = Before(i, tag)
      /\ \A i : IsImage(i)' <=> IsImage(i)
      /\ \A i : AlphaOf(i)' = AlphaOf(i)
  BY SameFile, SameMeaning, UptoSame
<1>2. Given \in Nat /\ Given' \in Nat /\ Given <= Given' /\ pos \in Nat
  BY Numbers, GivenGrows
<1>3. ASSUME NEW p, Fresh(p) PROVE Fresh(p)'
  <2>1. pos + 1 < Given => pos' + 1 < Given'
    BY <1>2
  <2> QED  BY <1>1, <1>3, <2>1 DEF Fresh
<1>4. ASSUME NEW p, Readied(p) PROVE Readied(p)'
  BY <1>1, <1>4 DEF Readied
<1>5. ASSUME NEW p, Finished(p) PROVE Finished(p)'
  BY <1>1, <1>5 DEF Finished
<1>6. \A p : ShowsAt(p) => ShowsAt(p)'
  BY <1>3, <1>4, <1>5 DEF ShowsAt
<1> QED  BY <1>1, <1>6 DEF Shows

LEMMA SuppliesShows ==
    ASSUME StreamInv, Short, Shows, Supplies
    PROVE  Shows'
<1>1. Supplied
  BY SuppliesDo
<1>2. Live' => Live
  <2>1. via = "none" => ~headersValid
    BY NothingBefore
  <2> QED  BY <1>1, <2>1 DEF Supplied, Live, Fed
<1> QED  BY <1>1, <1>2, ShowsSame DEF Supplied

LEMMA ScanningShows ==
    ASSUME StreamInv, Shows, ScanGoesOn
    PROVE  Shows'
<1>1. /\ UNCHANGED <<file, fed, eos, size, headersValid, pos,
                     alpha, active, decoded, stillReady, stillDone, shown>>
      /\ Rescanning'
  BY ScanningDoes
<1>2. fed' \in Nat /\ fed <= fed'
  BY <1>1, Numbers
<1> QED  BY <1>1, <1>2, ShowsSame DEF Live, Fed, Rescanning

\* At the first chunk, nothing is shown.
LEMMA ShowsFirst ==
    ASSUME StreamInv, file' = file, shown' = <<>>, ~active', ~stillReady', ~stillDone',
           ~alpha'.pending, ~alpha'.has, pos' = RiffHeader, call' # "emit"
    PROVE  Shows'
<1>1. /\ Start' = Start /\ Count' = Count /\ Upto' = Upto
      /\ \A i, tag : Before(i, tag)' = Before(i, tag)
  BY SameFile, UptoSame
<1>2. file \in Files /\ Count \in Nat /\ Count >= 1 /\ Chunk = 1..Count
  BY Numbers, FileFacts
<1>3. Start[1] = RiffHeader /\ Upto[0] = <<>> /\ 1 - 1 = 0 /\ 0 \in 0..Count /\ 1 \in 1..Count + 1
  BY <1>2, StartIs, UptoIs
<1>4. \A tag : Before(1, tag) = {}
  BY <1>2 DEF Before, Tagged
<1>5. Fresh(1)'
  BY <1>1, <1>3, <1>4 DEF Fresh
<1>6. ShowsAt(1)'
  BY <1>5 DEF ShowsAt
<1>7. pos' # 0
  BY DEF RiffHeader
<1> QED  BY <1>1, <1>3, <1>6, <1>7 DEF Shows

LEMMA EndsShows ==
    ASSUME StreamInv, Short, Lasting, Shows, NEW s, Ends(s)
    PROVE  Shows'
<1>1. /\ call' = "idle"
      /\ UNCHANGED <<file, fed, alpha, active, decoded, stillReady, stillDone, shown>>
      /\ s = "ok" => pos' = IF headersValid THEN pos ELSE RiffHeader
      /\ s # "ok" => pos' = pos
      /\ headersValid' => headersValid \/ s = "ok"
      /\ headersValid' => size' = size
      /\ eos => eos'
  BY RescannedDoes DEF Ends
<1>2. fed' \in Nat /\ fed <= fed'
  BY <1>1, Numbers
<1>3. CASE headersValid \/ s # "ok"
  <2>1. pos' = pos
    BY <1>1, <1>3
  <2>2. Live' => Live
    BY <1>1, <1>3 DEF Live, Fed
  <2> QED  BY <1>1, <1>2, <2>1, <2>2, ShowsSame
<1>4. CASE ~headersValid /\ s = "ok" /\ Live'
  <2>1. call = "scanned" /\ Rescanning
    BY <1>4 DEF Ends, Rescanning
  <2>2. Fed
    BY <1>1, <1>4 DEF Live, Fed
  <2>3. pos = 0
    BY <1>4, <2>1, <2>2 DEF Lasting
  <2>4. shown = <<>> /\ ~active /\ ~stillReady /\ ~stillDone /\ ~alpha.pending /\ ~alpha.has
    BY <2>3 DEF Shows
  <2> QED  BY <1>1, <1>4, <2>4, ShowsFirst
<1>5. CASE ~headersValid /\ s = "ok" /\ ~Live'
  <2>1. pos' # 0
    BY <1>1, <1>5 DEF RiffHeader
  <2>2. /\ Count' = Count /\ Upto' = Upto
    BY <1>1, UptoSame
  <2> QED  BY <1>1, <1>5, <2>1, <2>2 DEF Shows
<1> QED  BY <1>3, <1>4, <1>5

\* Where the walk stands, what it reads there and what it has shown.
LEMMA WalkHere ==
    ASSUME StreamInv, EndRight, Shows, Walking, InWalk
    PROVE  /\ Live /\ end = Given /\ pos < Given /\ Given <= size
           /\ discarded <= pos /\ At(pos) = pos /\ (pos + 1 < Given => At(pos + 1) = pos + 1)
           /\ stillReady => stillDone
           /\ Avail \in Nat
           /\ \E k \in Chunk :
                 /\ pos = Start[k] /\ Here = file.chunks[k] /\ ShowsAt(k)
                 /\ Here.len \in Nat
                 /\ Here.tag = "VP8" => Here.need \in 1..Here.len
                 /\ Avail >= Here.len =>
                        /\ pos + 1 + Here.len = Start[k + 1] /\ RiffHeader < Start[k + 1]
                        /\ Start[k + 1] <= scan.pos
<1>1. PICK k \in Chunk :
                 /\ pos = Start[k] /\ Here = file.chunks[k]
                 /\ Here.len \in Nat
                 /\ Here.tag = "VP8" => Here.need \in 1..Here.len
                 /\ Avail >= Here.len =>
                        /\ pos + 1 + Here.len = Start[k + 1] /\ RiffHeader < Start[k + 1]
                        /\ Start[k + 1] <= scan.pos
  BY Walked
<1>2. headersValid /\ size > 0 /\ pos > 0 /\ Avail \in Nat
  BY Walked
<1>3. /\ file \in Files /\ pos \in Nat /\ size \in Nat /\ discarded \in Nat /\ end \in Nat
      /\ Given \in Nat /\ RiffEnd \in Nat /\ fed \in Nat
      /\ Least(RiffEnd, size) <= size
  BY Numbers
<1>4. Live
  BY <1>2 DEF Live, Fed
<1>5. end = Least(RiffEnd, size)
  BY <1>2 DEF EndRight, Rescanning, Walking
<1>6. end = Given
  <2>1. CASE inputMode = "append"
    BY <1>5, <2>1, Numbers
  <2>2. CASE inputMode # "append"
    <3>1. size = fed
      BY <1>2, <1>3, <2>2 DEF StreamInv, Window
    <3> QED  BY <1>3, <1>5, <3>1 DEF Given, Least
  <2> QED  BY <2>1, <2>2
<1>7. pos < Given /\ Given <= size
  BY <1>3, <1>5, <1>6 DEF InWalk
<1>8. discarded <= pos /\ discarded <= size /\ buf = Units(discarded, size)
  BY DEF StreamInv, Ordered, Window
<1>9. At(pos) = pos /\ (pos + 1 < Given => At(pos + 1) = pos + 1)
  <2>1. pos < size /\ (pos + 1 < Given => pos + 1 < size) /\ pos \in Int /\ pos + 1 \in Int
        /\ discarded <= pos + 1
    BY <1>3, <1>7, <1>8
  <2> QED  BY <1>3, <1>8, <2>1, UnitAt
<1>10. stillReady => stillDone
  BY DEF StreamInv, Alphas, Walking
<1>11. PICK p \in 1..Count + 1 : pos = Start[p] /\ ShowsAt(p)
  BY <1>4 DEF Shows
<1>12. p = k
  <2>1. k \in 1..Count + 1
    BY <1>3, ChunkEnds
  <2> QED  BY <1>1, <1>3, <1>11, <2>1, StartsApart
<1> QED  BY <1>1, <1>2, <1>4, <1>6, <1>7, <1>8, <1>9, <1>10, <1>11, <1>12

\* What the scan has found of the chunks up to the walk.
LEMMA BeforeScanned ==
    ASSUME StreamInv, Sound, NEW k \in Chunk, Start[k] <= scan.pos, NEW tag, NEW j \in Before(k, tag)
    PROVE  j \in Scanned(tag)
<1>1. file \in Files /\ scan.pos \in Nat /\ k \in 1..Count + 1
  BY Numbers, ChunkEnds
<1>2. j \in Tagged(tag) /\ j \in Chunk /\ j < k
  BY <1>1, BeforeLess
<1>3. Start[j + 1] <= Start[k] /\ Start[j + 1] \in Nat /\ Start[k] \in Nat
  BY <1>1, <1>2, ChunksApart, ChunkEnds
<1>4. Start[j + 1] <= scan.pos
  BY <1>1, <1>3
<1> QED  BY <1>2, <1>4 DEF Scanned

\* An image is decoded with the alpha that is its own.
LEMMA ImageIs ==
    ASSUME StreamInv, Sound, EndRight, Shows, Walking, InWalk,
           NEW k \in Chunk, pos = Start[k], k \in Tagged("VP8"), Fresh(k), ~active,
           pos + 1 < Given
    PROVE  Image(pos + 1) = <<Start[k] + 1, AlphaOf(k)>>
<1>1. /\ discarded <= pos /\ At(pos + 1) = pos + 1 /\ pos < Given /\ Given <= size
  BY WalkHere
<1>2. /\ file \in Files /\ pos \in Nat /\ scan.pos \in Nat /\ pos <= scan.pos /\ Given \in Nat
      /\ discarded \in Nat /\ size \in Nat /\ discarded <= size /\ alpha.at \in Nat
      /\ buf = Units(discarded, size)
  BY Numbers DEF StreamInv, Ordered, Window
<1>3. k \in 1..Count + 1 /\ k \in Nat /\ Count \in Nat /\ Chunk = 1..Count
  BY <1>2, ChunkEnds, FileFacts
<1>4. /\ Before(k, "VP8") = {}
      /\ alpha.pending <=> Before(k, "ALPH") # {}
      /\ alpha.has <=> Before(k, "ALPH") # {} /\ file.chunks[1].alpha
      /\ \A j \in Before(k, "ALPH") : alpha.has /\ Before(j, "ALPH") = {} => alpha.at = Start[j] + 1
  BY DEF Fresh
<1>5. \A j \in Before(k, "ALPH") : IsAlpha(j) <=> Before(j, "ALPH") = {}
  <2> SUFFICES ASSUME NEW j \in Before(k, "ALPH") PROVE IsAlpha(j) <=> Before(j, "ALPH") = {}
    OBVIOUS
  <2>1. j \in Tagged("ALPH") /\ j \in Nat /\ j < k /\ j \in 1..Count + 1
    BY <1>2, <1>3, BeforeLess
  <2>2. Before(j, "VP8") = {}
    <3> SUFFICES ASSUME NEW i \in Before(j, "VP8") PROVE FALSE
      OBVIOUS
    <3>1. i \in Tagged("VP8") /\ i \in Nat /\ i < j
      BY <1>2, <2>1, BeforeLess
    <3>2. i < k
      BY <1>3, <2>1, <3>1
    <3> QED  BY <1>4, <3>1, <3>2 DEF Before
  <2> QED  BY <2>1, <2>2 DEF IsAlpha
<1>6. PICK a : a = {j \in Before(k, "ALPH") : IsAlpha(j)}
  OBVIOUS
<1>7. AlphaOf(k) = IF a = {} \/ ~CarriesAlpha(k) THEN None ELSE Start[CHOOSE j \in a : TRUE] + 1
  BY <1>6 DEF AlphaOf
<1>8. CASE Before(k, "ALPH") = {}
  <2>1. a = {}
    BY <1>6, <1>8
  <2> QED  BY <1>1, <1>2, <1>4, <1>7, <1>8, <2>1 DEF Image
<1>9. CASE Before(k, "ALPH") # {}
  <2>1. a # {}
    BY <1>2, <1>5, <1>6, <1>9, FirstOfKind
  <2>2. 1 \in Before(k, "VP8X")
    <3>1. PICK j \in Before(k, "ALPH") : TRUE
      BY <1>9
    <3>2. j \in Chunk /\ j \in Nat /\ j < k
      BY <1>2, <1>3, <3>1, BeforeLess
    <3>3. 1 < k /\ 1 \in Chunk /\ 1 \in 1..Count + 1 /\ Start[1] = RiffHeader
      BY <1>2, <1>3, <3>2, StartIs
    <3>4. scan.pos > RiffHeader
      <4>1. Start[1] < Start[k] /\ Start[k] \in Nat
        BY <1>2, <1>3, <3>3, StartsApart
      <4> QED  BY <1>2, <3>3, <4>1 DEF RiffHeader
    <3>5. file.chunks[1].tag \in {"VP8X", "VP8"}
      BY <3>4 DEF StreamInv, Found
    <3>6. file.chunks[1].tag # "VP8"
      BY <1>4, <3>3 DEF Before, Tagged
    <3> QED  BY <3>3, <3>5, <3>6 DEF Before, Tagged
  <2>3. CarriesAlpha(k) <=> file.chunks[1].alpha
    <3>1. ASSUME NEW j \in Before(k, "VP8X") PROVE j = 1
      <4>1. j \in Scanned("VP8X") /\ 1 \in Scanned("VP8X")
        BY <1>2, <2>2, BeforeScanned
      <4> QED  BY <4>1 DEF Sound
    <3> QED  BY <2>2, <3>1 DEF CarriesAlpha
  <2>4. CASE ~file.chunks[1].alpha
    BY <1>1, <1>4, <1>7, <2>3, <2>4 DEF Image
  <2>5. CASE file.chunks[1].alpha
    <3>1. alpha.has /\ alpha.pending
      BY <1>4, <1>9, <2>5
    <3>2. PICK j : j = CHOOSE i \in a : TRUE
      OBVIOUS
    <3>3. j \in Before(k, "ALPH") /\ IsAlpha(j)
      BY <1>6, <2>1, <3>2
    <3>4. alpha.at = Start[j] + 1
      BY <1>4, <1>5, <3>1, <3>3
    <3>5. j \in Chunk /\ file.chunks[j].tag = "ALPH" /\ j < k
      BY <1>2, <1>3, <3>3, BeforeLess
    <3>6. Start[j] + 1 < Start[j + 1] /\ Start[j + 1] <= Start[k] /\ Start[j + 1] \in Nat /\ Start[j] \in Nat
      <4>1. file.chunks[j].len > 0
        BY <1>2, <3>5, FileFacts
      <4>2. /\ Start[j + 1] = Start[j] + 1 + file.chunks[j].len /\ Start[j] \in Nat
            /\ file.chunks[j].len \in Nat /\ Start[j + 1] \in Nat
        BY <1>2, <3>5, ChunkEnds
      <4> QED  BY <1>2, <3>5, <4>1, <4>2, ChunksApart
    <3>7. discarded <= alpha.at /\ alpha.at < size /\ alpha.at \in Int
      <4>1. discarded <= alpha.at
        BY <3>1 DEF StreamInv, Alphas
      <4> QED  BY <1>1, <1>2, <3>4, <3>6, <4>1
    <3>8. At(alpha.at) = alpha.at
      BY <1>2, <3>7, UnitAt
    <3>9. AlphaOf(k) = Start[j] + 1
      BY <1>7, <2>1, <2>3, <2>5, <3>2
    <3> QED  BY <1>1, <3>1, <3>4, <3>8, <3>9 DEF Image
  <2> QED  BY <2>4, <2>5
<1> QED  BY <1>8, <1>9

LEMMA ShowsThen ==
    ASSUME StreamInv, file' = file, NEW p \in 1..Count + 1, pos' = Start[p], ShowsAt(p)',
           \E n \in 0..Count : shown' = Upto[n], call' = "emit" => stillReady' /\ ~stillDone'
    PROVE  Shows'
<1>1. Start' = Start /\ Count' = Count /\ Upto' = Upto
  BY SameFile, UptoSame
<1>2. Start[p] \in Nat /\ Start[p] >= RiffHeader
  BY Numbers, StartsInOrder
<1>3. pos' # 0
  BY <1>2 DEF RiffHeader
<1> QED  BY <1>1, <1>3 DEF Shows

\* Past a chunk that is not an image, the image that is first stays so.
LEMMA FreshOn ==
    ASSUME StreamInv, UNCHANGED <<file, alpha, active>>, NEW k \in Chunk, Fresh(k),
           k \notin Tagged("VP8"), k \in Tagged("ALPH") => alpha.pending, shown' = Upto[k]
    PROVE  Fresh(k + 1)'
<1>1. /\ Start' = Start /\ Upto' = Upto /\ Tagged("VP8")' = Tagged("VP8")
      /\ \A i, tag : Before(i, tag)' = Before(i, tag)
  BY SameFile, UptoSame
<1>2. file \in Files /\ (k + 1) - 1 = k
  BY Numbers, UptoNext
<1>3. ~active
  BY DEF Fresh
<1>4. /\ Before(k + 1, "VP8") = Before(k, "VP8")
      /\ Before(k + 1, "ALPH") = IF k \in Tagged("ALPH") THEN Before(k, "ALPH") \cup {k}
                                 ELSE Before(k, "ALPH")
  BY <1>2, BeforeNext DEF Tagged
<1>5. k \in Tagged("ALPH") => Before(k, "ALPH") # {}
  BY <1>3 DEF Fresh
<1>6. /\ Before(k, "VP8") = {}
      /\ alpha.pending <=> Before(k, "ALPH") # {}
      /\ alpha.has <=> Before(k, "ALPH") # {} /\ file.chunks[1].alpha
      /\ \A j \in Before(k, "ALPH") : alpha.has /\ Before(j, "ALPH") = {} => alpha.at = Start[j] + 1
  BY <1>3 DEF Fresh
<1>7. /\ Before(k + 1, "VP8") = {} /\ shown' = Upto[(k + 1) - 1]
      /\ alpha.pending <=> Before(k + 1, "ALPH") # {}
      /\ alpha.has <=> Before(k + 1, "ALPH") # {} /\ file.chunks[1].alpha
      /\ \A j \in Before(k + 1, "ALPH") : alpha.has /\ Before(j, "ALPH") = {} => alpha.at = Start[j] + 1
  BY <1>2, <1>4, <1>5, <1>6
<1> QED  BY <1>1, <1>3, <1>7 DEF Fresh

\* Past any other chunk, an image that is out stays so.
LEMMA FinishedOn ==
    ASSUME StreamInv, UNCHANGED <<file, active>>, NEW k \in Chunk, Finished(k),
           IsImage(k) => shown' = shown,
           ~IsImage(k) /\ shown = Upto[k - 1] => shown' = Upto[k]
    PROVE  Finished(k + 1)' /\ shown' = Upto[k]
<1>1. /\ Start' = Start /\ Upto' = Upto /\ Tagged("VP8")' = Tagged("VP8")
      /\ \A i : IsImage(i)' <=> IsImage(i)
  BY SameFile, SameMeaning, UptoSame
<1>2. file \in Files /\ (k + 1) - 1 = k /\ k \in Nat
  BY Numbers, UptoNext, ChunkEnds
<1>3. PICK m \in Tagged("VP8") :
          IsImage(m) /\ m <= k /\ ~active /\ shown = Upto[IF m = k THEN k ELSE k - 1]
  BY DEF Finished
<1>4. m \in Nat /\ m # k + 1 /\ m <= k + 1
  <2>1. m \in Nat
    BY <1>2, ChunkEnds DEF Tagged
  <2> QED  BY <1>2, <1>3, <2>1
<1>5. shown' = Upto[k]
  <2>1. CASE m = k
    BY <1>3, <2>1
  <2>2. CASE m # k
    <3>1. m < k
      BY <1>2, <1>3, <1>4, <2>2
    <3>2. ~IsImage(k)
      BY <3>1 DEF IsImage, Before
    <3> QED  BY <1>3, <2>2, <3>2
  <2> QED  BY <2>1, <2>2
<1> QED  BY <1>1, <1>2, <1>3, <1>4, <1>5 DEF Finished

\* Past a chunk, with what it adds.
LEMMA PassedShows ==
    ASSUME StreamInv, EndRight, Shows, Walking, InWalk, Avail >= Here.len,
           UNCHANGED <<file, alpha, active, stillReady, stillDone>>, call' # "emit",
           NEW k \in Chunk, pos = Start[k], pos' = pos + 1 + Here.len,
           k \in Tagged("VP8") => stillDone,
           ~stillDone => Fresh(k) /\ (k \in Tagged("ALPH") => alpha.pending),
           stillDone => Finished(k),
           \/ shown' = shown /\ (IsImage(k) \/ Event(k) = <<>>)
           \/ \E x : shown' = Append(shown, x) /\ ~IsImage(k) /\ Event(k) = <<x>>
    PROVE  Shows'
<1>1. pos' = Start[k + 1]
  <2>1. PICK j \in Chunk : /\ pos = Start[j] /\ Here = file.chunks[j]
                           /\ Avail >= Here.len => pos + 1 + Here.len = Start[j + 1]
    BY WalkHere
  <2>2. j = k
    BY <2>1, Numbers, ChunksApart
  <2> QED  BY <2>1, <2>2
<1>2. /\ file \in Files /\ k + 1 \in 1..Count + 1 /\ k \in 0..Count
      /\ Event(k) = <<>> => Upto[k] = Upto[k - 1]
      /\ \A x : Event(k) = <<x>> => Upto[k] = Append(Upto[k - 1], x)
  BY Numbers, ChunkEnds, UptoNext
<1>3. /\ IsImage(k) => shown' = shown
      /\ ~IsImage(k) /\ shown = Upto[k - 1] => shown' = Upto[k]
  BY <1>2
<1>4. stillReady => stillDone
  BY WalkHere
<1>5. CASE ~stillDone
  <2>1. Fresh(k) /\ k \notin Tagged("VP8") /\ (k \in Tagged("ALPH") => alpha.pending)
    BY <1>5
  <2>2. shown' = Upto[k]
    BY <1>3, <2>1 DEF Fresh, IsImage
  <2>3. Fresh(k + 1)'
    BY <2>1, <2>2, FreshOn
  <2>4. ShowsAt(k + 1)'
    BY <1>4, <1>5, <2>3 DEF ShowsAt
  <2> QED  BY <1>1, <1>2, <2>2, <2>4, ShowsThen
<1>6. CASE stillDone
  <2>1. Finished(k + 1)' /\ shown' = Upto[k]
    BY <1>3, <1>6, FinishedOn
  <2>2. ShowsAt(k + 1)'
    BY <1>6, <2>1 DEF ShowsAt
  <2> QED  BY <1>1, <1>2, <2>1, <2>2, ShowsThen
<1> QED  BY <1>5, <1>6

LEMMA SkipChunkShows ==
    ASSUME StreamInv, Sound, EndRight, Shows, SkipChunk
    PROVE  Shows'
<1>1. PICK tag : /\ WalkOn(tag) /\ tag \notin {"ALPH", "ANMF"}
                 /\ tag = "VP8" => ~StillPending(Here)
  BY DEF SkipChunk
<1>2. /\ Walking /\ InWalk /\ Avail >= Here.len /\ Here.tag = tag
      /\ pos' = pos + 1 + Here.len /\ call' # "emit"
      /\ UNCHANGED <<file, alpha, active, stillReady, stillDone, shown>>
  BY <1>1 DEF WalkOn, SkipChunk, fileVars, callVars, Walking
<1>3. PICK k \in Chunk : /\ pos = Start[k] /\ Here = file.chunks[k] /\ ShowsAt(k)
                         /\ Start[k + 1] <= scan.pos
  BY <1>2, WalkHere
<1>4. stillReady => stillDone
  BY <1>2, WalkHere
<1>5. /\ ~stillDone => Fresh(k)
      /\ stillDone => Finished(k)
  BY <1>3, <1>4 DEF ShowsAt
<1>6. k \notin Tagged("ALPH") /\ k \notin Tagged("ANMF") /\ (k \in Tagged("VP8") <=> tag = "VP8")
  BY <1>1, <1>2, <1>3 DEF Tagged
<1>7. k \in Tagged("VP8") => stillDone
  <2> SUFFICES ASSUME k \in Tagged("VP8"), animation PROVE FALSE
    BY <1>1, <1>2, <1>6 DEF StillPending
  <2>1. k \in ScannedStills /\ k \in Stills
    BY <1>3 DEF ScannedStills, Scanned, Stills
  <2>2. Scanned("ANIM") # {}
    BY DEF StreamInv, Found, Sound
  <2>3. PICK i \in Scanned("ANIM") : k > i
    BY <2>1, <2>2 DEF Sound
  <2>4. i \in Nat /\ k \in Nat
    BY Numbers, ChunkEnds DEF Scanned, Tagged
  <2>5. i \in Before(k, "ANIM")
    BY <2>3, <2>4 DEF Scanned, Before
  <2> QED  BY <2>1, <2>5 DEF Sound
<1>8. IsImage(k) \/ Event(k) = <<>>
  BY <1>6, EventCases
<1> QED  BY <1>2, <1>3, <1>5, <1>6, <1>7, <1>8, PassedShows

LEMMA RefuseAlphaShows ==
    ASSUME StreamInv, EndRight, Shows, RefuseAlpha
    PROVE  Shows'
<1>2. /\ Walking /\ InWalk /\ Avail >= Here.len /\ Here.tag = "ALPH"
      /\ pos' = pos + 1 + Here.len /\ call' # "emit"
      /\ UNCHANGED <<file, alpha, active, stillReady, stillDone>>
      /\ shown' = Append(shown, [error |-> At(pos)])
      /\ stillDone \/ active \/ alpha.pending
  BY DEF WalkOn, RefuseAlpha, fileVars, Events, Returned
<1>3. PICK k \in Chunk : pos = Start[k] /\ Here = file.chunks[k] /\ ShowsAt(k)
  BY <1>2, WalkHere
<1>4. (stillReady => stillDone) /\ At(pos) = pos
  BY <1>2, WalkHere
<1>5. /\ ~stillDone => Fresh(k)
      /\ stillDone => Finished(k)
  BY <1>3, <1>4 DEF ShowsAt
<1>6. k \in Tagged("ALPH") /\ k \notin Tagged("VP8") /\ ~IsImage(k)
  BY <1>2, <1>3 DEF Tagged, IsImage
<1>7. ~stillDone => alpha.pending /\ Before(k, "ALPH") # {}
  BY <1>2, <1>5, <1>6 DEF Fresh
<1>8. ~IsAlpha(k)
  <2>1. stillDone => Before(k, "VP8") # {}
    <3> SUFFICES ASSUME stillDone PROVE Before(k, "VP8") # {}
      OBVIOUS
    <3>1. PICK m \in Tagged("VP8") : m <= k
      BY <1>5 DEF Finished
    <3>2. m \in Nat /\ k \in Nat /\ m # k
      BY <1>6, Numbers, ChunkEnds DEF Tagged
    <3>3. m < k
      BY <3>1, <3>2
    <3> QED  BY <3>3 DEF Before
  <2> QED  BY <1>7, <2>1 DEF IsAlpha
<1>9. Event(k) = <<[error |-> Start[k]]>>
  BY <1>6, <1>8, EventCases
<1>10. PICK x : x = [error |-> Start[k]]
  OBVIOUS
<1>11. shown' = Append(shown, x) /\ Event(k) = <<x>>
  BY <1>2, <1>3, <1>4, <1>9, <1>10
<1> QED  BY <1>2, <1>3, <1>5, <1>6, <1>7, <1>11, PassedShows

LEMMA WalkFrameShows ==
    ASSUME StreamInv, Sound, EndRight, Shows, WalkFrame
    PROVE  Shows'
<1>2. /\ Walking /\ InWalk /\ Avail >= Here.len /\ Here.tag = "ANMF"
      /\ pos' = pos + 1 + Here.len /\ call' # "emit"
      /\ UNCHANGED <<file, alpha, active, stillReady, stillDone>>
      /\ shown' = Append(shown, [picture |-> <<At(pos + 1), None>>])
  BY DEF WalkOn, WalkFrame, fileVars, Events, Returned
<1>3. PICK k \in Chunk : /\ pos = Start[k] /\ Here = file.chunks[k] /\ ShowsAt(k)
                         /\ pos + 1 + Here.len = Start[k + 1] /\ Start[k + 1] <= scan.pos
  BY <1>2, WalkHere
<1>4. stillReady => stillDone
  BY <1>2, WalkHere
<1>5. /\ ~stillDone => Fresh(k)
      /\ stillDone => Finished(k)
  BY <1>3, <1>4 DEF ShowsAt
<1>6. k \in Tagged("ANMF") /\ k \notin Tagged("VP8") /\ k \notin Tagged("ALPH") /\ ~IsImage(k)
  BY <1>2, <1>3 DEF Tagged, IsImage
<1>7. At(pos + 1) = Start[k] + 1
  <2>1. file.chunks[k].fits
    BY <1>3, <1>6 DEF Sound, Scanned
  <2>2. Here.len > 0 /\ Here.len \in Nat
    <3>1. file \in Files
      BY Numbers
    <3>2. file.chunks[k].fits => file.chunks[k].len > 0
      BY <1>2, <1>3, <3>1, FilesAssumption DEF Chunk
    <3> QED  BY <1>3, <2>1, <3>1, <3>2, FileFacts
  <2>3. pos + 1 < Given
    <3>1. end = Given /\ end \in Nat /\ pos \in Nat /\ Given \in Nat
      BY <1>2, Numbers, WalkHere
    <3> QED  BY <1>2, <2>2, <3>1 DEF Avail
  <2> QED  BY <1>2, <1>3, <2>3, WalkHere
<1>8. PICK x : x = [picture |-> <<Start[k] + 1, None>>]
  OBVIOUS
<1>9. shown' = Append(shown, x) /\ Event(k) = <<x>>
  BY <1>2, <1>6, <1>7, <1>8, EventCases
<1> QED  BY <1>2, <1>3, <1>5, <1>6, <1>9, PassedShows

\* The first alpha before an image is kept for it, if the canvas has one.
LEMMA WalkAlphaShows ==
    ASSUME StreamInv, EndRight, Shows, WalkAlpha
    PROVE  Shows'
<1>1. /\ Walking /\ InWalk /\ Avail >= Here.len /\ Here.tag = "ALPH"
      /\ ~stillDone /\ ~active /\ ~alpha.pending
      /\ alpha' = IF AlphaAllowed THEN [pending |-> TRUE, has |-> TRUE, at |-> pos + 1]
                  ELSE [alpha EXCEPT !.pending = TRUE]
      /\ UNCHANGED <<file, active, stillReady, stillDone, shown>> /\ call' # "emit"
      /\ pos' = pos + 1 + Here.len
  BY DEF WalkAlpha, WalkOn, fileVars, callVars, Walking
<1>2. PICK k \in Chunk : /\ pos = Start[k] /\ Here = file.chunks[k] /\ ShowsAt(k)
                         /\ pos + 1 + Here.len = Start[k + 1] /\ RiffHeader < Start[k + 1]
                         /\ Start[k + 1] <= scan.pos
  BY <1>1, WalkHere
<1>3. stillReady => stillDone
  BY <1>1, WalkHere
<1>4. Fresh(k)
  BY <1>1, <1>2, <1>3 DEF ShowsAt
<1>5. k \in Tagged("ALPH") /\ k \notin Tagged("VP8") /\ k \notin Tagged("ANMF")
  BY <1>1, <1>2 DEF Tagged
<1>6. Before(k, "VP8") = {} /\ Before(k, "ALPH") = {} /\ ~alpha.has /\ shown = Upto[k - 1]
  BY <1>1, <1>4 DEF Fresh
<1>7. AlphaAllowed <=> file.chunks[1].alpha
  <2>1. /\ file \in Files /\ scan.pos \in Nat /\ Start[k + 1] \in Nat /\ k \in Nat
        /\ 1 \in Chunk /\ Count \in Nat /\ Chunk = 1..Count
    BY Numbers, ChunkEnds, FileFacts
  <2>2. scan.pos > RiffHeader
    BY <1>2, <2>1 DEF RiffHeader
  <2>3. file.chunks[1].tag # "VP8"
    <3> SUFFICES ASSUME file.chunks[1].tag = "VP8" PROVE FALSE
      OBVIOUS
    <3>1. k # 1 /\ 1 < k
      BY <1>1, <1>2, <2>1
    <3>2. 1 \in Before(k, "VP8")
      BY <2>1, <3>1 DEF Before, Tagged
    <3> QED  BY <1>6, <3>2
  <2>4. scan.vp8x = 1
    BY <2>2, <2>3 DEF StreamInv, Found
  <2> QED  BY <2>4 DEF AlphaAllowed, Flags
<1>8. /\ file \in Files /\ k + 1 \in 1..Count + 1 /\ k \in 0..Count /\ (k + 1) - 1 = k
      /\ Event(k) = <<>> => Upto[k] = Upto[k - 1]
  BY Numbers, ChunkEnds, UptoNext
<1>9. Event(k) = <<>>
  <2>1. IsAlpha(k) /\ ~IsImage(k)
    BY <1>5, <1>6 DEF IsAlpha, IsImage
  <2> QED  BY <1>5, <2>1, EventCases
<1>10. Before(k + 1, "VP8") = {} /\ Before(k + 1, "ALPH") = {k}
  BY <1>5, <1>6, <1>8, BeforeNext DEF Tagged
<1>11. /\ alpha'.pending
       /\ alpha'.has <=> file.chunks[1].alpha
       /\ alpha'.has => alpha'.at = Start[k] + 1
  <2>1. alpha \in AlphaType
    BY DEF StreamInv, Typed
  <2>2. CASE AlphaAllowed
    BY <1>1, <1>2, <1>7, <2>2
  <2>3. CASE ~AlphaAllowed
    BY <1>1, <1>6, <1>7, <2>1, <2>3 DEF AlphaType
  <2> QED  BY <2>2, <2>3
<1>12. /\ Start' = Start /\ Upto' = Upto /\ Tagged("VP8")' = Tagged("VP8")
       /\ \A i, tag : Before(i, tag)' = Before(i, tag)
  BY <1>1, SameFile, UptoSame
<1>13. shown' = Upto[k] /\ ~active'
  BY <1>1, <1>6, <1>8, <1>9
<1>14. Fresh(k + 1)'
  BY <1>1, <1>8, <1>10, <1>11, <1>12, <1>13 DEF Fresh
<1>15. ShowsAt(k + 1)'
  BY <1>1, <1>3, <1>14 DEF ShowsAt
<1> QED  BY <1>1, <1>2, <1>8, <1>13, <1>15, ShowsThen

\* An image that is all there is decoded to its end, now or from where it was.
LEMMA WalkImageShows ==
    ASSUME StreamInv, Sound, EndRight, Shows, WalkImage
    PROVE  Shows'
<1>1. /\ Walking /\ InWalk /\ Avail >= Here.len /\ Here.tag = "VP8" /\ ~stillDone
      /\ Step(pos + 1, Here.len, Here.need, FALSE)
      /\ pos' = pos + 1 + Here.len /\ file' = file
  BY DEF WalkImage, WalkOn, StillPending, fileVars
<1>2. PICK k \in Chunk : /\ pos = Start[k] /\ Here = file.chunks[k] /\ ShowsAt(k)
                         /\ pos + 1 + Here.len = Start[k + 1]
                         /\ Here.len \in Nat /\ Here.need \in 1..Here.len
  BY <1>1, WalkHere
<1>3. stillReady => stillDone
  BY <1>1, WalkHere
<1>4. Fresh(k) /\ k \in Tagged("VP8")
  BY <1>1, <1>2, <1>3 DEF ShowsAt, Tagged
<1>5. IsImage(k) /\ shown = Upto[k - 1]
  BY <1>4 DEF Fresh, IsImage
<1>6. pos + 1 < Given
  <2>1. end = Given /\ end \in Nat /\ pos \in Nat /\ Given \in Nat
    BY <1>1, Numbers, WalkHere
  <2> QED  BY <1>1, <1>2, <2>1 DEF Avail
<1>7. ~active' /\ stillReady' /\ ~stillDone' /\ shown' = shown
  <2>1. Here.len >= Here.need /\ ~(Here.len < Here.need)
    BY <1>2
  <2> QED  BY <1>1, <2>1 DEF Step
<1>8. decoded' = <<Start[k] + 1, AlphaOf(k)>>
  <2>1. CASE active
    BY <1>1, <1>4, <2>1 DEF Step, Fresh
  <2>2. CASE ~active
    <3>1. decoded' = Image(pos + 1)
      BY <1>1, <1>2, <2>2 DEF Step
    <3> QED  BY <1>1, <1>2, <1>4, <1>6, <2>2, <3>1, ImageIs
  <2> QED  BY <2>1, <2>2
<1>9. /\ Start' = Start /\ Upto' = Upto /\ Tagged("VP8")' = Tagged("VP8")
      /\ \A i : IsImage(i)' <=> IsImage(i)
      /\ \A i : AlphaOf(i)' = AlphaOf(i)
  BY <1>1, SameFile, SameMeaning, UptoSame
<1>10. k + 1 \in 1..Count + 1 /\ k - 1 \in 0..Count
  BY Numbers, ChunkEnds, UptoNext
<1>11. Readied(k + 1)'
  BY <1>4, <1>5, <1>7, <1>8, <1>9 DEF Readied
<1>12. ShowsAt(k + 1)'
  BY <1>7, <1>11 DEF ShowsAt
<1> QED  BY <1>1, <1>2, <1>5, <1>7, <1>10, <1>12, ShowsThen

\* An image that is still arriving is begun, and goes on as more of it comes.
LEMMA StepArrivingShows ==
    ASSUME StreamInv, Sound, EndRight, Shows, StepArriving
    PROVE  Shows'
<1>1. /\ Walking /\ InWalk /\ Here.tag = "VP8" /\ ~stillDone
      /\ Step(pos + 1, Avail, Here.need, alpha.pending /\ ~alpha.has)
      /\ pos' = pos /\ UNCHANGED <<file, fed>>
  BY DEF StepArriving, StillPending, fileVars
<1>2. PICK k \in Chunk : /\ pos = Start[k] /\ Here = file.chunks[k] /\ ShowsAt(k)
                         /\ Here.len \in Nat /\ Here.need \in 1..Here.len
  BY <1>1, WalkHere
<1>3. (stillReady => stillDone) /\ Avail \in Nat /\ end = Given
  BY <1>1, WalkHere
<1>4. Fresh(k) /\ k \in Tagged("VP8")
  BY <1>1, <1>2, <1>3 DEF ShowsAt, Tagged
<1>5. IsImage(k) /\ shown = Upto[k - 1]
  BY <1>4 DEF Fresh, IsImage
<1>6. Avail > 0 <=> pos + 1 < Given
  BY <1>3, Numbers DEF Avail
<1>7. /\ Start' = Start /\ Upto' = Upto /\ Tagged("VP8")' = Tagged("VP8")
      /\ Given' = Given
      /\ \A i, tag : Before(i, tag)' = Before(i, tag)
      /\ \A i : IsImage(i)' <=> IsImage(i)
      /\ \A i : AlphaOf(i)' = AlphaOf(i)
  BY <1>1, SameFile, SameMeaning, UptoSame DEF Given
<1>8. k \in 1..Count + 1 /\ k - 1 \in 0..Count
  BY Numbers, ChunkEnds, UptoNext
<1>9. ~stillDone' /\ shown' = shown
  BY <1>1 DEF Step
<1>10. CASE Avail = 0
  <2>1. ~active
    BY <1>4, <1>6, <1>10 DEF Fresh
  <2>2. ~active' /\ decoded' = decoded /\ alpha' = alpha /\ ~stillReady' /\ call' = "idle"
    <3>1. ~(Avail > 0) /\ ~(Avail >= Here.need)
      BY <1>2, <1>10
    <3> QED  BY <1>1, <1>3, <1>10, <3>1 DEF Step, Returned
  <2>3. Fresh(k)'
    <3>1. /\ Before(k, "VP8") = {} /\ shown' = Upto[k - 1]
          /\ alpha.pending <=> Before(k, "ALPH") # {}
          /\ alpha.has <=> Before(k, "ALPH") # {} /\ file.chunks[1].alpha
          /\ \A j \in Before(k, "ALPH") : alpha.has /\ Before(j, "ALPH") = {} => alpha.at = Start[j] + 1
      BY <1>4, <1>5, <1>9, <2>1 DEF Fresh
    <3> QED  BY <1>1, <1>7, <2>2, <3>1 DEF Fresh
  <2>4. ShowsAt(k)'
    BY <1>9, <2>2, <2>3 DEF ShowsAt
  <2> QED  BY <1>1, <1>2, <1>5, <1>8, <1>9, <2>2, <2>4, ShowsThen
<1>11. CASE Avail # 0
  <2>1. Avail > 0 /\ pos + 1 < Given
    BY <1>3, <1>6, <1>11
  <2>2. decoded' = <<Start[k] + 1, AlphaOf(k)>>
    <3>1. CASE active
      BY <1>1, <1>4, <3>1 DEF Step, Fresh
    <3>2. CASE ~active
      <4>1. decoded' = Image(pos + 1)
        BY <1>1, <1>11, <3>2 DEF Step
      <4> QED  BY <1>1, <1>2, <1>4, <2>1, <3>2, <4>1, ImageIs
    <3> QED  BY <3>1, <3>2
  <2>3. CASE Avail >= Here.need
    <3>1. ~active' /\ stillReady'
      <4>1. ~(Avail < Here.need)
        BY <1>2, <1>3, <2>3
      <4> QED  BY <1>1, <2>3, <4>1 DEF Step
    <3>2. Readied(k)'
      BY <1>4, <1>5, <1>7, <1>9, <2>2, <3>1 DEF Readied
    <3>3. ShowsAt(k)'
      BY <1>9, <3>1, <3>2 DEF ShowsAt
    <3> QED  BY <1>1, <1>2, <1>5, <1>8, <1>9, <3>1, <3>3, ShowsThen
  <2>4. CASE ~(Avail >= Here.need)
    <3>1. active' /\ ~stillReady' /\ call' = "idle"
      <4>1. Avail < Here.need
        BY <1>2, <1>3, <2>4
      <4> QED  BY <1>1, <1>3, <2>1, <2>4, <4>1 DEF Step, Returned
    <3>2. Fresh(k)'
      BY <1>1, <1>4, <1>7, <1>9, <2>1, <2>2, <3>1 DEF Fresh
    <3>3. ShowsAt(k)'
      BY <1>9, <3>1, <3>2 DEF ShowsAt
    <3> QED  BY <1>1, <1>2, <1>5, <1>8, <1>9, <3>1, <3>3, ShowsThen
  <2> QED  BY <2>3, <2>4
<1> QED  BY <1>10, <1>11

\* A picture gets out once.
LEMMA EmitShows ==
    ASSUME StreamInv, Shows, Emit
    PROVE  Shows'
<1>1. /\ stillReady /\ ~stillDone /\ stillDone' /\ shown' = Append(shown, [picture |-> decoded])
      /\ UNCHANGED <<file, pos, active>> /\ call' = "idle"
  BY DEF Emit, Shows, Events, Returned, fileVars
<1>2. Live
  BY DEF Emit, StreamInv, Calls, Live, Fed
<1>3. PICK p \in 1..Count + 1 : pos = Start[p] /\ Readied(p)
  BY <1>1, <1>2 DEF Shows, ShowsAt
<1>4. PICK m \in Tagged("VP8") :
          /\ IsImage(m) /\ p \in {m, m + 1} /\ ~active
          /\ shown = Upto[m - 1] /\ decoded = <<Start[m] + 1, AlphaOf(m)>>
  BY <1>3 DEF Readied
<1>5. m \in Chunk /\ m \in Nat /\ file \in Files
  BY Numbers, ChunkEnds DEF Tagged
<1>6. Event(m) = <<[picture |-> decoded]>>
  BY <1>4, <1>5, EventCases
<1>7. shown' = Upto[m] /\ m \in 0..Count /\ (m + 1) - 1 = m
  BY <1>1, <1>4, <1>5, <1>6, UptoNext
<1>8. m <= p /\ Upto[m] = Upto[IF m = p THEN p ELSE p - 1]
  BY <1>4, <1>5, <1>7
<1>9. /\ Start' = Start /\ Upto' = Upto /\ Tagged("VP8")' = Tagged("VP8")
      /\ \A i : IsImage(i)' <=> IsImage(i)
  BY <1>1, SameFile, SameMeaning, UptoSame
<1>10. Finished(p)'
  BY <1>1, <1>4, <1>7, <1>8, <1>9 DEF Finished
<1>11. ShowsAt(p)'
  BY <1>1, <1>10 DEF ShowsAt
<1> QED  BY <1>1, <1>3, <1>7, <1>11, ShowsThen

LEMMA WalksShows ==
    ASSUME StreamInv, Sound, EndRight, Shows, Walks
    PROVE  Shows'
<1>0. fed \in Nat /\ fed <= fed
  BY Numbers
<1>1. CASE NoHeaders \/ NextPicture \/ EmitFails \/ WalkEnds \/ RunsPast
  <2>1. /\ UNCHANGED <<file, fed, pos, alpha, active, decoded, stillReady, stillDone, shown>>
        /\ UNCHANGED <<headersValid, size, eos>>
        /\ call' = "emit" => stillReady /\ ~stillDone
    BY <1>1 DEF NoHeaders, NextPicture, EmitFails, WalkEnds, RunsPast, fileVars, modeVars,
                windowVars, scanVars, walkVars, Idle, Answer, Returned
  <2> QED  BY <1>0, <2>1, ShowsSame DEF Live, Fed
<1>2. CASE Rewind
  <2>1. /\ file' = file /\ shown' = <<>> /\ ~active' /\ ~stillReady' /\ ~stillDone'
        /\ ~alpha'.pending /\ ~alpha'.has /\ pos' = RiffHeader /\ call' # "emit"
    BY <1>2 DEF Rewind, Idle, Answer, fileVars
  <2> QED  BY <2>1, ShowsFirst
<1> QED  BY <1>1, <1>2, EmitShows, StepArrivingShows, SkipChunkShows, WalkImageShows,
            WalkAlphaShows, RefuseAlphaShows, WalkFrameShows DEF Walks

LEMMA StutterPicture ==
    ASSUME StreamInv, PictureInv, UNCHANGED vars
    PROVE  PictureInv'
<1>1. /\ UNCHANGED <<file, fed, eos, size, scan, headersValid, end, call, via,
                     pos, alpha, active, decoded, stillReady, stillDone, shown>>
  BY DEF vars, fileVars, modeVars, windowVars, scanVars, walkVars, callVars
<1>2. RiffEnd' = RiffEnd /\ fed \in Nat /\ fed <= fed
  BY <1>1, SameFile, Numbers
<1>3. Shows'
  BY <1>1, <1>2, ShowsSame DEF PictureInv, Shows, Live, Fed
<1>4. Halted => Halted'
  BY <1>1, <1>2, HaltedSame
<1> QED  BY <1>1, <1>2, <1>3, <1>4 DEF PictureInv, EndRight, Lasting, Rescanning, Fed

LEMMA InitPicture ==
    ASSUME Init
    PROVE  PictureInv
<1>1. /\ file \in Files /\ call = "idle" /\ headersValid = FALSE /\ pos = 0
      /\ active = FALSE /\ stillReady = FALSE /\ stillDone = FALSE /\ shown = <<>>
  BY DEF Init
<1>2. ~alpha.pending /\ ~alpha.has
  BY DEF Init
<1>3. Upto[0] = <<>> /\ 0 \in 0..Count
  BY <1>1, UptoIs, FileFacts
<1>4. Shows
  BY <1>1, <1>2, <1>3 DEF Shows, Live
<1> QED  BY <1>1, <1>4 DEF PictureInv, EndRight, Lasting, Rescanning

LEMMA NextPictures ==
    ASSUME StreamInv, ~Conflicts, VerdictInv, PictureInv, Next
    PROVE  PictureInv'
<1>0. Sound /\ Short /\ EndRight /\ Lasting /\ Shows
  BY DEF VerdictInv, PictureInv
<1>1. CASE Supplies
  BY <1>0, <1>1, SuppliesLast, SuppliesShows DEF PictureInv
<1>2. CASE Walks
  BY <1>0, <1>2, WalksLast, WalksShows DEF PictureInv
<1>3. CASE Scans
  <2>1. CASE ScanGoesOn
    BY <1>0, <2>1, ScanningLasts, ScanningShows DEF PictureInv
  <2>2. CASE ScanTooShort \/ ScanRefuses \/ RefuseConflict \/ ScanEnds
    <3>1. PICK s : Ends(s)
      BY <2>2, ScansEnd
    <3> QED  BY <1>0, <3>1, EndsLast, EndsShows DEF PictureInv
  <2> QED  BY <1>3, <2>1, <2>2, CountConflictNever DEF Scans, ScanGoesOn
<1> QED  BY <1>1, <1>2, <1>3 DEF Next

\* What is shown is what the chunks behind the walk mean, of a file whose image
\* does not conflict with its canvas.
THEOREM ShownSoFar == Spec => [](~Conflicts => PictureInv)
<1> DEFINE Inv == ~Conflicts => StreamInv /\ VerdictInv /\ PictureInv
<1>1. Init => Inv
  BY InitKeeps, InitVerdict, InitPicture
<1>2. Inv /\ [Next]_vars => Inv'
  <2> SUFFICES ASSUME Inv, [Next]_vars, ~Conflicts' PROVE (StreamInv /\ VerdictInv /\ PictureInv)'
    OBVIOUS
  <2>1. ~Conflicts
    BY FileStays, SameFile
  <2>2. StreamInv'
    BY <2>1, NextKeeps, StutterKeeps
  <2>3. VerdictInv'
    BY <2>1, SuppliesVerdict, ScansVerdict, WalksVerdict, StutterVerdict DEF Next
  <2>4. PictureInv'
    BY <2>1, NextPictures, StutterPicture
  <2> QED  BY <2>2, <2>3, <2>4
<1>3. Inv => (~Conflicts => PictureInv)
  OBVIOUS
<1> QED  BY <1>1, <1>2, <1>3, PTL DEF Spec

\* However the file arrives, the pictures and the refused alphas are those of
\* one walk over the whole file, in its order (next_picture, file_compact).
THEOREM ShownIsWhole == Spec => []ShownAsWhole
<1>1. ASSUME StreamInv, Shows PROVE IsPrefix(shown, Whole)
  <2>1. file \in Files
    BY <1>1, Numbers
  <2>2. PICK n \in 0..Count : shown = Upto[n]
    BY <1>1 DEF Shows
  <2> QED  BY <2>1, <2>2, UptoFirst, WholeIs
<1>2. (~Conflicts => StreamInv) /\ (~Conflicts => PictureInv) => ShownAsWhole
  BY <1>1 DEF PictureInv, ShownAsWhole
<1> QED  BY <1>2, Invariance, ShownSoFar, PTL

\* The walk that finds no more has come to the end of the file.
LEMMA NoneLeft ==
    ASSUME StreamInv, PictureInv, Next,
           call = "walk", call' = "idle", status' = "none", eos, size >= RiffEnd
    PROVE  shown = Whole
<1>1. Walking /\ ~InWalk
  <2>1. ~Supplies /\ ~Scans
    BY DEF Supplies, Open, Update, Accepts, OpenStream, Append_, AppendFails, TakeUpdateBuffer,
           EndOfStream, Idle, Scans, ScanRiff, ScanTooShort, ScanChunk, ScanRefuses,
           CountConflict, RefuseConflict, ScanPartial, ScanAll, ScanEnds
  <2>2. ~NoHeaders /\ ~NextPicture /\ ~Emit /\ ~EmitFails /\ ~Rewind
    BY DEF NoHeaders, NextPicture, Emit, EmitFails, Rewind, Idle
  <2>3. ~RunsPast /\ ~StepArriving
    BY DEF RunsPast, StepArriving, Returned
  <2>4. ~SkipChunk /\ ~WalkAlpha
    BY DEF SkipChunk, WalkAlpha, callVars
  <2>5. ~RefuseAlpha /\ ~WalkFrame
    BY DEF RefuseAlpha, WalkFrame, Returned
  <2>6. ~WalkImage
    <3> SUFFICES ASSUME WalkImage PROVE FALSE
      OBVIOUS
    <3>1. Walking /\ InWalk /\ Here.tag = "VP8" /\ Step(pos + 1, Here.len, Here.need, FALSE)
      BY DEF WalkImage, WalkOn
    <3>2. Here.need \in 1..Here.len /\ Here.len \in Nat
      BY <3>1, Walked
    <3>3. Here.len >= Here.need
      BY <3>2
    <3> QED  BY <3>1, <3>3 DEF Step
  <2>7. WalkEnds
    BY <2>1, <2>2, <2>3, <2>4, <2>5, <2>6 DEF Next, Walks
  <2> QED  BY <2>7 DEF WalkEnds
<1>2. headersValid /\ size > 0 /\ Live
  BY <1>1 DEF StreamInv, Calls, Walking, Live, Fed
<1>3. /\ file \in Files /\ RiffEnd \in Nat /\ size \in Nat /\ pos \in Nat /\ end \in Nat
  BY Numbers
<1>4. end = RiffEnd
  BY <1>1, <1>2, <1>3 DEF PictureInv, EndRight, Rescanning, Walking, Least
<1>5. PICK p \in 1..Count + 1 : pos = Start[p] /\ ShowsAt(p)
  BY <1>2 DEF PictureInv, Shows
<1>6. Count \in Nat /\ Chunk = 1..Count
  BY <1>3, FileFacts
<1>7. p = Count + 1 /\ p - 1 = Count
  <2> SUFFICES ASSUME p \in Chunk PROVE FALSE
    BY <1>6
  <2>1. Start[p] < Start[p + 1] /\ Start[p + 1] <= RiffEnd /\ Start[p] \in Nat /\ Start[p + 1] \in Nat
    BY <1>3, ChunkEnds
  <2> QED  BY <1>1, <1>3, <1>4, <1>5, <2>1 DEF InWalk
<1>8. shown = Upto[Count]
  <2>1. CASE stillDone
    <3>1. PICK m \in Tagged("VP8") : shown = Upto[IF m = p THEN p ELSE p - 1]
      BY <1>5, <2>1 DEF ShowsAt, Finished
    <3>2. m # p
      BY <1>6, <1>7 DEF Tagged
    <3> QED  BY <1>7, <3>1, <3>2
  <2>2. CASE ~stillDone
    <3>1. ~stillReady
      BY <1>1, <2>2 DEF StreamInv, Alphas, Walking
    <3> QED  BY <1>5, <1>7, <2>2, <3>1 DEF ShowsAt, Fresh
  <2> QED  BY <2>1, <2>2
<1> QED  BY <1>3, <1>8, WholeIs

\* And none is missing when the walk comes to the end of a file that is all there.
THEOREM NothingIsSkipped == Spec => NothingSkipped
<1> DEFINE A == /\ call = "walk" /\ call' = "idle" /\ status' = "none"
                /\ eos /\ size >= RiffEnd /\ ~Conflicts
                => shown = Whole
<1>1. ASSUME ~Conflicts => StreamInv, ~Conflicts => PictureInv, [Next]_vars
      PROVE  [A]_vars
  <2>1. CASE Next
    BY <1>1, <2>1, NoneLeft
  <2>2. CASE UNCHANGED vars
    BY <2>2
  <2> QED  BY <1>1, <2>1, <2>2
<1>2. Spec => [][A]_vars
  BY <1>1, Invariance, ShownSoFar, PTL DEF Spec
<1> QED  BY <1>2 DEF NothingSkipped
=============================================================================
