--------------------------- MODULE RowResumeProofs ---------------------------
(***************************************************************************)
(* However the bytes of a lossy still arrive, its rows come out as if they *)
(* had all been there, proved for every number of macroblocks and          *)
(* partitions, every set of frames and every number of failed calls.       *)
(*                                                                         *)
(* The frame has come to one macroblock, in a call or between two, and     *)
(* what the decoder keeps is told from it:                                 *)
(*                                                                         *)
(*   each coder has read what the macroblocks passed have of its           *)
(*   partition, and the contexts are those of the row above and of the     *)
(*   macroblock to the left;                                               *)
(*   a partition is open, and its window ends, as far as it has come;      *)
(*   the filter is a row and a macroblock or two behind;                   *)
(*   and a coder that has run dry is one the frame's data does not last    *)
(*   for, unless it is one a frame of more partitions left behind.         *)
(*                                                                         *)
(* The first holds across a call that asks for more because the macroblock *)
(* in hand is undone whole, and because a partition opened late has had no *)
(* row yet.                                                                *)
(***************************************************************************)
EXTENDS RowResume, FiniteSetTheorems, TLAPS

-----------------------------------------------------------------------------
(* Induction over the numbers.  A set of them that holds the predecessor   *)
(* of each of its members would be mapped into less than itself.           *)

\* Induction, without an operator for what is proved: a set of numbers that
\* holds, of each of its members, the one before is empty.
LEMMA NoDescent ==
    ASSUME NEW T, T \subseteq Nat, \A n \in T : n > 0 /\ n - 1 \in T
    PROVE  T = {}
<1> SUFFICES ASSUME NEW m \in T PROVE FALSE
  OBVIOUS
<1> DEFINE S == T \cap 0..m
           R == S \ {m}
           f == [n \in S |-> n - 1]
<1>1. m \in Nat /\ m \in S
  OBVIOUS
<1>2. IsFiniteSet(0..m)
  BY <1>1, FS_Interval
<1>3. IsFiniteSet(S)
  BY <1>2, FS_Intersection
<1>4. IsFiniteSet(R) /\ Cardinality(R) = Cardinality(S) - 1
  BY <1>1, <1>3, FS_RemoveElement
<1>5. Cardinality(R) < Cardinality(S)
  BY <1>3, <1>4, FS_CardinalityType
<1>6. f \in [S -> R]
  <2> SUFFICES ASSUME NEW n \in S PROVE n - 1 \in R
    OBVIOUS
  <2>1. n \in Nat /\ n <= m /\ n - 1 \in T /\ n > 0
    BY <1>1
  <2> QED  BY <1>1, <2>1
<1>7. \E x, y \in S : x # y /\ f[x] = f[y]
  <2> HIDE DEF S, R, f
  <2> QED  BY <1>3, <1>4, <1>5, <1>6, FS_PigeonHole
<1>8. \A x, y \in S : f[x] = f[y] => x = y
  <2> SUFFICES ASSUME NEW x \in S, NEW y \in S, x - 1 = y - 1 PROVE x = y
    OBVIOUS
  <2>1. x \in Nat /\ y \in Nat
    OBVIOUS
  <2> QED  BY <2>1
<1> QED  BY <1>7, <1>8

-----------------------------------------------------------------------------
(* Where the partitions are.                                               *)

\* f is the first n running sums of s.
Sums(f, n, s) == f = [p \in 0..n |-> IF p = 0 THEN 0 ELSE f[p - 1] + s[p - 1]]

\* A running sum of any length is a function.
LEMMA SumsExist ==
    ASSUME NEW s, NEW n \in Nat
    PROVE  \E f : Sums(f, n, s)
<1> DEFINE T == {m \in 0..n : ~\E f : Sums(f, m, s)}
<1> SUFFICES T = {}
  OBVIOUS
<1>1. \E f : Sums(f, 0, s)
  <2>1. Sums([p \in 0..0 |-> 0], 0, s)
    BY DEF Sums
  <2> QED  BY <2>1
<1>2. ASSUME NEW m \in 1..n, NEW f, Sums(f, m - 1, s)
      PROVE  \E g : Sums(g, m, s)
  <2> DEFINE g == [p \in 0..m |-> IF p = m THEN f[m - 1] + s[m - 1] ELSE f[p]]
  <2>1. \A p \in 0..m - 1 : f[p] = IF p = 0 THEN 0 ELSE f[p - 1] + s[p - 1]
    BY <1>2 DEF Sums
  <2>2. \A p \in 0..m : g[p] = IF p = 0 THEN 0 ELSE g[p - 1] + s[p - 1]
    <3> SUFFICES ASSUME NEW p \in 0..m PROVE g[p] = IF p = 0 THEN 0 ELSE g[p - 1] + s[p - 1]
      OBVIOUS
    <3>1. CASE p = m
      <4>1. p # 0 /\ p - 1 \in 0..m /\ p - 1 # m
        BY <3>1
      <4> QED  BY <3>1, <4>1
    <3>2. CASE p # m /\ p # 0
      <4>1. p - 1 \in 0..m /\ p - 1 # m /\ p \in 0..m - 1
        BY <3>2
      <4> QED  BY <2>1, <3>2, <4>1
    <3>3. CASE p # m /\ p = 0
      <4>1. p \in 0..m - 1
        BY <3>3
      <4> QED  BY <2>1, <3>3, <4>1
    <3> QED  BY <3>1, <3>2, <3>3
  <2>3. g = [p \in 0..m |-> g[p]]
    OBVIOUS
  <2> HIDE DEF g
  <2>4. Sums(g, m, s)
    BY <2>2, <2>3 DEF Sums
  <2> QED  BY <2>4
<1>3. ASSUME NEW m \in T PROVE m > 0 /\ m - 1 \in T
  <2>1. m # 0
    BY <1>1, <1>3
  <2>2. m \in 1..n /\ m - 1 \in 0..n
    BY <2>1
  <2>3. ~\E f : Sums(f, m - 1, s)
    BY <1>2, <1>3, <2>2
  <2> QED  BY <2>2, <2>3
<1>4. T \subseteq Nat
  OBVIOUS
<1> HIDE DEF T
<1> QED  BY <1>3, <1>4, NoDescent

\* Before is the running sum it is defined as: open_partitions() finds a
\* partition behind those before it.
LEMMA BeforeSums ==
    ASSUME NEW p \in Parts
    PROVE  Before[p] = IF p = 0 THEN 0 ELSE Before[p - 1] + file.size[p - 1]
<1>1. MaxPartitions - 1 \in Nat /\ Parts = 0..(MaxPartitions - 1)
  BY SizeAssumption DEF Parts
<1>2. \E f : Sums(f, MaxPartitions - 1, file.size)
  BY <1>1, SumsExist
<1>3. \E f : f = [q \in Parts |-> IF q = 0 THEN 0 ELSE f[q - 1] + file.size[q - 1]]
  BY <1>1, <1>2 DEF Sums
<1>4. Before = [q \in Parts |-> IF q = 0 THEN 0 ELSE Before[q - 1] + file.size[q - 1]]
  BY <1>3 DEF Before
<1> QED  BY <1>4

\* What is assumed of a frame.
LEMMA FileFacts ==
    ASSUME file \in Files
    PROVE  /\ file.partitions \in Nat \ {0} /\ InUse \subseteq Parts /\ InUse \subseteq Nat
           /\ InUse = 0..file.partitions - 1
           /\ \A p \in InUse : file.size[p] \in Nat
           /\ \A m \in Mb : file.need[m] \in Nat
           /\ file.modesDry \in 0..W * H /\ file.filter \in Filters
<1>1. /\ file.partitions \in 1..MaxPartitions /\ MaxPartitions \in Nat
      /\ file.need \in [Mb -> Nat] /\ file.size \in [0..file.partitions - 1 -> Nat]
      /\ file.modesDry \in 0..W * H /\ file.filter \in Filters
  BY FilesAssumption, SizeAssumption
<1> QED  BY <1>1 DEF InUse, Parts

\* So it is a number wherever a partition is in use.
LEMMA BeforeTyped ==
    ASSUME file \in Files
    PROVE  \A p \in InUse : Before[p] \in Nat
<1> DEFINE T == {p \in InUse : Before[p] \notin Nat}
<1>1. T \subseteq Nat
  BY FileFacts
<1>2. ASSUME NEW p \in T PROVE p > 0 /\ p - 1 \in T
  <2>1. p \in InUse /\ p \in Nat /\ p \in Parts /\ Before[p] \notin Nat
    BY FileFacts
  <2>2. p # 0
    BY <2>1, BeforeSums
  <2>3. p > 0 /\ p - 1 \in InUse
    BY <2>1, <2>2, FileFacts
  <2>4. Before[p] = Before[p - 1] + file.size[p - 1] /\ file.size[p - 1] \in Nat
    BY <2>1, <2>2, <2>3, BeforeSums, FileFacts
  <2>5. Before[p - 1] \notin Nat
    BY <2>1, <2>4
  <2> QED  BY <2>3, <2>5
<1> HIDE DEF T
<1>3. T = {}
  BY <1>1, <1>2, NoDescent
<1> QED  BY <1>3 DEF T

\* A chunk that is all there holds each of its partitions whole.
LEMMA TotalCovers ==
    ASSUME file \in Files
    PROVE  Total \in Nat /\ \A p \in InUse : Before[p] + file.size[p] <= Total
<1> DEFINE last == file.partitions - 1
           T == {d \in 0..last : ~(Before[last - d] + file.size[last - d] <= Total)}
<1>1. last \in Nat /\ InUse = 0..last
  BY FileFacts
<1>2. Total = Before[last] + file.size[last] /\ Total \in Nat
  <2>1. Before[last] \in Nat /\ file.size[last] \in Nat
    BY <1>1, BeforeTyped, FileFacts
  <2> QED  BY <2>1 DEF Total
<1> HIDE DEF last
<1>3. ASSUME NEW d \in T PROVE d > 0 /\ d - 1 \in T
  <2>1. d \in Nat /\ d <= last
    BY <1>1
  <2>2. d # 0
    <3>1. d = 0 => last - d = last
      BY <1>1
    <3> QED  BY <1>2, <1>3, <3>1
  <2> DEFINE p == last - d
  <2>3. p \in InUse /\ p + 1 \in InUse /\ p + 1 \in Parts /\ p + 1 # 0 /\ (p + 1) - 1 = p
    <3>1. p \in InUse /\ p + 1 \in InUse /\ p + 1 # 0 /\ (p + 1) - 1 = p
      BY <1>1, <2>1, <2>2
    <3> QED  BY <3>1, FileFacts
  <2>4. last - (d - 1) = p + 1 /\ d - 1 \in 0..last /\ d > 0
    BY <1>1, <2>1, <2>2
  <2> HIDE DEF p
  <2>5. Before[p + 1] = Before[p] + file.size[p]
    BY <2>3, BeforeSums
  <2>6. /\ Before[p] \in Nat /\ file.size[p] \in Nat
        /\ Before[p + 1] \in Nat /\ file.size[p + 1] \in Nat
    BY <2>3, BeforeTyped, FileFacts
  <2>7. ~(Before[p] + file.size[p] <= Total)
    BY <1>3 DEF p
  <2>8. ~(Before[p + 1] + file.size[p + 1] <= Total)
    BY <1>2, <2>5, <2>6, <2>7
  <2> QED  BY <2>4, <2>8
<1>4. T \subseteq Nat
  BY <1>1
<1> HIDE DEF T
<1>5. T = {}
  BY <1>3, <1>4, NoDescent
<1>6. ASSUME NEW p \in InUse PROVE Before[p] + file.size[p] <= Total
  <2>1. last - p \in 0..last /\ last - (last - p) = p
    BY <1>1
  <2> QED  BY <1>5, <2>1 DEF T
<1> QED  BY <1>2, <1>6

-----------------------------------------------------------------------------
(* Rows and their partitions.                                              *)

\* A row is one of its partition's, and of a round of partitions.
LEMMA Divided ==
    ASSUME NEW r \in Nat, NEW n \in Nat \ {0}
    PROVE  r % n \in 0..n - 1 /\ r \div n \in Nat /\ r = n * (r \div n) + (r % n)
<1>1. r % n \in 0..n - 1
  OBVIOUS
<1>2. r \div n \in Nat
  OBVIOUS
<1>3. r = n * (r \div n) + (r % n)
  OBVIOUS
<1> QED  BY <1>1, <1>2, <1>3

LEMMA NoMultiple ==
    ASSUME NEW n \in Nat \ {0}, NEW q \in Int, NEW d \in Int, d = n * q, -n < d, d < n
    PROVE  q = 0
<1>1. CASE q >= 1
  <2>1. n * q >= n
    BY <1>1
  <2> QED  BY <1>1, <2>1
<1>2. CASE q <= -1
  <2>1. n * q <= -n
    BY <1>2
  <2> QED  BY <1>2, <2>1
<1> QED  BY <1>1, <1>2

LEMMA OneQuotient ==
    ASSUME NEW n \in Nat \ {0}, NEW q \in Int, NEW k \in Int, NEW a \in 0..n - 1,
           NEW b \in 0..n - 1, n * q + a = n * k + b
    PROVE  q = k /\ a = b
<1>1. n * (q - k) = b - a
  OBVIOUS
<1>2. q - k = 0
  BY <1>1, NoMultiple
<1> QED  BY <1>2

\* The rows of a partition are `n` apart.
LEMMA NextOfPartition ==
    ASSUME NEW r \in Nat, NEW n \in Nat \ {0}
    PROVE  (r + n) % n = r % n /\ (r + n) \div n = (r \div n) + 1
<1> DEFINE s == r + n
           q == r \div n
           a == r % n
           k == s \div n
           b == s % n
<1>1. r = n * q + a /\ a \in 0..n - 1 /\ q \in Nat
  BY Divided
<1>2. s \in Nat /\ s = r + n
  OBVIOUS
<1> HIDE DEF s
<1>3. s = n * k + b /\ b \in 0..n - 1 /\ k \in Nat
  BY <1>2, Divided
<1> HIDE DEF q, a, k, b
<1>4. n * (q + 1) + a = n * k + b
  BY <1>1, <1>2, <1>3
<1>5. q + 1 = k /\ a = b
  BY <1>1, <1>3, <1>4, OneQuotient
<1> QED  BY <1>5 DEF s, q, a, k, b

\* The first `n` rows are the first of their partitions.
LEMMA FirstOfPartition ==
    ASSUME NEW r \in Nat, NEW n \in Nat \ {0}, r < n
    PROVE  r % n = r /\ r \div n = 0
<1> DEFINE q == r \div n
           a == r % n
<1>1. r = n * q + a /\ a \in 0..n - 1 /\ q \in Nat
  BY Divided
<1> HIDE DEF q, a
<1>2. n * q + a = n * 0 + r
  BY <1>1
<1>3. q = 0 /\ a = r
  BY <1>1, <1>2, OneQuotient
<1> QED  BY <1>3 DEF q, a

\* One row in `n` is of a partition.
LEMMA OneOfPartition ==
    ASSUME NEW r \in Nat, NEW s \in Nat, NEW n \in Nat \ {0}, r % n = s % n,
           r <= s, s < r + n
    PROVE  r = s
<1> DEFINE q == r \div n
           k == s \div n
           a == r % n
<1>1. r = n * q + a /\ s = n * k + a /\ q \in Nat /\ k \in Nat /\ a \in 0..n - 1
  BY Divided
<1> HIDE DEF q, k, a
<1>2. n * (k - q) = s - r
  BY <1>1
<1>3. k - q = 0
  BY <1>2, <1>1, NoMultiple
<1> QED  BY <1>1, <1>3

\* The partition of a row is in use.
LEMMA PartOfRow ==
    ASSUME file \in Files, NEW r \in Nat
    PROVE  PartOf(r) \in InUse /\ (r < file.partitions => PartOf(r) = r)
<1>1. file.partitions \in Nat \ {0} /\ InUse = 0..file.partitions - 1
  BY FileFacts
<1> QED  BY <1>1, Divided, FirstOfPartition DEF PartOf

-----------------------------------------------------------------------------
(* The invariant.                                                          *)

\* Files that number their partitions alike, so that none leaves a coder behind
\* that the next does not start again.
PartitionsAlike == \A f, g \in Files : f.partitions = g.partitions

\* Nothing a frame left behind is in the way of this one.
Clear == reopened = 0 \/ PartitionsAlike

InCall == call # "idle"
Live   == InCall \/ active

\* The macroblock the frame has come to.
Y == IF InCall THEN at[1] ELSE mbY
X == IF InCall THEN at[2] ELSE mbX

Passed(m) == m[1] < Y \/ (m[1] = Y /\ m[2] < X)

\* Where the row loop and the calls are.
Placed ==
    /\ call = "row" => at[2] = mbX
    /\ call = "mb" => at[1] < H
    /\ Y = H => X = 0
    /\ mbY = H => mbX = 0
    /\ past => avail = Total
    /\ Live => avail >= 0 /\ status # "done"
    /\ InCall => (past <=> avail = Total) /\ (~active => past) /\ failures <= MaxFailures
    /\ status = "error" => failures > 0
    /\ strength \in [0..1 -> [0..W - 1 -> Mb \cup {None}]]

\* A frame not yet begun has nothing of the one before.
Fresh ==
    ~Live /\ ~past /\ status # "done" =>
        /\ failures = 0 /\ spoiled = {}
        /\ \A m \in Mb : parsed[m] = None /\ luma[m] = None /\ chroma[m] = None

\* Each partition that could be opened is, as far as it has come.
Windows ==
    /\ Live =>
        /\ clamped \subseteq ready /\ ready \subseteq {p \in InUse : Opens(p)}
        /\ \A r \in 0..H - 1 : r < Y \/ (r = Y /\ X > 0) => PartOf(r) \in ready
        /\ \A r \in 0..H - 1 : r < mbY \/ (r = mbY /\ mbX > 0) => PartOf(r) \in ready
    /\ InCall =>
        /\ ready = {p \in InUse : Opens(p)}
        /\ clamped = {p \in ready : Window(p) < file.size[p]}
        /\ \A p \in ready : coder[p].end = Window(p)
    /\ call = "mb" => PartOf(at[1]) \in ready /\ (check <=> PartOf(at[1]) \in clamped)

\* The coders and the contexts are where the macroblocks passed left them.
InStep ==
    /\ modes.read = Y * W + X
    /\ \A p \in ready, r \in Y..Y + file.partitions - 1 :
           PartOf(r) = p =>
               coder[p].read = W * (r \div file.partitions) + (IF r = Y THEN X ELSE 0)
    /\ \A c \in 0..W - 1 :
           LET above == IF c < X THEN <<Y, c>> ELSE IF Y = 0 THEN None ELSE <<Y - 1, c>>
           IN  modeTop[c] = above /\ nnzTop[c] = above
    /\ X > 0 \/ call = "mb" =>
           LET beside == IF X = 0 THEN None ELSE <<Y, X - 1>>
           IN  modeLeft = beside /\ nnzLeft = beside
    /\ \A m \in Mb : parsed[m] # None <=> Passed(m)

LumaDone(m) == m[1] + 1 < Y \/ (m[1] + 1 = Y /\ m[2] + 1 < X) \/ Y = H
ChromaDone(m) == m[1] + 1 < Y \/ (m[1] + 1 = Y /\ m[2] + 2 < X) \/ Y = H

\* The filter is a row and a macroblock or two behind, its strengths kept.
Behind ==
    /\ \A m \in Mb : luma[m] = IF Deblock /\ LumaDone(m) THEN m ELSE None
    /\ \A m \in Mb : chroma[m] = IF Deblock /\ ChromaDone(m) THEN m ELSE None
    /\ Deblock => \A c \in 0..W - 1 :
           /\ c < X => strength[Y % 2][c] = <<Y, c>>
           /\ Y > 0 => strength[(Y - 1) % 2][c] = <<Y - 1, c>>
    /\ rowsDone <= Y
    /\ Deblock /\ rowsDone > 0 => rowsDone + 1 <= Y

\* What has run dry, and that it shows.
Dry ==
    /\ \A p \in Parts : coder[p].over => p < H
    /\ Clear => \A p \in Parts \ InUse : ~coder[p].over
    /\ Live => /\ modes.over => Damaged
               /\ \A p \in ready : coder[p].over => Damaged
    /\ failures > 0 => /\ modes.over \/ \E p \in Parts : coder[p].over /\ (p \in ready \/ p \notin InUse)
                       /\ Clear => Damaged
                       /\ active \/ past
    /\ Live /\ failures = 0 =>
           /\ modes.over <=> modes.read > file.modesDry
           /\ \A m \in Mb : Passed(m) /\ file.need[m] > file.size[PartOf(m[1])] =>
                  coder[PartOf(m[1])].over

RowInv ==
    /\ TypeOK /\ DOMAIN parsed = Mb
    /\ Placed /\ Fresh /\ Windows
    /\ Live /\ failures = 0 => InStep /\ Behind
    /\ Dry
    /\ ParsedAsWhole /\ ParsedFromData /\ PredictedFromUnfiltered /\ FilteredWhole
    /\ Clear => FailsIfDamaged
    /\ status = "done" => ~Damaged

-----------------------------------------------------------------------------
(* What a frame keeps while it is the same.                                *)

\* What is told from the chunk alone stays with it.
LEMMA SameFile ==
    ASSUME file' = file
    PROVE  /\ Before' = Before /\ Total' = Total /\ InUse' = InUse /\ Deblock' = Deblock
           /\ \A r : PartOf(r)' = PartOf(r)
           /\ Damaged' = Damaged
<1>1. Before' = Before
  BY DEF Before
<1>2. InUse' = InUse /\ Deblock' = Deblock
  BY DEF InUse, Deblock
<1>3. \A r : PartOf(r)' = PartOf(r)
  BY DEF PartOf
<1>4. Damaged' = Damaged
  BY DEF Damaged, PartOf
<1>5. Total' = Total
  BY <1>1 DEF Total
<1> QED  BY <1>1, <1>2, <1>3, <1>4, <1>5

LEMMA SameWindows ==
    ASSUME file' = file, avail' = avail
    PROVE  \A p : Have(p)' = Have(p) /\ Window(p)' = Window(p) /\ Opens(p)' = Opens(p)
  BY SameFile DEF Have, Window, Opens

\* The types of all that the proofs mention.
LEMMA Typed ==
    ASSUME RowInv
    PROVE  /\ W \in Nat \ {0} /\ H \in Nat \ {0} /\ InitBytes \in Nat
           /\ file \in Files /\ avail \in Int /\ Total \in Nat
           /\ Y \in 0..H /\ X \in 0..W /\ mbY \in 0..H /\ mbX \in 0..W - 1 /\ rowsDone \in 0..H
           /\ at \in (0..H) \X (0..W) /\ at = <<at[1], at[2]>>
           /\ at[1] \in 0..H /\ at[2] \in 0..W
           /\ failures \in Nat /\ ready \subseteq Parts /\ clamped \subseteq Parts
           /\ modes \in [read : Nat, over : BOOLEAN] /\ coder \in [Parts -> Coder]
<1>1. W \in Nat \ {0} /\ H \in Nat \ {0} /\ InitBytes \in Nat /\ MaxFailures \in Nat
  BY SizeAssumption
<1>2. TypeOK /\ file \in Files
  BY DEF RowInv, TypeOK
<1>3. Total \in Nat
  BY <1>2, TotalCovers
<1>4. mbX \in 0..W - 1 /\ mbY \in 0..H /\ at \in (0..H) \X (0..W)
  BY <1>2 DEF TypeOK
<1>5. at[1] \in 0..H /\ at[2] \in 0..W /\ at = <<at[1], at[2]>>
  BY <1>4
<1>6. Y \in 0..H /\ X \in 0..W
  BY <1>1, <1>4, <1>5 DEF Y, X
<1>7. avail \in Int /\ failures \in Nat
  BY <1>1, <1>2, <1>3 DEF TypeOK
<1>8. /\ rowsDone \in 0..H /\ ready \subseteq Parts /\ clamped \subseteq Parts
      /\ modes \in [read : Nat, over : BOOLEAN] /\ coder \in [Parts -> Coder]
  BY <1>2 DEF TypeOK
<1> QED  BY <1>1, <1>2, <1>3, <1>4, <1>5, <1>6, <1>7, <1>8

\* A pair or a record is not None.
LEMMA PairNotNone == \A a, b : <<a, b>> # None
<1> SUFFICES ASSUME NEW a, NEW b PROVE <<a, b>> # None
  OBVIOUS
<1>1. DOMAIN <<a, b>> = 1..2 /\ DOMAIN None = 1..0
  BY DEF None
<1> QED  BY <1>1

LEMMA RecordNotNone ==
    \A a, b, c, d : [modes |-> a, part |-> b, above |-> c, beside |-> d] # None
<1> SUFFICES ASSUME NEW a, NEW b, NEW c, NEW d
             PROVE  [modes |-> a, part |-> b, above |-> c, beside |-> d] # None
  OBVIOUS
<1>1. DOMAIN [modes |-> a, part |-> b, above |-> c, beside |-> d]
        = {"modes", "part", "above", "beside"}
  OBVIOUS
<1>2. DOMAIN None = {}
  BY DEF None
<1> QED  BY <1>1, <1>2

\* A window ends where the data does, or the partition before it; a chunk all
\* there clamps none.
LEMMA WindowFacts ==
    ASSUME file \in Files, avail \in Int, NEW p \in InUse
    PROVE  /\ Have(p) \in Int /\ Window(p) \in Int /\ file.size[p] \in Nat
           /\ Opens(p) => Window(p) \in Nat
           /\ Window(p) <= Have(p) /\ Window(p) <= file.size[p]
           /\ Window(p) < file.size[p] <=> Have(p) < file.size[p]
           /\ avail = Total => Opens(p) /\ Window(p) = file.size[p]
<1>1. Before[p] \in Nat /\ file.size[p] \in Nat /\ InitBytes \in Nat /\ Total \in Nat
      /\ Before[p] + file.size[p] <= Total
  BY BeforeTyped, FileFacts, SizeAssumption, TotalCovers
<1> QED  BY <1>1 DEF Have, Window, Opens

-----------------------------------------------------------------------------
(* The types.                                                              *)

\* The windows of the partitions opened are numbers.
LEMMA OpenedTyped ==
    ASSUME RowInv, NEW rdy, NEW clm, rdy \subseteq InUse, clm \subseteq rdy, avail >= 0,
           OpenPartitions(rdy, clm)
    PROVE  /\ coder' \in [Parts -> Coder]
           /\ ready' \subseteq InUse /\ ready' \subseteq Parts
           /\ clamped' \subseteq ready' /\ clamped' \subseteq Parts
<1> DEFINE opened == {p \in InUse : Opens(p)}
<1>1. /\ coder \in [Parts -> Coder] /\ InUse \subseteq Parts
      /\ \A p \in opened : Window(p) \in Nat
  BY Typed, FileFacts, WindowFacts
<1>2. /\ ready' = rdy \cup opened
      /\ clamped' = (clm \ opened) \cup {p \in opened : Window(p) < file.size[p]}
      /\ coder' = [p \in Parts |->
                    IF p \notin opened THEN coder[p]
                    ELSE IF p \in rdy THEN [coder[p] EXCEPT !.end = Window(p)]
                    ELSE [Unopened EXCEPT !.end = Window(p)]]
  BY DEF OpenPartitions
<1> HIDE DEF opened
<1>3. opened \subseteq InUse
  BY DEF opened
<1>4. ASSUME NEW p \in Parts PROVE coder'[p] \in Coder
  <2>1. CASE p \notin opened
    BY <1>1, <1>2, <2>1
  <2>2. CASE p \in opened
    BY <1>1, <1>2, <2>2 DEF Coder, Unopened
  <2> QED  BY <2>1, <2>2
<1>5. coder' \in [Parts -> Coder]
  BY <1>2, <1>4
<1> QED  BY <1>1, <1>2, <1>3, <1>5

\* A call has come to the end, more, or an error.
LEMMA ReturnTyped ==
    ASSUME RowInv, NEW s \in {"more", "done", "error"}, failures <= MaxFailures, Return(s)
    PROVE  /\ call' = "idle" /\ status' \in {"more", "done", "error"} /\ active' \in BOOLEAN
           /\ past' = past /\ failures' \in 0..MaxFailures + 1
<1>1. failures \in Nat /\ MaxFailures \in Nat /\ active \in BOOLEAN
  BY Typed, SizeAssumption DEF RowInv, TypeOK
<1> QED  BY <1>1 DEF Return

\* Where the loop is, and what its parts are.
LEMMA InRow ==
    ASSUME RowInv, call = "mb"
    PROVE  /\ Y = at[1] /\ X = at[2] /\ at[1] \in 0..H - 1 /\ InCall /\ Live
           /\ PartOf(at[1]) \in ready /\ PartOf(at[1]) \in InUse /\ PartOf(at[1]) \in Parts
           /\ ready \subseteq InUse /\ failures <= MaxFailures /\ avail >= 0
           /\ (at[2] < W => at \in Mb)
<1>1. Y = at[1] /\ X = at[2] /\ InCall /\ Live
  BY DEF Y, X, InCall, Live
<1>2. at[1] \in 0..H /\ at[1] < H /\ at[2] \in 0..W /\ at = <<at[1], at[2]>> /\ H \in Nat /\ W \in Nat
  BY Typed DEF RowInv, Placed
<1>3. PartOf(at[1]) \in ready /\ ready \subseteq InUse
  BY <1>1 DEF RowInv, Windows
<1>4. InUse \subseteq Parts
  BY Typed, FileFacts
<1>5. failures <= MaxFailures /\ avail >= 0
  BY <1>1 DEF RowInv, Placed
<1>6. at[2] < W => at \in Mb
  <2>1. at[1] \in 0..H - 1 /\ (at[2] < W => at[2] \in 0..W - 1)
    BY <1>2
  <2> QED  BY <1>2, <2>1 DEF Mb
<1> QED  BY <1>1, <1>2, <1>3, <1>4, <1>5, <1>6

\* Where the loop is between two rows.
LEMMA AtRow ==
    ASSUME RowInv, call = "row"
    PROVE  /\ Y = at[1] /\ X = at[2] /\ at[2] = mbX /\ InCall /\ Live
           /\ failures <= MaxFailures /\ avail >= 0 /\ ready \subseteq InUse
<1>1. Y = at[1] /\ X = at[2] /\ InCall /\ Live
  BY DEF Y, X, InCall, Live
<1> QED  BY <1>1 DEF RowInv, Placed, Windows

\* Filtering writes strengths.
LEMMA FilterTyped ==
    ASSUME NEW f \in [Mb -> Mb \cup {None}], NEW S, W \in Nat,
           NEW str \in [0..1 -> [0..W - 1 -> Mb \cup {None}]]
    PROVE  FilterAt(f, S, str) \in [Mb -> Mb \cup {None}]
<1> SUFFICES ASSUME NEW m \in Mb PROVE str[m[1] % 2][m[2]] \in Mb \cup {None}
  BY DEF FilterAt
<1>1. m[1] \in Nat /\ m[2] \in 0..W - 1
  BY SizeAssumption DEF Mb
<1>2. m[1] % 2 \in 0..1
  BY <1>1
<1> QED  BY <1>1, <1>2

LEMMA ReconstructTyped ==
    ASSUME RowInv, NEW m \in Mb, Reconstruct(m)
    PROVE  /\ luma' \in [Mb -> Mb \cup {None}] /\ chroma' \in [Mb -> Mb \cup {None}]
           /\ spoiled' \subseteq Mb /\ strength' \in [0..1 -> [0..W - 1 -> Mb \cup {None}]]
<1> DEFINE y == m[1]
           x == m[2]
           s == IF Deblock THEN [strength EXCEPT ![y % 2][x] = m] ELSE strength
<1>1. /\ luma \in [Mb -> Mb \cup {None}] /\ chroma \in [Mb -> Mb \cup {None}]
      /\ spoiled \subseteq Mb /\ strength \in [0..1 -> [0..W - 1 -> Mb \cup {None}]]
      /\ W \in Nat
  BY Typed DEF RowInv, TypeOK, Placed
<1>2. s \in [0..1 -> [0..W - 1 -> Mb \cup {None}]]
  BY <1>1
<1> HIDE DEF s
<1>3. strength' = s
  BY DEF Reconstruct, s
<1>4. luma' = IF Deblock /\ y > 0 /\ x > 0 THEN FilterAt(luma, {<<y - 1, x - 1>>}, s) ELSE luma
  BY DEF Reconstruct, s
<1>5. chroma' = IF Deblock /\ y > 0 /\ x > 1 THEN FilterAt(chroma, {<<y - 1, x - 2>>}, strength)
                ELSE chroma
  BY DEF Reconstruct
<1>6. spoiled' = spoiled \cup {m} \/ spoiled' = spoiled
  BY DEF Reconstruct
<1> QED  BY <1>1, <1>2, <1>3, <1>4, <1>5, <1>6, FilterTyped

LEMMA FinishTyped ==
    ASSUME RowInv, NEW y, NEW filter, FinishRow(y, filter)
    PROVE  /\ luma' \in [Mb -> Mb \cup {None}] /\ chroma' \in [Mb -> Mb \cup {None}]
           /\ UNCHANGED <<strength, parsed, spoiled>>
<1>1. /\ luma \in [Mb -> Mb \cup {None}] /\ chroma \in [Mb -> Mb \cup {None}]
      /\ strength \in [0..1 -> [0..W - 1 -> Mb \cup {None}]] /\ W \in Nat
  BY Typed DEF RowInv, TypeOK, Placed
<1>2. luma' = luma \/ \E S : luma' = FilterAt(luma, S, strength)
  BY DEF FinishRow
<1>3. chroma' = chroma \/ \E S : chroma' = FilterAt(chroma, S, strength)
  BY DEF FinishRow
<1> QED  BY <1>1, <1>2, <1>3, FilterTyped DEF FinishRow

\* A frame starts with nothing of another.
LEMMA FrameInitFresh ==
    ASSUME RowInv, FrameInit
    PROVE  /\ failures = 0 /\ spoiled = {} /\ ~Live /\ ~InCall
           /\ \A m \in Mb : parsed[m] = None /\ luma[m] = None /\ chroma[m] = None
<1>1. ~Live /\ ~InCall /\ ~past /\ status # "done"
  BY DEF FrameInit, Live, InCall
<1> QED  BY <1>1 DEF RowInv, Fresh

FileKnown  == file \in Files
TotalKnown == Total \in Nat

LEMMA TotalTyped == FileKnown => TotalKnown
  BY TotalCovers DEF FileKnown, TotalKnown

LEMMA TotalTypedAfter == FileKnown' => TotalKnown'
  BY TotalTyped, PTL

\* Every action keeps the types.
LEMMA TypeStep ==
    ASSUME RowInv, [Next]_vars
    PROVE  TypeOK'
<1> USE DEF TypeOK
<1>0. TypeOK /\ Total \in Nat /\ MaxFailures \in Nat /\ MaxReopened \in Nat /\ H \in Nat \ {0} /\ W \in Nat \ {0}
  BY Typed, SizeAssumption DEF RowInv
<1>00. file' = file => Total' = Total /\ InUse' = InUse
  BY SameFile
<1>1. CASE Arrive
  BY <1>0, <1>00, <1>1 DEF Arrive, loopVars, savedVars, partVars, contextVars, pixelVars, callVars
<1>2. CASE HeaderNeedsMore
  BY <1>0, <1>00, <1>2 DEF HeaderNeedsMore, inVars, loopVars, savedVars, partVars, contextVars,
                         pixelVars, callVars
<1>3. CASE FrameInit
  <2>1. OpenPartitions({}, {}) /\ avail >= 0
    BY <1>3 DEF FrameInit
  <2>2. /\ coder' \in [Parts -> Coder] /\ ready' \subseteq InUse /\ ready' \subseteq Parts
        /\ clamped' \subseteq ready' /\ clamped' \subseteq Parts
    BY <2>1, OpenedTyped
  <2>3. /\ modes' = [read |-> 0, over |-> FALSE]
        /\ modeTop' = [x \in 0..W - 1 |-> None] /\ nnzTop' = [x \in 0..W - 1 |-> None]
        /\ mbX' = 0 /\ mbY' = 0 /\ rowsDone' = 0 /\ at' = <<0, 0>>
        /\ call' = "row" /\ active' = (avail < Total) /\ past' = (avail = Total)
        /\ UNCHANGED <<inVars, check, modeLeft, nnzLeft, pixelVars, status, failures>>
    BY <1>3 DEF FrameInit, Call
  <2>4. at' \in (0..H) \X (0..W) /\ mbX' \in 0..W - 1 /\ mbY' \in 0..H /\ rowsDone' \in 0..H
    BY <1>0, <2>3
  <2>5. modes' \in [read : Nat, over : BOOLEAN]
        /\ modeTop' \in [0..W - 1 -> Mb \cup {None}] /\ nnzTop' \in [0..W - 1 -> Mb \cup {None}]
    BY <2>3
  <2> QED  BY <1>0, <1>00, <2>2, <2>3, <2>4, <2>5 DEF inVars, pixelVars
<1>4. CASE Extend
  <2>1. OpenPartitions(ready, clamped) /\ ~InCall /\ Live
    BY <1>4 DEF Extend, Live, InCall
  <2>2. ready \subseteq InUse /\ clamped \subseteq ready /\ avail >= 0
    BY <2>1 DEF RowInv, Windows, Placed
  <2>3. /\ coder' \in [Parts -> Coder] /\ ready' \subseteq InUse /\ ready' \subseteq Parts
        /\ clamped' \subseteq ready' /\ clamped' \subseteq Parts
    BY <2>1, <2>2, OpenedTyped
  <2>4. /\ call' = "row" /\ active' = TRUE /\ past' = (avail = Total) /\ at' = <<mbY, mbX>>
        /\ UNCHANGED <<inVars, check, savedVars, modes, modeTop, modeLeft, nnzTop,
                       nnzLeft, pixelVars, status, failures>>
    BY <1>4 DEF Extend, Call
  <2>5. at' \in (0..H) \X (0..W)
    BY <1>0, <2>4
  <2> QED  BY <1>0, <1>00, <2>3, <2>4, <2>5 DEF inVars, savedVars, pixelVars
<1>5. CASE Reopen
  <2>1. /\ file' \in Files /\ avail' = -1 /\ call = "idle" /\ reopened < MaxReopened
        /\ reopened' = reopened + 1 /\ spoiled' = {}
        /\ active' = FALSE /\ past' = FALSE /\ status' = "none" /\ failures' = 0
        /\ luma' = [m \in Mb |-> None] /\ chroma' = [m \in Mb |-> None]
        /\ UNCHANGED <<loopVars, savedVars, partVars, contextVars>>
    BY <1>5 DEF Reopen
  <2>2. avail' \in -1..Total' /\ reopened' \in 0..MaxReopened
    <3>1. Total' \in Nat
      BY <2>1, TotalTypedAfter DEF FileKnown, TotalKnown
    <3> QED  BY <1>0, <2>1, <3>1
  <2>3. {luma', chroma'} \subseteq [Mb -> Mb \cup {None}] /\ failures' \in 0..MaxFailures + 1
    BY <1>0, <2>1
  <2> QED  BY <1>0, <2>1, <2>2, <2>3 DEF loopVars, savedVars, partVars, contextVars
<1>6. CASE PartitionNeedsMore
  <2>1. /\ Return("more") /\ mbX' = 0 /\ mbY' = at[1] /\ call = "row"
        /\ UNCHANGED <<inVars, at, check, rowsDone, partVars, contextVars, pixelVars>>
    BY <1>6 DEF PartitionNeedsMore
  <2>2. /\ call' = "idle" /\ status' \in {"more", "done", "error"} /\ active' \in BOOLEAN
        /\ past' = past /\ failures' \in 0..MaxFailures + 1
    BY <2>1, AtRow, ReturnTyped
  <2>3. mbX' \in 0..W - 1 /\ mbY' \in 0..H
    BY <1>0, <2>1, Typed
  <2> QED  BY <1>0, <1>00, <2>1, <2>2, <2>3 DEF inVars, partVars, contextVars, pixelVars
<1>7. CASE StartRow
  <2>1. /\ check' \in BOOLEAN /\ call' = "mb" /\ at' = <<at[1], mbX>>
        /\ modeLeft' \in {None, modeLeft} /\ nnzLeft' \in {None, nnzLeft}
        /\ UNCHANGED <<inVars, savedVars, partVars, modes, coder, modeTop, nnzTop,
                       pixelVars, callVars>> /\ call = "row"
    BY <1>7 DEF StartRow
  <2>2. at' \in (0..H) \X (0..W)
    BY <1>0, <2>1, Typed
  <2>3. ready \subseteq InUse /\ clamped \subseteq ready
    BY <2>1, AtRow DEF RowInv, Windows
  <2> QED  BY <1>0, <1>00, <2>1, <2>2, <2>3 DEF inVars, savedVars, partVars, pixelVars, callVars
<1>8. CASE MbNeedsMore
  <2>1. /\ Return("more") /\ mbX' = at[2] /\ mbY' = at[1] /\ call = "mb" /\ at[2] < W
        /\ UNCHANGED <<inVars, at, check, rowsDone, partVars, contextVars, pixelVars>>
    BY <1>8 DEF MbNeedsMore
  <2>2. /\ call' = "idle" /\ status' \in {"more", "done", "error"} /\ active' \in BOOLEAN
        /\ past' = past /\ failures' \in 0..MaxFailures + 1
    BY <2>1, InRow, ReturnTyped
  <2>3. mbX' \in 0..W - 1 /\ mbY' \in 0..H
    BY <1>0, <2>1, Typed
  <2> QED  BY <1>0, <1>00, <2>1, <2>2, <2>3 DEF inVars, partVars, contextVars, pixelVars
<1>9. CASE Macroblock
  <2>1. /\ call = "mb" /\ at[2] < W /\ Parse(at) /\ Reconstruct(at) /\ at' = <<at[1], at[2] + 1>>
        /\ UNCHANGED <<inVars, call, check, savedVars, partVars, callVars>>
    BY <1>9 DEF Macroblock
  <2>2. at \in Mb /\ PartOf(at[1]) \in Parts /\ ready \subseteq InUse /\ clamped \subseteq ready
    BY <2>1, InRow DEF RowInv, Windows
  <2>3. /\ luma' \in [Mb -> Mb \cup {None}] /\ chroma' \in [Mb -> Mb \cup {None}]
        /\ spoiled' \subseteq Mb
    BY <2>1, <2>2, ReconstructTyped
  <2>4. at' \in (0..H) \X (0..W)
    BY <1>0, <2>1, Typed
  <2>5. modes' \in [read : Nat, over : BOOLEAN]
    <3>1. modes' = [read |-> modes.read + 1,
                    over |-> modes.over \/ Raster(at) >= file.modesDry]
      BY <2>1 DEF Parse
    <3>2. modes.read \in Nat /\ modes.over \in BOOLEAN
      BY <1>0
    <3>3. modes.read + 1 \in Nat /\ (modes.over \/ Raster(at) >= file.modesDry) \in BOOLEAN
      BY ONLY <3>2
    <3> QED  BY ONLY <3>1, <3>3
  <2>6. coder' \in [Parts -> Coder]
    <3> DEFINE p == PartOf(at[1])
               new == [read |-> coder[p].read + 1, over |-> Overruns(at), end |-> coder[p].end]
    <3>1. coder' = [coder EXCEPT ![p] = new]
      BY <2>1 DEF Parse
    <3>2. coder[p] \in Coder /\ p \in Parts
      BY <1>0, <2>2
    <3>3. Overruns(at) \in BOOLEAN
      BY <3>2 DEF Overruns, Coder
    <3>4. new \in Coder
      BY <3>2, <3>3 DEF Coder
    <3> HIDE DEF new, p
    <3> QED  BY <1>0, <3>1, <3>2, <3>4
  <2>7. /\ modeTop' = [modeTop EXCEPT ![at[2]] = at] /\ modeLeft' = at
        /\ nnzTop' = [nnzTop EXCEPT ![at[2]] = at] /\ nnzLeft' = at
    BY <2>1 DEF Parse
  <2> QED  BY <1>0, <1>00, <2>1, <2>2, <2>3, <2>4, <2>5, <2>6, <2>7
           DEF inVars, savedVars, partVars, callVars
<1>10. CASE EndRowDry
  <2>1. /\ call = "mb" /\ FinishRow(at[1], FALSE) /\ Return("error")
        /\ UNCHANGED <<inVars, at, check, savedVars, partVars, contextVars>>
    BY <1>10 DEF EndRowDry
  <2>2. /\ call' = "idle" /\ status' \in {"more", "done", "error"} /\ active' \in BOOLEAN
        /\ past' = past /\ failures' \in 0..MaxFailures + 1
    BY <2>1, InRow, ReturnTyped
  <2>3. /\ luma' \in [Mb -> Mb \cup {None}] /\ chroma' \in [Mb -> Mb \cup {None}]
        /\ UNCHANGED <<strength, parsed, spoiled>>
    BY <2>1, FinishTyped
  <2> QED  BY <1>0, <1>00, <2>1, <2>2, <2>3 DEF inVars, savedVars, partVars, contextVars
<1>11. CASE EndRow
  <2>1. /\ call = "mb" /\ FinishRow(at[1], TRUE) /\ mbX' = 0 /\ call' = "row"
        /\ at' = <<at[1] + 1, 0>>
        /\ rowsDone' = IF active THEN at[1] + (IF Deblock THEN 0 ELSE 1) ELSE rowsDone
        /\ UNCHANGED <<inVars, check, mbY, partVars, contextVars, callVars>>
    BY <1>11 DEF EndRow
  <2>2. /\ luma' \in [Mb -> Mb \cup {None}] /\ chroma' \in [Mb -> Mb \cup {None}]
        /\ UNCHANGED <<strength, parsed, spoiled>>
    BY <2>1, FinishTyped
  <2>3. at' \in (0..H) \X (0..W) /\ rowsDone' \in 0..H /\ mbX' \in 0..W - 1
    BY <1>0, <2>1, InRow, Typed
  <2>4. ready \subseteq InUse /\ clamped \subseteq ready
    BY <2>1, InRow DEF RowInv, Windows
  <2> QED  BY <1>0, <1>00, <2>1, <2>2, <2>3, <2>4 DEF inVars, partVars, contextVars, callVars
<1>12. CASE EndFrame
  <2>1. /\ mbY' = H /\ rowsDone' = H /\ call = "row"
        /\ Return(IF modes.over \/ \E p \in Parts : coder[p].over THEN "error" ELSE "done")
        /\ UNCHANGED <<inVars, at, check, mbX, partVars, contextVars, pixelVars>>
    BY <1>12 DEF EndFrame
  <2>2. \E s \in {"more", "done", "error"} : Return(s)
    BY <2>1
  <2>3. /\ call' = "idle" /\ status' \in {"more", "done", "error"} /\ active' \in BOOLEAN
        /\ past' = past /\ failures' \in 0..MaxFailures + 1
    BY <2>1, <2>2, AtRow, ReturnTyped
  <2> QED  BY <1>0, <1>00, <2>1, <2>3 DEF inVars, partVars, contextVars, pixelVars
<1>13. CASE UNCHANGED vars
  BY <1>0, <1>00, <1>13 DEF vars, inVars, loopVars, savedVars, partVars, contextVars, pixelVars, callVars
<1> QED  BY <1>1, <1>2, <1>3, <1>4, <1>5, <1>6, <1>7, <1>8, <1>9, <1>10, <1>11, <1>12, <1>13
         DEF Next, DecodeRows, Stop

-----------------------------------------------------------------------------
(* The places, and a frame not begun.                                      *)

\* Every action leaves the row loop and the calls where they may be.
LEMMA PlacedStep ==
    ASSUME RowInv, [Next]_vars
    PROVE  Placed'
<1>0. /\ Placed /\ TypeOK /\ avail \in Int /\ Total \in Nat /\ MaxFailures \in Nat
      /\ failures \in Nat /\ H \in Nat \ {0} /\ W \in Nat \ {0}
      /\ at[1] \in 0..H /\ at[2] \in 0..W /\ mbX \in 0..W - 1 /\ mbY \in 0..H
      /\ (file' = file => Total' = Total)
  BY Typed, SizeAssumption, SameFile DEF RowInv
<1>1. CASE Arrive
  <2>1. /\ ~InCall /\ ~InCall' /\ avail < Total /\ avail' \in Int /\ avail' > avail
        /\ file' = file /\ UNCHANGED <<status, failures, mbY, mbX, active, call, strength, past>>
    BY <1>0, <1>1 DEF Arrive, InCall, loopVars, savedVars, callVars, pixelVars
  <2>2. Y' = Y /\ X' = X /\ (Live' <=> Live) /\ ~past
    BY <1>0, <2>1 DEF Y, X, Live, Placed
  <2> QED  BY <1>0, <2>1, <2>2 DEF Placed, InCall
<1>2. CASE HeaderNeedsMore
  <2>1. /\ ~InCall /\ ~InCall' /\ ~active /\ status' = "more"
        /\ UNCHANGED <<inVars, failures, mbY, mbX, active, call, strength, past>>
    BY <1>2 DEF HeaderNeedsMore, InCall, loopVars, savedVars, pixelVars
  <2>2. Y' = Y /\ X' = X /\ ~Live'
    BY <1>0, <2>1 DEF Y, X, Live
  <2> QED  BY <1>0, <2>1, <2>2 DEF Placed, InCall, inVars
<1>3. CASE FrameInit \/ Extend
  <2>1. /\ InCall' /\ call' = "row" /\ past' = (avail = Total) /\ at' = <<mbY', mbX'>>
        /\ avail >= 0 /\ status # "done" /\ failures <= MaxFailures
        /\ active' = (avail < Total) \/ active' = TRUE
        /\ UNCHANGED <<inVars, status, failures, strength>>
    <3>1. CASE FrameInit
      BY <1>0, <3>1, FrameInitFresh DEF FrameInit, Call, InCall, pixelVars
    <3>2. CASE Extend
      <4>1. Live
        BY <3>2 DEF Extend, Live
      <4> QED  BY <1>0, <3>2, <4>1 DEF Extend, Call, InCall, pixelVars, Placed, savedVars
    <3> QED  BY <1>3, <3>1, <3>2
  <2>2. mbY' = H => mbX' = 0
    BY <1>0, <1>3 DEF FrameInit, Extend, Placed, savedVars
  <2>3. Y' = mbY' /\ X' = mbX' /\ Live' /\ at'[2] = mbX'
    BY <2>1 DEF Y, X, Live
  <2>4. ~active' => past'
    <3>1. avail <= Total
      BY <1>0 DEF TypeOK
    <3>2. avail < Total \/ avail = Total
      BY <1>0, <3>1
    <3> QED  BY <2>1, <3>2
  <2> QED  BY <1>0, <2>1, <2>2, <2>3, <2>4 DEF Placed, inVars
<1>4. CASE Reopen
  <2>1. /\ ~InCall /\ ~InCall' /\ ~active' /\ ~past' /\ status' = "none" /\ failures' = 0
        /\ UNCHANGED <<mbY, mbX, call, strength>>
    BY <1>4 DEF Reopen, InCall, loopVars, savedVars
  <2>2. Y' = Y /\ X' = X /\ ~Live'
    BY <2>1 DEF Y, X, Live
  <2> QED  BY <1>0, <2>1, <2>2 DEF Placed, InCall
<1>5. ASSUME NEW s \in {"more", "done", "error"}, Return(s), InCall, UNCHANGED <<inVars, strength>>,
             mbY' = H => mbX' = 0
      PROVE  Placed'
  <2>1. /\ ~InCall' /\ call' = "idle" /\ past' = past /\ active' = (active /\ s # "done")
        /\ status' = (IF s = "more" /\ past THEN "error" ELSE s)
        /\ failures' = failures + (IF status' = "error" THEN 1 ELSE 0)
    BY <1>5 DEF Return, InCall
  <2>2. Y' = mbY' /\ X' = mbX'
    BY <2>1 DEF Y, X
  <2>3. Live' => active /\ s # "done" /\ avail >= 0
    BY <1>0, <1>5, <2>1 DEF Live, Placed
  <2>4. status' = "error" => failures' > 0
    BY <1>0, <2>1
  <2>5. Live' => status' # "done"
    BY <1>5, <2>1, <2>3
  <2> QED  BY <1>0, <1>5, <2>1, <2>2, <2>3, <2>4, <2>5 DEF Placed, inVars
<1>6. CASE PartitionNeedsMore \/ MbNeedsMore \/ EndRowDry
  <2>1. \E s \in {"more", "done", "error"} : Return(s)
    BY <1>6 DEF PartitionNeedsMore, MbNeedsMore, EndRowDry
  <2>2. InCall /\ UNCHANGED inVars /\ (call = "mb" => at[1] < H)
    BY <1>0, <1>6 DEF InCall, PartitionNeedsMore, MbNeedsMore, EndRowDry, Placed
  <2>3. mbY' = H => mbX' = 0
    <3>1. CASE PartitionNeedsMore
      BY <3>1 DEF PartitionNeedsMore
    <3>2. CASE MbNeedsMore
      <4>1. mbY' = at[1] /\ at[1] < H
        BY <2>2, <3>2 DEF MbNeedsMore
      <4> QED  BY <1>0, <4>1
    <3>3. CASE EndRowDry
      BY <1>0, <3>3 DEF EndRowDry, savedVars, Placed
    <3> QED  BY <1>6, <3>1, <3>2, <3>3
  <2>4. UNCHANGED strength
    BY <1>6 DEF PartitionNeedsMore, MbNeedsMore, EndRowDry, FinishRow, pixelVars
  <2> QED  BY <1>5, <2>1, <2>2, <2>3, <2>4
<1>7. CASE EndFrame
  <2>1. \E s \in {"more", "done", "error"} : Return(s)
    BY <1>7 DEF EndFrame
  <2>2. /\ InCall /\ UNCHANGED <<inVars, strength, mbX>> /\ call = "row" /\ at[1] = H
    BY <1>7 DEF InCall, EndFrame, pixelVars
  <2>3. mbX = 0
    BY <1>0, <2>2, AtRow DEF Placed
  <2> QED  BY <1>5, <2>1, <2>2, <2>3
<1>8. CASE StartRow
  <2>1. /\ InCall /\ InCall' /\ call' = "mb" /\ at' = <<at[1], mbX>> /\ at[1] < H
        /\ UNCHANGED <<inVars, status, failures, mbY, mbX, active, strength, past>>
    BY <1>8 DEF StartRow, InCall, savedVars, callVars, pixelVars
  <2>2. Y' = at[1] /\ at'[1] < H /\ Live /\ Live'
    BY <2>1 DEF Y, Live
  <2> QED  BY <1>0, <2>1, <2>2 DEF Placed, inVars
<1>9. CASE Macroblock
  <2>1. /\ call = "mb" /\ call' = "mb" /\ InCall /\ InCall' /\ at' = <<at[1], at[2] + 1>>
        /\ UNCHANGED <<inVars, status, failures, mbY, mbX, active, past>>
    BY <1>9 DEF Macroblock, InCall, savedVars, callVars
  <2>2. Y' = at[1] /\ at'[1] < H /\ Live /\ Live'
    BY <1>0, <2>1 DEF Y, Live, Placed
  <2>3. strength' \in [0..1 -> [0..W - 1 -> Mb \cup {None}]]
    BY <1>9, InRow, ReconstructTyped DEF Macroblock
  <2> QED  BY <1>0, <2>1, <2>2, <2>3 DEF Placed, inVars
<1>10. CASE EndRow
  <2>1. /\ InCall /\ InCall' /\ call' = "row" /\ at' = <<at[1] + 1, 0>> /\ mbX' = 0
        /\ UNCHANGED <<inVars, status, failures, mbY, active, past, strength>>
    BY <1>10 DEF EndRow, InCall, callVars, FinishRow
  <2>2. X' = 0 /\ at'[2] = mbX' /\ Live /\ Live'
    BY <2>1 DEF X, Live
  <2> QED  BY <1>0, <2>1, <2>2 DEF Placed, inVars
<1>11. CASE UNCHANGED vars
  <2>1. /\ UNCHANGED <<inVars, status, failures, mbY, mbX, at, call, active, past, strength>>
    BY <1>11 DEF vars, loopVars, savedVars, pixelVars, callVars
  <2>2. Y' = Y /\ X' = X /\ (Live' <=> Live) /\ (InCall' <=> InCall)
    BY <2>1 DEF Y, X, Live, InCall
  <2> QED  BY <1>0, <2>1, <2>2 DEF Placed, inVars
<1> QED  BY <1>1, <1>2, <1>3, <1>4, <1>6, <1>7, <1>8, <1>9, <1>10, <1>11
         DEF Next, DecodeRows, Stop

\* A call leaves its frame going, past its chunk, or done.
LEMMA FreshStep ==
    ASSUME RowInv, [Next]_vars
    PROVE  Fresh'
<1>1. CASE Arrive \/ HeaderNeedsMore \/ UNCHANGED vars
  <2>1. /\ UNCHANGED <<pixelVars, call, active, past, failures>>
        /\ status # "done" \/ status' = status
    BY <1>1 DEF Arrive, HeaderNeedsMore, vars, loopVars, callVars
  <2>2. Live' <=> Live
    BY <2>1 DEF Live, InCall
  <2> QED  BY <2>1, <2>2 DEF RowInv, Fresh, pixelVars
<1>2. CASE FrameInit \/ Extend \/ StartRow \/ Macroblock \/ EndRow
  <2>1. call' \in {"row", "mb"}
    BY <1>2 DEF FrameInit, Extend, Call, StartRow, Macroblock, EndRow
  <2> QED  BY <2>1 DEF Fresh, Live, InCall
<1>3. CASE Reopen
  BY <1>3 DEF Reopen, Fresh
<1>4. CASE PartitionNeedsMore \/ MbNeedsMore \/ EndRowDry \/ EndFrame
  <2>1. InCall /\ \E s : Return(s)
    BY <1>4 DEF PartitionNeedsMore, MbNeedsMore, EndRowDry, EndFrame, InCall
  <2>2. ~active => past
    BY <2>1 DEF RowInv, Placed
  <2>3. PICK s : Return(s)
    BY <2>1
  <2>4. ~Live' /\ ~past' => status' = "done"
    BY <2>2, <2>3 DEF Return, Live
  <2> QED  BY <2>4 DEF Fresh
<1> QED  BY <1>1, <1>2, <1>3, <1>4 DEF Next, DecodeRows, Stop

-----------------------------------------------------------------------------
(* The partitions.                                                         *)

Quiet ==
    \/ Arrive \/ HeaderNeedsMore \/ Extend \/ PartitionNeedsMore \/ StartRow
    \/ MbNeedsMore \/ EndFrame \/ UNCHANGED vars

\* These leave the frame where it is.
LEMMA Stays ==
    ASSUME RowInv, Quiet
    PROVE  Y' = Y /\ X' = X
<1>1. CASE Arrive \/ HeaderNeedsMore \/ UNCHANGED vars
  <2>1. UNCHANGED <<call, at, mbY, mbX>>
    BY <1>1 DEF Arrive, HeaderNeedsMore, vars, loopVars, savedVars
  <2> QED  BY <2>1 DEF Y, X, InCall
<1>2. CASE Extend
  <2>1. call = "idle" /\ call' = "row" /\ at' = <<mbY, mbX>>
    BY <1>2 DEF Extend, Call
  <2> QED  BY <2>1 DEF Y, X, InCall
<1>3. CASE PartitionNeedsMore
  <2>1. call = "row" /\ call' = "idle" /\ mbX' = 0 /\ mbY' = at[1] /\ PartOf(at[1]) \notin ready
        /\ at[1] < H
    BY <1>3 DEF PartitionNeedsMore, Return
  <2>2. Y = at[1] /\ Live /\ at[1] \in 0..H - 1
    BY <2>1, AtRow, Typed
  <2>3. ~(X > 0)
    BY <2>1, <2>2 DEF RowInv, Windows
  <2>4. X = 0
    BY <2>3, Typed
  <2> QED  BY <2>1, <2>2, <2>4 DEF Y, X, InCall
<1>4. CASE StartRow
  <2>1. call = "row" /\ call' = "mb" /\ at' = <<at[1], mbX>>
    BY <1>4 DEF StartRow
  <2> QED  BY <2>1, AtRow DEF Y, X, InCall
<1>5. CASE MbNeedsMore
  <2>1. call = "mb" /\ call' = "idle" /\ mbY' = at[1] /\ mbX' = at[2]
    BY <1>5 DEF MbNeedsMore, Return
  <2> QED  BY <2>1 DEF Y, X, InCall
<1>6. CASE EndFrame
  <2>1. call = "row" /\ call' = "idle" /\ mbY' = at[1] /\ mbX' = mbX
    BY <1>6 DEF EndFrame, Return
  <2> QED  BY <2>1, AtRow DEF Y, X, InCall
<1> QED  BY <1>1, <1>2, <1>3, <1>4, <1>5, <1>6 DEF Quiet

\* What has arrived opens what it opened before.
LEMMA OpensMore ==
    ASSUME file \in Files, file' = file, avail \in Int, avail' \in Int, avail <= avail',
           NEW p \in InUse
    PROVE  /\ Opens(p) => Opens(p)'
           /\ Have(p) \in Int /\ Have(p)' \in Int /\ Have(p) <= Have(p)'
<1>1. Before[p] \in Nat /\ file.size[p] \in Nat /\ InitBytes \in Nat /\ Before' = Before
  BY BeforeTyped, FileFacts, SizeAssumption, SameFile
<1> QED  BY <1>1 DEF Opens, Have

\* What a call opens.
LEMMA Opening ==
    ASSUME file \in Files, coder \in [Parts -> Coder], NEW rdy, NEW clm,
           rdy \subseteq {p \in InUse : Opens(p)}, clm \subseteq rdy, OpenPartitions(rdy, clm)
    PROVE  /\ ready' = {p \in InUse : Opens(p)}
           /\ clamped' = {p \in ready' : Window(p) < file.size[p]}
           /\ \A p \in ready' : /\ coder'[p].end = Window(p)
                                /\ p \in rdy => /\ coder'[p].read = coder[p].read
                                                /\ coder'[p].over = coder[p].over
                                /\ p \notin rdy => coder'[p].read = 0 /\ ~coder'[p].over
           /\ \A p \in Parts \ ready' : coder'[p] = coder[p]
<1> DEFINE opened == {p \in InUse : Opens(p)}
<1>1. InUse \subseteq Parts
  BY FileFacts
<1>2. /\ ready' = rdy \cup opened
      /\ clamped' = (clm \ opened) \cup {p \in opened : Window(p) < file.size[p]}
      /\ coder' = [p \in Parts |->
                    IF p \notin opened THEN coder[p]
                    ELSE IF p \in rdy THEN [coder[p] EXCEPT !.end = Window(p)]
                    ELSE [Unopened EXCEPT !.end = Window(p)]]
  BY DEF OpenPartitions
<1>3. opened \subseteq Parts
  BY <1>1
<1>4. ready' = opened
  BY <1>2
<1>5. clamped' = {p \in opened : Window(p) < file.size[p]}
  BY <1>2
<1> HIDE DEF opened
<1>6. ASSUME NEW p \in opened
      PROVE  /\ coder'[p].end = Window(p)
             /\ p \in rdy => /\ coder'[p].read = coder[p].read
                             /\ coder'[p].over = coder[p].over
             /\ p \notin rdy => coder'[p].read = 0 /\ ~coder'[p].over
  <2>1. p \in Parts
    BY <1>3
  <2>2. CASE p \in rdy
    <3>1. coder'[p] = [coder[p] EXCEPT !.end = Window(p)] /\ coder[p] \in Coder
      BY <1>2, <2>1, <2>2
    <3> QED  BY <2>2, <3>1 DEF Coder
  <2>3. CASE p \notin rdy
    <3>1. coder'[p] = [Unopened EXCEPT !.end = Window(p)]
      BY <1>2, <2>1, <2>3
    <3> QED  BY <2>3, <3>1 DEF Unopened
  <2> QED  BY <2>2, <2>3
<1>7. \A p \in Parts \ opened : coder'[p] = coder[p]
  BY <1>2
<1> QED  BY <1>4, <1>5, <1>6, <1>7 DEF opened

\* A row's partition stays open, and its window stays within the data.
LEMMA WindowsStep ==
    ASSUME RowInv, [Next]_vars
    PROVE  Windows'
<1>0. /\ Windows /\ Placed /\ file \in Files /\ avail \in Int /\ coder \in [Parts -> Coder]
      /\ W \in Nat \ {0} /\ H \in Nat \ {0}
      /\ at[1] \in 0..H /\ at[2] \in 0..W /\ mbX \in 0..W - 1 /\ mbY \in 0..H
      /\ (file' = file => InUse' = InUse /\ \A r : PartOf(r)' = PartOf(r))
  BY Typed, SameFile DEF RowInv
<1>00. UNCHANGED <<file, avail>> =>
          \A p : Window(p)' = Window(p) /\ Opens(p)' = Opens(p)
  BY SameWindows
<1>1. CASE Arrive \/ HeaderNeedsMore
  <2>1. /\ UNCHANGED <<partVars, call, active, savedVars, file>> /\ ~InCall /\ ~InCall'
        /\ avail' \in Int /\ avail <= avail'
    BY <1>0, <1>1, Typed DEF Arrive, HeaderNeedsMore, InCall, loopVars, callVars, inVars
  <2>2. Y' = Y /\ X' = X /\ (Live' <=> Live)
    BY <1>1, <2>1, Stays DEF Quiet, Live
  <2>3. \A p \in InUse : Opens(p) => Opens(p)'
    BY <1>0, <2>1, OpensMore
  <2>4. call' # "mb"
    BY <2>1 DEF InCall
  <2> QED  BY <1>0, <2>1, <2>2, <2>3, <2>4 DEF Windows, partVars, savedVars
<1>2. CASE FrameInit
  <2>1. /\ UNCHANGED <<file, avail>> /\ OpenPartitions({}, {}) /\ mbX' = 0 /\ mbY' = 0
        /\ at' = <<0, 0>> /\ call' = "row"
    BY <1>2 DEF FrameInit, Call, inVars
  <2>2. /\ ready' = {p \in InUse : Opens(p)}
        /\ clamped' = {p \in ready' : Window(p) < file.size[p]}
        /\ \A p \in ready' : coder'[p].end = Window(p)
    BY <1>0, <2>1, Opening
  <2>3. Y' = 0 /\ X' = 0
    BY <2>1 DEF Y, X, InCall
  <2>4. \A r \in 0..H - 1 : ~(r < 0) /\ ~(0 > 0)
    BY <1>0
  <2> QED  BY <1>0, <1>00, <2>1, <2>2, <2>3, <2>4 DEF Windows
<1>3. CASE Extend
  <2>1. /\ UNCHANGED <<file, avail>> /\ OpenPartitions(ready, clamped) /\ UNCHANGED <<mbX, mbY>>
        /\ call' = "row" /\ Live
    BY <1>3 DEF Extend, Call, inVars, savedVars, Live
  <2>2. clamped \subseteq ready /\ ready \subseteq {p \in InUse : Opens(p)}
    BY <1>0, <2>1 DEF Windows
  <2>3. /\ ready' = {p \in InUse : Opens(p)}
        /\ clamped' = {p \in ready' : Window(p) < file.size[p]}
        /\ \A p \in ready' : coder'[p].end = Window(p)
    BY <1>0, <2>1, <2>2, Opening
  <2>4. Y' = Y /\ X' = X
    BY <1>3, Stays DEF Quiet
  <2>5. ready \subseteq ready'
    BY <2>2, <2>3
  <2> QED  BY <1>0, <1>00, <2>1, <2>3, <2>4, <2>5 DEF Windows
<1>4. CASE Reopen
  <2>1. ~Live' /\ ~InCall' /\ call' # "mb"
    BY <1>4 DEF Reopen, Live, InCall, loopVars
  <2> QED  BY <2>1 DEF Windows
<1>5. CASE PartitionNeedsMore \/ MbNeedsMore \/ EndFrame \/ EndRowDry
  <2>1. /\ UNCHANGED <<file, avail, ready, clamped>> /\ InCall /\ Live /\ \E s : Return(s)
    BY <1>5 DEF PartitionNeedsMore, MbNeedsMore, EndFrame, EndRowDry, InCall, Live, inVars, partVars
  <2>2. call' = "idle"
    BY <2>1 DEF Return
  <2>3. ~InCall' /\ Y' = mbY' /\ X' = mbX' /\ call' # "mb"
    BY <2>2 DEF InCall, Y, X
  <2>4. \A r \in 0..H - 1 : r < mbY' \/ (r = mbY' /\ mbX' > 0) => PartOf(r) \in ready
    <3>1. CASE PartitionNeedsMore \/ MbNeedsMore \/ EndFrame
      <4>1. mbY' = Y /\ mbX' = X
        BY <2>3, <3>1, Stays DEF Quiet
      <4> QED  BY <1>0, <2>1, <4>1 DEF Windows
    <3>2. CASE EndRowDry
      BY <1>0, <2>1, <3>2 DEF EndRowDry, savedVars, Windows
    <3> QED  BY <1>5, <3>1, <3>2
  <2> QED  BY <1>0, <1>00, <2>1, <2>3, <2>4 DEF Windows
<1>6. CASE StartRow
  <2>1. /\ UNCHANGED <<file, avail, ready, clamped, coder, mbX, mbY>> /\ InCall /\ Live
        /\ at'[1] = at[1] /\ PartOf(at[1]) \in ready /\ check' = (PartOf(at[1]) \in clamped)
    BY <1>6 DEF StartRow, inVars, partVars, savedVars, InCall, Live
  <2>2. Y' = Y /\ X' = X
    BY <1>6, Stays DEF Quiet
  <2> QED  BY <1>0, <1>00, <2>1, <2>2 DEF Windows
<1>7. CASE Macroblock
  <2>1. /\ UNCHANGED <<file, avail, ready, clamped, mbX, mbY, check>> /\ InCall /\ Live
        /\ call = "mb" /\ call' = "mb" /\ at' = <<at[1], at[2] + 1>> /\ Parse(at)
    BY <1>7 DEF Macroblock, inVars, partVars, savedVars, InCall, Live
  <2>2. Y = at[1] /\ Y' = at[1] /\ PartOf(at[1]) \in ready /\ at'[1] = at[1]
    BY <2>1, InRow DEF Y, InCall
  <2>3. \A p \in Parts : coder'[p].end = coder[p].end
    <3> DEFINE q == PartOf(at[1])
               new == [read |-> coder[q].read + 1, over |-> Overruns(at), end |-> coder[q].end]
    <3>1. coder' = [coder EXCEPT ![q] = new] /\ new.end = coder[q].end
      BY <2>1 DEF Parse
    <3> HIDE DEF q, new
    <3> QED  BY <1>0, <3>1
  <2>4. ready \subseteq Parts
    BY Typed
  <2>5. \A r \in 0..H - 1 : r < at[1] \/ r = at[1] => PartOf(r) \in ready
    BY <1>0, <2>1, <2>2 DEF Windows
  <2> QED  BY <1>0, <1>00, <2>1, <2>2, <2>3, <2>4, <2>5 DEF Windows
<1>8. CASE EndRow
  <2>1. /\ UNCHANGED <<file, avail, ready, clamped, coder, mbY>> /\ InCall /\ Live
        /\ call = "mb" /\ call' = "row" /\ at' = <<at[1] + 1, 0>> /\ mbX' = 0
    BY <1>8 DEF EndRow, inVars, partVars, contextVars, InCall, Live
  <2>2. Y = at[1] /\ Y' = at[1] + 1 /\ X' = 0 /\ PartOf(at[1]) \in ready
    BY <2>1, InRow DEF Y, X, InCall
  <2>3. \A r \in 0..H - 1 : r < at[1] + 1 => PartOf(r) \in ready
    <3>1. \A r \in 0..H - 1 : r < at[1] + 1 => r < at[1] \/ r = at[1]
      BY <1>0
    <3> QED  BY <1>0, <2>1, <2>2, <3>1 DEF Windows
  <2>4. ~(0 > 0)
    OBVIOUS
  <2>5. \A r \in 0..H - 1 : r < mbY' \/ (r = mbY' /\ mbX' > 0) => PartOf(r) \in ready
    BY <1>0, <2>1, <2>4 DEF Windows
  <2> QED  BY <1>0, <1>00, <2>1, <2>2, <2>3, <2>4, <2>5 DEF Windows
<1>9. CASE UNCHANGED vars
  <2>1. UNCHANGED <<file, avail, ready, clamped, coder, mbX, mbY, check, at, call, active>>
    BY <1>9 DEF vars, inVars, partVars, contextVars, savedVars, loopVars, callVars
  <2>2. Y' = Y /\ X' = X /\ (Live' <=> Live) /\ (InCall' <=> InCall)
    BY <2>1 DEF Y, X, Live, InCall
  <2> QED  BY <1>0, <1>00, <2>1, <2>2 DEF Windows
<1> QED  BY <1>1, <1>2, <1>3, <1>4, <1>5, <1>6, <1>7, <1>8, <1>9 DEF Next, DecodeRows, Stop

-----------------------------------------------------------------------------
(* The coders and the contexts.                                            *)

LEMMA RowSum ==
    ASSUME NEW y \in Nat, NEW w \in Nat
    PROVE  y * w + w = (y + 1) * w + 0 /\ w * y + w = w * (y + 1)
  OBVIOUS

\* A frame that has failed goes on having failed.
LEMMA Failing ==
    ASSUME RowInv, [Next]_vars, failures' = 0, ~(Reopen)
    PROVE  failures = 0
<1>1. failures \in Nat
  BY Typed
<1>2. CASE \E s : Return(s)
  BY <1>1, <1>2 DEF Return
<1>3. CASE UNCHANGED failures
  BY <1>3
<1> QED
  BY <1>2, <1>3 DEF Next, DecodeRows, Stop, vars, callVars, Arrive, HeaderNeedsMore, FrameInit,
     Extend, PartitionNeedsMore, StartRow, MbNeedsMore, Macroblock, EndRowDry, EndRow, EndFrame

\* A partition not open has had no row yet.
LEMMA Unread ==
    ASSUME RowInv, Live, NEW r \in Y..Y + file.partitions - 1, PartOf(r) \notin ready
    PROVE  r \div file.partitions = 0 /\ (r = Y => X = 0)
<1> DEFINE n == file.partitions
<1>1. n \in Nat \ {0} /\ Y \in 0..H /\ X \in 0..W /\ H \in Nat \ {0} /\ W \in Nat
  BY Typed, FileFacts
<1>2. r \in Nat /\ r < Y + n
  BY <1>1
<1>3. \A k \in 0..H - 1 : k < Y \/ (k = Y /\ X > 0) => PartOf(k) \in ready
  BY DEF RowInv, Windows
<1>4. r < n
  <2> SUFFICES ASSUME ~(r < n) PROVE FALSE
    OBVIOUS
  <2> DEFINE k == r - n
  <2>1. k \in Nat /\ k < Y /\ k \in 0..H - 1 /\ k + n = r
    BY <1>1, <1>2
  <2> HIDE DEF k
  <2>2. PartOf(k) = PartOf(r)
    BY <1>1, <2>1, NextOfPartition DEF PartOf
  <2> QED  BY <1>3, <2>1, <2>2
<1>5. r = Y => X = 0
  <2> SUFFICES ASSUME r = Y, X # 0 PROVE FALSE
    OBVIOUS
  <2>1. X > 0 /\ Y # H
    BY <1>1 DEF RowInv, Placed
  <2>2. Y \in 0..H - 1
    BY <1>1, <2>1
  <2> QED  BY <1>3, <2>1, <2>2
<1> QED  BY <1>1, <1>2, <1>4, <1>5, FirstOfPartition

\* A macroblock parsed moves the coders and the contexts on by one.
LEMMA InStepMacroblock ==
    ASSUME RowInv, Macroblock, InStep
    PROVE  InStep'
<1> DEFINE n == file.partitions
           p == PartOf(at[1])
<1>1. /\ call = "mb" /\ call' = "mb" /\ at[2] < W /\ at' = <<at[1], at[2] + 1>>
      /\ file' = file /\ ready' = ready /\ Parse(at)
  BY DEF Macroblock, inVars, partVars
<1>2. /\ Y = at[1] /\ X = at[2] /\ at \in Mb /\ at = <<Y, X>> /\ p \in ready /\ ready \subseteq InUse
      /\ ready \subseteq Parts
  BY <1>1, InRow, Typed
<1>3. Y' = Y /\ X' = X + 1
  BY <1>1, <1>2 DEF Y, X, InCall
<1>4. /\ n \in Nat \ {0} /\ Y \in 0..H /\ X \in 0..W /\ W \in Nat \ {0} /\ H \in Nat
      /\ modes.read \in Nat /\ coder \in [Parts -> Coder] /\ X < W
  BY <1>1, <1>2, Typed, FileFacts
<1>5. modes'.read = modes.read + 1
  BY <1>1 DEF Parse
<1>6. modes'.read = Y' * W + X'
  <2>1. Y * W \in Nat /\ modes.read = Y * W + X
    BY <1>4 DEF InStep
  <2> QED  BY <1>3, <1>4, <1>5, <2>1
<1>7. ASSUME NEW q \in ready, NEW r \in Y..Y + n - 1, PartOf(r) = q
      PROVE  coder'[q].read = W * (r \div n) + (IF r = Y THEN X + 1 ELSE 0)
  <2>1. coder[q].read = W * (r \div n) + (IF r = Y THEN X ELSE 0)
    BY <1>7 DEF InStep
  <2>2. CASE q = p
    <3>1. r = Y
      <4>1. Y \in Nat /\ r \in Nat /\ Y <= r /\ r < Y + n /\ r % n = Y % n
        BY <1>2, <1>4, <1>7, <2>2 DEF PartOf
      <4> QED  BY <1>4, <4>1, OneOfPartition
    <3>2. coder'[q].read = coder[q].read + 1
      <4> DEFINE new == [read |-> coder[p].read + 1, over |-> Overruns(at), end |-> coder[p].end]
      <4>1. coder' = [coder EXCEPT ![p] = new] /\ new.read = coder[p].read + 1
        BY <1>1 DEF Parse
      <4> HIDE DEF new, p
      <4> QED  BY <1>2, <1>4, <2>2, <4>1
    <3>3. W * (r \div n) \in Nat
      <4>1. r \div n \in Nat
        BY <1>4, <3>1, Divided
      <4> QED  BY <1>4, <4>1
    <3> QED  BY <1>4, <2>1, <3>1, <3>2, <3>3
  <2>3. CASE q # p
    <3>1. r # Y
      BY <1>2, <1>7, <2>3
    <3>2. coder'[q] = coder[q]
      <4> DEFINE new == [read |-> coder[p].read + 1, over |-> Overruns(at), end |-> coder[p].end]
      <4>1. coder' = [coder EXCEPT ![p] = new]
        BY <1>1 DEF Parse
      <4> HIDE DEF new, p
      <4> QED  BY <1>2, <1>4, <2>3, <4>1
    <3> QED  BY <2>1, <3>1, <3>2
  <2> QED  BY <2>2, <2>3
<1>8. ASSUME NEW c \in 0..W - 1
      PROVE  LET above == IF c < X + 1 THEN <<Y, c>> ELSE IF Y = 0 THEN None ELSE <<Y - 1, c>>
             IN  modeTop'[c] = above /\ nnzTop'[c] = above
  <2>1. /\ modeTop' = [modeTop EXCEPT ![at[2]] = at]
        /\ nnzTop' = [nnzTop EXCEPT ![at[2]] = at]
    BY <1>1 DEF Parse
  <2>2. DOMAIN modeTop = 0..W - 1 /\ DOMAIN nnzTop = 0..W - 1
    BY DEF RowInv, TypeOK
  <2>3. CASE c = X
    <3>1. modeTop'[c] = <<Y, c>> /\ nnzTop'[c] = <<Y, c>> /\ c < X + 1
      BY <1>2, <1>4, <2>1, <2>2, <2>3
    <3> QED  BY <3>1
  <2>4. CASE c # X
    <3>1. modeTop'[c] = modeTop[c] /\ nnzTop'[c] = nnzTop[c] /\ (c < X + 1 <=> c < X)
      BY <1>2, <1>4, <2>1, <2>2, <2>4
    <3> QED  BY <3>1 DEF InStep
  <2> QED  BY <2>3, <2>4
<1>9. /\ X + 1 # 0 /\ (X + 1) - 1 = X /\ modeLeft' = <<Y, X>> /\ nnzLeft' = <<Y, X>>
  BY <1>1, <1>2, <1>4 DEF Parse
<1>10. ASSUME NEW m \in Mb
       PROVE  parsed'[m] # None <=> Passed(m)'
  <2>1. \E new : parsed' = [parsed EXCEPT ![at] = new] /\ new # None
    BY <1>1, RecordNotNone DEF Parse
  <2>2. Passed(m)' <=> Passed(m) \/ m = at
    <3>1. m = <<m[1], m[2]>> /\ m[1] \in Nat /\ m[2] \in Nat
      BY <1>4 DEF Mb
    <3>2. m[2] < X + 1 <=> m[2] < X \/ m[2] = X
      BY <1>4, <3>1
    <3> QED  BY <1>2, <1>3, <3>1, <3>2 DEF Passed
  <2>3. parsed[m] # None <=> Passed(m)
    BY DEF InStep
  <2>4. DOMAIN parsed = Mb
    BY DEF RowInv
  <2>5. ~Passed(at)
    BY <1>2, <1>4 DEF Passed
  <2> QED  BY <2>1, <2>2, <2>3, <2>4, <1>2
<1>11. \A r : PartOf(r)' = PartOf(r)
  BY <1>1, SameFile
<1> QED  BY <1>1, <1>3, <1>6, <1>7, <1>8, <1>9, <1>10, <1>11 DEF InStep

\* A macroblock parsed is one of the frame's.
LEMMA RecordedStep ==
    ASSUME RowInv, [Next]_vars
    PROVE  DOMAIN parsed' = Mb
<1>1. DOMAIN parsed = Mb
  BY DEF RowInv
<1>2. CASE Reopen
  BY <1>2 DEF Reopen
<1>3. CASE Macroblock
  BY <1>1, <1>3 DEF Macroblock, Parse
<1>4. CASE EndRowDry \/ EndRow
  BY <1>1, <1>4 DEF EndRowDry, EndRow, FinishRow
<1>5. CASE UNCHANGED pixelVars
  BY <1>1, <1>5 DEF pixelVars
<1> QED
  BY <1>2, <1>3, <1>4, <1>5 DEF Next, DecodeRows, Stop, vars, Arrive, HeaderNeedsMore, FrameInit,
     Extend, PartitionNeedsMore, StartRow, MbNeedsMore, EndFrame

\* The end of a row passes no macroblock.
LEMMA RowPassed ==
    ASSUME RowInv, EndRow
    PROVE  \A m \in Mb : Passed(m)' <=> Passed(m)
<1> SUFFICES ASSUME NEW m \in Mb PROVE Passed(m)' <=> Passed(m)
  OBVIOUS
<1>1. call = "mb" /\ call' = "row" /\ at[2] = W /\ at' = <<at[1] + 1, 0>>
  BY DEF EndRow
<1>2. Y = at[1] /\ X = W /\ Y \in Nat
  BY <1>1, InRow, Typed
<1>3. Y' = Y + 1 /\ X' = 0
  BY <1>1, <1>2 DEF Y, X, InCall
<1>4. m[1] \in Nat /\ m[2] \in Nat /\ m[2] < W
  <2>1. W \in Nat
    BY Typed
  <2> QED  BY <2>1, <1>1 DEF Mb
<1> QED  BY <1>2, <1>3, <1>4 DEF Passed

\* The next row of a partition is read where its last one ended.
LEMMA InStepEndRow ==
    ASSUME RowInv, EndRow, InStep
    PROVE  InStep'
<1> DEFINE n == file.partitions
<1>1. /\ call = "mb" /\ call' = "row" /\ at[2] = W /\ at' = <<at[1] + 1, 0>>
      /\ UNCHANGED <<file, ready, coder, modes, modeTop, nnzTop, parsed>>
  BY DEF EndRow, inVars, partVars, contextVars, FinishRow
<1>2. Y = at[1] /\ X = W /\ ready \subseteq InUse
  BY <1>1, InRow
<1>3. Y' = Y + 1 /\ X' = 0
  BY <1>1, <1>2 DEF Y, X, InCall
<1>4. /\ n \in Nat \ {0} /\ Y \in Nat /\ W \in Nat \ {0} /\ H \in Nat
      /\ file \in Files
  BY <1>2, Typed, FileFacts
<1>5. modes.read = (Y + 1) * W + 0
  <2>1. modes.read = Y * W + W
    BY <1>2 DEF InStep
  <2> QED  BY <1>4, <2>1, RowSum
<1>6. ASSUME NEW q \in ready, NEW r \in Y + 1..(Y + 1) + n - 1, PartOf(r) = q
      PROVE  coder[q].read = W * (r \div n) + (IF r = Y + 1 THEN 0 ELSE 0)
  <2>1. CASE r <= Y + n - 1
    <3>1. r \in Y..Y + n - 1 /\ r # Y
      BY <1>4, <2>1
    <3> QED  BY <1>6, <3>1 DEF InStep
  <2>2. CASE r = Y + n
    <3>1. PartOf(Y) = q /\ r \div n = (Y \div n) + 1 /\ Y \div n \in Nat
      BY <1>4, <1>6, <2>2, NextOfPartition, Divided DEF PartOf
    <3>2. Y \in Y..Y + n - 1
      BY <1>4
    <3>3. coder[q].read = W * (Y \div n) + W
      BY <1>2, <1>6, <3>1, <3>2 DEF InStep
    <3>4. W * (Y \div n) + W = W * (r \div n)
      <4> DEFINE k == Y \div n
      <4>1. k \in Nat /\ r \div n = k + 1
        BY <3>1
      <4> HIDE DEF k
      <4>2. W * k + W = W * (r \div n)
        BY <1>4, <4>1, RowSum
      <4> QED  BY <4>2 DEF k
    <3>5. W * (r \div n) \in Nat
      BY <1>4, <3>1
    <3> QED  BY <3>3, <3>4, <3>5
  <2>3. r <= Y + n - 1 \/ r = Y + n
    BY <1>4
  <2> QED  BY <2>1, <2>2, <2>3
<1>7. \A c \in 0..W - 1 :
          LET above == IF c < 0 THEN <<Y + 1, c>> ELSE IF Y + 1 = 0 THEN None ELSE <<(Y + 1) - 1, c>>
          IN  modeTop[c] = above /\ nnzTop[c] = above
  <2> SUFFICES ASSUME NEW c \in 0..W - 1 PROVE modeTop[c] = <<Y, c>> /\ nnzTop[c] = <<Y, c>>
    BY <1>4
  <2>1. c < X
    BY <1>2, <1>4
  <2> QED  BY <2>1 DEF InStep
<1>8. \A m \in Mb : Passed(m)' <=> Passed(m)
  BY RowPassed
<1>9. \A r : PartOf(r)' = PartOf(r)
  BY <1>1, SameFile
<1>10. ~(X' > 0 \/ call' = "mb")
  BY <1>1, <1>3
<1> QED  BY <1>1, <1>3, <1>5, <1>6, <1>7, <1>8, <1>9, <1>10 DEF InStep

\* frame_init() starts every coder it opens, and the contexts.
LEMMA InStepFrameInit ==
    ASSUME RowInv, FrameInit
    PROVE  InStep'
<1> DEFINE n == file.partitions
<1>1. /\ OpenPartitions({}, {}) /\ call' = "row" /\ at' = <<0, 0>>
      /\ UNCHANGED <<file, parsed>>
      /\ modes' = [read |-> 0, over |-> FALSE]
      /\ modeTop' = [x \in 0..W - 1 |-> None] /\ nnzTop' = [x \in 0..W - 1 |-> None]
  BY DEF FrameInit, Call, inVars, pixelVars
<1>2. Y' = 0 /\ X' = 0
  BY <1>1 DEF Y, X, InCall
<1>3. /\ n \in Nat \ {0} /\ W \in Nat \ {0} /\ H \in Nat /\ file \in Files
      /\ coder \in [Parts -> Coder]
  BY Typed, FileFacts
<1>4. \A p \in ready' : coder'[p].read = 0
  BY <1>1, <1>3, Opening
<1>5. ASSUME NEW r \in 0..0 + n - 1 PROVE W * (r \div n) = 0
  <2>1. r \in Nat /\ r < n
    BY <1>3
  <2>2. r \div n = 0
    BY <1>3, <2>1, FirstOfPartition
  <2> QED  BY <1>3, <2>2
<1>6. \A m \in Mb : parsed[m] = None
  BY FrameInitFresh
<1>7. \A m \in Mb : ~Passed(m)'
  <2> SUFFICES ASSUME NEW m \in Mb PROVE ~Passed(m)'
    OBVIOUS
  <2>1. m[1] \in Nat /\ m[2] \in Nat
    BY <1>3 DEF Mb
  <2> QED  BY <1>2, <2>1 DEF Passed
<1>8. \A c \in 0..W - 1 :
          LET above == IF c < 0 THEN <<0, c>> ELSE IF 0 = 0 THEN None ELSE <<0 - 1, c>>
          IN  modeTop'[c] = above /\ nnzTop'[c] = above
  BY <1>1, <1>3
<1>9. modes'.read = 0 * W + 0
  BY <1>1, <1>3
<1>10. ~(X' > 0 \/ call' = "mb")
  BY <1>1, <1>2
<1>11. ASSUME NEW p \in ready', NEW r \in 0..0 + n - 1
       PROVE  coder'[p].read = W * (r \div n) + (IF r = 0 THEN 0 ELSE 0)
  BY <1>4, <1>5
<1> QED  BY <1>1, <1>2, <1>6, <1>7, <1>8, <1>9, <1>10, <1>11 DEF InStep

\* extend() moves the windows alone; a coder it starts has had no row yet.
LEMMA InStepExtend ==
    ASSUME RowInv, Extend, InStep
    PROVE  InStep'
<1> DEFINE n == file.partitions
<1>1. /\ OpenPartitions(ready, clamped) /\ call' = "row" /\ call = "idle" /\ Live
      /\ UNCHANGED <<file, parsed, modes, modeTop, nnzTop, modeLeft, nnzLeft>>
  BY DEF Extend, Call, inVars, pixelVars, Live
<1>2. Y' = Y /\ X' = X
  BY Stays DEF Quiet
<1>3. /\ n \in Nat \ {0} /\ W \in Nat \ {0} /\ Y \in Nat /\ X \in Nat /\ file \in Files
      /\ coder \in [Parts -> Coder]
  BY Typed, FileFacts
<1>4. clamped \subseteq ready /\ ready \subseteq {p \in InUse : Opens(p)}
  BY <1>1 DEF RowInv, Windows
<1>5. \A p \in ready' : /\ p \in ready => coder'[p].read = coder[p].read
                        /\ p \notin ready => coder'[p].read = 0
  BY <1>1, <1>3, <1>4, Opening
<1>6. ASSUME NEW p \in ready', NEW r \in Y..Y + n - 1, PartOf(r) = p
      PROVE  coder'[p].read = W * (r \div n) + (IF r = Y THEN X ELSE 0)
  <2>1. CASE p \in ready
    BY <1>5, <1>6, <2>1 DEF InStep
  <2>2. CASE p \notin ready
    <3>1. r \div n = 0 /\ (r = Y => X = 0)
      BY <1>1, <1>6, <2>2, Unread
    <3>2. W * 0 + 0 = 0
      BY <1>3
    <3> QED  BY <1>3, <1>5, <2>2, <3>1, <3>2
  <2> QED  BY <2>1, <2>2
<1>7. \A m : Passed(m)' <=> Passed(m)
  BY <1>2 DEF Passed
<1>8. \A r : PartOf(r)' = PartOf(r)
  BY <1>1, SameFile
<1> QED  BY <1>1, <1>2, <1>6, <1>7, <1>8 DEF InStep

\* The others leave the coders alone; a row's start resets what is left of it.
LEMMA InStepStays ==
    ASSUME RowInv, Quiet, ~Extend, InStep
    PROVE  InStep'
<1>1. Y' = Y /\ X' = X /\ W \in Nat /\ X \in Nat
  BY Stays, Typed
<1>2. UNCHANGED <<file, ready, modes, coder, modeTop, nnzTop, parsed>>
  BY DEF Quiet, Arrive, HeaderNeedsMore, PartitionNeedsMore, StartRow, MbNeedsMore, EndFrame,
         inVars, partVars, contextVars, pixelVars, vars
<1>3. \A m : Passed(m)' <=> Passed(m)
  BY <1>1 DEF Passed
<1>4. \A r : PartOf(r)' = PartOf(r)
  BY <1>2, SameFile
<1>5. X > 0 \/ call' = "mb" =>
          LET beside == IF X = 0 THEN None ELSE <<Y, X - 1>>
          IN  modeLeft' = beside /\ nnzLeft' = beside
  <2>1. CASE StartRow
    <3>1. X = mbX
      BY <2>1, AtRow DEF StartRow
    <3>2. CASE X = 0
      BY <2>1, <3>1, <3>2 DEF StartRow
    <3>3. CASE X # 0
      <4>1. X > 0 /\ UNCHANGED <<modeLeft, nnzLeft>>
        BY <1>1, <2>1, <3>1, <3>3 DEF StartRow
      <4> QED  BY <4>1 DEF InStep
    <3> QED  BY <3>2, <3>3
  <2>2. CASE ~StartRow
    <3>1. UNCHANGED <<modeLeft, nnzLeft>> /\ (call' = "mb" => call = "mb")
      BY <2>2 DEF Quiet, Arrive, HeaderNeedsMore, PartitionNeedsMore, MbNeedsMore, EndFrame,
         Return, contextVars, loopVars, vars
    <3> QED  BY <3>1 DEF InStep
  <2> QED  BY <2>1, <2>2
<1> QED  BY <1>1, <1>2, <1>3, <1>4, <1>5 DEF InStep

\* Only frame_init() starts a frame.
LEMMA WasLive ==
    ASSUME RowInv, [Next]_vars, Live', ~Reopen, ~FrameInit
    PROVE  Live
<1>1. CASE Arrive \/ HeaderNeedsMore \/ UNCHANGED vars
  <2>1. UNCHANGED <<call, active>>
    BY <1>1 DEF Arrive, HeaderNeedsMore, vars, loopVars, callVars
  <2> QED  BY <2>1 DEF Live, InCall
<1>2. CASE Extend \/ DecodeRows
  BY <1>2 DEF Extend, DecodeRows, PartitionNeedsMore, StartRow, MbNeedsMore, Macroblock,
     EndRowDry, EndRow, EndFrame, Live, InCall
<1> QED  BY <1>1, <1>2 DEF Next, Stop

\* Until a call fails, each leaves the decoder in step.
LEMMA InStepStep ==
    ASSUME RowInv, [Next]_vars, Live', failures' = 0
    PROVE  InStep'
<1>1. CASE Reopen
  BY <1>1 DEF Reopen, Live, InCall, loopVars
<1>2. CASE FrameInit
  BY <1>2, InStepFrameInit
<1>3. ASSUME ~Reopen, ~FrameInit PROVE Live /\ InStep
  <2>1. failures = 0
    BY <1>3, Failing
  <2>2. Live
    BY <1>3, WasLive
  <2> QED  BY <2>1, <2>2 DEF RowInv
<1>4. CASE EndRowDry
  <2>1. Return("error") /\ failures \in Nat
    BY <1>4, Typed DEF EndRowDry
  <2>2. failures' = failures + 1
    BY <2>1 DEF Return
  <2>3. failures' # 0
    BY <2>1, <2>2
  <2> QED  BY <2>3
<1>5. CASE Macroblock
  <2>1. ~Reopen /\ ~FrameInit
    BY <1>5 DEF Macroblock, Reopen, FrameInit
  <2> QED  BY <1>3, <1>5, <2>1, InStepMacroblock
<1>6. CASE EndRow
  <2>1. ~Reopen /\ ~FrameInit
    BY <1>6 DEF EndRow, Reopen, FrameInit
  <2> QED  BY <1>3, <1>6, <2>1, InStepEndRow
<1>7. CASE Quiet /\ ~Reopen /\ ~FrameInit
  <2>1. CASE Extend
    BY <1>3, <1>7, <2>1, InStepExtend
  <2>2. CASE ~Extend
    BY <1>3, <1>7, <2>2, InStepStays
  <2> QED  BY <2>1, <2>2
<1> QED  BY <1>1, <1>2, <1>4, <1>5, <1>6, <1>7 DEF Next, DecodeRows, Stop, Quiet

-----------------------------------------------------------------------------
(* The filter.                                                             *)

\* Two rows share the strengths, by parity.
LEMMA Parity ==
    ASSUME NEW y \in Nat
    PROVE  /\ y % 2 \in 0..1
           /\ y > 0 => (y - 1) % 2 \in 0..1 /\ (y - 1) % 2 # y % 2
  OBVIOUS

\* A macroblock's place, and whether it is the one in hand.
LEMMA Place ==
    ASSUME NEW m \in Mb
    PROVE  /\ m = <<m[1], m[2]>> /\ m[1] \in Nat /\ m[2] \in Nat /\ m[1] < H /\ m[2] < W
           /\ m[1] \in 0..H - 1 /\ m[2] \in 0..W - 1 /\ m # None
<1>1. H \in Nat /\ W \in Nat
  BY SizeAssumption
<1>2. m = <<m[1], m[2]>> /\ m[1] \in 0..H - 1 /\ m[2] \in 0..W - 1
  BY DEF Mb
<1> QED  BY <1>1, <1>2, PairNotNone

\* One more macroblock of the row above is within reach.
LEMMA LumaNext ==
    ASSUME NEW y \in Nat, NEW x \in Nat, NEW a \in Nat, NEW b \in Nat
    PROVE  /\ a + 1 < y \/ (a + 1 = y /\ b + 1 < x + 1)
                <=> (a + 1 < y \/ (a + 1 = y /\ b + 1 < x)) \/ (y > 0 /\ x > 0 /\ a = y - 1 /\ b = x - 1)
           /\ a + 1 < y \/ (a + 1 = y /\ b + 2 < x + 1)
                <=> (a + 1 < y \/ (a + 1 = y /\ b + 2 < x)) \/ (y > 0 /\ x > 1 /\ a = y - 1 /\ b = x - 2)
  OBVIOUS

\* reconstruct_mb() filters one more of the row above, with its own strength.
LEMMA BehindMacroblock ==
    ASSUME RowInv, Macroblock, Behind
    PROVE  Behind'
<1> DEFINE s == IF Deblock THEN [strength EXCEPT ![at[1] % 2][at[2]] = at] ELSE strength
<1>1. /\ call = "mb" /\ call' = "mb" /\ at[2] < W /\ at' = <<at[1], at[2] + 1>>
      /\ UNCHANGED <<file, rowsDone>> /\ Reconstruct(at)
  BY DEF Macroblock, inVars, savedVars
<1>2. Y = at[1] /\ X = at[2] /\ at \in Mb /\ at = <<Y, X>> /\ Y < H
  BY <1>1, InRow, Place
<1>3. Y' = Y /\ X' = X + 1
  BY <1>1, <1>2 DEF Y, X, InCall
<1>4. /\ Y \in Nat /\ X \in Nat /\ W \in Nat \ {0} /\ H \in Nat \ {0} /\ X < W
      /\ strength \in [0..1 -> [0..W - 1 -> Mb \cup {None}]]
      /\ rowsDone \in Nat
  <2>1. W \in Nat \ {0} /\ H \in Nat \ {0} /\ rowsDone \in Nat
    BY Typed, SizeAssumption DEF RowInv
  <2>2. Y \in Nat /\ X \in Nat /\ X < W
    BY ONLY <1>1, <1>2, Place
  <2>3. strength \in [0..1 -> [0..W - 1 -> Mb \cup {None}]]
    BY DEF RowInv, Placed
  <2> QED  BY ONLY <2>1, <2>2, <2>3
<1>5. /\ strength' = s
      /\ luma' = IF Deblock /\ Y > 0 /\ X > 0 THEN FilterAt(luma, {<<Y - 1, X - 1>>}, s) ELSE luma
      /\ chroma' = IF Deblock /\ Y > 0 /\ X > 1 THEN FilterAt(chroma, {<<Y - 1, X - 2>>}, strength)
                   ELSE chroma
  BY <1>1, <1>2 DEF Reconstruct
<1>6. ASSUME Deblock, NEW c \in 0..W - 1
      PROVE  /\ c < X + 1 => s[Y % 2][c] = <<Y, c>>
             /\ Y > 0 => s[(Y - 1) % 2][c] = <<Y - 1, c>>
  <2>1. s = [strength EXCEPT ![Y % 2] = [strength[Y % 2] EXCEPT ![X] = at]]
    BY <1>2, <1>6
  <2>2. Y % 2 \in 0..1 /\ (Y > 0 => (Y - 1) % 2 \in 0..1 /\ (Y - 1) % 2 # Y % 2)
    BY <1>4, Parity
  <2>3. X \in 0..W - 1
    BY <1>4
  <2>4. s[Y % 2] = [strength[Y % 2] EXCEPT ![X] = at] /\ DOMAIN strength[Y % 2] = 0..W - 1
    BY <1>4, <2>1, <2>2
  <2>5. Y > 0 => s[(Y - 1) % 2] = strength[(Y - 1) % 2]
    BY <1>4, <2>1, <2>2
  <2>6. Y > 0 => strength[(Y - 1) % 2][c] = <<Y - 1, c>>
    BY <1>6 DEF Behind
  <2>7. CASE c = X
    BY <1>2, <2>3, <2>4, <2>5, <2>6, <2>7
  <2>8. CASE c # X
    <3>1. s[Y % 2][c] = strength[Y % 2][c] /\ (c < X + 1 => c < X)
      BY <1>4, <2>3, <2>4, <2>8
    <3>2. c < X => strength[Y % 2][c] = <<Y, c>>
      BY <1>6 DEF Behind
    <3> QED  BY <2>5, <2>6, <3>1, <3>2
  <2> QED  BY <2>7, <2>8
<1> HIDE DEF s
<1>7. Deblock' = Deblock
  BY <1>1, SameFile
<1>8. ASSUME NEW m \in Mb
      PROVE  /\ LumaDone(m)' <=> LumaDone(m) \/ (Y > 0 /\ X > 0 /\ m = <<Y - 1, X - 1>>)
             /\ ChromaDone(m)' <=> ChromaDone(m) \/ (Y > 0 /\ X > 1 /\ m = <<Y - 1, X - 2>>)
  <2>1. m = <<m[1], m[2]>> /\ m[1] \in Nat /\ m[2] \in Nat
    BY Place
  <2>2. Y # H /\ Y' # H
    BY <1>2, <1>3, <1>4
  <2>3. \A a, b : m = <<a, b>> <=> m[1] = a /\ m[2] = b
    BY <2>1
  <2>4. /\ LumaDone(m) <=> m[1] + 1 < Y \/ (m[1] + 1 = Y /\ m[2] + 1 < X)
        /\ ChromaDone(m) <=> m[1] + 1 < Y \/ (m[1] + 1 = Y /\ m[2] + 2 < X)
    BY <2>2 DEF LumaDone, ChromaDone
  <2>5. /\ LumaDone(m)' <=> m[1] + 1 < Y \/ (m[1] + 1 = Y /\ m[2] + 1 < X + 1)
        /\ ChromaDone(m)' <=> m[1] + 1 < Y \/ (m[1] + 1 = Y /\ m[2] + 2 < X + 1)
    BY <1>3, <2>2 DEF LumaDone, ChromaDone
  <2>6. /\ m = <<Y - 1, X - 1>> <=> m[1] = Y - 1 /\ m[2] = X - 1
        /\ m = <<Y - 1, X - 2>> <=> m[1] = Y - 1 /\ m[2] = X - 2
    BY <2>3
  <2>7. /\ m[1] + 1 < Y \/ (m[1] + 1 = Y /\ m[2] + 1 < X + 1)
              <=> (m[1] + 1 < Y \/ (m[1] + 1 = Y /\ m[2] + 1 < X))
                   \/ (Y > 0 /\ X > 0 /\ m[1] = Y - 1 /\ m[2] = X - 1)
        /\ m[1] + 1 < Y \/ (m[1] + 1 = Y /\ m[2] + 2 < X + 1)
              <=> (m[1] + 1 < Y \/ (m[1] + 1 = Y /\ m[2] + 2 < X))
                   \/ (Y > 0 /\ X > 1 /\ m[1] = Y - 1 /\ m[2] = X - 2)
    BY <1>4, <2>1, LumaNext
  <2> QED  BY ONLY <2>4, <2>5, <2>6, <2>7
<1>9. ASSUME NEW m \in Mb
      PROVE  luma'[m] = IF Deblock /\ LumaDone(m)' THEN m ELSE None
  <2>1. luma[m] = IF Deblock /\ LumaDone(m) THEN m ELSE None
    BY DEF Behind
  <2>2. CASE Deblock /\ Y > 0 /\ X > 0
    <3>1. luma'[m] = IF m = <<Y - 1, X - 1>> THEN s[m[1] % 2][m[2]] ELSE luma[m]
      BY <1>5, <2>2 DEF FilterAt
    <3>2. s[(Y - 1) % 2][X - 1] = <<Y - 1, X - 1>>
      <4>1. X - 1 \in 0..W - 1
        BY <1>4, <2>2
      <4> QED  BY <1>6, <2>2, <4>1
    <3>3. CASE m = <<Y - 1, X - 1>>
      <4>1. m[1] = Y - 1 /\ m[2] = X - 1
        BY <3>3
      <4>2. luma'[m] = m /\ LumaDone(m)'
        BY <1>8, <2>2, <3>1, <3>2, <3>3, <4>1
      <4> QED  BY <2>2, <4>2
    <3>4. CASE m # <<Y - 1, X - 1>>
      BY <1>8, <2>1, <3>1, <3>4
    <3> QED  BY <3>3, <3>4
  <2>3. CASE ~(Deblock /\ Y > 0 /\ X > 0)
    BY <1>5, <1>8, <2>1, <2>3
  <2> QED  BY <2>2, <2>3
<1>10. ASSUME NEW m \in Mb
       PROVE  chroma'[m] = IF Deblock /\ ChromaDone(m)' THEN m ELSE None
  <2>1. chroma[m] = IF Deblock /\ ChromaDone(m) THEN m ELSE None
    BY DEF Behind
  <2>2. CASE Deblock /\ Y > 0 /\ X > 1
    <3>1. chroma'[m] = IF m = <<Y - 1, X - 2>> THEN strength[m[1] % 2][m[2]] ELSE chroma[m]
      BY <1>5, <2>2 DEF FilterAt
    <3>2. strength[(Y - 1) % 2][X - 2] = <<Y - 1, X - 2>>
      <4>1. X - 2 \in 0..W - 1
        BY <1>4, <2>2
      <4> QED  BY <2>2, <4>1 DEF Behind
    <3>3. CASE m = <<Y - 1, X - 2>>
      <4>1. m[1] = Y - 1 /\ m[2] = X - 2
        BY <3>3
      <4>2. chroma'[m] = m /\ ChromaDone(m)'
        BY <1>8, <2>2, <3>1, <3>2, <3>3, <4>1
      <4> QED  BY <2>2, <4>2
    <3>4. CASE m # <<Y - 1, X - 2>>
      BY <1>8, <2>1, <3>1, <3>4
    <3> QED  BY <3>3, <3>4
  <2>3. CASE ~(Deblock /\ Y > 0 /\ X > 1)
    BY <1>5, <1>8, <2>1, <2>3
  <2> QED  BY <2>2, <2>3
<1>11. rowsDone <= Y /\ (Deblock /\ rowsDone > 0 => rowsDone + 1 <= Y)
  BY DEF Behind
<1> QED  BY <1>1, <1>3, <1>5, <1>6, <1>7, <1>9, <1>10, <1>11 DEF Behind

\* The end of a row leaves one luma and two chroma macroblocks above.
LEMMA LumaRow ==
    ASSUME NEW y \in Nat, NEW w \in Nat \ {0}, NEW a \in Nat, NEW b \in Nat, b < w
    PROVE  /\ a + 1 < y + 1 \/ (a + 1 = y + 1 /\ b + 1 < 0)
                <=> (a + 1 < y \/ (a + 1 = y /\ b + 1 < w)) \/ (y > 0 /\ a = y - 1 /\ b = w - 1)
           /\ a + 1 < y + 1 \/ (a + 1 = y + 1 /\ b + 2 < 0)
                <=> (a + 1 < y \/ (a + 1 = y /\ b + 2 < w)) \/ (y > 0 /\ a = y - 1 /\ b = w - 1)
                     \/ (y > 0 /\ w > 1 /\ a = y - 1 /\ b = w - 2)
  OBVIOUS

\* finish_row() filters them, and the last row whole.
LEMMA BehindEndRow ==
    ASSUME RowInv, EndRow, Behind
    PROVE  Behind'
<1> DEFINE above == IF Y > 0 THEN {<<Y - 1, W - 1>>} ELSE {}
           two   == IF Y > 0 /\ W > 1 THEN {<<Y - 1, W - 2>>} ELSE {}
           last  == IF Y + 1 = H THEN {<<Y, x>> : x \in 0..W - 1} ELSE {}
<1>1. /\ call = "mb" /\ call' = "row" /\ at[2] = W /\ at' = <<at[1] + 1, 0>>
      /\ file' = file /\ FinishRow(at[1], TRUE)
      /\ rowsDone' = IF active THEN at[1] + (IF Deblock THEN 0 ELSE 1) ELSE rowsDone
  BY DEF EndRow, inVars
<1>2. Y = at[1] /\ X = W /\ Y \in 0..H - 1
  BY <1>1, InRow
<1>3. Y' = Y + 1 /\ X' = 0
  BY <1>1, <1>2 DEF Y, X, InCall
<1>4. /\ Y \in Nat /\ W \in Nat \ {0} /\ H \in Nat \ {0} /\ Y < H /\ rowsDone \in Nat
  BY <1>2, Typed
<1>5. /\ strength' = strength
      /\ luma' = IF Deblock THEN FilterAt(luma, above \cup last, strength) ELSE luma
      /\ chroma' = IF Deblock THEN FilterAt(chroma, above \cup two \cup last, strength) ELSE chroma
  BY <1>1, <1>2 DEF FinishRow
<1>6. ASSUME Deblock, NEW m \in Mb, m \in above \cup two \cup last
      PROVE  strength[m[1] % 2][m[2]] = m
  <2>1. m = <<m[1], m[2]>> /\ m[2] \in 0..W - 1
    BY Place
  <2>2. CASE m \in above \cup two
    <3>1. Y > 0 /\ m[1] = Y - 1
      BY <2>2
    <3> QED  BY <1>6, <2>1, <3>1 DEF Behind
  <2>3. CASE m \in last
    <3>1. m[1] = Y
      BY <2>3
    <3>2. m[2] < X
      BY <1>2, <1>4, <2>1
    <3> QED  BY <1>6, <2>1, <3>1, <3>2 DEF Behind
  <2> QED  BY <1>6, <2>2, <2>3
<1>7. ASSUME NEW m \in Mb
      PROVE  /\ LumaDone(m)' <=> LumaDone(m) \/ m \in above \cup last
             /\ ChromaDone(m)' <=> ChromaDone(m) \/ m \in above \cup two \cup last
  <2>1. m = <<m[1], m[2]>> /\ m[1] \in Nat /\ m[2] \in Nat /\ m[2] < W /\ m[1] < H /\ m[2] \in 0..W - 1
    BY Place
  <2>2. \A a, b : m = <<a, b>> <=> m[1] = a /\ m[2] = b
    BY <2>1
  <2>3. m \in above <=> Y > 0 /\ m[1] = Y - 1 /\ m[2] = W - 1
    BY <2>2
  <2>4. m \in two <=> Y > 0 /\ W > 1 /\ m[1] = Y - 1 /\ m[2] = W - 2
    BY <2>2
  <2>5. m \in last <=> Y + 1 = H /\ m[1] = Y
    <3>1. m \in last => Y + 1 = H /\ m[1] = Y
      OBVIOUS
    <3>2. Y + 1 = H /\ m[1] = Y => m \in last
      BY <2>1
    <3> QED  BY <3>1, <3>2
  <2> HIDE DEF above, two, last
  <2>6. Y # H /\ (m[1] = Y => ~(m[1] + 1 < Y + 1)) /\ (Y + 1 = H => m[1] < Y \/ m[1] = Y)
    BY <1>4, <2>1
  <2>7. /\ LumaDone(m) <=> m[1] + 1 < Y \/ (m[1] + 1 = Y /\ m[2] + 1 < W)
        /\ ChromaDone(m) <=> m[1] + 1 < Y \/ (m[1] + 1 = Y /\ m[2] + 2 < W)
    BY <1>2, <2>6 DEF LumaDone, ChromaDone
  <2>8. /\ LumaDone(m)' <=> (m[1] + 1 < Y + 1 \/ (m[1] + 1 = Y + 1 /\ m[2] + 1 < 0)) \/ Y + 1 = H
        /\ ChromaDone(m)' <=> (m[1] + 1 < Y + 1 \/ (m[1] + 1 = Y + 1 /\ m[2] + 2 < 0)) \/ Y + 1 = H
    BY <1>3 DEF LumaDone, ChromaDone
  <2>9. m[1] < Y <=> m[1] + 1 < Y + 1
    BY <1>4, <2>1
  <2>10. /\ m[1] + 1 < Y + 1 \/ (m[1] + 1 = Y + 1 /\ m[2] + 1 < 0) <=> LumaDone(m) \/ m \in above
         /\ m[1] + 1 < Y + 1 \/ (m[1] + 1 = Y + 1 /\ m[2] + 2 < 0)
               <=> ChromaDone(m) \/ m \in above \/ m \in two
    BY <1>4, <2>1, <2>3, <2>4, <2>7, LumaRow
  <2>11. Y + 1 = H => (m \in last \/ m[1] + 1 < Y + 1)
    BY <2>5, <2>6, <2>9
  <2>12. m \in last => Y + 1 = H
    BY <2>5
  <2>13. LumaDone(m)' <=> LumaDone(m) \/ m \in above \/ m \in last
    BY ONLY <2>8, <2>10, <2>11, <2>12
  <2>14. ChromaDone(m)' <=> ChromaDone(m) \/ m \in above \/ m \in two \/ m \in last
    BY ONLY <2>8, <2>10, <2>11, <2>12
  <2> QED  BY ONLY <2>13, <2>14
<1>8. Deblock' = Deblock
  BY <1>1, SameFile
<1> HIDE DEF above, two, last
<1>9. ASSUME NEW m \in Mb
      PROVE  /\ luma'[m] = IF Deblock /\ LumaDone(m)' THEN m ELSE None
             /\ chroma'[m] = IF Deblock /\ ChromaDone(m)' THEN m ELSE None
  <2>1. /\ luma[m] = IF Deblock /\ LumaDone(m) THEN m ELSE None
        /\ chroma[m] = IF Deblock /\ ChromaDone(m) THEN m ELSE None
    BY DEF Behind
  <2>2. CASE Deblock
    <3>1. /\ luma'[m] = IF m \in above \cup last THEN strength[m[1] % 2][m[2]] ELSE luma[m]
          /\ chroma'[m] = IF m \in above \cup two \cup last THEN strength[m[1] % 2][m[2]] ELSE chroma[m]
      BY <1>5, <2>2 DEF FilterAt
    <3> QED  BY <1>6, <1>7, <2>1, <2>2, <3>1
  <2>3. CASE ~Deblock
    BY <1>5, <2>1, <2>3
  <2> QED  BY <2>2, <2>3
<1>10. ASSUME Deblock, NEW c \in 0..W - 1
       PROVE  ~(c < 0) /\ (Y + 1) - 1 = Y /\ strength[Y % 2][c] = <<Y, c>>
  <2>1. c < X
    BY <1>2, <1>4
  <2> QED  BY <1>4, <1>10, <2>1 DEF Behind
<1>11. rowsDone' <= Y + 1 /\ (Deblock /\ rowsDone' > 0 => rowsDone' + 1 <= Y + 1)
  <2>1. rowsDone <= Y /\ (Deblock /\ rowsDone > 0 => rowsDone + 1 <= Y)
    BY DEF Behind
  <2>2. CASE active
    BY <1>1, <1>2, <1>4, <2>2
  <2>3. CASE ~active
    BY <1>1, <1>2, <1>4, <2>1, <2>3
  <2> QED  BY <2>2, <2>3
<1> QED  BY <1>3, <1>5, <1>8, <1>9, <1>10, <1>11 DEF Behind

\* Until a call fails, each leaves the filter at its distance.
LEMMA BehindStep ==
    ASSUME RowInv, [Next]_vars, Live', failures' = 0
    PROVE  Behind'
<1>1. CASE Reopen
  BY <1>1 DEF Reopen, Live, InCall, loopVars
<1>2. CASE FrameInit
  <2>1. /\ call' = "row" /\ at' = <<0, 0>> /\ rowsDone' = 0 /\ UNCHANGED <<luma, chroma, file>>
    BY <1>2 DEF FrameInit, Call, pixelVars, inVars
  <2>2. Y' = 0 /\ X' = 0 /\ H \in Nat \ {0} /\ W \in Nat
    BY <2>1, Typed DEF Y, X, InCall
  <2>3. \A m \in Mb : luma[m] = None /\ chroma[m] = None
    BY <1>2, FrameInitFresh
  <2>4. \A m \in Mb : ~LumaDone(m)' /\ ~ChromaDone(m)'
    <3> SUFFICES ASSUME NEW m \in Mb PROVE ~LumaDone(m)' /\ ~ChromaDone(m)'
      OBVIOUS
    <3>1. m[1] \in Nat /\ 0 # H
      BY <2>2, Place
    <3>2. ~(m[1] + 1 < 0) /\ m[1] + 1 # 0
      BY <3>1
    <3> QED  BY <2>2, <3>1, <3>2 DEF LumaDone, ChromaDone
  <2>5. \A c \in 0..W - 1 : ~(c < 0)
    BY <2>2
  <2> QED  BY <2>1, <2>2, <2>3, <2>4, <2>5 DEF Behind
<1>3. ASSUME ~Reopen, ~FrameInit PROVE Behind
  <2>1. failures = 0
    BY <1>3, Failing
  <2> QED  BY <1>3, <2>1, WasLive DEF RowInv
<1>4. CASE EndRowDry
  <2>1. Return("error") /\ failures \in Nat
    BY <1>4, Typed DEF EndRowDry
  <2>2. failures' = failures + 1
    BY <2>1 DEF Return
  <2>3. failures' # 0
    BY <2>1, <2>2
  <2> QED  BY <2>3
<1>5. CASE Macroblock
  <2>1. ~Reopen /\ ~FrameInit
    BY <1>5 DEF Macroblock, Reopen, FrameInit
  <2> QED  BY <1>3, <1>5, <2>1, BehindMacroblock
<1>6. CASE EndRow
  <2>1. ~Reopen /\ ~FrameInit
    BY <1>6 DEF EndRow, Reopen, FrameInit
  <2> QED  BY <1>3, <1>6, <2>1, BehindEndRow
<1>7. CASE EndFrame
  <2>1. PICK s \in {"error", "done"} : Return(s)
    BY <1>7 DEF EndFrame
  <2>2. failures \in Nat
    BY Typed
  <2>3. CASE s = "error"
    BY <2>1, <2>2, <2>3 DEF Return
  <2>4. CASE s = "done"
    BY <2>1, <2>4 DEF Return, Live, InCall
  <2> QED  BY <2>3, <2>4
<1>8. CASE Quiet /\ ~EndFrame /\ ~Reopen /\ ~FrameInit
  <2>1. Y' = Y /\ X' = X
    BY <1>8, Stays
  <2>2. UNCHANGED <<luma, chroma, strength, rowsDone, file>>
    BY <1>8 DEF Quiet, Arrive, HeaderNeedsMore, Extend, PartitionNeedsMore, StartRow, MbNeedsMore,
         inVars, savedVars, pixelVars, vars
  <2>3. Deblock' = Deblock /\ \A m : LumaDone(m)' = LumaDone(m) /\ ChromaDone(m)' = ChromaDone(m)
    BY <2>1, <2>2, SameFile DEF LumaDone, ChromaDone
  <2> QED  BY <1>3, <1>8, <2>1, <2>2, <2>3 DEF Behind
<1> QED  BY <1>1, <1>2, <1>4, <1>5, <1>6, <1>7, <1>8 DEF Next, DecodeRows, Stop, Quiet

-----------------------------------------------------------------------------
(* What a macroblock was made from.                                        *)

\* The window of the row in hand.
LEMMA RowWindow ==
    ASSUME RowInv, call = "mb"
    PROVE  /\ file.size[PartOf(at[1])] \in Nat /\ Have(PartOf(at[1])) \in Int
           /\ coder[PartOf(at[1])].end \in Nat
           /\ check => /\ coder[PartOf(at[1])].end <= Have(PartOf(at[1])) /\ ~past
                       /\ coder[PartOf(at[1])].end <= file.size[PartOf(at[1])]
           /\ ~check => /\ coder[PartOf(at[1])].end = file.size[PartOf(at[1])]
                        /\ file.size[PartOf(at[1])] <= Have(PartOf(at[1]))
<1> DEFINE p == PartOf(at[1])
<1>1. p \in ready /\ p \in InUse /\ p \in Parts /\ InCall
  BY InRow
<1>2. file \in Files /\ avail \in Int /\ coder \in [Parts -> Coder]
  BY Typed
<1> HIDE DEF p
<1>3. coder[p].end \in Nat
  BY <1>1, <1>2 DEF Coder
<1>4. coder[p].end = Window(p) /\ (check <=> Window(p) < file.size[p])
  BY <1>1 DEF RowInv, Windows, p
<1>5. /\ Have(p) \in Int /\ Window(p) \in Int /\ file.size[p] \in Nat
      /\ Window(p) <= Have(p) /\ Window(p) <= file.size[p]
      /\ avail = Total => Window(p) = file.size[p]
  BY <1>1, <1>2, WindowFacts
<1>6. past => avail = Total
  BY DEF RowInv, Placed
<1>7. check => ~past
  BY <1>4, <1>5, <1>6
<1>8. ~check => Window(p) = file.size[p] /\ file.size[p] <= Have(p)
  BY <1>4, <1>5
<1> QED  BY <1>3, <1>4, <1>5, <1>7, <1>8 DEF p

\* Until one fails, the frame is in step.
LEMMA Steps ==
    ASSUME RowInv, Live, failures = 0
    PROVE  InStep /\ Behind
  BY DEF RowInv

\* What is in step parses a macroblock from where the whole frame would.
LEMMA WholeParsed ==
    ASSUME RowInv, Macroblock, failures = 0
    PROVE  parsed'[at] = Whole(at)
<1> DEFINE p == PartOf(at[1])
<1>1. call = "mb" /\ at[2] < W /\ Parse(at) /\ Live
  BY InRow DEF Macroblock
<1>2. /\ Y = at[1] /\ X = at[2] /\ at \in Mb /\ p \in ready
      /\ Y \in Nat /\ X \in Nat /\ file.partitions \in Nat \ {0} /\ W \in Nat
  BY <1>1, InRow, Typed, FileFacts
<1>3. InStep /\ DOMAIN parsed = Mb
  BY <1>1, Steps DEF RowInv
<1>4. parsed'[at] = [modes |-> modes.read, part |-> coder[p].read,
                     above |-> <<modeTop[at[2]], nnzTop[at[2]]>>,
                     beside |-> <<modeLeft, nnzLeft>>]
  BY <1>1, <1>2, <1>3 DEF Parse
<1>5. modes.read = Raster(at)
  BY <1>2, <1>3 DEF InStep, Raster
<1>6. coder[p].read = W * (at[1] \div file.partitions) + at[2]
  <2>1. Y \in Y..Y + file.partitions - 1
    BY <1>2
  <2> QED  BY <1>2, <1>3, <2>1 DEF InStep
<1>7. LET above == IF at[1] = 0 THEN None ELSE <<at[1] - 1, at[2]>>
      IN  modeTop[at[2]] = above /\ nnzTop[at[2]] = above
  <2>1. X \in 0..W - 1 /\ ~(X < X)
    BY <1>1, <1>2
  <2> QED  BY <1>2, <1>3, <2>1 DEF InStep
<1>8. LET beside == IF at[2] = 0 THEN None ELSE <<at[1], at[2] - 1>>
      IN  modeLeft = beside /\ nnzLeft = beside
  BY <1>1, <1>2, <1>3 DEF InStep
<1> QED  BY <1>4, <1>5, <1>6, <1>7, <1>8 DEF Whole

\* Only a macroblock of its own adds to what is parsed.
LEMMA ParsedStays ==
    ASSUME RowInv, [Next]_vars, ~Reopen, ~Macroblock
    PROVE  parsed' = parsed
  BY DEF Next, DecodeRows, Stop, vars, Arrive, HeaderNeedsMore, FrameInit, Extend,
     PartitionNeedsMore, StartRow, MbNeedsMore, EndRowDry, EndRow, EndFrame, FinishRow, pixelVars

\* A frame keeps its chunk, which only grows.
LEMMA FileStays ==
    ASSUME RowInv, [Next]_vars, ~Reopen
    PROVE  file' = file /\ avail' \in Int /\ avail <= avail'
<1>1. avail \in Int
  BY Typed
<1>2. CASE Arrive
  BY <1>1, <1>2, Typed DEF Arrive
<1>3. CASE ~Arrive
  <2>1. UNCHANGED <<file, avail>>
    BY <1>3 DEF Next, DecodeRows, Stop, vars, inVars, HeaderNeedsMore, FrameInit, Extend,
       PartitionNeedsMore, StartRow, MbNeedsMore, Macroblock, EndRowDry, EndRow, EndFrame
  <2> QED  BY <1>1, <2>1
<1> QED  BY <1>2, <1>3

\* A macroblock that stays is parsed from its place and from bytes there.
LEMMA ParsedStep ==
    ASSUME RowInv, [Next]_vars
    PROVE  ParsedAsWhole' /\ ParsedFromData'
<1> SUFFICES ASSUME failures' = 0, NEW m \in Mb, parsed'[m] # None
             PROVE  /\ parsed'[m] = Whole(m)'
                    /\ file'.need[m] <= file'.size[PartOf(m[1])'] =>
                           file'.need[m] <= avail' - Before'[PartOf(m[1])']
  BY DEF ParsedAsWhole, ParsedFromData, Parsed, Have
<1>1. ~Reopen
  BY DEF Reopen
<1>2. failures = 0 /\ file' = file /\ avail \in Int /\ avail' \in Int /\ avail <= avail'
      /\ file \in Files
  BY <1>1, Failing, FileStays, Typed
<1>3. PICK p : p = PartOf(m[1])
  OBVIOUS
<1>4. Whole(m)' = Whole(m) /\ PartOf(m[1])' = p /\ Have(p)' = avail' - Before'[p]
  BY <1>2, <1>3, SameFile DEF Whole, Raster, Have
<1>5. p \in InUse /\ file.need[m] \in Nat
  BY <1>2, <1>3, Place, PartOfRow, FileFacts
<1>6. Have(p) \in Int /\ Have(p)' \in Int /\ Have(p) <= Have(p)' /\ file.size[p] \in Nat
  BY <1>2, <1>5, OpensMore, FileFacts
<1>7. CASE parsed'[m] = parsed[m]
  <2>1. parsed[m] = Whole(m)
    BY <1>2, <1>7 DEF RowInv, ParsedAsWhole, Parsed
  <2>2. file.need[m] <= file.size[p] => file.need[m] <= Have(p)
    BY <1>2, <1>7, <1>3 DEF RowInv, ParsedFromData, Parsed
  <2>3. file.need[m] <= file.size[p] => file.need[m] <= Have(p)'
    BY <1>5, <1>6, <2>2
  <2> QED  BY <1>2, <1>4, <1>7, <2>1, <2>3
<1>8. CASE Macroblock /\ m = at
  <2>1. parsed'[m] = Whole(m)
    BY <1>2, <1>8, WholeParsed
  <2>2. call = "mb" /\ ~(check /\ Overruns(at))
    BY <1>8 DEF Macroblock
  <2>3. file.need[m] <= file.size[p] => file.need[m] <= Have(p)
    <3>1. CASE check
      <4>1. file.need[m] <= coder[p].end
        <5>1. ~(file.need[m] > coder[p].end)
          BY <1>8, <2>2, <3>1, <1>3 DEF Overruns
        <5> QED  BY <1>5, <1>8, <2>2, <5>1, RowWindow, <1>3
      <4>2. coder[p].end <= Have(p) /\ coder[p].end \in Nat
        BY <1>8, <2>2, <3>1, RowWindow, <1>3
      <4> QED  BY <1>5, <1>6, <4>1, <4>2
    <3>2. CASE ~check
      <4>1. file.size[p] <= Have(p)
        BY <1>8, <2>2, <3>2, RowWindow, <1>3
      <4> QED  BY <1>5, <1>6, <4>1
    <3> QED  BY <3>1, <3>2
  <2>4. file.need[m] <= file.size[p] => file.need[m] <= Have(p)'
    BY <1>5, <1>6, <2>3
  <2> QED  BY <1>2, <1>4, <2>1, <2>4
<1>9. parsed'[m] = parsed[m] \/ (Macroblock /\ m = at)
  <2>1. CASE ~Macroblock
    BY <1>1, <2>1, ParsedStays
  <2>2. CASE Macroblock /\ m # at
    <3>1. \E new : parsed' = [parsed EXCEPT ![at] = new]
      BY <2>2 DEF Macroblock, Parse
    <3> QED  BY <2>2, <3>1 DEF RowInv
  <2> QED  BY <2>1, <2>2
<1> QED  BY <1>7, <1>8, <1>9

-----------------------------------------------------------------------------
(* The pixels a prediction reads and those the filter changes.             *)

\* What a filter changes is above a prediction, or to its left.
LEMMA Apart ==
    ASSUME NEW n \in {8, 16}, NEW y \in Nat, NEW x \in Nat, NEW a \in Nat, NEW b \in Nat,
           a + 1 < y \/ (a + 1 = y /\ b + 1 < x), NEW k \in Nat \ {0},
           NEW x0, NEW y0, NEW x1, NEW y1, x0 = n * x - 1, y0 \in {n * y, n * y - 1},
           \/ x1 = n * b + n - 1 - k /\ y1 = n * a + n - 1
           \/ x1 = n * b + n - 1 /\ y1 = n * a + n - 1 - k
    PROVE  ~(x0 <= x1 /\ y0 <= y1)
<1>1. CASE n = 8
  BY <1>1
<1>2. CASE n = 16
  BY <1>2
<1> QED  BY <1>1, <1>2

\* What the filter has changed a row and a macroblock behind is not read.
LEMMA NoSpoil ==
    ASSUME NEW n \in {8, 16}, NEW m \in Mb, NEW f \in Mb,
           f[1] + 1 < m[1] \/ (f[1] + 1 = m[1] /\ f[2] + 1 < m[2]),
           NEW r \in Reads(n, m), NEW w \in Writes(n, f)
    PROVE  ~Meet(r, w)
<1>1. m[1] \in Nat /\ m[2] \in Nat /\ f[1] \in Nat /\ f[2] \in Nat
  BY Place
<1>2. r.x0 = n * m[2] - 1 /\ r.y0 \in {n * m[1], n * m[1] - 1}
  BY DEF Reads, Box
<1>3. Keep(n) \in Nat \ {0}
  BY DEF Keep
<1>4. \/ w.x1 = n * f[2] + n - 1 - Keep(n) /\ w.y1 = n * f[1] + n - 1
      \/ w.x1 = n * f[2] + n - 1 /\ w.y1 = n * f[1] + n - 1 - Keep(n)
  BY DEF Writes, Box
<1> HIDE DEF Keep
<1>5. ~(r.x0 <= w.x1 /\ r.y0 <= w.y1)
  BY <1>1, <1>2, <1>3, <1>4, Apart
<1> QED  BY <1>5 DEF Meet

\* Prediction follows no filtered pixel.
LEMMA PredictedStep ==
    ASSUME RowInv, [Next]_vars
    PROVE  PredictedFromUnfiltered'
<1> SUFFICES ASSUME failures' = 0 PROVE spoiled' = {}
  BY DEF PredictedFromUnfiltered
<1>1. CASE Reopen
  BY <1>1 DEF Reopen
<1>2. CASE ~Reopen /\ ~Macroblock
  <2>1. spoiled' = spoiled
    BY <1>2 DEF Next, DecodeRows, Stop, vars, Arrive, HeaderNeedsMore, FrameInit, Extend,
     PartitionNeedsMore, StartRow, MbNeedsMore, EndRowDry, EndRow, EndFrame, FinishRow, pixelVars
  <2> QED  BY <1>2, <2>1, Failing DEF RowInv, PredictedFromUnfiltered
<1>3. CASE Macroblock
  <2>1. failures = 0 /\ call = "mb" /\ at[2] < W /\ Reconstruct(at)
    BY <1>3, Failing DEF Macroblock, Reopen
  <2>2. /\ Y = at[1] /\ X = at[2] /\ at \in Mb /\ Behind /\ spoiled = {} /\ Y < H
    BY <2>1, InRow, Steps, Place DEF RowInv, PredictedFromUnfiltered
  <2>3. Y \in Nat /\ X \in Nat /\ H \in Nat
    BY <2>1, <2>2, Typed
  <2> DEFINE c == IF Deblock /\ Y > 0 /\ X > 1 THEN FilterAt(chroma, {<<Y - 1, X - 2>>}, strength)
                  ELSE chroma
  <2>4. spoiled' = IF Spoils(at, luma, c) THEN spoiled \cup {at} ELSE spoiled
    BY <2>1, <2>2 DEF Reconstruct
  <2>5. ASSUME NEW f \in Mb, luma[f] # None
        PROVE  f[1] + 1 < Y \/ (f[1] + 1 = Y /\ f[2] + 1 < X)
    <3>1. LumaDone(f)
      BY <2>2, <2>5 DEF Behind
    <3>2. Y # H
      BY <2>2, <2>3
    <3> QED  BY <3>1, <3>2 DEF LumaDone
  <2>6. ASSUME NEW f \in Mb, c[f] # None
        PROVE  f[1] + 1 < Y \/ (f[1] + 1 = Y /\ f[2] + 1 < X)
    <3>1. f[1] \in Nat /\ f[2] \in Nat
      BY Place
    <3>2. CASE chroma[f] # None
      <4>1. ChromaDone(f)
        BY <2>2, <3>2 DEF Behind
      <4>2. Y # H
        BY <2>2, <2>3
      <4>3. f[1] + 1 < Y \/ (f[1] + 1 = Y /\ f[2] + 2 < X)
        BY <4>1, <4>2 DEF ChromaDone
      <4> QED  BY <2>3, <3>1, <4>3
    <3>3. CASE chroma[f] = None
      <4>1. Y > 0 /\ X > 1 /\ f = <<Y - 1, X - 2>>
        BY <2>6, <3>3 DEF FilterAt
      <4>2. f[1] = Y - 1 /\ f[2] = X - 2
        BY <4>1
      <4> QED  BY <2>3, <3>1, <4>1, <4>2
    <3> QED  BY <3>2, <3>3
  <2> HIDE DEF c
  <2>7. ~Spoils(at, luma, c)
    <3>1. ASSUME NEW f \in Filtered(luma), NEW r \in Reads(16, at), NEW w \in Writes(16, f)
          PROVE  ~Meet(r, w)
      BY <2>2, <2>5, <3>1, NoSpoil DEF Filtered
    <3>2. ASSUME NEW f \in Filtered(c), NEW r \in Reads(8, at), NEW w \in Writes(8, f)
          PROVE  ~Meet(r, w)
      BY <2>2, <2>6, <3>2, NoSpoil DEF Filtered
    <3> QED  BY <3>1, <3>2 DEF Spoils
  <2> QED  BY <2>2, <2>4, <2>7
<1> QED  BY <1>1, <1>2, <1>3

-----------------------------------------------------------------------------
(* What has run dry.                                                       *)

\* A call that asks for more can, unless its chunk is all there: and then it
\* has nothing to ask for.
LEMMA AsksRightly ==
    ASSUME RowInv, PartitionNeedsMore \/ MbNeedsMore
    PROVE  ~past /\ failures' = failures /\ active' = active /\ past' = past /\ status' = "more"
<1>1. failures \in Nat /\ file \in Files /\ avail \in Int
  BY Typed
<1>2. ~past
  <2>1. CASE PartitionNeedsMore
    <3>1. call = "row" /\ PartOf(at[1]) \notin ready /\ InCall /\ at[1] \in Nat
      BY <2>1, AtRow, Typed DEF PartitionNeedsMore
    <3>2. ready = {p \in InUse : Opens(p)} /\ (past => avail = Total)
      BY <3>1 DEF RowInv, Windows, Placed
    <3>3. PartOf(at[1]) \in InUse
      BY <1>1, <3>1, PartOfRow
    <3> QED  BY <1>1, <3>1, <3>2, <3>3, WindowFacts
  <2>2. CASE MbNeedsMore
    BY <2>2, RowWindow DEF MbNeedsMore
  <2> QED  BY <2>1, <2>2
<1>3. Return("more")
  BY DEF PartitionNeedsMore, MbNeedsMore
<1>4. status' = "more" /\ active' = active /\ past' = past
  <2>1. active \in BOOLEAN
    BY DEF RowInv, TypeOK
  <2>2. active' = (active /\ "more" # "done") /\ past' = past
    BY <1>3 DEF Return
  <2>3. status' = "more"
    BY <1>2, <1>3 DEF Return
  <2> QED  BY <2>1, <2>2, <2>3
<1>5. failures' = failures
  BY <1>1, <1>3, <1>4 DEF Return
<1> QED  BY <1>2, <1>4, <1>5

\* How the coder of the row in hand comes to be overrun.
LEMMA OverrunBy ==
    ASSUME RowInv, Macroblock
    PROVE  /\ coder' = [coder EXCEPT ![PartOf(at[1])] = coder'[PartOf(at[1])]]
           /\ coder'[PartOf(at[1])].over = Overruns(at)
           /\ Overruns(at) => Damaged
           /\ file.need[at] > file.size[PartOf(at[1])] => Overruns(at)
           /\ coder[PartOf(at[1])].over => Overruns(at)
<1>0. PICK p : p = PartOf(at[1])
  OBVIOUS
<1>1. /\ call = "mb" /\ at[2] < W /\ Parse(at) /\ ~(check /\ Overruns(at))
  BY DEF Macroblock
<1>2. /\ at \in Mb /\ p \in ready /\ p \in Parts /\ coder \in [Parts -> Coder] /\ Live
      /\ file.need[at] \in Nat
  BY <1>0, <1>1, InRow, Typed, FileFacts
<1>3. /\ file.size[p] \in Nat /\ coder[p].end \in Nat
      /\ check => coder[p].end <= file.size[p]
      /\ ~check => coder[p].end = file.size[p]
  BY <1>0, <1>1, RowWindow
<1>4. /\ coder' = [coder EXCEPT ![p] = coder'[p]] /\ coder'[p].over = Overruns(at)
  <2> DEFINE new == [read |-> coder[p].read + 1, over |-> Overruns(at), end |-> coder[p].end]
  <2>1. coder' = [coder EXCEPT ![p] = new] /\ new.over = Overruns(at)
    BY <1>0, <1>1 DEF Parse
  <2> HIDE DEF new
  <2> QED  BY <1>2, <2>1
<1>5. Overruns(at) <=> coder[p].over \/ file.need[at] > coder[p].end
  BY <1>0 DEF Overruns
<1>6. coder[p].over => Damaged
  BY <1>2 DEF RowInv, Dry
<1>7. file.need[at] > file.size[p] => Damaged
  BY <1>0, <1>2 DEF Damaged
<1>8. Overruns(at) => Damaged
  BY <1>1, <1>2, <1>3, <1>5, <1>6, <1>7
<1>9. file.need[at] > file.size[p] => Overruns(at)
  BY <1>2, <1>3, <1>5
<1> QED  BY <1>0, <1>4, <1>5, <1>8, <1>9

\* Where the coders are left as they are, and how the others change them.
LEMMA CoderStays ==
    ASSUME RowInv, [Next]_vars, ~FrameInit, ~Extend, ~Macroblock
    PROVE  coder' = coder /\ modes' = modes /\ ready' = ready
  BY DEF Next, DecodeRows, Stop, vars, Arrive, HeaderNeedsMore, Reopen,
     PartitionNeedsMore, StartRow, MbNeedsMore, EndRowDry, EndRow, EndFrame, contextVars, partVars

\* frame_init() and extend() leave overrun only what was, and extend() all of
\* that.
LEMMA CoderOpened ==
    ASSUME RowInv, FrameInit \/ Extend
    PROVE  /\ \A p \in Parts : coder'[p].over => coder[p].over
           /\ \A p \in ready' : coder'[p].over => p \in ready /\ Extend
           /\ \A p \in Parts \ InUse : coder'[p] = coder[p]
           /\ Extend => /\ ready \subseteq ready' /\ modes' = modes
                        /\ \A p \in ready : coder'[p].over = coder[p].over
           /\ FrameInit => ~modes'.over /\ modes'.read = 0
<1>1. file \in Files /\ coder \in [Parts -> Coder] /\ InUse \subseteq Parts
  BY Typed, FileFacts
<1>2. CASE FrameInit
  <2>1. OpenPartitions({}, {}) /\ modes' = [read |-> 0, over |-> FALSE]
    BY <1>2 DEF FrameInit
  <2>2. /\ ready' = {p \in InUse : Opens(p)}
        /\ \A p \in ready' : ~coder'[p].over
        /\ \A p \in Parts \ ready' : coder'[p] = coder[p]
    BY <1>1, <2>1, Opening
  <2>3. ~Extend
    BY <1>2 DEF FrameInit, Extend
  <2> QED  BY <1>1, <2>1, <2>2, <2>3
<1>3. CASE Extend
  <2>1. OpenPartitions(ready, clamped) /\ modes' = modes /\ Live
    BY <1>3 DEF Extend, Live
  <2>2. clamped \subseteq ready /\ ready \subseteq {p \in InUse : Opens(p)}
    BY <2>1 DEF RowInv, Windows
  <2>3. /\ ready' = {p \in InUse : Opens(p)}
        /\ \A p \in ready' : /\ p \in ready => coder'[p].over = coder[p].over
                             /\ p \notin ready => ~coder'[p].over
        /\ \A p \in Parts \ ready' : coder'[p] = coder[p]
    BY <1>1, <2>1, <2>2, Opening
  <2>4. ~FrameInit
    BY <1>3 DEF FrameInit, Extend
  <2> QED  BY <1>1, <1>3, <2>1, <2>2, <2>3, <2>4
<1> QED  BY <1>2, <1>3

\* The macroblocks of a frame are numbered below W * H.
LEMMA RasterBounds ==
    ASSUME NEW m \in Mb
    PROVE  Raster(m) \in Nat /\ Raster(m) < W * H /\ W * H \in Nat
<1>1. W \in Nat /\ H \in Nat /\ m[1] \in Nat /\ m[2] \in Nat /\ m[1] < H /\ m[2] < W
  BY Place, SizeAssumption
<1>2. m[1] * W \in Nat /\ (m[1] + 1) * W = m[1] * W + W /\ (m[1] + 1) * W <= H * W /\ H * W = W * H /\ W * H \in Nat
  <2>1. ASSUME NEW a \in Nat, NEW w \in Nat, NEW h \in Nat, a < h
        PROVE  a * w \in Nat /\ (a + 1) * w = a * w + w /\ (a + 1) * w <= h * w /\ h * w = w * h /\ w * h \in Nat
    <3>1. PICK d \in Nat : h = (a + 1) + d
      <4>1. h - (a + 1) \in Nat /\ h = (a + 1) + (h - (a + 1))
        BY <2>1
      <4> QED  BY <4>1
    <3>2. h * w = (a + 1) * w + d * w /\ d * w \in Nat
      BY <3>1
    <3> QED  BY <3>2
  <2> QED  BY <1>1, <2>1
<1> QED  BY <1>1, <1>2 DEF Raster

\* Numbers of their own, for the coder of the modes.
LEMMA DryStart ==
    ASSUME NEW d \in Nat, NEW r \in Nat, NEW o \in BOOLEAN, o <=> r > d
    PROVE  (o \/ r >= d) <=> r + 1 > d
  OBVIOUS

\* Within a frame nothing new is left behind.
LEMMA ClearStays ==
    ASSUME RowInv, [Next]_vars, ~Reopen
    PROVE  Clear' <=> Clear
<1>1. UNCHANGED reopened
  BY DEF Next, DecodeRows, Stop, vars, inVars, Arrive, HeaderNeedsMore, FrameInit, Extend,
     PartitionNeedsMore, StartRow, MbNeedsMore, Macroblock, EndRowDry, EndRow, EndFrame
<1> QED  BY <1>1 DEF Clear, PartitionsAlike

\* A coder runs dry on damage alone, and only one that has a row.
LEMMA DryCoders ==
    ASSUME RowInv, [Next]_vars
    PROVE  /\ \A p \in Parts : coder'[p].over => p < H
           /\ Clear' => \A p \in Parts \ InUse' : ~coder'[p].over
           /\ Live' => /\ modes'.over => Damaged'
                       /\ \A p \in ready' : coder'[p].over => Damaged'
<1>1. Dry /\ file \in Files /\ H \in Nat
  BY Typed DEF RowInv
<1>2. CASE Macroblock
  <2>0. PICK q : q = PartOf(at[1])
    OBVIOUS
  <2>1. /\ call = "mb" /\ at[2] < W /\ Parse(at) /\ UNCHANGED <<file, ready>>
    BY <1>2 DEF Macroblock, inVars, partVars
  <2>2. /\ q \in InUse /\ q \in ready /\ q \in Parts /\ ready \subseteq Parts /\ Live /\ at \in Mb
        /\ coder \in [Parts -> Coder] /\ at[1] \in Nat /\ at[1] < H
    BY <2>0, <2>1, InRow, Typed, Place
  <2>3. /\ coder' = [coder EXCEPT ![q] = coder'[q]] /\ (coder'[q].over => Damaged)
    BY <1>2, <2>0, OverrunBy
  <2>4. q \in Nat /\ q < H
    <3>1. file.partitions \in Nat \ {0}
      BY <1>1, FileFacts
    <3>2. q \in 0..file.partitions - 1 /\ at[1] = file.partitions * (at[1] \div file.partitions) + q
          /\ at[1] \div file.partitions \in Nat
      BY <2>0, <2>2, <3>1, Divided DEF PartOf
    <3>3. q <= at[1]
      BY <2>2, <3>1, <3>2
    <3> QED  BY <1>1, <2>2, <3>1, <3>2, <3>3
  <2>5. InUse' = InUse /\ Damaged' = Damaged /\ (Clear' <=> Clear)
    <3>1. ~Reopen
      BY <2>1 DEF Reopen
    <3> QED  BY <2>1, <3>1, SameFile, ClearStays
  <2>6. \A p \in Parts : p # q => coder'[p] = coder[p]
    BY <2>2, <2>3
  <2>7. modes'.over => Damaged
    <3>1. modes'.over = (modes.over \/ Raster(at) >= file.modesDry)
      BY <2>1 DEF Parse
    <3>2. modes.over => Damaged
      BY <1>1, <2>2 DEF Dry
    <3>3. Raster(at) >= file.modesDry => Damaged
      <4>1. Raster(at) \in Nat /\ Raster(at) < W * H /\ W * H \in Nat
        BY <2>2, RasterBounds
      <4>2. file.modesDry \in 0..W * H
        BY <1>1, FileFacts
      <4> QED  BY <4>1, <4>2 DEF Damaged
    <3> QED  BY <3>1, <3>2, <3>3
  <2> QED  BY <1>1, <2>1, <2>2, <2>3, <2>4, <2>5, <2>6, <2>7 DEF Dry
<1>3. CASE FrameInit \/ Extend
  <2>1. file' = file
    BY <1>3 DEF FrameInit, Extend, inVars
  <2>2. InUse' = InUse /\ Damaged' = Damaged /\ ready \subseteq Parts /\ (Clear' <=> Clear)
    <3>1. ~Reopen
      BY <1>3 DEF FrameInit, Extend, Call, Reopen, loopVars
    <3> QED  BY <2>1, <3>1, SameFile, Typed, ClearStays
  <2>3. Extend => Live
    BY DEF Extend, Live
  <2> QED  BY <1>1, <1>3, <2>2, <2>3, CoderOpened DEF Dry
<1>4. CASE ~Macroblock /\ ~FrameInit /\ ~Extend
  <2>1. coder' = coder /\ modes' = modes /\ ready' = ready
    BY <1>4, CoderStays
  <2>2. CASE Reopen
    <3>1. ~Live' /\ file' \in Files
      BY <2>2 DEF Reopen, Live, InCall, loopVars
    <3>2. Clear' => PartitionsAlike
      <4>1. reopened \in Nat /\ reopened' = reopened + 1
        BY <2>2, SizeAssumption DEF Reopen, RowInv, TypeOK
      <4> QED  BY <4>1 DEF Clear, PartitionsAlike
    <3>3. PartitionsAlike => Clear /\ InUse' = InUse
      BY <1>1, <3>1 DEF Clear, PartitionsAlike, InUse
    <3> QED  BY <1>1, <2>1, <3>1, <3>2, <3>3 DEF Dry
  <2>3. CASE ~Reopen
    <3>1. InUse' = InUse /\ Damaged' = Damaged /\ (Clear' <=> Clear)
      BY <2>3, FileStays, SameFile, ClearStays
    <3>2. Live' => Live
      BY <1>4, <2>3, WasLive
    <3> QED  BY <1>1, <2>1, <3>1, <3>2 DEF Dry
  <2> QED  BY <2>2, <2>3
<1> QED  BY <1>2, <1>3, <1>4

\* A frame that is through has opened every partition a row of it is in.
LEMMA AllOpened ==
    ASSUME RowInv, call = "row", at[1] = H, NEW p \in Parts, p < H
    PROVE  p \in ready \/ p \notin InUse
<1> SUFFICES ASSUME p \in InUse PROVE p \in ready
  OBVIOUS
<1>1. /\ Y = H /\ Live /\ file \in Files /\ H \in Nat
      /\ file.partitions \in Nat \ {0} /\ p \in 0..file.partitions - 1
  BY AtRow, Typed, FileFacts
<1>2. p \in Nat /\ p < file.partitions /\ p \in 0..H - 1
  BY <1>1
<1>3. PartOf(p) = p
  BY <1>1, <1>2, PartOfRow
<1> QED  BY <1>1, <1>2, <1>3 DEF RowInv, Windows

\* What a frame that has failed leaves behind.
Failed ==
    /\ modes.over \/ \E p \in Parts : coder[p].over /\ (p \in ready \/ p \notin InUse)
    /\ Clear => Damaged
    /\ active \/ past

\* A call fails on what has run dry, and it stays so.
LEMMA FailedStep ==
    ASSUME RowInv, [Next]_vars, failures' > 0
    PROVE  Failed'
<1>1. /\ Dry /\ file \in Files /\ H \in Nat /\ failures \in Nat
      /\ coder \in [Parts -> Coder] /\ active \in BOOLEAN
  BY Typed DEF RowInv, TypeOK
<1>2. failures > 0 => Failed
  BY <1>1 DEF Dry, Failed
<1>3. ~Reopen
  BY DEF Reopen
<1>4. InUse' = InUse /\ Damaged' = Damaged /\ (Clear' <=> Clear)
  BY <1>3, FileStays, SameFile, ClearStays
<1>5. CASE FrameInit
  BY <1>5, FrameInitFresh DEF FrameInit
<1>6. CASE Extend
  <2>1. active' = TRUE /\ failures' = failures
    BY <1>6 DEF Extend, Call
  <2>2. modes' = modes /\ ready \subseteq ready' /\ \A p \in ready : coder'[p].over = coder[p].over
    BY <1>6, CoderOpened
  <2>3. \A p \in Parts \ InUse : coder'[p] = coder[p]
    BY <1>6, CoderOpened
  <2> QED  BY <1>2, <1>4, <2>1, <2>2, <2>3 DEF Failed
<1>7. CASE Macroblock
  <2>0. PICK q : q = PartOf(at[1])
    OBVIOUS
  <2>1. UNCHANGED <<active, past, failures, ready>> /\ modes'.over = (modes.over \/ Raster(at) >= file.modesDry)
        /\ call = "mb"
    BY <1>7 DEF Macroblock, Parse, callVars, partVars
  <2>2. q \in Parts
    BY <2>0, <2>1, InRow
  <2>3. /\ coder' = [coder EXCEPT ![q] = coder'[q]] /\ (coder[q].over => coder'[q].over)
    BY <1>7, <2>0, OverrunBy
  <2>4. \A p \in Parts : coder[p].over => coder'[p].over
    BY <1>1, <2>2, <2>3
  <2> QED  BY <1>2, <1>4, <2>1, <2>4 DEF Failed
<1>8. CASE ~FrameInit /\ ~Extend /\ ~Macroblock
  <2>1. coder' = coder /\ modes' = modes /\ ready' = ready
    BY <1>8, CoderStays
  <2>2. CASE PartitionNeedsMore \/ MbNeedsMore
    BY <1>2, <1>4, <2>1, <2>2, AsksRightly DEF Failed
  <2>3. CASE EndRowDry
    <3>1. /\ call = "mb" /\ (modes.over \/ coder[PartOf(at[1])].over) /\ Return("error")
      BY <2>3 DEF EndRowDry, RanDry
    <3>2. Live /\ PartOf(at[1]) \in ready /\ PartOf(at[1]) \in Parts /\ InCall
      BY <3>1, InRow
    <3>3. Damaged
      BY <1>1, <3>1, <3>2 DEF Dry
    <3>4. active' = active /\ past' = past
      <4>1. active' = (active /\ "error" # "done") /\ past' = past
        BY <3>1 DEF Return
      <4> QED  BY <1>1, <4>1
    <3>5. active \/ past
      BY <3>2 DEF RowInv, Placed
    <3> QED  BY <1>4, <2>1, <3>1, <3>2, <3>3, <3>4, <3>5 DEF Failed
  <2>4. CASE EndFrame
    <3>1. /\ call = "row" /\ at[1] = H
          /\ Return(IF modes.over \/ \E p \in Parts : coder[p].over THEN "error" ELSE "done")
      BY <2>4 DEF EndFrame
    <3>2. Live /\ InCall
      BY <3>1, AtRow
    <3>3. CASE modes.over \/ \E p \in Parts : coder[p].over
      <4>1. Return("error")
        BY <3>1, <3>3
      <4>2. active' = active /\ past' = past /\ (active \/ past)
        <5>1. active' = (active /\ "error" # "done") /\ past' = past
          BY <4>1 DEF Return
        <5> QED  BY <1>1, <3>2, <5>1 DEF RowInv, Placed
      <4>3. \A p \in Parts : coder[p].over => p \in ready \/ p \notin InUse
        BY <1>1, <3>1, AllOpened DEF Dry
      <4>4. Clear => Damaged
        BY <1>1, <3>2, <3>3, <4>3 DEF Dry
      <4> QED  BY <1>4, <2>1, <3>3, <4>2, <4>3, <4>4 DEF Failed
    <3>4. CASE ~(modes.over \/ \E p \in Parts : coder[p].over)
      <4>1. Return("done") /\ ~Failed
        BY <3>1, <3>4 DEF Failed
      <4>2. status' = "done"
        BY <4>1 DEF Return
      <4>3. failures' = failures + 0
        BY <4>1, <4>2 DEF Return
      <4> QED  BY <1>1, <1>2, <4>1, <4>3
    <3> QED  BY <3>3, <3>4
  <2>5. CASE Arrive \/ HeaderNeedsMore \/ StartRow \/ EndRow \/ UNCHANGED vars
    <3>1. UNCHANGED <<active, past, failures>>
      BY <2>5 DEF Arrive, HeaderNeedsMore, StartRow, EndRow, vars, callVars
    <3> QED  BY <1>2, <1>4, <2>1, <3>1 DEF Failed
  <2> QED  BY <1>3, <1>8, <2>2, <2>3, <2>4, <2>5 DEF Next, DecodeRows, Stop
<1> QED  BY <1>5, <1>6, <1>7, <1>8

\* Until it fails, what ran dry is what does not last.
Shows ==
    /\ modes.over <=> modes.read > file.modesDry
    /\ \A m \in Mb : Passed(m) /\ file.need[m] > file.size[PartOf(m[1])] =>
           coder[PartOf(m[1])].over

\* Until a call fails, what does not last has run dry as soon as it is passed.
LEMMA ShowsStep ==
    ASSUME RowInv, [Next]_vars, Live', failures' = 0
    PROVE  Shows'
<1>1. ~Reopen
  BY DEF Reopen, Live, InCall, loopVars
<1>2. file' = file /\ \A r : PartOf(r)' = PartOf(r)
  BY <1>1, FileStays, SameFile
<1>3. CASE FrameInit
  <2>1. ~modes'.over /\ modes'.read = 0
    BY <1>3, CoderOpened
  <2>2. Y' = 0 /\ X' = 0
    BY <1>3 DEF FrameInit, Call, Y, X, InCall
  <2>3. \A m \in Mb : ~Passed(m)'
    <3> SUFFICES ASSUME NEW m \in Mb PROVE ~Passed(m)'
      OBVIOUS
    <3>1. m[1] \in Nat /\ m[2] \in Nat
      BY Place
    <3> QED  BY <2>2, <3>1 DEF Passed
  <2>4. ~(0 > file.modesDry)
    <3>1. file.modesDry \in 0..W * H
      BY Typed, FileFacts
    <3> QED  BY <3>1
  <2> QED  BY <1>2, <2>1, <2>3, <2>4 DEF Shows
<1>4. ASSUME ~FrameInit PROVE Live /\ failures = 0 /\ Shows
  BY <1>1, <1>4, WasLive, Failing DEF RowInv, Dry, Shows
<1>5. CASE Macroblock
  <2>0. PICK q : q = PartOf(at[1])
    OBVIOUS
  <2>1. /\ call = "mb" /\ call' = "mb" /\ at' = <<at[1], at[2] + 1>> /\ at[2] < W
        /\ modes' = [read |-> modes.read + 1, over |-> modes.over \/ Raster(at) >= file.modesDry]
    BY <1>5 DEF Macroblock, Parse
  <2>2. ~FrameInit
    BY <1>5 DEF Macroblock, FrameInit
  <2>3. Y = at[1] /\ X = at[2] /\ at \in Mb /\ q \in Parts /\ at = <<Y, X>>
    BY <2>0, <2>1, InRow, Place
  <2>4. Y' = Y /\ X' = X + 1
    BY <2>1, <2>3 DEF Y, X, InCall
  <2>5. X \in Nat /\ modes.read \in Nat /\ modes.over \in BOOLEAN /\ coder \in [Parts -> Coder]
    BY <2>3, Typed, Place
  <2>6. modes.read = Raster(at)
    <3>1. InStep
      BY <1>4, <2>2, Steps
    <3> QED  BY <2>3, <3>1 DEF InStep, Raster
  <2>7. modes'.over <=> modes'.read > file.modesDry
    <3>1. file.modesDry \in 0..W * H /\ W * H \in Nat
      BY <2>3, Typed, FileFacts, RasterBounds
    <3>2. modes.over <=> modes.read > file.modesDry
      BY <1>4, <2>2 DEF Shows
    <3>3. file.modesDry \in Nat
      BY <3>1
    <3>4. (modes.over \/ modes.read >= file.modesDry) <=> modes.read + 1 > file.modesDry
      BY <2>5, <3>2, <3>3, DryStart
    <3> QED  BY <2>1, <2>6, <3>4
  <2>8. /\ coder' = [coder EXCEPT ![q] = coder'[q]] /\ (coder[q].over => coder'[q].over)
        /\ file.need[at] > file.size[q] => coder'[q].over
    BY <1>5, <2>0, OverrunBy
  <2>9. \A p \in Parts : coder[p].over => coder'[p].over
    BY <2>3, <2>5, <2>8
  <2>10. ASSUME NEW m \in Mb, Passed(m)', file.need[m] > file.size[PartOf(m[1])]
         PROVE  coder'[PartOf(m[1])].over
    <3>1. Passed(m) \/ m = at
      <4>1. m = <<m[1], m[2]>> /\ m[1] \in Nat /\ m[2] \in Nat
        BY Place
      <4>2. m[2] < X + 1 <=> m[2] < X \/ m[2] = X
        BY <2>5, <4>1
      <4> QED  BY <2>3, <2>4, <2>10, <4>1, <4>2 DEF Passed
    <3>2. CASE Passed(m)
      <4>1. coder[PartOf(m[1])].over
        BY <1>4, <2>2, <2>10, <3>2 DEF Shows
      <4>2. PartOf(m[1]) \in Parts
        BY Place, Typed, PartOfRow, FileFacts
      <4> QED  BY <2>9, <4>1, <4>2
    <3>3. CASE m = at
      BY <2>0, <2>8, <2>10, <3>3
    <3> QED  BY <3>1, <3>2, <3>3
  <2> QED  BY <1>2, <2>7, <2>10 DEF Shows
<1>6. CASE Extend
  <2>1. ~FrameInit
    BY <1>6 DEF Extend, FrameInit
  <2>2. Y' = Y /\ X' = X
    BY <1>6, Stays DEF Quiet
  <2>3. modes' = modes /\ \A p \in ready : coder'[p].over = coder[p].over
    BY <1>6, CoderOpened
  <2>4. \A m \in Mb : (Passed(m)' <=> Passed(m)) /\ (Passed(m) => PartOf(m[1]) \in ready)
    <3> SUFFICES ASSUME NEW m \in Mb
                 PROVE  (Passed(m)' <=> Passed(m)) /\ (Passed(m) => PartOf(m[1]) \in ready)
      OBVIOUS
    <3>1. m[1] \in 0..H - 1 /\ m[2] \in Nat /\ X \in Nat
      BY Place, Typed
    <3>2. Passed(m) => m[1] < Y \/ (m[1] = Y /\ X > 0)
      BY <3>1 DEF Passed
    <3> QED  BY <1>4, <2>1, <2>2, <3>1, <3>2 DEF RowInv, Windows, Passed
  <2> QED  BY <1>2, <1>4, <2>1, <2>3, <2>4 DEF Shows
<1>7. CASE ~FrameInit /\ ~Macroblock /\ ~Extend
  <2>1. coder' = coder /\ modes' = modes
    BY <1>7, CoderStays
  <2>2. \A m \in Mb : Passed(m)' <=> Passed(m)
    <3>1. CASE Quiet
      BY <3>1, Stays DEF Passed
    <3>2. CASE EndRow
      BY <3>2, RowPassed
    <3>3. CASE EndRowDry
      <4>1. Return("error") /\ failures \in Nat
        BY <3>3, Typed DEF EndRowDry
      <4>2. failures' = failures + 1
        BY <4>1 DEF Return
      <4>3. failures' # 0
        BY <4>1, <4>2
      <4> QED  BY <4>3
    <3> QED  BY <1>1, <1>7, <3>1, <3>2, <3>3 DEF Quiet, Next, DecodeRows, Stop
  <2> QED  BY <1>2, <1>4, <1>7, <2>1, <2>2 DEF Shows
<1> QED  BY <1>3, <1>5, <1>6, <1>7

\* Every action keeps what has run dry told.
LEMMA DryStep ==
    ASSUME RowInv, [Next]_vars
    PROVE  Dry'
<1>1. failures' > 0 => Failed'
  BY FailedStep
<1>2. Live' /\ failures' = 0 => Shows'
  BY ShowsStep
<1> QED  BY <1>1, <1>2, DryCoders DEF Dry, Failed, Shows

-----------------------------------------------------------------------------
(* What a frame comes to.                                                  *)

\* A frame that ends well has passed everything and run out of nothing.
LEMMA EndsWell ==
    ASSUME RowInv, EndFrame, status' = "done"
    PROVE  /\ failures = 0 /\ InStep /\ Behind /\ Y = H /\ X = 0
           /\ ~modes.over /\ \A p \in Parts : ~coder[p].over
<1>1. /\ call = "row" /\ at[1] = H
      /\ Return(IF modes.over \/ \E p \in Parts : coder[p].over THEN "error" ELSE "done")
  BY DEF EndFrame
<1>2. ~modes.over /\ ~\E p \in Parts : coder[p].over
  <2> SUFFICES ASSUME modes.over \/ \E p \in Parts : coder[p].over PROVE FALSE
    OBVIOUS
  <2>1. Return("error")
    BY <1>1
  <2> QED  BY <2>1 DEF Return
<1>3. Y = H /\ X = 0 /\ Live
  BY <1>1, AtRow DEF RowInv, Placed
<1>4. failures = 0
  <2>1. failures \in Nat /\ ~(failures > 0)
    BY <1>2, Typed DEF RowInv, Dry
  <2> QED  BY <2>1
<1> QED  BY <1>2, <1>3, <1>4, Steps

\* The pixels are filtered by two actions.
LEMMA FilterStays ==
    ASSUME RowInv, [Next]_vars, ~Reopen, ~Macroblock, ~EndRow, ~EndRowDry
    PROVE  luma' = luma /\ chroma' = chroma
  BY DEF Next, DecodeRows, Stop, vars, Arrive, HeaderNeedsMore, FrameInit, Extend,
     PartitionNeedsMore, StartRow, MbNeedsMore, EndFrame, pixelVars

\* Only the end of the last row makes a frame done.
LEMMA DoneBy ==
    ASSUME RowInv, [Next]_vars, status' = "done"
    PROVE  EndFrame \/ (status = "done" /\ ~Live /\ ~Reopen)
<1>1. ~Reopen
  BY DEF Reopen
<1>2. status = "done" => ~Live
  BY DEF RowInv, Placed
<1>3. CASE PartitionNeedsMore \/ MbNeedsMore
  BY <1>3, AsksRightly
<1>4. CASE EndRowDry
  BY <1>4 DEF EndRowDry, Return
<1>5. CASE HeaderNeedsMore
  BY <1>5 DEF HeaderNeedsMore
<1>6. CASE Arrive \/ FrameInit \/ Extend \/ StartRow \/ Macroblock \/ EndRow \/ UNCHANGED vars
  <2>1. status' = status
    BY <1>6 DEF Arrive, FrameInit, Extend, StartRow, Macroblock, EndRow, vars, callVars
  <2> QED  BY <1>1, <1>2, <2>1
<1> QED  BY <1>1, <1>3, <1>4, <1>5, <1>6 DEF Next, DecodeRows, Stop

\* A frame that is done is left alone.
LEMMA DoneStays ==
    ASSUME RowInv, [Next]_vars, status = "done", ~Live, ~Reopen
    PROVE  UNCHANGED <<file, parsed, luma, chroma>>
  BY DEF Next, DecodeRows, Stop, vars, Arrive, HeaderNeedsMore, FrameInit, Extend,
     PartitionNeedsMore, StartRow, MbNeedsMore, Macroblock, EndRow, EndRowDry, EndFrame,
     inVars, pixelVars, Live, InCall

\* Filtered with its own strength, and whole at the end.
LEMMA FilteredStep ==
    ASSUME RowInv, [Next]_vars
    PROVE  FilteredWhole'
<1>1. ASSUME failures' = 0, NEW m \in Mb
      PROVE  luma'[m] \in {None, m} /\ chroma'[m] \in {None, m}
  <2>1. CASE Live'
    <3>1. Behind'
      BY <1>1, <2>1, BehindStep
    <3> QED  BY <3>1 DEF Behind
  <2>2. CASE Reopen
    BY <2>2 DEF Reopen
  <2>3. CASE ~Live' /\ ~Reopen
    <3>1. ~Macroblock /\ ~EndRow
      BY <2>3 DEF Macroblock, EndRow, Live, InCall
    <3>2. ~EndRowDry
      <4> SUFFICES ASSUME EndRowDry PROVE FALSE
        OBVIOUS
      <4>1. Return("error") /\ failures \in Nat
        BY Typed DEF EndRowDry
      <4>2. failures' = failures + 1
        BY <4>1 DEF Return
      <4> QED  BY <1>1, <4>1, <4>2
    <3>3. luma' = luma /\ chroma' = chroma /\ failures = 0
      BY <1>1, <2>3, <3>1, <3>2, FilterStays, Failing
    <3> QED  BY <3>3 DEF RowInv, FilteredWhole
  <2> QED  BY <2>1, <2>2, <2>3
<1>2. ASSUME status' = "done"
      PROVE  /\ \A m \in Mb : parsed'[m] # None
             /\ Deblock' => \A m \in Mb : luma'[m] # None /\ chroma'[m] # None
  <2>1. CASE EndFrame
    <3>1. InStep /\ Behind /\ Y = H
      BY <1>2, <2>1, EndsWell
    <3>2. UNCHANGED <<file, parsed, luma, chroma>>
      BY <2>1 DEF EndFrame, inVars, pixelVars
    <3>3. \A m \in Mb : Passed(m) /\ LumaDone(m) /\ ChromaDone(m) /\ m # None
      BY <3>1, Place DEF Passed, LumaDone, ChromaDone
    <3> QED  BY <3>1, <3>2, <3>3, SameFile DEF InStep, Behind
  <2>2. CASE status = "done" /\ ~Live /\ ~Reopen
    <3>1. UNCHANGED <<file, parsed, luma, chroma>>
      BY <2>2, DoneStays
    <3>2. Deblock' = Deblock
      BY <3>1, SameFile
    <3> QED  BY <2>2, <3>1, <3>2 DEF RowInv, FilteredWhole, Parsed, Filtered
  <2> QED  BY <1>2, <2>1, <2>2, DoneBy
<1> QED  BY <1>1, <1>2 DEF FilteredWhole, Parsed, Filtered

\* A frame that is done was not damaged.
LEMMA DoneStep ==
    ASSUME RowInv, [Next]_vars, status' = "done"
    PROVE  ~Damaged'
<1>1. CASE EndFrame
  <2>1. /\ failures = 0 /\ InStep /\ Y = H /\ X = 0 /\ Live
        /\ ~modes.over /\ \A p \in Parts : ~coder[p].over
    BY <1>1, EndsWell, AtRow DEF EndFrame
  <2>2. file' = file /\ file \in Files
    BY <1>1, Typed DEF EndFrame, inVars
  <2>3. ~(file.modesDry < W * H)
    <3>1. modes.read = H * W + 0 /\ ~(modes.read > file.modesDry)
      BY <2>1 DEF InStep, RowInv, Dry
    <3>2. H * W + 0 = W * H /\ W * H \in Nat
      <4>1. H \in Nat /\ W \in Nat
        BY SizeAssumption
      <4> QED  BY <4>1
    <3>3. file.modesDry \in Nat
      <4>1. file.modesDry \in 0..W * H
        BY <2>2, FileFacts
      <4> QED  BY <4>1
    <3> QED  BY <3>1, <3>2, <3>3
  <2>4. ASSUME NEW m \in Mb PROVE ~(file.need[m] > file.size[PartOf(m[1])])
    <3>1. Passed(m)
      BY <2>1, Place DEF Passed
    <3>2. PartOf(m[1]) \in Parts
      BY <2>2, Place, PartOfRow, FileFacts
    <3> QED  BY <2>1, <3>1, <3>2 DEF RowInv, Dry
  <2>5. ~Damaged
    BY <2>3, <2>4 DEF Damaged
  <2> QED  BY <2>2, <2>5, SameFile
<1>2. CASE status = "done" /\ ~Live /\ ~Reopen
  <2>1. file' = file /\ ~Damaged
    BY <1>2, FileStays DEF RowInv
  <2> QED  BY <2>1, SameFile
<1> QED  BY <1>1, <1>2, DoneBy

\* A frame that fails was.
LEMMA FailsStep ==
    ASSUME RowInv, [Next]_vars
    PROVE  /\ Clear' => FailsIfDamaged'
           /\ status' = "done" => ~Damaged'
<1>1. status' = "error" => failures' > 0
  BY PlacedStep DEF Placed
<1>2. Clear' /\ failures' > 0 => Damaged'
  BY DryStep DEF Dry
<1> QED  BY <1>1, <1>2, DoneStep DEF FailsIfDamaged

-----------------------------------------------------------------------------
(* The invariant holds.                                                    *)

\* The decoder starts in step.
LEMMA RowInvInit ==
    ASSUME Init
    PROVE  RowInv
<1>1. /\ W \in Nat \ {0} /\ H \in Nat \ {0} /\ file \in Files /\ Total \in Nat
      /\ MaxReopened \in Nat /\ MaxFailures \in Nat
  BY SizeAssumption, TotalCovers DEF Init
<1>2. ~InCall /\ ~Live /\ Y = 0 /\ X = 0
  BY DEF Init, InCall, Live, Y, X
<1>3. TypeOK
  <2>1. /\ avail \in -1..Total /\ reopened \in 0..MaxReopened /\ failures \in 0..MaxFailures + 1
        /\ at \in (0..H) \X (0..W) /\ mbY \in 0..H /\ mbX \in 0..W - 1 /\ rowsDone \in 0..H
    BY <1>1 DEF Init
  <2>2. modes \in [read : Nat, over : BOOLEAN] /\ coder \in [Parts -> Coder]
    BY DEF Init, Coder, Unopened
  <2>3. /\ {modeLeft, nnzLeft} \subseteq Mb \cup {None}
        /\ {modeTop, nnzTop} \subseteq [0..W - 1 -> Mb \cup {None}]
        /\ {luma, chroma} \subseteq [Mb -> Mb \cup {None}]
    BY DEF Init
  <2> QED  BY <1>1, <2>1, <2>2, <2>3 DEF TypeOK, Init
<1>4. Placed
  BY <1>1, <1>2 DEF Placed, Init
<1>5. Fresh
  BY DEF Fresh, Init
<1>6. Windows
  BY <1>2 DEF Windows, Init, InCall
<1>7. Dry
  BY <1>2 DEF Dry, Init, Unopened
<1>8. DOMAIN parsed = Mb /\ ParsedAsWhole /\ ParsedFromData /\ PredictedFromUnfiltered /\ FilteredWhole
  BY DEF Init, ParsedAsWhole, ParsedFromData, PredictedFromUnfiltered, FilteredWhole, Parsed
<1>9. FailsIfDamaged /\ status # "done"
  BY DEF Init, FailsIfDamaged
<1> QED  BY <1>2, <1>3, <1>4, <1>5, <1>6, <1>7, <1>8, <1>9 DEF RowInv

\* Every action keeps it so.
LEMMA RowInvStep ==
    ASSUME RowInv, [Next]_vars
    PROVE  RowInv'
<1>1. TypeOK' /\ Placed' /\ Fresh' /\ Windows' /\ Dry' /\ DOMAIN parsed' = Mb
  BY TypeStep, PlacedStep, FreshStep, WindowsStep, DryStep, RecordedStep
<1>2. Live' /\ failures' = 0 => InStep' /\ Behind'
  BY InStepStep, BehindStep
<1>3. ParsedAsWhole' /\ ParsedFromData' /\ PredictedFromUnfiltered' /\ FilteredWhole'
  BY ParsedStep, PredictedStep, FilteredStep
<1>4. (Clear' => FailsIfDamaged') /\ (status' = "done" => ~Damaged')
  BY FailsStep
<1> QED  BY <1>1, <1>2, <1>3, <1>4 DEF RowInv

\* vp8_lossy_step() and the row loop it calls, wherever the data ends and
\* however often: the coders, contexts, windows and the filter stay in step
\* with the macroblock the frame has come to (frame_init, extend,
\* decode_rows_planes, reconstruct_mb, finish_row).
THEOREM RowsKeepInStep == Spec => []RowInv
<1>1. Init => RowInv
  BY RowInvInit
<1>2. RowInv /\ [Next]_vars => RowInv'
  BY RowInvStep
<1> QED  BY <1>1, <1>2, PTL DEF Spec

\* Each macroblock that stays was parsed from where decoding the frame at once
\* would parse it, and from bytes that were there (save_mb_state,
\* restore_mb_state, partition_clamped).
THEOREM ParsedInStepAlways == Spec => []ParsedInStep
<1>1. RowInv => ParsedInStep
  BY DEF RowInv, ParsedInStep
<1> QED  BY <1>1, RowsKeepInStep, PTL

\* Prediction never reads what the loop filter has changed, each macroblock is
\* filtered with its own strength, and a finished frame is filtered whole
\* (reconstruct_mb, finish_row, filter_strength).
THEOREM FilterFollowsAlways == Spec => []FilterFollows
<1>1. RowInv => FilterFollows
  BY DEF RowInv, FilterFollows
<1> QED  BY <1>1, RowsKeepInStep, PTL

\* The first frame a decoder is given, and any other among frames of as many
\* partitions, fails only if it is damaged and then does not succeed
\* (decode_rows_tmpl, ran_dry, next_picture).  After a frame of more partitions
\* it may fail undamaged: that is what the run of StaleFiles shows.
THEOREM FailsIfDamagedAlways == Spec => [](Clear => FailsIfDamaged)
<1>1. RowInv => (Clear => FailsIfDamaged)
  BY DEF RowInv
<1> QED  BY <1>1, RowsKeepInStep, PTL

\* A frame that succeeds is undamaged, whatever was decoded before it: every
\* coder that ran dry has shown by its end (ran_dry, decode_rows_tmpl).
THEOREM DoneIsWhole == Spec => [](status = "done" => ~Damaged)
<1>1. RowInv => (status = "done" => ~Damaged)
  BY DEF RowInv
<1> QED  BY <1>1, RowsKeepInStep, PTL

-----------------------------------------------------------------------------
(* The rows given out.                                                     *)

\* How far up the filter reaches from a macroblock's own rows.
Up(n) == IF file.filter = "off" \/ (n = 8 /\ file.filter = "simple") THEN 0 ELSE Out(n)

\* What is yet to change is below the rows counted, but for the filter's reach.
LEMMA ChangesBelow ==
    ASSUME RowInv, active, failures = 0, NEW n \in {8, 16}, NEW f,
           Deblock => \A m \in Mb : f[m] = None => ~LumaDone(m) \/ ~ChromaDone(m),
           NEW y \in ToChange(n, f)
    PROVE  y \in Nat /\ rowsDone \in Nat /\ rowsDone < H /\ y >= n * rowsDone - Up(n)
<1>1. /\ Live /\ rowsDone \in Nat /\ Y \in Nat /\ X \in Nat /\ H \in Nat
      /\ file.filter \in Filters
  BY Typed, FileFacts DEF Live
<1>2. InStep /\ Behind
  BY <1>1, Steps
<1>3. rowsDone <= Y /\ (Deblock /\ rowsDone > 0 => rowsDone + 1 <= Y)
  BY <1>2 DEF Behind
<1>4. Up(n) \in Nat
  BY DEF Up, Out
<1>5. CASE \E m \in Mb \ Parsed : y = n * m[1]
  <2>1. PICK m \in Mb \ Parsed : y = n * m[1]
    BY <1>5
  <2>2. m[1] \in Nat /\ m[2] \in Nat /\ m[1] < H
    BY Place
  <2>3. m[1] >= Y
    <3>1. ~Passed(m)
      BY <1>2 DEF InStep, Parsed
    <3> QED  BY <1>1, <2>2, <3>1 DEF Passed
  <2> QED
    <3>1. m[1] >= rowsDone
      BY <1>1, <1>3, <2>2, <2>3
    <3> HIDE DEF Up
    <3>2. CASE n = 8
      BY <1>1, <1>4, <2>1, <2>2, <3>1, <3>2
    <3>3. CASE n = 16
      BY <1>1, <1>4, <2>1, <2>2, <3>1, <3>3
    <3> QED  BY <3>2, <3>3
<1>6. CASE Deblock /\ \E m \in Mb \ Filtered(f) : \E b \in Writes(n, m) : y = b.y0
  <2>0. PICK m \in Mb \ Filtered(f) : \E b \in Writes(n, m) : y = b.y0
    BY <1>6
  <2>1. PICK b \in Writes(n, m) : y = b.y0
    BY <2>0
  <2>2. m[1] \in Nat /\ m[2] \in Nat /\ m[1] < H
    BY Place
  <2>3. m[1] >= rowsDone
    <3>1. ~LumaDone(m) \/ ~ChromaDone(m)
      BY <1>6 DEF Filtered
    <3>2. ~(m[1] + 1 < Y)
      BY <3>1 DEF LumaDone, ChromaDone
    <3> QED  BY <1>1, <1>3, <1>6, <2>2, <3>2
  <2>4. y = n * m[1] \/ (m[1] # 0 /\ y = n * m[1] - Up(n))
    <3>1. ~(n = 8 /\ file.filter = "simple")
      BY <2>1 DEF Writes
    <3>2. Up(n) = Out(n)
      BY <1>6, <3>1 DEF Up, Deblock
    <3>3. y = n * m[1] \/ y = (IF m[1] = 0 THEN n * m[1] ELSE n * m[1] - Out(n))
      BY <2>1, <3>1 DEF Writes, Box
    <3> QED  BY <3>2, <3>3
  <2>5. Up(n) <= 3
    BY DEF Up, Out
  <2> QED
    <3> HIDE DEF Up
    <3>2. CASE n = 8
      BY <1>1, <1>4, <2>2, <2>3, <2>4, <2>5, <3>2
    <3>3. CASE n = 16
      BY <1>1, <1>4, <2>2, <2>3, <2>4, <2>5, <3>3
    <3> QED  BY <3>2, <3>3
<1> QED  BY <1>5, <1>6 DEF ToChange

\* The numbers of rows_finalized() and partial_picture(), by filter and mode.
LEMMA RowsGiven ==
    ASSUME NEW d \in Nat, NEW extra \in {0, 2, 8}, NEW rows,
           rows = IF 16 * d - extra < 0 THEN 0 ELSE 16 * d - extra,
           NEW l \in Nat, l >= 16 * d - (IF extra = 0 THEN 0 ELSE IF extra = 2 THEN 1 ELSE 3)
    PROVE  rows \in Nat /\ l >= rows
  OBVIOUS

\* The chroma of the rows counted is not reached either.
LEMMA ChromaGiven ==
    ASSUME NEW d \in Nat, NEW extra \in {0, 2, 8}, NEW rows,
           rows = IF 16 * d - extra < 0 THEN 0 ELSE 16 * d - extra,
           NEW c \in Nat, c >= 8 * d - (IF extra = 8 THEN 3 ELSE 0)
    PROVE  c >= (rows + 1) \div 2
<1>1. CASE extra = 0
  BY <1>1
<1>2. CASE extra = 2
  BY <1>2
<1>3. CASE extra = 8
  BY <1>3
<1> QED  BY <1>1, <1>2, <1>3

\* Nor is that the last row shown is interpolated from.
LEMMA ChromaShown ==
    ASSUME NEW d \in Nat, NEW extra \in {0, 2, 8}, NEW rows,
           rows = IF 16 * d - extra < 0 THEN 0 ELSE 16 * d - extra,
           NEW c \in Nat, c >= 8 * d - (IF extra = 8 THEN 3 ELSE 0),
           NEW back \in {1, 4, 10}, NEW s, s = IF rows < back THEN 0 ELSE rows - back, s > 0, rows # 0
    PROVE  /\ back = 1 => c > (s - 1) \div 2 /\ c > ((s - 1) + 1) \div 2
           /\ back = 4 => c > ((s - 1) \div 2) + 1 + ((s - 1) % 2)
           /\ back = 10 => c > ((s - 1) \div 2) + 4 + ((s - 1) % 2)
<1> DEFINE e == IF extra = 8 THEN 3 ELSE 0
           t == s - 1
<1>1. t = 16 * d - extra - back - 1 /\ t \in Nat
  BY DEF t
<1>2. /\ t \div 2 \in Nat /\ t % 2 \in 0..1 /\ t = 2 * (t \div 2) + (t % 2)
      /\ (t + 1) \div 2 \in Nat /\ (t + 1) % 2 \in 0..1 /\ t + 1 = 2 * ((t + 1) \div 2) + ((t + 1) % 2)
  BY <1>1, Divided
<1>3. c >= 8 * d - e /\ 2 * e <= extra /\ e \in {0, 3} /\ extra - 2 * e \in {0, 2}
  OBVIOUS
<1> HIDE DEF t, e
<1>4. CASE back = 1
  <2>1. c > t \div 2 /\ c > (t + 1) \div 2
    BY <1>1, <1>2, <1>3, <1>4
  <2> QED  BY <1>4, <2>1 DEF t
<1>5. CASE back = 4
  <2>1. c > (t \div 2) + 1 + (t % 2)
    BY <1>1, <1>2, <1>3, <1>5
  <2> QED  BY <1>5, <2>1 DEF t
<1>6. CASE back = 10
  <2>1. c > (t \div 2) + 4 + (t % 2)
    BY <1>1, <1>2, <1>3, <1>6
  <2> QED  BY <1>6, <2>1 DEF t
<1> QED  BY <1>4, <1>5, <1>6

\* What rows_finalized() takes off for the filter.
Extra == IF file.filter = "off" THEN 0 ELSE IF file.filter = "simple" THEN 2 ELSE 8

\* So what is yet to change is below what is given out.
LEMMA RowsFinal ==
    ASSUME RowInv, active, failures = 0
    PROVE  Final
<1>1. /\ rowsDone \in Nat /\ H \in Nat \ {0} /\ file.filter \in Filters /\ Live
  BY Typed, FileFacts DEF Live
<1>2. Behind
  BY <1>1, Steps
<1>3. /\ Deblock => \A m \in Mb : luma[m] = None => ~LumaDone(m)
      /\ Deblock => \A m \in Mb : chroma[m] = None => ~ChromaDone(m)
  BY <1>2, Place DEF Behind
<1>4. rowsDone < H => RowsFinalized = (IF 16 * rowsDone - Extra < 0 THEN 0 ELSE 16 * rowsDone - Extra)
  <2>1. CASE file.filter = "off"
    BY <1>1, <2>1 DEF RowsFinalized, Extra
  <2>2. CASE file.filter = "simple"
    BY <1>1, <2>2 DEF RowsFinalized, Extra
  <2>3. CASE file.filter = "normal"
    BY <1>1, <2>3 DEF RowsFinalized, Extra
  <2> QED  BY <1>1, <2>1, <2>2, <2>3 DEF Filters
<1>5. Extra \in {0, 2, 8}
  BY DEF Extra
<1>6. /\ Up(16) = IF Extra = 0 THEN 0 ELSE IF Extra = 2 THEN 1 ELSE 3
      /\ Up(8) = IF Extra = 8 THEN 3 ELSE 0
  BY <1>1 DEF Up, Extra, Out, Filters
<1> HIDE DEF Extra
<1>7. ASSUME NEW y \in ToChange(16, luma) PROVE y >= RowsFinalized
  <2>1. y \in Nat /\ rowsDone < H /\ y >= 16 * rowsDone - Up(16)
    BY <1>3, ChangesBelow
  <2> QED  BY <1>1, <1>4, <1>5, <1>6, <2>1, RowsGiven
<1>8. ASSUME NEW y \in ToChange(8, chroma)
      PROVE  y \in Nat /\ rowsDone < H /\ y >= 8 * rowsDone - (IF Extra = 8 THEN 3 ELSE 0)
  <2>1. y \in Nat /\ rowsDone < H /\ y >= 8 * rowsDone - Up(8)
    BY <1>3, ChangesBelow
  <2> QED  BY <1>6, <2>1
<1>9. ASSUME NEW y \in ToChange(8, chroma) PROVE y >= (RowsFinalized + 1) \div 2
  BY <1>1, <1>4, <1>5, <1>8, ChromaGiven
<1>10. ASSUME NEW y \in ToChange(8, chroma), NEW mode \in Sampling,
              RowsShown(mode) > 0, RowsShown(mode) < 16 * H
       PROVE  y > ChromaOf(mode, RowsShown(mode) - 1)
  <2> DEFINE rows == RowsFinalized
             s == RowsShown(mode)
             back == IF mode = "ExtraFancy" THEN 10 ELSE IF mode = "FastFancy" THEN 4 ELSE 1
  <2>1. rows = (IF 16 * rowsDone - Extra < 0 THEN 0 ELSE 16 * rowsDone - Extra)
    BY <1>4, <1>8
  <2>2. s = (IF rows < back THEN 0 ELSE rows - back) /\ rows # 0
    <3>1. s = IF rows = 0 \/ rows = 16 * H THEN rows ELSE IF rows < back THEN 0 ELSE rows - back
      <4>1. CASE mode = "ExtraFancy"
        BY <4>1 DEF RowsShown
      <4>2. CASE mode = "FastFancy"
        BY <4>2 DEF RowsShown
      <4>3. CASE mode # "ExtraFancy" /\ mode # "FastFancy"
        BY <4>3 DEF RowsShown
      <4> QED  BY <4>1, <4>2, <4>3
    <3>2. s > 0 /\ s < 16 * H
      BY <1>10
    <3> HIDE DEF rows, s, back
    <3>3. rows # 0 /\ rows # 16 * H
      BY <1>1, <3>1, <3>2
    <3> QED  BY <3>1, <3>3
  <2>3. back \in {1, 4, 10} /\ s > 0
    BY <1>10
  <2> HIDE DEF rows, s
  <2>4. /\ back = 1 => y > (s - 1) \div 2 /\ y > ((s - 1) + 1) \div 2
        /\ back = 4 => y > ((s - 1) \div 2) + 1 + ((s - 1) % 2)
        /\ back = 10 => y > ((s - 1) \div 2) + 4 + ((s - 1) % 2)
    <3> HIDE DEF back
    <3> QED  BY <1>1, <1>5, <1>8, <2>1, <2>2, <2>3, ChromaShown
  <2>5. y > ChromaOf(mode, s - 1)
    <3>1. CASE mode = "Point"
      BY <2>4, <3>1 DEF ChromaOf
    <3>2. CASE mode = "Fancy"
      BY <2>4, <3>2 DEF ChromaOf
    <3>3. CASE mode = "FastFancy"
      BY <2>4, <3>3 DEF ChromaOf
    <3>4. CASE mode = "ExtraFancy"
      BY <2>4, <3>4 DEF ChromaOf
    <3> QED  BY <3>1, <3>2, <3>3, <3>4 DEF Sampling
  <2> QED  BY <2>5 DEF s
<1> QED  BY <1>7, <1>9, <1>10 DEF Final

\* The rows rows_finalized() counts are not written again, nor is the chroma
\* they are shown with in any mode of upsampling (partial_picture).
THEOREM FinalRowsStayAlways == Spec => []FinalRowsStay
<1>1. RowInv => FinalRowsStay
  BY RowsFinal DEF FinalRowsStay
<1> QED  BY <1>1, RowsKeepInStep, PTL
=============================================================================
