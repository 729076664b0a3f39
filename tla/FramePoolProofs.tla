--------------------------- MODULE FramePoolProofs ---------------------------
(***************************************************************************)
(* What FramePool promises, proved for every set of threads, every ceiling *)
(* on frames in flight, every thread option and every length of run.       *)
(*                                                                         *)
(* One inductive invariant, Inv, carries all of it: the counter            *)
(* queue.running is the number of threads decoding, which the turns bound; *)
(* a turn is lent only while a thread decodes the frame the calling thread *)
(* waits on; each frame owed is in one place; and every thread that exists *)
(* is one a starter, or the pool, will join.  Each part is preserved by a  *)
(* lemma of its own, named after it.                                       *)
(***************************************************************************)
EXTENDS FramePool, FiniteSetTheorems, SequenceTheorems, TLAPS

-----------------------------------------------------------------------------
(* Sequences of frames.                                                    *)

LEMMA ConcatFrames ==
    ASSUME NEW S, NEW s \in Seq(S), NEW r \in Seq(S)
    PROVE  /\ s \o r \in Seq(S)
           /\ Elements(s \o r) = Elements(s) \cup Elements(r)
           /\ Distinct(s) /\ Distinct(r) /\ Elements(s) \cap Elements(r) = {}
                  => Distinct(s \o r)
<1>1. /\ s \o r \in Seq(S) /\ Len(s \o r) = Len(s) + Len(r)
      /\ \A i \in 1..Len(s) + Len(r) :
             (s \o r)[i] = IF i <= Len(s) THEN s[i] ELSE r[i - Len(s)]
  BY ConcatProperties
<1>2. /\ DOMAIN s = 1..Len(s) /\ DOMAIN r = 1..Len(r)
      /\ DOMAIN (s \o r) = 1..Len(s \o r)
      /\ Len(s) \in Nat /\ Len(r) \in Nat
  BY <1>1, LenProperties
<1>3. \A i \in DOMAIN s : i \in DOMAIN (s \o r) /\ (s \o r)[i] = s[i]
  BY <1>1, <1>2
<1>4. \A i \in DOMAIN r : i + Len(s) \in DOMAIN (s \o r) /\ (s \o r)[i + Len(s)] = r[i]
  BY <1>1, <1>2
<1>5. \A i \in DOMAIN (s \o r) :
         \/ i \in DOMAIN s /\ (s \o r)[i] = s[i]
         \/ i - Len(s) \in DOMAIN r /\ (s \o r)[i] = r[i - Len(s)]
  BY <1>1, <1>2
<1> DEFINE c == s \o r
<1> HIDE DEF c
<1>6. Elements(c) = Elements(s) \cup Elements(r)
  <2>1. /\ \A i \in DOMAIN s : i \in DOMAIN c /\ c[i] = s[i]
        /\ \A i \in DOMAIN r : i + Len(s) \in DOMAIN c /\ c[i + Len(s)] = r[i]
        /\ \A i \in DOMAIN c : \/ i \in DOMAIN s /\ c[i] = s[i]
                               \/ i - Len(s) \in DOMAIN r /\ c[i] = r[i - Len(s)]
    BY <1>3, <1>4, <1>5 DEF c
  <2>2. Elements(s) \subseteq Elements(c)
    BY <2>1 DEF Elements
  <2>3. Elements(r) \subseteq Elements(c)
    BY <2>1 DEF Elements
  <2>4. Elements(c) \subseteq Elements(s) \cup Elements(r)
    BY <2>1 DEF Elements
  <2> QED  BY <2>2, <2>3, <2>4
<1>7. ASSUME Distinct(s), Distinct(r), Elements(s) \cap Elements(r) = {}
      PROVE  Distinct(c)
  <2> SUFFICES ASSUME NEW i \in DOMAIN c, NEW k \in DOMAIN c, c[i] = c[k]
               PROVE  i = k
    BY DEF Distinct
  <2>1. \A j \in DOMAIN s, l \in DOMAIN r : s[j] # r[l]
    BY <1>7 DEF Elements
  <2>2. i \in Int /\ k \in Int /\ Len(s) \in Int
    BY <1>1, <1>2 DEF c
  <2>3. \/ i \in DOMAIN s /\ k \in DOMAIN s /\ s[i] = s[k]
        \/ i - Len(s) \in DOMAIN r /\ k - Len(s) \in DOMAIN r
           /\ r[i - Len(s)] = r[k - Len(s)]
    BY <1>5, <2>1 DEF c
  <2>4. i = k \/ i - Len(s) = k - Len(s)
    BY <1>7, <2>3 DEF Distinct
  <2> QED  BY <2>2, <2>4
<1> QED  BY <1>1, <1>6, <1>7 DEF c

LEMMA FirstFrame ==
    ASSUME NEW S, NEW s \in Seq(S), s # <<>>, Distinct(s)
    PROVE  /\ Head(s) \in S /\ Tail(s) \in Seq(S)
           /\ Head(s) \in Elements(s)
           /\ Elements(Tail(s)) = Elements(s) \ {Head(s)}
           /\ Distinct(Tail(s))
<1>1. /\ Head(s) \in S /\ Tail(s) \in Seq(S) /\ Len(Tail(s)) = Len(s) - 1
      /\ \A i \in 1..Len(Tail(s)) : Tail(s)[i] = s[i + 1]
  BY HeadTailProperties
<1>2. /\ DOMAIN s = 1..Len(s) /\ DOMAIN Tail(s) = 1..Len(s) - 1
      /\ Len(s) \in Nat \ {0}
  BY <1>1, LenProperties, EmptySeq
<1>3. 1 \in DOMAIN s /\ Head(s) = s[1]
  BY <1>2
<1>4. \A i \in DOMAIN Tail(s) : i + 1 \in DOMAIN s /\ Tail(s)[i] = s[i + 1] /\ i + 1 # 1
  BY <1>1, <1>2
<1>5. \A i \in DOMAIN s : i # 1 => i - 1 \in DOMAIN Tail(s) /\ Tail(s)[i - 1] = s[i]
  BY <1>1, <1>2
<1>6. Elements(Tail(s)) = Elements(s) \ {Head(s)}
  <2>1. \A i \in DOMAIN s : i # 1 => s[i] # Head(s)
    BY <1>3 DEF Distinct
  <2>2. Elements(Tail(s)) \subseteq Elements(s) \ {Head(s)}
    BY <1>4, <2>1 DEF Elements
  <2>3. Elements(s) \ {Head(s)} \subseteq Elements(Tail(s))
    BY <1>3, <1>5 DEF Elements
  <2> QED  BY <2>2, <2>3
<1>7. Distinct(Tail(s))
  BY <1>2, <1>4 DEF Distinct
<1> QED  BY <1>1, <1>3, <1>6, <1>7 DEF Elements

\* Taking element k out, as VecDeque::remove does.
LEMMA WithoutFrame ==
    ASSUME NEW S, NEW s \in Seq(S), Distinct(s), NEW k \in DOMAIN s
    PROVE  LET r == SubSeq(s, 1, k - 1) \o SubSeq(s, k + 1, Len(s))
           IN  r \in Seq(S) /\ Elements(r) = Elements(s) \ {s[k]} /\ Distinct(r)
<1> DEFINE a == SubSeq(s, 1, k - 1)
           b == SubSeq(s, k + 1, Len(s))
<1>1. DOMAIN s = 1..Len(s) /\ Len(s) \in Nat /\ k \in 1..Len(s)
  BY LenProperties
<1>2. \A i \in 1..Len(s) : s[i] \in S
  BY ElementOfSeq
<1>3. /\ a \in Seq(S) /\ Len(a) = k - 1
      /\ \A i \in 1..k - 1 : a[i] = s[i]
  <2>1. k - 1 \in Int /\ \A i \in 1..k - 1 : s[i] \in S
    BY <1>1, <1>2
  <2>2. /\ a \in Seq(S) /\ Len(a) = IF 1 <= k - 1 THEN k - 1 - 1 + 1 ELSE 0
        /\ \A i \in 1..k - 1 - 1 + 1 : a[i] = s[1 + i - 1]
    BY <2>1, SubSeqProperties
  <2> QED  BY <1>1, <2>2
<1>4. /\ b \in Seq(S) /\ Len(b) = Len(s) - k
      /\ \A i \in 1..Len(s) - k : b[i] = s[k + i]
  <2>1. /\ k + 1 \in Int /\ Len(s) \in Int
        /\ \A i \in k + 1..Len(s) : s[i] \in S
    BY <1>1, <1>2
  <2>2. /\ b \in Seq(S)
        /\ Len(b) = IF k + 1 <= Len(s) THEN Len(s) - (k + 1) + 1 ELSE 0
        /\ \A i \in 1..Len(s) - (k + 1) + 1 : b[i] = s[k + 1 + i - 1]
    BY <2>1, SubSeqProperties
  <2> QED  BY <1>1, <2>2
<1>5. /\ DOMAIN a = 1..k - 1 /\ DOMAIN b = 1..Len(s) - k
  BY <1>3, <1>4, LenProperties
<1> HIDE DEF a, b
<1>6. /\ \A i \in DOMAIN a : i \in DOMAIN s /\ i < k /\ a[i] = s[i]
      /\ \A i \in DOMAIN b : k + i \in DOMAIN s /\ k + i > k /\ b[i] = s[k + i]
  BY <1>1, <1>3, <1>4, <1>5
<1>7. Distinct(a) /\ Distinct(b) /\ Elements(a) \cap Elements(b) = {}
  BY <1>1, <1>5, <1>6 DEF Distinct, Elements
<1>8. \A i \in DOMAIN s : i = k \/ i \in DOMAIN a \/ i - k \in DOMAIN b
  BY <1>1, <1>5
<1>9. Elements(a) \cup Elements(b) = Elements(s) \ {s[k]}
  <2>1. \A i \in DOMAIN s : i - k \in DOMAIN b => b[i - k] = s[i]
    BY <1>1, <1>4, <1>5
  <2> QED  BY <1>1, <1>6, <1>8, <2>1 DEF Elements, Distinct
<1>10. /\ a \o b \in Seq(S) /\ Elements(a \o b) = Elements(s) \ {s[k]}
       /\ Distinct(a \o b)
  BY <1>3, <1>4, <1>7, <1>9, ConcatFrames
<1> QED  BY <1>10 DEF a, b

\* The frames of the first batch, and a frame on its own.
LEMMA BatchFrames ==
    ASSUME NEW n \in 0..MaxJobs
    PROVE  LET s == [k \in 1..n |-> k]
           IN  s \in Seq(Index) /\ Elements(s) = 1..n /\ Distinct(s)
<1> DEFINE s == [k \in 1..n |-> k]
<1>1. n \in Nat /\ s \in [1..n -> Index]
  BY MaxJobsAssumption DEF Index
<1>2. s \in Seq(Index)
  BY <1>1, SeqDef
<1>3. Elements(s) = 1..n /\ Distinct(s)
  BY DEF Elements, Distinct
<1> QED  BY <1>2, <1>3

LEMMA OneFrame ==
    ASSUME NEW i \in Index
    PROVE  <<i>> \in Seq(Index) /\ Elements(<<i>>) = {i} /\ Distinct(<<i>>)
<1>1. <<i>> \in Seq(Index) /\ DOMAIN <<i>> = 1..1 /\ <<i>>[1] = i
  OBVIOUS
<1> QED  BY <1>1 DEF Elements, Distinct

LEMMA NoFrames == <<>> \in Seq(Index) /\ Elements(<<>>) = {} /\ Distinct(<<>>)
<1>1. <<>> \in Seq(Index) /\ DOMAIN <<>> = {}
  BY EmptySeq
<1> QED  BY <1>1 DEF Elements, Distinct
-----------------------------------------------------------------------------
(* The inductive invariant.                                                *)

InTurn(q) == q.running <= Size /\ (q.lent = None => q.running <= Beside)

\* The threads a starter has still to join, and the starters the pool has,
\* are all there are.
Joinable ==
    /\ \A t \in Thread :
           at[t] # "free" => t \in starters \/ \E s \in Thread : t \in started[s]
    /\ \A s \in Thread : at[s] \in {"free", "over"} => started[s] = {}
    /\ \A s \in Thread : s \notin starters => started[s] = {}
    /\ \A s \in Thread : at[s] = "starting" => s \in starters

\* What the walk's work is spread over leaves the pool the turns it may use
\* while that work runs.
Spreading ==
    IF call = "composite"
    THEN spread + Lesser(queue.running + Len(queue.waiting), Beside) <= budget
    ELSE spread = 1

Inv ==
    /\ TypeOK
    /\ \A t \in Decoding : job[t] \in Index
    /\ queue.running = Cardinality(Decoding)
    /\ call # "no pool" => budget \in Threads /\ InTurn(queue)
    /\ call = "submit: start" => more > 0
    /\ call \in {"collect", "collect asleep", "decode"} => want \in owed
    /\ owed \subseteq 1..handed
    /\ Dropping => owed = {} /\ queue.waiting = <<>>
    /\ LentForAFrameInProgress
    /\ EachFrameInOnePlace
    /\ NoThreadOutlivesThePool
    /\ Joinable
    /\ Spreading

LEMMA Sizes ==
    ASSUME budget \in Threads
    PROVE  /\ Size \in Nat /\ Beside \in Nat
           /\ Size <= budget /\ Beside <= budget - 1
           /\ Size - 1 <= Beside /\ Beside <= Size
  BY ThreadsAssumption, MaxSlotsAssumption DEF Size, Beside, Lesser

LEMMA WithOneMore ==
    ASSUME NEW n \in Nat, NEW m \in Nat, NEW b \in Nat, n <= m
    PROVE  /\ m <= b - 1 => n + 1 <= b
           /\ m <= b => n + 0 <= b
  OBVIOUS

LEMMA Sums ==
    ASSUME NEW n \in Nat, NEW m \in Nat, NEW s \in Nat, NEW b \in Nat,
           n <= m, s + m <= b
    PROVE  n + s <= b
  OBVIOUS

LEMMA PlusCommutes ==
    ASSUME NEW n \in Nat, NEW s \in Nat
    PROVE  n + s = s + n
  OBVIOUS

LEMMA LesserMonotone ==
    ASSUME NEW a \in Nat, NEW b \in Nat, NEW c \in Nat, a <= b
    PROVE  Lesser(a, c) <= Lesser(b, c) /\ Lesser(a, c) \in Nat /\ Lesser(b, c) \in Nat
  BY DEF Lesser

LEMMA LesserOfSum ==
    ASSUME NEW n \in Nat, NEW l \in Nat, NEW c \in Nat
    PROVE  /\ n + l \in Nat /\ Lesser(n + l, c) \in Nat
           /\ n <= c => n <= Lesser(n + l, c)
  BY DEF Lesser

LEMMA CountDecoding == IsFiniteSet(Decoding) /\ Cardinality(Decoding) \in Nat
<1>1. Decoding \in SUBSET Thread
  BY DEF Decoding
<1> QED  BY <1>1, FS_Subset, FS_CardinalityType, ThreadAssumption

LEMMA WakingKeepsDecoding ==
    ASSUME NEW a \in [Thread -> Places], NEW b,
           b = Woken(a) \/ NotifyOne(a, b)
    PROVE  /\ b \in [Thread -> Places]
           /\ \A t \in Thread : b[t] = a[t] \/ (a[t] = "asleep" /\ b[t] = "ready")
  BY DEF Woken, NotifyOne, Asleep, Places

\* What walk_threads() returns is at least one, and fits beside the pool.
LEMMA WalkThreadsFit ==
    ASSUME queue \in Queues, budget \in Threads
    PROVE  /\ WalkThreads \in Nat \ {0}
           /\ WalkThreads + Lesser(queue.running + Len(queue.waiting), Beside) <= budget
<1> DEFINE busy == Lesser(queue.running + Len(queue.waiting), Beside)
<1>1. /\ Beside \in Nat /\ Beside <= budget - 1 /\ budget \in Nat
      /\ queue.running \in Nat /\ Len(queue.waiting) \in Nat
  BY Sizes, ThreadsAssumption, LenProperties DEF Queues
<1>2. busy \in Nat /\ busy <= Beside
  BY <1>1 DEF Lesser
<1>3. WalkThreads = IF budget - busy > 1 THEN budget - busy ELSE 1
  BY DEF WalkThreads
<1> HIDE DEF busy
<1>4. WalkThreads \in Nat \ {0} /\ WalkThreads + busy <= budget
  BY <1>1, <1>2, <1>3
<1> QED  BY <1>4 DEF busy

\* A thread that comes to the head of the loop, the others decoding in D.
LEMMA LoopHeadStep ==
    ASSUME NEW t \in Thread, NEW q \in Queues, at \in [Thread -> Places],
           job \in [Thread -> Index \cup {None}],
           at[t] # "asleep", LoopHead(t, q),
           \A s \in Decoding : job[s] \in Index,
           budget \in Threads, UNCHANGED budget, InTurn(q),
           q.running = Cardinality(Decoding \ {t})
    PROVE  /\ queue' \in Queues /\ at' \in [Thread -> Places]
           /\ job' \in [Thread -> Index \cup {None}]
           /\ queue'.running = Cardinality(Decoding')
           /\ InTurn(queue)' /\ queue'.lent = q.lent
           /\ queue'.running + Len(queue'.waiting) = q.running + Len(q.waiting)
           /\ Decoding \ {t} \subseteq Decoding'
           /\ \A s \in Decoding \ {t} : job'[s] = job[s]
           /\ \A s \in Decoding' : job'[s] \in Index
<1> DEFINE D == Decoding \ {t}
<1>1. IsFiniteSet(D) /\ Cardinality(D) \in Nat
  BY CountDecoding, FS_RemoveElement, FS_CardinalityType
<1>2. CASE Take(t, q)
  <2>1. /\ queue' = [q EXCEPT !.waiting = Tail(q.waiting), !.running = @ + 1]
        /\ job' = [job EXCEPT ![t] = Head(q.waiting)]
        /\ q.waiting # <<>> /\ q.running < Turns(q)
    BY <1>2 DEF Take, CanTake
  <2>2. Tail(q.waiting) \in Seq(Index) /\ Head(q.waiting) \in Index
    BY <2>1, HeadTailProperties DEF Queues
  <2>3. /\ queue' \in Queues
        /\ queue'.running = q.running + 1 /\ queue'.lent = q.lent
    <3>1. queue' = [waiting |-> Tail(q.waiting), finished |-> q.finished,
                    running |-> q.running + 1, threads |-> q.threads,
                    ending |-> q.ending, lent |-> q.lent]
      BY <2>1 DEF Queues
    <3> QED  BY <3>1, <2>2 DEF Queues
  <2>4. at' \in [Thread -> Places] /\ Decoding' = D \cup {t}
    BY <1>2 DEF Take, Woken, Places, Decoding
  <2>5. Cardinality(Decoding') = q.running + 1
    BY <2>4, <1>1, FS_AddElement
  <2>6. InTurn(queue)'
    BY <2>1, <2>3, Sizes DEF InTurn, Turns, Queues, Size, Beside
  <2>7. queue'.running + Len(queue'.waiting) = q.running + Len(q.waiting)
    <3>1. /\ Len(Tail(q.waiting)) = Len(q.waiting) - 1
          /\ Len(q.waiting) \in Nat /\ q.running \in Nat
      BY <2>1, HeadTailProperties, LenProperties DEF Queues
    <3>2. queue'.waiting = Tail(q.waiting)
      BY <2>1 DEF Queues
    <3> QED  BY <2>3, <3>1, <3>2
  <2> QED  BY <2>1, <2>2, <2>3, <2>4, <2>5, <2>6, <2>7 DEF Decoding, Queues
<1>3. CASE Leave(t, q)
  <2>1. /\ queue' = [q EXCEPT !.threads = @ - 1]
        /\ job' = [job EXCEPT ![t] = None]
        /\ at' = [at EXCEPT ![t] = "joining"]
    BY <1>3 DEF Leave
  <2>2. queue' \in Queues /\ at' \in [Thread -> Places] /\ Decoding' = D
    BY <2>1 DEF Queues, Places, Decoding
  <2>3. queue'.running = q.running /\ queue'.lent = q.lent /\ queue'.waiting = q.waiting
    BY <2>1 DEF Queues
  <2>4. InTurn(queue)'
    BY <2>3 DEF InTurn, Size, Beside
  <2> QED  BY <2>1, <2>2, <2>3, <2>4 DEF Decoding
<1>4. CASE Sleep(t, q)
  <2>1. /\ queue' = q
        /\ job' = [job EXCEPT ![t] = None]
        /\ at' = [at EXCEPT ![t] = "asleep"]
    BY <1>4 DEF Sleep
  <2>2. at' \in [Thread -> Places] /\ Decoding' = D
    BY <2>1 DEF Places, Decoding
  <2> QED  BY <2>1, <2>2 DEF InTurn, Queues, Size, Beside
<1> QED  BY <1>2, <1>3, <1>4 DEF LoopHead
LEMMA LoopHeadPlaced ==
    ASSUME NEW t \in Thread, NEW q \in Queues, at \in [Thread -> Places],
           job \in [Thread -> Index \cup {None}],
           at[t] # "asleep", LoopHead(t, q),
           Placed(q, Decoding \ {t}, job), UNCHANGED <<owed, InHand>>
    PROVE  Placed(queue, Decoding, job)'
<1> DEFINE D == Decoding \ {t}
           with == {job[s] : s \in D}
<1>1. CASE Take(t, q)
  <2> DEFINE i == Head(q.waiting)
  <2>1. /\ queue'.waiting = Tail(q.waiting) /\ queue'.finished = q.finished
        /\ job' = [job EXCEPT ![t] = i] /\ q.waiting # <<>>
        /\ Decoding' = D \cup {t}
    BY <1>1 DEF Take, CanTake, Queues, Decoding, Woken
  <2>2. /\ Elements(Tail(q.waiting)) = Queued(q) \ {i} /\ i \in Queued(q)
        /\ Distinct(Tail(q.waiting))
    BY <2>1, FirstFrame DEF Placed, Queues, Queued
  <2>3. job'[t] = i /\ \A s \in D : job'[s] = job[s] /\ job[s] \in with
    BY <2>1 DEF Decoding
  <2>4. {job'[s] : s \in Decoding'} = with \cup {i}
    BY <2>1, <2>3
  <2>5. i \notin with \cup q.finished \cup InHand
    BY <2>2 DEF Placed
  <2>6. \A s, u \in Decoding' : job'[s] = job'[u] => s = u
    BY <2>1, <2>3, <2>5 DEF Placed
  <2> HIDE DEF i, with, D
  <2>7. Queued(queue)' = Queued(q) \ {i}
    BY <2>1, <2>2 DEF Queued
  <2> QED  BY <2>1, <2>2, <2>4, <2>5, <2>6, <2>7 DEF Placed, with, D
<1>2. CASE Leave(t, q) \/ Sleep(t, q)
  <2>1. /\ queue'.waiting = q.waiting /\ queue'.finished = q.finished
        /\ Decoding' = D /\ \A s \in D : job'[s] = job[s]
    BY <1>2 DEF Leave, Sleep, Queues, Decoding
  <2>2. {job'[s] : s \in Decoding'} = with
    BY <2>1
  <2>3. Queued(queue)' = Queued(q)
    BY <2>1 DEF Queued
  <2> QED  BY <2>1, <2>2, <2>3 DEF Placed
<1> QED  BY <1>1, <1>2 DEF LoopHead

-----------------------------------------------------------------------------
(* Each step keeps the types.                                              *)

LEMMA AfterRunInTurn ==
    ASSUME Inv, NEW t \in Decoding
    PROVE  LET q == AfterRun(queue, job[t])
           IN  /\ budget \in Threads /\ q \in Queues
               /\ q.running = Cardinality(Decoding \ {t})
               /\ InTurn(q)
               /\ job[t] \in Index \cup {None}
<1> DEFINE q == AfterRun(queue, job[t])
<1>1. t \in Thread /\ job[t] \in Index \cup {None} /\ at[t] = "decoding"
  BY DEF Inv, TypeOK, Decoding
<1>2. budget \in Threads /\ InTurn(queue)
  BY <1>1 DEF Inv, NoThreadOutlivesThePool
<1>3. /\ Cardinality(Decoding \ {t}) = queue.running - 1
      /\ queue.running \in Nat /\ queue.running - 1 \in Nat
  <2>1. /\ IsFiniteSet(Decoding) /\ t \in Decoding
        /\ queue.running = Cardinality(Decoding) /\ queue.running \in Nat
    BY CountDecoding DEF Inv
  <2>2. /\ IsFiniteSet(Decoding \ {t})
        /\ Cardinality(Decoding \ {t}) = queue.running - 1
    BY <2>1, FS_RemoveElement
  <2>3. Cardinality(Decoding \ {t}) \in Nat
    BY <2>2, FS_CardinalityType
  <2> QED  BY <2>1, <2>2, <2>3
<1>4. job[t] \in Index /\ queue \in Queues
  BY DEF Inv, TypeOK
<1>5. /\ q \in Queues /\ q.running = queue.running - 1
      /\ q.lent = IF queue.lent = job[t] THEN None ELSE queue.lent
  <2>1. queue.running - 1 \in Nat /\ queue.finished \cup {job[t]} \subseteq Index
    BY <1>3, <1>4 DEF Queues
  <2> QED  BY <1>4, <2>1 DEF AfterRun, Queues
<1>6. q \in Queues
  BY <1>5
<1>7. InTurn(q)
  <2>1. Size \in Nat /\ Beside \in Nat /\ Size - 1 <= Beside /\ Beside <= Size
    BY <1>2, Sizes
  <2>2. queue.running - 1 <= Beside /\ queue.running - 1 <= Size
    BY <1>2, <1>3, <2>1 DEF InTurn
  <2> QED  BY <1>5, <2>2 DEF InTurn
<1> HIDE DEF q
<1>8. q.running = Cardinality(Decoding \ {t})
  BY <1>3, <1>5
<1> QED  BY <1>2, <1>4, <1>6, <1>7, <1>8 DEF q
LEMMA WorkStep ==
    ASSUME Inv, NEW t \in Thread, Work(t)
    PROVE  /\ queue' \in Queues /\ at' \in [Thread -> Places]
           /\ job' \in [Thread -> Index \cup {None}]
           /\ queue'.running = Cardinality(Decoding')
           /\ InTurn(queue)' /\ queue'.lent = queue.lent
           /\ queue'.running + Len(queue'.waiting) = queue.running + Len(queue.waiting)
           /\ \A s \in Decoding : s \in Decoding' /\ job'[s] = job[s]
           /\ \A s \in Decoding' : job'[s] \in Index
           /\ ~Dropping => Placed(queue, Decoding, job)'
<1>1. /\ at[t] = "ready" /\ Decoding \ {t} = Decoding /\ LoopHead(t, queue)
      /\ UNCHANGED <<budget, owed, InHand>>
  BY DEF Work, Decoding, callVars, walkVars, InHand
<1>2. /\ queue \in Queues /\ at \in [Thread -> Places] /\ budget \in Threads
      /\ job \in [Thread -> Index \cup {None}] /\ InTurn(queue)
      /\ queue.running = Cardinality(Decoding)
      /\ \A s \in Decoding : job[s] \in Index
  BY <1>1 DEF Inv, TypeOK, NoThreadOutlivesThePool
<1>3. ASSUME ~Dropping PROVE Placed(queue, Decoding, job)'
  <2>1. Placed(queue, Decoding \ {t}, job)
    BY <1>1, <1>3 DEF Inv, EachFrameInOnePlace
  <2> QED  BY <1>1, <1>2, <2>1, LoopHeadPlaced
<1> QED  BY <1>1, <1>2, <1>3, LoopHeadStep

LEMMA FinishStep ==
    ASSUME Inv, NEW t \in Thread, Finish(t)
    PROVE  /\ queue' \in Queues /\ at' \in [Thread -> Places]
           /\ job' \in [Thread -> Index \cup {None}]
           /\ queue'.running = Cardinality(Decoding')
           /\ InTurn(queue)'
           /\ queue'.lent = IF queue.lent = job[t] THEN None ELSE queue.lent
           /\ queue'.running + Len(queue'.waiting)
                = (queue.running - 1) + Len(queue.waiting)
           /\ \A s \in Decoding \ {t} : s \in Decoding' /\ job'[s] = job[s]
           /\ \A s \in Decoding' : job'[s] \in Index
           /\ ~Dropping => Placed(queue, Decoding, job)'
<1> DEFINE q == AfterRun(queue, job[t])
<1>1. /\ t \in Decoding /\ at[t] # "asleep" /\ LoopHead(t, q)
      /\ UNCHANGED <<budget, owed, InHand>>
  BY DEF Finish, Decoding, walkVars, InHand, DoneNotified
<1>2. /\ queue \in Queues /\ at \in [Thread -> Places]
      /\ job \in [Thread -> Index \cup {None}]
      /\ \A s \in Decoding : job[s] \in Index
  BY DEF Inv, TypeOK
<1>3. /\ budget \in Threads /\ q \in Queues /\ InTurn(q)
      /\ q.running = Cardinality(Decoding \ {t})
  BY <1>1, AfterRunInTurn
<1>4. /\ q.lent = IF queue.lent = job[t] THEN None ELSE queue.lent
      /\ q.waiting = queue.waiting /\ q.running = queue.running - 1
      /\ q.finished = queue.finished \cup {job[t]}
  BY <1>2 DEF AfterRun, Queues
<1>5. ASSUME ~Dropping PROVE Placed(queue, Decoding, job)'
  <2>1. Placed(queue, Decoding, job)
    BY <1>5 DEF Inv, EachFrameInOnePlace
  <2>2. Queued(q) = Queued(queue)
    BY <1>4 DEF Queued
  <2>3. {job[s] : s \in Decoding \ {t}} = {job[s] : s \in Decoding} \ {job[t]}
    BY <1>1, <2>1 DEF Placed
  <2>4. job[t] \in {job[s] : s \in Decoding}
    BY <1>1
  <2> HIDE DEF q
  <2>5. Placed(q, Decoding \ {t}, job)
    BY <1>4, <2>1, <2>2, <2>3, <2>4 DEF Placed
  <2> QED  BY <1>1, <1>2, <1>3, <2>5, LoopHeadPlaced
<1> HIDE DEF q
<1> QED  BY <1>1, <1>2, <1>3, <1>4, <1>5, LoopHeadStep
LEMMA TypeStep ==
    ASSUME Inv, [Next]_vars
    PROVE  TypeOK'
<1> USE DEF TypeOK, Calls
<1>0. TypeOK
  BY DEF Inv
<1>1. CASE UNCHANGED vars
  BY <1>0, <1>1 DEF vars, poolVars, callVars, walkVars
<1>2. ASSUME NEW b \in Threads, NewPool(b) PROVE TypeOK'
  <2>1. EmptyQueue \in Queues
    BY NoFrames DEF EmptyQueue, Queues
  <2> QED  BY <1>0, <1>2, <2>1 DEF NewPool, walkVars
<1>3. ASSUME NEW jobs \in Seq(Index), NEW last \in BOOLEAN, SubmitJobs(jobs, last),
             handed' \in 0..MaxJobs, going' \in BOOLEAN
      PROVE  TypeOK'
  <2> DEFINE waiting == queue.waiting \o jobs
             useful  == Lesser(Len(waiting) + queue.running, Size)
             extra   == IF useful > queue.threads THEN useful - queue.threads ELSE 0
  <2>1. waiting \in Seq(Index) /\ Elements(jobs) \subseteq Index
    <3>1. queue.waiting \in Seq(Index)
      BY <1>0 DEF Queues
    <3>2. \A k \in DOMAIN jobs : jobs[k] \in Index
      BY LenProperties, ElementOfSeq
    <3> QED  BY <3>1, <3>2, ConcatProperties DEF Elements
  <2>2. extra \in Nat
    <3>1. budget \in Threads
      BY <1>3 DEF SubmitJobs, Inv
    <3>2. Size \in Nat /\ Len(waiting) \in Nat /\ queue.running \in Nat /\ queue.threads \in Int
      BY <1>0, <2>1, <3>1, Sizes, LenProperties DEF Queues
    <3> HIDE DEF waiting
    <3> QED  BY <3>2 DEF Lesser
  <2>3. /\ queue' = [queue EXCEPT !.waiting = waiting, !.ending = last,
                                  !.threads = @ + extra]
        /\ more' = extra
    BY <1>3 DEF SubmitJobs
  <2> HIDE DEF waiting, extra
  <2>4. queue' \in Queues
    <3>0. queue \in Queues /\ queue.threads \in Int
      BY <1>0 DEF Queues
    <3>1. queue.threads + extra \in Int
      BY <2>2, <3>0
    <3> QED  BY <1>3, <2>1, <2>3, <3>0, <3>1 DEF Queues
  <2> QED  BY <1>0, <1>3, <2>1, <2>2, <2>3, <2>4 DEF SubmitJobs
<1>4. CASE Start
  <2>1. PICK n \in 0..MaxJobs, last \in BOOLEAN :
            SubmitJobs([k \in 1..n |-> k], last) /\ handed' = n /\ going' = ~last
    BY <1>4 DEF Start
  <2> QED  BY <1>3, <2>1, BatchFrames
<1>5. CASE Follow
  <2>1. handed + 1 \in Index /\ handed + 1 \in 0..MaxJobs
    <3>1. handed \in 0..MaxJobs /\ handed < MaxJobs
      BY <1>0, <1>5 DEF Follow
    <3> QED  BY <3>1, MaxJobsAssumption DEF Index
  <2> QED  BY <1>0, <1>3, <1>5, <2>1, OneFrame DEF Follow
<1>6. CASE Stop \/ DrainEnd
  BY <1>0, <1>6 DEF Stop, DrainEnd, SetEnding, Queues
<1>7. ASSUME NEW i \in owed, Collect(i) PROVE TypeOK'
  BY <1>0, <1>7 DEF Collect, poolVars, walkVars
<1>8. CASE Drain \/ Drop
  BY <1>0, <1>8, NoFrames DEF Drain, Drop, Queues
<1>9. CASE SubmitNotify \/ EndNotify \/ DropNotify
  <2>1. at' = Woken(at) \/ NotifyOne(at, at')
    BY <1>9 DEF SubmitNotify, EndNotify, DropNotify
  <2>2. at' \in [Thread -> Places]
    BY <1>0, <2>1, WakingKeepsDecoding
  <2> QED  BY <1>0, <1>9, <2>2 DEF SubmitNotify, EndNotify, DropNotify, walkVars
<1>10. CASE SubmitStart
  <2>1. more \in Nat /\ more > 0 /\ queue \in Queues
    BY <1>0, <1>10 DEF SubmitStart, Inv
  <2>2. queue' \in Queues
    <3>1. UNCHANGED queue \/ queue' = [queue EXCEPT !.threads = @ - more]
      BY <1>10 DEF SubmitStart
    <3>2. queue.threads - more \in Int
      BY <2>1 DEF Queues
    <3> QED  BY <2>1, <3>1, <3>2 DEF Queues
  <2>3. more - 1 \in Nat
    BY <2>1
  <2>4. toStart' \in [Thread -> Nat] /\ at' \in [Thread -> Places]
    BY <1>0, <1>10, <2>3 DEF SubmitStart, Places
  <2> QED  BY <1>0, <1>10, <2>2, <2>4 DEF SubmitStart, walkVars
<1>11. CASE CollectFinished
  BY <1>0, <1>11 DEF CollectFinished, Queues
<1>12. CASE CollectWaiting
  <2>1. ~Dropping
    BY <1>12 DEF CollectWaiting, Dropping
  <2>2. Distinct(queue.waiting)
    BY <2>1 DEF Inv, EachFrameInOnePlace, Placed
  <2>3. PICK k \in DOMAIN queue.waiting :
            queue' = [queue EXCEPT !.waiting =
                SubSeq(@, 1, k - 1) \o SubSeq(@, k + 1, Len(@))]
    BY <1>12 DEF CollectWaiting
  <2>4. queue' \in Queues
    BY <1>0, <2>2, <2>3, WithoutFrame DEF Queues
  <2> QED  BY <1>0, <1>12, <2>4 DEF CollectWaiting, walkVars
<1>13. CASE DecodeHere
  BY <1>0, <1>13 DEF DecodeHere, poolVars
<1>14. CASE CollectLend
  <2>1. want \in Index
    BY <1>0, <1>14 DEF CollectLend, Inv
  <2>2. queue' \in Queues
    BY <1>0, <1>14, <2>1 DEF CollectLend, Queues
  <2>3. at' \in [Thread -> Places]
    <3>1. at' = at \/ NotifyOne(at, at')
      BY <1>14 DEF CollectLend
    <3>2. at \in [Thread -> Places]
      BY <1>0
    <3> QED  BY <3>1, <3>2, WakingKeepsDecoding
  <2> QED  BY <1>0, <1>14, <2>2, <2>3 DEF CollectLend, walkVars
<1>15. CASE DrainWait
  BY <1>0, <1>15 DEF DrainWait, poolVars, walkVars
<1>16. CASE DrainFinished
  BY <1>0, <1>16 DEF DrainFinished, Queues
<1>17. CASE DropJoin
  BY <1>0, <1>17 DEF DropJoin, walkVars, Places
<1>18. ASSUME NEW t \in Thread, Work(t) PROVE TypeOK'
  BY <1>0, <1>18, WorkStep DEF Work, callVars, walkVars
<1>19. ASSUME NEW t \in Thread, Finish(t) PROVE TypeOK'
  BY <1>0, <1>19, FinishStep DEF Finish, walkVars, DoneNotified
<1>20. ASSUME NEW t \in Thread, StartWorker(t) PROVE TypeOK'
  <2>1. PICK w \in Thread : /\ at' = [at EXCEPT ![w] = "ready"]
                             /\ started' = [started EXCEPT ![t] = @ \cup {w}]
    BY <1>20 DEF StartWorker
  <2>2. at' \in [Thread -> Places] /\ started' \in [Thread -> SUBSET Thread]
    BY <1>0, <2>1 DEF Places
  <2>3. toStart' \in [Thread -> Nat]
    <3>1. toStart[t] \in Nat /\ toStart[t] > 0
      BY <1>0, <1>20 DEF StartWorker
    <3>2. toStart[t] - 1 \in Nat
      BY <3>1
    <3> QED  BY <1>0, <1>20, <3>2 DEF StartWorker
  <2> QED  BY <1>0, <1>20, <2>2, <2>3 DEF StartWorker, callVars, walkVars
<1>21. ASSUME NEW t \in Thread, StartWorkerFails(t) PROVE TypeOK'
  <2>1. toStart[t] \in Nat /\ queue \in Queues
    BY <1>0
  <2>2. queue.threads - toStart[t] \in Int
    BY <2>1 DEF Queues
  <2>3. queue' \in Queues
    BY <1>21, <2>1, <2>2 DEF StartWorkerFails, Queues
  <2> QED  BY <1>0, <1>21, <2>3 DEF StartWorkerFails, callVars, walkVars
<1>22. ASSUME NEW t \in Thread, BecomeWorker(t) \/ Exit(t) PROVE TypeOK'
  BY <1>0, <1>22 DEF BecomeWorker, Exit, callVars, walkVars, Places
<1>23. CASE SpuriousWakeup
  BY <1>0, <1>23 DEF SpuriousWakeup, poolVars, callVars, walkVars,
                     DoneNotified, Asleep, Places
<1>24. CASE CompositeEnd
  BY <1>0, <1>24 DEF CompositeEnd, poolVars, walkVars
<1>25. CASE Composite
  <2>1. budget \in Threads
    BY <1>25 DEF Composite, Inv
  <2>2. WalkThreads \in Nat \ {0}
    BY <1>0, <2>1, WalkThreadsFit DEF Inv
  <2> QED  BY <1>0, <1>25, <2>2 DEF Composite, poolVars, walkVars
<1> QED
  BY <1>1, <1>2, <1>4, <1>5, <1>6, <1>7, <1>8, <1>9, <1>10, <1>11, <1>12, <1>13,
     <1>14, <1>15, <1>16, <1>17, <1>18, <1>19, <1>20, <1>21, <1>22, <1>23, <1>24, <1>25
     DEF Next, Call, CallStep, ThreadStep
-----------------------------------------------------------------------------
(* The steps in which no thread begins or ends a decode.                   *)

Aside ==
    \/ UNCHANGED vars
    \/ Start \/ Follow \/ Stop \/ Drain \/ Drop \/ CallStep
    \/ \E i \in owed : Collect(i)
    \/ \E t \in Thread :
           StartWorker(t) \/ StartWorkerFails(t) \/ BecomeWorker(t) \/ Exit(t)
    \/ SpuriousWakeup \/ Composite

LEMMA NextCases ==
    ASSUME [Next]_vars
    PROVE  \/ Aside
           \/ \E b \in Threads : NewPool(b)
           \/ \E t \in Thread : Work(t) \/ Finish(t)
  BY DEF Next, Call, ThreadStep, Aside

LEMMA AsideKeepsDecoding ==
    ASSUME Inv, Aside
    PROVE  Decoding' = Decoding /\ UNCHANGED job
<1>0. at \in [Thread -> Places]
  BY DEF Inv, TypeOK
<1>1. CASE UNCHANGED <<at, job>>
  BY <1>1 DEF Decoding
<1>2. ASSUME NotifyOne(at, at') \/ at' = Woken(at), UNCHANGED job
      PROVE  Decoding' = Decoding
  BY <1>0, <1>2, WakingKeepsDecoding DEF Decoding
<1>3. CASE SubmitNotify \/ EndNotify \/ DropNotify \/ CollectLend
  <2>1. NotifyOne(at, at') \/ at' = Woken(at) \/ UNCHANGED at
    BY <1>3 DEF SubmitNotify, EndNotify, DropNotify, CollectLend
  <2>2. UNCHANGED job
    BY <1>3 DEF SubmitNotify, EndNotify, DropNotify, CollectLend
  <2> QED  BY <1>1, <1>2, <2>1, <2>2
<1>4. CASE SubmitStart
  BY <1>0, <1>4 DEF SubmitStart, Decoding
<1>5. CASE DropJoin
  BY <1>0, <1>5 DEF DropJoin, Decoding
<1>6. ASSUME NEW t \in Thread, StartWorker(t) \/ BecomeWorker(t)
      PROVE  Decoding' = Decoding /\ UNCHANGED job
  BY <1>0, <1>6 DEF StartWorker, BecomeWorker, Decoding
<1>7. ASSUME NEW t \in Thread, Exit(t)
      PROVE  Decoding' = Decoding /\ UNCHANGED job
  BY <1>0, <1>7 DEF Exit, Decoding
<1>8. CASE SpuriousWakeup
  BY <1>0, <1>8 DEF SpuriousWakeup, Decoding, Asleep, poolVars
<1>9. CASE \/ UNCHANGED vars \/ (\E i \in owed : Collect(i)) \/ DecodeHere \/ DrainWait
         \/ Composite \/ CompositeEnd
  BY <1>1, <1>9 DEF vars, poolVars, Collect, DecodeHere, DrainWait, Composite, CompositeEnd
<1>10. CASE \/ Start \/ Follow \/ Stop \/ Drain \/ Drop \/ DrainEnd
            \/ CollectFinished \/ CollectWaiting \/ DrainFinished
            \/ \E t \in Thread : StartWorkerFails(t)
  BY <1>1, <1>10 DEF Start, Follow, SubmitJobs, Stop, Drain, Drop, DrainEnd, SetEnding,
                     CollectFinished, CollectWaiting, DrainFinished, StartWorkerFails
<1> QED  BY <1>3, <1>4, <1>5, <1>6, <1>7, <1>8, <1>9, <1>10 DEF Aside, CallStep

LEMMA AsideKeepsTurns ==
    ASSUME Inv, Aside
    PROVE  /\ queue'.running = queue.running /\ UNCHANGED budget
           /\ queue'.lent = queue.lent \/ (CollectLend /\ queue'.lent = want)
           /\ call' = "no pool" \/ call # "no pool"
<1>0. queue \in Queues
  BY DEF Inv, TypeOK
<1> QED
  BY <1>0 DEF Aside, CallStep, vars, poolVars, callVars, walkVars, Queues,
     Start, Follow, SubmitJobs, Stop, Drain, Drop, Collect, StartWorker,
     StartWorkerFails, BecomeWorker, Exit, SpuriousWakeup, DoneNotified,
     SubmitNotify, SubmitStart, EndNotify, SetEnding, CollectFinished,
     CollectWaiting, DecodeHere, CollectLend, DrainWait, DrainFinished, DrainEnd,
     DropNotify, DropJoin, Composite, CompositeEnd

LEMMA TurnStep ==
    ASSUME Inv, [Next]_vars
    PROVE  /\ \A t \in Decoding' : job'[t] \in Index
           /\ queue'.running = Cardinality(Decoding')
           /\ call' # "no pool" => budget' \in Threads /\ InTurn(queue)'
<1>1. CASE Aside
  <2>1. /\ Decoding' = Decoding /\ UNCHANGED <<job, budget>>
        /\ queue'.running = queue.running
    BY <1>1, AsideKeepsDecoding, AsideKeepsTurns
  <2>2. call' # "no pool" => call # "no pool" /\ budget \in Threads /\ InTurn(queue)
    BY <1>1, AsideKeepsTurns DEF Inv
  <2>3. ASSUME call' # "no pool" PROVE InTurn(queue)'
    <3>1. queue'.lent = None => queue.lent = None
      BY <1>1, AsideKeepsTurns DEF CollectLend, Inv, TypeOK, Index, None
    <3> QED  BY <2>1, <2>2, <2>3, <3>1 DEF InTurn, Size, Beside
  <2> QED  BY <2>1, <2>2, <2>3 DEF Inv
<1>2. ASSUME NEW b \in Threads, NewPool(b)
      PROVE  /\ Decoding' = {} /\ queue'.running = 0 /\ budget' \in Threads
             /\ queue'.lent = None
  BY <1>2 DEF NewPool, EmptyQueue, Decoding, Inv, NoThreadOutlivesThePool
<1>3. ASSUME NEW b \in Threads, NewPool(b)
      PROVE  /\ queue'.running = Cardinality(Decoding')
             /\ InTurn(queue)'
  <2>1. (Size \in Nat /\ Beside \in Nat)'
    <3>1. budget' \in Threads
      BY <1>2, <1>3
    <3>2. budget' \in Nat /\ budget' > 1 /\ MaxSlots \in Nat /\ MaxSlots > 1
      BY <3>1, ThreadsAssumption, MaxSlotsAssumption
    <3>3. Size' \in Nat /\ Size' > 1
      BY <3>2 DEF Size, Lesser
    <3>4. Beside' \in Nat
      <4>0. \A n \in Nat : n > 1 => n - 1 \in Nat
        OBVIOUS
      <4>1. budget' - 1 \in Nat
        BY <3>2, <4>0
      <4>2. Beside' = IF budget' - 1 < Size' THEN budget' - 1 ELSE Size'
        BY DEF Beside, Lesser
      <4> QED  BY <3>3, <4>1, <4>2
    <3> QED  BY <3>3, <3>4
  <2> QED  BY <1>2, <1>3, <2>1, FS_EmptySet DEF InTurn
<1>4. ASSUME NEW t \in Thread, Work(t) \/ Finish(t)
      PROVE  /\ \A s \in Decoding' : job'[s] \in Index
             /\ queue'.running = Cardinality(Decoding')
             /\ InTurn(queue)' /\ budget' \in Threads
  <2>1. at[t] # "free" /\ UNCHANGED budget
    BY <1>4 DEF Work, Finish
  <2>2. budget' \in Threads
    BY <2>1 DEF Inv, NoThreadOutlivesThePool
  <2> QED  BY <1>4, <2>2, WorkStep, FinishStep
<1> QED  BY <1>1, <1>2, <1>3, <1>4, NextCases

-----------------------------------------------------------------------------
(* Where the frames are.                                                   *)

LEMMA SubmitPlaced ==
    ASSUME Inv, NEW jobs \in Seq(Index), NEW last, SubmitJobs(jobs, last),
           Distinct(jobs), Elements(jobs) \cap owed = {},
           Decoding' = Decoding, UNCHANGED job
    PROVE  Placed(queue, Decoding, job)'
<1>1. Placed(queue, Decoding, job) /\ queue \in Queues
  BY DEF Inv, TypeOK, EachFrameInOnePlace, SubmitJobs, Dropping
<1>2. /\ queue'.waiting = queue.waiting \o jobs
      /\ queue'.finished = queue.finished
      /\ owed' = owed \cup Elements(jobs) /\ InHand' = {} /\ InHand = {}
  BY <1>1 DEF SubmitJobs, Queues, InHand
<1>3. Queued(queue) \subseteq owed /\ queue.waiting \in Seq(Index)
      /\ Distinct(queue.waiting)
  BY <1>1 DEF Placed, Queues
<1>4. /\ Elements(queue'.waiting) = Queued(queue) \cup Elements(jobs)
      /\ Distinct(queue'.waiting)
  BY <1>2, <1>3, ConcatFrames DEF Queued
<1>5. Queued(queue)' = Queued(queue) \cup Elements(jobs)
  BY <1>4 DEF Queued
<1>6. {job'[t] : t \in Decoding'} = {job[t] : t \in Decoding}
  OBVIOUS
<1> QED  BY <1>1, <1>2, <1>4, <1>5, <1>6 DEF Placed

LEMMA PlacedStep ==
    ASSUME Inv, [Next]_vars
    PROVE  EachFrameInOnePlace'
<1> SUFFICES ASSUME ~Dropping' PROVE Placed(queue, Decoding, job)'
  BY DEF EachFrameInOnePlace
<1>0. queue \in Queues
  BY DEF Inv, TypeOK
<1>1. CASE Aside /\ Dropping
  BY <1>1 DEF Aside, CallStep, vars, poolVars, callVars, walkVars, Dropping,
     Start, Follow, SubmitJobs, Stop, Drain, Drop, Collect, StartWorker,
     StartWorkerFails, BecomeWorker, Exit, SpuriousWakeup, DoneNotified,
     SubmitNotify, SubmitStart, EndNotify, SetEnding, CollectFinished,
     CollectWaiting, DecodeHere, CollectLend, DrainWait, DrainFinished, DrainEnd,
     DropNotify, DropJoin, Composite, CompositeEnd
<1>2. CASE Aside /\ ~Dropping
  <2>1. /\ Placed(queue, Decoding, job)
        /\ Decoding' = Decoding /\ UNCHANGED job
        /\ {job'[t] : t \in Decoding'} = {job[t] : t \in Decoding}
    BY <1>2, AsideKeepsDecoding DEF Inv, EachFrameInOnePlace
  <2>2. CASE Start
    <3>1. PICK n \in 0..MaxJobs, last \in BOOLEAN : SubmitJobs([k \in 1..n |-> k], last)
      BY <2>2 DEF Start
    <3> QED  BY <2>1, <2>2, <3>1, BatchFrames, SubmitPlaced DEF Start
  <2>3. CASE Follow
    <3>1. handed + 1 \in Index /\ handed + 1 \notin owed
      <4>1. handed \in 0..MaxJobs /\ handed < MaxJobs /\ owed \subseteq 1..handed
        BY <2>3 DEF Follow, Inv, TypeOK
      <4> QED  BY <4>1, MaxJobsAssumption DEF Index
    <3>2. SubmitJobs(<<handed + 1>>, FALSE)
      BY <2>3 DEF Follow
    <3>3. /\ <<handed + 1>> \in Seq(Index) /\ Distinct(<<handed + 1>>)
          /\ Elements(<<handed + 1>>) = {handed + 1}
      BY <3>1, OneFrame
    <3> QED  BY <2>1, <3>1, <3>2, <3>3, SubmitPlaced
  <2>4. CASE CollectFinished
    <3>1. /\ queue'.waiting = queue.waiting
          /\ queue'.finished = queue.finished \ {want} /\ want \in queue.finished
          /\ owed' = owed \ {want} /\ InHand' = {} /\ InHand = {}
      BY <1>0, <2>4 DEF CollectFinished, Queues, InHand
    <3> QED  BY <2>1, <3>1 DEF Placed, Queued
  <2>5. CASE CollectWaiting
    <3>1. PICK k \in DOMAIN queue.waiting :
              /\ queue.waiting[k] = want
              /\ queue' = [queue EXCEPT !.waiting =
                              SubSeq(@, 1, k - 1) \o SubSeq(@, k + 1, Len(@))]
      BY <2>5 DEF CollectWaiting
    <3>2. queue.waiting \in Seq(Index) /\ Distinct(queue.waiting)
      BY <1>0, <2>1 DEF Placed, Queues
    <3>3. /\ queue'.waiting = SubSeq(queue.waiting, 1, k - 1)
                                \o SubSeq(queue.waiting, k + 1, Len(queue.waiting))
          /\ queue'.finished = queue.finished
      BY <1>0, <3>1 DEF Queues
    <3>4. /\ Elements(queue'.waiting) = Queued(queue) \ {want}
          /\ Distinct(queue'.waiting)
      BY <3>1, <3>2, <3>3, WithoutFrame DEF Queued
    <3>5. want \in Queued(queue) /\ Queued(queue)' = Queued(queue) \ {want}
      BY <3>1, <3>4 DEF Queued, Elements
    <3>6. UNCHANGED owed /\ InHand' = {want} /\ InHand = {}
      BY <2>5 DEF CollectWaiting, InHand, walkVars
    <3> QED  BY <2>1, <3>3, <3>4, <3>5, <3>6 DEF Placed
  <2>6. CASE DecodeHere
    <3>1. owed' = owed \ {want} /\ InHand' = {} /\ InHand = {want} /\ UNCHANGED queue
      BY <2>6 DEF DecodeHere, InHand, poolVars
    <3> QED  BY <2>1, <3>1 DEF Placed, Queued
  <2>7. CASE Drain
    <3>1. /\ owed' = owed \ Queued(queue) /\ queue'.waiting = <<>>
          /\ queue'.finished = queue.finished /\ InHand' = {} /\ InHand = {}
      BY <1>0, <2>7 DEF Drain, Queues, InHand
    <3>2. Queued(queue)' = {} /\ Distinct(queue'.waiting)
      BY <3>1, NoFrames DEF Queued
    <3> QED  BY <2>1, <3>1, <3>2 DEF Placed
  <2>8. CASE DrainFinished
    <3>1. /\ owed' = owed \ queue.finished /\ queue'.waiting = queue.waiting
          /\ queue'.finished = {} /\ InHand' = {} /\ InHand = {}
      BY <1>0, <2>8 DEF DrainFinished, Queues, InHand
    <3>2. Queued(queue)' = Queued(queue)
      BY <3>1 DEF Queued
    <3> QED  BY <2>1, <3>1, <3>2 DEF Placed
  <2>9. CASE /\ queue'.waiting = queue.waiting /\ queue'.finished = queue.finished
             /\ UNCHANGED <<owed, InHand>>
    BY <2>1, <2>9 DEF Placed, Queued
  <2>10. CASE \/ UNCHANGED vars \/ Stop \/ DrainEnd \/ \E i \in owed : Collect(i)
              \/ SubmitNotify \/ SubmitStart \/ EndNotify \/ CollectLend \/ DrainWait
              \/ SpuriousWakeup \/ Composite \/ CompositeEnd
              \/ \E t \in Thread : \/ StartWorker(t) \/ StartWorkerFails(t)
                                   \/ BecomeWorker(t) \/ Exit(t)
    <3>1. queue'.waiting = queue.waiting /\ queue'.finished = queue.finished
      BY <1>0, <2>10 DEF Queues, vars, poolVars, Stop, DrainEnd, SetEnding, Collect,
         SubmitNotify, SubmitStart, EndNotify, CollectLend, DrainWait, SpuriousWakeup,
         StartWorker, StartWorkerFails, BecomeWorker, Exit, Composite, CompositeEnd
    <3>2. UNCHANGED <<owed, InHand>>
      BY <2>10 DEF vars, poolVars, callVars, walkVars, InHand, DoneNotified,
         Stop, DrainEnd, SetEnding, Collect,
         SubmitNotify, SubmitStart, EndNotify, CollectLend, DrainWait, SpuriousWakeup,
         StartWorker, StartWorkerFails, BecomeWorker, Exit, Composite, CompositeEnd
    <3> QED  BY <2>9, <3>1, <3>2
  <2>11. CASE Drop \/ DropNotify \/ DropJoin
    BY <2>11 DEF Drop, DropNotify, DropJoin, Dropping
  <2> QED  BY <1>2, <2>2, <2>3, <2>4, <2>5, <2>6, <2>7, <2>8, <2>10, <2>11
             DEF Aside, CallStep
<1>3. ASSUME NEW b \in Threads, NewPool(b) PROVE Placed(queue, Decoding, job)'
  <2>1. /\ queue' = EmptyQueue /\ Decoding' = {} /\ owed' = {} /\ InHand' = {}
    BY <1>3 DEF NewPool, Inv, NoThreadOutlivesThePool, Decoding, Dropping, InHand,
                walkVars
  <2>2. Queued(queue)' = {} /\ Distinct(queue'.waiting) /\ queue'.finished = {}
    BY <2>1, NoFrames DEF EmptyQueue, Queued
  <2> QED  BY <2>1, <2>2 DEF Placed
<1>4. ASSUME NEW t \in Thread, Work(t) \/ Finish(t)
      PROVE  Placed(queue, Decoding, job)'
  <2>1. ~Dropping
    BY <1>4 DEF Work, Finish, callVars, Dropping, DoneNotified
  <2> QED  BY <1>4, <2>1, WorkStep, FinishStep
<1> QED  BY <1>1, <1>2, <1>3, <1>4, NextCases
-----------------------------------------------------------------------------
(* The turn lent, and what the calling thread asks for.                    *)

LEMMA CallStepKeeps ==
    ASSUME Inv, [Next]_vars
    PROVE  /\ call' = "submit: start" => more' > 0
           /\ call' \in {"collect", "collect asleep", "decode"} => want' \in owed'
           /\ owed' \subseteq 1..handed'
           /\ Dropping' => owed' = {} /\ queue'.waiting = <<>>
<1>0. /\ queue \in Queues /\ more \in Nat /\ handed \in 0..MaxJobs
      /\ handed \in Nat /\ owed \subseteq 1..handed
  <2>1. /\ queue \in Queues /\ more \in Nat /\ handed \in 0..MaxJobs
        /\ owed \subseteq 1..handed
    BY DEF Inv, TypeOK
  <2> QED  BY <2>1, MaxJobsAssumption
<1>1. CASE Aside
  <2>1. ASSUME call' = "submit: start" PROVE more' > 0
    <3>1. \/ UNCHANGED <<call, more>>
          \/ SubmitNotify
      BY <1>1, <2>1 DEF Aside, CallStep, vars, callVars,
         Start, Follow, SubmitJobs, Stop, Drain, Drop, Collect, StartWorker,
         StartWorkerFails, BecomeWorker, Exit, SpuriousWakeup, DoneNotified,
         SubmitNotify, SubmitStart, EndNotify, SetEnding, CollectFinished,
         CollectWaiting, DecodeHere, CollectLend, DrainWait, DrainFinished, DrainEnd,
         DropNotify, DropJoin, Composite, CompositeEnd
    <3>2. CASE SubmitNotify
      <4>1. call' = (IF more = 0 THEN "walk" ELSE "submit: start") /\ UNCHANGED more
        BY <3>2 DEF SubmitNotify
      <4>2. more # 0
        BY <2>1, <4>1
      <4>3. more > 0
        BY <1>0, <4>2
      <4> QED  BY <4>1, <4>3
    <3> QED  BY <2>1, <3>1, <3>2 DEF Inv
  <2>2. ASSUME call' \in {"collect", "collect asleep", "decode"}
        PROVE  want' \in owed'
    <3>1. \/ /\ call \in {"collect", "collect asleep", "decode"}
             /\ UNCHANGED <<want, owed>>
          \/ \E i \in owed : Collect(i)
      BY <1>1, <2>2 DEF Aside, CallStep, vars, callVars, walkVars,
         Start, Follow, SubmitJobs, Stop, Drain, Drop, Collect, StartWorker,
         StartWorkerFails, BecomeWorker, Exit, SpuriousWakeup, DoneNotified,
         SubmitNotify, SubmitStart, EndNotify, SetEnding, CollectFinished,
         CollectWaiting, DecodeHere, CollectLend, DrainWait, DrainFinished, DrainEnd,
         DropNotify, DropJoin, Composite, CompositeEnd
    <3>2. call \in {"collect", "collect asleep", "decode"} => want \in owed
      BY DEF Inv
    <3>3. ASSUME NEW i \in owed, Collect(i) PROVE want' \in owed'
      BY <3>3 DEF Collect, walkVars
    <3> QED  BY <3>1, <3>2, <3>3
  <2>3. owed' \subseteq 1..handed'
    <3>1. CASE Start
      <4>1. PICK n \in 0..MaxJobs, last \in BOOLEAN :
                SubmitJobs([k \in 1..n |-> k], last) /\ handed' = n
        BY <3>1 DEF Start
      <4> QED  BY <3>1, <4>1, BatchFrames DEF Start, SubmitJobs
    <3>2. CASE Follow
      <4>1. Elements(<<handed + 1>>) = {handed + 1}
        BY DEF Elements
      <4>2. owed' = owed \cup {handed + 1} /\ handed' = handed + 1
        BY <3>2, <4>1 DEF Follow, SubmitJobs
      <4> QED  BY <1>0, <4>2
    <3>3. CASE ~Start /\ ~Follow
      <4>1. owed' \subseteq owed /\ handed' = handed
        BY <1>1, <3>3 DEF Aside, CallStep, vars, poolVars, callVars, walkVars,
           Stop, Drain, Drop, Collect, StartWorker,
           StartWorkerFails, BecomeWorker, Exit, SpuriousWakeup,
           SubmitNotify, SubmitStart, EndNotify, SetEnding, CollectFinished,
           CollectWaiting, DecodeHere, CollectLend, DrainWait, DrainFinished,
           DrainEnd, DropNotify, DropJoin, Composite, CompositeEnd
      <4> QED  BY <4>1 DEF Inv
    <3> QED  BY <3>1, <3>2, <3>3
  <2>4. Dropping' => owed' = {} /\ queue'.waiting = <<>>
    BY <1>0, <1>1 DEF Inv, Aside, CallStep, vars, poolVars, callVars, walkVars,
       Queues, Dropping,
       Start, Follow, SubmitJobs, Stop, Drain, Drop, Collect, StartWorker,
       StartWorkerFails, BecomeWorker, Exit, SpuriousWakeup, DoneNotified,
       SubmitNotify, SubmitStart, EndNotify, SetEnding, CollectFinished,
       CollectWaiting, DecodeHere, CollectLend, DrainWait, DrainFinished, DrainEnd,
       DropNotify, DropJoin, Composite, CompositeEnd
  <2> QED  BY <2>1, <2>2, <2>3, <2>4
<1>2. ASSUME NEW b \in Threads, NewPool(b)
      PROVE  call' = "walk" /\ owed' = {}
  BY <1>2 DEF NewPool, walkVars, Inv, Dropping
<1>3. ASSUME NEW t \in Thread, Work(t) \/ Finish(t)
      PROVE  /\ UNCHANGED <<owed, handed, want, more>>
             /\ call' \in {"collect", "collect asleep", "decode"}
                    => call \in {"collect", "collect asleep", "decode"}
             /\ call' = "submit: start" => call = "submit: start"
             /\ Dropping' => Dropping /\ queue'.waiting = <<>>
  <2>1. /\ UNCHANGED <<owed, handed, want, more>>
        /\ call' = call \/ call' = DoneNotified(call)
    BY <1>3 DEF Work, Finish, callVars, walkVars
  <2>2. LoopHead(t, queue) \/ LoopHead(t, AfterRun(queue, job[t]))
    BY <1>3 DEF Work, Finish
  <2>3. queue.waiting = <<>> => queue'.waiting = <<>>
    BY <1>0, <2>2 DEF LoopHead, Take, Leave, Sleep, CanTake, AfterRun, Queues
  <2> QED  BY <2>1, <2>3 DEF DoneNotified, Dropping, Inv
<1>4. ASSUME NEW t \in Thread, Work(t) \/ Finish(t)
      PROVE  /\ call' = "submit: start" => more' > 0
             /\ call' \in {"collect", "collect asleep", "decode"} => want' \in owed'
             /\ owed' \subseteq 1..handed'
             /\ Dropping' => owed' = {} /\ queue'.waiting = <<>>
  <2>1. /\ call = "submit: start" => more > 0
        /\ call \in {"collect", "collect asleep", "decode"} => want \in owed
        /\ Dropping => owed = {}
    BY DEF Inv
  <2>2. /\ UNCHANGED <<owed, handed, want, more>>
        /\ call' \in {"collect", "collect asleep", "decode"}
               => call \in {"collect", "collect asleep", "decode"}
        /\ call' = "submit: start" => call = "submit: start"
        /\ Dropping' => Dropping /\ queue'.waiting = <<>>
    BY <1>3, <1>4
  <2>3. call' = "submit: start" => more' > 0
    BY <2>1, <2>2
  <2>4. call' \in {"collect", "collect asleep", "decode"} => want' \in owed'
    BY <2>1, <2>2
  <2>5. owed' \subseteq 1..handed'
    BY <1>0, <2>2
  <2>6. Dropping' => owed' = {} /\ queue'.waiting = <<>>
    BY <2>1, <2>2
  <2> QED  BY <2>3, <2>4, <2>5, <2>6
<1> QED  BY <1>1, <1>2, <1>4, NextCases DEF Dropping

LEMMA LentStep ==
    ASSUME Inv, [Next]_vars
    PROVE  LentForAFrameInProgress'
<1>0. queue \in Queues /\ LentForAFrameInProgress
  BY DEF Inv, TypeOK
<1>1. CASE Aside
  <2>1. Decoding' = Decoding /\ UNCHANGED job
    BY <1>1, AsideKeepsDecoding
  <2>2. CASE queue'.lent = queue.lent
    <3>1. ASSUME queue.lent # None
          PROVE  /\ call' \in {"collect", "collect asleep"} /\ UNCHANGED want
      <4>1. call \in {"collect", "collect asleep"} /\ want = queue.lent
        BY <1>0, <3>1 DEF LentForAFrameInProgress
      <4>2. ~CollectFinished /\ ~CollectWaiting
        <5>1. \E t \in Decoding : job[t] = want
          BY <1>0, <3>1 DEF LentForAFrameInProgress
        <5>2. Placed(queue, Decoding, job)
          BY <4>1 DEF Inv, EachFrameInOnePlace, Dropping
        <5>3. want \notin queue.finished /\ want \notin Queued(queue)
          BY <5>1, <5>2 DEF Placed
        <5> QED  BY <5>3 DEF CollectFinished, CollectWaiting, Queued, Elements
      <4> QED
        BY <1>1, <4>1, <4>2 DEF Aside, CallStep, vars, poolVars, callVars, walkVars,
           Start, Follow, SubmitJobs, Stop, Drain, Drop, Collect, StartWorker,
           StartWorkerFails, BecomeWorker, Exit, SpuriousWakeup, DoneNotified,
           SubmitNotify, SubmitStart, EndNotify, SetEnding,
           DecodeHere, CollectLend, DrainWait, DrainFinished, DrainEnd,
           DropNotify, DropJoin, Composite, CompositeEnd
    <3> QED  BY <1>0, <2>1, <2>2, <3>1 DEF LentForAFrameInProgress
  <2>3. CASE CollectLend /\ queue'.lent = want
    <3>1. /\ call = "collect" /\ call' = "collect asleep" /\ UNCHANGED want
          /\ want \notin queue.finished \cup Queued(queue) /\ want \in owed
      BY <2>3 DEF CollectLend, Inv
    <3>2. Placed(queue, Decoding, job) /\ InHand = {}
      BY <3>1 DEF Inv, EachFrameInOnePlace, Dropping, InHand
    <3>3. \E t \in Decoding : job[t] = want
      BY <3>1, <3>2 DEF Placed
    <3> QED  BY <2>1, <2>3, <3>1, <3>3 DEF LentForAFrameInProgress
  <2> QED  BY <1>1, <2>2, <2>3, AsideKeepsTurns
<1>2. ASSUME NEW b \in Threads, NewPool(b) PROVE LentForAFrameInProgress'
  BY <1>2 DEF NewPool, EmptyQueue, LentForAFrameInProgress
<1>3. ASSUME NEW t \in Thread, Work(t) PROVE LentForAFrameInProgress'
  <2>1. UNCHANGED <<call, want>>
    BY <1>3 DEF Work, callVars
  <2> QED  BY <1>0, <1>3, <2>1, WorkStep DEF LentForAFrameInProgress
<1>4. ASSUME NEW t \in Thread, Finish(t) PROVE LentForAFrameInProgress'
  <2>1. UNCHANGED want /\ (call \in {"collect", "collect asleep"} => call' = "collect")
    BY <1>4 DEF Finish, DoneNotified
  <2> SUFFICES ASSUME queue'.lent # None PROVE LentForAFrameInProgress'
    BY DEF LentForAFrameInProgress
  <2>2. queue'.lent = queue.lent /\ queue.lent # job[t]
    BY <1>4, FinishStep
  <2> QED  BY <1>0, <1>4, <2>1, <2>2, FinishStep DEF LentForAFrameInProgress
<1> QED  BY <1>1, <1>2, <1>3, <1>4, NextCases

-----------------------------------------------------------------------------
(* What the walk's own work is spread over.                                *)

LEMMA SpreadStep ==
    ASSUME Inv, [Next]_vars
    PROVE  Spreading'
<1>0. /\ queue \in Queues /\ Spreading /\ TypeOK
      /\ queue.running \in Nat /\ Len(queue.waiting) \in Nat
  BY LenProperties DEF Inv, TypeOK, Queues
<1>1. ASSUME NEW t \in Thread, Work(t) \/ Finish(t) PROVE Spreading'
  <2>1. /\ UNCHANGED <<budget, spread>>
        /\ (call' = "composite") <=> (call = "composite")
    BY <1>1 DEF Work, Finish, callVars, DoneNotified
  <2>2. CASE call # "composite"
    BY <1>0, <2>1, <2>2 DEF Spreading
  <2>3. CASE call = "composite"
    <3> DEFINE old == queue.running + Len(queue.waiting)
               new == queue'.running + Len(queue'.waiting)
    <3>1. new \in Nat /\ old \in Nat /\ new <= old
      <4>1. queue' \in Queues /\ (new = old \/ new = (queue.running - 1) + Len(queue.waiting))
        BY <1>1, WorkStep, FinishStep
      <4>2. queue'.running \in Nat /\ Len(queue'.waiting) \in Nat
        BY <4>1, LenProperties DEF Queues
      <4> QED  BY <1>0, <4>1, <4>2
    <3>2. Beside \in Nat /\ UNCHANGED Beside
      BY <2>1, <2>3, Sizes DEF Inv, Beside, Size
    <3>3. spread + Lesser(old, Beside) <= budget /\ spread \in Nat /\ budget \in Nat
      BY <1>0, <2>3, ThreadsAssumption DEF Spreading, TypeOK
    <3> HIDE DEF old, new
    <3>4. /\ Lesser(new, Beside) <= Lesser(old, Beside)
          /\ Lesser(new, Beside) \in Nat /\ Lesser(old, Beside) \in Nat
      BY <3>1, <3>2, LesserMonotone
    <3>5. spread + Lesser(new, Beside) <= budget
      <4>1. Lesser(new, Beside) + spread <= budget
        BY <3>3, <3>4, Sums
      <4> QED  BY <3>3, <3>4, <4>1, PlusCommutes
    <3>6. (spread + Lesser(queue.running + Len(queue.waiting), Beside) <= budget)'
      BY <2>1, <3>2, <3>5 DEF new
    <3> QED  BY <2>1, <2>3, <3>6 DEF Spreading
  <2> QED  BY <2>2, <2>3
<1>2. CASE Composite
  <2>1. /\ call' = "composite" /\ spread' = WalkThreads
        /\ UNCHANGED <<budget, queue>> /\ budget \in Threads
    BY <1>2 DEF Composite, poolVars, Inv
  <2>2. WalkThreads + Lesser(queue.running + Len(queue.waiting), Beside) <= budget
    BY <1>0, <2>1, WalkThreadsFit
  <2>3. (spread + Lesser(queue.running + Len(queue.waiting), Beside) <= budget)'
    BY <2>1, <2>2 DEF Beside, Size
  <2> QED  BY <2>1, <2>3 DEF Spreading
<1>3. CASE CompositeEnd
  BY <1>3 DEF CompositeEnd, Spreading
<1>4. ASSUME NEW b \in Threads, NewPool(b) PROVE Spreading'
  BY <1>0, <1>4 DEF NewPool, Spreading
<1>5. CASE UNCHANGED <<budget, queue, call, spread>>
  BY <1>0, <1>5 DEF Spreading, Beside, Size
<1>6. CASE call # "composite" /\ call' # "composite" /\ UNCHANGED spread
  BY <1>0, <1>6 DEF Spreading
<1>7. ASSUME NEW t \in Thread, StartWorkerFails(t) PROVE Spreading'
  <2>1. /\ UNCHANGED <<budget, call, spread>>
        /\ queue'.running = queue.running /\ queue'.waiting = queue.waiting
    BY <1>0, <1>7 DEF StartWorkerFails, callVars, Queues
  <2> QED  BY <1>0, <2>1 DEF Spreading, Beside, Size
<1>8. CASE \/ UNCHANGED vars \/ SpuriousWakeup
           \/ \E t \in Thread : StartWorker(t) \/ BecomeWorker(t) \/ Exit(t)
  BY <1>5, <1>6, <1>8 DEF vars, poolVars, callVars, SpuriousWakeup, StartWorker,
                          BecomeWorker, Exit, DoneNotified
<1>9. CASE \/ Start \/ Follow \/ Stop \/ Drain \/ Drop \/ (\E i \in owed : Collect(i))
           \/ CallStep /\ ~CompositeEnd
  BY <1>6, <1>9 DEF Start, Follow, SubmitJobs, Stop, Drain, Drop, Collect, CallStep,
     SubmitNotify, SubmitStart, EndNotify, SetEnding, CollectFinished,
     CollectWaiting, DecodeHere, CollectLend, DrainWait, DrainFinished, DrainEnd,
     DropNotify, DropJoin
<1> QED  BY <1>1, <1>2, <1>3, <1>4, <1>7, <1>8, <1>9, NextCases DEF Aside

-----------------------------------------------------------------------------
(* The threads there are to join.                                          *)

LEMMA JoinableKept ==
    ASSUME Inv, UNCHANGED <<started, starters>>,
           \A t \in Thread :
               \/ at'[t] = at[t]
               \/ /\ at[t] \in {"starting", "ready", "asleep", "decoding"}
                  /\ at'[t] \in {"ready", "asleep", "decoding", "joining"}
    PROVE  Joinable'
  BY DEF Inv, Joinable

LEMMA LoopHeadKeepsRoles ==
    ASSUME NEW t \in Thread, NEW q, at \in [Thread -> Places],
           at[t] \in {"ready", "decoding"}, LoopHead(t, q)
    PROVE  \A s \in Thread :
               \/ at'[s] = at[s]
               \/ /\ at[s] \in {"starting", "ready", "asleep", "decoding"}
                  /\ at'[s] \in {"ready", "asleep", "decoding", "joining"}
  BY DEF LoopHead, Take, Leave, Sleep, Woken

LEMMA JoinableStep ==
    ASSUME Inv, [Next]_vars
    PROVE  Joinable'
<1>0. /\ at \in [Thread -> Places] /\ started \in [Thread -> SUBSET Thread]
      /\ starters \subseteq Thread /\ Joinable
  BY DEF Inv, TypeOK
<1>1. ASSUME NEW t \in Thread, Work(t) \/ Finish(t) PROVE Joinable'
  <2>1. /\ at[t] \in {"ready", "decoding"} /\ UNCHANGED <<started, starters>>
        /\ LoopHead(t, queue) \/ LoopHead(t, AfterRun(queue, job[t]))
    BY <1>1 DEF Work, Finish
  <2> QED  BY <1>0, <2>1, JoinableKept, LoopHeadKeepsRoles
<1>2. CASE SubmitNotify \/ EndNotify \/ DropNotify \/ CollectLend
  <2>1. NotifyOne(at, at') \/ at' = Woken(at) \/ UNCHANGED at
    BY <1>2 DEF SubmitNotify, EndNotify, DropNotify, CollectLend
  <2>2. UNCHANGED <<started, starters>>
    BY <1>2 DEF SubmitNotify, EndNotify, DropNotify, CollectLend
  <2>3. \A t \in Thread : at'[t] = at[t] \/ (at[t] = "asleep" /\ at'[t] = "ready")
    <3>1. CASE UNCHANGED at
      BY <3>1
    <3>2. CASE NotifyOne(at, at') \/ at' = Woken(at)
      BY <1>0, <3>2, WakingKeepsDecoding
    <3> QED  BY <2>1, <3>1, <3>2
  <2> QED  BY <2>2, <2>3, JoinableKept
<1>3. CASE SubmitStart
  <2> DEFINE over   == {s \in starters : at[s] = "over"}
             reaped == [t \in Thread |-> IF t \in over THEN "free" ELSE at[t]]
  <2>0. /\ UNCHANGED started
        /\ \A t \in Thread : t \in over <=> t \in starters /\ at[t] = "over"
        /\ \A t \in Thread : reaped[t] = IF t \in over THEN "free" ELSE at[t]
        /\ reaped \in [Thread -> Places]
    BY <1>0, <1>3 DEF SubmitStart, Places
  <2>1. ASSUME NEW s \in Thread, reaped[s] = "free",
               at' = [reaped EXCEPT ![s] = "starting"],
               starters' = (starters \ over) \cup {s}
        PROVE  Joinable'
    <3> HIDE DEF over, reaped
    <3>1. \A t \in Thread : at'[t] = IF t = s THEN "starting" ELSE reaped[t]
      BY <2>0, <2>1
    <3> QED  BY <1>0, <2>0, <2>1, <3>1 DEF Joinable
  <2>2. ASSUME at' = reaped, starters' = starters \ over
        PROVE  Joinable'
    <3> HIDE DEF over, reaped
    <3> QED  BY <1>0, <2>0, <2>2 DEF Joinable
  <2> QED  BY <1>3, <2>1, <2>2 DEF SubmitStart
<1>4. ASSUME NEW s \in Thread, StartWorker(s) PROVE Joinable'
  <2>1. PICK t \in Thread : /\ at[t] = "free" /\ at' = [at EXCEPT ![t] = "ready"]
                            /\ started' = [started EXCEPT ![s] = @ \cup {t}]
    BY <1>4 DEF StartWorker
  <2>2. at[s] = "starting" /\ UNCHANGED starters
    BY <1>4 DEF StartWorker
  <2> QED  BY <1>0, <2>1, <2>2 DEF Joinable
<1>5. ASSUME NEW t \in Thread, BecomeWorker(t) PROVE Joinable'
  <2>1. /\ at[t] = "starting" /\ at' = [at EXCEPT ![t] = "ready"]
        /\ UNCHANGED <<started, starters>>
    BY <1>5 DEF BecomeWorker
  <2> QED  BY <1>0, <2>1, JoinableKept
<1>6. ASSUME NEW t \in Thread, Exit(t) PROVE Joinable'
  BY <1>0, <1>6 DEF Exit, Joinable
<1>7. CASE DropJoin
  <2>1. \A s \in Thread : started[s] = {}
    BY <1>0, <1>7 DEF DropJoin, Joinable
  <2>2. \A t \in Thread : at'[t] = "free" /\ started'[t] = {}
    BY <1>0, <1>7, <2>1 DEF DropJoin, Joinable
  <2> QED  BY <2>2 DEF Joinable
<1>8. CASE SpuriousWakeup
  <2>1. /\ UNCHANGED <<started, starters>>
        /\ \A t \in Thread : at'[t] = at[t] \/ (at[t] = "asleep" /\ at'[t] = "ready")
    BY <1>0, <1>8 DEF SpuriousWakeup, Asleep, poolVars
  <2>2. \A t \in Thread :
            \/ at'[t] = at[t]
            \/ /\ at[t] \in {"starting", "ready", "asleep", "decoding"}
               /\ at'[t] \in {"ready", "asleep", "decoding", "joining"}
    BY <2>1
  <2> QED  BY <2>1, <2>2, JoinableKept
<1>9. CASE UNCHANGED <<at, started, starters>>
  BY <1>0, <1>9 DEF Joinable
<1>10. CASE \/ UNCHANGED vars \/ Start \/ Follow \/ Stop \/ Drain \/ Drop
            \/ DrainEnd \/ CollectFinished \/ CollectWaiting \/ DecodeHere
            \/ DrainWait \/ DrainFinished
            \/ (\E b \in Threads : NewPool(b)) \/ (\E i \in owed : Collect(i))
            \/ (\E t \in Thread : StartWorkerFails(t)) \/ Composite \/ CompositeEnd
  BY <1>9, <1>10 DEF Composite, CompositeEnd, vars, poolVars, Start, Follow, SubmitJobs, Stop, Drain, Drop,
     DrainEnd, SetEnding, CollectFinished, CollectWaiting, DecodeHere, DrainWait,
     DrainFinished, NewPool, Collect, StartWorkerFails
<1> QED
  BY <1>1, <1>2, <1>3, <1>4, <1>5, <1>6, <1>7, <1>8, <1>10
     DEF Next, Call, CallStep, ThreadStep

LEMMA NoThreadLeftStep ==
    ASSUME Inv, [Next]_vars
    PROVE  NoThreadOutlivesThePool'
<1>0. /\ at \in [Thread -> Places] /\ started \in [Thread -> SUBSET Thread]
      /\ Joinable /\ NoThreadOutlivesThePool
  BY DEF Inv, TypeOK
<1>1. CASE DropJoin
  <2>1. \A s \in Thread : started[s] = {}
    BY <1>0, <1>1 DEF DropJoin, Joinable
  <2> QED  BY <1>0, <1>1, <2>1 DEF DropJoin, Joinable, NoThreadOutlivesThePool
<1>2. ASSUME ~DropJoin, call' = "no pool" PROVE UNCHANGED at
  <2>1. call = "no pool"
    BY <1>2 DEF Next, Call, CallStep, ThreadStep, vars, callVars,
       Start, Follow, SubmitJobs, Stop, Drain, Drop, Collect, NewPool, Work, Finish,
       StartWorker, StartWorkerFails, BecomeWorker, Exit, SpuriousWakeup,
       DoneNotified, SubmitNotify, SubmitStart, EndNotify, SetEnding,
       CollectFinished, CollectWaiting, DecodeHere, CollectLend, DrainWait,
       DrainFinished, DrainEnd, DropNotify, Composite, CompositeEnd
  <2>2. \A t \in Thread : at[t] = "free"
    BY <1>0, <2>1 DEF NoThreadOutlivesThePool
  <2> QED
    BY <1>2, <2>1, <2>2 DEF Next, Call, CallStep, ThreadStep, vars, poolVars,
       Start, Follow, SubmitJobs, Stop, Drain, Drop, Collect, NewPool, Work, Finish,
       StartWorker, StartWorkerFails, BecomeWorker, Exit, SpuriousWakeup, Asleep,
       DoneNotified, SubmitNotify, SubmitStart, EndNotify, SetEnding,
       CollectFinished, CollectWaiting, DecodeHere, CollectLend, DrainWait,
       DrainFinished, DrainEnd, DropNotify, Composite, CompositeEnd
<1>3. call' = "no pool" /\ ~DropJoin => call = "no pool"
  BY DEF Next, Call, CallStep, ThreadStep, vars, callVars,
     Start, Follow, SubmitJobs, Stop, Drain, Drop, Collect, NewPool, Work, Finish,
     StartWorker, StartWorkerFails, BecomeWorker, Exit, SpuriousWakeup,
     DoneNotified, SubmitNotify, SubmitStart, EndNotify, SetEnding,
     CollectFinished, CollectWaiting, DecodeHere, CollectLend, DrainWait,
     DrainFinished, DrainEnd, DropNotify, Composite, CompositeEnd
<1> QED  BY <1>0, <1>1, <1>2, <1>3 DEF NoThreadOutlivesThePool

-----------------------------------------------------------------------------
(* The theorems.                                                           *)

LEMMA InvInit == Init => Inv
<1> SUFFICES ASSUME Init PROVE Inv
  OBVIOUS
<1>1. TypeOK
  <2>1. EmptyQueue \in Queues
    BY NoFrames DEF EmptyQueue, Queues, None
  <2>2. handed \in 0..MaxJobs
    <3>1. 0 \in 0..MaxJobs
      BY MaxJobsAssumption
    <3> QED  BY <3>1 DEF Init
  <2>3. spread \in Nat \ {0} /\ more \in Nat /\ toStart \in [Thread -> Nat]
    <3>1. 1 \in Nat \ {0} /\ 0 \in Nat
      OBVIOUS
    <3>2. spread = 1 /\ more = 0 /\ toStart = [t \in Thread |-> 0]
      BY DEF Init
    <3> QED  BY <3>1, <3>2
  <2> QED  BY <2>1, <2>2, <2>3 DEF Init, TypeOK, Places, Calls, None
<1>2. Decoding = {} /\ queue.running = Cardinality(Decoding)
  BY FS_EmptySet DEF Init, Decoding, EmptyQueue
<1>3. NoThreadOutlivesThePool /\ Joinable /\ Spreading
  BY DEF Init, NoThreadOutlivesThePool, Joinable, Spreading
<1> QED
  BY <1>1, <1>2, <1>3 DEF Init, Inv, EmptyQueue, Dropping, EachFrameInOnePlace,
                           LentForAFrameInProgress

LEMMA InvNext == Inv /\ [Next]_vars => Inv'
  BY TypeStep, TurnStep, PlacedStep, CallStepKeeps, LentStep, JoinableStep,
     NoThreadLeftStep, SpreadStep DEF Inv

\* The strengthened invariant holds in every state the pool and the walk reach.
THEOREM Invariance == Spec => []Inv
  BY InvInit, InvNext, PTL DEF Spec

\* The pool's counters stay the counts they are declared to be (Queue.running
\* never wraps below zero), and each thread and call is at a known place.
THEOREM TypeCorrect == Spec => []TypeOK
<1>1. Inv => TypeOK
  BY DEF Inv
<1> QED  BY <1>1, Invariance, PTL

\* For every thread option the threads at work, the calling one included, are
\* no more than it allows (slot.rs:646-662): with the turn lent the calling
\* thread waits, and without it one turn is kept back for it.
THEOREM Budget == Spec => []ThreadBudget
<1>1. ASSUME Inv PROVE ThreadBudget
  <2> SUFFICES ASSUME call # "no pool"
               PROVE  Cardinality(Decoding) + (IF Working THEN spread ELSE 0) <= budget
    BY DEF ThreadBudget
  <2>1. /\ budget \in Threads /\ InTurn(queue) /\ LentForAFrameInProgress
        /\ queue.running = Cardinality(Decoding) /\ Spreading /\ queue \in Queues
        /\ spread \in Nat
    BY <1>1 DEF Inv, TypeOK
  <2>2. /\ Size \in Nat /\ Beside \in Nat /\ budget \in Nat
        /\ Size <= budget /\ Beside <= budget - 1
    BY <2>1, Sizes, ThreadsAssumption
  <2>3. Cardinality(Decoding) \in Nat
    BY CountDecoding
  <2>4. CASE Working
    <3>1. queue.lent = None
      BY <2>1, <2>4 DEF Working, LentForAFrameInProgress
    <3>2. queue.running <= Beside
      BY <2>1, <3>1 DEF InTurn
    <3>3. CASE call # "composite"
      <4>1. spread = 1
        BY <2>1, <3>3 DEF Spreading
      <4>2. Cardinality(Decoding) + 1 <= budget
        BY <2>1, <2>2, <2>3, <3>2, WithOneMore
      <4> QED  BY <2>4, <4>1, <4>2
    <3>4. CASE call = "composite"
      <4>1. Len(queue.waiting) \in Nat /\ queue.running \in Nat
        BY <2>1, LenProperties DEF Queues
      <4> DEFINE l == Lesser(queue.running + Len(queue.waiting), Beside)
      <4>2. l \in Nat /\ queue.running <= l
        BY <2>2, <3>2, <4>1, LesserOfSum
      <4>3. spread + l <= budget
        BY <2>1, <3>4 DEF Spreading
      <4> HIDE DEF l
      <4>4. spread \in Nat /\ budget \in Nat
        BY <2>1, <2>2
      <4>5. queue.running + spread <= budget
        BY <4>1, <4>2, <4>3, <4>4, Sums
      <4> QED  BY <2>1, <2>4, <4>5
    <3> QED  BY <3>3, <3>4
  <2>5. CASE ~Working
    <3>1. Cardinality(Decoding) <= Size
      BY <2>1 DEF InTurn
    <3>2. Cardinality(Decoding) + 0 <= budget
      BY <2>2, <2>3, <3>1, WithOneMore
    <3> QED  BY <2>5, <3>2
  <2> QED  BY <2>4, <2>5
<1> QED  BY <1>1, Invariance, PTL

\* The turn lent to the pool in Pool::collect is always for the frame the
\* calling thread waits on, with a thread at work on it that will return it.
THEOREM LendingIsSound == Spec => []LentForAFrameInProgress
<1>1. Inv => LentForAFrameInProgress
  BY DEF Inv
<1> QED  BY <1>1, Invariance, PTL

\* No frame submitted is lost, decoded twice or held in two places, whatever
\* the order in which threads take, finish and are asked for frames.
THEOREM FramesAreConserved == Spec => []EachFrameInOnePlace
<1>1. Inv => EachFrameInOnePlace
  BY DEF Inv
<1> QED  BY <1>1, Invariance, PTL

\* Once Drop for Pool has returned no thread is left, those that starters
\* started included, however starting them failed (slot.rs:984).
THEOREM NoThreadIsLeft == Spec => []NoThreadOutlivesThePool
<1>1. Inv => NoThreadOutlivesThePool
  BY DEF Inv
<1> QED  BY <1>1, Invariance, PTL

-----------------------------------------------------------------------------
(***************************************************************************)
(* The pool has the threads it thinks it has, and those it needs are       *)
(* awake, proved for every set of threads, every ceiling on frames in      *)
(* flight, every thread option and every length of run.                    *)
(*                                                                         *)
(* queue.threads counts the threads that serve the pool, those starters    *)
(* have still to start and those a submit has still to ask for; each of    *)
(* the three changes hands one thread at a time, or gives up what cannot   *)
(* be started all at once.                                                 *)
(*                                                                         *)
(* A thread goes to sleep only when no turn is free or nothing waits.  A   *)
(* job, or a turn, that comes after that wakes a sleeper; in between a     *)
(* submit of one job is one wake-up short, and one of a batch wakes all.   *)
(***************************************************************************)

Counted ==
    /\ \A t \in Thread : at[t] # "starting" => toStart[t] = 0
    /\ call \notin {"submit: notify", "submit: start"} => more = 0
    /\ IsFiniteSet(ToCome)
    /\ ThreadsCounted

Awake == {t \in Thread : at[t] \in {"starting", "ready"}}

\* The wake-ups a submit still owes.
Short == IF call = "submit: notify" THEN 1 ELSE 0

AwakeEnough ==
    Asleep(at) # {} => \/ call = "submit: notify" /\ ~single
                       \/ Useful <= Cardinality(Awake) + Short

-----------------------------------------------------------------------------
(* Counting.                                                               *)

Batch(s, n) == {s} \X (1..n)

LEMMA BatchCount ==
    ASSUME NEW s, NEW n \in Nat
    PROVE  IsFiniteSet(Batch(s, n)) /\ Cardinality(Batch(s, n)) = n
<1>1. IsFiniteSet({s}) /\ Cardinality({s}) = 1
  BY FS_Singleton
<1>2. IsFiniteSet(1..n) /\ Cardinality(1..n) = n
  BY FS_Interval
<1> DEFINE I == 1..n
           S == {s}
<1>3. IsFiniteSet(S \X I) /\ Cardinality(S \X I) = Cardinality(S) * Cardinality(I)
  <2>1. IsFiniteSet(S) /\ IsFiniteSet(I)
    BY <1>1, <1>2
  <2> HIDE DEF S, I
  <2> QED  BY <2>1, FS_Product
<1> QED  BY <1>1, <1>2, <1>3 DEF Batch

LEMMA ToComeMembers ==
    ASSUME toStart \in [Thread -> Nat]
    PROVE  /\ \A p : p \in ToCome <=> \E s \in Thread : p \in Batch(s, toStart[s])
           /\ \A s \in Thread : Batch(s, toStart[s]) \subseteq ToCome
  BY DEF ToCome, Batch

\* One starter's share changes and nobody else's.
LEMMA ShareChanges ==
    ASSUME toStart \in [Thread -> Nat], NEW s \in Thread, NEW n \in Nat,
           toStart' = [toStart EXCEPT ![s] = n]
    PROVE  ToCome' = (ToCome \ Batch(s, toStart[s])) \cup Batch(s, n)
<1>1. toStart' \in [Thread -> Nat] /\ toStart'[s] = n
      /\ \A t \in Thread : t # s => toStart'[t] = toStart[t]
  OBVIOUS
<1>2. \A p : p \in ToCome' <=> \E t \in Thread : p \in Batch(t, toStart'[t])
  BY DEF ToCome, Batch
<1>3. \A t, u : \A m, k \in Nat : t # u => Batch(t, m) \cap Batch(u, k) = {}
  BY DEF Batch
<1>4. ASSUME NEW p PROVE p \in ToCome' <=> p \in (ToCome \ Batch(s, toStart[s])) \cup Batch(s, n)
  <2>1. CASE p \in ToCome'
    <3>1. PICK t \in Thread : p \in Batch(t, toStart'[t])
      BY <1>2, <2>1
    <3>2. CASE t = s
      <4>1. p \in Batch(s, n)
        BY <1>1, <3>1, <3>2
      <4> QED  BY <2>1, <4>1
    <3>3. CASE t # s
      <4>1. p \in Batch(t, toStart[t])
        BY <1>1, <3>1, <3>3
      <4>2. p \in ToCome
        BY <4>1, ToComeMembers
      <4>3. p \notin Batch(s, toStart[s])
        BY <1>3, <3>3, <4>1
      <4> QED  BY <2>1, <4>2, <4>3
    <3> QED  BY <3>2, <3>3
  <2>2. CASE p \in Batch(s, n)
    BY <1>1, <1>2, <2>2
  <2>3. CASE p \in ToCome \ Batch(s, toStart[s])
    <3>1. PICK t \in Thread : p \in Batch(t, toStart[t])
      BY <2>3, ToComeMembers
    <3>2. t # s
      BY <2>3, <3>1
    <3>3. p \in Batch(t, toStart'[t])
      BY <1>1, <3>1, <3>2
    <3>4. p \in ToCome'
      BY <1>2, <3>3
    <3> QED  BY <2>3, <3>4
  <2> QED  BY <2>1, <2>2, <2>3
<1> QED  BY <1>4

LEMMA ShareGrows ==
    ASSUME toStart \in [Thread -> Nat], IsFiniteSet(ToCome), NEW s \in Thread, NEW n \in Nat,
           toStart[s] = 0, toStart' = [toStart EXCEPT ![s] = n]
    PROVE  IsFiniteSet(ToCome') /\ Cardinality(ToCome') = Cardinality(ToCome) + n
<1>1. Batch(s, 0) = {}
  BY DEF Batch
<1>2. ToCome' = ToCome \cup Batch(s, n)
  <2>1. ToCome' = (ToCome \ Batch(s, toStart[s])) \cup Batch(s, n)
    BY ShareChanges
  <2> QED  BY <1>1, <2>1
<1>3. ToCome \cap Batch(s, n) = {}
  <2> SUFFICES ASSUME NEW p \in ToCome, p \in Batch(s, n) PROVE FALSE
    OBVIOUS
  <2>1. PICK t \in Thread : p \in Batch(t, toStart[t])
    BY ToComeMembers
  <2>2. t = s
    BY <2>1 DEF Batch
  <2> QED  BY <1>1, <2>1, <2>2
<1>4. IsFiniteSet(Batch(s, n)) /\ Cardinality(Batch(s, n)) = n
  BY BatchCount
<1>5. /\ IsFiniteSet(ToCome')
      /\ Cardinality(ToCome') = Cardinality(ToCome) + Cardinality(Batch(s, n))
                                 - Cardinality(ToCome \cap Batch(s, n))
  BY <1>2, <1>4, FS_Union
<1>6. Cardinality(ToCome) \in Nat /\ Cardinality(ToCome \cap Batch(s, n)) = 0
  BY <1>3, FS_CardinalityType, FS_EmptySet
<1> QED  BY <1>4, <1>5, <1>6

LEMMA ShareGoes ==
    ASSUME toStart \in [Thread -> Nat], IsFiniteSet(ToCome), NEW s \in Thread,
           toStart' = [toStart EXCEPT ![s] = 0]
    PROVE  IsFiniteSet(ToCome') /\ Cardinality(ToCome') = Cardinality(ToCome) - toStart[s]
<1>1. Batch(s, 0) = {} /\ 0 \in Nat /\ toStart[s] \in Nat
  BY DEF Batch
<1>2. ToCome' = ToCome \ Batch(s, toStart[s])
  <2>1. ToCome' = (ToCome \ Batch(s, toStart[s])) \cup Batch(s, 0)
    BY <1>1, ShareChanges
  <2> QED  BY <1>1, <2>1
<1>3. ToCome \cap Batch(s, toStart[s]) = Batch(s, toStart[s])
  BY ToComeMembers
<1>4. Cardinality(Batch(s, toStart[s])) = toStart[s]
  BY <1>1, BatchCount
<1>5. /\ IsFiniteSet(ToCome')
      /\ Cardinality(ToCome')
            = Cardinality(ToCome) - Cardinality(ToCome \cap Batch(s, toStart[s]))
  BY <1>2, FS_Difference
<1> QED  BY <1>3, <1>4, <1>5

LEMMA ShareShrinks ==
    ASSUME toStart \in [Thread -> Nat], IsFiniteSet(ToCome), NEW s \in Thread, toStart[s] > 0,
           toStart' = [toStart EXCEPT ![s] = @ - 1]
    PROVE  IsFiniteSet(ToCome') /\ Cardinality(ToCome') = Cardinality(ToCome) - 1
<1> DEFINE n == toStart[s]
           e == <<s, n>>
<1>1. n \in Nat /\ n - 1 \in Nat /\ toStart' = [toStart EXCEPT ![s] = n - 1]
  OBVIOUS
<1>2. ToCome' = (ToCome \ Batch(s, n)) \cup Batch(s, n - 1)
  BY <1>1, ShareChanges
<1> HIDE DEF n
<1>3. 1..n = 1..(n - 1) \cup {n} /\ n \notin 1..(n - 1)
  <2>1. n > 0
    BY DEF n
  <2> QED  BY <1>1, <2>1
<1>4. Batch(s, n) = Batch(s, n - 1) \cup {e} /\ e \notin Batch(s, n - 1)
  BY <1>3 DEF Batch
<1>5. Batch(s, n) \subseteq ToCome
  BY ToComeMembers DEF n
<1>6. ToCome' = ToCome \ {e} /\ e \in ToCome
  BY <1>2, <1>4, <1>5
<1> QED  BY <1>6, FS_RemoveElement

-----------------------------------------------------------------------------
(* The count.                                                              *)

LEMMA Recounts ==
    ASSUME NEW n \in Int, NEW a \in Nat, NEW b \in Nat, NEW m \in Nat, n = a + b + m
    PROVE  /\ n - 1 = (a - 1) + b + m
           /\ n = (a + 1) + (b + (m - 1)) + 0 /\ n = (a + 1) + (b - 1) + m
           /\ n - m = a + b + 0
  OBVIOUS

LEMMA ServingCount ==
    IsFiniteSet(Serving) /\ Cardinality(Serving) \in Nat
<1>1. Serving \in SUBSET Thread
  BY DEF Serving
<1> QED  BY <1>1, FS_Subset, FS_CardinalityType, ThreadAssumption

\* A step that changes the number of nobody.
LEMMA CountSame ==
    ASSUME Counted, UNCHANGED <<toStart, more, budget>>, Serving' = Serving,
           queue'.threads = queue.threads,
           \A t \in Thread : at'[t] # "starting" => at[t] # "starting" \/ toStart[t] = 0,
           call' \notin {"submit: notify", "submit: start"} =>
               call \notin {"submit: notify", "submit: start"} \/ more = 0,
           call = "no pool" => call' = "no pool"
    PROVE  Counted'
<1>1. ToCome' = ToCome /\ Size' = Size
  BY DEF ToCome, Size
<1>2. /\ queue'.threads = Cardinality(Serving') + Cardinality(ToCome') + more'
      /\ queue'.threads <= Size' \/ call' = "no pool"
  BY <1>1 DEF Counted, ThreadsCounted
<1> QED  BY <1>1, <1>2 DEF Counted, ThreadsCounted

\* A thread at the head of the loop stays, or goes and is counted off.
LEMMA LoopHeadCounted ==
    ASSUME Inv, Counted, NEW t \in Thread, NEW q \in Queues, at[t] \in {"ready", "decoding"},
           LoopHead(t, q), q.threads = queue.threads,
           UNCHANGED <<toStart, more, budget>>,
           call' \notin {"submit: notify", "submit: start"} =>
               call \notin {"submit: notify", "submit: start"} \/ more = 0,
           call = "no pool" => call' = "no pool"
    PROVE  Counted'
<1>1. at \in [Thread -> Places]
  BY DEF Inv, TypeOK
<1>4. queue.threads \in Int /\ more \in Nat
  BY DEF Inv, TypeOK, Queues
<1>2. CASE Take(t, q) \/ Sleep(t, q)
  <2>1. queue'.threads = queue.threads
    BY <1>2 DEF Take, Sleep, Queues
  <2>2. \A s \in Thread : \/ at'[s] = at[s]
                          \/ /\ at[s] \in {"ready", "asleep", "decoding"}
                             /\ at'[s] \in {"ready", "asleep", "decoding"}
    BY <1>1, <1>2 DEF Take, Sleep, Woken
  <2>3. Serving' = Serving
    BY <2>2 DEF Serving
  <2> QED  BY <2>1, <2>2, <2>3, CountSame
<1>3. CASE Leave(t, q)
  <2>1. /\ queue'.threads = queue.threads - 1
        /\ at' = [at EXCEPT ![t] = "joining"]
    BY <1>3 DEF Leave, Queues
  <2>2. Serving' = Serving \ {t} /\ t \in Serving
    BY <1>1, <2>1 DEF Serving
  <2>3. Cardinality(Serving') = Cardinality(Serving) - 1
    BY <2>2, ServingCount, FS_RemoveElement
  <2>4. ToCome' = ToCome /\ Size' = Size
    BY DEF ToCome, Size
  <2>5. Cardinality(Serving) \in Nat /\ Cardinality(ToCome) \in Nat
    BY ServingCount, FS_CardinalityType DEF Counted
  <2>6. queue'.threads = Cardinality(Serving') + Cardinality(ToCome') + more'
    <3>1. queue.threads = Cardinality(Serving) + Cardinality(ToCome) + more
      BY DEF Counted, ThreadsCounted
    <3> DEFINE n == queue.threads
    <3>2. n \in Int /\ n = Cardinality(Serving) + Cardinality(ToCome) + more
      BY <1>4, <3>1
    <3> HIDE DEF n
    <3>3. n - 1 = (Cardinality(Serving) - 1) + Cardinality(ToCome) + more
      BY ONLY <1>4, <2>5, <3>2, Recounts
    <3> QED  BY <2>1, <2>3, <2>4, <3>3 DEF n
  <2>7. queue'.threads <= Size' \/ call' = "no pool"
    <3>1. CASE call = "no pool"
      BY <3>1
    <3>2. CASE call # "no pool"
      <4>1. Size \in Nat
        BY <3>2, Sizes DEF Inv
      <4>2. queue.threads <= Size
        BY <3>2 DEF Counted, ThreadsCounted
      <4> DEFINE n == queue.threads
      <4>3. n \in Int /\ n <= Size
        BY <1>4, <4>2
      <4> HIDE DEF n
      <4>4. n - 1 <= Size
        BY ONLY <4>1, <4>3
      <4> QED  BY <2>1, <2>4, <4>4 DEF n
    <3> QED  BY <3>1, <3>2
  <2>8. \A s \in Thread : at'[s] # "starting" => toStart'[s] = 0
    BY <1>1, <2>1 DEF Counted
  <2> QED  BY <2>4, <2>6, <2>7, <2>8 DEF Counted, ThreadsCounted
<1> QED  BY <1>2, <1>3 DEF LoopHead

LEMMA SubmitCounted ==
    ASSUME Inv, Counted, NEW jobs \in Seq(Index), NEW last, SubmitJobs(jobs, last)
    PROVE  Counted'
<1>1. /\ queue \in Queues /\ budget \in Threads /\ call = "walk" /\ more = 0
      /\ queue.threads \in Int /\ queue.running \in Nat
  BY DEF SubmitJobs, Counted, Inv, TypeOK, Queues
<1> DEFINE waiting == queue.waiting \o jobs
           useful  == Lesser(Len(waiting) + queue.running, Size)
           extra   == IF useful > queue.threads THEN useful - queue.threads ELSE 0
<1>2. /\ queue'.threads = queue.threads + extra /\ more' = extra
      /\ UNCHANGED <<budget, at, toStart>> /\ call' = "submit: notify"
  BY <1>1 DEF SubmitJobs, Queues
<1>3. Size \in Nat /\ queue.threads <= Size
  BY <1>1, Sizes DEF Counted, ThreadsCounted
<1>4. useful \in Nat /\ useful <= Size
  <2>1. waiting \in Seq(Index)
    BY <1>1 DEF Queues
  <2>2. Len(waiting) \in Nat
    BY <2>1
  <2> HIDE DEF waiting
  <2> QED  BY <1>1, <1>3, <2>2 DEF Lesser
<1> HIDE DEF useful
<1>5. extra \in Nat /\ queue.threads + extra <= Size
  BY <1>1, <1>3, <1>4
<1> HIDE DEF extra
<1>6. ToCome' = ToCome /\ Size' = Size /\ Serving' = Serving
  BY <1>2 DEF ToCome, Size, Serving
<1>7. Cardinality(Serving) \in Nat /\ Cardinality(ToCome) \in Nat
  BY ServingCount, FS_CardinalityType DEF Counted
<1>8. queue'.threads = Cardinality(Serving') + Cardinality(ToCome') + more'
  <2>1. queue.threads = Cardinality(Serving) + Cardinality(ToCome)
    BY <1>1, <1>7 DEF Counted, ThreadsCounted
  <2> QED  BY <1>2, <1>5, <1>6, <1>7, <2>1
<1> QED  BY <1>2, <1>3, <1>5, <1>6, <1>8 DEF Counted, ThreadsCounted

LEMMA SubmitStartCounted ==
    ASSUME Inv, Counted, SubmitStart
    PROVE  Counted'
<1> DEFINE over   == {s \in starters : at[s] = "over"}
           reaped == [t \in Thread |-> IF t \in over THEN "free" ELSE at[t]]
<1>1. /\ call = "submit: start" /\ call' = "walk" /\ more' = 0 /\ UNCHANGED budget
      /\ \/ \E s \in Thread :
                /\ reaped[s] = "free"
                /\ at' = [reaped EXCEPT ![s] = "starting"]
                /\ toStart' = [toStart EXCEPT ![s] = more - 1]
                /\ UNCHANGED queue
         \/ /\ at' = reaped
            /\ queue' = [queue EXCEPT !.threads = @ - more]
            /\ UNCHANGED toStart
  BY DEF SubmitStart
<1>2. /\ queue \in Queues /\ at \in [Thread -> Places] /\ toStart \in [Thread -> Nat]
      /\ more \in Nat /\ more > 0 /\ queue.threads \in Int /\ budget \in Threads
  BY <1>1 DEF Inv, TypeOK, Queues
<1>3. /\ Cardinality(Serving) \in Nat /\ Cardinality(ToCome) \in Nat /\ Size \in Nat
      /\ IsFiniteSet(ToCome) /\ queue.threads <= Size /\ Size' = Size
      /\ queue.threads = Cardinality(Serving) + Cardinality(ToCome) + more
  BY <1>1, <1>2, ServingCount, FS_CardinalityType, Sizes DEF Counted, ThreadsCounted, Size
<1>4. \A t \in Thread : reaped[t] = at[t] \/ (at[t] = "over" /\ reaped[t] = "free")
  OBVIOUS
<1>5. reaped \in [Thread -> Places]
  BY <1>2 DEF Places
<1> HIDE DEF reaped
<1>6. ASSUME NEW s \in Thread, reaped[s] = "free", at' = [reaped EXCEPT ![s] = "starting"],
             toStart' = [toStart EXCEPT ![s] = more - 1], UNCHANGED queue
      PROVE  Counted'
  <2>1. /\ at'[s] = "starting" /\ at[s] \in {"free", "over"}
        /\ \A t \in Thread : t # s => at'[t] = reaped[t]
    BY <1>4, <1>5, <1>6
  <2>2. Serving' = Serving \cup {s} /\ s \notin Serving
    BY <1>4, <2>1 DEF Serving
  <2>3. Cardinality(Serving') = Cardinality(Serving) + 1
    BY <2>2, ServingCount, FS_AddElement
  <2>4. toStart[s] = 0 /\ more - 1 \in Nat
    <3>1. toStart[s] = 0
      BY <2>1 DEF Counted
    <3> QED  BY <1>2, <3>1
  <2>5. IsFiniteSet(ToCome') /\ Cardinality(ToCome') = Cardinality(ToCome) + (more - 1)
    BY <1>2, <1>3, <1>6, <2>4, ShareGrows
  <2>6. queue'.threads = Cardinality(Serving') + Cardinality(ToCome') + more'
    <3>1. queue.threads = (Cardinality(Serving) + 1) + (Cardinality(ToCome) + (more - 1)) + 0
      BY <1>2, <1>3, Recounts
    <3> QED  BY <1>1, <1>6, <2>3, <2>5, <3>1
  <2>7. \A t \in Thread : at'[t] # "starting" => toStart'[t] = 0
    BY <1>2, <1>4, <1>6, <2>1 DEF Counted
  <2> QED  BY <1>1, <1>3, <1>6, <2>5, <2>6, <2>7 DEF Counted, ThreadsCounted
<1>7. ASSUME at' = reaped, queue' = [queue EXCEPT !.threads = @ - more], UNCHANGED toStart
      PROVE  Counted'
  <2>1. Serving' = Serving /\ ToCome' = ToCome
    BY <1>4, <1>7 DEF Serving, ToCome
  <2>2. queue'.threads = queue.threads - more
    BY <1>2, <1>7 DEF Queues
  <2>3. queue'.threads = Cardinality(Serving') + Cardinality(ToCome') + more'
    <3>1. queue.threads - more = Cardinality(Serving) + Cardinality(ToCome) + 0
      BY <1>2, <1>3, Recounts
    <3> QED  BY <1>1, <2>1, <2>2, <3>1
  <2>4. queue'.threads <= Size'
    BY <1>2, <1>3, <2>2
  <2>5. \A t \in Thread : at'[t] # "starting" => toStart'[t] = 0
    BY <1>4, <1>7 DEF Counted
  <2> QED  BY <1>1, <1>3, <2>1, <2>3, <2>4, <2>5 DEF Counted, ThreadsCounted
<1> QED  BY <1>1, <1>6, <1>7

LEMMA StarterCounted ==
    ASSUME Inv, Counted, NEW s \in Thread, StartWorker(s) \/ StartWorkerFails(s)
    PROVE  Counted'
<1>1. /\ at \in [Thread -> Places] /\ toStart \in [Thread -> Nat] /\ queue \in Queues
      /\ more \in Nat /\ toStart[s] \in Nat
  BY DEF Inv, TypeOK
<1>2. /\ at[s] = "starting" /\ toStart[s] > 0 /\ UNCHANGED <<more, budget, call>>
  BY DEF StartWorker, StartWorkerFails, callVars
<1>3. /\ Cardinality(Serving) \in Nat /\ Cardinality(ToCome) \in Nat /\ Size \in Nat
      /\ IsFiniteSet(ToCome) /\ Size' = Size /\ call # "no pool"
  BY <1>2, ServingCount, FS_CardinalityType, Sizes
     DEF Counted, Size, Inv, NoThreadOutlivesThePool
<1> DEFINE n == queue.threads
           m == toStart[s]
<1>4. n \in Int /\ m \in Nat /\ more \in Nat
  BY <1>1 DEF Queues
<1> HIDE DEF n, m
<1>5. /\ n = (Cardinality(Serving) + 1) + (Cardinality(ToCome) - 1) + more
      /\ n - m = Cardinality(Serving) + (Cardinality(ToCome) - m) + more /\ n - m <= Size
  <2>1. /\ Cardinality(Serving) \in Nat /\ Cardinality(ToCome) \in Nat /\ Size \in Nat
        /\ n = Cardinality(Serving) + Cardinality(ToCome) + more /\ n <= Size
    BY <1>3 DEF Counted, ThreadsCounted, n
  <2> QED  BY ONLY <1>4, <2>1
<1>6. queue.threads <= Size
  BY <1>3 DEF Counted, ThreadsCounted
<1>7. CASE StartWorker(s)
  <2>1. PICK t \in Thread : at[t] = "free" /\ at' = [at EXCEPT ![t] = "ready"]
    BY <1>7 DEF StartWorker
  <2>2. toStart' = [toStart EXCEPT ![s] = @ - 1] /\ UNCHANGED queue
    BY <1>7 DEF StartWorker
  <2>3. Serving' = Serving \cup {t} /\ t \notin Serving
    BY <1>1, <2>1 DEF Serving
  <2>4. Cardinality(Serving') = Cardinality(Serving) + 1
    BY <2>3, ServingCount, FS_AddElement
  <2>5. IsFiniteSet(ToCome') /\ Cardinality(ToCome') = Cardinality(ToCome) - 1
    BY <1>1, <1>2, <1>3, <2>2, ShareShrinks
  <2>6. queue'.threads = Cardinality(Serving') + Cardinality(ToCome') + more'
    BY <1>2, <1>5, <2>2, <2>4, <2>5 DEF n
  <2>7. \A u \in Thread : at'[u] # "starting" => toStart'[u] = 0
    BY <1>1, <1>2, <2>1, <2>2 DEF Counted
  <2> QED  BY <1>2, <1>3, <1>6, <2>2, <2>5, <2>6, <2>7 DEF Counted, ThreadsCounted
<1>8. CASE StartWorkerFails(s)
  <2>1. /\ toStart' = [toStart EXCEPT ![s] = 0] /\ UNCHANGED at
        /\ queue'.threads = n - m
    BY <1>1, <1>8 DEF StartWorkerFails, Queues, n, m
  <2>2. IsFiniteSet(ToCome') /\ Cardinality(ToCome') = Cardinality(ToCome) - m
    BY <1>1, <1>3, <2>1, ShareGoes DEF m
  <2>3. Serving' = Serving
    BY <2>1 DEF Serving
  <2>4. queue'.threads = Cardinality(Serving') + Cardinality(ToCome') + more'
    BY <1>2, <1>5, <2>1, <2>2, <2>3
  <2>5. \A u \in Thread : at'[u] # "starting" => toStart'[u] = 0
    BY <1>1, <2>1 DEF Counted
  <2> QED  BY <1>2, <1>3, <1>5, <2>1, <2>2, <2>4, <2>5 DEF Counted, ThreadsCounted
<1> QED  BY <1>7, <1>8

LEMMA CountedInit == Init => Counted
<1> SUFFICES ASSUME Init PROVE Counted
  OBVIOUS
<1>1. call = "no pool" /\ \A t \in Thread : at[t] = "free" /\ toStart[t] = 0
  BY DEF Init
<1>2. queue.threads = 0 /\ more = 0
  BY DEF Init, EmptyQueue
<1>3. Serving = {}
  BY <1>1 DEF Serving
<1>4. ToCome = {}
  <2>1. 1..0 = {}
    OBVIOUS
  <2>2. \A t \in Thread : 1..toStart[t] = {}
    BY <1>1, <2>1
  <2> QED  BY <2>2 DEF ToCome
<1>5. IsFiniteSet(ToCome) /\ Cardinality(Serving) = 0 /\ Cardinality(ToCome) = 0
  BY <1>3, <1>4, FS_EmptySet
<1>6. queue.threads = Cardinality(Serving) + Cardinality(ToCome) + more
  BY <1>2, <1>5
<1> QED  BY <1>1, <1>2, <1>5, <1>6 DEF Counted, ThreadsCounted

\* The queue as a decode leaves it is a queue still.
LEMMA AfterRunQueue ==
    ASSUME Inv, NEW t \in Thread, at[t] = "decoding"
    PROVE  /\ AfterRun(queue, job[t]) \in Queues /\ InTurn(AfterRun(queue, job[t]))
           /\ AfterRun(queue, job[t]).threads = queue.threads
           /\ AfterRun(queue, job[t]).waiting = queue.waiting
           /\ AfterRun(queue, job[t]).running = queue.running - 1
           /\ AfterRun(queue, job[t]).lent = queue.lent
              \/ AfterRun(queue, job[t]).lent = None
<1>1. t \in Decoding /\ queue \in Queues
  BY DEF Decoding, Inv, TypeOK
<1>2. AfterRun(queue, job[t]) \in Queues /\ InTurn(AfterRun(queue, job[t]))
  BY <1>1, AfterRunInTurn
<1> QED  BY <1>1, <1>2 DEF AfterRun, Queues

LEMMA CountedNext ==
    ASSUME Inv, Counted, [Next]_vars
    PROVE  Counted'
<1>0. at \in [Thread -> Places] /\ queue \in Queues
  BY DEF Inv, TypeOK
<1>1. CASE Start \/ Follow
  <2>1. \A n \in 0..MaxJobs : [k \in 1..n |-> k] \in Seq(Index)
    BY BatchFrames
  <2>2. Follow => <<handed + 1>> \in Seq(Index)
    <3>1. handed \in 0..MaxJobs /\ MaxJobs \in Nat /\ (Follow => handed < MaxJobs)
      BY MaxJobsAssumption DEF Follow, Inv, TypeOK
    <3>2. Follow => handed + 1 \in Index
      BY ONLY <3>1 DEF Index
    <3> QED  BY <3>2, OneFrame
  <2>3. \E jobs \in Seq(Index), last \in BOOLEAN : SubmitJobs(jobs, last)
    BY <1>1, <2>1, <2>2 DEF Start, Follow
  <2> QED  BY <2>3, SubmitCounted
<1>2. CASE SubmitStart
  BY <1>2, SubmitStartCounted
<1>3. ASSUME NEW s \in Thread, StartWorker(s) \/ StartWorkerFails(s)
      PROVE  Counted'
  BY <1>3, StarterCounted
<1>4. ASSUME NEW t \in Thread, Work(t) \/ Finish(t)
      PROVE  Counted'
  <2>1. UNCHANGED <<toStart, more, budget>> /\ at[t] \in {"ready", "decoding"}
    BY <1>4 DEF Work, Finish, callVars
  <2>2. /\ call' \in {"submit: notify", "submit: start"}
             <=> call \in {"submit: notify", "submit: start"}
        /\ call = "no pool" => call' = "no pool"
    BY <1>4 DEF Work, Finish, callVars, DoneNotified
  <2>3. CASE Work(t)
    BY <1>0, <2>1, <2>2, <2>3, LoopHeadCounted DEF Work
  <2>4. CASE Finish(t)
    <3>1. LoopHead(t, AfterRun(queue, job[t])) /\ at[t] = "decoding"
      BY <2>4 DEF Finish
    <3> QED  BY <2>1, <2>2, <3>1, AfterRunQueue, LoopHeadCounted
  <2> QED  BY <1>4, <2>3, <2>4
<1>5. ASSUME NEW b \in Threads, NewPool(b)
      PROVE  Counted'
  <2>1. /\ \A t \in Thread : at[t] = "free" /\ at'[t] = "free" /\ toStart'[t] = 0
        /\ queue'.threads = 0 /\ more' = 0 /\ budget' \in Threads
    BY <1>5 DEF NewPool, EmptyQueue, Counted, Inv, NoThreadOutlivesThePool
  <2>2. Serving' = {} /\ ToCome' = {}
    BY <2>1 DEF Serving, ToCome
  <2>3. IsFiniteSet(ToCome') /\ Cardinality(Serving') = 0 /\ Cardinality(ToCome') = 0
    BY <2>2, FS_EmptySet
  <2>4. Size' \in Nat
    <3>1. budget' \in Nat /\ MaxSlots \in Nat
      BY <2>1, ThreadsAssumption, MaxSlotsAssumption
    <3> QED  BY <3>1 DEF Size, Lesser
  <2>5. queue'.threads = Cardinality(Serving') + Cardinality(ToCome') + more'
    BY <2>1, <2>3
  <2>6. queue'.threads <= Size'
    BY <2>1, <2>4
  <2> QED  BY <2>1, <2>3, <2>5, <2>6 DEF Counted, ThreadsCounted
<1>6. CASE \/ UNCHANGED vars \/ Stop \/ Drain \/ Drop \/ (\E i \in owed : Collect(i))
           \/ CollectFinished \/ CollectWaiting \/ DecodeHere
           \/ DrainWait \/ DrainFinished \/ DrainEnd \/ Composite \/ CompositeEnd
  <2>1. /\ UNCHANGED <<toStart, more, budget, at>> /\ queue'.threads = queue.threads
        /\ call' \notin {"submit: notify", "submit: start"} =>
               call \notin {"submit: notify", "submit: start"}
        /\ call = "no pool" => call' = "no pool"
    BY <1>0, <1>6 DEF vars, poolVars, callVars, Stop, Drain, Drop, Collect, CollectFinished,
       CollectWaiting, DecodeHere, DrainWait, DrainFinished, DrainEnd, SetEnding, Composite,
       CompositeEnd, Queues
  <2>2. Serving' = Serving
    BY <2>1 DEF Serving
  <2> QED  BY <2>1, <2>2, CountSame
<1>7. CASE SubmitNotify \/ EndNotify \/ DropNotify \/ CollectLend \/ SpuriousWakeup
  <2>1. /\ UNCHANGED <<toStart, more, budget>> /\ queue'.threads = queue.threads
        /\ call' \notin {"submit: notify", "submit: start"} =>
               call \notin {"submit: notify", "submit: start"} \/ more = 0
        /\ call = "no pool" => call' = "no pool"
    BY <1>0, <1>7 DEF poolVars, callVars, SubmitNotify, EndNotify, DropNotify, CollectLend,
       SpuriousWakeup, DoneNotified, Queues
  <2>2. \A t \in Thread : at'[t] = at[t] \/ (at[t] = "asleep" /\ at'[t] = "ready")
    BY <1>0, <1>7 DEF poolVars, SubmitNotify, EndNotify, DropNotify, CollectLend,
       SpuriousWakeup, NotifyOne, Woken, Asleep
  <2>3. Serving' = Serving
    BY <2>2 DEF Serving
  <2> QED  BY <2>1, <2>2, <2>3, CountSame
<1>8. CASE DropJoin
  <2>1. /\ UNCHANGED <<toStart, more, budget>> /\ queue'.threads = queue.threads
        /\ call = "drop: join" /\ call' = "no pool"
        /\ \A t \in Thread : at'[t] = at[t] \/ (at[t] = "over" /\ at'[t] = "free")
    BY <1>8 DEF DropJoin
  <2>2. Serving' = Serving
    BY <2>1 DEF Serving
  <2> QED  BY <2>1, <2>2, CountSame
<1>9. ASSUME NEW t \in Thread, BecomeWorker(t) \/ Exit(t)
      PROVE  Counted'
  <2>1. /\ UNCHANGED <<toStart, more, budget, queue, call>>
    BY <1>9 DEF BecomeWorker, Exit, callVars
  <2>2. \A s \in Thread :
            \/ at'[s] = at[s]
            \/ at[s] = "starting" /\ toStart[s] = 0 /\ at'[s] = "ready"
            \/ at[s] \in {"joining", "over"} /\ at'[s] \in {"over", "free"}
    BY <1>0, <1>9 DEF BecomeWorker, Exit
  <2>3. Serving' = Serving
    BY <2>2 DEF Serving
  <2> QED  BY <2>1, <2>2, <2>3, CountSame
<1> QED  BY <1>1, <1>2, <1>3, <1>4, <1>5, <1>6, <1>7, <1>8, <1>9
         DEF Next, Call, CallStep, ThreadStep

\* Queue.threads is the number of threads that serve the pool, are still to be
\* started or still to be asked for, never more than Size, whatever fails to
\* start: submit() neither starts too many nor waits for some that never come
\* (slot.rs, Queue.threads).
THEOREM ThreadsAreCounted == Spec => []ThreadsCounted
<1>1. Init => Inv /\ Counted
  BY InvInit, CountedInit
<1>2. Inv /\ Counted /\ [Next]_vars => (Inv /\ Counted)'
  BY InvNext, CountedNext
<1>3. Counted => ThreadsCounted
  BY DEF Counted
<1> QED  BY <1>1, <1>2, <1>3, PTL DEF Spec

-----------------------------------------------------------------------------
(* The wake-ups.                                                           *)

LEMMA LesserSteps ==
    ASSUME NEW a \in Int, NEW b \in Int, NEW d \in {-1, 0, 1},
           NEW c \in Int, NEW e \in Int, c <= a + d, e <= b + d \/ (e <= b /\ d = 1)
    PROVE  Lesser(c, e) <= Lesser(a, b) + d
  BY DEF Lesser

LEMMA TurnMore ==
    ASSUME NEW u \in Nat, NEW t \in Nat, NEW b \in Nat, u <= t + 1
    PROVE  u - b <= (t - b) + 1
  OBVIOUS

LEMMA LesserNone ==
    ASSUME NEW a \in Int, NEW b \in Int, a <= 0 \/ b <= 0
    PROVE  Lesser(a, b) <= 0
  BY DEF Lesser

LEMMA AwakeCount ==
    IsFiniteSet(Awake) /\ Cardinality(Awake) \in Nat /\ Short \in Nat
<1>1. Awake \in SUBSET Thread
  BY DEF Awake
<1> QED  BY <1>1, FS_Subset, FS_CardinalityType, ThreadAssumption DEF Short

LEMMA AwakeCountAfter ==
    IsFiniteSet(Awake') /\ Cardinality(Awake') \in Nat /\ Short' \in Nat
<1>1. Awake' \in SUBSET Thread
  BY DEF Awake
<1> QED  BY <1>1, FS_Subset, FS_CardinalityType, ThreadAssumption DEF Short

\* The numbers Useful is made of.
Busy == queue.running
Jobs2Do == Len(queue.waiting)
TurnsNow == Turns(queue)
Spare == TurnsNow - Busy

UsefulNumbers ==
    call # "no pool" =>
        /\ Busy \in Nat /\ Jobs2Do \in Nat /\ TurnsNow \in Nat
        /\ Size \in Nat /\ Beside \in Nat
        /\ Beside <= Size /\ Size <= Beside + 1
        /\ Spare \in Int /\ Useful \in Int
        /\ Useful = Lesser(Spare, Jobs2Do)

LEMMA UsefulNow == Inv => UsefulNumbers
<1> SUFFICES ASSUME Inv, call # "no pool"
             PROVE  /\ Busy \in Nat /\ Jobs2Do \in Nat /\ TurnsNow \in Nat
                    /\ Size \in Nat /\ Beside \in Nat
                    /\ Beside <= Size /\ Size <= Beside + 1
                    /\ Spare \in Int /\ Useful \in Int
                    /\ Useful = Lesser(Spare, Jobs2Do)
  BY DEF UsefulNumbers
<1>1. /\ queue \in Queues /\ budget \in Threads
  BY DEF Inv, TypeOK
<1>2. Busy \in Nat /\ Jobs2Do \in Nat
  BY <1>1, LenProperties DEF Queues, Busy, Jobs2Do
<1>3. /\ Size \in Nat /\ Beside \in Nat /\ Beside <= Size /\ Size - 1 <= Beside
  BY <1>1, Sizes
<1>4. TurnsNow \in Nat
  BY <1>3 DEF Turns, TurnsNow
<1>5. Spare \in Int /\ Size <= Beside + 1
  BY ONLY <1>2, <1>3, <1>4 DEF Spare
<1>6. Useful = Lesser(Spare, Jobs2Do)
  BY DEF Useful, Spare, TurnsNow, Busy, Jobs2Do
<1>7. Lesser(Spare, Jobs2Do) \in Int
  BY ONLY <1>2, <1>5 DEF Lesser
<1> QED  BY <1>2, <1>3, <1>4, <1>5, <1>6, <1>7

LEMMA UsefulAfter == Inv' => UsefulNumbers'
  BY UsefulNow, PTL

LEMMA UsefulParts ==
    ASSUME Inv, call # "no pool"
    PROVE  /\ Busy \in Nat /\ Jobs2Do \in Nat /\ TurnsNow \in Nat
           /\ Size \in Nat /\ Beside \in Nat
           /\ Beside <= Size /\ Size <= Beside + 1
           /\ Spare \in Int /\ Useful \in Int
           /\ Useful = Lesser(Spare, Jobs2Do)
  BY UsefulNow DEF UsefulNumbers

LEMMA UsefulPartsAfter ==
    ASSUME Inv', call' # "no pool"
    PROVE  /\ Busy' \in Nat /\ Jobs2Do' \in Nat /\ TurnsNow' \in Nat
           /\ Spare' \in Int /\ Useful' \in Int
           /\ Useful' = Lesser(Spare', Jobs2Do')
  BY UsefulAfter DEF UsefulNumbers

\* No thread sleeps while there is no pool.
LEMMA SleepersHaveAPool ==
    ASSUME Inv, Asleep(at) # {}
    PROVE  call # "no pool"
  BY DEF Inv, NoThreadOutlivesThePool, Asleep

\* Nobody goes to sleep, nobody awake begins a job, and no job or turn comes.
LEMMA AwakeSame ==
    ASSUME Inv, AwakeEnough, Asleep(at') \subseteq Asleep(at), Awake \subseteq Awake',
           call # "no pool" => Useful' \in Int /\ Useful' <= Useful,
           UNCHANGED single, call = "submit: notify" <=> call' = "submit: notify"
    PROVE  AwakeEnough'
<1> SUFFICES ASSUME Asleep(at') # {}, ~(call' = "submit: notify" /\ ~single')
             PROVE  Useful' <= Cardinality(Awake') + Short'
  BY DEF AwakeEnough
<1>1. Asleep(at) # {} /\ ~(call = "submit: notify" /\ ~single) /\ Short' = Short
  BY DEF Short
<1>2. call # "no pool"
  BY <1>1, SleepersHaveAPool
<1> DEFINE m == Cardinality(Awake)
           n == Cardinality(Awake')
<1>3. Useful \in Int /\ Useful' \in Int /\ Useful' <= Useful
  BY <1>2, UsefulParts
<1>4. Useful <= m + Short
  BY <1>1 DEF AwakeEnough
<1>5. m <= n
  BY AwakeCountAfter, FS_Subset
<1>6. m \in Nat /\ n \in Nat /\ Short \in Nat
  BY AwakeCount, AwakeCountAfter
<1> HIDE DEF m, n
<1>7. Useful' <= n + Short
  BY ONLY <1>3, <1>4, <1>5, <1>6
<1> QED  BY <1>1, <1>7 DEF n

\* One job or one turn more, and one thread more awake or one wake-up owed.
LEMMA AwakeOneMore ==
    ASSUME Inv, AwakeEnough, Asleep(at) # {}, call # "submit: notify" \/ single,
           Useful' \in Int, NEW d \in {-1, 0, 1},
           Cardinality(Awake') + Short' >= Cardinality(Awake) + Short + d,
           Useful' <= Useful + d
    PROVE  AwakeEnough'
<1> DEFINE m == Cardinality(Awake) + Short
           n == Cardinality(Awake') + Short'
<1>1. Useful \in Int /\ Useful <= m
  BY UsefulParts, SleepersHaveAPool DEF AwakeEnough
<1>2. m \in Nat /\ n \in Nat
  BY ONLY AwakeCount, AwakeCountAfter
<1>3. n >= m + d
  OBVIOUS
<1> HIDE DEF m, n
<1>4. Useful' <= n
  BY ONLY <1>1, <1>2, <1>3, Useful' \in Int, d \in {-1, 0, 1}, Useful' <= Useful + d
<1> QED  BY <1>4 DEF AwakeEnough, n

\* A sleeper, if there is one, is awake after a notification.
LEMMA NotifiedOne ==
    ASSUME at \in [Thread -> Places], NotifyOne(at, at')
    PROVE  /\ Asleep(at) = {} => Asleep(at') = {}
           /\ Asleep(at) # {} => Cardinality(Awake') = Cardinality(Awake) + 1
<1>1. CASE Asleep(at) = {}
  BY <1>1 DEF NotifyOne
<1>2. CASE Asleep(at) # {}
  <2>1. PICK t \in Asleep(at) : at' = [at EXCEPT ![t] = "ready"]
    BY <1>2 DEF NotifyOne
  <2>2. Awake' = Awake \cup {t} /\ t \notin Awake
    BY <2>1 DEF Asleep, Awake
  <2> QED  BY <1>2, <2>2, AwakeCount, FS_AddElement
<1> QED  BY <1>1, <1>2

\* A thread at the head of the loop takes a job for which it was awake, or for
\* the turn it gives back; it only sleeps or goes when nobody else is needed.
LEMMA LoopHeadAwake ==
    ASSUME Inv, Inv', AwakeEnough, NEW t \in Thread, NEW q \in Queues, LoopHead(t, q),
           q.waiting = queue.waiting, call # "no pool", call' # "no pool",
           UNCHANGED <<budget, single>>,
           call = "submit: notify" <=> call' = "submit: notify",
           \/ at[t] = "ready" /\ q = queue
           \/ at[t] = "decoding" /\ q.running = Busy - 1 /\ Turns(q) <= TurnsNow
    PROVE  AwakeEnough'
<1> SUFFICES ASSUME Asleep(at') # {}, ~(call' = "submit: notify" /\ ~single')
             PROVE  AwakeEnough'
  BY DEF AwakeEnough
<1> DEFINE r == q.running
           u == Turns(q)
<1>1. /\ Busy \in Nat /\ Jobs2Do \in Nat /\ TurnsNow \in Nat /\ Useful \in Int /\ Spare \in Int
      /\ Useful = Lesser(Spare, Jobs2Do)
  BY UsefulParts
<1>2. /\ Busy' \in Nat /\ Jobs2Do' \in Nat /\ TurnsNow' \in Nat /\ Useful' \in Int /\ Spare' \in Int
      /\ Useful' = Lesser(Spare', Jobs2Do')
  BY UsefulPartsAfter
<1>3. /\ r \in Nat /\ u \in Nat /\ at \in [Thread -> Places] /\ Short' = Short
      /\ (at[t] = "ready" => r = Busy /\ u = TurnsNow)
      /\ (at[t] = "decoding" => r = Busy - 1 /\ u <= TurnsNow)
      /\ Jobs2Do = Len(q.waiting) /\ q.waiting \in Seq(Index)
  <2>1. r \in Nat /\ at \in [Thread -> Places] /\ q.waiting \in Seq(Index)
    BY DEF Queues, Inv, TypeOK
  <2>2. u \in Nat
    BY UsefulParts DEF Turns
  <2> QED  BY <2>1, <2>2 DEF Short, Busy, TurnsNow, Jobs2Do
<1>4. CASE Take(t, q)
  <2>1. /\ queue' = [q EXCEPT !.waiting = Tail(q.waiting), !.running = @ + 1]
        /\ q.waiting # <<>>
        /\ \A s \in Thread : s # t => at'[s] = at[s] \/ (at[s] = "asleep" /\ at'[s] = "ready")
        /\ at'[t] = "decoding"
    BY <1>3, <1>4 DEF Take, CanTake, Woken
  <2>2. /\ Busy' = r + 1 /\ TurnsNow' = u /\ Jobs2Do' = Len(Tail(q.waiting))
    BY <2>1 DEF Busy, TurnsNow, Turns, Jobs2Do, Queues, Size, Beside
  <2>3. Jobs2Do' = Jobs2Do - 1
    BY <1>3, <2>1, <2>2, HeadTailProperties
  <2>4. Asleep(at) # {}
    BY <2>1 DEF Asleep
  <2>5. CASE at[t] = "ready"
    <3>1. t \in Awake /\ Awake \ {t} \subseteq Awake'
      BY <2>1, <2>5 DEF Awake
    <3>2. Cardinality(Awake \ {t}) = Cardinality(Awake) - 1
      BY <3>1, AwakeCount, FS_RemoveElement
    <3>3. Cardinality(Awake \ {t}) <= Cardinality(Awake')
      BY <3>1, AwakeCountAfter, FS_Subset
    <3> HIDE DEF r, u
    <3>4. Spare' <= Spare + (-1) /\ Jobs2Do' <= Jobs2Do + (-1)
      BY ONLY <1>1, <1>3, <2>2, <2>3, <2>5 DEF Spare
    <3>5. Useful' <= Useful + (-1)
      BY ONLY <1>1, <1>2, <3>4, LesserSteps
    <3>6. Cardinality(Awake') + Short' >= Cardinality(Awake) + Short + (-1)
      BY ONLY <1>3, <3>2, <3>3, AwakeCount, AwakeCountAfter
    <3> QED  BY <1>2, <2>4, <3>5, <3>6, AwakeOneMore
  <2>6. CASE at[t] = "decoding"
    <3>1. Awake \subseteq Awake'
      BY <2>1, <2>6 DEF Awake
    <3> HIDE DEF r, u
    <3>2. Spare' <= Spare + 0 /\ Jobs2Do' <= Jobs2Do + 0
      BY ONLY <1>1, <1>3, <2>2, <2>3, <2>6 DEF Spare
    <3>3. Useful' <= Useful
      <4>1. Useful' <= Useful + 0
        BY ONLY <1>1, <1>2, <3>2, LesserSteps
      <4> QED  BY ONLY <1>1, <4>1
    <3>4. Asleep(at') \subseteq Asleep(at)
      BY <2>1 DEF Asleep
    <3> QED  BY <1>2, <3>1, <3>3, <3>4, AwakeSame
  <2> QED  BY <2>5, <2>6
<1>5. CASE Leave(t, q) \/ Sleep(t, q)
  <2>1. ~CanTake(q) /\ (queue' = [q EXCEPT !.threads = @ - 1] \/ queue' = q)
    BY <1>5 DEF Leave, Sleep
  <2>2. Busy' = r /\ TurnsNow' = u /\ Jobs2Do' = Jobs2Do
    BY <1>3, <2>1 DEF Busy, TurnsNow, Turns, Jobs2Do, Queues, Size, Beside
  <2>3. ~(r < u) \/ Jobs2Do = 0
    <3>1. ~(r < u) \/ q.waiting = <<>>
      BY <2>1 DEF CanTake
    <3>2. q.waiting = <<>> => Jobs2Do = 0
      BY <1>3
    <3> QED  BY <3>1, <3>2
  <2> HIDE DEF r, u
  <2>4. Useful' <= 0
    <3>1. Spare' <= 0 \/ Jobs2Do' <= 0
      BY ONLY <1>1, <1>3, <2>2, <2>3 DEF Spare
    <3> QED  BY ONLY <1>1, <1>2, <3>1, LesserNone
  <2>5. Useful' <= Cardinality(Awake') + Short'
    BY ONLY <1>2, <2>4, AwakeCountAfter
  <2> QED  BY <2>5 DEF AwakeEnough
<1> QED  BY <1>4, <1>5 DEF LoopHead

LEMMA NobodyAsleep ==
    ASSUME Asleep(at') = {}
    PROVE  AwakeEnough'
  BY DEF AwakeEnough

LEMMA WithoutOne ==
    ASSUME NEW s \in Seq(Index), NEW k \in DOMAIN s
    PROVE  Len(SubSeq(s, 1, k - 1) \o SubSeq(s, k + 1, Len(s))) = Len(s) - 1
<1> DEFINE a == SubSeq(s, 1, k - 1)
           b == SubSeq(s, k + 1, Len(s))
<1>1. k \in 1..Len(s) /\ Len(s) \in Nat
  BY LenProperties
<1>2. a \in Seq(Index) /\ Len(a) = k - 1
  BY <1>1, SubSeqProperties
<1>3. b \in Seq(Index) /\ Len(b) = Len(s) - k
  BY <1>1, SubSeqProperties
<1>4. Len(a \o b) = Len(a) + Len(b)
  BY <1>2, <1>3, ConcatProperties
<1> HIDE DEF a, b
<1>5. Len(a \o b) = Len(s) - 1
  BY ONLY <1>1, <1>2, <1>3, <1>4
<1> QED  BY <1>5 DEF a, b

\* The frames waiting grow no more and the turns stay: nobody else is needed.
LEMMA QuietStep ==
    ASSUME Inv, Inv', AwakeEnough, Asleep(at') \subseteq Asleep(at), Awake \subseteq Awake',
           UNCHANGED <<budget, single>>, Busy' = Busy, TurnsNow' = TurnsNow,
           Jobs2Do' <= Jobs2Do, call = "submit: notify" <=> call' = "submit: notify"
    PROVE  AwakeEnough'
<1>1. CASE call' = "no pool"
  <2>1. NoThreadOutlivesThePool'
    BY DEF Inv
  <2>2. Asleep(at') = {}
    BY <1>1, <2>1 DEF NoThreadOutlivesThePool, Asleep
  <2> QED  BY <2>2, NobodyAsleep
<1>2. CASE call' # "no pool"
  <2>1. ASSUME call # "no pool" PROVE Useful' \in Int /\ Useful' <= Useful
    <3>1. /\ Busy \in Nat /\ Jobs2Do \in Nat /\ TurnsNow \in Nat /\ Useful \in Int /\ Spare \in Int
          /\ Useful = Lesser(Spare, Jobs2Do)
      BY <2>1, UsefulParts
    <3>2. /\ Busy' \in Nat /\ Jobs2Do' \in Nat /\ TurnsNow' \in Nat /\ Useful' \in Int
          /\ Spare' \in Int /\ Useful' = Lesser(Spare', Jobs2Do')
      BY <1>2, UsefulPartsAfter
    <3>3. Spare' <= Spare + 0 /\ Jobs2Do' <= Jobs2Do + 0
      BY ONLY <3>1, <3>2, Busy' = Busy, TurnsNow' = TurnsNow, Jobs2Do' <= Jobs2Do DEF Spare
    <3>4. Useful' <= Useful + 0
      BY ONLY <3>1, <3>2, <3>3, LesserSteps
    <3> QED  BY ONLY <3>1, <3>2, <3>4
  <2> QED  BY <2>1, AwakeSame
<1> QED  BY <1>1, <1>2

LEMMA AwakeSubmit ==
    ASSUME Inv, Inv', AwakeEnough, NEW jobs \in Seq(Index), NEW last, SubmitJobs(jobs, last)
    PROVE  AwakeEnough'
<1> SUFFICES ASSUME Asleep(at') # {}, ~(call' = "submit: notify" /\ ~single')
             PROVE  AwakeEnough'
  BY DEF AwakeEnough
<1>1. /\ call = "walk" /\ call' = "submit: notify" /\ UNCHANGED <<at, budget>>
      /\ single' = (Len(jobs) = 1) /\ queue \in Queues
  BY DEF SubmitJobs, Inv, TypeOK
<1>2. /\ queue'.waiting = queue.waiting \o jobs /\ queue'.running = queue.running
      /\ queue'.lent = queue.lent
  BY <1>1 DEF SubmitJobs, Queues
<1>3. Len(jobs) = 1
  BY <1>1
<1>4. Busy' = Busy /\ TurnsNow' = TurnsNow /\ Jobs2Do' = Jobs2Do + 1
  <2>1. Jobs2Do' = Jobs2Do + 1
    <3>1. Len(queue.waiting \o jobs) = Len(queue.waiting) + Len(jobs)
      BY <1>1, ConcatProperties DEF Queues
    <3> QED  BY <1>2, <1>3, <3>1 DEF Jobs2Do
  <2> QED  BY <1>1, <1>2, <2>1 DEF Busy, TurnsNow, Turns, Size, Beside
<1>5. /\ Busy \in Nat /\ Jobs2Do \in Nat /\ TurnsNow \in Nat /\ Useful \in Int /\ Spare \in Int
      /\ Useful = Lesser(Spare, Jobs2Do)
  BY <1>1, UsefulParts
<1>6. /\ Busy' \in Nat /\ Jobs2Do' \in Nat /\ TurnsNow' \in Nat /\ Useful' \in Int
      /\ Spare' \in Int /\ Useful' = Lesser(Spare', Jobs2Do')
  BY <1>1, UsefulPartsAfter
<1>7. Spare' <= Spare + 1 /\ Jobs2Do' <= Jobs2Do + 1
  BY ONLY <1>4, <1>5, <1>6 DEF Spare
<1>8. Useful' <= Useful + 1
  BY ONLY <1>5, <1>6, <1>7, LesserSteps
<1>9. Cardinality(Awake') + Short' >= Cardinality(Awake) + Short + 1
  <2>1. Awake' = Awake /\ Short = 0 /\ Short' = 1
    BY <1>1 DEF Awake, Short
  <2>2. Cardinality(Awake) \in Nat /\ Cardinality(Awake') = Cardinality(Awake)
    BY <2>1, AwakeCount
  <2> QED  BY ONLY <2>1, <2>2
<1> QED  BY <1>1, <1>6, <1>8, <1>9, AwakeOneMore

LEMMA AwakeNotify ==
    ASSUME Inv, Inv', AwakeEnough, SubmitNotify
    PROVE  AwakeEnough'
<1>1. /\ call = "submit: notify" /\ call' \in {"walk", "submit: start"}
      /\ UNCHANGED <<budget, queue>> /\ at \in [Thread -> Places]
  BY DEF SubmitNotify, Inv, TypeOK
<1>2. CASE ~single
  <2>1. at' = Woken(at)
    BY <1>2 DEF SubmitNotify
  <2> QED  BY <1>1, <2>1, NobodyAsleep DEF Woken, Asleep
<1>3. CASE single /\ Asleep(at) # {}
  <2>1. Cardinality(Awake') = Cardinality(Awake) + 1
    BY <1>1, <1>3, NotifiedOne DEF SubmitNotify
  <2>2. Short = 1 /\ Short' = 0
    BY <1>1 DEF Short
  <2>3. Cardinality(Awake') + Short' >= Cardinality(Awake) + Short + 0
    BY ONLY <2>1, <2>2, AwakeCount
  <2>4. Useful' = Useful
    BY <1>1 DEF Useful, Turns, Size, Beside
  <2>5. Useful \in Int
    BY <1>1, UsefulParts
  <2>6. Useful' \in Int /\ Useful' <= Useful + 0
    BY ONLY <2>4, <2>5
  <2> QED  BY <1>3, <2>3, <2>6, AwakeOneMore
<1>4. CASE single /\ Asleep(at) = {}
  <2>1. Asleep(at') = {}
    BY <1>1, <1>4, NotifiedOne DEF SubmitNotify
  <2> QED  BY <2>1, NobodyAsleep
<1> QED  BY <1>2, <1>3, <1>4

\* The turn the walk lends goes to a sleeper when a frame waits for it.
LEMMA AwakeLend ==
    ASSUME Inv, Inv', AwakeEnough, CollectLend
    PROVE  AwakeEnough'
<1>1. /\ call = "collect" /\ call' = "collect asleep" /\ UNCHANGED <<budget, single>>
      /\ at \in [Thread -> Places] /\ queue \in Queues
  BY DEF CollectLend, Inv, TypeOK
<1>2. /\ Busy \in Nat /\ Jobs2Do \in Nat /\ TurnsNow \in Nat /\ Useful \in Int /\ Spare \in Int
      /\ Size \in Nat /\ Beside \in Nat /\ Beside <= Size /\ Size <= Beside + 1
      /\ Useful = Lesser(Spare, Jobs2Do)
  BY <1>1, UsefulParts
<1>3. /\ Busy' \in Nat /\ Jobs2Do' \in Nat /\ TurnsNow' \in Nat /\ Useful' \in Int
      /\ Spare' \in Int /\ Useful' = Lesser(Spare', Jobs2Do')
  BY <1>1, UsefulPartsAfter
<1>4. CASE queue.lent # None
  <2>1. UNCHANGED <<queue, at>>
    BY <1>4 DEF CollectLend
  <2>2. Busy' = Busy /\ TurnsNow' = TurnsNow /\ Jobs2Do' = Jobs2Do
    BY <1>1, <2>1 DEF Busy, TurnsNow, Turns, Jobs2Do, Size, Beside
  <2>3. Jobs2Do' <= Jobs2Do
    BY ONLY <1>2, <2>2
  <2>4. Asleep(at') \subseteq Asleep(at) /\ Awake \subseteq Awake'
    BY <2>1 DEF Asleep, Awake
  <2> QED  BY <1>1, <2>2, <2>3, <2>4, QuietStep
<1>5. CASE queue.lent = None /\ queue.waiting = <<>>
  <2>1. queue'.waiting = <<>>
    BY <1>1, <1>5 DEF CollectLend, Queues
  <2>2. Jobs2Do' <= 0
    BY <2>1 DEF Jobs2Do
  <2>3. Useful' <= 0
    BY ONLY <1>3, <2>2, LesserNone
  <2>4. Useful' <= Cardinality(Awake') + Short'
    BY ONLY <1>3, <2>3, AwakeCountAfter
  <2> QED  BY <2>4 DEF AwakeEnough
<1>6. CASE queue.lent = None /\ queue.waiting # <<>> /\ Asleep(at) # {}
  <2>1. /\ NotifyOne(at, at') /\ queue'.waiting = queue.waiting
        /\ queue'.running = queue.running /\ queue.lent = None
    BY <1>1, <1>6 DEF CollectLend, Queues
  <2>2. /\ Busy' = Busy /\ Jobs2Do' = Jobs2Do /\ TurnsNow = Beside
        /\ TurnsNow' \in {Size, Beside}
    BY <1>1, <2>1 DEF Busy, TurnsNow, Turns, Jobs2Do, Size, Beside
  <2>3. Spare' <= Spare + 1 /\ Jobs2Do' <= Jobs2Do + 1
    <3>1. TurnsNow' <= TurnsNow + 1
      BY ONLY <1>2, <2>2
    <3>2. Jobs2Do' <= Jobs2Do + 1
      BY ONLY <1>2, <2>2
    <3>3. TurnsNow' - Busy <= (TurnsNow - Busy) + 1
      BY <1>2, <1>3, <3>1, TurnMore
    <3>4. Spare' = TurnsNow' - Busy
      BY <2>2 DEF Spare
    <3> QED  BY <3>2, <3>3, <3>4 DEF Spare
  <2>4. Useful' <= Useful + 1
    BY ONLY <1>2, <1>3, <2>3, LesserSteps
  <2>5. Cardinality(Awake') = Cardinality(Awake) + 1 /\ Short = 0 /\ Short' = 0
    BY <1>1, <1>6, <2>1, NotifiedOne DEF Short
  <2>6. Cardinality(Awake') + Short' >= Cardinality(Awake) + Short + 1
    BY ONLY <2>5, AwakeCount
  <2> QED  BY <1>1, <1>3, <1>6, <2>4, <2>6, AwakeOneMore
<1>7. CASE queue.lent = None /\ queue.waiting # <<>> /\ Asleep(at) = {}
  <2>1. NotifyOne(at, at')
    BY <1>7 DEF CollectLend
  <2>2. Asleep(at') = {}
    BY <1>1, <1>7, <2>1, NotifiedOne
  <2> QED  BY <2>2, NobodyAsleep
<1> QED  BY <1>4, <1>5, <1>6, <1>7

\* What the other calls do to the frames waiting and to the threads.
LEMMA AwakeCall ==
    ASSUME Inv, Inv', AwakeEnough,
           \/ UNCHANGED vars \/ Stop \/ Drain \/ Drop \/ (\E i \in owed : Collect(i))
           \/ CollectFinished \/ DecodeHere \/ DrainWait \/ DrainFinished \/ DrainEnd
           \/ Composite \/ CompositeEnd
    PROVE  AwakeEnough'
<1>0. queue \in Queues
  BY DEF Inv, TypeOK
<1>1. /\ UNCHANGED <<at, budget, single>>
      /\ queue'.running = queue.running /\ queue'.lent = queue.lent
      /\ queue'.waiting \in {queue.waiting, <<>>}
      /\ call = "submit: notify" <=> call' = "submit: notify"
  BY <1>0 DEF vars, poolVars, callVars, Stop, Drain, Drop, Collect, CollectFinished,
     DecodeHere, DrainWait, DrainFinished, DrainEnd, SetEnding, Composite, CompositeEnd, Queues
<1>2. Busy' = Busy /\ TurnsNow' = TurnsNow
  BY <1>1 DEF Busy, TurnsNow, Turns, Size, Beside
<1>3. Jobs2Do' <= Jobs2Do
  <2>1. Jobs2Do \in Nat
    BY <1>0, LenProperties DEF Queues, Jobs2Do
  <2>2. Jobs2Do' = Jobs2Do \/ Jobs2Do' = 0
    <3>1. CASE queue'.waiting = queue.waiting
      BY <3>1 DEF Jobs2Do
    <3>2. CASE queue'.waiting = <<>>
      <4>1. Len(<<>>) = 0
        BY EmptySeq
      <4> QED  BY <3>2, <4>1 DEF Jobs2Do
    <3> QED  BY <1>1, <3>1, <3>2
  <2> QED  BY ONLY <2>1, <2>2
<1>4. Asleep(at') \subseteq Asleep(at) /\ Awake \subseteq Awake'
  BY <1>1 DEF Asleep, Awake
<1> QED  BY <1>1, <1>2, <1>3, <1>4, QuietStep

LEMMA AwakeCollectWaiting ==
    ASSUME Inv, Inv', AwakeEnough, CollectWaiting
    PROVE  AwakeEnough'
<1>0. queue \in Queues
  BY DEF Inv, TypeOK
<1>1. /\ UNCHANGED <<at, budget, single>> /\ call = "collect" /\ call' = "decode"
      /\ \E k \in DOMAIN queue.waiting :
            queue' = [queue EXCEPT !.waiting = SubSeq(@, 1, k - 1) \o SubSeq(@, k + 1, Len(@))]
  BY DEF CollectWaiting
<1>2. PICK k \in DOMAIN queue.waiting :
            queue' = [queue EXCEPT !.waiting = SubSeq(@, 1, k - 1) \o SubSeq(@, k + 1, Len(@))]
  BY <1>1
<1>3. /\ queue'.waiting = SubSeq(queue.waiting, 1, k - 1)
                            \o SubSeq(queue.waiting, k + 1, Len(queue.waiting))
      /\ queue'.running = queue.running /\ queue'.lent = queue.lent
  BY <1>0, <1>2 DEF Queues
<1>4. Busy' = Busy /\ TurnsNow' = TurnsNow
  BY <1>1, <1>3 DEF Busy, TurnsNow, Turns, Size, Beside
<1>5. Jobs2Do' <= Jobs2Do
  <2>1. queue.waiting \in Seq(Index)
    BY <1>0 DEF Queues
  <2>2. Jobs2Do' = Jobs2Do - 1 /\ Jobs2Do \in Nat
    BY <1>2, <1>3, <2>1, WithoutOne, LenProperties DEF Jobs2Do
  <2> QED  BY ONLY <2>2
<1>6. Asleep(at') \subseteq Asleep(at) /\ Awake \subseteq Awake'
  BY <1>1 DEF Asleep, Awake
<1> QED  BY <1>1, <1>4, <1>5, <1>6, QuietStep

\* The steps of threads that touch no frame.
LEMMA AwakeAside ==
    ASSUME Inv, Inv', AwakeEnough,
           \/ SubmitStart \/ DropJoin \/ SpuriousWakeup
           \/ \E t \in Thread : \/ StartWorker(t) \/ StartWorkerFails(t)
                                \/ BecomeWorker(t) \/ Exit(t)
    PROVE  AwakeEnough'
<1>0. queue \in Queues /\ at \in [Thread -> Places] /\ started \in [Thread -> SUBSET Thread]
      /\ Joinable
  BY DEF Inv, TypeOK
<1>1. /\ UNCHANGED <<budget, single>>
      /\ queue'.running = queue.running /\ queue'.lent = queue.lent
      /\ queue'.waiting = queue.waiting
      /\ call = "submit: notify" <=> call' = "submit: notify"
  BY <1>0 DEF poolVars, callVars, SubmitStart, DropJoin, SpuriousWakeup, StartWorker,
     StartWorkerFails, BecomeWorker, Exit, DoneNotified, Queues
<1>2. Busy' = Busy /\ TurnsNow' = TurnsNow
  BY <1>1 DEF Busy, TurnsNow, Turns, Size, Beside
<1>3. Jobs2Do' <= Jobs2Do
  <2>1. Jobs2Do' = Jobs2Do /\ Jobs2Do \in Nat
    BY <1>0, <1>1, LenProperties DEF Jobs2Do, Queues
  <2> QED  BY ONLY <2>1
<1>4. \A t \in Thread :
          \/ at'[t] = at[t]
          \/ at[t] \in {"asleep", "starting", "free"} /\ at'[t] \in {"ready", "starting"}
          \/ at[t] \in {"joining", "over"} /\ at'[t] \in {"free", "over", "starting"}
  <2>1. CASE SubmitStart
    BY <1>0, <2>1 DEF SubmitStart
  <2>2. CASE DropJoin
    BY <1>0, <2>2 DEF DropJoin
  <2>3. CASE SpuriousWakeup
    BY <1>0, <2>3 DEF SpuriousWakeup, Asleep, poolVars
  <2>4. CASE \E t \in Thread : StartWorker(t) \/ StartWorkerFails(t) \/ BecomeWorker(t)
    BY <1>0, <2>4 DEF StartWorker, StartWorkerFails, BecomeWorker
  <2>5. CASE \E t \in Thread : Exit(t)
    BY <1>0, <2>5 DEF Exit
  <2> QED  BY <2>1, <2>2, <2>3, <2>4, <2>5
<1>5. Asleep(at') \subseteq Asleep(at) /\ Awake \subseteq Awake'
  BY <1>4 DEF Asleep, Awake
<1> QED  BY <1>1, <1>2, <1>3, <1>5, QuietStep

LEMMA AwakeWorker ==
    ASSUME Inv, Inv', AwakeEnough, NEW t \in Thread, Work(t) \/ Finish(t)
    PROVE  AwakeEnough'
<1>1. CASE call = "no pool"
  BY <1>1 DEF Work, Finish, Inv, NoThreadOutlivesThePool
<1>2. CASE call # "no pool"
  <2>1. /\ UNCHANGED <<budget, single>> /\ call' # "no pool"
        /\ call = "submit: notify" <=> call' = "submit: notify"
    BY <1>2 DEF Work, Finish, callVars, DoneNotified
  <2>2. queue \in Queues
    BY DEF Inv, TypeOK
  <2>3. CASE Work(t)
    <3>1. at[t] = "ready" /\ LoopHead(t, queue)
      BY <2>3 DEF Work
    <3> QED  BY <1>2, <2>1, <2>2, <3>1, LoopHeadAwake
  <2>4. CASE Finish(t)
    <3> DEFINE q == AfterRun(queue, job[t])
    <3>1. at[t] = "decoding" /\ LoopHead(t, q)
      BY <2>4 DEF Finish
    <3>2. /\ q \in Queues /\ q.waiting = queue.waiting /\ q.running = Busy - 1
          /\ q.lent = queue.lent \/ q.lent = None
      BY <3>1, AfterRunQueue DEF Busy
    <3> HIDE DEF q
    <3>3. Turns(q) <= TurnsNow
      <4>1. Size \in Nat /\ Beside \in Nat /\ Beside <= Size
        BY <1>2, UsefulParts
      <4>2. TurnsNow = (IF queue.lent # None THEN Size ELSE Beside)
        BY DEF TurnsNow, Turns
      <4>3. Turns(q) = (IF q.lent # None THEN Size ELSE Beside)
        BY DEF Turns
      <4> QED  BY <3>2, <4>1, <4>2, <4>3
    <3> QED  BY <1>2, <2>1, <3>1, <3>2, <3>3, LoopHeadAwake
  <2> QED  BY <2>3, <2>4
<1> QED  BY <1>1, <1>2

LEMMA AwakeNext ==
    ASSUME Inv, Inv', AwakeEnough, [Next]_vars
    PROVE  AwakeEnough'
<1>1. CASE Start
  <2>1. PICK n \in 0..MaxJobs, last \in BOOLEAN : SubmitJobs([k \in 1..n |-> k], last)
    BY <1>1 DEF Start
  <2>2. [k \in 1..n |-> k] \in Seq(Index)
    BY BatchFrames
  <2> QED  BY <2>1, <2>2, AwakeSubmit
<1>2. CASE Follow
  <2>1. handed + 1 \in Index /\ SubmitJobs(<<handed + 1>>, FALSE)
    <3>1. handed \in 0..MaxJobs /\ MaxJobs \in Nat /\ handed < MaxJobs
      BY <1>2, MaxJobsAssumption DEF Follow, Inv, TypeOK
    <3>2. handed + 1 \in Index
      BY ONLY <3>1 DEF Index
    <3> QED  BY <1>2, <3>2 DEF Follow
  <2>2. <<handed + 1>> \in Seq(Index)
    BY <2>1, OneFrame
  <2> QED  BY <2>1, <2>2, AwakeSubmit
<1>3. CASE SubmitNotify
  BY <1>3, AwakeNotify
<1>4. CASE CollectLend
  BY <1>4, AwakeLend
<1>5. CASE CollectWaiting
  BY <1>5, AwakeCollectWaiting
<1>6. CASE EndNotify \/ DropNotify
  <2>1. at' = Woken(at)
    BY <1>6 DEF EndNotify, DropNotify
  <2>2. Asleep(at') = {}
    BY <2>1 DEF Woken, Asleep
  <2> QED  BY <2>2, NobodyAsleep
<1>7. ASSUME NEW b \in Threads, NewPool(b) PROVE AwakeEnough'
  <2>1. Asleep(at') = {}
    BY <1>7 DEF NewPool, Inv, NoThreadOutlivesThePool, Asleep
  <2> QED  BY <2>1, NobodyAsleep
<1>8. ASSUME NEW t \in Thread, Work(t) \/ Finish(t) PROVE AwakeEnough'
  BY <1>8, AwakeWorker
<1>9. CASE \/ SubmitStart \/ DropJoin \/ SpuriousWakeup
           \/ \E t \in Thread : \/ StartWorker(t) \/ StartWorkerFails(t)
                                \/ BecomeWorker(t) \/ Exit(t)
  BY <1>9, AwakeAside
<1>10. CASE \/ UNCHANGED vars \/ Stop \/ Drain \/ Drop \/ (\E i \in owed : Collect(i))
            \/ CollectFinished \/ DecodeHere \/ DrainWait \/ DrainFinished \/ DrainEnd
            \/ Composite \/ CompositeEnd
  BY <1>10, AwakeCall
<1> QED  BY <1>1, <1>2, <1>3, <1>4, <1>5, <1>6, <1>7, <1>8, <1>9, <1>10
         DEF Next, Call, CallStep, ThreadStep

\* No wake-up is lost: outside the moment between the unlock of a submit and
\* its notification, while threads sleep at least as many are awake and on
\* their way to the queue as there are jobs a turn is free for (slot.rs, the
\* notifications of submit(), collect(), end() and of the last job taken).
THEOREM NoWakeupIsLost == Spec => []NoLostWakeup
<1>1. Init => Inv /\ AwakeEnough
  <2>1. Init => Asleep(at) = {}
    BY DEF Init, Asleep
  <2> QED  BY <2>1, InvInit DEF AwakeEnough
<1>2. Inv /\ AwakeEnough /\ [Next]_vars => (Inv /\ AwakeEnough)'
  BY InvNext, AwakeNext
<1>3. Inv /\ AwakeEnough => NoLostWakeup
  <2> SUFFICES ASSUME Inv, AwakeEnough, Asleep(at) # {}, call # "submit: notify"
               PROVE  Useful <= Cardinality(Awake)
    BY DEF NoLostWakeup, Awake
  <2>1. Short = 0 /\ Useful <= Cardinality(Awake) + Short
    BY DEF Short, AwakeEnough
  <2>2. Cardinality(Awake) \in Nat /\ Useful \in Int
    BY AwakeCount, SleepersHaveAPool, UsefulParts
  <2> QED  BY ONLY <2>1, <2>2
<1> QED  BY <1>1, <1>2, <1>3, PTL DEF Spec

-----------------------------------------------------------------------------
(***************************************************************************)
(* The pool of threads keeps the promise of FrameJobs, proved for every    *)
(* set of threads and every length of run: each step of a thread or a call *)
(* is a step FrameJobs allows, or leaves every frame where it was.         *)
(*                                                                         *)
(* A frame's status is read off the three places that Placed keeps apart:  *)
(* waiting, with a thread, finished.  So it is enough to say, for each     *)
(* step, what it moves from one of them to another.                        *)
(***************************************************************************)

\* The frames with the threads.
With == {job[t] : t \in Decoding}

Status == [i \in Index |-> StatusOf(i)]

\* A frame's status, by where it is.
Placement ==
    \A i \in Index :
        /\ Status[i] = StatusOf(i)
        /\ Dropping => StatusOf(i) = "walk"
        /\ ~Dropping =>
               /\ i \in Queued(queue) => StatusOf(i) = "queued"
               /\ i \in With \ Queued(queue) => StatusOf(i) = "decoding"
               /\ i \in queue.finished \ (With \cup Queued(queue))
                      => StatusOf(i) = "decoded"
               /\ i \notin queue.finished \cup With \cup Queued(queue)
                      => StatusOf(i) = "walk"

LEMMA PlacementHolds == Placement
<1> SUFFICES ASSUME NEW i \in Index
             PROVE  /\ Status[i] = StatusOf(i)
                    /\ Dropping => StatusOf(i) = "walk"
                    /\ ~Dropping =>
                       /\ i \in Queued(queue) => StatusOf(i) = "queued"
                       /\ i \in With \ Queued(queue) => StatusOf(i) = "decoding"
                       /\ i \in queue.finished \ (With \cup Queued(queue))
                              => StatusOf(i) = "decoded"
                       /\ i \notin queue.finished \cup With \cup Queued(queue)
                              => StatusOf(i) = "walk"
  BY DEF Placement
<1>1. i \in With <=> \E t \in Decoding : job[t] = i
  BY DEF With
<1> QED  BY <1>1 DEF Status, StatusOf

LEMMA PlacementAfter == Placement'
  BY PlacementHolds, PTL

\* While the pool is in use the three places are apart, and hold only what is
\* owed to the walk.
LEMMA Apart ==
    ASSUME Inv, ~Dropping
    PROVE  /\ Queued(queue) \cap With = {} /\ Queued(queue) \cap queue.finished = {}
           /\ queue.finished \cap With = {}
           /\ Queued(queue) \cup With \cup queue.finished \subseteq owed
           /\ InHand \cap (Queued(queue) \cup With \cup queue.finished) = {}
           /\ owed \subseteq Index
  BY DEF Inv, TypeOK, EachFrameInOnePlace, Placed, With

\* Nothing moves.
LEMMA NothingMoves ==
    ASSUME Dropping' <=> Dropping,
           ~Dropping => /\ Queued(queue)' = Queued(queue) /\ With' = With
                        /\ queue'.finished = queue.finished
    PROVE  UNCHANGED Status
<1>1. \A i \in Index : StatusOf(i)' = StatusOf(i)
  BY PlacementHolds, PlacementAfter DEF Placement
<1> QED  BY <1>1 DEF Status

\* A step is one of FrameJobs as soon as the statuses move as one of its does.
LEMMA Shape ==
    /\ Status = [i \in Index |-> Status[i]] /\ (Status = [i \in Index |-> Status[i]])'
<1>1. Status = [i \in Index |-> Status[i]]
  BY DEF Status
<1>2. (Status = [i \in Index |-> Status[i]])'
  BY <1>1, PTL
<1> QED  BY <1>1, <1>2

-----------------------------------------------------------------------------
(* What each step moves.                                                   *)

\* A batch handed over was with the walk.
LEMMA HandsOver ==
    ASSUME Inv, NEW jobs \in Seq(Index), NEW last, SubmitJobs(jobs, last),
           Distinct(jobs), Elements(jobs) \cap owed = {}, Elements(jobs) \subseteq Index,
           Decoding' = Decoding, UNCHANGED job
    PROVE  Jobs!Next
<1>1. ~Dropping /\ ~Dropping' /\ queue \in Queues
  BY DEF SubmitJobs, Dropping, Inv, TypeOK
<1>2. queue'.waiting = queue.waiting \o jobs /\ queue'.finished = queue.finished
  BY <1>1 DEF SubmitJobs, Queues
<1>3. Elements(queue'.waiting) = Queued(queue) \cup Elements(jobs)
  BY <1>1, <1>2, ConcatFrames DEF Queues, Queued
<1>4. Queued(queue)' = Queued(queue) \cup Elements(jobs) /\ With' = With
  BY <1>3 DEF Queued, With
<1>5. \A i \in Elements(jobs) : Status[i] = "walk"
  BY <1>1, Apart, PlacementHolds DEF Placement
<1>6. \A i \in Index : Status'[i] = IF i \in Elements(jobs) THEN "queued" ELSE Status[i]
  BY <1>1, <1>2, <1>4, Apart, PlacementHolds, PlacementAfter DEF Placement
<1> DEFINE S == Elements(jobs)
<1> HIDE DEF S
<1>7. S \subseteq {i \in Index : Status[i] = "walk"}
      /\ Status' = [i \in Index |-> IF i \in S THEN "queued" ELSE Status[i]]
  BY <1>5, <1>6, Shape DEF S
<1>8. Jobs!Hand(S)
  BY <1>7 DEF Jobs!Hand, Jobs!In, Status
<1>9. S \in SUBSET Index
  BY DEF S
<1> QED  BY <1>8, <1>9 DEF Jobs!Next

\* collect() gives back a frame that is finished, or takes out one that waits.
LEMMA GivesBack ==
    ASSUME Inv, CollectFinished \/ CollectWaiting,
           Decoding' = Decoding, UNCHANGED job
    PROVE  Jobs!Next
<1>1. /\ ~Dropping /\ ~Dropping' /\ queue \in Queues /\ want \in owed
      /\ owed \subseteq Index /\ With' = With
  BY DEF CollectFinished, CollectWaiting, Dropping, Inv, TypeOK, With
<1>2. CASE CollectFinished
  <2>1. /\ queue'.waiting = queue.waiting /\ want \in queue.finished
        /\ queue'.finished = queue.finished \ {want}
    BY <1>1, <1>2 DEF CollectFinished, Queues
  <2>2. Queued(queue)' = Queued(queue)
    BY <2>1 DEF Queued
  <2>3. Status[want] = "decoded"
    BY <1>1, <2>1, Apart, PlacementHolds DEF Placement
  <2>4. \A i \in Index : Status'[i] = IF i = want THEN "walk" ELSE Status[i]
    BY <1>1, <2>1, <2>2, Apart, PlacementHolds, PlacementAfter DEF Placement
  <2>5. Status' = [Status EXCEPT ![want] = "walk"]
    BY <2>4, Shape
  <2> QED  BY <1>1, <2>3, <2>5 DEF Jobs!Next, Jobs!Return, Status
<1>3. CASE CollectWaiting
  <2>1. PICK k \in DOMAIN queue.waiting :
            /\ queue.waiting[k] = want
            /\ queue' = [queue EXCEPT !.waiting =
                            SubSeq(@, 1, k - 1) \o SubSeq(@, k + 1, Len(@))]
    BY <1>3 DEF CollectWaiting
  <2>2. queue.waiting \in Seq(Index) /\ Distinct(queue.waiting)
    BY <1>1 DEF Inv, EachFrameInOnePlace, Placed, Queues
  <2>3. /\ queue'.waiting = SubSeq(queue.waiting, 1, k - 1)
                              \o SubSeq(queue.waiting, k + 1, Len(queue.waiting))
        /\ queue'.finished = queue.finished
    BY <1>1, <2>1 DEF Queues
  <2>4. Elements(queue'.waiting) = Queued(queue) \ {want}
    BY <2>1, <2>2, <2>3, WithoutFrame DEF Queued
  <2>5. want \in Queued(queue) /\ Queued(queue)' = Queued(queue) \ {want}
    BY <2>1, <2>4 DEF Queued, Elements
  <2>6. Status[want] = "queued"
    BY <1>1, <2>5, PlacementHolds DEF Placement
  <2>7. \A i \in Index : Status'[i] = IF i = want THEN "walk" ELSE Status[i]
    BY <1>1, <2>3, <2>5, Apart, PlacementHolds, PlacementAfter DEF Placement
  <2>8. Status' = [Status EXCEPT ![want] = "walk"]
    BY <2>7, Shape
  <2> QED  BY <1>1, <2>6, <2>8 DEF Jobs!Next, Jobs!Return, Status
<1> QED  BY <1>2, <1>3

\* drain() takes back what waits, and what is finished once no thread decodes.
LEMMA TakesBack ==
    ASSUME Inv, Drain \/ DrainFinished, Decoding' = Decoding, UNCHANGED job
    PROVE  Jobs!Next
<1>1. ~Dropping /\ ~Dropping' /\ queue \in Queues /\ With' = With
  BY DEF Drain, DrainFinished, Dropping, Inv, TypeOK, With
<1>2. CASE Drain
  <2>1. queue'.waiting = <<>> /\ queue'.finished = queue.finished
    BY <1>1, <1>2 DEF Drain, Queues
  <2>2. Queued(queue)' = {}
    BY <2>1, NoFrames DEF Queued
  <2>3. \A i \in Index :
           Status'[i] = IF Status[i] = "queued" THEN "walk" ELSE Status[i]
    BY <1>1, <2>1, <2>2, Apart, PlacementHolds, PlacementAfter DEF Placement
  <2>4. Status' = [i \in Index |-> IF Status[i] = "queued" THEN "walk" ELSE Status[i]]
    BY <2>3, Shape
  <2> QED  BY <2>4 DEF Jobs!Next, Jobs!Recall, Status
<1>3. CASE DrainFinished
  <2>1. /\ queue'.waiting = queue.waiting /\ queue'.finished = {}
        /\ queue.running = 0
    BY <1>1, <1>3 DEF DrainFinished, Queues
  <2>2. Queued(queue)' = Queued(queue)
    BY <2>1 DEF Queued
  <2>3. With = {}
    <3>1. Decoding = {}
      BY <2>1, CountDecoding, FS_EmptySet DEF Inv
    <3> QED  BY <3>1 DEF With
  <2>4. \A i \in Index :
           /\ Status[i] # "decoding"
           /\ Status'[i] = IF Status[i] = "decoded" THEN "walk" ELSE Status[i]
    BY <1>1, <2>1, <2>2, <2>3, Apart, PlacementHolds, PlacementAfter DEF Placement
  <2>5. /\ {i \in Index : Status[i] = "decoding"} = {}
        /\ Status' = [i \in Index |->
                         IF Status[i] = "decoded" THEN "walk" ELSE Status[i]]
    BY <2>4, Shape
  <2> QED  BY <2>5 DEF Jobs!Next, Jobs!RecallDecoded, Jobs!In, Status
<1> QED  BY <1>2, <1>3

\* Dropping the pool gives up all it holds.
LEMMA GivesUp ==
    ASSUME Drop
    PROVE  Jobs!Next
<1>1. Dropping'
  BY DEF Drop, Dropping
<1>2. \A i \in Index : Status'[i] = "walk"
  BY <1>1, PlacementAfter DEF Placement
<1>3. Status' = [i \in Index |-> "walk"]
  BY <1>2, Shape
<1> QED  BY <1>3 DEF Jobs!Next, Jobs!Abandon, Status

\* A thread at the head of the loop, the others decoding in D by `with`.
LEMMA LoopHeadMoves ==
    ASSUME NEW t \in Thread, NEW q \in Queues, at \in [Thread -> Places],
           at[t] # "asleep", LoopHead(t, q),
           job \in [Thread -> Index \cup {None}], Distinct(q.waiting)
    PROVE  LET with == {job[s] : s \in Decoding \ {t}} IN
           /\ queue'.finished = q.finished
           /\ \/ Queued(queue)' = Queued(q) /\ With' = with
              \/ \E i \in Queued(q) : /\ Queued(queue)' = Queued(q) \ {i}
                                      /\ With' = with \cup {i}
<1> DEFINE D == Decoding \ {t}
           with == {job[s] : s \in D}
<1>1. CASE Take(t, q)
  <2> DEFINE i == Head(q.waiting)
  <2>1. /\ queue'.waiting = Tail(q.waiting) /\ queue'.finished = q.finished
        /\ job' = [job EXCEPT ![t] = i] /\ q.waiting # <<>>
        /\ Decoding' = D \cup {t}
    BY <1>1 DEF Take, CanTake, Queues, Decoding, Woken
  <2>2. Elements(Tail(q.waiting)) = Queued(q) \ {i} /\ i \in Queued(q)
    BY <2>1, FirstFrame DEF Queues, Queued
  <2>3. job'[t] = i /\ \A s \in D : job'[s] = job[s]
    BY <2>1 DEF Decoding
  <2>4. {job'[s] : s \in Decoding'} = with \cup {i}
    BY <2>1, <2>3
  <2> HIDE DEF i, with, D
  <2>5. Queued(queue)' = Queued(q) \ {i} /\ With' = with \cup {i}
    BY <2>1, <2>2, <2>4 DEF Queued, With
  <2> QED  BY <2>1, <2>2, <2>5 DEF with, D
<1>2. CASE Leave(t, q) \/ Sleep(t, q)
  <2>1. /\ queue'.waiting = q.waiting /\ queue'.finished = q.finished
        /\ Decoding' = D /\ \A s \in D : job'[s] = job[s]
    BY <1>2 DEF Leave, Sleep, Queues, Decoding
  <2>2. {job'[s] : s \in Decoding'} = with
    BY <2>1
  <2> QED  BY <2>1, <2>2 DEF Queued, With
<1> QED  BY <1>1, <1>2 DEF LoopHead

\* A thread finishes the frame in hand, if it has one, and takes another up.
LEMMA ThreadMoves ==
    ASSUME Inv, NEW t \in Thread, Work(t) \/ Finish(t)
    PROVE  [Jobs!Next]_Status
<1>1. /\ queue \in Queues /\ at \in [Thread -> Places]
      /\ job \in [Thread -> Index \cup {None}]
      /\ (Dropping <=> Dropping')
  BY DEF Inv, TypeOK, Work, Finish, callVars, Dropping, DoneNotified
<1>2. CASE Dropping
  BY <1>1, <1>2, NothingMoves
<1>3. CASE ~Dropping
  <2>1. Distinct(queue.waiting) /\ \A s, u \in Decoding : job[s] = job[u] => s = u
    BY <1>3 DEF Inv, EachFrameInOnePlace, Placed
  <2> DEFINE with == {job[s] : s \in Decoding \ {t}}
  <2>2. ASSUME NEW done \in {{}} \cup {{i} : i \in Index}, done \subseteq With,
               With \ done = with, queue'.finished = queue.finished \cup done,
               \/ Queued(queue)' = Queued(queue) /\ With' = with
               \/ \E i \in Queued(queue) : /\ Queued(queue)' = Queued(queue) \ {i}
                                           /\ With' = with \cup {i}
        PROVE  Jobs!Next
    <3> HIDE DEF with
    <3>1. PICK begun \in {{}} \cup {{i} : i \in Index} :
              /\ begun \subseteq Queued(queue)
              /\ Queued(queue)' = Queued(queue) \ begun /\ With' = with \cup begun
      <4>1. Queued(queue) \subseteq Index
        BY <1>3, Apart
      <4>2. CASE Queued(queue)' = Queued(queue) /\ With' = with
        <5>1. {} \in {{}} \cup {{i} : i \in Index} /\ {} \subseteq Queued(queue)
              /\ Queued(queue)' = Queued(queue) \ {} /\ With' = with \cup {}
          BY <4>2
        <5> QED  BY <5>1
      <4>3. ASSUME NEW i \in Queued(queue), Queued(queue)' = Queued(queue) \ {i},
                   With' = with \cup {i}
            PROVE  \E begun \in {{}} \cup {{k} : k \in Index} :
                       /\ begun \subseteq Queued(queue)
                       /\ Queued(queue)' = Queued(queue) \ begun
                       /\ With' = with \cup begun
        <5>1. {i} \in {{}} \cup {{k} : k \in Index} /\ {i} \subseteq Queued(queue)
          BY <4>1
        <5> QED  BY <4>3, <5>1
      <4> QED  BY <2>2, <4>2, <4>3
    <3>2. \A i \in Index :
             /\ i \in done => Status[i] = "decoding"
             /\ i \in begun => Status[i] = "queued"
             /\ Status'[i] = IF i \in done THEN "decoded"
                             ELSE IF i \in begun THEN "decoding" ELSE Status[i]
      BY <1>1, <1>3, <2>2, <3>1, Apart, PlacementHolds, PlacementAfter DEF Placement
    <3>3. /\ done \subseteq {i \in Index : Status[i] = "decoding"}
          /\ begun \subseteq {i \in Index : Status[i] = "queued"}
          /\ Status' = [i \in Index |-> IF i \in done THEN "decoded"
                                        ELSE IF i \in begun THEN "decoding"
                                        ELSE Status[i]]
      BY <3>2, Shape
    <3>4. Jobs!Decode(done, begun)
      BY <3>3 DEF Jobs!Decode, Jobs!In, Status
    <3> QED  BY <3>4 DEF Jobs!Next
  <2>3. CASE Work(t)
    <3>1. /\ at[t] # "asleep" /\ LoopHead(t, queue) /\ Decoding \ {t} = Decoding
      BY <2>3 DEF Work, Decoding
    <3>2. /\ queue'.finished = queue.finished
          /\ \/ Queued(queue)' = Queued(queue) /\ With' = with
             \/ \E i \in Queued(queue) : /\ Queued(queue)' = Queued(queue) \ {i}
                                         /\ With' = with \cup {i}
      BY <1>1, <2>1, <3>1, LoopHeadMoves
    <3>3. With \ {} = with
      BY <3>1 DEF With
    <3>4. {} \in {{}} \cup {{i} : i \in Index} /\ {} \subseteq With
          /\ queue'.finished = queue.finished \cup {}
      BY <3>2
    <3> HIDE DEF with
    <3> QED  BY <2>2, <3>2, <3>3, <3>4
  <2>4. CASE Finish(t)
    <3> DEFINE q == AfterRun(queue, job[t])
    <3>1. /\ t \in Decoding /\ at[t] # "asleep" /\ LoopHead(t, q)
      BY <2>4 DEF Finish, Decoding
    <3>2. q \in Queues /\ job[t] \in Index
      BY <3>1, AfterRunInTurn DEF Inv
    <3>3. q.waiting = queue.waiting /\ q.finished = queue.finished \cup {job[t]}
      BY <1>1 DEF AfterRun, Queues
    <3>4. Queued(q) = Queued(queue) /\ Distinct(q.waiting)
      BY <2>1, <3>3 DEF Queued
    <3>5. With \ {job[t]} = with /\ job[t] \in With
      BY <2>1, <3>1 DEF With
    <3> HIDE DEF q
    <3>6. /\ queue'.finished = q.finished
          /\ \/ Queued(queue)' = Queued(q) /\ With' = with
             \/ \E i \in Queued(q) : /\ Queued(queue)' = Queued(q) \ {i}
                                     /\ With' = with \cup {i}
      BY <1>1, <3>1, <3>2, <3>4, LoopHeadMoves
    <3> HIDE DEF with
    <3>7. {job[t]} \in {{}} \cup {{i} : i \in Index} /\ {job[t]} \subseteq With
      BY <3>2, <3>5
    <3> QED  BY <2>2, <3>3, <3>4, <3>5, <3>6, <3>7
  <2> QED  BY <2>3, <2>4
<1> QED  BY <1>2, <1>3

\* A new pool has nothing, and no thread was left to have anything.
LEMMA NewPoolMovesNothing ==
    ASSUME Inv, NEW b, NewPool(b)
    PROVE  UNCHANGED Status
<1>1. Dropping /\ Decoding = {} /\ UNCHANGED at /\ queue' = EmptyQueue /\ ~Dropping'
  BY DEF NewPool, Dropping, Inv, NoThreadOutlivesThePool, Decoding
<1>2. Queued(queue)' = {} /\ queue'.finished = {} /\ With' = {}
  <2>1. Decoding' = {}
    BY <1>1 DEF Decoding
  <2> QED  BY <1>1, <2>1, NoFrames DEF Queued, With, EmptyQueue
<1>3. \A i \in Index : Status'[i] = "walk" /\ Status[i] = "walk"
  BY <1>1, <1>2, PlacementHolds, PlacementAfter DEF Placement
<1> QED  BY <1>3, Shape

LEMMA PromiseStep ==
    ASSUME Inv, [Next]_vars
    PROVE  [Jobs!Next]_Status
<1>0. queue \in Queues
  BY DEF Inv, TypeOK
<1>1. CASE Aside
  <2>1. /\ Decoding' = Decoding /\ UNCHANGED job /\ With' = With
    BY <1>1, AsideKeepsDecoding DEF With
  <2>2. CASE Start
    <3>1. PICK n \in 0..MaxJobs, last \in BOOLEAN : SubmitJobs([k \in 1..n |-> k], last)
      BY <2>2 DEF Start
    <3>2. Elements([k \in 1..n |-> k]) \subseteq Index
      BY BatchFrames, MaxJobsAssumption DEF Index
    <3> QED  BY <2>1, <2>2, <3>1, <3>2, BatchFrames, HandsOver DEF Start
  <2>3. CASE Follow
    <3>1. handed + 1 \in Index /\ handed + 1 \notin owed
      <4>1. handed \in 0..MaxJobs /\ handed < MaxJobs /\ owed \subseteq 1..handed
        BY <2>3 DEF Follow, Inv, TypeOK
      <4> QED  BY <4>1, MaxJobsAssumption DEF Index
    <3>2. SubmitJobs(<<handed + 1>>, FALSE)
      BY <2>3 DEF Follow
    <3>3. /\ <<handed + 1>> \in Seq(Index) /\ Distinct(<<handed + 1>>)
          /\ Elements(<<handed + 1>>) = {handed + 1}
      BY <3>1, OneFrame
    <3> QED  BY <2>1, <3>1, <3>2, <3>3, HandsOver
  <2>4. CASE CollectFinished \/ CollectWaiting
    BY <2>1, <2>4, GivesBack
  <2>5. CASE Drain \/ DrainFinished
    BY <2>1, <2>5, TakesBack
  <2>6. CASE Drop
    BY <2>6, GivesUp
  <2>7. CASE DropNotify \/ DropJoin
    <3>1. Dropping /\ Dropping'
      BY <2>7 DEF DropNotify, DropJoin, Dropping
    <3> QED  BY <3>1, NothingMoves
  <2>8. CASE \/ UNCHANGED vars \/ Stop \/ DrainEnd \/ \E i \in owed : Collect(i)
             \/ SubmitNotify \/ SubmitStart \/ EndNotify \/ CollectLend \/ DrainWait
             \/ DecodeHere
             \/ SpuriousWakeup \/ Composite \/ CompositeEnd
             \/ \E t \in Thread : \/ StartWorker(t) \/ StartWorkerFails(t)
                                  \/ BecomeWorker(t) \/ Exit(t)
    <3>1. queue'.waiting = queue.waiting /\ queue'.finished = queue.finished
      BY <1>0, <2>8 DEF Queues, vars, poolVars, Stop, DrainEnd, SetEnding, Collect,
         SubmitNotify, SubmitStart, EndNotify, CollectLend, DrainWait, SpuriousWakeup,
         DecodeHere,
         StartWorker, StartWorkerFails, BecomeWorker, Exit, Composite, CompositeEnd
    <3>2. \/ call' = call \/ call' = DoneNotified(call)
          \/ /\ call \notin {"drop: notify", "drop: join", "no pool"}
             /\ call' \notin {"drop: notify", "drop: join", "no pool"}
      <4>1. CASE \/ UNCHANGED vars \/ SpuriousWakeup
                 \/ \E t \in Thread : \/ StartWorker(t) \/ StartWorkerFails(t)
                                      \/ BecomeWorker(t) \/ Exit(t)
        BY <4>1 DEF vars, callVars, SpuriousWakeup, StartWorker, StartWorkerFails,
           BecomeWorker, Exit
      <4>2. CASE \/ Stop \/ DrainEnd \/ \E i \in owed : Collect(i)
                 \/ SubmitNotify \/ SubmitStart \/ EndNotify \/ CollectLend
                 \/ DrainWait \/ DecodeHere \/ Composite \/ CompositeEnd
        BY <4>2 DEF Stop, DrainEnd, SetEnding, Collect, SubmitNotify, SubmitStart,
           EndNotify, CollectLend, DrainWait, DecodeHere, Composite, CompositeEnd
      <4> QED  BY <2>8, <4>1, <4>2
    <3>3. Queued(queue)' = Queued(queue)
      BY <3>1 DEF Queued
    <3>4. Dropping' <=> Dropping
      BY <3>2 DEF Dropping, DoneNotified
    <3> QED  BY <2>1, <3>1, <3>3, <3>4, NothingMoves
  <2> QED  BY <1>1, <2>2, <2>3, <2>4, <2>5, <2>6, <2>7, <2>8 DEF Aside, CallStep
<1>2. ASSUME NEW b \in Threads, NewPool(b) PROVE UNCHANGED Status
  BY <1>2, NewPoolMovesNothing
<1>3. ASSUME NEW t \in Thread, Work(t) \/ Finish(t) PROVE [Jobs!Next]_Status
  BY <1>3, ThreadMoves
<1> QED  BY <1>1, <1>2, <1>3, NextCases

-----------------------------------------------------------------------------
\* The pool implements FrameJobs: whatever the threads do, in whatever order,
\* a frame is decoded by one thread at most and once at most, a frame a thread
\* has begun is never taken from it, and every frame comes back to the walk
\* decoded, or undecoded for the walk to decode (Queue, Pool::submit, collect
\* and drain, Shared::work).
THEOREM PromiseKept == Spec => KeepsItsPromise
<1>1. Init => Jobs!Init
  <2> SUFFICES ASSUME Init PROVE Jobs!Init
    OBVIOUS
  <2>1. Dropping
    BY DEF Init, Dropping
  <2>2. \A i \in Index : Status[i] = "walk"
    BY <2>1, PlacementHolds DEF Placement
  <2>3. Status = [i \in Index |-> "walk"]
    BY <2>2, Shape
  <2> QED  BY <2>3 DEF Jobs!Init, Status
<1>2. Inv /\ [Next]_vars => [Jobs!Next]_Status
  BY PromiseStep
<1>3. [Jobs!Next]_Status = [Jobs!Next]_([i \in Index |-> StatusOf(i)])
  BY DEF Status
<1> QED  BY <1>1, <1>2, <1>3, Invariance, PTL DEF Spec, KeepsItsPromise, Jobs!Spec, Status
=============================================================================
