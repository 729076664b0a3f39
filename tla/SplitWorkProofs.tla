--------------------------- MODULE SplitWorkProofs ---------------------------
(***************************************************************************)
(* Work that is split is done once, proved for any number of items and of  *)
(* threads, whichever threads start and whichever items panic.             *)
(*                                                                         *)
(* An item is in one place, a chunk not begun, a thread's or the caller's  *)
(* own, until it is run, and then in none; only a panic drops what is      *)
(* left.                                                                   *)
(***************************************************************************)
EXTENDS SplitWork, SequenceTheorems, TLAPS

-----------------------------------------------------------------------------
(* The inductive invariant.                                                *)

Items == 1..call.items
Once(s) == \A a, b \in DOMAIN s : s[a] = s[b] => a = b

Typed ==
    /\ call \in Calls
    /\ chunks \in Seq(Seq(Items)) /\ threads \subseteq Seq(Items) /\ here \in Seq(Items)
    /\ ran \in [Items -> {0, 1}]
    /\ beside \in BOOLEAN /\ panicked \in BOOLEAN /\ returned \in BOOLEAN

\* The places where work is left.
InChunk(k, i)  == k \in DOMAIN chunks /\ i \in Range(chunks[k])
InThread(t, i) == t \in threads /\ i \in Range(t)
IsHere(i)      == i \in Range(here)

\* No item is in a place twice, nor in two places.
EachOnce ==
    /\ \A k \in DOMAIN chunks : Once(chunks[k])
    /\ \A t \in threads : Once(t)
    /\ Once(here)
Apart ==
    /\ \A i : \A k, l \in DOMAIN chunks : InChunk(k, i) /\ InChunk(l, i) => k = l
    /\ \A i : \A t, u \in threads : InThread(t, i) /\ InThread(u, i) => t = u
    /\ \A i : \A k \in DOMAIN chunks, t \in threads : ~(InChunk(k, i) /\ InThread(t, i))
    /\ \A i : \A k \in DOMAIN chunks : ~(InChunk(k, i) /\ IsHere(i))
    /\ \A i : \A t \in threads : ~(InThread(t, i) /\ IsHere(i))

Left(i) ==
    \/ \E k \in DOMAIN chunks : InChunk(k, i)
    \/ \E t \in threads : InThread(t, i)
    \/ IsHere(i)

PanicRan == \E p \in call.panics : ran[p] = 1

\* What is left has not been run, what is not left has, but for a panic.
Accounted ==
    /\ \A i \in Items : Left(i) => ran[i] = 0
    /\ \A i \in Items : Left(i) \/ ran[i] = 1 \/ PanicRan
    /\ panicked => PanicRan

Ended == returned =>
    /\ threads = {} /\ here = <<>> /\ chunks = <<>>
    /\ panicked \/ ~PanicRan

\* Without a side beside it, where the two halves of join() may be.
InTurn == call.op = "join" =>
    /\ beside => Len(chunks) <= 1
    /\ ~beside =>
           /\ threads = {}
           /\ \/ chunks = << <<1>>, <<2>> >> /\ here = <<>> /\ ran[1] = 0
              \/ chunks = << <<2, 1>> >> /\ here = <<>> /\ ran[1] = 0
              \/ chunks = <<>> /\ here = <<2, 1>> /\ ran[1] = 0
              \/ chunks = <<>> /\ here = <<1>> /\ ran[2] = 1
              \/ chunks = <<>> /\ here = <<>> /\ (ran[1] = 1 => ran[2] = 1)

WorkInv == Typed /\ EachOnce /\ Apart /\ Accounted /\ Ended /\ InTurn

LEMMA InvariantRunsOnce ==
    ASSUME CallsMeant, WorkInv
    PROVE  PiecesRunOnce
<1>1. DOMAIN ran = Items /\ \A i \in Items : ran[i] \in {0, 1}
  BY DEF WorkInv, Typed
<1>2. \A i \in DOMAIN ran : ran[i] <= 1
  BY <1>1
<1>3. ASSUME returned
      PROVE  /\ threads = {}
             /\ (\A i \in DOMAIN ran : ran[i] = 1) \/ panicked
             /\ panicked => \E i \in call.panics : ran[i] = 1
  <2>1. threads = {} /\ here = <<>> /\ chunks = <<>> /\ (panicked \/ ~PanicRan)
    BY <1>3 DEF WorkInv, Ended
  <2>2. \A i \in Items : ~Left(i)
    BY <2>1 DEF Left, IsHere, Range
  <2>3. panicked => PanicRan
    BY DEF WorkInv, Accounted
  <2> QED  BY <1>1, <2>1, <2>2, <2>3 DEF WorkInv, Accounted, PanicRan
<1>4. call.op = "join" /\ ~beside /\ ran[1] = 1 => ran[2] = 1
  BY DEF WorkInv, InTurn
<1> QED  BY <1>2, <1>3, <1>4 DEF PiecesRunOnce

-----------------------------------------------------------------------------
(* Sequences whose first item is taken.                                    *)

LEMMA TailOf ==
    ASSUME NEW S, NEW s \in Seq(S), s # <<>>
    PROVE  /\ Head(s) \in S /\ Tail(s) \in Seq(S) /\ Head(s) = s[1]
           /\ Len(s) \in Nat \ {0} /\ Len(Tail(s)) = Len(s) - 1
           /\ DOMAIN s = 1..Len(s) /\ DOMAIN Tail(s) = 1..Len(s) - 1
           /\ \A a \in 1..Len(s) - 1 : Tail(s)[a] = s[a + 1]
<1>1. Len(s) \in Nat /\ Len(s) # 0
  BY EmptySeq
<1> QED  BY <1>1

LEMMA TailItems ==
    ASSUME NEW S, NEW s \in Seq(S), s # <<>>
    PROVE  /\ Range(s) = {Head(s)} \cup Range(Tail(s))
           /\ Once(s) => Once(Tail(s)) /\ Head(s) \notin Range(Tail(s))
<1>1. /\ Head(s) = s[1] /\ Len(s) \in Nat \ {0}
      /\ DOMAIN s = 1..Len(s) /\ DOMAIN Tail(s) = 1..Len(s) - 1
      /\ \A a \in 1..Len(s) - 1 : Tail(s)[a] = s[a + 1]
  BY TailOf
<1>2. Range(s) \subseteq {Head(s)} \cup Range(Tail(s))
  <2> SUFFICES ASSUME NEW a \in 1..Len(s), a # 1 PROVE s[a] \in Range(Tail(s))
    BY <1>1 DEF Range
  <2>1. a - 1 \in 1..Len(s) - 1 /\ (a - 1) + 1 = a
    BY <1>1
  <2> QED  BY <1>1, <2>1 DEF Range
<1>3. {Head(s)} \cup Range(Tail(s)) \subseteq Range(s)
  <2>1. \A a \in 1..Len(s) - 1 : a + 1 \in 1..Len(s)
    BY <1>1
  <2>2. 1 \in 1..Len(s)
    BY <1>1
  <2> QED  BY <1>1, <2>1, <2>2 DEF Range
<1>4. ASSUME Once(s) PROVE Once(Tail(s)) /\ Head(s) \notin Range(Tail(s))
  <2>1. \A a \in 1..Len(s) - 1 : a + 1 \in 1..Len(s) /\ a + 1 # 1
    BY <1>1
  <2>2. 1 \in 1..Len(s)
    BY <1>1
  <2>3. \A a, b \in 1..Len(s) - 1 : a + 1 = b + 1 => a = b
    BY <1>1
  <2> QED  BY <1>1, <1>4, <2>1, <2>2, <2>3 DEF Once, Range
<1> QED  BY <1>2, <1>3, <1>4

LEMMA ItemsTyped ==
    ASSUME NEW S, NEW s \in Seq(S)
    PROVE  Range(s) \subseteq S
BY DEF Range

-----------------------------------------------------------------------------
(* Each step keeps it.                                                     *)

LEMMA Shifted ==
    ASSUME Typed, chunks # <<>>, chunks' = Tail(chunks), call' = call
    PROVE  /\ chunks' \in Seq(Seq(Items)) /\ Head(chunks) = chunks[1] /\ 1 \in DOMAIN chunks
           /\ chunks[1] \in Seq(Items)
           /\ \A k \in DOMAIN chunks' : /\ k + 1 \in DOMAIN chunks /\ k + 1 # 1
                                        /\ chunks'[k] = chunks[k + 1]
                                        /\ \A i : InChunk(k, i)' <=> InChunk(k + 1, i)
           /\ \A k, l \in DOMAIN chunks' : k + 1 = l + 1 => k = l
           /\ \A i : (\E k \in DOMAIN chunks : InChunk(k, i))
                     <=> InChunk(1, i) \/ \E k \in DOMAIN chunks' : InChunk(k, i)'
<1>1. /\ chunks' \in Seq(Seq(Items)) /\ Head(chunks) = chunks[1] /\ Head(chunks) \in Seq(Items)
      /\ Len(chunks) \in Nat \ {0}
      /\ DOMAIN chunks = 1..Len(chunks) /\ DOMAIN chunks' = 1..Len(chunks) - 1
      /\ \A k \in 1..Len(chunks) - 1 : chunks'[k] = chunks[k + 1]
  BY TailOf DEF Typed
<1>2. 1 \in DOMAIN chunks
  BY <1>1
<1>3. \A k \in DOMAIN chunks' : k + 1 \in DOMAIN chunks /\ k + 1 # 1 /\ chunks'[k] = chunks[k + 1]
  BY <1>1
<1>4. \A k \in DOMAIN chunks' : \A i : InChunk(k, i)' <=> InChunk(k + 1, i)
  BY <1>3 DEF InChunk, Range
<1>5. \A k \in DOMAIN chunks : k = 1 \/ (k - 1 \in DOMAIN chunks' /\ (k - 1) + 1 = k)
  BY <1>1
<1>6. \A k, l \in DOMAIN chunks' : k + 1 = l + 1 => k = l
  BY <1>1
<1>7. ASSUME NEW i
      PROVE  (\E k \in DOMAIN chunks : InChunk(k, i))
             <=> InChunk(1, i) \/ \E k \in DOMAIN chunks' : InChunk(k, i)'
  <2>1. ASSUME NEW k \in DOMAIN chunks, InChunk(k, i)
        PROVE  InChunk(1, i) \/ \E l \in DOMAIN chunks' : InChunk(l, i)'
    <3>1. CASE k = 1
      BY <2>1, <3>1
    <3>2. CASE k - 1 \in DOMAIN chunks' /\ (k - 1) + 1 = k
      <4>1. InChunk(k - 1, i)'
        BY <1>4, <2>1, <3>2
      <4> QED  BY <3>2, <4>1
    <3> QED  BY <1>5, <3>1, <3>2
  <2>2. ASSUME NEW k \in DOMAIN chunks', InChunk(k, i)'
        PROVE  \E l \in DOMAIN chunks : InChunk(l, i)
    BY <1>3, <1>4, <2>2
  <2> QED  BY <1>2, <2>1, <2>2
<1> QED  BY <1>1, <1>2, <1>3, <1>4, <1>6, <1>7

LEMMA SpawnKeeps ==
    ASSUME WorkInv, Spawn
    PROVE  WorkInv'
<1>1. /\ chunks # <<>> /\ chunks' = Tail(chunks) /\ threads' = threads \cup {chunks[1]}
      /\ call' = call /\ here' = here /\ here = <<>> /\ ran' = ran /\ beside' = TRUE
      /\ panicked' = panicked /\ ~panicked /\ returned' = returned /\ Len(chunks) > 1
  <2>1. chunks \in Seq(Seq(Items)) /\ Len(chunks) > 1
    BY DEF WorkInv, Typed, Spawn
  <2> QED  BY <2>1 DEF Spawn
<1>2. /\ chunks' \in Seq(Seq(Items)) /\ 1 \in DOMAIN chunks /\ chunks[1] \in Seq(Items)
      /\ \A k \in DOMAIN chunks' : /\ k + 1 \in DOMAIN chunks /\ k + 1 # 1
                                   /\ chunks'[k] = chunks[k + 1]
                                   /\ \A i : InChunk(k, i)' <=> InChunk(k + 1, i)
      /\ \A k, l \in DOMAIN chunks' : k + 1 = l + 1 => k = l
      /\ \A i : (\E k \in DOMAIN chunks : InChunk(k, i))
                <=> InChunk(1, i) \/ \E k \in DOMAIN chunks' : InChunk(k, i)'
  BY <1>1, Shifted DEF WorkInv
<1>3. \A t, i : InThread(t, i)' <=> InThread(t, i) \/ (t = chunks[1] /\ InChunk(1, i))
  BY <1>1, <1>2 DEF InThread, InChunk
<1>4. \A i : IsHere(i)' <=> IsHere(i)
  BY <1>1 DEF IsHere
<1>5. \A i : Left(i)' <=> Left(i)
  <2> SUFFICES ASSUME NEW i PROVE Left(i)' <=> Left(i)
    OBVIOUS
  <2>1. (\E t \in threads' : InThread(t, i)') <=> (\E t \in threads : InThread(t, i)) \/ InChunk(1, i)
    BY <1>1, <1>3 DEF InThread
  <2> QED  BY <1>2, <1>4, <2>1 DEF Left
<1>6. Typed' /\ EachOnce'
  BY <1>1, <1>2 DEF WorkInv, Typed, EachOnce, Items
<1>7. Apart'
  <2>1. \A i : \A k, l \in DOMAIN chunks' : InChunk(k, i)' /\ InChunk(l, i)' => k = l
    BY <1>2 DEF WorkInv, Apart
  <2>2. \A i : \A t, u \in threads' : InThread(t, i)' /\ InThread(u, i)' => t = u
    BY <1>2, <1>3 DEF WorkInv, Apart, InThread
  <2>3. \A i : \A k \in DOMAIN chunks', t \in threads' : ~(InChunk(k, i)' /\ InThread(t, i)')
    BY <1>2, <1>3 DEF WorkInv, Apart, InThread
  <2>4. \A i : \A k \in DOMAIN chunks' : ~(InChunk(k, i)' /\ IsHere(i)')
    BY <1>2, <1>4 DEF WorkInv, Apart
  <2>5. \A i : \A t \in threads' : ~(InThread(t, i)' /\ IsHere(i)')
    BY <1>2, <1>3, <1>4 DEF WorkInv, Apart, InThread
  <2> QED  BY <2>1, <2>2, <2>3, <2>4, <2>5 DEF Apart
<1>8. Accounted' /\ Ended' /\ InTurn'
  <2>1. Accounted'
    BY <1>1, <1>5 DEF WorkInv, Accounted, PanicRan, Items
  <2>2. ~returned
    BY <1>1 DEF WorkInv, Ended
  <2>3. InTurn'
    <3> SUFFICES ASSUME call.op = "join" PROVE Len(chunks') <= 1
      BY <1>1 DEF InTurn
    <3>1. ~beside
      BY <1>1 DEF WorkInv, InTurn, Typed
    <3>2. chunks = << <<1>>, <<2>> >>
      BY <1>1, <3>1 DEF WorkInv, InTurn
    <3> QED  BY <1>1, <3>2
  <2> QED  BY <1>1, <2>1, <2>2, <2>3 DEF Ended
<1> QED  BY <1>6, <1>7, <1>8 DEF WorkInv

\* The next chunk, or the last, goes to the caller.
LEMMA TakenHere ==
    ASSUME WorkInv, chunks # <<>>, here = <<>>, here' = Head(chunks), chunks' = Tail(chunks),
           call' = call, threads' = threads, ran' = ran, beside' = beside,
           panicked' = panicked, returned' = returned
    PROVE  Typed' /\ EachOnce' /\ Apart' /\ Accounted' /\ Ended'
<1>1. /\ chunks' \in Seq(Seq(Items)) /\ 1 \in DOMAIN chunks /\ chunks[1] \in Seq(Items)
      /\ Head(chunks) = chunks[1]
      /\ \A k \in DOMAIN chunks' : /\ k + 1 \in DOMAIN chunks /\ k + 1 # 1
                                   /\ chunks'[k] = chunks[k + 1]
                                   /\ \A i : InChunk(k, i)' <=> InChunk(k + 1, i)
      /\ \A k, l \in DOMAIN chunks' : k + 1 = l + 1 => k = l
      /\ \A i : (\E k \in DOMAIN chunks : InChunk(k, i))
                <=> InChunk(1, i) \/ \E k \in DOMAIN chunks' : InChunk(k, i)'
  BY Shifted DEF WorkInv
<1>2. \A t, i : InThread(t, i)' <=> InThread(t, i)
  BY DEF InThread
<1>3. \A i : IsHere(i)' <=> InChunk(1, i)
  BY <1>1 DEF IsHere, InChunk
<1>4. \A i : ~IsHere(i)
  BY DEF IsHere, Range
<1>5. \A i : Left(i)' <=> Left(i)
  BY <1>1, <1>2, <1>3, <1>4 DEF Left
<1>6. Typed' /\ EachOnce'
  BY <1>1 DEF WorkInv, Typed, EachOnce, Items
<1>7. Apart'
  <2>1. \A i : \A k, l \in DOMAIN chunks' : InChunk(k, i)' /\ InChunk(l, i)' => k = l
    BY <1>1 DEF WorkInv, Apart
  <2>2. \A i : \A t, u \in threads' : InThread(t, i)' /\ InThread(u, i)' => t = u
    BY <1>2 DEF WorkInv, Apart
  <2>3. \A i : \A k \in DOMAIN chunks', t \in threads' : ~(InChunk(k, i)' /\ InThread(t, i)')
    BY <1>1, <1>2 DEF WorkInv, Apart
  <2>4. \A i : \A k \in DOMAIN chunks' : ~(InChunk(k, i)' /\ IsHere(i)')
    BY <1>1, <1>3 DEF WorkInv, Apart
  <2>5. \A i : \A t \in threads' : ~(InThread(t, i)' /\ IsHere(i)')
    BY <1>1, <1>2, <1>3 DEF WorkInv, Apart
  <2> QED  BY <2>1, <2>2, <2>3, <2>4, <2>5 DEF Apart
<1>8. Accounted' /\ Ended'
  <2>1. Accounted'
    BY <1>5 DEF WorkInv, Accounted, PanicRan, Items
  <2>2. ~returned
    BY DEF WorkInv, Ended
  <2> QED  BY <2>1, <2>2 DEF Ended
<1> QED  BY <1>6, <1>7, <1>8

LEMMA SpawnFailsKeeps ==
    ASSUME CallsMeant, WorkInv, SpawnFails
    PROVE  WorkInv'
<1>1. /\ chunks # <<>> /\ Len(chunks) > 1 /\ here = <<>>
      /\ call' = call /\ threads' = threads /\ ran' = ran /\ beside' = beside
      /\ panicked' = panicked /\ returned' = returned
  <2>1. chunks \in Seq(Seq(Items)) /\ Len(chunks) > 1
    BY DEF WorkInv, Typed, SpawnFails
  <2> QED  BY <2>1 DEF SpawnFails
<1>2. CASE call.op = "join"
  <2>1. chunks = << <<1>>, <<2>> >> /\ threads = {} /\ ran[1] = 0 /\ ~beside
    <3>1. ~beside
      BY <1>1, <1>2 DEF WorkInv, InTurn, Typed
    <3> QED  BY <1>1, <1>2, <3>1 DEF WorkInv, InTurn
  <2>2. here' = <<>> /\ chunks' = << <<2, 1>> >>
    <3>1. here' = here /\ chunks' = << Last(chunks) \o Head(chunks) >>
      BY <1>2 DEF SpawnFails
    <3>2. Last(chunks) = <<2>> /\ Head(chunks) = <<1>>
      BY <2>1 DEF Last
    <3>3. <<2>> \o <<1>> = <<2, 1>>
      <4>1. <<2>> \in Seq({1, 2}) /\ <<1>> \in Seq({1, 2}) /\ <<2, 1>> \in Seq({1, 2})
        OBVIOUS
      <4>2. /\ <<2>> \o <<1>> \in Seq({1, 2}) /\ Len(<<2>> \o <<1>>) = 2
            /\ (<<2>> \o <<1>>)[1] = 2 /\ (<<2>> \o <<1>>)[2] = 1
        BY <4>1, ConcatProperties
      <4>3. PICK s : s = <<2>> \o <<1>>
        OBVIOUS
      <4>4. s \in Seq({1, 2}) /\ Len(s) = 2 /\ s[1] = 2 /\ s[2] = 1
        BY <4>2, <4>3
      <4>5. s = <<2, 1>>
        BY <4>4
      <4> QED  BY <4>3, <4>5
    <3> QED  BY <1>1, <3>1, <3>2, <3>3
  <2>3. Items = {1, 2}
    <3>1. call.items = 2
      BY <1>2 DEF WorkInv, Typed, CallsMeant
    <3> QED  BY <3>1 DEF Items
  <2>4. /\ DOMAIN chunks = {1, 2} /\ chunks[1] = <<1>> /\ chunks[2] = <<2>>
        /\ DOMAIN chunks' = {1} /\ chunks'[1] = <<2, 1>>
    BY <2>1, <2>2
  <2>5. Range(<<1>>) = {1} /\ Range(<<2>>) = {2} /\ Range(<<2, 1>>) = {1, 2} /\ Range(<<>>) = {}
    BY DEF Range
  <2>6. \A i : (Left(i) <=> i \in {1, 2}) /\ (Left(i)' <=> i \in {1, 2})
    BY <1>1, <2>1, <2>2, <2>4, <2>5 DEF Left, InChunk, InThread, IsHere
  <2>7. Typed' /\ EachOnce'
    <3>1. <<2, 1>> \in Seq(Items) /\ Once(<<2, 1>>)
      BY <2>3 DEF Once
    <3> QED  BY <1>1, <2>1, <2>2, <2>4, <3>1 DEF WorkInv, Typed, EachOnce, Items
  <2>8. Apart'
    BY <1>1, <2>1, <2>2, <2>4, <2>5 DEF Apart, InChunk, InThread, IsHere
  <2>9. Accounted' /\ Ended' /\ InTurn'
    <3>1. Accounted'
      BY <1>1, <2>6 DEF WorkInv, Accounted, PanicRan, Items
    <3>2. ~returned
      BY <1>1 DEF WorkInv, Ended
    <3> QED  BY <1>1, <2>1, <2>2, <3>1, <3>2 DEF Ended, InTurn
  <2> QED  BY <2>7, <2>8, <2>9 DEF WorkInv
<1>3. CASE call.op # "join"
  <2>1. here' = Head(chunks) /\ chunks' = Tail(chunks)
    BY <1>3 DEF SpawnFails
  <2>2. InTurn'
    BY <1>1, <1>3 DEF InTurn
  <2> QED  BY <1>1, <2>1, <2>2, TakenHere DEF WorkInv
<1> QED  BY <1>2, <1>3

LEMMA RunLastKeeps ==
    ASSUME WorkInv, RunLast
    PROVE  WorkInv'
<1>1. /\ chunks # <<>> /\ Len(chunks) = 1 /\ here = <<>> /\ here' = Head(chunks)
      /\ chunks' = <<>> /\ call' = call /\ threads' = threads /\ ran' = ran
      /\ beside' = beside /\ panicked' = panicked /\ returned' = returned
  <2>1. chunks \in Seq(Seq(Items)) /\ Len(chunks) = 1
    BY DEF WorkInv, Typed, RunLast
  <2>2. Len(<<>>) # 1
    OBVIOUS
  <2> QED  BY <2>1, <2>2 DEF RunLast
<1>2. Tail(chunks) = <<>>
  <2>1. Len(Tail(chunks)) = 0 /\ Tail(chunks) \in Seq(Seq(Items))
    BY <1>1, TailOf DEF WorkInv, Typed
  <2> QED  BY <2>1, EmptySeq
<1>3. Typed' /\ EachOnce' /\ Apart' /\ Accounted' /\ Ended'
  BY <1>1, <1>2, TakenHere
<1>4. InTurn'
  <2> SUFFICES ASSUME call.op = "join" PROVE InTurn'
    BY <1>1 DEF InTurn
  <2>1. ~beside => chunks = << <<2, 1>> >> /\ threads = {} /\ ran[1] = 0
    BY <1>1 DEF WorkInv, InTurn
  <2>2. Head(<< <<2, 1>> >>) = <<2, 1>>
    OBVIOUS
  <2> QED  BY <1>1, <2>1, <2>2 DEF InTurn
<1> QED  BY <1>3, <1>4 DEF WorkInv

LEMMA WorkKeeps ==
    ASSUME CallsMeant, WorkInv, NEW i \in Items, Work(i)
    PROVE  WorkInv'
<1>1. /\ here # <<>> /\ i = Head(here) /\ ran' = [ran EXCEPT ![i] = @ + 1]
      /\ call' = call /\ threads' = threads /\ beside' = beside /\ returned' = returned
  BY DEF Work
<1>2. /\ here \in Seq(Items) /\ Tail(here) \in Seq(Items)
      /\ Range(here) = {i} \cup Range(Tail(here))
      /\ Once(Tail(here)) /\ i \notin Range(Tail(here))
  BY <1>1, TailOf, TailItems DEF WorkInv, Typed, EachOnce
<1>3. /\ IsHere(i)
      /\ \A k \in DOMAIN chunks : ~InChunk(k, i)
      /\ \A t \in threads : ~InThread(t, i)
  BY <1>2 DEF WorkInv, Apart, IsHere
<1>4. ran[i] = 0
  BY <1>3 DEF WorkInv, Accounted, Left
<1>5. /\ ran' \in [Items -> {0, 1}] /\ ran'[i] = 1
      /\ \A j \in Items : j # i => ran'[j] = ran[j]
  BY <1>1, <1>4 DEF WorkInv, Typed
<1>6. call.panics \subseteq Items
  BY DEF WorkInv, Typed, CallsMeant, Items
<1>7. PanicRan => PanicRan'
  BY <1>1, <1>5, <1>6 DEF PanicRan
<1>8. ~returned
  BY <1>1 DEF WorkInv, Ended
<1>9. \A t, j : InThread(t, j)' <=> InThread(t, j)
  BY <1>1 DEF InThread
<1>10. CASE i \in call.panics
  <2>1. panicked' = TRUE /\ here' = <<>> /\ chunks' = <<>>
    BY <1>10 DEF Work
  <2>2. PanicRan'
    BY <1>1, <1>5, <1>10 DEF PanicRan
  <2>3. \A j : Left(j)' => Left(j) /\ j # i
    <3> SUFFICES ASSUME NEW j, Left(j)' PROVE Left(j) /\ j # i
      OBVIOUS
    <3>1. PICK t \in threads' : InThread(t, j)'
      BY <2>1 DEF Left, InChunk, IsHere, Range
    <3>2. t \in threads /\ InThread(t, j)
      BY <1>1, <1>9, <3>1
    <3> QED  BY <1>3, <3>2 DEF Left
  <2>4. Typed' /\ EachOnce'
    BY <1>1, <1>5, <2>1 DEF WorkInv, Typed, EachOnce, Items, Once
  <2>5. Apart'
    BY <1>9, <2>1, <1>1 DEF WorkInv, Apart, InChunk, IsHere, Range
  <2>6. Accounted' /\ Ended'
    BY <1>1, <1>5, <1>8, <2>2, <2>3 DEF WorkInv, Accounted, Ended, Items
  <2>7. InTurn'
    <3> SUFFICES ASSUME call.op = "join" PROVE InTurn'
      BY <1>1 DEF InTurn
    <3>1. Items = {1, 2}
      <4>1. call.items = 2
        BY DEF WorkInv, Typed, CallsMeant
      <4> QED  BY <4>1 DEF Items
    <3>2. ~beside => here = <<2, 1>> \/ (here = <<1>> /\ ran[2] = 1)
      BY <1>1 DEF WorkInv, InTurn
    <3>3. ~beside => (i = 2 /\ ran[1] = 0) \/ (i = 1 /\ ran[2] = 1)
      <4>1. Head(<<2, 1>>) = 2 /\ Head(<<1>>) = 1
        OBVIOUS
      <4> QED  BY <1>1, <3>2, <4>1 DEF WorkInv, InTurn
    <3>4. ~beside => (ran'[1] = 1 => ran'[2] = 1)
      BY <1>5, <3>1, <3>3
    <3>5. ~beside => threads = {}
      BY DEF WorkInv, InTurn
    <3>6. Len(<<>>) = 0
      OBVIOUS
    <3> QED  BY <1>1, <2>1, <3>4, <3>5, <3>6 DEF InTurn
  <2> QED  BY <2>4, <2>5, <2>6, <2>7 DEF WorkInv
<1>11. CASE i \notin call.panics
  <2>1. panicked' = panicked /\ here' = Tail(here) /\ chunks' = chunks
    BY <1>11 DEF Work
  <2>2. \A j : IsHere(j)' <=> IsHere(j) /\ j # i
    BY <1>2, <2>1 DEF IsHere
  <2>3. \A k, j : InChunk(k, j)' <=> InChunk(k, j)
    BY <2>1 DEF InChunk
  <2>4. \A j : Left(j)' <=> Left(j) /\ j # i
    BY <1>1, <1>3, <1>9, <2>1, <2>2, <2>3 DEF Left
  <2>5. Typed' /\ EachOnce'
    BY <1>1, <1>2, <1>5, <2>1 DEF WorkInv, Typed, EachOnce, Items
  <2>6. Apart'
    BY <1>1, <1>9, <2>1, <2>2, <2>3 DEF WorkInv, Apart
  <2>7. Accounted' /\ Ended'
    <3>1. \A j \in Items : Left(j)' => ran'[j] = 0
      BY <1>5, <2>4 DEF WorkInv, Accounted
    <3>2. \A j \in Items : Left(j)' \/ ran'[j] = 1 \/ PanicRan'
      BY <1>5, <1>7, <2>4 DEF WorkInv, Accounted
    <3>3. panicked' => PanicRan'
      BY <1>7, <2>1 DEF WorkInv, Accounted
    <3> QED  BY <1>1, <1>8, <3>1, <3>2, <3>3 DEF Accounted, Ended, Items
  <2>8. InTurn'
    <3> SUFFICES ASSUME call.op = "join", ~beside PROVE InTurn'
      BY <1>1, <2>1 DEF WorkInv, InTurn
    <3>1. Items = {1, 2}
      <4>1. call.items = 2
        BY DEF WorkInv, Typed, CallsMeant
      <4> QED  BY <4>1 DEF Items
    <3>2. chunks = <<>> /\ threads = {}
      BY <1>1 DEF WorkInv, InTurn
    <3>3. CASE here = <<2, 1>> /\ ran[1] = 0
      <4>1. Head(<<2, 1>>) = 2 /\ Tail(<<2, 1>>) = <<1>>
        OBVIOUS
      <4>2. i = 2 /\ here' = <<1>> /\ ran'[2] = 1
        BY <1>1, <1>5, <2>1, <3>3, <4>1
      <4> QED  BY <1>1, <2>1, <3>2, <4>2 DEF InTurn
    <3>4. CASE here = <<1>> /\ ran[2] = 1
      <4>1. Head(<<1>>) = 1 /\ Tail(<<1>>) = <<>>
        OBVIOUS
      <4>2. i = 1 /\ here' = <<>> /\ ran'[2] = 1
        BY <1>1, <1>5, <2>1, <3>1, <3>4, <4>1
      <4> QED  BY <1>1, <2>1, <3>2, <4>2 DEF InTurn
    <3> QED  BY <1>1, <3>3, <3>4 DEF WorkInv, InTurn
  <2> QED  BY <2>5, <2>6, <2>7, <2>8 DEF WorkInv
<1> QED  BY <1>10, <1>11

LEMMA ThreadWorksKeeps ==
    ASSUME CallsMeant, WorkInv, NEW t \in threads, ThreadWorks(t)
    PROVE  WorkInv'
<1>1. PICK i, new : /\ t # <<>> /\ i = Head(t) /\ ran' = [ran EXCEPT ![i] = @ + 1]
                    /\ threads' = (threads \ {t}) \cup {new}
                    /\ new = IF i \in call.panics THEN <<>> ELSE Tail(t)
  BY DEF ThreadWorks
<1>2. /\ call' = call /\ chunks' = chunks /\ here' = here /\ beside' = beside
      /\ panicked' = panicked /\ returned' = returned
  BY DEF ThreadWorks
<1>3. /\ t \in Seq(Items) /\ i \in Items /\ Tail(t) \in Seq(Items)
      /\ Range(t) = {i} \cup Range(Tail(t))
      /\ Once(Tail(t)) /\ i \notin Range(Tail(t))
  BY <1>1, TailOf, TailItems DEF WorkInv, Typed, EachOnce
<1>4. /\ new \in Seq(Items) /\ Once(new)
      /\ \A j : j \in Range(new) => j \in Range(t) /\ j # i
      /\ i \notin call.panics => \A j : j \in Range(new) <=> j \in Range(t) /\ j # i
  <2>1. CASE i \in call.panics
    BY <1>1, <2>1 DEF Once, Range
  <2>2. CASE i \notin call.panics
    BY <1>1, <1>3, <2>2
  <2> QED  BY <2>1, <2>2
<1>5. /\ InThread(t, i)
      /\ \A k \in DOMAIN chunks : ~InChunk(k, i)
      /\ \A u \in threads : u # t => ~InThread(u, i)
      /\ ~IsHere(i)
  BY <1>3 DEF WorkInv, Apart, InThread
<1>6. ran[i] = 0
  BY <1>3, <1>5 DEF WorkInv, Accounted, Left
<1>7. /\ ran' \in [Items -> {0, 1}] /\ ran'[i] = 1
      /\ \A j \in Items : j # i => ran'[j] = ran[j]
  BY <1>1, <1>3, <1>6 DEF WorkInv, Typed
<1>8. call.panics \subseteq Items
  BY DEF WorkInv, Typed, CallsMeant, Items
<1>9. PanicRan => PanicRan'
  BY <1>2, <1>7, <1>8 DEF PanicRan
<1>10. \A k, j : InChunk(k, j)' <=> InChunk(k, j)
  BY <1>2 DEF InChunk
<1>11. \A j : IsHere(j)' <=> IsHere(j)
  BY <1>2 DEF IsHere
<1>12. \A u, j : InThread(u, j)' =>
           /\ (u \in threads /\ u # t /\ InThread(u, j)) \/ (u = new /\ InThread(t, j))
           /\ j # i
  <2> SUFFICES ASSUME NEW u, NEW j, InThread(u, j)'
               PROVE  /\ (u \in threads /\ u # t /\ InThread(u, j)) \/ (u = new /\ InThread(t, j))
                      /\ j # i
    OBVIOUS
  <2>1. u \in threads' /\ j \in Range(u)
    BY DEF InThread
  <2>2. CASE u = new
    BY <1>4, <2>1, <2>2 DEF InThread
  <2>3. CASE u \in threads /\ u # t
    BY <1>5, <2>1, <2>3 DEF InThread
  <2> QED  BY <1>1, <2>1, <2>2, <2>3
<1>13. \A j : Left(j)' => Left(j) /\ j # i
  <2> SUFFICES ASSUME NEW j, Left(j)' PROVE Left(j) /\ j # i
    OBVIOUS
  <2>1. CASE \E k \in DOMAIN chunks : InChunk(k, j)
    BY <1>5, <2>1 DEF Left
  <2>2. CASE IsHere(j)
    BY <1>5, <2>2 DEF Left
  <2>3. CASE \E u \in threads' : InThread(u, j)'
    <3>1. j # i /\ \E u \in threads : InThread(u, j)
      BY <1>12, <2>3
    <3> QED  BY <3>1 DEF Left
  <2> QED  BY <1>2, <1>10, <1>11, <2>1, <2>2, <2>3 DEF Left
<1>14. i \notin call.panics => \A j : Left(j) => Left(j)' \/ j = i
  <2> SUFFICES ASSUME i \notin call.panics, NEW j, Left(j), j # i PROVE Left(j)'
    OBVIOUS
  <2>1. CASE (\E k \in DOMAIN chunks : InChunk(k, j)) \/ IsHere(j)
    BY <1>2, <1>10, <1>11, <2>1 DEF Left
  <2>2. CASE \E u \in threads : InThread(u, j)
    <3>1. PICK u \in threads : InThread(u, j)
      BY <2>2
    <3>2. CASE u = t
      <4>1. InThread(new, j)' /\ new \in threads'
        BY <1>1, <1>4, <3>1, <3>2 DEF InThread
      <4> QED  BY <4>1 DEF Left
    <3>3. CASE u # t
      <4>1. InThread(u, j)' /\ u \in threads'
        BY <1>1, <3>1, <3>3 DEF InThread
      <4> QED  BY <4>1 DEF Left
    <3> QED  BY <3>2, <3>3
  <2> QED  BY <2>1, <2>2 DEF Left
<1>15. Typed' /\ EachOnce'
  BY <1>1, <1>2, <1>4, <1>7 DEF WorkInv, Typed, EachOnce, Items
<1>16. Apart'
  <2>1. \A j : \A k, l \in DOMAIN chunks' : InChunk(k, j)' /\ InChunk(l, j)' => k = l
    BY <1>2, <1>10 DEF WorkInv, Apart
  <2>2. \A j : \A u, v \in threads' : InThread(u, j)' /\ InThread(v, j)' => u = v
    BY <1>12 DEF WorkInv, Apart
  <2>3. \A j : \A k \in DOMAIN chunks', u \in threads' : ~(InChunk(k, j)' /\ InThread(u, j)')
    BY <1>2, <1>10, <1>12 DEF WorkInv, Apart
  <2>4. \A j : \A k \in DOMAIN chunks' : ~(InChunk(k, j)' /\ IsHere(j)')
    BY <1>2, <1>10, <1>11 DEF WorkInv, Apart
  <2>5. \A j : \A u \in threads' : ~(InThread(u, j)' /\ IsHere(j)')
    BY <1>11, <1>12 DEF WorkInv, Apart
  <2> QED  BY <2>1, <2>2, <2>3, <2>4, <2>5 DEF Apart
<1>17. Accounted' /\ Ended' /\ InTurn'
  <2>1. \A j \in Items : Left(j)' => ran'[j] = 0
    BY <1>7, <1>13 DEF WorkInv, Accounted
  <2>2. \A j \in Items : Left(j)' \/ ran'[j] = 1 \/ PanicRan'
    <3>1. CASE i \in call.panics
      BY <1>2, <1>7, <3>1 DEF PanicRan
    <3>2. CASE i \notin call.panics
      BY <1>7, <1>9, <1>14, <3>2 DEF WorkInv, Accounted
    <3> QED  BY <3>1, <3>2
  <2>3. panicked' => PanicRan'
    BY <1>2, <1>9 DEF WorkInv, Accounted
  <2>4. ~returned
    BY DEF WorkInv, Ended
  <2>5. call.op = "join" => beside
    BY DEF WorkInv, InTurn
  <2> QED  BY <1>2, <2>1, <2>2, <2>3, <2>4, <2>5 DEF WorkInv, Accounted, Ended, InTurn, Items
<1> QED  BY <1>15, <1>16, <1>17 DEF WorkInv

LEMMA ReturnKeeps ==
    ASSUME CallsMeant, WorkInv, Return
    PROVE  WorkInv'
<1>1. /\ here = <<>> /\ chunks = <<>> /\ threads \subseteq {<<>>}
      /\ returned' = TRUE /\ threads' = {}
      /\ call' = call /\ chunks' = chunks /\ here' = here /\ ran' = ran /\ beside' = beside
  BY DEF Return
<1>2. PICK b \in BOOLEAN : b = (panicked \/ \E i \in call.panics : ran[i] > 0)
  OBVIOUS
<1>3. panicked' = b
  BY <1>2, Zenon DEF Return
<1>4. \A i : ~Left(i) /\ ~Left(i)'
  BY <1>1 DEF Left, InThread, IsHere, Range
<1>5. (\E i \in call.panics : ran[i] > 0) <=> PanicRan
  <2>1. call.panics \subseteq Items
    BY DEF WorkInv, Typed, CallsMeant, Items
  <2>2. \A i \in Items : ran[i] > 0 <=> ran[i] = 1
    BY DEF WorkInv, Typed
  <2> QED  BY <2>1, <2>2 DEF PanicRan
<1>6. b <=> PanicRan
  BY <1>2, <1>5 DEF WorkInv, Accounted
<1>7. Typed' /\ EachOnce' /\ Apart'
  BY <1>1, <1>3 DEF WorkInv, Typed, EachOnce, Apart, InChunk, InThread, IsHere, Items
<1>8. Accounted' /\ Ended'
  BY <1>1, <1>3, <1>4, <1>6 DEF WorkInv, Accounted, Ended, PanicRan, Items
<1>9. InTurn'
  BY <1>1 DEF WorkInv, InTurn
<1> QED  BY <1>7, <1>8, <1>9 DEF WorkInv

-----------------------------------------------------------------------------
(* How items are cut into chunks.                                          *)

LEMMA LesserOf ==
    ASSUME NEW a \in Nat, NEW b \in Nat
    PROVE  Min({a, b}) = IF a <= b THEN a ELSE b
<1> DEFINE m == IF a <= b THEN a ELSE b
<1>1. m \in {a, b} /\ \A y \in {a, b} : m <= y
  OBVIOUS
<1>2. \A x \in {a, b} : (\A y \in {a, b} : x <= y) => x = m
  OBVIOUS
<1> QED  BY <1>1, <1>2 DEF Min

LEMMA Steps ==
    ASSUME NEW k \in Nat, NEW l \in Nat, NEW per \in Nat, k < l
    PROVE  k * per \in Nat /\ l * per \in Nat /\ k * per + per <= l * per
<1>1. PICK d \in Nat : l = k + 1 + d
  <2>1. l - k - 1 \in Nat /\ l = k + 1 + (l - k - 1)
    OBVIOUS
  <2> QED  BY <2>1
<1>2. l * per = k * per + per + d * per
  BY <1>1
<1>3. k * per \in Nat /\ d * per \in Nat
  OBVIOUS
<1> QED  BY <1>2, <1>3

LEMMA Quotient ==
    ASSUME NEW a \in Nat, NEW per \in Nat \ {0}
    PROVE  /\ a \div per \in Nat /\ (a \div per) * per \in Nat
           /\ (a \div per) * per <= a /\ a < (a \div per) * per + per
OBVIOUS

LEMMA PieceOf ==
    ASSUME NEW b \in Nat, NEW z \in Nat, NEW items \in Nat, b + z <= items,
           NEW c, c = [i \in 1..z |-> b + i]
    PROVE  c \in Seq(1..items) /\ Once(c)
<1>1. DOMAIN c = 1..z /\ \A i \in 1..z : c[i] = b + i
  OBVIOUS
<1>2. c \in [1..z -> 1..items]
  OBVIOUS
<1>3. c \in Seq(1..items)
  BY <1>2, SeqDef
<1>4. \A i, j \in 1..z : b + i = b + j => i = j
  OBVIOUS
<1>5. \A i, j \in 1..z : c[i] = c[j] => i = j
  BY <1>1, <1>4
<1> QED  BY <1>1, <1>3, <1>5 DEF Once

\* Cut into pieces of `per`, the last perhaps shorter, items are in one each.
CutUp(items, per) ==
    [k \in 1..(items + per - 1) \div per |->
        [i \in 1..Min({per, items - (k - 1) * per}) |-> (k - 1) * per + i]]

LEMMA CutOnce ==
    ASSUME NEW items \in Nat \ {0}, NEW per \in Nat \ {0}, NEW cut, cut = CutUp(items, per)
    PROVE  /\ cut \in Seq(Seq(1..items))
           /\ \A k \in DOMAIN cut : Once(cut[k])
           /\ \A i : \A k, l \in DOMAIN cut : i \in Range(cut[k]) /\ i \in Range(cut[l]) => k = l
           /\ \A i \in 1..items : \E k \in DOMAIN cut : i \in Range(cut[k])
<1>1. PICK m \in Nat : m = (items + per - 1) \div per
  BY Quotient
<1>2. m * per \in Nat /\ m * per <= items + per - 1 /\ items + per - 1 < m * per + per
  BY <1>1, Quotient, items + per - 1 \in Nat
<1>3. DOMAIN cut = 1..m
  BY <1>1 DEF CutUp
<1>4. ASSUME NEW k \in 1..m
      PROVE  /\ (k - 1) * per \in Nat /\ (k - 1) * per < items
             /\ \E b \in Nat, z \in 1..items :
                    /\ b = (k - 1) * per /\ z <= per /\ b + z <= items
                    /\ z = per \/ b + z = items
                    /\ cut[k] = [i \in 1..z |-> b + i]
  <2>1. PICK b \in Nat : b = (k - 1) * per /\ b + per <= m * per
    <3>1. k - 1 \in Nat /\ k - 1 < m
      OBVIOUS
    <3> QED  BY <3>1, Steps
  <2>2. b < items
    BY ONLY <1>2, <2>1, b \in Nat, items \in Nat, per \in Nat
  <2>3. PICK z \in Nat : z = Min({per, items - b}) /\ z = (IF per <= items - b THEN per ELSE items - b)
    <3>1. items - b \in Nat
      BY ONLY <2>2, b \in Nat, items \in Nat
    <3>2. Min({per, items - b}) = IF per <= items - b THEN per ELSE items - b
      BY <3>1, LesserOf
    <3> QED  BY <3>1, <3>2
  <2>4. z \in 1..items /\ z <= per /\ b + z <= items /\ (z = per \/ b + z = items)
    BY ONLY <2>2, <2>3, b \in Nat, items \in Nat, per \in Nat \ {0}, z \in Nat
  <2>5. cut[k] = [i \in 1..z |-> b + i]
    BY <1>1, <2>1, <2>3 DEF CutUp
  <2> QED  BY <2>1, <2>2, <2>4, <2>5
<1>5. ASSUME NEW k \in 1..m
      PROVE  /\ cut[k] \in Seq(1..items) /\ Once(cut[k])
             /\ \A i \in Range(cut[k]) : /\ i \in 1..items /\ (k - 1) * per < i
                                         /\ i <= (k - 1) * per + per
             /\ \A i \in 1..items : (k - 1) * per < i /\ i <= (k - 1) * per + per
                                    => i \in Range(cut[k])
  <2>1. PICK b \in Nat, z \in 1..items :
            /\ b = (k - 1) * per /\ z <= per /\ b + z <= items
            /\ z = per \/ b + z = items
            /\ cut[k] = [i \in 1..z |-> b + i]
    BY <1>4
  <2>2. z <= per /\ b + z <= items /\ (z = per \/ b + z = items)
    BY <2>1
  <2>3. DOMAIN cut[k] = 1..z /\ \A i \in 1..z : cut[k][i] = b + i
    BY <2>1
  <2>4. \A i \in 1..z : b + i \in 1..items /\ b < b + i /\ b + i <= b + per
    BY ONLY <2>2, b \in Nat, z \in Nat, items \in Nat, per \in Nat
  <2>5. cut[k] \in Seq(1..items) /\ Once(cut[k])
    <3>1. z \in Nat
      OBVIOUS
    <3> QED  BY <2>1, <3>1, PieceOf
  <2>7. \A i \in Range(cut[k]) : i \in 1..items /\ b < i /\ i <= b + per
    BY <2>3, <2>4 DEF Range
  <2>8. ASSUME NEW i \in 1..items, b < i, i <= b + per
        PROVE  i \in Range(cut[k])
    <3>1. i - b \in 1..z /\ b + (i - b) = i
      BY ONLY <2>2, <2>8, b \in Nat, z \in Nat, items \in Nat, per \in Nat, i \in Nat
    <3> QED  BY <2>3, <3>1 DEF Range
  <2> QED  BY <2>1, <2>5, <2>7, <2>8
<1>6. cut \in Seq(Seq(1..items))
  <2>1. cut = [k \in 1..m |-> cut[k]]
    BY <1>1 DEF CutUp
  <2>2. \A k \in 1..m : cut[k] \in Seq(1..items)
    BY <1>5
  <2>3. cut \in [1..m -> Seq(1..items)]
    BY <2>1, <2>2, Zenon
  <2>4. PICK S : S = Seq(1..items)
    OBVIOUS
  <2>5. cut \in Seq(S)
    <3>1. cut \in [1..m -> S]
      BY <2>3, <2>4
    <3>2. \A n \in Nat : \A f : f \in [1..n -> S] => f \in Seq(S)
      BY SeqDef
    <3> QED  BY <3>1, <3>2, Zenon
  <2> QED  BY <2>4, <2>5
<1>7. ASSUME NEW i, NEW k \in 1..m, NEW l \in 1..m, k < l,
             i \in Range(cut[k]), i \in Range(cut[l])
      PROVE  FALSE
  <2>1. (k - 1) * per + per <= (l - 1) * per
    <3>1. k - 1 \in Nat /\ l - 1 \in Nat /\ k - 1 < l - 1
      BY <1>7
    <3> QED  BY <3>1, Steps
  <2>2. i \in 1..items /\ i <= (k - 1) * per + per /\ (l - 1) * per < i
    BY <1>5, <1>7, Zenon
  <2>3. (k - 1) * per \in Nat /\ (l - 1) * per \in Nat
    BY <1>4
  <2> QED  BY ONLY <2>1, <2>2, <2>3, per \in Nat, items \in Nat
<1>8. ASSUME NEW i \in 1..items
      PROVE  \E k \in 1..m : i \in Range(cut[k])
  <2>1. PICK q \in Nat : q * per \in Nat /\ q * per <= i - 1 /\ i - 1 < q * per + per
    BY Quotient, i - 1 \in Nat
  <2>2. q < m
    <3> SUFFICES ASSUME ~(q < m) PROVE FALSE
      OBVIOUS
    <3>1. m * per <= q * per
      <4>1. CASE m = q
        BY <2>1, <4>1
      <4>2. CASE m < q
        BY <4>2, Steps
      <4> QED  BY <4>1, <4>2
    <3> QED  BY ONLY <1>2, <2>1, <3>1, i \in 1..items, items \in Nat, per \in Nat
  <2>3. q + 1 \in 1..m /\ (q + 1) - 1 = q
    BY <2>2
  <2>4. q * per < i /\ i <= q * per + per
    BY <2>1
  <2> QED  BY <1>5, <2>3, <2>4
<1>9. \A i : \A k, l \in DOMAIN cut : i \in Range(cut[k]) /\ i \in Range(cut[l]) => k = l
  <2> SUFFICES ASSUME NEW i, NEW k \in 1..m, NEW l \in 1..m,
                      i \in Range(cut[k]), i \in Range(cut[l])
               PROVE  k = l
    BY <1>3
  <2>1. k < l \/ l < k \/ k = l
    OBVIOUS
  <2> QED  BY <1>7, <2>1
<1> QED  BY <1>3, <1>5, <1>6, <1>8, <1>9

LEMMA ChunksAreACut ==
    ASSUME CallsMeant, NEW c \in Calls
    PROVE  /\ ChunksOf(c) \in Seq(Seq(1..c.items))
           /\ \A k \in DOMAIN ChunksOf(c) : Once(ChunksOf(c)[k])
           /\ \A i : \A k, l \in DOMAIN ChunksOf(c) :
                  i \in Range(ChunksOf(c)[k]) /\ i \in Range(ChunksOf(c)[l]) => k = l
           /\ \A i \in 1..c.items : \E k \in DOMAIN ChunksOf(c) : i \in Range(ChunksOf(c)[k])
           /\ c.op = "join" => ChunksOf(c) \in { << <<2, 1>> >>, << <<1>>, <<2>> >> }
<1>1. /\ c.op \in {"join", "for_each"} /\ c.items \in Nat /\ c.threads \in Nat
      /\ c.op = "join" => c.items = 2
  BY DEF CallsMeant
<1>2. CASE c.op = "join"
  <2>1. c.items = 2 /\ 1..2 = {1, 2}
    BY <1>1, <1>2
  <2>2. CASE c.threads < 2
    <3>1. ChunksOf(c) = << <<2, 1>> >>
      BY <1>2, <2>2 DEF ChunksOf
    <3>2. DOMAIN << <<2, 1>> >> = {1} /\ << <<2, 1>> >>[1] = <<2, 1>> /\ Range(<<2, 1>>) = {1, 2}
      BY DEF Range
    <3>3. Once(<<2, 1>>)
      BY DEF Once
    <3>4. << <<2, 1>> >> \in Seq(Seq({1, 2}))
      OBVIOUS
    <3> QED  BY <2>1, <3>1, <3>2, <3>3, <3>4
  <2>3. CASE ~(c.threads < 2)
    <3>1. ChunksOf(c) = << <<1>>, <<2>> >>
      BY <1>2, <2>3 DEF ChunksOf
    <3>2. /\ DOMAIN << <<1>>, <<2>> >> = {1, 2} /\ << <<1>>, <<2>> >>[1] = <<1>>
          /\ << <<1>>, <<2>> >>[2] = <<2>> /\ Range(<<1>>) = {1} /\ Range(<<2>>) = {2}
      BY DEF Range
    <3>3. Once(<<1>>) /\ Once(<<2>>)
      BY DEF Once
    <3>4. << <<1>>, <<2>> >> \in Seq(Seq({1, 2}))
      OBVIOUS
    <3> QED  BY <2>1, <3>1, <3>2, <3>3, <3>4
  <2> QED  BY <2>2, <2>3
<1>3. CASE c.op # "join" /\ (c.threads < 2 \/ c.items < 2)
  <2>1. PICK all : all = [i \in 1..c.items |-> i]
    OBVIOUS
  <2>2. ChunksOf(c) = <<all>>
    BY <1>3, <2>1 DEF ChunksOf
  <2>3. DOMAIN <<all>> = {1} /\ <<all>>[1] = all
    OBVIOUS
  <2>4. all \in Seq(1..c.items) /\ Once(all) /\ Range(all) = 1..c.items
    <3>1. DOMAIN all = 1..c.items /\ \A i \in 1..c.items : all[i] = i
      BY <2>1
    <3>2. all \in [1..c.items -> 1..c.items]
      BY <2>1
    <3>3. all \in Seq(1..c.items)
      BY <1>1, <3>2, SeqDef
    <3> QED  BY <3>1, <3>3 DEF Once, Range
  <2>5. <<all>> \in Seq(Seq(1..c.items))
    BY <2>4
  <2>6. PICK cut : cut = ChunksOf(c)
    OBVIOUS
  <2>7. DOMAIN cut = {1} /\ cut[1] = all /\ cut \in Seq(Seq(1..c.items))
    BY <2>2, <2>3, <2>5, <2>6, Zenon
  <2>8. /\ \A k \in DOMAIN cut : Once(cut[k])
        /\ \A i : \A k, l \in DOMAIN cut : i \in Range(cut[k]) /\ i \in Range(cut[l]) => k = l
        /\ \A i \in 1..c.items : \E k \in DOMAIN cut : i \in Range(cut[k])
    BY <2>4, <2>7
  <2> QED  BY <1>3, <2>6, <2>7, <2>8, Zenon
<1>4. CASE c.op # "join" /\ ~(c.threads < 2 \/ c.items < 2)
  <2>1. PICK n \in Nat : n = Min({c.threads, c.items}) /\ n >= 2
    BY <1>1, <1>4, LesserOf
  <2>2. PICK per \in Nat \ {0} : per = Per(c)
    <3>1. Per(c) = (c.items + n - 1) \div n
      BY <2>1 DEF Per
    <3>2. (c.items + n - 1) \div n \in Nat /\ (c.items + n - 1) \div n # 0
      <4>1. c.items + n - 1 \in Nat /\ n \in Nat \ {0} /\ c.items + n - 1 >= n
        BY <1>1, <1>4, <2>1
      <4>2. PICK q \in Nat : /\ q = (c.items + n - 1) \div n
                             /\ c.items + n - 1 < q * n + n
        BY <4>1, Quotient
      <4>3. q # 0
        BY <4>1, <4>2
      <4> QED  BY <4>2, <4>3
    <3> QED  BY <3>1, <3>2
  <2>3. ChunksOf(c) = CutUp(c.items, per)
    BY <1>4, <2>2, Zenon DEF ChunksOf, CutUp
  <2>4. c.items \in Nat \ {0}
    BY <1>1, <1>4
  <2>5. PICK cut : cut = ChunksOf(c)
    OBVIOUS
  <2>6. /\ cut \in Seq(Seq(1..c.items))
        /\ \A k \in DOMAIN cut : Once(cut[k])
        /\ \A i : \A k, l \in DOMAIN cut : i \in Range(cut[k]) /\ i \in Range(cut[l]) => k = l
        /\ \A i \in 1..c.items : \E k \in DOMAIN cut : i \in Range(cut[k])
    BY ONLY <2>3, <2>4, <2>5, per \in Nat \ {0}, CutOnce
  <2> QED  BY <1>4, <2>5, <2>6, Zenon
<1> QED  BY <1>2, <1>3, <1>4

LEMMA InitHolds ==
    ASSUME CallsMeant, Init
    PROVE  WorkInv
<1>1. /\ call \in Calls /\ chunks = ChunksOf(call) /\ threads = {} /\ here = <<>>
      /\ ran = [i \in Items |-> 0] /\ beside = FALSE /\ panicked = FALSE /\ returned = FALSE
  BY DEF Init, InitOf, Items
<1>2. /\ chunks \in Seq(Seq(Items)) /\ \A k \in DOMAIN chunks : Once(chunks[k])
      /\ \A i : \A k, l \in DOMAIN chunks : InChunk(k, i) /\ InChunk(l, i) => k = l
      /\ \A i \in Items : \E k \in DOMAIN chunks : InChunk(k, i)
      /\ call.op = "join" => chunks \in { << <<2, 1>> >>, << <<1>>, <<2>> >> }
  BY <1>1, ChunksAreACut DEF InChunk, Items
<1>3. Typed
  <2>1. <<>> \in Seq(Items) /\ {} \subseteq Seq(Items) /\ [i \in Items |-> 0] \in [Items -> {0, 1}]
    BY EmptySeq
  <2> QED  BY <1>1, <1>2, <2>1 DEF Typed
<1>4. EachOnce /\ Apart
  BY <1>1, <1>2 DEF EachOnce, Apart, IsHere, InThread, Once, Range
<1>5. Accounted /\ Ended
  BY <1>1, <1>2 DEF Accounted, Ended, Left
<1>6. InTurn
  <2> SUFFICES ASSUME call.op = "join" PROVE InTurn
    BY DEF InTurn
  <2>1. 1 \in Items
    BY <1>1 DEF CallsMeant, Items
  <2> QED  BY <1>1, <1>2, <2>1 DEF InTurn
<1> QED  BY <1>3, <1>4, <1>5, <1>6 DEF WorkInv

-----------------------------------------------------------------------------
(* The theorem.                                                            *)

LEMMA StutterKeeps ==
    ASSUME WorkInv, UNCHANGED vars
    PROVE  WorkInv'
<1>1. Typed' /\ EachOnce'
  BY DEF vars, WorkInv, Typed, EachOnce, Items
<1>2. Apart' /\ Accounted'
  BY DEF vars, WorkInv, Apart, Accounted, Left, InChunk, InThread, IsHere, PanicRan, Items
<1>3. Ended' /\ InTurn'
  BY DEF vars, WorkInv, Ended, InTurn, PanicRan
<1> QED  BY <1>1, <1>2, <1>3 DEF WorkInv

\* Nothing is worked on twice, and nothing is lost but to a panic.
THEOREM Invariance == ASSUME CallsMeant PROVE Spec => []WorkInv
<1>1. Init => WorkInv
  BY InitHolds
<1>2. WorkInv /\ [Next]_vars => WorkInv'
  <2> SUFFICES ASSUME WorkInv, [Next]_vars PROVE WorkInv'
    OBVIOUS
  <2>1. CASE UNCHANGED vars
    BY <2>1, StutterKeeps
  <2>2. CASE Next
    BY <2>2, SpawnKeeps, SpawnFailsKeeps, RunLastKeeps, WorkKeeps, ThreadWorksKeeps, ReturnKeeps
       DEF Next, Items
  <2> QED  BY <2>1, <2>2
<1> QED  BY <1>1, <1>2, PTL DEF Spec

\* Every item is run once, whichever threads start, and no thread outlives the
\* call; one is left out only behind an item that panicked, and then the call
\* passes the panic on; the main half of join() does not wait for a side that
\* comes after it.
THEOREM RunOnce == ASSUME CallsMeant PROVE Spec => []PiecesRunOnce
<1>1. WorkInv => PiecesRunOnce
  BY InvariantRunsOnce
<1> QED  BY <1>1, Invariance, PTL

-----------------------------------------------------------------------------
(* How many pieces there are.                                              *)

\* pieces() cuts into at least one piece, and where it cuts at all into no more
\* than there are threads, none of them below `min`.
THEOREM PiecesFit ==
    ASSUME NEW total \in Nat, NEW min \in Nat, NEW n \in Nat
    PROVE  LET k == Pieces(total, min, n)
           IN  k \in Nat \ {0} /\ (k > 1 => k <= n /\ min * k <= total)
<1>1. CASE n < 2 \/ min = 0
  BY <1>1 DEF Pieces
<1>2. CASE n >= 2 /\ min # 0
  <2> DEFINE q == total \div min
  <2>1. q \in Nat /\ min * q <= total
    BY <1>2
  <2>2. PICK least \in {n, q} : least <= n /\ least <= q
    BY <1>2, <2>1
  <2> HIDE DEF q
  <2>3. least \in Nat /\ \A x \in {n, q} : least <= x
    BY <1>2, <2>1, <2>2
  <2>4. Min({n, q}) = least
    <3>1. \A l \in {n, q} : (\A x \in {n, q} : l <= x) => l = least
      BY <1>2, <2>1, <2>2, <2>3
    <3> QED  BY <2>2, <2>3, <3>1 DEF Min
  <2>5. PICK k \in {1, least} : 1 <= k /\ least <= k
    BY <2>3
  <2>6. Max({1, least}) = k
    <3>1. k \in {1, least} /\ \A y \in {1, least} : k >= y
      BY <2>3, <2>5
    <3>2. \A l \in {1, least} : (\A y \in {1, least} : l >= y) => l = k
      BY <2>3, <2>5
    <3> QED  BY <3>1, <3>2 DEF Max
  <2>7. Pieces(total, min, n) = k
    BY <1>2, <2>4, <2>6 DEF Pieces, q
  <2>8. k \in Nat \ {0} /\ (k > 1 => k <= n /\ k <= q)
    BY <2>2, <2>3, <2>5
  <2>9. k <= q => min * k <= min * q
    <3>1. SUFFICES ASSUME k <= q PROVE min * k <= min * q
      OBVIOUS
    <3>2. PICK d \in Nat : q = k + d
      <4>1. q - k \in Nat /\ q = k + (q - k)
        BY <3>1, <2>1, <2>8
      <4> QED  BY <4>1
    <3>3. min * q = min * k + min * d
      BY <3>2, <2>8
    <3>4. min * k \in Nat /\ min * d \in Nat
      BY <2>8, <3>2
    <3> QED  BY <3>3, <3>4
  <2>10. min * k \in Nat /\ min * q \in Nat
    BY <2>1, <2>8
  <2> QED  BY <2>1, <2>7, <2>8, <2>9, <2>10
<1> QED  BY <1>1, <1>2
=============================================================================
