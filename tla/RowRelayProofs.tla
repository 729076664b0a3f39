--------------------------- MODULE RowRelayProofs ---------------------------
(***************************************************************************)
(* What Relay promises, proved for any number of steps, buffers and passes *)
(* and any thread count.                                                   *)
(*                                                                         *)
(* Numbering the passes turns order and completeness into arithmetic: what *)
(* is in a channel are the passes after the last one its receiver has seen *)
(* (Reached) up to the last one its sender has handed on (Into), as long   *)
(* as there is a receiver, and a thread leaves only when there is nothing  *)
(* to come or when it, or one after it, has said no or panicked.           *)
(*                                                                         *)
(* Then, that a lossy frame decoded through the relay comes to what it     *)
(* comes to on one thread, for every number of rows and buffers, wherever  *)
(* the partitions run dry, whichever schedule is taken and whichever       *)
(* threads cannot be started.                                              *)
(*                                                                         *)
(* A step of the decode is one of Relay, or leaves it alone, so the        *)
(* invariant of Relay holds throughout.  On top of it:                     *)
(*                                                                         *)
(*   the producer passes row after row, none below the first it finds dry; *)
(*   a step that parses sees the first dry row and none after it;          *)
(*   the rows reconstructed are those the last step has handed on or, when *)
(*   the producer reconstructs, those that came back to it;                *)
(*   and the producer is only turned away once a row was found dry.        *)
(***************************************************************************)
EXTENDS RowRelay, SequenceTheorems, TLAPS


\* The last pass step k has seen, and the last it has handed on.
Reached(k) == B + Len(seen[k])
Sent(k)    == IF at[k] = "working" \/ k \in panicked THEN Reached(k) - 1 ELSE Reached(k)

\* The last pass that went into channel k.
Into(k) == IF k = 1 THEN entered ELSE Sent(k - 1)

\* Channels hold runs of passes.
Flow ==
    /\ \A k \in Step : receiver[k] => /\ Reached(k) <= Into(k)
                                      /\ chan[k] = Run(Reached(k), Into(k))
    /\ Len(back) <= Into(Idle)
    /\ chan[Idle] = Run(Len(back), Into(Idle))

\* A step at work, or one that panicked at it, has seen its buffer last.
Hands ==
    \A k \in Step :
        /\ at[k] \in {"waiting", "working"} => k \notin panicked
        /\ at[k] = "working" => hand[k] = Reached(k)
        /\ at[k] = "working" \/ k \in panicked => seen[k] # <<>>

\* A thread holds its ends of the channels until it is gone.
Ends ==
    /\ \A k \in Step :
           /\ at[k] \in {"waiting", "working", "leaving"} => receiver[k] /\ sender[k + 1]
           /\ at[k] = "gone" => ~receiver[k]
           /\ ~sender[k + 1] => at[k] \in {"none", "gone"}
           /\ call = "spawn" /\ at[k] = "none" => receiver[k] /\ sender[k + 1]
    /\ receiver[Idle]

\* Only what enters is seen, and whatever is passed enters until the end.
Passes ==
    /\ B <= entered /\ entered <= passed
    /\ \A k \in Step : Reached(k) <= entered
    /\ route = "across" /\ sender[1] /\ receiver[1] => entered = passed
    /\ route = "here" /\ more /\ call # "raised" => entered = passed

\* Nothing moves before the producer runs.
Unproduced ==
    call = "spawn" \/ (call = "join" /\ Started # Step) =>
        /\ passed = B /\ entered = B
        /\ back = <<>> /\ panicked = {}
        /\ \A k \in Step : seen[k] = <<>>

\* Where the threads are at each place of the calling one.
Stages ==
    /\ route = "across" => more
    /\ route = "across" /\ call \in {"produce", "take", "returned"} => Started = Step
    /\ route = "across" /\ call = "returned" =>
           panicked = {} /\ \A k \in Step : at[k] = "gone"
    /\ route = "across" /\ call = "raised" => \A k \in Step : at[k] \in {"none", "gone"}
    /\ route = "here" =>
           /\ call \in {"produce", "take", "returned", "raised"}
           /\ \A k \in Step : at[k] \in {"none", "gone"}
           /\ call # "raised" => panicked = {} /\ \A k \in Step : Reached(k) = entered

\* Why a thread leaves.
Left ==
    route = "across" =>
        \A k \in Step : at[k] \in {"leaving", "gone"} =>
            \/ \E j \in k..N : j \in ended \cup panicked
            \/ ~sender[k] /\ Reached(k) = Into(k)

Inv == TypeOK /\ InOrder /\ Flow /\ Hands /\ Ends /\ Passes /\ Unproduced /\ Stages /\ Left

-----------------------------------------------------------------------------
(* Runs of passes.                                                         *)

LEMMA RunIsSeq ==
    ASSUME NEW a \in Nat, NEW b \in Nat, a <= b
    PROVE  /\ Run(a, b) \in Seq(Nat) /\ Len(Run(a, b)) = b - a
           /\ \A i \in 1..b - a : Run(a, b)[i] = a + i
<1>1. b - a \in Nat
  OBVIOUS
<1>2. \A i \in 1..b - a : a + i \in Nat
  OBVIOUS
<1> QED  BY <1>1, <1>2 DEF Run

LEMMA SameRun ==
    ASSUME NEW a \in Nat, NEW b \in Nat, a <= b, NEW s \in Seq(Nat),
           Len(s) = b - a, \A i \in 1..b - a : s[i] = a + i
    PROVE  s = Run(a, b)
<1>1. s = [i \in 1..Len(s) |-> s[i]]
  OBVIOUS
<1> QED  BY <1>1 DEF Run

LEMMA RunGrows ==
    ASSUME NEW a \in Nat, NEW b \in Nat, a <= b
    PROVE  Append(Run(a, b), b + 1) = Run(a, b + 1)
<1> DEFINE s == Run(a, b)
           t == Append(s, b + 1)
<1>1. /\ s \in Seq(Nat) /\ Len(s) = b - a
      /\ \A i \in 1..b - a : s[i] = a + i
  BY RunIsSeq
<1> HIDE DEF s
<1>2. /\ t \in Seq(Nat) /\ Len(t) = b - a + 1
      /\ \A i \in 1..b - a : t[i] = s[i]
      /\ t[b - a + 1] = b + 1
  BY <1>1, AppendProperties
<1> HIDE DEF t
<1>3. \A i \in 1..(b + 1) - a : t[i] = a + i
  <2> SUFFICES ASSUME NEW i \in 1..(b + 1) - a
               PROVE  t[i] = a + i
    OBVIOUS
  <2>1. i \in 1..b - a \/ i = b - a + 1
    OBVIOUS
  <2>2. CASE i \in 1..b - a
    BY <2>2, <1>1, <1>2
  <2>3. CASE i = b - a + 1
    BY <2>3, <1>2
  <2> QED  BY <2>1, <2>2, <2>3
<1>4. t = Run(a, b + 1)
  BY <1>2, <1>3, SameRun
<1> QED  BY <1>4 DEF t, s

LEMMA RunShrinks ==
    ASSUME NEW a \in Nat, NEW b \in Nat, a <= b, Run(a, b) # <<>>
    PROVE  a < b /\ Head(Run(a, b)) = a + 1 /\ Tail(Run(a, b)) = Run(a + 1, b)
<1> DEFINE s == Run(a, b)
           t == Tail(s)
<1>1. /\ s \in Seq(Nat) /\ Len(s) = b - a
      /\ \A i \in 1..b - a : s[i] = a + i
  BY RunIsSeq
<1>2. s # <<>>
  OBVIOUS
<1> HIDE DEF s
<1>3. a < b /\ Head(s) = a + 1
  BY <1>1, <1>2
<1>4. /\ t \in Seq(Nat) /\ Len(t) = b - a - 1
      /\ \A i \in 1..b - a - 1 : t[i] = s[i + 1]
  BY <1>1, <1>2, HeadTailProperties
<1> HIDE DEF t
<1>5. \A i \in 1..b - (a + 1) : t[i] = a + 1 + i
  BY <1>1, <1>4
<1>6. t = Run(a + 1, b)
  BY <1>3, <1>4, <1>5, SameRun
<1> QED  BY <1>3, <1>6 DEF t, s

LEMMA EmptyRun ==
    ASSUME NEW a \in Nat
    PROVE  Run(a, a) = <<>>
<1>1. Run(a, a) \in Seq(Nat) /\ Len(Run(a, a)) = a - a
  BY RunIsSeq
<1> QED  BY <1>1, EmptySeq

LEMMA EmptyRunEnds ==
    ASSUME NEW a \in Nat, NEW b \in Nat, a <= b, Run(a, b) = <<>>
    PROVE  a = b
BY RunIsSeq

-----------------------------------------------------------------------------
(* The invariant holds at first.                                           *)

LEMMA Numbers ==
    ASSUME TypeOK
    PROVE  /\ B \in Nat /\ N \in Nat \ {0} /\ Idle = N + 1
           /\ \A k \in Step : /\ Len(seen[k]) \in Nat /\ Reached(k) \in Nat
                              /\ Sent(k) \in Int /\ Sent(k) <= Reached(k)
           /\ \A k \in Channel : Into(k) \in Int
           /\ Len(back) \in Nat
<1>1. \A k \in Step : Len(seen[k]) \in Nat /\ Reached(k) \in Nat
  BY BAssumption DEF TypeOK, Reached
<1>2. \A k \in Step : Sent(k) \in Int /\ Sent(k) <= Reached(k)
  BY <1>1 DEF Sent
<1>3. \A k \in Channel : k # 1 => k - 1 \in Step
  BY NAssumption DEF Channel, Step
<1>4. \A k \in Channel : Into(k) \in Int
  BY <1>2, <1>3 DEF Into, TypeOK
<1> QED  BY <1>1, <1>2, <1>4, BAssumption, NAssumption DEF TypeOK, Idle

LEMMA InitInv == Init => Inv
<1> SUFFICES ASSUME Init
             PROVE  Inv
  OBVIOUS
<1> USE DEF Init, Step, Channel, Idle
<1>1. /\ B \in Nat \ {0} /\ N \in Nat \ {0} /\ Len(<<>>) = 0
      /\ [i \in 1..B |-> i] \in Seq(Nat) /\ <<>> \in Seq(Nat)
  BY BAssumption, NAssumption
<1>2. \A k \in Step : Reached(k) = B /\ Sent(k) = B
  BY <1>1 DEF Reached, Sent
<1>3. \A k \in Channel : Into(k) = B
  <2> SUFFICES ASSUME NEW k \in Channel, k # 1
               PROVE  Into(k) = B
    BY <1>1 DEF Into
  <2>1. k - 1 \in Step
    BY <1>1
  <2> QED  BY <2>1, <1>2 DEF Into
<1>4. [i \in 1..B |-> i] = Run(0, B)
  <2>1. B - 0 = B /\ \A i \in 1..B : 0 + i = i
    BY <1>1
  <2> QED  BY <2>1 DEF Run
<1>5. Run(B, B) = <<>> /\ Run(0, 0) = <<>>
  BY <1>1, EmptyRun
<1>6. TypeOK
  <2>1. chan \in [Channel -> Seq(Nat)]
    BY <1>1
  <2>2. Held = 0
    BY <1>1 DEF Held
  <2> QED  BY <2>1, <2>2, <1>1 DEF TypeOK, Places, Calls, None
<1>7. InOrder
  BY <1>1, <1>5 DEF InOrder
<1>8. Flow
  <2>1. \A k \in Step : k \in Channel /\ k # Idle
    BY <1>1
  <2>2. Idle \in Channel
    BY <1>1
  <2>3. \A k \in Step : chan[k] = <<>> /\ Reached(k) = B /\ Into(k) = B
    <3> SUFFICES ASSUME NEW k \in Step
                 PROVE  chan[k] = <<>> /\ Reached(k) = B /\ Into(k) = B
      OBVIOUS
    <3>1. k \in Channel /\ k # Idle
      BY <2>1
    <3> QED  BY <3>1, <1>2, <1>3
  <2>4. \A k \in Step : Reached(k) <= Into(k) /\ chan[k] = Run(Reached(k), Into(k))
    <3> SUFFICES ASSUME NEW k \in Step
                 PROVE  Reached(k) <= Into(k) /\ chan[k] = Run(Reached(k), Into(k))
      OBVIOUS
    <3> HIDE DEF Init, Step, Channel, Idle
    <3>1. Reached(k) = B /\ Into(k) = B /\ chan[k] = <<>>
      BY <2>3
    <3>2. Run(Reached(k), Into(k)) = <<>>
      BY <3>1, <1>5, Zenon
    <3> QED  BY <3>1, <3>2, <1>1
  <2>5. chan[Idle] = [i \in 1..B |-> i] /\ Len(back) = 0 /\ Into(Idle) = B
    <3>1. chan[Idle] = [i \in 1..B |-> i]
      BY <2>2
    <3>2. Len(back) = 0
      BY <1>1
    <3>3. Into(Idle) = B
      BY <2>2, <1>3
    <3> QED  BY <3>1, <3>2, <3>3
  <2>6. Len(back) <= Into(Idle) /\ chan[Idle] = Run(Len(back), Into(Idle))
    BY <2>5, <1>1, <1>4
  <2> HIDE DEF Init, Step, Channel, Idle
  <2> QED  BY <2>4, <2>6 DEF Flow
<1>9. Hands /\ Ends
  <2>1. \A k \in Step : k \in Channel /\ k + 1 \in Channel
    BY <1>1
  <2>2. Idle \in Channel
    BY <1>1
  <2> QED  BY <2>1, <2>2 DEF Hands, Ends
<1>10. Passes
  BY <1>1, <1>2 DEF Passes
<1>11. Unproduced /\ Stages /\ Left
  BY <1>1, <1>2 DEF Unproduced, Stages, Left, Started
<1> QED  BY <1>6, <1>7, <1>8, <1>9, <1>10, <1>11 DEF Inv

-----------------------------------------------------------------------------
(* Every step keeps it.                                                    *)

\* The actions, one by one.
LEMMA Actions ==
    ASSUME Next
    PROVE  \/ StartTake \/ PassAcross \/ PassHereRefused \/ Finish
           \/ \E noes \in SUBSET Step : PassHere(noes)
           \/ \E k \in Step : PassHerePanics(k)
           \/ \E k \in Step : Spawn(k)
           \/ \E k \in Step : SpawnFails(k)
           \/ Take \/ TakeNone \/ Produced \/ Joined
           \/ \E k \in Step : Receive(k)
           \/ \E k \in Step : Disconnected(k)
           \/ \E k \in Step, wants \in BOOLEAN : End(k, wants)
           \/ \E k \in Step : Panic(k)
           \/ \E k \in Step : Leave(k)
           \/ Over
BY DEF Next, Producer, Caller, StepThread

\* A thread's step leaves it among those started.
LEMMA ThreadStays ==
    ASSUME TypeOK, NEW k \in Step,
           \/ Receive(k) \/ Disconnected(k) \/ (\E wants \in BOOLEAN : End(k, wants))
           \/ Panic(k) \/ Leave(k)
    PROVE  /\ at[k] \in {"waiting", "working", "leaving"}
           /\ at'[k] \in {"waiting", "working", "leaving", "gone"}
           /\ \A j \in Step : j # k => at'[j] = at[j]
           /\ Started' = Started
           /\ call' = call /\ route' = route /\ more' = more /\ refused' = refused
           /\ passed' = passed /\ entered' = entered /\ back' = back
<1> USE DEF TypeOK, routeVars, chanVars, threadVars, historyVars
<1>1. /\ at[k] \in {"waiting", "working", "leaving"}
      /\ call' = call /\ route' = route /\ more' = more /\ refused' = refused
      /\ passed' = passed /\ entered' = entered /\ back' = back
  BY DEF Receive, Disconnected, End, Panic, Leave
<1>2. \E p \in {"waiting", "working", "leaving", "gone"} : at' = [at EXCEPT ![k] = p]
  BY DEF Receive, Disconnected, End, Panic, Leave
<1>3. /\ at'[k] \in {"waiting", "working", "leaving", "gone"}
      /\ \A j \in Step : j # k => at'[j] = at[j]
  BY <1>2
<1>4. Started' = Started
  BY <1>1, <1>3 DEF Started
<1> QED  BY <1>1, <1>3, <1>4

LEMMA StagesKept ==
    ASSUME Inv, Next
    PROVE  Stages'
<1> USE DEF Inv, Stages, routeVars, chanVars, threadVars, historyVars
<1>1. CASE StartTake \/ PassAcross \/ PassHereRefused \/ Finish \/ Take \/ TakeNone
  <2>1. seen' = seen /\ at' = at /\ panicked' = panicked /\ route' = route
    BY <1>1 DEF StartTake, PassAcross, PassHereRefused, Finish, Take, TakeNone
  <2>2. /\ call \in {"produce", "take"} /\ call' \in {"produce", "take"}
        /\ (route = "here" => entered' = entered) /\ (route = "across" => more' = more)
    BY <1>1 DEF StartTake, PassAcross, PassHereRefused, Finish, Take, TakeNone
  <2> QED  BY <2>1, <2>2 DEF Started, Reached
<1>2. ASSUME NEW noes \in SUBSET Step, PassHere(noes)
      PROVE  Stages'
  <2>1. entered' = entered + 1 /\ entered \in Nat
    BY <1>2 DEF PassHere, Passes, Next1, TypeOK
  <2>2. \A k \in Step : Reached(k)' = Reached(k) + 1
    <3> SUFFICES ASSUME NEW k \in Step
                 PROVE  Reached(k)' = Reached(k) + 1
      OBVIOUS
    <3>1. seen'[k] = Append(seen[k], Next1) /\ seen[k] \in Seq(Nat) /\ Next1 \in Nat
      BY <1>2 DEF PassHere, TypeOK, Next1
    <3>2. Len(seen'[k]) = Len(seen[k]) + 1 /\ Len(seen[k]) \in Nat
      BY <3>1
    <3> QED  BY <3>2, BAssumption DEF Reached
  <2> QED  BY <1>2, <2>1, <2>2 DEF PassHere
<1>3. CASE \E k \in Step : PassHerePanics(k)
  BY <1>3 DEF PassHerePanics
<1>4. ASSUME NEW k \in Step, Spawn(k)
      PROVE  Stages'
  <2>1. k = N => Started' = Step
    BY <1>4, NAssumption DEF Spawn, Started, Step, TypeOK
  <2> QED  BY <1>4, <2>1 DEF Spawn
<1>5. CASE \E k \in Step : SpawnFails(k)
  BY <1>5 DEF SpawnFails
<1>6. CASE Produced
  BY <1>6 DEF Produced, Started, Reached
<1>7. CASE Joined
  <2>1. CASE call' = "produce"
    <3>1. panicked = {} /\ Started # Step /\ call = "join"
      BY <1>7, <2>1 DEF Joined
    <3>2. \A k \in Step : seen[k] = <<>> /\ entered = B
      BY <3>1 DEF Unproduced
    <3>3. \A k \in Step : Reached(k)' = entered'
      BY <3>2, <1>7, BAssumption DEF Joined, Reached
    <3>4. \A k \in Step : at[k] \in {"none", "gone"}
      BY <1>7 DEF Joined, Started
    <3> QED  BY <3>1, <3>3, <3>4, <2>1, <1>7 DEF Joined
  <2>2. CASE call' # "produce"
    BY <1>7, <2>2 DEF Joined, Started
  <2> QED  BY <2>1, <2>2
<1>8. ASSUME NEW k \in Step,
             \/ Receive(k) \/ Disconnected(k) \/ (\E wants \in BOOLEAN : End(k, wants))
             \/ Panic(k) \/ Leave(k)
      PROVE  Stages'
  BY <1>8, ThreadStays
<1>9. CASE Over
  BY <1>9 DEF Over, vars, Started, Reached
<1> QED  BY <1>1, <1>2, <1>3, <1>4, <1>5, <1>6, <1>7, <1>8, <1>9, Actions

\* A step receives the pass after the last one it has seen.
LEMMA ReceivesNext ==
    ASSUME Inv, NEW k \in Step, Receive(k)
    PROVE  /\ receiver[k] /\ Reached(k) \in Nat /\ Into(k) \in Nat
           /\ Reached(k) < Into(k)
           /\ hand'[k] = Reached(k) + 1
           /\ seen'[k] = Append(seen[k], Reached(k) + 1)
           /\ Reached(k)' = Reached(k) + 1
           /\ chan'[k] = Run(Reached(k) + 1, Into(k))
           /\ \A j \in Step : j # k => seen'[j] = seen[j] /\ Reached(j)' = Reached(j)
<1> USE DEF Inv
<1>1. receiver[k] /\ chan[k] # <<>>
  BY DEF Receive, Ends
<1>2. /\ Reached(k) \in Nat /\ Into(k) \in Int /\ Reached(k) <= Into(k)
      /\ chan[k] = Run(Reached(k), Into(k))
  <2>1. k \in Channel
    BY NAssumption DEF Step, Channel
  <2> QED  BY <2>1, <1>1, Numbers DEF Flow
<1>3. Into(k) \in Nat
  BY <1>2
<1>4. /\ Reached(k) < Into(k) /\ Head(chan[k]) = Reached(k) + 1
      /\ Tail(chan[k]) = Run(Reached(k) + 1, Into(k))
  BY <1>1, <1>2, <1>3, RunShrinks
<1>5. /\ hand'[k] = Head(chan[k]) /\ seen'[k] = Append(seen[k], Head(chan[k]))
      /\ chan'[k] = Tail(chan[k])
      /\ \A j \in Step : j # k => seen'[j] = seen[j]
  <2>1. k \in Channel
    BY NAssumption DEF Step, Channel
  <2> QED  BY <2>1 DEF Receive, TypeOK
<1>6. Len(seen'[k]) = Len(seen[k]) + 1
  <2>1. seen[k] \in Seq(Nat) /\ Reached(k) + 1 \in Nat
    BY <1>2 DEF TypeOK
  <2> QED  BY <2>1, <1>4, <1>5
<1>7. Reached(k)' = Reached(k) + 1
  BY <1>6, Numbers DEF Reached
<1>8. \A j \in Step : j # k => Reached(j)' = Reached(j)
  BY <1>5 DEF Reached
<1> QED  BY <1>1, <1>2, <1>3, <1>4, <1>5, <1>7, <1>8

LEMMA HandsKept ==
    ASSUME Inv, Next
    PROVE  Hands'
<1> USE DEF Inv, Hands, routeVars, chanVars, threadVars, historyVars
<1>1. CASE \/ StartTake \/ PassAcross \/ PassHereRefused \/ Finish \/ Take \/ TakeNone
           \/ Produced \/ Joined \/ (\E k \in Step : SpawnFails(k)) \/ Over
  <2>1. seen' = seen /\ at' = at /\ hand' = hand /\ panicked' = panicked
    BY <1>1 DEF StartTake, PassAcross, PassHereRefused, Finish, Take, TakeNone, Produced,
                Joined, SpawnFails, Over, vars
  <2> QED  BY <2>1 DEF Reached
<1>2. CASE \/ \E noes \in SUBSET Step : PassHere(noes)
           \/ \E k \in Step : PassHerePanics(k)
  <2>1. \A k \in Step : at'[k] \in {"none", "gone"}
    BY <1>2 DEF PassHere, PassHerePanics, Stages
  <2>2. \A k \in Step : k \in panicked' => seen'[k] # <<>>
    <3> SUFFICES ASSUME NEW k \in Step, k \in panicked'
                 PROVE  seen'[k] # <<>>
      OBVIOUS
    <3>1. seen[k] \in Seq(Nat) /\ Next1 \in Nat
      BY DEF TypeOK, Next1
    <3>2. Append(seen[k], Next1) # <<>>
      BY <3>1
    <3>3. seen'[k] = Append(seen[k], Next1) \/ (k \in panicked /\ seen'[k] = seen[k])
      <4>1. CASE \E noes \in SUBSET Step : PassHere(noes)
        BY <4>1 DEF PassHere
      <4>2. ASSUME NEW p \in Step, PassHerePanics(p)
            PROVE  seen'[k] = Append(seen[k], Next1) \/ (k \in panicked /\ seen'[k] = seen[k])
        <5>1. k \in panicked \/ k <= p
          BY <4>2 DEF PassHerePanics, Step
        <5>2. seen'[k] = IF k <= p THEN Append(seen[k], Next1) ELSE seen[k]
          BY <4>2 DEF PassHerePanics
        <5> QED  BY <5>1, <5>2
      <4> QED  BY <1>2, <4>1, <4>2
    <3> QED  BY <3>2, <3>3
  <2> QED  BY <2>1, <2>2
<1>3. ASSUME NEW k \in Step, Spawn(k)
      PROVE  Hands'
  <2>1. panicked' = {} /\ seen' = seen /\ hand' = hand
    BY <1>3 DEF Spawn, Unproduced
  <2>2. \A j \in Step : at'[j] = "working" => at[j] = "working"
    BY <1>3 DEF Spawn, TypeOK
  <2> QED  BY <2>1, <2>2 DEF Reached
<1>4. ASSUME NEW k \in Step, Receive(k)
      PROVE  Hands'
  <2>1. /\ hand'[k] = Reached(k)' /\ seen'[k] = Append(seen[k], Reached(k) + 1)
        /\ \A j \in Step : j # k => seen'[j] = seen[j] /\ Reached(j)' = Reached(j)
    BY <1>4, ReceivesNext
  <2>2. seen'[k] # <<>>
    <3>1. seen[k] \in Seq(Nat) /\ Reached(k) + 1 \in Nat
      BY <1>4, ReceivesNext DEF TypeOK
    <3> QED  BY <2>1, <3>1
  <2>3. /\ \A j \in Step : j # k => at'[j] = at[j] /\ hand'[j] = hand[j]
        /\ panicked' = panicked /\ k \notin panicked
    BY <1>4 DEF Receive, TypeOK
  <2> QED  BY <2>1, <2>2, <2>3
<1>5. ASSUME NEW k \in Step,
             \/ Disconnected(k) \/ (\E wants \in BOOLEAN : End(k, wants))
             \/ Panic(k) \/ Leave(k)
      PROVE  Hands'
  <2>1. /\ at'[k] \in {"waiting", "leaving", "gone"} /\ seen' = seen
        /\ at'[k] = "waiting" => at[k] = "working" /\ panicked' = panicked
        /\ \A j \in Step : j # k => at'[j] = at[j] /\ hand'[j] = hand[j]
        /\ panicked' \subseteq panicked \cup {k}
        /\ k \in panicked' => k \in panicked \/ at[k] = "working"
    BY <1>5 DEF Disconnected, End, Panic, Leave, TypeOK
  <2> QED  BY <2>1 DEF Reached
<1> QED  BY <1>1, <1>2, <1>3, <1>4, <1>5, Actions

LEMMA EndsKept ==
    ASSUME Inv, Next
    PROVE  Ends'
<1> USE DEF Inv, routeVars, chanVars, threadVars, historyVars
<1>1. \A k \in Step : k \in Channel /\ k + 1 \in Channel /\ k # Idle /\ k + 1 # 1 /\ 1 \in Step
  BY NAssumption DEF Step, Channel, Idle
<1>2. CASE \/ StartTake \/ PassAcross \/ PassHereRefused \/ Take \/ TakeNone
           \/ (\E noes \in SUBSET Step : PassHere(noes))
           \/ (\E k \in Step : PassHerePanics(k))
           \/ Joined \/ Over
  <2>1. /\ at' = at /\ sender' = sender /\ receiver' = receiver
        /\ call' = "spawn" => call = "spawn"
    BY <1>2 DEF StartTake, PassAcross, PassHereRefused, Take, TakeNone, PassHere,
                PassHerePanics, Joined, Over, vars
  <2> QED  BY <2>1 DEF Ends
<1>3. CASE Finish \/ Produced
  <2>1. /\ at' = at /\ receiver' = receiver /\ call' # "spawn"
        /\ \A k \in Step : sender'[k + 1] = sender[k + 1]
    BY <1>1, <1>3 DEF Finish, Produced, TypeOK
  <2> QED  BY <2>1 DEF Ends
<1>4. ASSUME NEW k \in Step, Spawn(k)
      PROVE  Ends'
  <2>1. /\ sender' = sender /\ receiver' = receiver /\ call = "spawn"
        /\ at[k] = "none" /\ at' = [at EXCEPT ![k] = "waiting"]
    BY <1>4 DEF Spawn, Started, Step, TypeOK
  <2>2. \A j \in Step : j # k => at'[j] = at[j]
    BY <2>1 DEF TypeOK
  <2>3. at'[k] = "waiting"
    BY <2>1 DEF TypeOK
  <2> QED  BY <2>1, <2>2, <2>3 DEF Ends
<1>5. ASSUME NEW k \in Step, SpawnFails(k)
      PROVE  Ends'
  <2>1. call' # "spawn" /\ at' = at /\ call = "spawn"
    BY <1>5 DEF SpawnFails
  <2>2. \A j \in Step : at[j] # "none" => j < k
    BY <1>5 DEF SpawnFails, Started, Step
  <2>3. receiver'[Idle] = receiver[Idle]
    <3>1. Idle \in Channel
      BY NAssumption DEF Channel, Idle
    <3>2. receiver'[Idle] <=> receiver[Idle] /\ (Idle < k \/ Idle = Idle)
      BY <3>1, <1>5 DEF SpawnFails
    <3>3. receiver[Idle]
      BY DEF Ends
    <3>4. receiver'[Idle] \in BOOLEAN
      BY <3>1, <1>5 DEF SpawnFails
    <3> QED  BY <3>2, <3>3, <3>4, Zenon
  <2>4. ASSUME NEW j \in Step, j < k
        PROVE  (receiver'[j] <=> receiver[j]) /\ (sender'[j + 1] <=> sender[j + 1])
    <3>2. /\ receiver'[j] <=> receiver[j] /\ (j < k \/ j = Idle)
          /\ sender'[j + 1] <=> sender[j + 1] /\ 1 < j + 1 /\ j + 1 <= k
      BY <1>1, <1>5 DEF SpawnFails
    <3>3. 1 < j + 1 /\ j + 1 <= k
      BY <2>4 DEF Step
    <3> QED  BY <3>2, <3>3, <2>4, Zenon
  <2>5. \A j \in Step : receiver'[j] => receiver[j]
    BY <1>1, <1>5 DEF SpawnFails
  <2>6. \A j \in Step : at[j] \in {"waiting", "working", "leaving", "gone"} => j < k
    BY <2>2
  <2>7. \A j \in Step : at'[j] = at[j]
    BY <2>1
  <2>8. \A j \in Step :
           /\ at'[j] \in {"waiting", "working", "leaving"} => receiver'[j] /\ sender'[j + 1]
           /\ at'[j] = "gone" => ~receiver'[j]
    BY <2>4, <2>5, <2>6, <2>7 DEF Ends
  <2>9. ASSUME NEW j \in Step, ~sender'[j + 1], at[j] \notin {"none", "gone"}
        PROVE  FALSE
    BY <2>4, <2>6, <2>9 DEF Ends, TypeOK, Places
  <2>10. receiver'[Idle]
    BY <2>3 DEF Ends
  <2> QED  BY <2>1, <2>7, <2>8, <2>9, <2>10 DEF Ends
<1>6. ASSUME NEW k \in Step,
             \/ Receive(k) \/ Disconnected(k) \/ (\E wants \in BOOLEAN : End(k, wants))
             \/ Panic(k)
      PROVE  Ends'
  <2>1. /\ sender' = sender /\ receiver' = receiver
        /\ at'[k] \in {"waiting", "working", "leaving"}
    BY <1>6 DEF Receive, Disconnected, End, Panic, TypeOK
  <2> QED  BY <2>1, <1>6, ThreadStays DEF Ends
<1>7. ASSUME NEW k \in Step, Leave(k)
      PROVE  Ends'
  <2>1. /\ at'[k] = "gone" /\ ~receiver'[k]
        /\ \A j \in Step : j # k => receiver'[j] = receiver[j] /\ sender'[j + 1] = sender[j + 1]
        /\ receiver'[Idle] = receiver[Idle]
    <3>1. k \in Channel /\ k + 1 \in Channel /\ k # Idle
      BY <1>1
    <3>2. \A j \in Step : j # k => j + 1 # k + 1
      BY DEF Step
    <3>3. /\ at'[k] = "gone" /\ ~receiver'[k]
          /\ receiver'[Idle] = receiver[Idle]
          /\ \A j \in Step : j # k => receiver'[j] = receiver[j]
      <4>1. Idle \in Channel
        BY NAssumption DEF Channel, Idle
      <4> QED  BY <3>1, <4>1, <1>1, <1>7 DEF Leave, TypeOK
    <3>4. \A j \in Step : j # k => sender'[j + 1] = sender[j + 1]
      BY <3>1, <3>2, <1>1, <1>7 DEF Leave, TypeOK
    <3> QED  BY <3>3, <3>4
  <2> QED  BY <2>1, <1>7, ThreadStays DEF Ends
<1> QED  BY <1>2, <1>3, <1>4, <1>5, <1>6, <1>7, Actions

LEMMA UnproducedKept ==
    ASSUME Inv, Next
    PROVE  Unproduced'
<1> USE DEF Inv, routeVars, chanVars, threadVars, historyVars
<1> SUFFICES ASSUME call' = "spawn" \/ (call' = "join" /\ Started' # Step)
             PROVE  /\ passed' = B /\ entered' = B
                    /\ back' = <<>> /\ panicked' = {}
                    /\ \A k \in Step : seen'[k] = <<>>
  BY DEF Unproduced
<1>1. CASE \/ StartTake \/ PassAcross \/ PassHereRefused \/ Finish \/ Take \/ TakeNone
           \/ (\E noes \in SUBSET Step : PassHere(noes))
           \/ (\E k \in Step : PassHerePanics(k))
  BY <1>1 DEF StartTake, PassAcross, PassHereRefused, Finish, Take, TakeNone, PassHere,
              PassHerePanics
<1>2. CASE Produced
  <2>1. route = "across" /\ Started = Step
    BY <1>2 DEF Produced, Stages, TypeOK
  <2>2. Started' = Started
    BY <1>2 DEF Produced, Started
  <2> QED  BY <2>1, <2>2, <1>2 DEF Produced
<1>3. CASE Joined
  BY <1>3 DEF Joined
<1>4. CASE \/ (\E k \in Step : Spawn(k)) \/ (\E k \in Step : SpawnFails(k)) \/ Over
  BY <1>4 DEF Spawn, SpawnFails, Over, vars, Unproduced, Started
<1>5. ASSUME NEW k \in Step,
             \/ Receive(k) \/ Disconnected(k) \/ (\E wants \in BOOLEAN : End(k, wants))
             \/ Panic(k) \/ Leave(k)
      PROVE  /\ passed' = B /\ entered' = B
             /\ back' = <<>> /\ panicked' = {}
             /\ \A j \in Step : seen'[j] = <<>>
  <2>1. /\ call = "spawn" \/ (call = "join" /\ Started # Step)
        /\ passed' = passed /\ entered' = entered /\ back' = back
    <3>1. call' = call /\ Started' = Started
      BY <1>5, ThreadStays
    <3> QED  BY <3>1, <1>5, ThreadStays
  <2>2. /\ passed = B /\ entered = B /\ back = <<>> /\ panicked = {}
        /\ \A j \in Step : seen[j] = <<>>
    BY <2>1 DEF Unproduced
  <2>3. ~Receive(k)
    <3> SUFFICES ASSUME Receive(k)
                 PROVE  FALSE
      OBVIOUS
    <3>1. Reached(k) < Into(k) /\ Reached(k) \in Nat /\ Into(k) \in Nat
      BY ReceivesNext
    <3>2. Reached(k) = B
      BY <2>2, BAssumption DEF Reached
    <3>3. Into(k) <= B
      <4>1. k = 1 \/ k - 1 \in Step
        BY NAssumption DEF Step
      <4>2. CASE k = 1
        BY <4>2, <2>2, BAssumption DEF Into
      <4>3. CASE k # 1 /\ k - 1 \in Step
        <5>1. Reached(k - 1) = B
          BY <4>3, <2>2, BAssumption DEF Reached
        <5>2. Sent(k - 1) <= B
          BY <5>1, BAssumption DEF Sent
        <5> QED  BY <4>3, <5>2 DEF Into
      <4> QED  BY <4>1, <4>2, <4>3
    <3> QED  BY <3>1, <3>2, <3>3
  <2>4. ~Panic(k)
    BY <2>2 DEF Panic, Hands
  <2> QED  BY <2>1, <2>2, <2>3, <2>4, <1>5 DEF Disconnected, End, Leave
<1> QED  BY <1>1, <1>2, <1>3, <1>4, <1>5, Actions

\* Nobody starts or stops working, and nothing is seen or enters.
LEMMA SameHands ==
    ASSUME seen' = seen, panicked' = panicked,
           \A k \in Step : at'[k] = "working" <=> at[k] = "working"
    PROVE  /\ \A k \in Step : Reached(k)' = Reached(k) /\ Sent(k)' = Sent(k)
           /\ \A k \in Channel : k # 1 => Into(k)' = Into(k)
           /\ entered' = entered => \A k \in Channel : Into(k)' = Into(k)
<1>1. \A k \in Step : Reached(k)' = Reached(k) /\ Sent(k)' = Sent(k)
  BY DEF Reached, Sent
<1>2. \A k \in Channel : k # 1 => k - 1 \in Step
  BY NAssumption DEF Channel, Step
<1> QED  BY <1>1, <1>2 DEF Into

\* A step that receives has handed on what it had, still.
LEMMA ReceiveSends ==
    ASSUME Inv, NEW k \in Step, Receive(k)
    PROVE  /\ \A j \in Step : Sent(j)' = Sent(j)
           /\ \A j \in Channel : Into(j)' = Into(j)
<1> USE DEF Inv
<1>1. \A j \in Step : j # k => at'[j] = at[j]
  BY ThreadStays
<1>2. panicked' = panicked /\ entered' = entered /\ k \notin panicked /\ at'[k] = "working"
      /\ at[k] = "waiting"
  BY DEF Receive, Hands, TypeOK
<1>3. Sent(k)' = Sent(k)
  BY <1>2, ReceivesNext DEF Sent
<1>4. \A j \in Step : j # k => Sent(j)' = Sent(j)
  BY <1>1, <1>2, ReceivesNext DEF Sent
<1>5. \A j \in Channel : j # 1 => j - 1 \in Step
  BY NAssumption DEF Channel, Step
<1> QED  BY <1>2, <1>3, <1>4, <1>5 DEF Into

\* A step that ends hands its buffer on, and one that panics does not.
LEMMA EndSends ==
    ASSUME Inv, NEW k \in Step, NEW wants \in BOOLEAN, End(k, wants)
    PROVE  /\ hand[k] = Reached(k) /\ Reached(k) = Into(k + 1) + 1
           /\ Into(k + 1)' = Reached(k)
           /\ \A j \in Step : Reached(j)' = Reached(j)
           /\ \A j \in Channel : j # k + 1 => Into(j)' = Into(j)
<1> USE DEF Inv
<1>1. /\ \A j \in Step : j # k => at'[j] = at[j]
      /\ at[k] = "working" /\ at'[k] # "working" /\ k \notin panicked
      /\ panicked' = panicked /\ seen' = seen /\ entered' = entered
  BY DEF End, Hands, TypeOK
<1>2. \A j \in Step : Reached(j)' = Reached(j)
  BY <1>1 DEF Reached
<1>3. \A j \in Step : j # k => Sent(j)' = Sent(j)
  BY <1>1, <1>2 DEF Sent
<1>4. Sent(k) = Reached(k) - 1 /\ Sent(k)' = Reached(k) /\ Reached(k) \in Nat
  BY <1>1, <1>2, Numbers DEF Sent
<1>5. k + 1 # 1 /\ (k + 1) - 1 = k
  BY DEF Step
<1>6. Into(k + 1) = Sent(k) /\ Into(k + 1)' = Sent(k)'
  BY <1>5 DEF Into
<1>7. ASSUME NEW j \in Channel, j # k + 1
      PROVE  Into(j)' = Into(j)
  <2>1. CASE j = 1
    BY <2>1, <1>1 DEF Into
  <2>2. CASE j # 1
    <3>1. j - 1 \in Step /\ j - 1 # k
      BY <1>7, <2>2, NAssumption DEF Channel, Step
    <3> QED  BY <3>1, <2>2, <1>3 DEF Into
  <2> QED  BY <2>1, <2>2
<1>8. hand[k] = Reached(k)
  BY <1>1 DEF Hands
<1> QED  BY <1>2, <1>4, <1>6, <1>7, <1>8

LEMMA PanicSends ==
    ASSUME Inv, NEW k \in Step, Panic(k)
    PROVE  /\ \A j \in Step : Reached(j)' = Reached(j) /\ Sent(j)' = Sent(j)
           /\ \A j \in Channel : Into(j)' = Into(j)
<1> USE DEF Inv
<1>1. /\ \A j \in Step : j # k => at'[j] = at[j]
      /\ at[k] = "working" /\ panicked' = panicked \cup {k}
      /\ seen' = seen /\ entered' = entered
  BY DEF Panic, TypeOK
<1>2. \A j \in Step : Reached(j)' = Reached(j)
  BY <1>1 DEF Reached
<1>3. \A j \in Step : j # k => Sent(j)' = Sent(j)
  BY <1>1, <1>2 DEF Sent
<1>4. Sent(k)' = Sent(k)
  BY <1>1, <1>2 DEF Sent
<1>5. \A j \in Channel : j # 1 => j - 1 \in Step
  BY NAssumption DEF Channel, Step
<1> QED  BY <1>1, <1>2, <1>3, <1>4, <1>5 DEF Into

\* Where the producer runs the steps itself, each has seen all there was.
LEMMA HereEven ==
    ASSUME Inv, route = "here", call # "raised"
    PROVE  /\ \A k \in Step : Reached(k) = entered /\ Sent(k) = entered
           /\ \A k \in Channel : Into(k) = entered
           /\ panicked = {}
<1> USE DEF Inv
<1>1. panicked = {} /\ \A k \in Step : Reached(k) = entered /\ at[k] # "working"
  BY DEF Stages
<1>2. \A k \in Step : Sent(k) = entered
  BY <1>1 DEF Sent
<1>3. \A j \in Channel : j # 1 => j - 1 \in Step
  BY NAssumption DEF Channel, Step
<1> QED  BY <1>1, <1>2, <1>3 DEF Into

\* What a pass on the calling thread adds.
LEMMA HereGrows ==
    ASSUME Inv, NEW k \in Step, seen'[k] = Append(seen[k], Next1)
    PROVE  Reached(k)' = Reached(k) + 1
<1>1. seen[k] \in Seq(Nat) /\ Next1 \in Nat
  BY DEF Inv, TypeOK, Next1
<1>2. Len(seen'[k]) = Len(seen[k]) + 1 /\ Len(seen[k]) \in Nat
  BY <1>1
<1> QED  BY <1>2, BAssumption DEF Reached

LEMMA PassHereSends ==
    ASSUME Inv, NEW noes \in SUBSET Step, PassHere(noes)
    PROVE  /\ entered' = entered + 1
           /\ \A k \in Step : Reached(k)' = entered + 1
           /\ \A k \in Channel : Into(k)' = entered + 1
<1> USE DEF Inv
<1>1. /\ entered' = entered + 1 /\ at' = at /\ panicked' = {}
      /\ \A k \in Step : at[k] # "working"
  <2>1. call = "produce" /\ route = "here" /\ more /\ entered' = passed + 1
    BY DEF PassHere, Next1
  <2>2. entered = passed
    BY <2>1 DEF Passes
  <2>3. panicked' = panicked /\ at' = at
    BY DEF PassHere, threadVars
  <2> QED  BY <2>1, <2>2, <2>3 DEF Stages
<1>2. \A k \in Step : Reached(k)' = entered + 1
  BY HereEven, HereGrows DEF PassHere
<1>3. \A k \in Step : Sent(k)' = entered + 1
  BY <1>1, <1>2 DEF Sent
<1>4. \A j \in Channel : j # 1 => j - 1 \in Step
  BY NAssumption DEF Channel, Step
<1> QED  BY <1>1, <1>2, <1>3, <1>4 DEF Into

LEMMA PassHerePanicsSends ==
    ASSUME Inv, NEW p \in Step, PassHerePanics(p)
    PROVE  /\ entered' = entered + 1 /\ entered \in Nat
           /\ \A k \in Step : Reached(k)' = IF k <= p THEN entered + 1 ELSE entered
           /\ \A k \in Channel : Into(k)' = IF k <= p THEN entered + 1 ELSE entered
<1> USE DEF Inv
<1>1. /\ entered' = entered + 1 /\ at' = at /\ panicked' = {p}
      /\ \A k \in Step : at[k] # "working"
      /\ entered \in Nat
  <2>1. call = "produce" /\ route = "here" /\ more /\ entered' = passed + 1
    BY DEF PassHerePanics, Next1
  <2>2. entered = passed
    BY <2>1 DEF Passes
  <2>3. panicked' = panicked \cup {p} /\ at' = at
    BY DEF PassHerePanics, threadVars
  <2> QED  BY <2>1, <2>2, <2>3 DEF Stages, TypeOK
<1>2. ASSUME NEW k \in Step
      PROVE  Reached(k)' = IF k <= p THEN entered + 1 ELSE entered
  <2>1. Reached(k) = entered
    BY HereEven DEF PassHerePanics
  <2>2. CASE k <= p
    <3>1. seen'[k] = Append(seen[k], Next1)
      BY <2>2 DEF PassHerePanics
    <3> QED  BY <2>1, <2>2, <3>1, HereGrows
  <2>3. CASE ~(k <= p)
    BY <2>1, <2>3 DEF PassHerePanics, Reached
  <2> QED  BY <2>2, <2>3
<1>3. ASSUME NEW k \in Step
      PROVE  Sent(k)' = IF k < p THEN entered + 1 ELSE entered
  BY <1>1, <1>2 DEF Sent, Step
<1>4. ASSUME NEW k \in Channel
      PROVE  Into(k)' = IF k <= p THEN entered + 1 ELSE entered
  <2>1. CASE k = 1
    BY <2>1, <1>1 DEF Into, Step
  <2>2. CASE k # 1
    <3>1. k - 1 \in Step /\ (k - 1 < p <=> k <= p)
      BY <2>2, NAssumption DEF Channel, Step
    <3> QED  BY <3>1, <2>2, <1>3 DEF Into
  <2> QED  BY <2>1, <2>2
<1> QED  BY <1>1, <1>2, <1>4

\* Nothing is handed on that has not been seen, nor seen that has not entered.
LEMMA Behind ==
    ASSUME Inv
    PROVE  /\ \A k \in Step : Sent(k) <= entered
           /\ \A k \in Channel : Into(k) <= entered
<1>1. \A k \in Step : Sent(k) <= entered
  <2> SUFFICES ASSUME NEW k \in Step
               PROVE  Sent(k) <= entered
    OBVIOUS
  <2>1. Sent(k) \in Int /\ Reached(k) \in Nat /\ Sent(k) <= Reached(k)
    BY Numbers DEF Inv
  <2>2. Reached(k) <= entered /\ entered \in Nat
    BY DEF Inv, Passes, TypeOK
  <2> QED  BY <2>1, <2>2
<1>2. \A k \in Channel : k # 1 => k - 1 \in Step
  BY NAssumption DEF Channel, Step
<1> QED  BY <1>1, <1>2 DEF Into, Inv, TypeOK

\* A channel nothing happens to, between two steps nothing happens to.
LEMMA FlowSame ==
    ASSUME Inv, NEW k \in Step, receiver'[k] => receiver[k], chan'[k] = chan[k],
           Reached(k)' = Reached(k), Into(k)' = Into(k)
    PROVE  receiver'[k] => /\ Reached(k)' <= Into(k)'
                           /\ chan'[k] = Run(Reached(k)', Into(k)')
<1> SUFFICES ASSUME receiver'[k]
             PROVE  /\ Reached(k)' <= Into(k)'
                    /\ chan'[k] = Run(Reached(k)', Into(k)')
  OBVIOUS
<1>1. Reached(k) <= Into(k) /\ chan[k] = Run(Reached(k), Into(k))
  BY DEF Inv, Flow
<1> QED  BY <1>1

LEMMA FlowBackSame ==
    ASSUME Inv, chan'[Idle] = chan[Idle], back' = back, Into(Idle)' = Into(Idle)
    PROVE  Len(back') <= Into(Idle)' /\ chan'[Idle] = Run(Len(back'), Into(Idle)')
<1>1. Len(back) <= Into(Idle) /\ chan[Idle] = Run(Len(back), Into(Idle))
  BY DEF Inv, Flow
<1> QED  BY <1>1

LEMMA FlowFrom ==
    ASSUME \A k \in Step : receiver'[k] => /\ Reached(k)' <= Into(k)'
                                           /\ chan'[k] = Run(Reached(k)', Into(k)'),
           Len(back') <= Into(Idle)' /\ chan'[Idle] = Run(Len(back'), Into(Idle)')
    PROVE  Flow'
BY DEF Flow

LEMMA FlowKept ==
    ASSUME Inv, Next
    PROVE  Flow'
<1> USE DEF Inv, routeVars, chanVars, threadVars, historyVars
<1>s. \A k \in Step : k \in Channel /\ k + 1 \in Channel /\ k # Idle
  BY NAssumption DEF Step, Channel, Idle
<1>i. Idle \in Channel /\ Idle # 1 /\ 1 \in Step /\ 1 \in Channel
  BY NAssumption DEF Channel, Idle, Step
<1>1. CASE \/ StartTake \/ PassHereRefused \/ Finish \/ TakeNone \/ Produced \/ Joined
           \/ (\E k \in Step : Spawn(k)) \/ (\E k \in Step : SpawnFails(k)) \/ Over
           \/ (\E k \in Step : Disconnected(k))
           \/ (PassAcross /\ ~(sender[1] /\ receiver[1]))
  <2>1. /\ seen' = seen /\ panicked' = panicked /\ entered' = entered /\ back' = back
        /\ chan' = chan
    BY <1>1 DEF StartTake, PassHereRefused, Finish, TakeNone, Produced, Joined, Spawn,
                SpawnFails, Over, Disconnected, PassAcross, vars
  <2>2. \A k \in Step : at'[k] = "working" <=> at[k] = "working"
    BY <1>1 DEF StartTake, PassHereRefused, Finish, TakeNone, Produced, Joined, Spawn,
                SpawnFails, Over, Disconnected, PassAcross, vars, TypeOK, Started
  <2>3. \A k \in Step : receiver'[k] => receiver[k]
    BY <1>s, <1>1 DEF StartTake, PassHereRefused, Finish, TakeNone, Produced, Joined, Spawn,
                SpawnFails, Over, Disconnected, PassAcross, vars
  <2>4. /\ \A k \in Step : Reached(k)' = Reached(k)
        /\ \A k \in Channel : Into(k)' = Into(k)
    BY <2>1, <2>2, SameHands
  <2> QED  BY <2>1, <2>3, <2>4, <1>s, <1>i, FlowSame, FlowBackSame, FlowFrom
<1>2. ASSUME NEW k \in Step, Leave(k)
      PROVE  Flow'
  <2>1. /\ seen' = seen /\ panicked' = panicked /\ entered' = entered /\ back' = back
        /\ \A j \in Channel : j # k => chan'[j] = chan[j] /\ receiver'[j] = receiver[j]
        /\ ~receiver'[k]
        /\ \A j \in Step : at'[j] = "working" <=> at[j] = "working"
    BY <1>s, <1>2 DEF Leave, TypeOK
  <2>2. /\ \A j \in Step : Reached(j)' = Reached(j)
        /\ \A j \in Channel : Into(j)' = Into(j)
    BY <2>1, SameHands
  <2>3. \A j \in Step : j # k /\ receiver'[j] => /\ Reached(j)' <= Into(j)'
                                                 /\ chan'[j] = Run(Reached(j)', Into(j)')
    BY <2>1, <2>2, <1>s, FlowSame
  <2>4. Len(back') <= Into(Idle)' /\ chan'[Idle] = Run(Len(back'), Into(Idle)')
    BY <2>1, <2>2, <1>s, <1>i, FlowBackSame
  <2> QED  BY <2>1, <2>3, <2>4, FlowFrom
<1>3. CASE Take
  <2>1. /\ seen' = seen /\ panicked' = panicked /\ entered' = entered /\ at' = at
        /\ \A j \in Channel : j # Idle => chan'[j] = chan[j]
        /\ receiver' = receiver
    BY <1>3 DEF Take, TypeOK
  <2>2. /\ \A j \in Step : Reached(j)' = Reached(j)
        /\ \A j \in Channel : Into(j)' = Into(j)
    BY <2>1, SameHands
  <2>3. \A j \in Step : receiver'[j] => /\ Reached(j)' <= Into(j)'
                                        /\ chan'[j] = Run(Reached(j)', Into(j)')
    BY <2>1, <2>2, <1>s, FlowSame
  <2>4. Len(back') = Len(back) + 1
    <3>1. chan[Idle] # <<>> /\ chan[Idle] \in Seq(Nat) /\ back' = Append(back, Head(chan[Idle]))
      BY <1>3, <1>i DEF Take, TypeOK
    <3>2. Head(chan[Idle]) \in Nat
      BY <3>1
    <3> QED  BY <3>1, <3>2 DEF TypeOK
  <2>5. /\ Len(back) < Into(Idle) /\ Into(Idle) \in Int /\ Len(back) \in Nat
        /\ chan'[Idle] = Run(Len(back) + 1, Into(Idle))
    <3>1. /\ chan[Idle] = Run(Len(back), Into(Idle)) /\ Len(back) <= Into(Idle)
          /\ Len(back) \in Nat /\ Into(Idle) \in Int
      BY <1>i, Numbers DEF Flow
    <3>2. Into(Idle) \in Nat /\ chan[Idle] # <<>>
      BY <3>1, <1>3 DEF Take
    <3>3. chan'[Idle] = Tail(chan[Idle])
      BY <1>i, <1>3 DEF Take, TypeOK
    <3> QED  BY <3>1, <3>2, <3>3, RunShrinks
  <2>6. Len(back') <= Into(Idle)' /\ chan'[Idle] = Run(Len(back'), Into(Idle)')
    <3>1. Into(Idle)' = Into(Idle)
      BY <2>2, <1>i
    <3>2. Run(Len(back'), Into(Idle)') = Run(Len(back) + 1, Into(Idle))
      BY <3>1, <2>4
    <3> QED  BY <3>1, <3>2, <2>4, <2>5
  <2> QED  BY <2>3, <2>6, FlowFrom
<1>4. CASE PassAcross /\ sender[1] /\ receiver[1]
  <2>1. /\ seen' = seen /\ panicked' = panicked /\ at' = at /\ back' = back
        /\ receiver' = receiver /\ chan' = [chan EXCEPT ![1] = Append(@, Next1)]
        /\ entered' = passed + 1
    BY <1>4 DEF PassAcross, Next1
  <2>2. entered = passed /\ entered \in Nat
    BY <1>4 DEF PassAcross, Passes, TypeOK
  <2>3. /\ \A j \in Step : Reached(j)' = Reached(j)
        /\ \A j \in Channel : j # 1 => Into(j)' = Into(j)
    BY <2>1, SameHands
  <2>4. \A j \in Channel : j # 1 => chan'[j] = chan[j]
    BY <2>1 DEF TypeOK
  <2>5. Into(1) = entered /\ Into(1)' = entered + 1
    BY <2>1, <2>2 DEF Into
  <2>6. Reached(1) \in Nat /\ Reached(1) <= entered /\ chan[1] = Run(Reached(1), entered)
    BY <1>4, <1>i, <2>5, Numbers DEF Flow
  <2>7. chan'[1] = Append(Run(Reached(1), entered), entered + 1)
    BY <2>1, <2>2, <2>6, <1>i DEF TypeOK, Next1
  <2>8. chan'[1] = Run(Reached(1), entered + 1)
    BY <2>2, <2>6, <2>7, RunGrows
  <2>9. Reached(1)' <= Into(1)' /\ chan'[1] = Run(Reached(1)', Into(1)')
    <3>1. Reached(1)' = Reached(1)
      BY <2>3, <1>i
    <3>2. Run(Reached(1)', Into(1)') = Run(Reached(1), entered + 1)
      BY <3>1, <2>5
    <3> QED  BY <3>1, <3>2, <2>2, <2>5, <2>6, <2>8
  <2>10. \A j \in Step : j # 1 /\ receiver'[j] => /\ Reached(j)' <= Into(j)'
                                                  /\ chan'[j] = Run(Reached(j)', Into(j)')
    BY <2>1, <2>3, <2>4, <1>s, FlowSame
  <2>11. Len(back') <= Into(Idle)' /\ chan'[Idle] = Run(Len(back'), Into(Idle)')
    BY <2>1, <2>3, <2>4, <1>i, FlowBackSame
  <2> QED  BY <2>9, <2>10, <2>11, FlowFrom
<1>5. ASSUME NEW noes \in SUBSET Step, PassHere(noes)
      PROVE  Flow'
  <2>1. /\ entered' = entered + 1 /\ entered \in Nat
        /\ \A k \in Step : Reached(k)' = entered + 1
        /\ \A k \in Channel : Into(k)' = entered + 1
    BY <1>5, PassHereSends DEF TypeOK
  <2>2. /\ \A k \in Step : chan'[k] = chan[k]
        /\ chan'[Idle] = Append(chan[Idle], Next1)
        /\ receiver' = receiver /\ back' = back
    BY <1>s, <1>i, <1>5 DEF PassHere, TypeOK
  <2>3. ASSUME NEW k \in Step, receiver'[k]
        PROVE  Reached(k)' <= Into(k)' /\ chan'[k] = Run(Reached(k)', Into(k)')
    <3>1. chan[k] = Run(entered, entered)
      <4>1. Reached(k) = entered /\ Into(k) = entered
        BY <1>5, <1>s, HereEven DEF PassHere
      <4>2. chan[k] = Run(Reached(k), Into(k))
        BY <2>2, <2>3 DEF Flow
      <4> QED  BY <4>1, <4>2
    <3>2. Run(entered, entered) = <<>> /\ Run(entered + 1, entered + 1) = <<>>
      BY <2>1, EmptyRun
    <3>3. Reached(k)' = entered + 1 /\ Into(k)' = entered + 1
      BY <2>1, <1>s
    <3>4. Run(Reached(k)', Into(k)') = Run(entered + 1, entered + 1)
      BY <3>3
    <3> QED  BY <3>1, <3>2, <3>3, <3>4, <2>1, <2>2
  <2>4. /\ Len(back) \in Nat /\ Len(back) <= entered
        /\ chan[Idle] = Run(Len(back), entered)
    <3>1. Into(Idle) = entered
      BY <1>5, <1>i, HereEven DEF PassHere
    <3> QED  BY <3>1, Numbers DEF Flow
  <2>5. Next1 = entered + 1
    BY <1>5 DEF PassHere, Next1, Passes
  <2>6. chan'[Idle] = Run(Len(back), entered + 1)
    BY <2>1, <2>2, <2>4, <2>5, RunGrows
  <2>7. Len(back') <= Into(Idle)' /\ chan'[Idle] = Run(Len(back'), Into(Idle)')
    BY <1>i, <2>1, <2>2, <2>4, <2>6
  <2> QED  BY <2>3, <2>7, FlowFrom
<1>6. ASSUME NEW p \in Step, PassHerePanics(p)
      PROVE  Flow'
  <2>1. /\ entered' = entered + 1 /\ entered \in Nat
        /\ \A k \in Step : Reached(k)' = IF k <= p THEN entered + 1 ELSE entered
        /\ \A k \in Channel : Into(k)' = IF k <= p THEN entered + 1 ELSE entered
    BY <1>6, PassHerePanicsSends
  <2>2. chan' = chan /\ receiver' = receiver /\ back' = back
    BY <1>6 DEF PassHerePanics
  <2>3. ASSUME NEW k \in Step, receiver'[k]
        PROVE  Reached(k)' <= Into(k)' /\ chan'[k] = Run(Reached(k)', Into(k)')
    <3>1. chan[k] = Run(entered, entered)
      <4>1. Reached(k) = entered /\ Into(k) = entered
        BY <1>6, <1>s, HereEven DEF PassHerePanics
      <4>2. chan[k] = Run(Reached(k), Into(k))
        BY <2>2, <2>3 DEF Flow
      <4> QED  BY <4>1, <4>2
    <3>2. Run(entered, entered) = <<>> /\ Run(entered + 1, entered + 1) = <<>>
      BY <2>1, EmptyRun
    <3>3. \/ Reached(k)' = entered + 1 /\ Into(k)' = entered + 1
          \/ Reached(k)' = entered /\ Into(k)' = entered
      BY <2>1, <1>s
    <3>4. Run(Reached(k)', Into(k)') = <<>>
      BY <3>2, <3>3
    <3> QED  BY <3>1, <3>2, <3>3, <3>4, <2>1, <2>2
  <2>4. Into(Idle)' = Into(Idle)
    <3>1. Into(Idle) = entered
      BY <1>6, <1>i, HereEven DEF PassHerePanics
    <3>2. ~(Idle <= p)
      BY NAssumption DEF Idle, Step
    <3> QED  BY <3>1, <3>2, <2>1, <1>i
  <2>5. Len(back') <= Into(Idle)' /\ chan'[Idle] = Run(Len(back'), Into(Idle)')
    BY <2>2, <2>4, FlowBackSame
  <2> QED  BY <2>3, <2>5, FlowFrom
<1>7. ASSUME NEW k \in Step, Receive(k)
      PROVE  Flow'
  <2>1. /\ Reached(k) \in Nat /\ Into(k) \in Nat /\ Reached(k) < Into(k)
        /\ Reached(k)' = Reached(k) + 1
        /\ chan'[k] = Run(Reached(k) + 1, Into(k))
        /\ \A j \in Step : j # k => Reached(j)' = Reached(j)
    BY <1>7, ReceivesNext
  <2>2. \A j \in Channel : Into(j)' = Into(j)
    BY <1>7, ReceiveSends
  <2>3. /\ \A j \in Channel : j # k => chan'[j] = chan[j]
        /\ receiver' = receiver /\ back' = back
    BY <1>7 DEF Receive, TypeOK
  <2>4. Reached(k)' <= Into(k)' /\ chan'[k] = Run(Reached(k)', Into(k)')
    BY <2>1, <2>2, <1>s
  <2>5. \A j \in Step : j # k /\ receiver'[j] => /\ Reached(j)' <= Into(j)'
                                                 /\ chan'[j] = Run(Reached(j)', Into(j)')
    BY <2>1, <2>2, <2>3, <1>s, FlowSame
  <2>6. Len(back') <= Into(Idle)' /\ chan'[Idle] = Run(Len(back'), Into(Idle)')
    BY <2>2, <2>3, <1>s, <1>i, FlowBackSame
  <2> QED  BY <2>4, <2>5, <2>6, FlowFrom
<1>8. ASSUME NEW k \in Step, NEW wants \in BOOLEAN, End(k, wants)
      PROVE  Flow'
  <2>1. /\ hand[k] = Reached(k) /\ Reached(k) = Into(k + 1) + 1
        /\ Into(k + 1)' = Reached(k)
        /\ \A j \in Step : Reached(j)' = Reached(j)
        /\ \A j \in Channel : j # k + 1 => Into(j)' = Into(j)
    BY <1>8, EndSends
  <2>2. /\ receiver' = receiver /\ back' = back
        /\ \A j \in Channel : j # k + 1 => chan'[j] = chan[j]
        /\ receiver[k + 1] => chan'[k + 1] = Append(chan[k + 1], hand[k])
    BY <1>8, <1>s DEF End, TypeOK
  <2>3. Into(k + 1) \in Int /\ Into(k + 1)' = Into(k + 1) + 1 /\ hand[k] = Into(k + 1) + 1
    BY <2>1, <1>s, Numbers
  <2>4. \A j \in Step : j # k + 1 /\ receiver'[j] =>
           /\ Reached(j)' <= Into(j)' /\ chan'[j] = Run(Reached(j)', Into(j)')
    BY <2>1, <2>2, <1>s, FlowSame
  <2>5. ASSUME k + 1 \in Step, receiver'[k + 1]
        PROVE  /\ Reached(k + 1)' <= Into(k + 1)'
               /\ chan'[k + 1] = Run(Reached(k + 1)', Into(k + 1)')
    <3>1. /\ Reached(k + 1) <= Into(k + 1) /\ Reached(k + 1) \in Nat
          /\ chan[k + 1] = Run(Reached(k + 1), Into(k + 1))
      BY <2>2, <2>5, Numbers DEF Flow
    <3>2. Into(k + 1) \in Nat
      BY <3>1, <2>3
    <3>3. chan'[k + 1] = Run(Reached(k + 1), Into(k + 1) + 1)
      BY <3>1, <3>2, <2>2, <2>3, <2>5, RunGrows
    <3>4. Reached(k + 1)' = Reached(k + 1)
      BY <2>1, <2>5
    <3> QED  BY <3>1, <3>2, <3>3, <3>4, <2>3
  <2>6. Len(back') <= Into(Idle)' /\ chan'[Idle] = Run(Len(back'), Into(Idle)')
    <3>1. CASE k + 1 # Idle
      BY <3>1, <2>1, <2>2, <1>i, FlowBackSame
    <3>2. CASE k + 1 = Idle
      <4>1. Len(back) <= Into(Idle) /\ chan[Idle] = Run(Len(back), Into(Idle)) /\ Len(back) \in Nat
        BY Numbers DEF Flow
      <4>2. Into(Idle) \in Nat /\ Into(Idle)' = Into(Idle) + 1
        BY <4>1, <3>2, <2>3
      <4>3. chan'[Idle] = Append(chan[Idle], Into(Idle) + 1)
        BY <3>2, <2>2, <2>3 DEF Ends
      <4>4. chan'[Idle] = Run(Len(back), Into(Idle) + 1)
        BY <4>1, <4>2, <4>3, RunGrows
      <4> QED  BY <4>1, <4>2, <4>4, <2>2
    <3> QED  BY <3>1, <3>2
  <2> QED  BY <2>4, <2>5, <2>6, FlowFrom
<1>9. ASSUME NEW k \in Step, Panic(k)
      PROVE  Flow'
  <2>1. /\ \A j \in Step : Reached(j)' = Reached(j)
        /\ \A j \in Channel : Into(j)' = Into(j)
    BY <1>9, PanicSends
  <2>2. chan' = chan /\ receiver' = receiver /\ back' = back
    BY <1>9 DEF Panic
  <2> QED  BY <2>1, <2>2, <1>s, <1>i, FlowSame, FlowBackSame, FlowFrom
<1> QED  BY <1>1, <1>2, <1>3, <1>4, <1>5, <1>6, <1>7, <1>8, <1>9, Actions

LEMMA PassesKept ==
    ASSUME Inv, Next
    PROVE  Passes'
<1> USE DEF Inv, routeVars, chanVars, threadVars, historyVars
<1>t. /\ B \in Nat /\ passed \in Nat /\ entered \in Nat /\ B <= entered /\ entered <= passed
      /\ \A k \in Step : Reached(k) \in Nat /\ Reached(k) <= entered
  BY Numbers DEF Passes, TypeOK
<1>1. CASE \/ StartTake \/ Finish \/ Take \/ TakeNone \/ Produced \/ Over
           \/ (\E k \in Step : Spawn(k)) \/ (\E k \in Step : SpawnFails(k))
  <2>1. /\ seen' = seen /\ entered' = entered /\ passed' = passed /\ route' = route
        /\ more' => more
        /\ call' = "raised" <=> call = "raised"
    BY <1>1 DEF StartTake, Finish, Take, TakeNone, Produced, Over, Spawn, SpawnFails, vars,
                TypeOK
  <2>2. \A k \in Step : Reached(k)' = Reached(k)
    BY <2>1 DEF Reached
  <2>3. (sender'[1] => sender[1]) /\ (receiver'[1] => receiver[1])
    <3>1. 1 \in Channel
      BY NAssumption DEF Channel
    <3> QED  BY <3>1, <1>1 DEF StartTake, Finish, Take, TakeNone, Produced, Over, Spawn,
                               SpawnFails, vars, TypeOK
  <2> QED  BY <2>1, <2>2, <2>3 DEF Passes
<1>2. CASE Joined
  <2>1. /\ seen' = seen /\ entered' = entered /\ passed' = passed
        /\ sender' = sender /\ receiver' = receiver /\ more' = more /\ call # "raised"
    BY <1>2 DEF Joined
  <2>2. \A k \in Step : Reached(k)' = Reached(k)
    BY <2>1 DEF Reached
  <2>3. CASE call' = "produce"
    <3>1. route' = "here" /\ call = "join" /\ Started # Step
      BY <1>2, <2>3 DEF Joined
    <3>2. passed = B /\ entered = B
      BY <3>1 DEF Unproduced
    <3> QED  BY <2>1, <2>2, <3>1, <3>2, <1>t DEF Passes
  <2>4. CASE call' # "produce"
    <3>1. route' = route
      BY <1>2, <2>4 DEF Joined
    <3> QED  BY <2>1, <2>2, <3>1 DEF Passes
  <2> QED  BY <2>3, <2>4
<1>3. CASE PassAcross
  <2>1. /\ seen' = seen /\ passed' = passed + 1 /\ route' = route /\ route = "across"
        /\ sender' = sender /\ receiver' = receiver
        /\ \/ sender[1] /\ receiver[1] /\ entered' = passed + 1
           \/ ~(sender[1] /\ receiver[1]) /\ entered' = entered
    BY <1>3 DEF PassAcross, Next1
  <2>2. \A k \in Step : Reached(k)' = Reached(k)
    BY <2>1 DEF Reached
  <2> QED  BY <2>1, <2>2, <1>t DEF Passes
<1>4. CASE PassHereRefused
  <2>1. /\ seen' = seen /\ passed' = passed + 1 /\ route' = "here"
        /\ entered' = entered /\ more' = more /\ ~more
    BY <1>4 DEF PassHereRefused, Next1
  <2>2. \A k \in Step : Reached(k)' = Reached(k)
    BY <2>1 DEF Reached
  <2> QED  BY <2>1, <2>2, <1>t DEF Passes
<1>5. ASSUME NEW noes \in SUBSET Step, PassHere(noes)
      PROVE  Passes'
  <2>1. passed' = entered' /\ route' = "here"
    BY <1>5 DEF PassHere
  <2>2. entered' = entered + 1 /\ \A k \in Step : Reached(k)' = entered + 1
    BY <1>5, PassHereSends
  <2> QED  BY <2>1, <2>2, <1>t DEF Passes
<1>6. ASSUME NEW p \in Step, PassHerePanics(p)
      PROVE  Passes'
  <2>1. passed' = entered' /\ route' = "here"
    BY <1>6 DEF PassHerePanics
  <2>2. entered' = entered + 1 /\ \A k \in Step : Reached(k)' <= entered + 1
    BY <1>6, <1>t, PassHerePanicsSends
  <2> QED  BY <2>1, <2>2, <1>t DEF Passes
<1>7. ASSUME NEW k \in Step, Receive(k)
      PROVE  Passes'
  <2>1. /\ entered' = entered /\ passed' = passed /\ route' = route /\ more' = more
        /\ call' = call /\ sender' = sender /\ receiver' = receiver
    BY <1>7 DEF Receive
  <2>2. /\ Reached(k)' = Reached(k) + 1 /\ Reached(k) < Into(k) /\ Into(k) \in Nat
        /\ \A j \in Step : j # k => Reached(j)' = Reached(j)
    BY <1>7, ReceivesNext
  <2>3. Into(k) <= entered
    <3>1. k \in Channel
      BY NAssumption DEF Step, Channel
    <3> QED  BY <3>1, Behind
  <2>4. Reached(k)' <= entered
    BY <2>2, <2>3, <1>t
  <2>5. \A j \in Step : Reached(j)' <= entered
    BY <2>2, <2>4, <1>t
  <2> QED  BY <2>1, <2>5, <1>t DEF Passes
<1>8. CASE \E k \in Step : \/ Disconnected(k) \/ (\E wants \in BOOLEAN : End(k, wants))
                           \/ Panic(k) \/ Leave(k)
  <2>1. /\ seen' = seen /\ entered' = entered /\ passed' = passed /\ route' = route
        /\ more' = more /\ call' = call
    BY <1>8 DEF Disconnected, End, Panic, Leave, TypeOK
  <2>2. sender'[1] => sender[1]
    <3>1. \A k \in Step : k + 1 # 1
      BY DEF Step
    <3>2. sender'[1] = sender[1]
      <4>1. CASE sender' = sender
        BY <4>1
      <4>2. ASSUME NEW k \in Step, sender' = [sender EXCEPT ![k + 1] = FALSE]
            PROVE  sender'[1] = sender[1]
        <5>1. 1 \in Channel /\ sender \in [Channel -> BOOLEAN]
          BY NAssumption DEF Channel, TypeOK
        <5> QED  BY <4>2, <3>1, <5>1
      <4> QED  BY <1>8, <4>1, <4>2 DEF Disconnected, End, Panic, Leave
    <3> QED  BY <3>2
  <2>3. receiver'[1] => receiver[1]
    <3>1. 1 \in Channel
      BY NAssumption DEF Channel
    <3> QED  BY <3>1, <1>8 DEF Disconnected, End, Panic, Leave, TypeOK
  <2>4. \A k \in Step : Reached(k)' = Reached(k)
    BY <2>1 DEF Reached
  <2> HIDE DEF Inv
  <2>5. Passes
    BY DEF Inv
  <2> QED  BY <2>1, <2>2, <2>3, <2>4, <2>5 DEF Passes
<1> QED  BY <1>1, <1>2, <1>3, <1>4, <1>5, <1>6, <1>7, <1>8, Actions

LEMMA InOrderKept ==
    ASSUME Inv, Next
    PROVE  InOrder'
<1> USE DEF Inv, routeVars, chanVars, threadVars, historyVars
<1>1. ASSUME NEW k \in Step, seen'[k] = Append(seen[k], Reached(k) + 1)
      PROVE  seen'[k] = Run(B, B + Len(seen'[k]))
  <2>1. seen[k] = Run(B, Reached(k)) /\ Reached(k) \in Nat /\ B <= Reached(k) /\ B \in Nat
    BY Numbers DEF InOrder, Reached
  <2>2. seen'[k] = Run(B, Reached(k) + 1)
    BY <1>1, <2>1, RunGrows
  <2>3. Len(seen'[k]) = (Reached(k) + 1) - B
    <3>1. Len(Run(B, Reached(k) + 1)) = (Reached(k) + 1) - B
      <4>1. Reached(k) + 1 \in Nat /\ B <= Reached(k) + 1
        BY <2>1
      <4> QED  BY <4>1, <2>1, RunIsSeq
    <3>2. Len(seen'[k]) = Len(Run(B, Reached(k) + 1))
      BY <2>2, Zenon
    <3> QED  BY <3>1, <3>2
  <2>4. B + Len(seen'[k]) = Reached(k) + 1
    BY <2>1, <2>3
  <2> QED  BY <2>2, <2>4
<1>2. CASE back' = back /\ \E k \in Step : Receive(k)
  <2>1. PICK k \in Step : Receive(k)
    BY <1>2
  <2>2. /\ seen'[k] = Append(seen[k], Reached(k) + 1)
        /\ \A j \in Step : j # k => seen'[j] = seen[j]
    BY <2>1, ReceivesNext
  <2>3. seen'[k] = Run(B, B + Len(seen'[k]))
    BY <2>2, <1>1
  <2>4. \A j \in Step : j # k => seen'[j] = Run(B, B + Len(seen'[j]))
    BY <2>2 DEF InOrder
  <2> QED  BY <2>3, <2>4, <1>2 DEF InOrder
<1>3. CASE \/ (\E noes \in SUBSET Step : PassHere(noes))
           \/ (\E k \in Step : PassHerePanics(k))
  <2>1. back' = back /\ \A k \in Step : seen'[k] = Append(seen[k], Next1) \/ seen'[k] = seen[k]
    BY <1>3 DEF PassHere, PassHerePanics
  <2>2. \A k \in Step : Next1 = Reached(k) + 1
    <3>1. route = "here" /\ call # "raised" /\ more
      BY <1>3 DEF PassHere, PassHerePanics
    <3> QED  BY <3>1, HereEven DEF Next1, Passes
  <2>3. \A k \in Step : seen'[k] = Run(B, B + Len(seen'[k]))
    BY <2>1, <2>2, <1>1 DEF InOrder
  <2> QED  BY <2>1, <2>3 DEF InOrder
<1>4. CASE Take
  <2>1. /\ chan[Idle] # <<>> /\ back' = Append(back, Head(chan[Idle])) /\ seen' = seen
    BY <1>4 DEF Take
  <2>2. /\ chan[Idle] = Run(Len(back), Into(Idle)) /\ Len(back) <= Into(Idle)
        /\ Len(back) \in Nat /\ Into(Idle) \in Nat
    <3>1. Idle \in Channel
      BY NAssumption DEF Channel, Idle
    <3>2. /\ chan[Idle] = Run(Len(back), Into(Idle)) /\ Len(back) <= Into(Idle)
          /\ Len(back) \in Nat /\ Into(Idle) \in Int
      BY <3>1, Numbers DEF Flow
    <3> QED  BY <3>2
  <2>3. Head(chan[Idle]) = Len(back) + 1
    BY <2>1, <2>2, RunShrinks
  <2>4. back = Run(0, Len(back))
    BY DEF InOrder
  <2>5. back' = Run(0, Len(back) + 1)
    <3>1. Append(Run(0, Len(back)), Len(back) + 1) = Run(0, Len(back) + 1)
      <4> HIDE DEF Inv
      <4>1. 0 \in Nat /\ Len(back) \in Nat /\ 0 <= Len(back)
        BY <2>2
      <4> QED  BY <4>1, RunGrows
    <3>2. back' = Append(Run(0, Len(back)), Len(back) + 1)
      BY <2>1, <2>3, <2>4, Zenon
    <3> QED  BY <3>1, <3>2
  <2>6. Len(back') = Len(back) + 1
    <3>1. Len(Run(0, Len(back) + 1)) = (Len(back) + 1) - 0
      <4> HIDE DEF Inv
      <4>1. 0 \in Nat /\ Len(back) + 1 \in Nat /\ 0 <= Len(back) + 1
        BY <2>2
      <4> QED  BY <4>1, RunIsSeq
    <3>2. Len(back') = Len(Run(0, Len(back) + 1))
      BY <2>5, Zenon
    <3> QED  BY <3>1, <3>2, <2>2
  <2> QED  BY <2>1, <2>5, <2>6 DEF InOrder
<1>5. CASE \/ StartTake \/ Finish \/ TakeNone \/ Produced \/ Joined \/ Over
           \/ PassAcross \/ PassHereRefused
           \/ (\E k \in Step : Spawn(k)) \/ (\E k \in Step : SpawnFails(k))
           \/ (\E k \in Step : \/ Disconnected(k) \/ (\E wants \in BOOLEAN : End(k, wants))
                               \/ Panic(k) \/ Leave(k))
  <2>1. seen' = seen /\ back' = back
    BY <1>5 DEF StartTake, Finish, TakeNone, Produced, Joined, Over, PassAcross,
                PassHereRefused, Spawn, SpawnFails, Disconnected, End, Panic, Leave, vars
  <2> QED  BY <2>1 DEF InOrder
<1>6. \A k \in Step : Receive(k) => back' = back
  BY DEF Receive
<1> QED  BY <1>2, <1>3, <1>4, <1>5, <1>6, Actions

\* A step that is not started has had nothing sent to it, so nothing is sent
\* to a thread that is gone before the last one is started.
LEMMA Followed ==
    ASSUME Inv, NEW k \in Step, at[k] = "working", k + 1 \in Step, ~receiver[k + 1]
    PROVE  route = "across" /\ at[k + 1] = "gone"
<1> USE DEF Inv
<1>1. route = "across"
  BY DEF Stages, TypeOK
<1>2. seen[k] # <<>>
  BY DEF Hands
<1>3. Started = Step
  <2>1. call \in Calls
    BY DEF TypeOK
  <2>2. call \notin {"returned", "raised"}
    BY <1>1 DEF Stages
  <2> QED  BY <1>1, <1>2, <2>1, <2>2 DEF Stages, Unproduced, Calls
<1>4. at[k + 1] # "none"
  BY <1>3 DEF Started
<1> QED  BY <1>1, <1>4 DEF Ends, TypeOK, Places

LEMMA LeftKept ==
    ASSUME Inv, Next
    PROVE  Left'
<1> USE DEF Inv, routeVars, chanVars, threadVars, historyVars
<1> DEFINE Why(k) == \/ \E j \in k..N : j \in ended \cup panicked
                     \/ ~sender[k] /\ Reached(k) = Into(k)
<1> SUFFICES ASSUME route' = "across", NEW k \in Step, at'[k] \in {"leaving", "gone"}
             PROVE  Why(k)'
  BY DEF Left
<1>a. route = "across" /\ (at[k] \in {"leaving", "gone"} => Why(k))
  <2>1. route = "across"
    BY DEF Next, Producer, Caller, StepThread, StartTake, PassAcross, PassHereRefused, PassHere,
           PassHerePanics, Finish, Spawn, SpawnFails, Take, TakeNone, Produced, Joined,
           Receive, Disconnected, End, Panic, Leave, Over, vars, TypeOK
  <2> QED  BY <2>1 DEF Left
<1>s. k \in Channel /\ 1 \in Channel /\ \A j \in Step : j + 1 \in Channel /\ j + 1 # 1
  BY NAssumption DEF Step, Channel
<1> HIDE DEF Why
\* The reasons stay.
<1>m. ASSUME Why(k), ended \subseteq ended', panicked \subseteq panicked',
             ~sender[k] => ~sender'[k] /\ Reached(k)' = Reached(k) /\ Into(k)' = Into(k)
      PROVE  Why(k)'
  BY <1>m DEF Why
<1>1. CASE \/ StartTake \/ PassHereRefused \/ Finish \/ TakeNone \/ Produced \/ Joined
           \/ (\E j \in Step : Spawn(j)) \/ (\E j \in Step : SpawnFails(j)) \/ Over
           \/ Take \/ PassAcross
  <2>1. /\ seen' = seen /\ panicked' = panicked /\ ended' = ended
        /\ \A j \in Step : at'[j] = at[j] \/ (at[j] = "none" /\ at'[j] = "waiting")
    BY <1>1 DEF StartTake, PassHereRefused, Finish, TakeNone, Produced, Joined, Spawn,
                SpawnFails, Over, Take, PassAcross, vars, TypeOK, Started
  <2>2. /\ \A j \in Step : Reached(j)' = Reached(j)
        /\ \A j \in Channel : j # 1 => Into(j)' = Into(j)
    <3>1. \A j \in Step : at'[j] = "working" <=> at[j] = "working"
      BY <2>1
    <3> QED  BY <2>1, <3>1, SameHands
  <2>3. ~sender[k] => ~sender'[k]
    BY <1>s, <1>1 DEF StartTake, PassHereRefused, Finish, TakeNone, Produced, Joined, Spawn,
                SpawnFails, Over, Take, PassAcross, vars, TypeOK
  <2>4. ~sender[1] => Into(1)' = Into(1)
    <3>1. ~sender[1] => entered' = entered
      BY <1>1 DEF StartTake, PassHereRefused, Finish, TakeNone, Produced, Joined, Spawn,
                  SpawnFails, Over, Take, PassAcross, vars
    <3> QED  BY <3>1 DEF Into
  <2>5. Why(k)
    BY <2>1, <1>a
  <2>6. ~sender[k] => Into(k)' = Into(k)
    BY <2>2, <2>4, <1>s
  <2> QED  BY <2>1, <2>2, <2>3, <2>5, <2>6, <1>m
<1>2. CASE \/ (\E noes \in SUBSET Step : PassHere(noes))
           \/ (\E j \in Step : PassHerePanics(j))
  BY <1>2, <1>a DEF PassHere, PassHerePanics
<1>3. ASSUME NEW j \in Step, Receive(j)
      PROVE  Why(k)'
  <2>1. /\ ended' = ended /\ panicked' = panicked /\ sender' = sender
        /\ at'[j] = "working"
    BY <1>3 DEF Receive, TypeOK
  <2>2. k # j
    BY <2>1
  <2>3. at'[k] = at[k] /\ Reached(k)' = Reached(k) /\ Into(k)' = Into(k)
    BY <2>2, <1>3, <1>s, ThreadStays, ReceivesNext, ReceiveSends
  <2> QED  BY <2>1, <2>3, <1>a, <1>m
<1>4. ASSUME NEW j \in Step, Disconnected(j)
      PROVE  Why(k)'
  <2>1. /\ seen' = seen /\ ended' = ended /\ panicked' = panicked /\ sender' = sender
        /\ entered' = entered /\ chan[j] = <<>> /\ ~sender[j] /\ at[j] = "waiting"
        /\ at' = [at EXCEPT ![j] = "leaving"]
    BY <1>4 DEF Disconnected
  <2>2. \A i \in Step : at'[i] = "working" <=> at[i] = "working"
    BY <2>1 DEF TypeOK
  <2>3. Reached(k)' = Reached(k) /\ Into(k)' = Into(k)
    BY <2>1, <2>2, <1>s, SameHands
  <2>4. CASE k = j
    <3>1. receiver[k]
      BY <2>1, <2>4 DEF Ends
    <3>2. /\ Reached(k) \in Nat /\ Into(k) \in Int /\ Reached(k) <= Into(k)
          /\ Run(Reached(k), Into(k)) = <<>>
      BY <3>1, <2>1, <2>4, <1>s, Numbers DEF Flow
    <3>3. Reached(k) = Into(k)
      <4>1. Into(k) \in Nat
        BY <3>2
      <4> QED  BY <3>2, <4>1, EmptyRunEnds
    <3>4. ~sender'[k] /\ Reached(k)' = Into(k)'
      BY <3>3, <2>1, <2>3, <2>4
    <3> QED  BY <3>4 DEF Why
  <2>5. CASE k # j
    <3>1. at'[k] = at[k]
      BY <2>1, <2>5 DEF TypeOK
    <3> QED  BY <3>1, <2>1, <2>3, <1>a, <1>m
  <2> QED  BY <2>4, <2>5
<1>5. ASSUME NEW j \in Step, NEW wants \in BOOLEAN, End(j, wants)
      PROVE  Why(k)'
  <2>1. /\ ended \subseteq ended' /\ panicked' = panicked /\ sender' = sender
        /\ ~wants => j \in ended'
        /\ at[j] = "working"
        /\ at' = [at EXCEPT ![j] = IF wants /\ receiver[j + 1] THEN "waiting" ELSE "leaving"]
    BY <1>5 DEF End
  <2>2. /\ \A i \in Step : Reached(i)' = Reached(i)
        /\ \A i \in Channel : i # j + 1 => Into(i)' = Into(i)
    BY <1>5, EndSends
  <2>3. sender[j + 1]
    BY <2>1 DEF Ends
  <2>4. CASE k # j
    <3>1. at'[k] = at[k]
      BY <2>1, <2>4 DEF TypeOK
    <3>2. ~sender[k] => Into(k)' = Into(k)
      BY <2>2, <2>3, <1>s
    <3> QED  BY <3>1, <3>2, <2>1, <2>2, <1>a, <1>m
  <2>5. CASE k = j /\ ~wants
    <3>1. k \in k..N
      BY DEF Step
    <3> QED  BY <3>1, <2>1, <2>5 DEF Why
  <2>6. CASE k = j /\ wants
    <3>1. ~receiver[k + 1]
      BY <2>1, <2>6 DEF TypeOK
    <3>2. k + 1 \in Step
      <4>1. k + 1 # Idle
        BY <3>1 DEF Ends
      <4> QED  BY <4>1, NAssumption DEF Idle, Step
    <3>3. at[k + 1] = "gone"
      BY <2>1, <2>6, <3>1, <3>2, Followed
    <3>4. \E i \in k + 1..N : i \in ended \cup panicked
      BY <3>2, <3>3, <1>a, <2>3, <2>6 DEF Left
    <3>5. \A i \in k + 1..N : i \in k..N
      BY DEF Step
    <3>6. \E i \in k..N : i \in ended' \cup panicked'
      BY <3>4, <3>5, <2>1
    <3> QED  BY <3>6 DEF Why
  <2> QED  BY <2>4, <2>5, <2>6
<1>6. ASSUME NEW j \in Step, Panic(j)
      PROVE  Why(k)'
  <2>1. /\ ended' = ended /\ panicked' = panicked \cup {j} /\ sender' = sender
        /\ at' = [at EXCEPT ![j] = "leaving"]
    BY <1>6 DEF Panic
  <2>2. Reached(k)' = Reached(k) /\ Into(k)' = Into(k)
    BY <1>6, <1>s, PanicSends
  <2>3. CASE k # j
    <3>1. at'[k] = at[k]
      BY <2>1, <2>3 DEF TypeOK
    <3> QED  BY <3>1, <2>1, <2>2, <1>a, <1>m
  <2>4. CASE k = j
    <3>1. k \in k..N
      BY DEF Step
    <3> QED  BY <3>1, <2>1, <2>4 DEF Why
  <2> QED  BY <2>3, <2>4
<1>7. ASSUME NEW j \in Step, Leave(j)
      PROVE  Why(k)'
  <2>1. /\ seen' = seen /\ ended' = ended /\ panicked' = panicked /\ entered' = entered
        /\ at[j] = "leaving" /\ at' = [at EXCEPT ![j] = "gone"]
        /\ sender' = [sender EXCEPT ![j + 1] = FALSE]
    BY <1>7 DEF Leave
  <2>2. \A i \in Step : at'[i] = "working" <=> at[i] = "working"
    BY <2>1 DEF TypeOK
  <2>3. Reached(k)' = Reached(k) /\ Into(k)' = Into(k)
    BY <2>1, <2>2, <1>s, SameHands
  <2>4. ~sender[k] => ~sender'[k]
    BY <2>1, <1>s DEF TypeOK
  <2>5. at[k] \in {"leaving", "gone"}
    BY <2>1 DEF TypeOK
  <2> QED  BY <2>1, <2>3, <2>4, <2>5, <1>a, <1>m
<1> QED  BY <1>1, <1>2, <1>3, <1>4, <1>5, <1>6, <1>7, Actions

\* What the producer holds never comes to more than the buffers there are:
\* take() gives a buffer only after the passes before it.
LEMMA HeldKept ==
    ASSUME Inv, Next
    PROVE  Held' \in 0..B
<1> USE DEF Inv, routeVars, chanVars, threadVars, historyVars
<1>t. /\ B \in Nat /\ passed \in Nat /\ Len(back) \in Nat /\ Held \in 0..B
      /\ entered <= passed /\ entered \in Nat
  BY Numbers DEF Passes, TypeOK
<1>1. CASE \/ StartTake \/ Finish \/ TakeNone \/ Produced \/ Joined \/ Over
           \/ (\E k \in Step : Spawn(k)) \/ (\E k \in Step : SpawnFails(k))
           \/ (\E k \in Step : \/ Receive(k) \/ Disconnected(k)
                               \/ (\E wants \in BOOLEAN : End(k, wants))
                               \/ Panic(k) \/ Leave(k))
  <2>1. back' = back /\ passed' = passed
    BY <1>1 DEF StartTake, Finish, TakeNone, Produced, Joined, Over, Spawn, SpawnFails,
                Receive, Disconnected, End, Panic, Leave, vars
  <2> QED  BY <2>1, <1>t DEF Held
<1>2. CASE \/ PassAcross \/ PassHereRefused
           \/ (\E noes \in SUBSET Step : PassHere(noes))
           \/ (\E k \in Step : PassHerePanics(k))
  <2>1. back' = back /\ passed' = passed + 1 /\ Held > 0
    BY <1>2 DEF PassAcross, PassHereRefused, PassHere, PassHerePanics, Next1
  <2> QED  BY <2>1, <1>t DEF Held
<1>3. CASE Take
  <2>1. /\ chan[Idle] = Run(Len(back), Into(Idle)) /\ Len(back) <= Into(Idle)
        /\ Into(Idle) \in Int /\ Into(Idle) <= entered
    <3>1. Idle \in Channel
      BY NAssumption DEF Channel, Idle
    <3> QED  BY <3>1, Numbers, Behind DEF Flow
  <2>2. chan[Idle] # <<>> /\ passed' = passed
    BY <1>3 DEF Take
  <2>3. Len(back) < Into(Idle)
    <3>1. Into(Idle) \in Nat
      BY <2>1, <1>t
    <3> QED  BY <3>1, <2>1, <2>2, <1>t, RunShrinks
  <2>4. Len(back') = Len(back) + 1
    <3>1. chan[Idle] \in Seq(Nat) /\ back \in Seq(Nat) /\ back' = Append(back, Head(chan[Idle]))
      <4>1. Idle \in Channel
        BY NAssumption DEF Channel, Idle
      <4> QED  BY <4>1, <1>3 DEF Take, TypeOK
    <3>2. Head(chan[Idle]) \in Nat
      BY <3>1, <2>2
    <3> QED  BY <3>1, <3>2
  <2> QED  BY <2>1, <2>2, <2>3, <2>4, <1>t DEF Held
<1> QED  BY <1>1, <1>2, <1>3, Actions

LEMMA TypeKept ==
    ASSUME Inv, Next
    PROVE  TypeOK'
<1> USE DEF Inv, routeVars, chanVars, threadVars, historyVars
<1> DEFINE Types ==
        /\ route \in {"here", "across"} /\ more \in BOOLEAN
        /\ chan \in [Channel -> Seq(Nat)]
        /\ sender \in [Channel -> BOOLEAN] /\ receiver \in [Channel -> BOOLEAN]
        /\ at \in [Step -> Places] /\ hand \in [Step -> Nat]
        /\ call \in Calls
        /\ passed \in Nat /\ entered \in Nat /\ refused \subseteq Nat
        /\ seen \in [Step -> Seq(Nat)] /\ back \in Seq(Nat)
        /\ ended \subseteq Step /\ panicked \subseteq Step
<1>t. Types
  BY DEF TypeOK
<1>h. Held' \in 0..B
  BY HeldKept
<1>s. Idle \in Channel /\ \A k \in Step : k \in Channel /\ k + 1 \in Channel
  BY NAssumption DEF Step, Channel, Idle
<1>q. /\ \A q \in Seq(Nat), x \in Nat : Append(q, x) \in Seq(Nat)
      /\ \A q \in Seq(Nat) : q # <<>> => Head(q) \in Nat /\ Tail(q) \in Seq(Nat)
  OBVIOUS
<1>1. ASSUME StartTake \/ Finish \/ TakeNone \/ Produced \/ Joined \/ Over
      PROVE  Types'
  <2>1. /\ chan' = chan /\ receiver' = receiver /\ at' = at /\ hand' = hand
        /\ passed' = passed /\ entered' = entered /\ refused' = refused
        /\ seen' = seen /\ back' = back /\ ended' = ended /\ panicked' = panicked
    BY <1>1 DEF StartTake, Finish, TakeNone, Produced, Joined, Over, vars
  <2>2. route' \in {"here", "across"} /\ more' \in BOOLEAN /\ call' \in Calls
    BY <1>t, <1>1 DEF StartTake, Finish, TakeNone, Produced, Joined, Over, vars, Calls
  <2>3. sender' = sender \/ sender' = [sender EXCEPT ![1] = FALSE]
    BY <1>1 DEF StartTake, Finish, TakeNone, Produced, Joined, Over, vars
  <2>4. sender' \in [Channel -> BOOLEAN]
    BY <2>3, <1>t
  <2> QED  BY <2>1, <2>2, <2>4, <1>t
<1>2. ASSUME NEW k \in Step, Spawn(k) \/ SpawnFails(k)
      PROVE  Types'
  <2>1. /\ route' = route /\ more' = more /\ chan' = chan /\ hand' = hand
        /\ passed' = passed /\ entered' = entered /\ refused' = refused
        /\ seen' = seen /\ back' = back /\ ended' = ended /\ panicked' = panicked
    BY <1>2 DEF Spawn, SpawnFails
  <2>2. at' \in [Step -> Places] /\ call' \in Calls
    BY <1>t, <1>2 DEF Spawn, SpawnFails, Calls, Places
  <2>3. sender' \in [Channel -> BOOLEAN] /\ receiver' \in [Channel -> BOOLEAN]
    <3>1. CASE Spawn(k)
      BY <3>1, <1>t DEF Spawn
    <3>2. CASE SpawnFails(k)
      <4>1. receiver' \in [Channel -> BOOLEAN]
        BY <3>2, <1>t DEF SpawnFails
      <4>2. sender' \in [Channel -> BOOLEAN]
        BY <3>2, <1>t DEF SpawnFails
      <4> QED  BY <4>1, <4>2
    <3> QED  BY <1>2, <3>1, <3>2
  <2> QED  BY <2>1, <2>2, <2>3, <1>t
<1>3. ASSUME PassAcross \/ PassHereRefused
      PROVE  Types'
  <2>1. Next1 \in Nat
    BY <1>t DEF Next1
  <2>2. \A q \in Seq(Nat) : Append(q, Next1) \in Seq(Nat)
    BY <2>1, <1>q
  <2>3. /\ route' = route /\ more' = more /\ sender' = sender /\ receiver' = receiver
        /\ at' = at /\ hand' = hand /\ call' = call /\ seen' = seen /\ back' = back
        /\ ended' = ended /\ panicked' = panicked /\ passed' = Next1
        /\ entered' = entered \/ entered' = Next1
        /\ refused' = refused \/ refused' = refused \cup {Next1}
        /\ chan' = chan \/ chan' = [chan EXCEPT ![1] = Append(@, Next1)]
    BY <1>3 DEF PassAcross, PassHereRefused
  <2> HIDE DEF Next1
  <2>4. chan' \in [Channel -> Seq(Nat)]
    <3>1. chan \in [Channel -> Seq(Nat)]
      BY <1>t
    <3>2. [chan EXCEPT ![1] = Append(@, Next1)] \in [Channel -> Seq(Nat)]
      BY <3>1, <2>2
    <3> QED  BY <3>1, <3>2, <2>3, Zenon
  <2> QED  BY <2>1, <2>3, <2>4, <1>t
<1>4. ASSUME NEW noes \in SUBSET Step, PassHere(noes)
      PROVE  Types'
  <2>1. Next1 \in Nat
    BY <1>t DEF Next1
  <2>2. \A q \in Seq(Nat) : Append(q, Next1) \in Seq(Nat)
    BY <2>1, <1>q
  <2>3. seen' \in [Step -> Seq(Nat)]
    BY <2>2, <1>t, <1>4 DEF PassHere
  <2>4. chan' \in [Channel -> Seq(Nat)]
    BY <2>2, <1>t, <1>4 DEF PassHere
  <2> QED  BY <2>1, <2>3, <2>4, <1>t, <1>4 DEF PassHere
<1>5. ASSUME NEW p \in Step, PassHerePanics(p)
      PROVE  Types'
  <2>1. Next1 \in Nat
    BY <1>t DEF Next1
  <2>2. \A q \in Seq(Nat) : Append(q, Next1) \in Seq(Nat)
    BY <2>1, <1>q
  <2>3. seen' \in [Step -> Seq(Nat)]
    BY <2>2, <1>t, <1>5 DEF PassHerePanics
  <2> QED  BY <2>1, <2>3, <1>t, <1>5 DEF PassHerePanics, Calls
<1>6. ASSUME Take
      PROVE  Types'
  <2>1. chan[Idle] # <<>> /\ chan[Idle] \in Seq(Nat)
    BY <1>s, <1>t, <1>6 DEF Take
  <2>2. Head(chan[Idle]) \in Nat /\ Tail(chan[Idle]) \in Seq(Nat)
    BY <2>1, <1>q
  <2>3. chan' \in [Channel -> Seq(Nat)] /\ back' \in Seq(Nat)
    BY <2>2, <1>t, <1>q, <1>6 DEF Take
  <2> QED  BY <2>3, <1>t, <1>6 DEF Take, Calls
<1>7. ASSUME NEW k \in Step, Receive(k)
      PROVE  Types'
  <2>1. chan[k] # <<>> /\ chan[k] \in Seq(Nat) /\ seen[k] \in Seq(Nat)
    BY <1>s, <1>t, <1>7 DEF Receive
  <2>2. Head(chan[k]) \in Nat /\ Tail(chan[k]) \in Seq(Nat)
        /\ Append(seen[k], Head(chan[k])) \in Seq(Nat)
    BY <2>1, <1>q
  <2>3. /\ chan' \in [Channel -> Seq(Nat)] /\ seen' \in [Step -> Seq(Nat)]
        /\ hand' \in [Step -> Nat]
    BY <2>2, <1>t, <1>7 DEF Receive
  <2>4. at' \in [Step -> Places]
    BY <1>t, <1>7 DEF Receive, Places
  <2> QED  BY <2>3, <2>4, <1>t, <1>7 DEF Receive
<1>8. ASSUME NEW k \in Step, NEW wants \in BOOLEAN, End(k, wants)
      PROVE  Types'
  <2>1. hand[k] \in Nat /\ chan[k + 1] \in Seq(Nat)
    BY <1>s, <1>t
  <2>2. Append(chan[k + 1], hand[k]) \in Seq(Nat)
    BY <2>1, <1>q
  <2>3. chan' \in [Channel -> Seq(Nat)]
    BY <2>2, <1>t, <1>8 DEF End
  <2>4. at' \in [Step -> Places] /\ hand' \in [Step -> Nat] /\ ended' \subseteq Step
    <3>1. PICK p \in Places : at' = [at EXCEPT ![k] = p]
      BY <1>8 DEF End, Places
    <3>2. hand' = [hand EXCEPT ![k] = 0]
      BY <1>8 DEF End, None
    <3>3. ended' = ended \/ ended' = ended \cup {k}
      BY <1>8 DEF End
    <3>4. at' \in [Step -> Places]
      BY <3>1, <1>t
    <3>5. hand' \in [Step -> Nat]
      BY <3>2, <1>t
    <3> QED  BY <3>3, <3>4, <3>5, <1>t
  <2> QED  BY <2>3, <2>4, <1>t, <1>8 DEF End
<1>9. ASSUME NEW k \in Step, Disconnected(k) \/ Panic(k) \/ Leave(k)
      PROVE  Types'
  <2>1. /\ chan' \in [Channel -> Seq(Nat)]
        /\ sender' \in [Channel -> BOOLEAN] /\ receiver' \in [Channel -> BOOLEAN]
    <3>1. \/ chan' = chan /\ sender' = sender /\ receiver' = receiver
          \/ /\ chan' = [chan EXCEPT ![k] = <<>>]
             /\ sender' = [sender EXCEPT ![k + 1] = FALSE]
             /\ receiver' = [receiver EXCEPT ![k] = FALSE]
      BY <1>9 DEF Disconnected, Panic, Leave
    <3>2. <<>> \in Seq(Nat)
      OBVIOUS
    <3> QED  BY <3>1, <3>2, <1>t
  <2>2. at' \in [Step -> Places] /\ hand' \in [Step -> Nat] /\ panicked' \subseteq Step
    <3>1. PICK p \in Places : at' = [at EXCEPT ![k] = p]
      BY <1>9 DEF Disconnected, Panic, Leave, Places
    <3>2. hand' = hand \/ hand' = [hand EXCEPT ![k] = 0]
      BY <1>9 DEF Disconnected, Panic, Leave, None
    <3>3. panicked' = panicked \/ panicked' = panicked \cup {k}
      BY <1>9 DEF Disconnected, Panic, Leave
    <3>4. at' \in [Step -> Places]
      BY <3>1, <1>t
    <3>5. hand' \in [Step -> Nat]
      <4>1. hand \in [Step -> Nat]
        BY <1>t
      <4>2. [hand EXCEPT ![k] = 0] \in [Step -> Nat]
        BY <4>1
      <4> QED  BY <4>1, <4>2, <3>2, Zenon
    <3> QED  BY <3>3, <3>4, <3>5, <1>t
  <2> QED  BY <2>1, <2>2, <1>t, <1>9 DEF Disconnected, Panic, Leave
<1> HIDE DEF Types
<1>10. Types'
  BY <1>1, <1>2, <1>3, <1>4, <1>5, <1>6, <1>7, <1>8, <1>9, Actions
<1> QED  BY <1>10, <1>h DEF TypeOK, Types

LEMMA InvKept == Inv /\ [Next]_vars => Inv'
<1> SUFFICES ASSUME Inv, [Next]_vars
             PROVE  Inv'
  OBVIOUS
<1>1. CASE Next
  BY <1>1, TypeKept, InOrderKept, FlowKept, HandsKept, EndsKept, PassesKept,
     UnproducedKept, StagesKept, LeftKept DEF Inv
<1>2. CASE UNCHANGED vars
  <2>1. Over \/ UNCHANGED vars
    BY <1>2
  <2> QED  BY <1>2 DEF vars, routeVars, chanVars, threadVars, historyVars, Inv, TypeOK,
           InOrder, Flow, Hands, Ends, Passes, Unproduced, Stages, Left, Held, Started,
           Reached, Sent, Into
<1> QED  BY <1>1, <1>2

\* Nothing is left anywhere once the relay has returned.
LEMMA WholeThen == Inv => WholeOnReturn
<1> SUFFICES ASSUME Inv, call = "returned"
             PROVE  /\ \A k \in Step :
                          (\A j \in k..N : j \notin ended) =>
                              seen[k] = IF k = 1 THEN Run(B, entered) ELSE seen[k - 1]
                    /\ Len(back) + Len(chan[Idle]) = B + Len(seen[N])
  BY DEF WholeOnReturn
<1> USE DEF Inv
<1>1. \A k \in Step : at[k] # "working" /\ k \notin panicked
  BY DEF Stages, TypeOK
<1>2. \A k \in Step : Sent(k) = Reached(k)
  BY <1>1 DEF Sent
<1>3. ASSUME NEW k \in Step, \A j \in k..N : j \notin ended
      PROVE  Reached(k) = Into(k)
  <2>1. CASE route = "here"
    <3>1. k \in Channel
      BY NAssumption DEF Step, Channel
    <3> QED  BY <2>1, <3>1, HereEven
  <2>2. CASE route = "across"
    <3>1. at[k] = "gone" /\ panicked = {}
      BY <2>2 DEF Stages
    <3> QED  BY <2>2, <3>1, <1>3 DEF Left
  <2> QED  BY <2>1, <2>2 DEF TypeOK
<1>4. ASSUME NEW k \in Step, \A j \in k..N : j \notin ended
      PROVE  seen[k] = IF k = 1 THEN Run(B, entered) ELSE seen[k - 1]
  <2>1. seen[k] = Run(B, Reached(k))
    BY DEF InOrder, Reached
  <2>2. CASE k = 1
    <3>1. Reached(k) = entered
      BY <1>3, <1>4, <2>2 DEF Into
    <3> QED  BY <2>1, <2>2, <3>1
  <2>3. CASE k # 1
    <3>1. k - 1 \in Step
      BY <2>3, NAssumption DEF Step
    <3>2. Reached(k) = Reached(k - 1)
      BY <1>2, <1>3, <1>4, <2>3, <3>1 DEF Into
    <3>3. seen[k - 1] = Run(B, Reached(k - 1))
      BY <3>1 DEF InOrder, Reached
    <3>4. seen[k] = seen[k - 1]
      BY <2>1, <3>2, <3>3
    <3> QED  BY <2>3, <3>4
  <2> QED  BY <2>2, <2>3
<1>5. Len(back) + Len(chan[Idle]) = B + Len(seen[N])
  <2>1. N \in Step /\ Idle \in Channel /\ Idle # 1 /\ Idle - 1 = N
    BY NAssumption DEF Step, Channel, Idle
  <2>2. Into(Idle) = Reached(N)
    BY <2>1, <1>2 DEF Into
  <2>3. /\ chan[Idle] = Run(Len(back), Reached(N)) /\ Len(back) <= Reached(N)
        /\ Len(back) \in Nat /\ Reached(N) \in Nat
    BY <2>1, <2>2, Numbers DEF Flow
  <2>4. Len(chan[Idle]) = Reached(N) - Len(back)
    BY <2>3, RunIsSeq
  <2> QED  BY <2>3, <2>4 DEF Reached
<1> QED  BY <1>4, <1>5

-----------------------------------------------------------------------------
(* The theorems.                                                           *)

\* The invariant holds of every state of the relay.
THEOREM Invariance == Spec => []Inv
<1>1. Init => Inv
  BY InitInv
<1>2. Inv /\ [Next]_vars => Inv'
  BY InvKept
<1> QED  BY <1>1, <1>2, PTL DEF Spec

\* Every variable keeps its type, and the producer never holds fewer than no
\* buffers or more than there are (task.rs:157, 167).
THEOREM TypeCorrect == Spec => []TypeOK
<1>1. Inv => TypeOK
  BY DEF Inv
<1> QED  BY <1>1, Invariance, PTL

\* Whatever the steps say, panic or cannot be started, each of them sees the
\* passes in order, none skipped and none twice, and the buffers come back to
\* take() in the order they were passed (task.rs:204-302).
THEOREM OrderKept == Spec => []InOrder
<1>1. Inv => InOrder
  BY DEF Inv
<1> QED  BY <1>1, Invariance, PTL

\* When the relay returns, what went in has gone through every step up to one
\* that said no, and all of what the last step saw came back, across threads
\* as on one (task.rs:273-301).
THEOREM Whole == Spec => []WholeOnReturn
BY Invariance, WholeThen, PTL

-----------------------------------------------------------------------------
(* Nobody is turned away early.  While take() waits the producer may ask,  *)
(* and the end of a channel between the steps only goes when the first     *)
(* channel's has, or a step has said no or panicked.                       *)

MayAsk ==
    call = "take" => \/ Held < B
                     \/ route = "across" /\ ~sender[1]
                     \/ route = "here" /\ ~more

EndsInTurn ==
    route = "across" /\ (\E c \in Channel : ~sender[c])
        => ~sender[1] \/ ended # {} \/ panicked # {}

LEMMA MayAskKept ==
    ASSUME Inv, MayAsk, Next
    PROVE  MayAsk'
<1> USE DEF MayAsk, routeVars, chanVars, threadVars, historyVars
<1>1. CASE StartTake
  BY <1>1 DEF StartTake, Held
<1>2. CASE \E k \in Step : StepThread(k)
  <2>1. PICK k \in Step : StepThread(k)
    BY <1>2
  <2>2. /\ call' = call /\ route' = route /\ more' = more
        /\ passed' = passed /\ back' = back
    BY <2>1, ThreadStays DEF StepThread, Inv
  <2>3. Held' = Held
    BY <2>2 DEF Held
  <2>4. sender' = sender \/ sender' = [sender EXCEPT ![k + 1] = FALSE]
    BY <2>1 DEF StepThread, Receive, Disconnected, End, Panic, Leave
  <2>5. k + 1 # 1 /\ 1 \in Channel
    BY NAssumption DEF Step, Channel
  <2>6. sender'[1] = sender[1]
    BY <2>4, <2>5 DEF Inv, TypeOK
  <2> QED  BY <2>2, <2>3, <2>6
<1>3. CASE \/ PassAcross \/ PassHereRefused \/ Finish \/ Produced \/ Joined \/ Take \/ TakeNone
           \/ \E noes \in SUBSET Step : PassHere(noes)
           \/ \E k \in Step : PassHerePanics(k)
           \/ \E k \in Step : Spawn(k)
           \/ \E k \in Step : SpawnFails(k)
  <2>1. call' # "take"
    BY <1>3 DEF PassAcross, PassHereRefused, Finish, Produced, Joined, Take, TakeNone,
       PassHere, PassHerePanics, Spawn, SpawnFails
  <2> QED  BY <2>1
<1>4. CASE Over
  BY <1>4 DEF Over, vars, Held
<1> QED  BY <1>1, <1>2, <1>3, <1>4 DEF Next, Producer, Caller

LEMMA EndsInTurnKept ==
    ASSUME Inv, EndsInTurn, Next
    PROVE  EndsInTurn'
<1> USE DEF EndsInTurn, routeVars, chanVars, threadVars, historyVars
<1>0. /\ 1 \in Channel /\ sender \in [Channel -> BOOLEAN] /\ N \in Nat \ {0}
      /\ \A k \in Step : k \in Channel /\ k + 1 \in Channel /\ k + 1 # 1
  BY NAssumption DEF Inv, TypeOK, Step, Channel
<1>1. ASSUME NEW k \in Step, Leave(k) PROVE EndsInTurn'
  <2>1. /\ sender' = [sender EXCEPT ![k + 1] = FALSE] /\ at[k] = "leaving"
        /\ UNCHANGED <<route, ended, panicked>>
    BY <1>1 DEF Leave
  <2>2. ASSUME route = "across" PROVE ~sender[1] \/ ended # {} \/ panicked # {}
    BY <1>0, <2>1, <2>2 DEF Inv, Left
  <2> QED  BY <1>0, <2>1, <2>2
<1>2. ASSUME NEW k \in Step,
             \/ Receive(k) \/ Disconnected(k) \/ (\E wants \in BOOLEAN : End(k, wants))
             \/ Panic(k)
      PROVE  EndsInTurn'
  <2>1. UNCHANGED <<route, sender>> /\ ended \subseteq ended' /\ panicked \subseteq panicked'
    BY <1>2 DEF Receive, Disconnected, End, Panic
  <2> QED  BY <2>1
<1>3. ASSUME NEW k \in Step, SpawnFails(k) PROVE EndsInTurn'
  <2>1. /\ sender' = [c \in Channel |-> sender[c] /\ 1 < c /\ c <= k]
        /\ ~(1 < 1)
    BY <1>3 DEF SpawnFails
  <2>2. ~sender'[1]
    BY <1>0, <2>1, Zenon
  <2> QED  BY <2>2
<1>4. CASE Finish \/ Produced
  <2>1. sender' = sender \/ sender' = [sender EXCEPT ![1] = FALSE]
    BY <1>4 DEF Finish, Produced
  <2>2. UNCHANGED <<route, ended, panicked>>
    BY <1>4 DEF Finish, Produced
  <2> QED  BY <1>0, <2>1, <2>2
<1>5. CASE Joined
  <2>1. route' = route \/ route' = "here"
    BY <1>5 DEF Joined
  <2>2. UNCHANGED <<sender, ended, panicked>>
    BY <1>5 DEF Joined
  <2> QED  BY <2>1, <2>2
<1>6. CASE \/ StartTake \/ PassAcross \/ PassHereRefused \/ Take \/ TakeNone \/ Over
           \/ \E k \in Step : Spawn(k)
  <2>1. UNCHANGED <<route, sender, ended, panicked>>
    BY <1>6 DEF StartTake, PassAcross, PassHereRefused, Take, TakeNone, Over, Spawn, vars
  <2> QED  BY <2>1
<1>7. CASE \/ \E noes \in SUBSET Step : PassHere(noes)
           \/ \E k \in Step : PassHerePanics(k)
  <2>1. route' = "here"
    BY <1>7 DEF PassHere, PassHerePanics
  <2> QED  BY <2>1
<1> QED  BY <1>1, <1>2, <1>3, <1>4, <1>5, <1>6, <1>7, Actions

LEMMA TurnedAwayStep ==
    ASSUME Inv, MayAsk, EndsInTurn, EndsInTurn', Next,
           \/ call = "take" /\ call' = "produce" /\ back' = back
           \/ refused' # refused
    PROVE  Ending'
<1> USE DEF Ending, routeVars, chanVars, threadVars, historyVars
<1>0. /\ 1 \in Channel /\ Idle \in Channel /\ 1 \in Step /\ N \in Step /\ Idle = N + 1
      /\ sender \in [Channel -> BOOLEAN]
  BY NAssumption DEF Inv, TypeOK, Step, Channel, Idle
<1>1. CASE TakeNone
  <2>1. /\ chan[Idle] = <<>> /\ call = "take" /\ (route = "here" \/ ~sender[Idle])
        /\ UNCHANGED <<route, more, sender, ended, panicked>>
    BY <1>1 DEF TakeNone
  <2>2. CASE route = "across"
    BY <1>0, <2>1, <2>2 DEF EndsInTurn
  <2>3. CASE route = "here"
    <3>1. SUFFICES ASSUME more PROVE FALSE
      BY <2>1, <2>3
    <3>2. Into(Idle) = entered /\ entered = passed
      <4>1. Reached(N) = entered
        BY <1>0, <2>1, <2>3 DEF Inv, Stages
      <4>2. N \notin panicked /\ at[N] # "working" /\ Idle # 1 /\ Idle - 1 = N
        BY <1>0, <2>1, <2>3, NAssumption DEF Inv, Stages
      <4>3. Into(Idle) = entered
        BY <4>1, <4>2 DEF Into, Sent
      <4> QED  BY <2>1, <2>3, <3>1, <4>3 DEF Inv, Passes
    <3>3. Len(back) \in Nat /\ passed \in Nat /\ Len(back) <= passed
          /\ chan[Idle] = Run(Len(back), passed)
      BY <3>2, Numbers DEF Inv, Flow, TypeOK
    <3>4. Len(back) = passed
      BY <2>1, <3>3, EmptyRunEnds
    <3>5. Held = B
      BY <3>3, <3>4, BAssumption DEF Held
    <3> QED  BY <2>1, <2>3, <3>1, <3>5, BAssumption DEF MayAsk
  <2> QED  BY <2>2, <2>3 DEF Inv, TypeOK
<1>2. CASE PassAcross
  <2>1. /\ route = "across" /\ call = "produce" /\ UNCHANGED <<route, sender, ended, panicked>>
        /\ (refused' # refused => ~sender[1] \/ ~receiver[1])
    BY <1>2 DEF PassAcross
  <2>2. ~receiver[1] => at[1] = "gone"
    <3>1. at[1] \in Places /\ at[1] # "none"
      BY <1>0, <2>1 DEF Inv, Stages, Started, TypeOK
    <3> QED  BY <1>0, <3>1 DEF Inv, Ends, Places
  <2>3. call' = "produce"
    BY <1>2 DEF PassAcross
  <2> QED  BY <1>0, <2>1, <2>2, <2>3 DEF Inv, Left
<1>3. CASE PassHereRefused
  BY <1>3 DEF PassHereRefused
<1>4. ASSUME NEW noes \in SUBSET Step, PassHere(noes) PROVE Ending'
  BY <1>4 DEF PassHere
<1>5. CASE \/ \E k \in Step : PassHerePanics(k)
           \/ \E k \in Step : StepThread(k)
           \/ StartTake \/ Finish \/ Produced \/ Joined \/ Take \/ Over
           \/ \E k \in Step : Spawn(k)
           \/ \E k \in Step : SpawnFails(k)
  <2>1. UNCHANGED refused
    <3>1. CASE \E k \in Step : StepThread(k)
      BY <3>1, ThreadStays DEF StepThread, Inv
    <3>2. CASE \/ StartTake \/ Finish \/ Produced \/ Joined \/ Take \/ Over
               \/ \E k \in Step : Spawn(k)
               \/ \E k \in Step : SpawnFails(k)
               \/ \E k \in Step : PassHerePanics(k)
      BY <3>2 DEF StartTake, Finish, Produced, Joined, Take, Over, Spawn, SpawnFails,
         PassHerePanics, vars
    <3> QED  BY <1>5, <3>1, <3>2
  <2>2. CASE Take
    <3>1. back' = Append(back, Head(chan[Idle])) /\ back \in Seq(Nat)
      BY <2>2 DEF Take, Inv, TypeOK
    <3>2. Len(back') = Len(back) + 1 /\ Len(back) \in Nat
      BY <3>1, LenProperties
    <3> QED  BY <2>1, <3>2
  <2>3. CASE \/ \E k \in Step : PassHerePanics(k)
             \/ \E k \in Step : StepThread(k)
             \/ StartTake \/ Finish \/ Produced \/ Joined \/ Over
             \/ \E k \in Step : Spawn(k)
             \/ \E k \in Step : SpawnFails(k)
    <3>1. CASE \E k \in Step : StepThread(k)
      <4>1. call' = call
        BY <3>1, ThreadStays DEF StepThread, Inv
      <4> QED  BY <2>1, <4>1
    <3>2. CASE \/ StartTake \/ Finish \/ Produced \/ Joined \/ Over
               \/ \E k \in Step : Spawn(k)
               \/ \E k \in Step : SpawnFails(k)
               \/ \E k \in Step : PassHerePanics(k)
      <4>1. call # "take" \/ call' = call
        BY <3>2 DEF StartTake, Finish, Produced, Joined, Over, Spawn, SpawnFails,
           PassHerePanics, vars
      <4> QED  BY <2>1, <4>1
    <3> QED  BY <2>3, <3>1, <3>2
  <2> QED  BY <1>5, <2>2, <2>3
<1> QED  BY <1>1, <1>2, <1>3, <1>4, <1>5, Actions DEF Next, Producer, Caller

\* take() gives None, and pass() false, only once the producer has called
\* finish(), or a step has said no or panicked: a step that waits, or a thread
\* that could not be started, never turns a pass away (task.rs:155, 164).
THEOREM TurnedAwayRightly == Spec => TurnedAwayOnlyAtTheEnd
<1> DEFINE Strong == Inv /\ MayAsk /\ EndsInTurn
<1>1. Init => Strong
  <2> SUFFICES ASSUME Init PROVE Strong
    OBVIOUS
  <2>1. call # "take" /\ \A c \in Channel : sender[c]
    BY DEF Init
  <2> QED  BY <2>1, InitInv DEF MayAsk, EndsInTurn
<1>2. Strong /\ [Next]_vars => Strong'
  <2>1. ASSUME Strong, UNCHANGED vars PROVE Strong'
    <3>1. Inv'
      BY <2>1, InvKept
    <3>2. MayAsk' /\ EndsInTurn'
      BY <2>1 DEF vars, routeVars, chanVars, historyVars, MayAsk, EndsInTurn, Held
    <3> QED  BY <3>1, <3>2
  <2>2. ASSUME Strong, Next PROVE Strong'
    BY <2>2, InvKept, MayAskKept, EndsInTurnKept
  <2> QED  BY <2>1, <2>2
<1>3. ASSUME Strong, Strong', [Next]_vars
      PROVE  [(call = "take" /\ call' = "produce" /\ back' = back)
                  \/ refused' # refused => Ending']_vars
  BY <1>3, TurnedAwayStep
<1>4. Spec => []Strong
  BY <1>1, <1>2, PTL DEF Spec
<1> QED  BY <1>3, <1>4, PTL DEF Spec, TurnedAwayOnlyAtTheEnd

---------------------------------------------------------------------------
(* The frame on top of it.                                                 *)


Dry == IF dryModes < dryCoeffs THEN dryModes ELSE dryCoeffs

\* The first row the producer itself finds dry.
FirstDry == IF schedule = "light" THEN Dry ELSE dryModes

RowTypes ==
    /\ schedule \in Schedules /\ dryModes \in 0..Rows /\ dryCoeffs \in 0..Rows
    /\ pc \in {"rows", "parse", "finish", "drain", "over"}
    /\ row \in 0..Rows
    /\ ret \in {"none", "failed"} /\ overran \in BOOLEAN
    /\ recon \in Seq([row : Int, filter : BOOLEAN])
    /\ result \in {"none", "failed", "decoded"}

\* No step panics, and only one that parses says no.
Calm == panicked = {} /\ ended \subseteq IF schedule = "light" THEN {} ELSE {1}

\* Row after row is passed until one is dry or the producer is turned away,
\* which it is only once a step has found one.
Passing ==
    /\ pc \in {"rows", "parse"} =>
           /\ \/ call \in {"spawn", "produce", "take"}
              \/ call = "join" /\ Started # Step
           /\ row < Rows /\ row <= FirstDry /\ passed = B + row
           /\ ret = "none" /\ refused = {}
           /\ route = "across" /\ call \in {"spawn", "produce", "take"} => sender[1]
           /\ ~more => ended # {}
    /\ pc = "parse" => call = "produce"
    /\ call = "take" => pc \in {"rows", "drain"}
    /\ pc = "drain" => schedule # "light"
    /\ refused = {} => entered = passed

Passed ==
    pc \in {"finish", "drain", "over"} =>
        /\ \/ call \in {"produce", "take"}
           \/ pc = "over" /\ (call = "returned" \/ (call = "join" /\ Started = Step))
        /\ \/ /\ ret = "none" /\ passed = B + Rows /\ refused = {}
              /\ Rows <= FirstDry
           \/ /\ ret = "failed" /\ ended # {}
              /\ passed <= B + FirstDry + 1 /\ passed <= B + Rows
           \/ /\ ret = "failed" /\ refused = {}
              /\ FirstDry < Rows /\ passed = B + FirstDry + 1

\* A step that parses sees no row below the first dry one.
Parsing ==
    schedule # "light" =>
        /\ 1 \notin ended => \/ Len(seen[1]) <= Dry
                             \/ Len(seen[1]) = Dry + 1 /\ at[1] = "working"
        /\ 1 \in ended => /\ Len(seen[1]) = Dry + 1 /\ overran
                          /\ at[1] \notin {"waiting", "working"}
                          /\ route = "here" => ~more

Rebuilding ==
    Len(recon) = IF schedule = "heavy"
                 THEN IF Len(back) > B THEN Len(back) - B ELSE 0
                 ELSE Sent(N) - B

Outcome ==
    /\ overran => ended # {} \/ ret = "failed"
    /\ result # "none" => call = "returned"
    /\ pc = "over" /\ schedule = "heavy" =>
           chan[Idle] = <<>> /\ (route = "here" \/ ~sender[Idle])

RowParts ==
    RowTypes /\ Calm /\ Passing /\ Passed /\ Parsing /\ Rebuilding /\ Outcome

RowInv ==
    /\ ScheduleAssumption /\ RowsAssumption
    /\ Inv /\ MayAsk /\ EndsInTurn
    /\ RowParts

-----------------------------------------------------------------------------
(* What the parts say together.                                            *)

LEMMA DryRows ==
    ASSUME RowTypes, RowsAssumption
    PROVE  /\ Rows \in Nat /\ Dry \in 0..Rows /\ FirstDry \in 0..Rows /\ Dry <= FirstDry
           /\ \A r \in Int : /\ DryIn(r) <=> r >= Dry
                             /\ ProducerDry(r) <=> r >= FirstDry
BY DEF RowTypes, RowsAssumption, Dry, FirstDry, DryIn, ProducerDry

LEMMA Roles ==
    ASSUME RowTypes, ScheduleAssumption
    PROVE  /\ schedule \in {"three", "heavy", "light"}
           /\ schedule = "three" => N = 2 /\ Step = {1, 2}
           /\ schedule # "three" => N = 1 /\ Step = {1}
           /\ 1 \in Step /\ N \in Step
           /\ \A k \in Step :
                  /\ Parses(k) <=> schedule # "light" /\ k = 1
                  /\ Reconstructs(k) <=> schedule # "heavy" /\ k = N
                  /\ Parses(k) => k # N \/ schedule = "heavy"
BY DEF RowTypes, ScheduleAssumption, Step, Parses, Reconstructs

\* How far everyone has got.
LEMMA Progress ==
    ASSUME RowInv
    PROVE  /\ passed <= B + Rows /\ passed <= B + FirstDry + 1
           /\ entered <= passed /\ entered \in Nat /\ passed \in Nat
           /\ \A k \in Step : B + Len(seen[k]) <= entered /\ Len(seen[k]) \in Nat
           /\ Len(seen[1]) <= Dry + 1
           /\ B \in Nat \ {0}
<1>1. /\ Rows \in Nat /\ Dry \in 0..Rows /\ FirstDry \in 0..Rows /\ row \in 0..Rows
      /\ passed \in Nat /\ entered \in Nat /\ B \in Nat \ {0}
  BY DryRows, BAssumption DEF RowInv, RowParts, Inv, TypeOK, RowTypes
<1>2. passed <= B + Rows /\ passed <= B + FirstDry + 1
  <2>1. CASE pc \in {"rows", "parse"}
    BY <1>1, <2>1 DEF RowInv, RowParts, Passing
  <2>2. CASE pc \in {"finish", "drain", "over"}
    BY <1>1, <2>2 DEF RowInv, RowParts, Passed
  <2> QED  BY <2>1, <2>2 DEF RowInv, RowParts, RowTypes
<1>3. /\ entered <= passed
      /\ \A k \in Step : B + Len(seen[k]) <= entered /\ Len(seen[k]) \in Nat
  BY Numbers DEF RowInv, Inv, Passes, Reached
<1>4. 1 \in Step
  BY Roles DEF RowInv, RowParts
<1>5. Len(seen[1]) <= Dry + 1
  <2>1. CASE schedule = "light"
    BY <1>1, <1>2, <1>3, <1>4, <2>1 DEF FirstDry
  <2>2. CASE schedule # "light"
    BY <1>1, <1>3, <1>4, <2>2 DEF RowInv, RowParts, Parsing
  <2> QED  BY <2>1, <2>2
<1> QED  BY <1>1, <1>2, <1>3, <1>5

\* A step of the decode is one of the relay, or leaves it alone.
LEMMA RowNextIsNext ==
    ASSUME [RowNext]_<<vars, rowVars>>
    PROVE  [Next]_vars
<1>1. CASE \/ Ask \/ Taken \/ NoneTaken \/ ParseAcross \/ FinishRows \/ ProducerOver
           \/ Return \/ Joined \/ \E k \in Step : Spawn(k) \/ SpawnFails(k)
  <2>1. \/ StartTake \/ Take \/ TakeNone \/ PassAcross \/ Finish \/ Produced \/ Joined
        \/ UNCHANGED vars \/ \E k \in Step : Spawn(k) \/ SpawnFails(k)
    BY <1>1 DEF Ask, Taken, NoneTaken, ParseAcross, FinishRows, ProducerOver, Return
  <2> QED  BY <2>1 DEF Next, Producer, Caller
<1>2. CASE ParseHere
  <2>1. {1} \in SUBSET Step /\ {} \in SUBSET Step
    BY NAssumption DEF Step
  <2>2. PassHere({1}) \/ PassHere({})
    BY <1>2 DEF ParseHere
  <2> QED  BY <2>1, <2>2 DEF Next, Producer
<1>3. ASSUME NEW k \in Step, RowStep(k) PROVE Next
  <2>1. \/ End(k, TRUE) \/ End(k, FALSE) \/ Receive(k) \/ Disconnected(k) \/ Leave(k)
    <3>1. CASE ParseStep(k)
      <4> DEFINE wants == ~DryIn(RowOf(hand[k]))
      <4>1. End(k, wants) /\ wants \in BOOLEAN
        BY <3>1 DEF ParseStep
      <4> HIDE DEF wants
      <4> QED  BY <4>1
    <3>2. CASE ReconstructStep(k)
      BY <3>2 DEF ReconstructStep
    <3> QED  BY <1>3, <3>1, <3>2 DEF RowStep
  <2>2. StepThread(k)
    BY <2>1 DEF StepThread
  <2> QED  BY <2>2 DEF Next
<1>4. CASE RowOver \/ UNCHANGED <<vars, rowVars>>
  BY <1>4 DEF RowOver
<1> QED  BY <1>1, <1>2, <1>3, <1>4 DEF RowNext, Calling

LEMMA RelayKept ==
    ASSUME RowInv, [RowNext]_<<vars, rowVars>>
    PROVE  Inv' /\ MayAsk' /\ EndsInTurn'
<1>1. [Next]_vars
  BY RowNextIsNext
<1>2. CASE Next
  BY <1>2, InvKept, MayAskKept, EndsInTurnKept DEF RowInv
<1>3. CASE UNCHANGED vars
  <2>1. MayAsk' /\ EndsInTurn'
    BY <1>3 DEF RowInv, vars, routeVars, chanVars, historyVars, MayAsk, EndsInTurn, Held
  <2> QED  BY <1>3, <2>1, InvKept DEF RowInv
<1> QED  BY <1>1, <1>2, <1>3

\* Whoever is turned away while rows are left is so by a step that said no.
LEMMA TurnedAwayByAStep ==
    ASSUME RowInv, pc \in {"rows", "parse"}, call \in {"produce", "take"}, Next,
           UNCHANGED <<route, more, sender, ended, panicked>>, EndsInTurn',
           \/ call = "take" /\ call' = "produce" /\ back' = back
           \/ refused' # refused
    PROVE  ended # {}
<1>1. Ending'
  BY TurnedAwayStep DEF RowInv
<1>2. route \in {"here", "across"}
  BY DEF RowInv, Inv, TypeOK
<1> QED  BY <1>1, <1>2 DEF Ending, RowInv, RowParts, Passing, Calm

-----------------------------------------------------------------------------
(* Each step keeps the parts.                                              *)

\* Nothing any of the parts is about changes.
LEMMA SentAsBefore ==
    ASSUME NEW k \in Step, UNCHANGED <<seen, panicked>>,
           at[k] = "working" <=> at'[k] = "working"
    PROVE  Sent(k)' = Sent(k)
BY DEF Sent, Reached

LEMMA AskKept ==
    ASSUME RowInv, Ask
    PROVE  RowParts'
<1> USE DEF RowInv, RowParts, rowVars, inputVars, progVars, routeVars, chanVars, threadVars,
            historyVars
<1>1. /\ UNCHANGED <<routeVars, chanVars, threadVars, historyVars, rowVars>>
      /\ call' = "take" /\ pc \in {"rows", "drain"} /\ call = "produce"
  BY DEF Ask, StartTake
<1>2. Sent(N)' = Sent(N) /\ Started' = Started
  BY <1>1 DEF Sent, Reached, Started
<1>3. RowTypes' /\ Calm'
  BY <1>1 DEF RowTypes, Calm
<1>4. Passing' /\ Passed'
  BY <1>1, <1>2 DEF Passing, Passed, FirstDry, Dry
<1>5. Parsing' /\ Rebuilding' /\ Outcome'
  BY <1>1, <1>2 DEF Parsing, Rebuilding, Outcome, Dry
<1> QED  BY <1>3, <1>4, <1>5

LEMMA ThreadKept ==
    ASSUME RowInv, NEW k \in Step, Receive(k) \/ Disconnected(k) \/ Leave(k),
           UNCHANGED rowVars
    PROVE  RowParts'
<1> USE DEF RowInv, RowParts, rowVars, inputVars, progVars
<1>1. /\ UNCHANGED <<call, route, more, passed, entered, back, refused, Started>>
      /\ at'[k] \notin {"none"} /\ \A j \in Step : j # k => at'[j] = at[j]
  BY ThreadStays DEF Inv
<1>2. /\ UNCHANGED <<ended, panicked>> /\ sender'[1] = sender[1] /\ k # Idle /\ k \in Channel
      /\ chan'[Idle] = chan[Idle] /\ (~sender[Idle] => ~sender'[Idle])
  <2>1. k # Idle /\ k \in Channel /\ k + 1 \in Channel /\ k + 1 # 1 /\ Idle \in Channel
    BY NAssumption DEF Step, Idle, Channel
  <2>2. UNCHANGED <<ended, panicked>> /\ chan' \in {[chan EXCEPT ![k] = Tail(@)],
                                                   [chan EXCEPT ![k] = <<>>], chan}
        /\ sender' \in {sender, [sender EXCEPT ![k + 1] = FALSE]}
    BY DEF Receive, Disconnected, Leave, chanVars, historyVars
  <2>3. sender \in [Channel -> BOOLEAN] /\ chan \in [Channel -> Seq(Nat)] /\ 1 \in Channel
    BY NAssumption DEF Inv, TypeOK, Channel
  <2>4. sender'[1] = sender[1] /\ (~sender[Idle] => ~sender'[Idle])
    BY <2>1, <2>2, <2>3
  <2>5. chan'[Idle] = chan[Idle]
    BY <2>1, <2>2, <2>3
  <2> QED  BY <2>1, <2>2, <2>4, <2>5
<1>3. \/ /\ at[k] = "waiting" /\ at'[k] = "working" /\ Len(seen'[k]) = Len(seen[k]) + 1
         /\ \A j \in Step : j # k => seen'[j] = seen[j]
      \/ UNCHANGED seen /\ at[k] # "working" /\ at'[k] \in {"leaving", "gone"}
  <2>1. at \in [Step -> Places] /\ seen \in [Step -> Seq(Nat)] /\ chan \in [Channel -> Seq(Nat)]
    BY DEF Inv, TypeOK
  <2>2. CASE Receive(k)
    <3>1. /\ at[k] = "waiting" /\ at' = [at EXCEPT ![k] = "working"]
          /\ seen' = [seen EXCEPT ![k] = Append(@, Head(chan[k]))]
          /\ chan[k] # <<>>
      BY <2>2 DEF Receive
    <3>2. Head(chan[k]) \in Nat /\ seen[k] \in Seq(Nat)
      BY <1>2, <2>1, <3>1, HeadTailProperties
    <3>3. Len(Append(seen[k], Head(chan[k]))) = Len(seen[k]) + 1
      BY <3>2
    <3> QED  BY <2>1, <3>1, <3>3
  <2>3. CASE Disconnected(k) \/ Leave(k)
    BY <2>1, <2>3 DEF Disconnected, Leave, historyVars
  <2> QED  BY <2>2, <2>3
<1>4. k \notin panicked /\ k \in Step /\ 1 \in Step /\ N \in Step
  BY Roles DEF Calm
<1>5. Len(seen[k]) \in Nat /\ Len(seen[N]) \in Nat /\ Len(seen[1]) \in Nat /\ B \in Nat
      /\ Dry \in Nat
  BY <1>4, Numbers, DryRows DEF Inv
<1>6. Sent(N)' = Sent(N)
  BY <1>1, <1>2, <1>3, <1>4, <1>5 DEF Sent, Reached, Calm
<1>7. RowTypes' /\ Calm'
  BY <1>1, <1>2 DEF RowTypes, Calm
<1>8. Passing' /\ Passed'
  BY <1>1, <1>2 DEF Passing, Passed, FirstDry, Dry
<1>9. Parsing'
  <2>1. Dry' = Dry
    BY DEF Dry
  <2>2. CASE k = 1 /\ schedule # "light"
    BY <1>1, <1>2, <1>3, <1>5, <2>1, <2>2 DEF Parsing
  <2>3. CASE k # 1 \/ schedule = "light"
    BY <1>1, <1>2, <1>3, <1>4, <2>1, <2>3 DEF Parsing
  <2> QED  BY <2>2, <2>3
<1>10. Rebuilding' /\ Outcome'
  BY <1>1, <1>2, <1>6 DEF Rebuilding, Outcome
<1> QED  BY <1>7, <1>8, <1>9, <1>10

\* No thread has worked on anything while threads are being started, nor when
\* one of them could not be.
LEMMA NothingSeenYet ==
    ASSUME RowInv, call = "spawn" \/ (call = "join" /\ Started # Step)
    PROVE  ended = {} /\ pc \in {"rows", "parse"}
<1> USE DEF RowInv, RowParts
<1>1. pc \in {"rows", "parse"}
  BY DEF Passed, RowTypes
<1>2. 1 \in Step /\ Dry \in Nat
  BY Roles, DryRows
<1>3. seen[1] = <<>>
  BY <1>2 DEF Inv, Unproduced
<1>4. schedule # "light" => 1 \notin ended
  BY <1>2, <1>3 DEF Parsing
<1>5. ended = {}
  BY <1>4 DEF Calm
<1> QED  BY <1>1, <1>5

LEMMA SpawnKept ==
    ASSUME RowInv, NEW k \in Step, Spawn(k) \/ SpawnFails(k), UNCHANGED rowVars
    PROVE  RowParts'
<1> USE DEF RowInv, RowParts, rowVars, inputVars, progVars, routeVars, threadVars, chanVars,
            historyVars
<1>1. /\ call = "spawn" /\ Started = 1..k - 1
      /\ UNCHANGED <<route, more, hand, passed, refused, seen, back, entered, ended, panicked>>
  BY DEF Spawn, SpawnFails
<1>2. ended = {} /\ pc \in {"rows", "parse"}
  BY <1>1, NothingSeenYet
<1>3. /\ 1 \in Step /\ N \in Step /\ N \in Nat /\ k \in 1..N
      /\ k \notin Started
  BY <1>1, Roles, NAssumption DEF Step
<1>4. at[k] = "none" /\ at \in [Step -> Places]
  BY <1>3 DEF Started, Inv, TypeOK
<1>5. /\ at' = at \/ at' = [at EXCEPT ![k] = "waiting"]
      /\ \/ call' \in {"spawn", "produce"} /\ UNCHANGED <<chan, sender>>
         \/ call' = "join" /\ at' = at
  BY DEF Spawn, SpawnFails
<1>6. Sent(N)' = Sent(N)
  <2>1. at[N] = "working" <=> at'[N] = "working"
    BY <1>3, <1>4, <1>5
  <2> QED  BY <1>1, <1>3, <2>1, SentAsBefore
<1>7. call' = "join" => Started' # Step
  <2>1. call' = "join" => Started' = Started
    BY <1>5 DEF Started
  <2> QED  BY <1>3, <2>1
<1>8. RowTypes' /\ Calm'
  BY <1>1 DEF RowTypes, Calm
<1>9. Passing' /\ Passed'
  BY <1>1, <1>2, <1>5, <1>7 DEF Passing, Passed, FirstDry, Dry
<1>10. Parsing'
  <2>1. Dry' = Dry
    BY DEF Dry
  <2>2. at[1] = "working" => at'[1] = "working"
    BY <1>3, <1>4, <1>5
  <2> QED  BY <1>1, <1>2, <2>1, <2>2 DEF Parsing
<1>11. Rebuilding' /\ Outcome'
  BY <1>1, <1>2, <1>5, <1>6 DEF Rebuilding, Outcome
<1> QED  BY <1>8, <1>9, <1>10, <1>11

LEMMA JoinedKept ==
    ASSUME RowInv, Joined, UNCHANGED rowVars
    PROVE  RowParts'
<1> USE DEF RowInv, RowParts, rowVars, inputVars, progVars, routeVars, threadVars, chanVars,
            historyVars
<1>1. /\ call = "join"
      /\ UNCHANGED <<more, chan, sender, receiver, at, hand, passed, refused, seen, back,
                     entered, ended, panicked>>
      /\ \/ Started = Step /\ call' = "returned" /\ route' = route
         \/ Started # Step /\ call' = "produce" /\ route' = "here"
  BY DEF Joined, Calm
<1>2. Sent(N)' = Sent(N)
  BY <1>1 DEF Sent, Reached
<1>3. RowTypes' /\ Calm'
  BY <1>1 DEF RowTypes, Calm
<1>4. Started # Step => ended = {} /\ pc \in {"rows", "parse"}
  BY <1>1, NothingSeenYet
<1>5. Started = Step => pc = "over"
  BY <1>1 DEF Passing, Passed, RowTypes
<1>6. Passing'
  BY <1>1, <1>4, <1>5 DEF Passing, FirstDry, Dry
<1>7. Passed'
  BY <1>1, <1>4, <1>5 DEF Passed, FirstDry, Dry
<1>8. Parsing'
  BY <1>1, <1>4 DEF Parsing, Dry
<1>9. Rebuilding' /\ Outcome'
  BY <1>1, <1>2, <1>4 DEF Rebuilding, Outcome
<1> QED  BY <1>3, <1>6, <1>7, <1>8, <1>9

LEMMA OverKept ==
    ASSUME RowInv, ProducerOver \/ Return \/ UNCHANGED <<vars, rowVars>>
    PROVE  RowParts'
<1> USE DEF RowInv, RowParts, rowVars, inputVars, progVars, routeVars, threadVars, chanVars,
            historyVars
<1>1. CASE ProducerOver
  <2>1. /\ pc = "over" /\ call = "produce" /\ UNCHANGED rowVars
        /\ UNCHANGED <<route, more, chan, at, hand, passed, refused, seen, back,
                       entered, ended, panicked>>
        /\ sender' \in {sender, [sender EXCEPT ![1] = FALSE]}
        /\ \/ route = "here" /\ call' = "returned"
           \/ route # "here" /\ call' = "join"
    BY <1>1 DEF ProducerOver, Produced
  <2>2. Sent(N)' = Sent(N) /\ Started' = Started
    BY <2>1 DEF Sent, Reached, Started
  <2>3. route # "here" => Started = Step
    BY <2>1 DEF Inv, Stages, TypeOK
  <2>4. ~sender[Idle] => ~sender'[Idle]
    <3>1. Idle \in Channel /\ 1 \in Channel /\ sender \in [Channel -> BOOLEAN] /\ Idle # 1
      BY NAssumption DEF Inv, TypeOK, Channel, Idle
    <3> QED  BY <2>1, <3>1
  <2>5. RowTypes' /\ Calm'
    BY <2>1 DEF RowTypes, Calm
  <2>6. Passing' /\ Passed'
    BY <2>1, <2>2, <2>3 DEF Passing, Passed, FirstDry, Dry
  <2>7. Parsing' /\ Rebuilding' /\ Outcome'
    BY <2>1, <2>2, <2>4 DEF Parsing, Rebuilding, Outcome, Dry
  <2> QED  BY <2>5, <2>6, <2>7
<1>2. CASE Return \/ UNCHANGED <<vars, rowVars>>
  <2>1. /\ UNCHANGED <<vars, inputVars, progVars, overran, recon>>
        /\ \/ result' = result
           \/ call = "returned" /\ result' \in {"failed", "decoded"}
    BY <1>2 DEF Return
  <2>2. Sent(N)' = Sent(N) /\ Started' = Started
    BY <2>1 DEF Sent, Reached, Started, vars
  <2>3. RowTypes' /\ Calm'
    BY <2>1 DEF RowTypes, Calm, vars
  <2>4. Passing' /\ Passed'
    BY <2>1, <2>2 DEF Passing, Passed, FirstDry, Dry, vars
  <2>5. Parsing' /\ Rebuilding' /\ Outcome'
    BY <2>1, <2>2 DEF Parsing, Rebuilding, Outcome, Dry, vars
  <2> QED  BY <2>3, <2>4, <2>5
<1> QED  BY <1>1, <1>2

\* What take() gives back is the pass after the last it gave back.
LEMMA NextBack ==
    ASSUME RowInv, chan[Idle] # <<>>
    PROVE  /\ Head(chan[Idle]) = Len(back) + 1 /\ Len(back) \in Nat
           /\ Len(back) < Sent(N) /\ Sent(N) \in Int
<1> USE DEF RowInv, RowParts
<1>1. /\ N \in Step /\ Idle # 1 /\ Idle - 1 = N /\ Len(back) \in Nat
      /\ Sent(N) \in Int
  BY Numbers, NAssumption DEF Inv, Step, Idle
<1>2. Len(back) <= Sent(N) /\ chan[Idle] = Run(Len(back), Sent(N))
  BY <1>1 DEF Inv, Flow, Into
<1>3. Sent(N) \in Nat
  BY <1>1, <1>2
<1> QED  BY <1>1, <1>2, <1>3, RunShrinks

LEMMA TakenKept ==
    ASSUME RowInv, Taken
    PROVE  RowParts'
<1> USE DEF RowInv, RowParts, inputVars, routeVars, threadVars, chanVars, historyVars
<1>1. /\ call = "take" /\ call' = "produce" /\ chan[Idle] # <<>>
      /\ back' = Append(back, Head(chan[Idle]))
      /\ UNCHANGED <<schedule, dryModes, dryCoeffs, row, ret, overran, result>>
      /\ UNCHANGED <<route, more, sender, at, hand, passed, refused, seen, entered, ended,
                     panicked>>
      /\ pc' = IF pc = "rows" THEN "parse" ELSE pc
      /\ recon' = IF schedule = "heavy" /\ Pending(Head(chan[Idle]))
                  THEN Reconstructed(RowOf(Head(chan[Idle]))) ELSE recon
  BY DEF Taken, Take
<1>2. pc \in {"rows", "drain"}
  BY <1>1 DEF Passing
<1>3. /\ Head(chan[Idle]) = Len(back) + 1 /\ Len(back) \in Nat /\ B \in Nat
  BY <1>1, NextBack, BAssumption
<1>4. Len(back') = Len(back) + 1
  BY <1>1, <1>3 DEF Inv, TypeOK
<1>5. /\ Pending(Head(chan[Idle])) <=> Len(back) + 1 > B
      /\ RowOf(Head(chan[Idle])) \in Int
  BY <1>3 DEF Pending, RowOf
<1>6. \/ recon' = recon /\ ~(schedule = "heavy" /\ Len(back) + 1 > B)
      \/ /\ schedule = "heavy" /\ Len(back) + 1 > B /\ Len(recon') = Len(recon) + 1
         /\ recon' \in Seq([row : Int, filter : BOOLEAN])
  <2> DEFINE r == RowOf(Head(chan[Idle]))
  <2>1. [row |-> r, filter |-> ~DryIn(r)] \in [row : Int, filter : BOOLEAN]
    BY <1>5
  <2> DEFINE e == [row |-> r, filter |-> ~DryIn(r)]
  <2>2. recon \in Seq([row : Int, filter : BOOLEAN])
    BY DEF RowTypes
  <2>3. recon' = recon \/ recon' = Append(recon, e)
    BY <1>1 DEF Reconstructed
  <2> HIDE DEF e
  <2>4. /\ Append(recon, e) \in Seq([row : Int, filter : BOOLEAN])
        /\ Len(Append(recon, e)) = Len(recon) + 1
    BY <2>1, <2>2 DEF e
  <2> QED  BY <1>1, <1>5, <2>3, <2>4 DEF Reconstructed, e
<1>7. Sent(N)' = Sent(N) /\ Dry' = Dry /\ FirstDry' = FirstDry
  BY <1>1 DEF Sent, Reached, Dry, FirstDry
<1>8. RowTypes' /\ Calm'
  BY <1>1, <1>6 DEF RowTypes, Calm
<1>9. Passing' /\ Passed'
  BY <1>1, <1>2, <1>7 DEF Passing, Passed
<1>10. Parsing'
  BY <1>1, <1>7 DEF Parsing
<1>11. Rebuilding'
  BY <1>1, <1>3, <1>4, <1>6, <1>7 DEF Rebuilding
<1>12. Outcome'
  BY <1>1, <1>2 DEF Outcome
<1> QED  BY <1>8, <1>9, <1>10, <1>11, <1>12

LEMMA NoneTakenKept ==
    ASSUME RowInv, NoneTaken
    PROVE  RowParts'
<1> USE DEF RowInv, RowParts, inputVars, routeVars, threadVars, chanVars, historyVars
<1>1. /\ call = "take" /\ call' = "produce" /\ chan[Idle] = <<>>
      /\ route = "here" \/ ~sender[Idle]
      /\ UNCHANGED <<schedule, dryModes, dryCoeffs, row, overran, recon, result>>
      /\ UNCHANGED <<route, more, chan, sender, at, hand, passed, refused, seen, back,
                     entered, ended, panicked>>
      /\ pc' = IF pc = "drain" THEN "over" ELSE "finish"
      /\ ret' = IF pc = "drain" THEN ret ELSE "failed"
  BY DEF NoneTaken, TakeNone
<1>2. pc \in {"rows", "drain"}
  BY <1>1 DEF Passing
<1>3. pc = "rows" => ended # {}
  <2>1. Next /\ EndsInTurn'
    <3>1. NoneTaken => RowNext
      BY DEF RowNext, Calling
    <3>2. Next
      BY DEF NoneTaken, Next, Caller
    <3> QED  BY <3>1, <3>2, RelayKept
  <2> QED  BY <1>1, <2>1, TurnedAwayByAStep
<1>4. Sent(N)' = Sent(N) /\ Dry' = Dry /\ FirstDry' = FirstDry
  BY <1>1 DEF Sent, Reached, Dry, FirstDry
<1>5. RowTypes' /\ Calm'
  BY <1>1 DEF RowTypes, Calm
<1>6. Passing'
  BY <1>1, <1>2, <1>4 DEF Passing
<1>7. Passed'
  BY <1>1, <1>2, <1>3, <1>4, Progress DEF Passed
<1>8. Parsing' /\ Rebuilding'
  BY <1>1, <1>4 DEF Parsing, Rebuilding
<1>9. Outcome'
  BY <1>1, <1>2 DEF Outcome
<1> QED  BY <1>5, <1>6, <1>7, <1>8, <1>9

LEMMA FinishRowsKept ==
    ASSUME RowInv, FinishRows
    PROVE  RowParts'
<1> USE DEF RowInv, RowParts, inputVars, routeVars, threadVars, chanVars, historyVars
<1>1. /\ pc = "finish" /\ call = "produce" /\ call' = call
      /\ UNCHANGED <<schedule, dryModes, dryCoeffs, row, ret, overran, recon, result>>
      /\ UNCHANGED <<route, chan, at, hand, passed, refused, seen, back, entered, ended,
                     panicked>>
      /\ \/ schedule = "light" /\ pc' = "over" /\ more' = more
         \/ schedule # "light" /\ pc' = "drain" /\ (more' = more \/ more' = FALSE)
  BY DEF FinishRows, Finish, vars
<1>2. Sent(N)' = Sent(N) /\ Dry' = Dry /\ FirstDry' = FirstDry
  BY <1>1 DEF Sent, Reached, Dry, FirstDry
<1>3. RowTypes' /\ Calm'
  BY <1>1 DEF RowTypes, Calm
<1>4. Passing' /\ Passed'
  BY <1>1, <1>2 DEF Passing, Passed
<1>5. Parsing' /\ Rebuilding' /\ Outcome'
  BY <1>1, <1>2 DEF Parsing, Rebuilding, Outcome
<1> QED  BY <1>3, <1>4, <1>5

\* What the producer comes to after a pass, whichever way the pass went.
LEMMA PassOnKept ==
    ASSUME RowInv, pc = "parse", call' = "produce", PassOn,
           passed' = passed + 1, ended \subseteq ended', UNCHANGED <<route, sender>>,
           refused' = {} => entered' = passed',
           refused' # refused => ended' # {},
           ~more' => ended' # {}
    PROVE  Passing' /\ Passed' /\ row' \in 0..Rows /\ (ProducerDry(row) => ret' = "failed")
<1> USE DEF RowInv, RowParts, inputVars
<1>1. /\ call = "produce" /\ row < Rows /\ row <= FirstDry /\ passed = B + row
      /\ ret = "none" /\ refused = {}
      /\ route = "across" => sender[1]
  BY DEF Passing
<1>2. /\ Rows \in Nat /\ FirstDry \in 0..Rows /\ row \in 0..Rows /\ B \in Nat
      /\ (ProducerDry(row) <=> row >= FirstDry)
  BY DryRows, BAssumption DEF RowTypes
<1>3. /\ UNCHANGED <<schedule, dryModes, dryCoeffs>> /\ FirstDry' = FirstDry
  BY DEF PassOn, FirstDry, Dry
<1>4. CASE refused' # refused \/ ProducerDry(row)
  <2>1. ret' = "failed" /\ pc' = "finish" /\ row' = row
    BY <1>4 DEF PassOn
  <2>2. passed' <= B + FirstDry + 1 /\ passed' <= B + Rows
    BY <1>1, <1>2
  <2>3. \/ ended' # {}
        \/ refused' = {} /\ FirstDry < Rows /\ passed' = B + FirstDry + 1
    BY <1>1, <1>2, <1>4
  <2>4. Passing'
    BY <2>1 DEF Passing
  <2>5. Passed'
    BY <1>3, <2>1, <2>2, <2>3 DEF Passed
  <2> QED  BY <1>2, <2>1, <2>4, <2>5
<1>5. CASE ~(refused' # refused \/ ProducerDry(row))
  <2>1. /\ row' = row + 1 /\ ret' = "none" /\ refused' = {}
        /\ pc' = IF row + 1 = Rows THEN "finish" ELSE "rows"
    BY <1>1, <1>5 DEF PassOn
  <2>2. row + 1 <= FirstDry /\ passed' = B + row' /\ row' \in 0..Rows
    BY <1>1, <1>2, <1>5, <2>1
  <2>3. Passing'
    BY <1>1, <1>2, <1>3, <2>1, <2>2 DEF Passing
  <2>4. Passed'
    BY <1>1, <1>2, <1>3, <2>1, <2>2 DEF Passed
  <2> QED  BY <1>5, <2>2, <2>3, <2>4
<1> QED  BY <1>4, <1>5

LEMMA ParseAcrossKept ==
    ASSUME RowInv, ParseAcross
    PROVE  RowParts'
<1> USE DEF RowInv, RowParts, inputVars, routeVars, threadVars, chanVars, historyVars
<1>1. /\ pc = "parse" /\ call = "produce" /\ call' = "produce" /\ route = "across"
      /\ PassOn /\ UNCHANGED recon
      /\ UNCHANGED <<schedule, dryModes, dryCoeffs, result>>
      /\ UNCHANGED <<route, more, sender, at, hand, seen, back, ended, panicked>>
      /\ passed' = passed + 1
      /\ \/ entered' = passed' /\ refused' = refused
         \/ entered' = entered /\ refused' = refused \cup {passed + 1}
      /\ overran' = (overran \/ ProducerDry(row))
  BY DEF ParseAcross, PassAcross, PassOn, Next1
<1>2. Next /\ EndsInTurn'
  <2>1. ParseAcross => RowNext
    BY DEF RowNext, Calling
  <2>2. Next
    BY DEF ParseAcross, Next, Producer
  <2> QED  BY <2>1, <2>2, RelayKept
<1>3. refused' # refused => ended # {}
  BY <1>1, <1>2, TurnedAwayByAStep
<1>4. more
  BY <1>1 DEF Inv, Stages
<1>5. refused' = {} => entered' = passed'
  BY <1>1
<1>6. Passing' /\ Passed' /\ row' \in 0..Rows /\ (ProducerDry(row) => ret' = "failed")
  BY <1>1, <1>3, <1>4, <1>5, PassOnKept
<1>7. ret' \in {"none", "failed"} /\ pc' \in {"rows", "finish"} /\ (ret = "failed" => ret' = ret)
  BY <1>1 DEF PassOn, RowTypes
<1>8. Sent(N)' = Sent(N) /\ Dry' = Dry
  BY <1>1 DEF Sent, Reached, Dry
<1>9. RowTypes' /\ Calm'
  BY <1>1, <1>6, <1>7 DEF RowTypes, Calm
<1>10. Parsing' /\ Rebuilding'
  BY <1>1, <1>8 DEF Parsing, Rebuilding
<1>11. Outcome'
  BY <1>1, <1>6, <1>7 DEF Outcome
<1> QED  BY <1>6, <1>9, <1>10, <1>11

\* On one thread every step has seen every pass.
LEMMA HereTogether ==
    ASSUME RowInv, ParseHere
    PROVE  /\ row \in Nat /\ row < Rows /\ passed = B + row /\ B \in Nat
           /\ \A k \in Step : Len(seen[k]) = row /\ at[k] # "working" /\ k \notin panicked
           /\ Sent(N) = B + row
           /\ schedule # "heavy" => Len(recon) = row
           /\ ended = {} /\ row <= Dry /\ row <= FirstDry
<1> USE DEF RowInv, RowParts
<1>1. pc = "parse" /\ call = "produce" /\ route = "here" /\ more
  BY DEF ParseHere, PassHere
<1>2. /\ row \in Nat /\ row < Rows /\ passed = B + row /\ B \in Nat /\ row <= FirstDry
  BY <1>1, BAssumption DEF Passing, RowTypes
<1>3. \A k \in Step : Reached(k) = passed /\ at[k] # "working" /\ k \notin panicked
  BY <1>1 DEF Inv, Stages, Passes
<1>4. \A k \in Step : Len(seen[k]) \in Nat
  BY Numbers DEF Inv
<1>5. \A k \in Step : Len(seen[k]) = row
  BY <1>2, <1>3, <1>4 DEF Reached
<1>6. N \in Step /\ 1 \in Step /\ Dry \in Nat
  BY Roles, DryRows
<1>7. Sent(N) = B + row
  BY <1>2, <1>3, <1>6 DEF Sent
<1>8. ended = {}
  BY <1>1, <1>6 DEF Parsing, Calm
<1>9. row <= Dry
  <2>1. CASE schedule = "light"
    BY <1>2, <2>1 DEF FirstDry
  <2>2. CASE schedule # "light"
    BY <1>3, <1>5, <1>6, <1>8, <2>2 DEF Parsing
  <2> QED  BY <2>1, <2>2
<1>10. schedule # "heavy" => Len(recon) = row
  BY <1>2, <1>7 DEF Rebuilding
<1> QED  BY <1>2, <1>3, <1>5, <1>7, <1>8, <1>9, <1>10

LEMMA ParseHereKept ==
    ASSUME RowInv, ParseHere
    PROVE  RowParts'
<1> USE DEF RowInv, RowParts, inputVars, routeVars, threadVars, chanVars, historyVars
<1> DEFINE noes == IF schedule # "light" /\ DryIn(row) THEN {1} ELSE {}
<1>1. /\ pc = "parse" /\ call = "produce" /\ route = "here" /\ more
      /\ PassOn /\ PassHere(noes)
      /\ overran' = (overran \/ DryIn(row))
      /\ recon' = IF schedule = "heavy" THEN recon ELSE Reconstructed(row)
  BY DEF ParseHere, PassHere
<1>2. /\ row \in Nat /\ row < Rows /\ passed = B + row /\ B \in Nat
      /\ \A k \in Step : Len(seen[k]) = row /\ at[k] # "working" /\ k \notin panicked
      /\ Sent(N) = B + row
      /\ schedule # "heavy" => Len(recon) = row
      /\ ended = {} /\ row <= Dry /\ row <= FirstDry
  BY HereTogether
<1>3. /\ UNCHANGED <<schedule, dryModes, dryCoeffs, result>>
      /\ UNCHANGED <<route, sender, at, hand, call, back, panicked>>
      /\ passed' = passed + 1 /\ entered' = passed'
      /\ more' = (noes = {}) /\ ended' = ended \cup noes
      /\ refused' = IF noes = {} THEN refused ELSE refused \cup {passed + 1}
      /\ seen' = [k \in Step |-> Append(seen[k], passed + 1)]
  BY <1>1 DEF PassOn, PassHere, Next1
<1>4. \A k \in Step : Len(seen'[k]) = row + 1
  <2> SUFFICES ASSUME NEW k \in Step PROVE Len(seen'[k]) = row + 1
    OBVIOUS
  <2>1. seen[k] \in Seq(Nat) /\ passed + 1 \in Nat
    BY <1>2 DEF Inv, TypeOK
  <2>2. Len(Append(seen[k], passed + 1)) = Len(seen[k]) + 1
    BY <2>1
  <2> QED  BY <1>2, <1>3, <2>2
<1>5. /\ N \in Step /\ 1 \in Step /\ Dry \in Nat /\ Dry' = Dry
      /\ (DryIn(row) <=> row >= Dry) /\ (ProducerDry(row) <=> row >= FirstDry)
  <2>1. N \in Step /\ 1 \in Step
    BY Roles
  <2> QED  BY <1>2, <1>3, <2>1, DryRows DEF Dry
<1>6. schedule = "light" => FirstDry = Dry
  BY DEF FirstDry
<1> HIDE DEF noes
<1>7. noes = {} \/ noes = {1}
  BY DEF noes
<1>8. Passing' /\ Passed' /\ row' \in 0..Rows /\ (ProducerDry(row) => ret' = "failed")
  <2>1. refused = {} /\ (refused' # refused => ended' # {}) /\ (~more' => ended' # {})
    BY <1>1, <1>3, <1>7 DEF Passing
  <2> QED  BY <1>1, <1>3, <2>1, PassOnKept
<1>9. ret' \in {"none", "failed"} /\ pc' \in {"rows", "finish"}
  BY <1>1 DEF PassOn, RowTypes
<1>10. /\ recon' \in Seq([row : Int, filter : BOOLEAN])
       /\ schedule # "heavy" => Len(recon') = row + 1
       /\ schedule = "heavy" => recon' = recon
  <2> DEFINE e == [row |-> row, filter |-> ~DryIn(row)]
  <2>1. e \in [row : Int, filter : BOOLEAN] /\ recon \in Seq([row : Int, filter : BOOLEAN])
    BY <1>2 DEF RowTypes
  <2>2. recon' = IF schedule = "heavy" THEN recon ELSE Append(recon, e)
    BY <1>1 DEF Reconstructed
  <2> HIDE DEF e
  <2>3. /\ Append(recon, e) \in Seq([row : Int, filter : BOOLEAN])
        /\ Len(Append(recon, e)) = Len(recon) + 1
    BY <2>1
  <2> QED  BY <1>2, <2>1, <2>2, <2>3
<1>11. RowTypes'
  BY <1>1, <1>3, <1>8, <1>9, <1>10 DEF RowTypes
<1>12. Calm'
  BY <1>2, <1>3 DEF Calm, noes
<1>13. Parsing'
  <2>1. at'[1] \notin {"waiting", "working"} /\ Len(seen'[1]) = row + 1
    BY <1>1, <1>3, <1>4, <1>5 DEF Inv, Stages
  <2>2. CASE schedule = "light"
    BY <1>3, <2>2 DEF Parsing
  <2>3. CASE schedule # "light" /\ row >= Dry
    <3>1. noes = {1} /\ overran'
      BY <1>1, <1>5, <2>3 DEF noes
    <3>2. 1 \in ended' /\ row = Dry
      BY <1>2, <1>3, <1>5, <2>3, <3>1
    <3>3. noes # {}
      BY <3>1
    <3>4. ~more'
      BY <1>3, <3>3, Zenon
    <3> QED  BY <1>5, <2>1, <3>1, <3>2, <3>4 DEF Parsing
  <2>4. CASE schedule # "light" /\ ~(row >= Dry)
    <3>1. noes = {}
      BY <1>5, <2>4 DEF noes
    <3>2. ended' = {}
      BY <1>2, <1>3, <3>1
    <3>3. row + 1 <= Dry
      BY <1>2, <1>5, <2>4
    <3> QED  BY <1>5, <2>1, <3>2, <3>3 DEF Parsing
  <2> QED  BY <2>2, <2>3, <2>4
<1>14. Rebuilding'
  <2>1. Sent(N)' = B + (row + 1)
    <3>1. Reached(N)' = B + (row + 1)
      BY <1>4, <1>5 DEF Reached
    <3> QED  BY <1>2, <1>3, <1>5, <3>1 DEF Sent
  <2> QED  BY <1>2, <1>3, <1>10, <2>1 DEF Rebuilding
<1>15. Outcome'
  <2>1. overran' => ended' # {} \/ ret' = "failed"
    <3>1. overran => ended # {} \/ ret = "failed"
      BY DEF Outcome
    <3>2. ret = "none"
      BY <1>1 DEF Passing
    <3>3. DryIn(row) => noes = {1} \/ ProducerDry(row)
      BY <1>5, <1>6 DEF noes
    <3> QED  BY <1>1, <1>3, <1>8, <3>1, <3>2, <3>3
  <2>2. pc' # "over"
    BY <1>9
  <2>3. result' # "none" => call' = "returned"
    BY <1>3 DEF Outcome
  <2> QED  BY <2>1, <2>2, <2>3 DEF Outcome
<1> QED  BY <1>8, <1>11, <1>12, <1>13, <1>14, <1>15

LEMMA ParseStepKept ==
    ASSUME RowInv, NEW k \in Step, ParseStep(k)
    PROVE  RowParts'
<1> USE DEF RowInv, RowParts, inputVars, progVars, routeVars, threadVars, chanVars, historyVars
<1> DEFINE r == RowOf(hand[k])
<1>1. /\ at[k] = "working" /\ End(k, ~DryIn(r))
      /\ overran' = (overran \/ DryIn(r))
      /\ UNCHANGED <<schedule, dryModes, dryCoeffs, pc, row, ret, recon, result>>
      /\ UNCHANGED <<route, more, sender, call, passed, refused, seen, back, entered, panicked>>
      /\ ended' = IF ~DryIn(r) THEN ended ELSE ended \cup {k}
      /\ at' = [at EXCEPT ![k] = IF ~DryIn(r) /\ receiver[k + 1] THEN "waiting" ELSE "leaving"]
  BY DEF ParseStep, End
<1>2. /\ k = 1 /\ schedule # "light" /\ N \in Step /\ 1 \in Step /\ (k # N \/ schedule = "heavy")
  BY Roles DEF ParseStep
<1>3. /\ Len(seen[1]) \in Nat /\ B \in Nat /\ Dry \in Nat
      /\ hand[1] = B + Len(seen[1]) /\ 1 \notin panicked
  BY <1>1, <1>2, Numbers, DryRows DEF Inv, Hands, Reached
<1>4. r = Len(seen[1]) - 1 /\ (DryIn(r) <=> Len(seen[1]) - 1 >= Dry)
  <2>1. r = Len(seen[1]) - 1
    BY <1>2, <1>3 DEF RowOf
  <2>2. r \in Int
    BY <1>3, <2>1
  <2> QED  BY <2>1, <2>2, DryRows
<1> HIDE DEF r
<1>5. 1 \notin ended /\ ended = {} /\ Len(seen[1]) <= Dry + 1 /\ route = "across"
  <2>1. 1 \notin ended
    BY <1>1, <1>2 DEF Parsing
  <2>2. ended = {}
    BY <1>2, <2>1 DEF Calm
  <2>3. Len(seen[1]) <= Dry + 1
    BY <1>2, <1>3, <2>1 DEF Parsing
  <2>4. route = "across"
    <3>1. route = "here" => at[1] # "working"
      BY <1>2 DEF Inv, Stages
    <3> QED  BY <1>1, <1>2, <3>1 DEF Inv, TypeOK
  <2> QED  BY <2>1, <2>2, <2>3, <2>4
<1>6. /\ at \in [Step -> Places] /\ at'[1] \in {"waiting", "leaving"}
      /\ DryIn(r) => at'[1] = "leaving"
      /\ \A j \in Step : j # 1 => at'[j] = at[j]
  BY <1>1, <1>2 DEF Inv, TypeOK
<1>7. Started' = Started /\ Dry' = Dry /\ FirstDry' = FirstDry
  BY <1>1, <1>2, <1>6 DEF Started, Dry, FirstDry
<1>8. RowTypes'
  BY <1>1 DEF RowTypes
<1>9. Calm'
  BY <1>1, <1>2, <1>5 DEF Calm
<1>10. Passing' /\ Passed'
  BY <1>1, <1>5, <1>7 DEF Passing, Passed
<1>11. Parsing'
  <2>1. CASE DryIn(r)
    <3>1. Len(seen'[1]) = Dry + 1 /\ at'[1] = "leaving"
      BY <1>1, <1>3, <1>4, <1>5, <1>6, <2>1
    <3>2. overran'
      BY <1>1, <2>1, Zenon
    <3>3. 1 \in ended'
      BY <1>1, <1>2, <2>1
    <3> QED  BY <1>1, <1>5, <1>7, <3>1, <3>2, <3>3 DEF Parsing
  <2>2. CASE ~DryIn(r)
    <3>1. Len(seen'[1]) <= Dry /\ 1 \notin ended'
      BY <1>1, <1>3, <1>4, <1>5, <2>2
    <3> QED  BY <1>7, <3>1 DEF Parsing
  <2> QED  BY <2>1, <2>2
<1>12. Rebuilding'
  <2>1. schedule # "heavy" => Sent(N)' = Sent(N)
    BY <1>1, <1>2, <1>6 DEF Sent, Reached
  <2> QED  BY <1>1, <2>1 DEF Rebuilding
<1>13. Outcome'
  <2>1. overran' => ended' # {} \/ ret' = "failed"
    BY <1>1, <1>5 DEF Outcome
  <2>2. ~(pc = "over" /\ schedule = "heavy")
    <3>1. schedule = "heavy" => sender[Idle]
      BY <1>1, <1>2, Roles DEF Inv, Ends, Idle
    <3> QED  BY <1>5, <3>1 DEF Outcome
  <2> QED  BY <1>1, <2>1, <2>2 DEF Outcome
<1> QED  BY <1>8, <1>9, <1>10, <1>11, <1>12, <1>13

LEMMA ReconstructStepKept ==
    ASSUME RowInv, NEW k \in Step, ReconstructStep(k)
    PROVE  RowParts'
<1> USE DEF RowInv, RowParts, inputVars, progVars, routeVars, threadVars, chanVars, historyVars
<1> DEFINE r == RowOf(hand[k])
<1>1. /\ at[k] = "working"
      /\ recon' = Append(recon, [row |-> r, filter |-> ~DryIn(r)])
      /\ UNCHANGED <<schedule, dryModes, dryCoeffs, pc, row, ret, overran, result>>
      /\ UNCHANGED <<route, more, sender, call, passed, refused, seen, back, entered, ended,
                     panicked>>
      /\ at' = [at EXCEPT ![k] = IF receiver[k + 1] THEN "waiting" ELSE "leaving"]
  BY DEF ReconstructStep, End, Reconstructed
<1>2. /\ k = N /\ schedule # "heavy" /\ N \in Step /\ 1 \in Step
      /\ (schedule = "light" \/ k # 1)
  BY Roles DEF ReconstructStep
<1>3. /\ Len(seen[N]) \in Nat /\ B \in Nat /\ hand[k] \in Nat
      /\ Sent(N) = B + Len(seen[N]) - 1 /\ N \notin panicked
  BY <1>1, <1>2, Numbers DEF Inv, Hands, Reached, Sent, TypeOK
<1>4. /\ at \in [Step -> Places] /\ at'[k] \in {"waiting", "leaving"}
      /\ \A j \in Step : j # k => at'[j] = at[j]
  BY <1>1 DEF Inv, TypeOK
<1>5. recon' \in Seq([row : Int, filter : BOOLEAN]) /\ Len(recon') = Len(recon) + 1
  <2> DEFINE e == [row |-> r, filter |-> ~DryIn(r)]
  <2>1. r \in Int
    BY <1>3 DEF RowOf
  <2>2. e \in [row : Int, filter : BOOLEAN] /\ recon \in Seq([row : Int, filter : BOOLEAN])
    BY <2>1 DEF RowTypes
  <2>3. recon' = Append(recon, e)
    BY <1>1
  <2> HIDE DEF e
  <2> QED  BY <2>2, <2>3
<1>6. Started' = Started /\ Dry' = Dry /\ FirstDry' = FirstDry
  BY <1>1, <1>4 DEF Started, Dry, FirstDry
<1>7. Sent(N)' = B + Len(seen[N])
  BY <1>1, <1>2, <1>3, <1>4 DEF Sent, Reached
<1>8. RowTypes' /\ Calm'
  BY <1>1, <1>5 DEF RowTypes, Calm
<1>9. Passing' /\ Passed'
  BY <1>1, <1>6 DEF Passing, Passed
<1>10. Parsing'
  BY <1>1, <1>2, <1>4, <1>6 DEF Parsing
<1>11. Rebuilding'
  BY <1>1, <1>2, <1>3, <1>5, <1>7 DEF Rebuilding
<1>12. Outcome'
  BY <1>1, <1>2 DEF Outcome
<1> QED  BY <1>8, <1>9, <1>10, <1>11, <1>12

-----------------------------------------------------------------------------
(* The invariant of the decode.                                            *)

LEMMA RowStart ==
    ASSUME ScheduleAssumption, RowsAssumption, RowInit
    PROVE  RowInv
<1>1. /\ Init /\ schedule \in Schedules /\ dryModes \in 0..Rows /\ dryCoeffs \in 0..Rows
      /\ pc = "rows" /\ row = 0 /\ ret = "none"
      /\ overran = FALSE /\ recon = <<>> /\ result = "none"
  BY DEF RowInit
<1>2. Rows \in Nat \ {0}
  BY DEF RowsAssumption
<1>3. /\ Inv
      /\ more = TRUE /\ back = <<>> /\ passed = B /\ entered = B /\ refused = {}
      /\ ended = {} /\ panicked = {} /\ call \in {"produce", "spawn"}
      /\ \A c \in Channel : sender[c]
      /\ \A k \in Step : seen[k] = <<>> /\ at[k] = "none"
  <2>1. Inv
    BY <1>1, InitInv
  <2> QED  BY <1>1, <2>1 DEF Init
<1>4. RowTypes
  <2>1. recon \in Seq([row : Int, filter : BOOLEAN])
    BY <1>1
  <2>2. overran \in BOOLEAN
    BY <1>1
  <2> QED  BY <1>1, <1>2, <2>1, <2>2 DEF RowTypes
<1>5. 1 \in Step /\ N \in Step /\ 1 \in Channel /\ B \in Nat \ {0}
  BY NAssumption, BAssumption DEF Step, Channel
<1>6. Dry \in 0..Rows /\ FirstDry \in 0..Rows
  BY <1>4, DryRows
<1>7. MayAsk /\ EndsInTurn
  BY <1>3 DEF MayAsk, EndsInTurn
<1>8. Calm
  BY <1>3 DEF Calm
<1>9. Passing /\ Passed
  BY <1>1, <1>2, <1>3, <1>5, <1>6 DEF Passing, Passed
<1>10. Parsing
  <2>1. Len(seen[1]) = 0 /\ 1 \notin ended
    BY <1>3, <1>5
  <2> QED  BY <1>6, <2>1 DEF Parsing
<1>11. Rebuilding
  <2>1. Sent(N) = B /\ Len(recon) = 0 /\ Len(back) = 0
    BY <1>1, <1>3, <1>5 DEF Sent, Reached
  <2> QED  BY <1>5, <2>1 DEF Rebuilding
<1>12. Outcome
  BY <1>1 DEF Outcome
<1> QED  BY <1>3, <1>4, <1>7, <1>8, <1>9, <1>10, <1>11, <1>12 DEF RowInv, RowParts

LEMMA RowInvKept ==
    ASSUME RowInv, [RowNext]_<<vars, rowVars>>
    PROVE  RowInv'
<1>1. RowParts'
  <2>1. CASE Ask \/ Taken \/ NoneTaken
    BY <2>1, AskKept, TakenKept, NoneTakenKept
  <2>2. CASE ParseAcross \/ ParseHere \/ FinishRows
    BY <2>2, ParseAcrossKept, ParseHereKept, FinishRowsKept
  <2>3. CASE ProducerOver \/ Return \/ RowOver \/ UNCHANGED <<vars, rowVars>>
    BY <2>3, OverKept DEF RowOver
  <2>4. CASE (Joined \/ \E k \in Step : Spawn(k) \/ SpawnFails(k)) /\ UNCHANGED rowVars
    BY <2>4, JoinedKept, SpawnKept
  <2>5. ASSUME NEW k \in Step, RowStep(k) PROVE RowParts'
    BY <2>5, ParseStepKept, ReconstructStepKept, ThreadKept DEF RowStep
  <2> QED  BY <2>1, <2>2, <2>3, <2>4, <2>5 DEF RowNext, Calling
<1>2. Inv' /\ MayAsk' /\ EndsInTurn'
  BY RelayKept
<1>3. ScheduleAssumption' /\ RowsAssumption'
  BY DEF RowInv, ScheduleAssumption, RowsAssumption
<1> QED  BY <1>1, <1>2, <1>3 DEF RowInv

\* The invariant holds of every state of the decode.
THEOREM RowInvariance ==
    ASSUME ScheduleAssumption, RowsAssumption
    PROVE  RowSpec => []RowInv
<1>1. RowInit => RowInv
  BY RowStart
<1>2. RowInv /\ [RowNext]_<<vars, rowVars>> => RowInv'
  BY RowInvKept
<1> QED  BY <1>1, <1>2, PTL DEF RowSpec

-----------------------------------------------------------------------------
(* Each step is one of the decode on one thread, or is none at all.        *)

LEMMA OneRow ==
    ASSUME RowInv, NEW r \in Nat, r = Len(recon), r <= Dry, r < Rows, result = "none",
           recon' = Reconstructed(r), UNCHANGED <<dryModes, dryCoeffs, result>>
    PROVE  InOrderOf!Row
<1>1. DryIn(r) <=> r = Dry
  <2>1. r \in Int /\ Dry \in Int
    BY DryRows DEF RowInv, RowParts
  <2>2. DryIn(r) <=> r >= Dry
    BY <2>1, DryRows DEF RowInv, RowParts
  <2> QED  BY <2>1, <2>2
<1>2. [row |-> r, filter |-> ~DryIn(r)] = [row |-> r, filter |-> r # Dry]
  <2>1. (~DryIn(r)) = (r # Dry)
    BY <1>1 DEF DryIn
  <2> QED  BY <2>1
<1>3. recon' = Append(recon, [row |-> Len(recon), filter |-> Len(recon) # Dry])
  BY <1>2 DEF Reconstructed
<1>4. Len(recon) < Rows /\ ~InOrderOf!DryBy(Len(recon))
  BY DryRows DEF RowInv, RowParts, InOrderOf!DryBy, Dry
<1>5. UNCHANGED <<Dry, result>>
  BY DEF Dry
<1> QED  BY <1>3, <1>4, <1>5 DEF InOrderOf!Row, Dry

LEMMA ReconstructStepIsRow ==
    ASSUME RowInv, NEW k \in Step, ReconstructStep(k)
    PROVE  InOrderOf!Row
<1> USE DEF RowInv, RowParts, inputVars, progVars
<1>1. /\ at[k] = "working" /\ recon' = Reconstructed(RowOf(hand[k]))
      /\ UNCHANGED <<dryModes, dryCoeffs, result>>
  BY DEF ReconstructStep, End
<1>2. /\ k = N /\ schedule # "heavy" /\ 1 \in Step
      /\ schedule = "three" => k = 2
      /\ schedule \in {"three", "light"}
  BY Roles DEF ReconstructStep
<1>3. /\ Len(seen[k]) \in Nat /\ B \in Nat \ {0} /\ hand[k] = B + Len(seen[k])
      /\ k \notin panicked /\ Len(seen[k]) # 0 /\ receiver[k]
  <2>1. seen[k] \in Seq(Nat) /\ seen[k] # <<>> /\ hand[k] = Reached(k) /\ k \notin panicked
    BY <1>1 DEF Inv, TypeOK, Hands
  <2>2. receiver[k]
    BY <1>1 DEF Inv, Ends
  <2> QED  BY <2>1, <2>2, BAssumption DEF Reached
<1>4. RowOf(hand[k]) = Len(seen[k]) - 1 /\ Len(seen[k]) - 1 \in Nat
  BY <1>3 DEF RowOf
<1>5. Len(recon) = Len(seen[k]) - 1
  BY <1>1, <1>2, <1>3 DEF Rebuilding, Sent, Reached
<1>6. /\ Rows \in Nat /\ Dry \in Nat /\ passed \in Nat /\ entered \in Nat
      /\ passed <= B + Rows /\ passed <= B + FirstDry + 1
      /\ entered <= passed /\ B + Len(seen[k]) <= entered
      /\ Len(seen[1]) <= Dry + 1 /\ Len(seen[1]) \in Nat
  BY <1>2, Progress, DryRows
<1>7. Len(seen[k]) - 1 < Rows
  BY <1>3, <1>6
<1>8. Len(seen[k]) - 1 <= Dry
  <2>1. CASE schedule = "light"
    BY <1>3, <1>6, <2>1 DEF FirstDry
  <2>2. CASE schedule = "three"
    <3>1. k = 2 /\ Reached(k) <= Into(k) /\ Into(k) = Sent(1)
      BY <1>2, <1>3, <2>2 DEF Inv, Flow, Into
    <3>2. Sent(1) <= Reached(1) /\ Sent(1) \in Int /\ Reached(1) \in Nat
      BY <1>2, Numbers DEF Inv
    <3>3. Len(seen[k]) <= Len(seen[1])
      <4>1. Reached(k) <= Reached(1)
        BY <1>3, <3>1, <3>2 DEF Reached
      <4> QED  BY <1>3, <1>6, <4>1 DEF Reached
    <3> QED  BY <1>3, <1>6, <3>3
  <2> QED  BY <1>2, <2>1, <2>2
<1>9. result = "none"
  <2>1. call = "returned" => at[k] # "working"
    BY DEF Inv, Stages, TypeOK
  <2> QED  BY <1>1, <2>1 DEF Outcome, RowTypes
<1> QED  BY <1>1, <1>4, <1>5, <1>7, <1>8, <1>9, OneRow

LEMMA ParseHereIsRow ==
    ASSUME RowInv, ParseHere
    PROVE  InOrderOf!Row \/ UNCHANGED <<dryModes, dryCoeffs, recon, result>>
<1> USE DEF RowInv, RowParts, inputVars
<1>1. /\ call = "produce" /\ UNCHANGED <<dryModes, dryCoeffs, result>>
      /\ recon' = IF schedule = "heavy" THEN recon ELSE Reconstructed(row)
  BY DEF ParseHere, PassHere, PassOn
<1>2. CASE schedule = "heavy"
  BY <1>1, <1>2
<1>3. CASE schedule # "heavy"
  <2>1. row \in Nat /\ row = Len(recon) /\ row <= Dry /\ row < Rows
    BY <1>3, HereTogether
  <2>2. result = "none"
    BY <1>1 DEF Outcome
  <2>3. InOrderOf!Row
    BY <1>1, <1>3, <2>1, <2>2, OneRow
  <2> QED  BY <2>3
<1> QED  BY <1>2, <1>3

LEMMA TakenIsRow ==
    ASSUME RowInv, Taken
    PROVE  InOrderOf!Row \/ UNCHANGED <<dryModes, dryCoeffs, recon, result>>
<1> USE DEF RowInv, RowParts, inputVars
<1> DEFINE h == Head(chan[Idle])
<1>1. /\ call = "take" /\ chan[Idle] # <<>> /\ UNCHANGED <<dryModes, dryCoeffs, result>>
      /\ recon' = IF schedule = "heavy" /\ Pending(h) THEN Reconstructed(RowOf(h)) ELSE recon
  BY DEF Taken, Take
<1>2. CASE ~(schedule = "heavy" /\ Pending(h))
  BY <1>1, <1>2
<1>3. CASE schedule = "heavy" /\ Pending(h)
  <2>1. /\ h = Len(back) + 1 /\ Len(back) \in Nat /\ B \in Nat
        /\ Len(back) < Sent(N) /\ Sent(N) \in Int
    BY <1>1, NextBack, BAssumption
  <2>2. N = 1 /\ 1 \in Step
    BY <1>3, Roles
  <2>3. /\ Rows \in Nat /\ Dry \in Nat /\ passed \in Nat /\ entered \in Nat
        /\ passed <= B + Rows /\ entered <= passed /\ B + Len(seen[1]) <= entered
        /\ Len(seen[1]) <= Dry + 1 /\ Len(seen[1]) \in Nat
    BY <2>2, Progress, DryRows
  <2>4. Sent(1) <= B + Len(seen[1])
    <3>1. Sent(1) <= Reached(1)
      BY <2>2, Numbers DEF Inv
    <3> QED  BY <3>1 DEF Reached
  <2>5. Len(back) + 1 > B
    BY <1>3, <2>1 DEF Pending
  <2> HIDE DEF h
  <2>6. RowOf(h) = Len(back) - B /\ Len(back) - B \in Nat
    BY <2>1, <2>5 DEF RowOf
  <2>7. Len(recon) = Len(back) - B
    BY <1>3, <2>1, <2>5 DEF Rebuilding
  <2>8. Len(back) - B < Rows /\ Len(back) - B <= Dry
    BY <2>1, <2>2, <2>3, <2>4
  <2>9. result = "none" /\ recon' = Reconstructed(RowOf(h))
    BY <1>1, <1>3 DEF Outcome
  <2>10. InOrderOf!Row
    BY <1>1, <2>6, <2>7, <2>8, <2>9, OneRow
  <2> QED  BY <2>10
<1> QED  BY <1>2, <1>3

\* What has been reconstructed when the relay is over.
LEMMA RowsAtTheEnd ==
    ASSUME RowInv, call = "returned"
    PROVE  /\ Len(recon) \in Nat /\ overran \in BOOLEAN
           /\ \/ Len(recon) = Rows /\ Dry = Rows /\ ret = "none" /\ ~overran
              \/ Len(recon) = Dry + 1 /\ (overran \/ ret = "failed")
<1> USE DEF RowInv, RowParts
<1>1. \A k \in Step : at[k] # "working" /\ k \notin panicked
  BY DEF Inv, Stages, TypeOK, Calm
<1>2. /\ pc = "over"
      /\ Rows \in Nat /\ Dry \in 0..Rows /\ FirstDry \in 0..Rows /\ Dry <= FirstDry
      /\ B \in Nat \ {0} /\ entered \in Nat /\ passed \in Nat
      /\ 1 \in Step /\ N \in Step /\ Len(seen[1]) \in Nat /\ Len(seen[N]) \in Nat
      /\ overran \in BOOLEAN
      /\ Len(seen[1]) <= Dry + 1
  <2>1. pc = "over"
    BY DEF Passing, Passed, RowTypes
  <2>2. 1 \in Step /\ N \in Step
    BY Roles
  <2>3. overran \in BOOLEAN
    BY DEF RowTypes
  <2> QED  BY <2>1, <2>2, <2>3, Progress, DryRows
<1>3. WholeOnReturn
  BY WholeThen
<1>4. N \notin ended \/ N = 1
  <2>1. ended \subseteq {1}
    BY DEF Calm
  <2> QED  BY <2>1
<1>5. Len(seen[N]) = Len(seen[1])
  <2>1. N = 1 \/ N = 2
    BY Roles
  <2>2. CASE N = 2
    <3>1. \A j \in 2..N : j \notin ended
      BY <1>4, <2>2
    <3>2. 2 \in Step
      BY <2>2 DEF Step
    <3>3. seen[2] = seen[1]
      BY <1>3, <3>1, <3>2 DEF WholeOnReturn
    <3> QED  BY <2>2, <3>3
  <2> QED  BY <2>1, <2>2
<1>6. Len(recon) = Len(seen[1])
  <2>1. CASE schedule = "heavy"
    <3>1. chan[Idle] = <<>>
      BY <1>2, <2>1 DEF Outcome
    <3>2. Len(back) = B + Len(seen[N])
      <4>1. Len(back) + Len(chan[Idle]) = B + Len(seen[N]) /\ Len(back) \in Nat
        BY <1>3, Numbers DEF WholeOnReturn, Inv
      <4>2. Len(chan[Idle]) = 0
        BY <3>1
      <4> QED  BY <1>2, <4>1, <4>2
    <3> QED  BY <1>2, <1>5, <2>1, <3>2 DEF Rebuilding
  <2>2. CASE schedule # "heavy"
    <3>1. Sent(N) = B + Len(seen[N])
      BY <1>1, <1>2 DEF Sent, Reached
    <3> QED  BY <1>2, <1>5, <2>2, <3>1 DEF Rebuilding
  <2> QED  BY <2>1, <2>2
<1>7. CASE 1 \in ended
  <2>1. schedule # "light"
    BY <1>7 DEF Calm
  <2>2. Len(seen[1]) = Dry + 1 /\ overran
    BY <1>7, <2>1 DEF Parsing
  <2> QED  BY <1>2, <1>6, <2>2
<1>8. CASE 1 \notin ended
  <2>1. ended = {}
    BY <1>8 DEF Calm
  <2>2. Len(seen[1]) = entered - B /\ B <= entered
    <3>1. seen[1] = Run(B, entered)
      <4>1. \A j \in 1..N : j \notin ended
        BY <2>1
      <4> QED  BY <1>2, <1>3, <4>1 DEF WholeOnReturn
    <3>2. B <= entered
      BY DEF Inv, Passes
    <3> QED  BY <1>2, <3>1, <3>2, RunIsSeq
  <2>3. CASE ret = "none"
    <3>1. passed = B + Rows /\ refused = {} /\ Rows <= FirstDry
      BY <1>2, <2>3 DEF Passed
    <3>2. Len(seen[1]) = Rows
      BY <1>2, <2>2, <3>1 DEF Passing
    <3>3. Dry = Rows
      <4>1. CASE schedule = "light"
        BY <1>2, <3>1, <4>1 DEF FirstDry
      <4>2. CASE schedule # "light"
        <5>1. Len(seen[1]) <= Dry
          BY <1>1, <1>2, <1>8, <4>2 DEF Parsing
        <5> QED  BY <1>2, <3>2, <5>1
      <4> QED  BY <4>1, <4>2
    <3>4. ~overran
      BY <2>1, <2>3 DEF Outcome
    <3> QED  BY <1>2, <1>6, <2>3, <3>2, <3>3, <3>4
  <2>4. CASE ret # "none"
    <3>1. ret = "failed" /\ passed = B + FirstDry + 1 /\ refused = {}
      BY <1>2, <2>1, <2>4 DEF Passed, RowTypes
    <3>2. Len(seen[1]) = FirstDry + 1
      BY <1>2, <2>2, <3>1 DEF Passing
    <3> QED  BY <1>2, <1>6, <3>1, <3>2
  <2> QED  BY <2>3, <2>4
<1> QED  BY <1>7, <1>8

LEMMA ReturnIsReturn ==
    ASSUME RowInv, Return
    PROVE  InOrderOf!Return
<1>1. /\ call = "returned" /\ result = "none"
      /\ result' = IF ret = "failed" \/ overran THEN "failed" ELSE "decoded"
      /\ UNCHANGED <<dryModes, dryCoeffs, recon>>
  BY DEF Return, inputVars
<1>2. Rows \in Nat /\ Dry \in 0..Rows
  BY DryRows DEF RowInv, RowParts
<1>3. CASE Len(recon) = Rows /\ Dry = Rows /\ ret = "none" /\ ~overran
  <2>1. result' = "decoded"
    BY <1>1, <1>3
  <2>2. ~InOrderOf!DryBy(Len(recon))
    BY <1>2, <1>3 DEF InOrderOf!DryBy, Dry
  <2> QED  BY <1>1, <1>3, <2>1, <2>2 DEF InOrderOf!Return, Dry
<1>4. CASE Len(recon) = Dry + 1 /\ (overran \/ ret = "failed")
  <2>1. result' = "failed"
    BY <1>1, <1>4
  <2>2. InOrderOf!DryBy(Len(recon))
    BY <1>2, <1>4 DEF InOrderOf!DryBy, Dry
  <2> QED  BY <1>1, <2>1, <2>2 DEF InOrderOf!Return, Dry
<1> QED  BY <1>1, <1>3, <1>4, RowsAtTheEnd

LEMMA StepInOrder ==
    ASSUME RowInv, [RowNext]_<<vars, rowVars>>
    PROVE  [InOrderOf!Next]_(InOrderOf!vars)
<1>1. InOrderOf!Next \/ UNCHANGED <<dryModes, dryCoeffs, recon, result>>
  <2>1. CASE Taken \/ ParseHere
    BY <2>1, TakenIsRow, ParseHereIsRow DEF InOrderOf!Next
  <2>2. CASE Return
    BY <2>2, ReturnIsReturn DEF InOrderOf!Next
  <2>3. CASE \/ Ask \/ NoneTaken \/ ParseAcross \/ FinishRows \/ ProducerOver
             \/ (Joined \/ \E k \in Step : Spawn(k) \/ SpawnFails(k)) /\ UNCHANGED rowVars
             \/ RowOver \/ UNCHANGED <<vars, rowVars>>
    BY <2>3 DEF Ask, NoneTaken, ParseAcross, PassOn, FinishRows, ProducerOver, RowOver,
       rowVars, inputVars
  <2>4. ASSUME NEW k \in Step, RowStep(k)
        PROVE  InOrderOf!Next \/ UNCHANGED <<dryModes, dryCoeffs, recon, result>>
    <3>1. CASE ReconstructStep(k)
      BY <3>1, ReconstructStepIsRow DEF InOrderOf!Next
    <3>2. CASE ~ReconstructStep(k)
      BY <2>4, <3>2 DEF RowStep, ParseStep, rowVars, inputVars
    <3> QED  BY <3>1, <3>2
  <2> QED  BY <2>1, <2>2, <2>3, <2>4 DEF RowNext, Calling
<1>2. UNCHANGED <<dryModes, dryCoeffs, recon, result>> => UNCHANGED InOrderOf!vars
  BY DEF InOrderOf!vars
<1> QED  BY <1>1, <1>2

\* The rows of a lossy frame are reconstructed in order down to the first that
\* a partition runs dry in, that one unfiltered, and the frame is decoded or
\* fails, as on one thread, whichever thread parses and reconstructs and
\* whichever cannot be started (vp8/mod.rs, decode_rows_relayed()).
THEOREM RowsAsOnOneThread ==
    ASSUME ScheduleAssumption, RowsAssumption
    PROVE  RowSpec => InOrderOf!Safe
<1>1. RowInit => InOrderOf!Init
  <2> SUFFICES ASSUME RowInit PROVE InOrderOf!Init
    OBVIOUS
  <2>1. RowInv /\ recon = <<>> /\ result = "none"
    BY RowStart DEF RowInit
  <2>2. Dry \in 0..Rows
    BY <2>1, DryRows DEF RowInv, RowParts
  <2> QED  BY <2>1, <2>2 DEF InOrderOf!Init, Dry
<1>2. ASSUME RowInv, [RowNext]_<<vars, rowVars>>
      PROVE  [InOrderOf!Next]_(InOrderOf!vars)
  BY <1>2, StepInOrder
<1> QED  BY <1>1, <1>2, RowInvariance, PTL DEF RowSpec, InOrderOf!Safe
=============================================================================
