-------------------------------- MODULE Relay --------------------------------
(***************************************************************************)
(* The relay of src/task.rs: a producer on the calling thread and N steps, *)
(* each on a thread of its own, with a few buffers going round through     *)
(* them.  Channel k feeds step k, and channel N + 1 brings the buffers     *)
(* back to the producer.  With too few threads, or when one cannot be      *)
(* started, the producer runs every step itself.                           *)
(*                                                                         *)
(* A buffer is known by the number of the pass it was last handed on in;   *)
(* the B it starts with count as passes 1..B.  What a step does to a       *)
(* buffer is its own business: here it only ends well, ends well and wants *)
(* no more, or panics.                                                     *)
(*                                                                         *)
(* The channels are std::sync::mpsc's: unbounded, in order, and closed by  *)
(* dropping either end.  A buffer sent to a receiver that is gone is lost, *)
(* and so are those left in its channel.  Spinning before a receive only   *)
(* changes how long it takes, so wait() is a plain receive.                *)
(***************************************************************************)
EXTENDS Integers, Sequences

CONSTANTS
    N,          \* the steps
    B,          \* the buffers
    Threads,    \* values of `threads`
    MaxPass     \* bound: the number of the last pass

ASSUME NAssumption       == N \in Nat \ {0}
ASSUME BAssumption       == B \in Nat \ {0}
ASSUME ThreadsAssumption == Threads \subseteq Nat
ASSUME MaxPassAssumption == MaxPass \in Nat

VARIABLES
    route,      \* enum Route, by the name of its variant
    more,       \* Route::Here's flag
    chan,       \* what is in each channel
    sender,     \* whether a channel's sending end is still held
    receiver,   \* whether its receiving end is
    at,         \* where each step's thread is
    hand,       \* the buffer a step works on
    call,       \* where the calling thread is
    passed,     \* the number of the last pass
    refused,    \* the passes that were answered with false
    seen,       \* the buffers each step has worked on, in order
    back,       \* the buffers take() gave the producer, in order
    entered,    \* the number of the last buffer that went to the first step
    ended,      \* the steps that said they want no more
    panicked    \* the steps that panicked

threadVars  == <<at, hand>>
chanVars    == <<chan, sender, receiver>>
routeVars   == <<route, more>>
historyVars == <<passed, refused, seen, back, entered, ended, panicked>>
vars == <<routeVars, chanVars, threadVars, call, historyVars>>

Step    == 1..N
Channel == 1..N + 1
Idle    == N + 1
Serial  == 1..MaxPass
None    == 0

-----------------------------------------------------------------------------
(* A step's thread.                                                        *)

Receive(k) ==
    /\ at[k] = "waiting" /\ chan[k] # <<>>
    /\ at' = [at EXCEPT ![k] = "working"]
    /\ hand' = [hand EXCEPT ![k] = Head(chan[k])]
    /\ chan' = [chan EXCEPT ![k] = Tail(@)]
    /\ seen' = [seen EXCEPT ![k] = Append(@, Head(chan[k]))]
    /\ UNCHANGED <<routeVars, sender, receiver, call, passed, refused, back,
                   entered, ended, panicked>>

DisconnectedIfEmpty(k) ==
    /\ at[k] = "waiting" /\ chan[k] = <<>>
    /\ at' = [at EXCEPT ![k] = "leaving"]
    /\ UNCHANGED <<routeVars, chanVars, hand, call, historyVars>>

\* wait() finds the channel empty, with nothing to come.
Disconnected(k) ==
    /\ at[k] = "waiting" /\ chan[k] = <<>> /\ ~sender[k]
    /\ at' = [at EXCEPT ![k] = "leaving"]
    /\ UNCHANGED <<routeVars, chanVars, hand, call, historyVars>>

EndUnlessDone(k, wants) ==
    /\ at[k] = "working"
    /\ chan' = IF wants /\ receiver[k + 1]
               THEN [chan EXCEPT ![k + 1] = Append(@, hand[k])] ELSE chan
    /\ at' = [at EXCEPT ![k] = IF wants /\ receiver[k + 1] THEN "waiting" ELSE "leaving"]
    /\ hand' = [hand EXCEPT ![k] = None]
    /\ ended' = IF wants THEN ended ELSE ended \cup {k}
    /\ UNCHANGED <<routeVars, sender, receiver, call, passed, refused, seen, back,
                   entered, panicked>>

\* The step is done with its buffer, which goes on whether or not the step
\* wants another.
End(k, wants) ==
    /\ at[k] = "working"
    /\ chan' = IF receiver[k + 1]
               THEN [chan EXCEPT ![k + 1] = Append(@, hand[k])] ELSE chan
    /\ at' = [at EXCEPT ![k] = IF wants /\ receiver[k + 1] THEN "waiting" ELSE "leaving"]
    /\ hand' = [hand EXCEPT ![k] = None]
    /\ ended' = IF wants THEN ended ELSE ended \cup {k}
    /\ UNCHANGED <<routeVars, sender, receiver, call, passed, refused, seen, back,
                   entered, panicked>>

Panic(k) ==
    /\ at[k] = "working"
    /\ at' = [at EXCEPT ![k] = "leaving"]
    /\ hand' = [hand EXCEPT ![k] = None]
    /\ panicked' = panicked \cup {k}
    /\ UNCHANGED <<routeVars, chanVars, call, passed, refused, seen, back,
                   entered, ended>>

LeaveOpen(k) ==
    /\ at[k] = "leaving"
    /\ at' = [at EXCEPT ![k] = "gone"]
    /\ receiver' = [receiver EXCEPT ![k] = FALSE]
    /\ chan' = [chan EXCEPT ![k] = <<>>]
    /\ UNCHANGED <<routeVars, sender, hand, call, historyVars>>

\* The closure goes, and the ends of the channels it owns with it.
Leave(k) ==
    /\ at[k] = "leaving"
    /\ at' = [at EXCEPT ![k] = "gone"]
    /\ receiver' = [receiver EXCEPT ![k] = FALSE]
    /\ chan' = [chan EXCEPT ![k] = <<>>]
    /\ sender' = [sender EXCEPT ![k + 1] = FALSE]
    /\ UNCHANGED <<routeVars, hand, call, historyVars>>

StepThread(k) ==
    \/ Receive(k) \/ Disconnected(k)
    \/ \E wants \in BOOLEAN : End(k, wants)
    \/ Panic(k) \/ Leave(k)

-----------------------------------------------------------------------------
(* Starting the steps.                                                     *)

Started == {k \in Step : at[k] # "none"}

Spawn(k) ==
    /\ call = "spawn" /\ Started = 1..k - 1
    /\ at' = [at EXCEPT ![k] = "waiting"]
    /\ call' = IF k = N THEN "produce" ELSE "spawn"
    /\ UNCHANGED <<routeVars, chanVars, hand, historyVars>>

\* The ends the step was given go, and those of the steps after it; the
\* producer never runs, and its end goes too.
SpawnFails(k) ==
    /\ call = "spawn" /\ Started = 1..k - 1
    /\ receiver' = [c \in Channel |-> receiver[c] /\ (c < k \/ c = Idle)]
    /\ sender' = [c \in Channel |-> sender[c] /\ 1 < c /\ c <= k]
    /\ call' = "join"
    /\ UNCHANGED <<routeVars, chan, threadVars, historyVars>>

-----------------------------------------------------------------------------
(* The producer: any use of take(), pass() and finish() that does not hold  *)
(* every buffer back and then ask for one more.                            *)

Held == Len(back) - (passed - B)

StartTake ==
    /\ call = "produce"
    /\ Held < B \/ (route = "across" /\ ~sender[1]) \/ (route = "here" /\ ~more)
    /\ call' = "take"
    /\ UNCHANGED <<routeVars, chanVars, threadVars, historyVars>>

TakeNewest ==
    /\ call = "take" /\ chan[Idle] # <<>>
    /\ LET n == Len(chan[Idle]) IN
       /\ chan' = [chan EXCEPT ![Idle] = SubSeq(@, 1, n - 1)]
       /\ back' = Append(back, chan[Idle][n])
    /\ call' = "produce"
    /\ UNCHANGED <<routeVars, sender, receiver, threadVars, passed, refused, seen,
                   entered, ended, panicked>>

Take ==
    /\ call = "take" /\ chan[Idle] # <<>>
    /\ chan' = [chan EXCEPT ![Idle] = Tail(@)]
    /\ back' = Append(back, Head(chan[Idle]))
    /\ call' = "produce"
    /\ UNCHANGED <<routeVars, sender, receiver, threadVars, passed, refused, seen,
                   entered, ended, panicked>>

TakeNone ==
    /\ call = "take" /\ chan[Idle] = <<>>
    /\ route = "here" \/ ~sender[Idle]
    /\ call' = "produce"
    /\ UNCHANGED <<routeVars, chanVars, threadVars, historyVars>>

Next1 == passed + 1

PassAcross ==
    /\ call = "produce" /\ route = "across" /\ Held > 0 /\ Next1 <= MaxPass
    /\ passed' = Next1
    /\ IF sender[1] /\ receiver[1]
       THEN /\ chan' = [chan EXCEPT ![1] = Append(@, Next1)]
            /\ entered' = Next1
            /\ UNCHANGED refused
       ELSE /\ refused' = refused \cup {Next1}
            /\ UNCHANGED <<chan, entered>>
    /\ UNCHANGED <<routeVars, sender, receiver, threadVars, call, seen, back,
                   ended, panicked>>

\* All of the steps run in turn, whatever those before them said.
PassHere(noes) ==
    /\ call = "produce" /\ route = "here" /\ Held > 0 /\ Next1 <= MaxPass
    /\ more
    /\ passed' = Next1 /\ entered' = Next1
    /\ seen' = [k \in Step |-> Append(seen[k], Next1)]
    /\ ended' = ended \cup noes
    /\ more' = (noes = {})
    /\ refused' = IF noes = {} THEN refused ELSE refused \cup {Next1}
    /\ chan' = [chan EXCEPT ![Idle] = Append(@, Next1)]
    /\ UNCHANGED <<route, sender, receiver, threadVars, call, back, panicked>>

PassHereRefused ==
    /\ call = "produce" /\ route = "here" /\ Held > 0 /\ Next1 <= MaxPass
    /\ ~more
    /\ passed' = Next1
    /\ refused' = refused \cup {Next1}
    /\ UNCHANGED <<routeVars, chanVars, threadVars, call, seen, back, entered,
                   ended, panicked>>

\* A step that panics here takes the relay with it.
PassHerePanics(k) ==
    /\ call = "produce" /\ route = "here" /\ Held > 0 /\ Next1 <= MaxPass
    /\ more
    /\ passed' = Next1 /\ entered' = Next1
    /\ seen' = [j \in Step |-> IF j <= k THEN Append(seen[j], Next1) ELSE seen[j]]
    /\ panicked' = panicked \cup {k}
    /\ call' = "raised"
    /\ UNCHANGED <<routeVars, chanVars, threadVars, refused, back, ended>>

Finish ==
    /\ call = "produce"
    /\ IF route = "here"
       THEN more' = FALSE /\ UNCHANGED <<route, sender>>
       ELSE sender' = [sender EXCEPT ![1] = FALSE] /\ UNCHANGED routeVars
    /\ UNCHANGED <<chan, receiver, threadVars, call, historyVars>>

\* produce() returns, and the relay drops its end of the first channel.
Produced ==
    /\ call = "produce"
    /\ IF route = "here" THEN call' = "returned" /\ UNCHANGED sender
       ELSE call' = "join" /\ sender' = [sender EXCEPT ![1] = FALSE]
    /\ UNCHANGED <<routeVars, chan, receiver, threadVars, historyVars>>

\* Every thread is joined: a panic goes on, what the producer made is
\* returned, or the producer runs after all, here.
Joined ==
    /\ call = "join" /\ \A k \in Started : at[k] = "gone"
    /\ call' = IF panicked # {} THEN "raised"
               ELSE IF Started = Step THEN "returned" ELSE "produce"
    /\ route' = IF call' = "produce" THEN "here" ELSE route
    /\ UNCHANGED <<more, chanVars, threadVars, historyVars>>

Producer ==
    \/ StartTake
    \/ PassAcross \/ PassHereRefused
    \/ \E noes \in SUBSET Step : PassHere(noes)
    \/ \E k \in Step : PassHerePanics(k)
    \/ Finish

\* The relay is over; scope() has joined every thread.
Over ==
    /\ call \in {"returned", "raised"}
    /\ UNCHANGED vars

\* What the calling thread always goes on to do.
Caller ==
    \/ \E k \in Step : Spawn(k) \/ SpawnFails(k)
    \/ Take \/ TakeNone
    \/ Produced \/ Joined

Init ==
    /\ \E threads \in Threads : route = IF threads <= N THEN "here" ELSE "across"
    /\ more = TRUE
    /\ chan = [c \in Channel |-> IF c = Idle THEN [i \in 1..B |-> i] ELSE <<>>]
    /\ sender = [c \in Channel |-> TRUE]
    /\ receiver = [c \in Channel |-> TRUE]
    /\ at = [k \in Step |-> "none"]
    /\ hand = [k \in Step |-> None]
    /\ call = IF route = "here" THEN "produce" ELSE "spawn"
    /\ passed = B /\ entered = B /\ refused = {}
    /\ seen = [k \in Step |-> <<>>] /\ back = <<>>
    /\ ended = {} /\ panicked = {}

Next ==
    \/ Producer
    \/ Caller
    \/ \E k \in Step : StepThread(k)
    \/ Over

Spec == Init /\ [][Next]_vars

\* Threads are scheduled, and the producer comes to an end.
Fairness ==
    /\ WF_vars(Caller)
    /\ \A k \in Step : WF_vars(StepThread(k))

FairSpec == Spec /\ Fairness

-----------------------------------------------------------------------------
(* Properties.                                                             *)

Places == {"none", "waiting", "working", "leaving", "gone"}
Calls  == {"spawn", "produce", "take", "join", "returned", "raised"}

TypeOK ==
    /\ route \in {"here", "across"} /\ more \in BOOLEAN
    /\ chan \in [Channel -> Seq(Nat)]
    /\ sender \in [Channel -> BOOLEAN] /\ receiver \in [Channel -> BOOLEAN]
    /\ at \in [Step -> Places] /\ hand \in [Step -> Nat]
    /\ call \in Calls
    /\ passed \in Nat /\ entered \in Nat /\ refused \subseteq Nat
    /\ seen \in [Step -> Seq(Nat)] /\ back \in Seq(Nat)
    /\ Held \in 0..B
    /\ ended \subseteq Step /\ panicked \subseteq Step

\* The numbers after `from` up to `to`, in order.
Run(from, to) == [i \in 1..(to - from) |-> from + i]

\* Every step sees the buffers in the order they were passed, none skipped and
\* none twice, and so does take(): first those never passed, then the others,
\* whichever steps say no, panic or cannot be started (task.rs:154, 198).
InOrder ==
    /\ \A k \in Step : seen[k] = Run(B, B + Len(seen[k]))
    /\ back = Run(0, Len(back))

\* When the relay returns, nothing that went in is left in a channel or with a
\* thread: every step has seen all that the one before it saw, the buffer that
\* one said no on included, unless it or one after it said no itself, and all
\* that the last step saw came back.  So a frame relayed row by row is whole.
WholeOnReturn ==
    call = "returned" =>
        /\ \A k \in Step :
               (\A j \in k..N : j \notin ended) =>
                   seen[k] = IF k = 1 THEN Run(B, entered) ELSE seen[k - 1]
        /\ Len(back) + Len(chan[Idle]) = B + Len(seen[N])

\* take() gives None, and pass() false, only once the producer has called
\* finish(), a step has said no, or one has panicked (task.rs:155, 164).
Ending ==
    IF route = "here" THEN ~more
    ELSE ~sender[1] \/ ended # {} \/ panicked # {}

TurnedAwayOnlyAtTheEnd ==
    [][(call = "take" /\ call' = "produce" /\ back' = back)
            \/ refused' # refused => Ending']_vars

\* Nothing waits for ever: take() returns while the steps work, leave or
\* panic, and so does the relay, once its producer has.
CallsReturn ==
    \A c \in {"spawn", "take", "join"} : (call = c) ~> (call # c)
=============================================================================
