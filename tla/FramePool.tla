------------------------------ MODULE FramePool ------------------------------
(***************************************************************************)
(* The pool of threads that decodes an animation's frames ahead of the     *)
(* walk that composites them: Pool, Shared and Queue of                    *)
(* src/driver/slot.rs.                                                     *)
(*                                                                         *)
(* One calling thread (the walk) submits jobs, collects them, ends the run,*)
(* drains the pool and drops it; worker threads take jobs, decode them and *)
(* leave.  Everything shared is guarded by one mutex, so the unit of       *)
(* interleaving is the critical section: each action below is one of them, *)
(* from the lock (or the re-lock after a wait) to the unlock (or the wait).*)
(* A notification given after the unlock is a step of its own.             *)
(*                                                                         *)
(* A condition variable is the set of the threads that sleep on it; a      *)
(* sleeper may also wake for no reason.  Frames are known by their index   *)
(* in the run; what decoding does to a slot is not modelled here.          *)
(***************************************************************************)
EXTENDS Integers, Sequences, FiniteSets

CONSTANTS
    Thread,     \* identities of the operating system's threads
    Threads,    \* values the thread option takes while a pool is in use
    MaxSlots,   \* MAX_SLOTS, the ceiling on frames in flight
    MaxJobs     \* bound: the largest frame index of a run

ASSUME ThreadAssumption   == IsFiniteSet(Thread)
ASSUME ThreadsAssumption  == Threads \subseteq Nat \ {0, 1}
ASSUME MaxSlotsAssumption == MaxSlots \in Nat \ {0, 1}
ASSUME MaxJobsAssumption  == MaxJobs \in Nat

VARIABLES
    budget,     \* the thread option the pool was sized from
    queue,      \* struct Queue
    at,         \* where each thread is
    job,        \* the frame a decoding thread works on
    toStart,    \* workers a starter has still to start
    started,    \* workers a starter will join
    starters,   \* the handles Pool.starters holds
    call,       \* where the calling thread is
    want,       \* the frame it collects, or decodes itself
    more,       \* threads a submit has still to ask for
    single,     \* whether the submit in progress handed over one job
    spread,     \* threads the walk's own work is spread over, itself included
    owed,       \* frames submitted and not collected: AheadEntry.pending
    handed,     \* the last frame of the run submitted: Ahead.end - 1
    going       \* whether the run may go on: Ahead.next.is_some()

poolVars == <<queue, at, job, toStart, started, starters>>
walkVars == <<owed, handed, going>>
callVars == <<call, want, more, single, spread, walkVars>>
vars == <<budget, poolVars, callVars>>

None == -1

Lesser(a, b) == IF a < b THEN a ELSE b

\* Shared.size and Shared.beside, as fill_ahead() computes them.
Size   == Lesser(budget, MaxSlots)
Beside == Lesser(budget - 1, Size)

Index == 1..MaxJobs

EmptyQueue ==
    [waiting |-> <<>>, finished |-> {}, running |-> 0, threads |-> 0,
     ending |-> FALSE, lent |-> None]

Elements(s) == {s[k] : k \in DOMAIN s}
Queued(q)   == Elements(q.waiting)

Asleep(a) == {t \in Thread : a[t] = "asleep"}
Woken(a)  == [t \in Thread |-> IF a[t] = "asleep" THEN "ready" ELSE a[t]]

\* Condvar::notify_one on `work`: some sleeper, if there is one.
NotifyOne(a, b) ==
    \/ Asleep(a) = {} /\ b = a
    \/ \E t \in Asleep(a) : b = [a EXCEPT ![t] = "ready"]

\* done.notify_all(): the calling thread is the only one that waits on it.
DoneUnnotified(c) == c

DoneNotified(c) ==
    CASE c = "collect asleep" -> "collect"
      [] c = "drain asleep"   -> "drain"
      [] OTHER                -> c

-----------------------------------------------------------------------------
(* Worker threads: Shared::work.                                           *)

Turns(q) == IF q.lent # None THEN Size ELSE Beside

CanTake(q) == q.running < Turns(q) /\ q.waiting # <<>>

\* The head of the loop, reached by t holding the lock with the queue as q:
\* it takes a job, leaves, or sleeps until `work` is signalled.
TakeUncounted(t, q) ==
    /\ CanTake(q)
    /\ queue' = [q EXCEPT !.waiting = Tail(@)]
    /\ at' = [at EXCEPT ![t] = "decoding"]
    /\ job' = [job EXCEPT ![t] = Head(q.waiting)]

TakeQuietly(t, q) ==
    /\ CanTake(q)
    /\ queue' = [q EXCEPT !.waiting = Tail(@), !.running = @ + 1]
    /\ at' = [at EXCEPT ![t] = "decoding"]
    /\ job' = [job EXCEPT ![t] = Head(q.waiting)]

Take(t, q) ==
    /\ CanTake(q)
    /\ LET rest == Tail(q.waiting) IN
       /\ queue' = [q EXCEPT !.waiting = rest, !.running = @ + 1]
       /\ at' = [(IF q.ending /\ rest = <<>> THEN Woken(at) ELSE at)
                    EXCEPT ![t] = "decoding"]
    /\ job' = [job EXCEPT ![t] = Head(q.waiting)]

Leave(t, q) ==
    /\ ~CanTake(q)
    /\ q.ending /\ q.waiting = <<>>
    /\ queue' = [q EXCEPT !.threads = @ - 1]
    /\ at' = [at EXCEPT ![t] = "joining"]
    /\ job' = [job EXCEPT ![t] = None]

Sleep(t, q) ==
    /\ ~CanTake(q)
    /\ ~(q.ending /\ q.waiting = <<>>)
    /\ queue' = q
    /\ at' = [at EXCEPT ![t] = "asleep"]
    /\ job' = [job EXCEPT ![t] = None]

LoopHead(t, q) == Take(t, q) \/ Leave(t, q) \/ Sleep(t, q)

Work(t) ==
    /\ at[t] = "ready"
    /\ LoopHead(t, queue)
    /\ UNCHANGED <<budget, toStart, started, starters, callVars>>

\* What the end of a decode does to the queue before the loop goes round.
AfterRunTurnKept(q, i) ==
    [q EXCEPT !.running = @ - 1, !.finished = @ \cup {i}]

AfterRun(q, i) ==
    [q EXCEPT !.running = @ - 1,
              !.lent = IF @ = i THEN None ELSE @,
              !.finished = @ \cup {i}]

Finish(t) ==
    /\ at[t] = "decoding"
    /\ LoopHead(t, AfterRun(queue, job[t]))
    /\ call' = DoneNotified(call)
    /\ UNCHANGED <<budget, toStart, started, starters, want, more, single, spread, walkVars>>

\* A starter starts one worker more, or fails to and forgets the rest.
StartWorker(s) ==
    /\ at[s] = "starting" /\ toStart[s] > 0
    /\ \E t \in Thread :
        /\ at[t] = "free"
        /\ at' = [at EXCEPT ![t] = "ready"]
        /\ started' = [started EXCEPT ![s] = @ \cup {t}]
    /\ toStart' = [toStart EXCEPT ![s] = @ - 1]
    /\ UNCHANGED <<budget, queue, job, starters, callVars>>

StartWorkerFailsForgetsOne(s) ==
    /\ at[s] = "starting" /\ toStart[s] > 0
    /\ queue' = [queue EXCEPT !.threads = @ - 1]
    /\ toStart' = [toStart EXCEPT ![s] = 0]
    /\ UNCHANGED <<budget, at, job, started, starters, callVars>>

StartWorkerFails(s) ==
    /\ at[s] = "starting" /\ toStart[s] > 0
    /\ queue' = [queue EXCEPT !.threads = @ - toStart[s]]
    /\ toStart' = [toStart EXCEPT ![s] = 0]
    /\ UNCHANGED <<budget, at, job, started, starters, callVars>>

\* Having started the others, a starter is a worker like them.
BecomeWorker(s) ==
    /\ at[s] = "starting" /\ toStart[s] = 0
    /\ at' = [at EXCEPT ![s] = "ready"]
    /\ UNCHANGED <<budget, queue, job, toStart, started, starters, callVars>>

\* A thread ends once the workers it started have; joining frees them.
ExitUnjoined(t) ==
    /\ at[t] = "joining"
    /\ at' = [at EXCEPT ![t] = "over"]
    /\ started' = [started EXCEPT ![t] = {}]
    /\ UNCHANGED <<budget, queue, job, toStart, starters, callVars>>

Exit(t) ==
    /\ at[t] = "joining"
    /\ \A w \in started[t] : at[w] = "over"
    /\ at' = [w \in Thread |-> IF w = t THEN "over"
                               ELSE IF w \in started[t] THEN "free" ELSE at[w]]
    /\ started' = [started EXCEPT ![t] = {}]
    /\ UNCHANGED <<budget, queue, job, toStart, starters, callVars>>

ThreadStep(t) ==
    \/ Work(t) \/ Finish(t)
    \/ StartWorker(t) \/ StartWorkerFails(t) \/ BecomeWorker(t)
    \/ Exit(t)

-----------------------------------------------------------------------------
(* The calling thread.                                                     *)

\* Pool::new, with the sizes fill_ahead() derives from the thread option.
NewPool(b) ==
    /\ call = "no pool"
    /\ budget' = b
    /\ queue' = EmptyQueue
    /\ call' = "walk"
    /\ UNCHANGED <<at, job, toStart, started, starters, want, more, single, spread, walkVars>>

\* Pool::submit under the lock.
SubmitJobs(jobs, last) ==
    /\ call = "walk"
    /\ LET waiting == queue.waiting \o jobs
           useful  == Lesser(Len(waiting) + queue.running, Size)
           extra   == IF useful > queue.threads THEN useful - queue.threads ELSE 0
       IN  /\ queue' = [queue EXCEPT !.waiting = waiting, !.ending = last,
                                     !.threads = @ + extra]
           /\ more' = extra
    /\ single' = (Len(jobs) = 1)
    /\ owed' = owed \cup Elements(jobs)
    /\ call' = "submit: notify"
    /\ UNCHANGED <<budget, at, job, toStart, started, starters, want, spread>>

SubmitUnnotified ==
    /\ call = "submit: notify"
    /\ call' = IF more = 0 THEN "walk" ELSE "submit: start"
    /\ single' = FALSE
    /\ UNCHANGED <<budget, poolVars, want, more, spread, walkVars>>

SubmitNotify ==
    /\ call = "submit: notify"
    /\ IF single THEN NotifyOne(at, at') ELSE at' = Woken(at)
    /\ call' = IF more = 0 THEN "walk" ELSE "submit: start"
    /\ single' = FALSE
    /\ UNCHANGED <<budget, queue, job, toStart, started, starters,
                   want, more, spread, walkVars>>

\* Reaps the starters that have ended, then starts one for `more` threads.
SubmitStart ==
    /\ call = "submit: start"
    /\ LET over   == {s \in starters : at[s] = "over"}
           reaped == [t \in Thread |-> IF t \in over THEN "free" ELSE at[t]]
       IN  \/ \E s \in Thread :
                /\ reaped[s] = "free"
                /\ at' = [reaped EXCEPT ![s] = "starting"]
                /\ toStart' = [toStart EXCEPT ![s] = more - 1]
                /\ starters' = (starters \ over) \cup {s}
                /\ UNCHANGED queue
           \/ /\ at' = reaped
              /\ queue' = [queue EXCEPT !.threads = @ - more]
              /\ starters' = starters \ over
              /\ UNCHANGED toStart
    /\ more' = 0
    /\ call' = "walk"
    /\ UNCHANGED <<budget, job, started, want, single, spread, walkVars>>

\* Pool::end, and the notification it gives once the lock is free again;
\* Ahead::stop, which alone calls it, has forgotten the next frame.
SetEnding ==
    /\ queue' = [queue EXCEPT !.ending = TRUE]
    /\ going' = FALSE
    /\ call' = "end: notify"
    /\ UNCHANGED <<budget, at, job, toStart, started, starters,
                   want, more, single, spread, owed, handed>>

EndNotify ==
    /\ call = "end: notify"
    /\ at' = Woken(at)
    /\ call' = "walk"
    /\ UNCHANGED <<budget, queue, job, toStart, started, starters,
                   want, more, single, spread, walkVars>>

\* Pool::collect: the walk asks for a frame it is owed.
Collect(i) ==
    /\ call = "walk" /\ i \in owed
    /\ call' = "collect"
    /\ want' = i
    /\ UNCHANGED <<budget, poolVars, more, single, spread, walkVars>>

CollectFinished ==
    /\ call = "collect" /\ want \in queue.finished
    /\ queue' = [queue EXCEPT !.finished = @ \ {want}]
    /\ owed' = owed \ {want}
    /\ call' = "walk"
    /\ want' = None
    /\ UNCHANGED <<budget, at, job, toStart, started, starters, more, single, spread,
                   handed, going>>

\* No thread has started on it: it is taken out and decoded here.
CollectWaitingCopied ==
    /\ call = "collect" /\ want \notin queue.finished
    /\ want \in Queued(queue)
    /\ call' = "decode"
    /\ UNCHANGED <<budget, poolVars, want, more, single, spread, walkVars>>

CollectWaiting ==
    /\ call = "collect" /\ want \notin queue.finished
    /\ \E k \in DOMAIN queue.waiting :
        /\ queue.waiting[k] = want
        /\ queue' = [queue EXCEPT !.waiting =
                        SubSeq(@, 1, k - 1) \o SubSeq(@, k + 1, Len(@))]
    /\ call' = "decode"
    /\ UNCHANGED <<budget, at, job, toStart, started, starters,
                   want, more, single, spread, walkVars>>

DecodeHere ==
    /\ call = "decode"
    /\ owed' = owed \ {want}
    /\ call' = "walk"
    /\ want' = None
    /\ UNCHANGED <<budget, poolVars, more, single, spread, handed, going>>

\* A thread is decoding it: the walk lends its turn and waits.
CollectLendUnnotified ==
    /\ call = "collect"
    /\ want \notin queue.finished \cup Queued(queue)
    /\ queue' = [queue EXCEPT !.lent = IF @ = None THEN want ELSE @]
    /\ call' = "collect asleep"
    /\ UNCHANGED <<budget, at, job, toStart, started, starters,
                   want, more, single, spread, walkVars>>

CollectLend ==
    /\ call = "collect"
    /\ want \notin queue.finished \cup Queued(queue)
    /\ IF queue.lent = None
       THEN /\ queue' = [queue EXCEPT !.lent = want]
            /\ IF queue.waiting # <<>> THEN NotifyOne(at, at') ELSE at' = at
       ELSE UNCHANGED <<queue, at>>
    /\ call' = "collect asleep"
    /\ UNCHANGED <<budget, job, toStart, started, starters,
                   want, more, single, spread, walkVars>>

\* Pool::drain: the jobs waiting come back undecoded at once ...
Drain ==
    /\ call = "walk" /\ owed # {}
    /\ owed' = owed \ Queued(queue)
    /\ queue' = [queue EXCEPT !.waiting = <<>>]
    /\ call' = "drain"
    /\ UNCHANGED <<budget, at, job, toStart, started, starters,
                   want, more, single, spread, handed, going>>

\* ... and the others once none is running.  Ahead::clear, which alone calls
\* it, goes on to end the run.
DrainWait ==
    /\ call = "drain" /\ queue.running # 0
    /\ call' = "drain asleep"
    /\ UNCHANGED <<budget, poolVars, want, more, single, spread, walkVars>>

DrainFinishedEarly ==
    /\ call = "drain"
    /\ owed' = owed \ queue.finished
    /\ queue' = [queue EXCEPT !.finished = {}]
    /\ call' = "drained"
    /\ UNCHANGED <<budget, at, job, toStart, started, starters,
                   want, more, single, spread, handed, going>>

DrainFinished ==
    /\ call = "drain" /\ queue.running = 0
    /\ owed' = owed \ queue.finished
    /\ queue' = [queue EXCEPT !.finished = {}]
    /\ call' = "drained"
    /\ UNCHANGED <<budget, at, job, toStart, started, starters,
                   want, more, single, spread, handed, going>>

DrainEnd == call = "drained" /\ SetEnding

\* Drop for Pool: the jobs waiting are given up, the threads told to leave
\* and joined.
Drop ==
    /\ call = "walk"
    /\ queue' = [queue EXCEPT !.ending = TRUE, !.waiting = <<>>]
    /\ owed' = {}
    /\ going' = FALSE
    /\ call' = "drop: notify"
    /\ UNCHANGED <<budget, at, job, toStart, started, starters,
                   want, more, single, spread, handed>>

DropNotify ==
    /\ call = "drop: notify"
    /\ at' = Woken(at)
    /\ call' = "drop: join"
    /\ UNCHANGED <<budget, queue, job, toStart, started, starters,
                   want, more, single, spread, walkVars>>

DropJoin ==
    /\ call = "drop: join"
    /\ \A s \in starters : at[s] = "over"
    /\ at' = [t \in Thread |-> IF t \in starters THEN "free" ELSE at[t]]
    /\ starters' = {}
    /\ call' = "no pool"
    /\ UNCHANGED <<budget, queue, job, toStart, started,
                   want, more, single, spread, walkVars>>

\* Ahead::walk_threads: what the walk may spread its own work over, once the
\* threads decoding, or about to, are taken off.  It does so to composite a
\* frame and again to export it.
WalkThreadsRunningOnly ==
    LET busy == Lesser(queue.running, Beside)
    IN  IF budget - busy > 1 THEN budget - busy ELSE 1

WalkThreads ==
    LET busy == Lesser(queue.running + Len(queue.waiting), Beside)
    IN  IF budget - busy > 1 THEN budget - busy ELSE 1

Composite ==
    /\ call = "walk"
    /\ call' = "composite"
    /\ spread' = WalkThreads
    /\ UNCHANGED <<budget, poolVars, want, more, single, walkVars>>

CompositeEnd ==
    /\ call = "composite"
    /\ call' = "walk"
    /\ spread' = 1
    /\ UNCHANGED <<budget, poolVars, want, more, single, walkVars>>

\* The steps of a call in progress, which the calling thread always goes on
\* to take.
CallStep ==
    \/ SubmitNotify \/ SubmitStart
    \/ EndNotify
    \/ CollectFinished \/ CollectWaiting \/ DecodeHere \/ CollectLend
    \/ DrainWait \/ DrainFinished \/ DrainEnd
    \/ DropNotify \/ DropJoin
    \/ CompositeEnd

\* A wait may return although nothing was signalled.
SpuriousWakeup ==
    \/ \E t \in Asleep(at) :
        /\ at' = [at EXCEPT ![t] = "ready"]
        /\ UNCHANGED <<budget, queue, job, toStart, started, starters, callVars>>
    \/ /\ call # DoneNotified(call)
       /\ call' = DoneNotified(call)
       /\ UNCHANGED <<budget, poolVars, want, more, single, spread, walkVars>>

-----------------------------------------------------------------------------
(* The walk's use of the pool.  It makes one call at a time, as &mut self   *)
(* requires.  A run hands its first frames over in one batch and the rest  *)
(* one by one, until it stops; frames are collected in order, and another  *)
(* run starts once every frame of the one before has been collected.       *)

\* Ahead::start; frame 0 of a run never goes to the pool.
Start ==
    /\ owed = {} /\ ~going
    /\ \E n \in 0..MaxJobs, last \in BOOLEAN :
        /\ SubmitJobs([k \in 1..n |-> k], last)
        /\ handed' = n
        /\ going' = ~last

\* Ahead::follow, where the run goes on.
Follow ==
    /\ going /\ handed < MaxJobs
    /\ SubmitJobs(<<handed + 1>>, FALSE)
    /\ handed' = handed + 1
    /\ UNCHANGED going

\* Ahead::stop.
Stop == call = "walk" /\ SetEnding

Call ==
    \/ \E b \in Threads : NewPool(b)
    \/ Start
    \/ Follow
    \/ Stop
    \/ \E i \in owed : (\A k \in owed : i <= k) /\ Collect(i)
    \/ Drain
    \/ Drop
    \/ Composite

Init ==
    /\ budget = 0
    /\ queue = EmptyQueue
    /\ at = [t \in Thread |-> "free"]
    /\ job = [t \in Thread |-> None]
    /\ toStart = [t \in Thread |-> 0]
    /\ started = [t \in Thread |-> {}]
    /\ starters = {}
    /\ call = "no pool"
    /\ want = None
    /\ more = 0
    /\ single = FALSE
    /\ spread = 1
    /\ owed = {}
    /\ handed = 0
    /\ going = FALSE

Next ==
    \/ Call
    \/ CallStep
    \/ \E t \in Thread : ThreadStep(t)
    \/ SpuriousWakeup

Spec == Init /\ [][Next]_vars

\* Every thread is scheduled, and the mutex keeps none out for ever.
Fairness ==
    /\ WF_vars(CallStep)
    /\ \A t \in Thread : WF_vars(ThreadStep(t))

FairSpec == Spec /\ Fairness
-----------------------------------------------------------------------------
(* Properties.                                                             *)

Calls == {"no pool", "walk", "submit: notify", "submit: start",
          "end: notify", "collect", "collect asleep", "decode",
          "drain", "drain asleep", "drained", "drop: notify", "drop: join",
          "composite"}

Places == {"free", "starting", "ready", "asleep", "decoding", "joining", "over"}

Queues == [waiting : Seq(Index), finished : SUBSET Index, running : Nat,
           threads : Int, ending : BOOLEAN, lent : Index \cup {None}]

TypeOK ==
    /\ budget \in Threads \cup {0}
    /\ queue \in Queues
    /\ at \in [Thread -> Places]
    /\ job \in [Thread -> Index \cup {None}]
    /\ toStart \in [Thread -> Nat]
    /\ started \in [Thread -> SUBSET Thread]
    /\ starters \subseteq Thread
    /\ call \in Calls
    /\ want \in Index \cup {None}
    /\ more \in Nat
    /\ single \in BOOLEAN
    /\ spread \in Nat \ {0}
    /\ owed \subseteq Index
    /\ handed \in 0..MaxJobs
    /\ going \in BOOLEAN

Decoding == {t \in Thread : at[t] = "decoding"}

\* The calling thread is at work of its own: it is in no call that waits for
\* the pool.
Working == call \notin {"no pool", "collect", "collect asleep",
                        "drain", "drain asleep", "drop: join"}

\* A decode never has more threads at work than its thread option allows:
\* those that decode frames, and the calling one while it decodes itself, or
\* all those it spreads its compositing over.  The turn it lends comes back
\* before it goes on, and the pool only gets less busy while it composites
\* (slot.rs:544, slot.rs:662, the test
\* frames_decoded_ahead_keep_to_the_thread_budget).
ThreadBudget ==
    call # "no pool" =>
        Cardinality(Decoding) + (IF Working THEN spread ELSE 0) <= budget

\* The turn is lent exactly for the frame the calling thread is waiting on,
\* and only while some thread decodes that frame, so it is always returned.
LentForAFrameInProgress ==
    queue.lent # None =>
        /\ call \in {"collect", "collect asleep"}
        /\ want = queue.lent
        /\ \E t \in Decoding : job[t] = queue.lent

\* Every frame handed to the pool and not collected is in exactly one place:
\* waiting, with one thread, finished, or with the calling thread; nothing is
\* lost on the way and no frame (and so no slot) is in two places.
Dropping   == call \in {"drop: notify", "drop: join", "no pool"}
InHand     == IF call = "decode" THEN {want} ELSE {}

Distinct(s) == \A i, k \in DOMAIN s : s[i] = s[k] => i = k

\* The frames waiting in q, finished in q, with the threads D by j, and in
\* the calling thread's hand are those owed, and no two of them the same.
Placed(q, D, j) ==
    LET with == {j[t] : t \in D} IN
    /\ owed = Queued(q) \cup q.finished \cup with \cup InHand
    /\ Queued(q) \cap (q.finished \cup with \cup InHand) = {}
    /\ q.finished \cap (with \cup InHand) = {}
    /\ with \cap InHand = {}
    /\ Distinct(q.waiting)
    /\ \A s, t \in D : j[s] = j[t] => s = t

EachFrameInOnePlace == ~Dropping => Placed(queue, Decoding, job)

\* Queue.threads counts the threads that serve the pool or are about to, so
\* that it cannot fall below zero and submit() neither starts too many nor
\* waits for threads that never come.
ToCome == UNION {{s} \X (1..toStart[s]) : s \in Thread}

Serving == {t \in Thread : at[t] \in {"starting", "ready", "asleep", "decoding"}}

ThreadsCounted ==
    /\ queue.threads = Cardinality(Serving) + Cardinality(ToCome) + more
    /\ queue.threads <= Size \/ call = "no pool"

\* No wake-up is lost: while threads sleep, there are at least as many awake
\* and on their way to the queue as there are jobs a turn is free for.
Useful == Lesser(Turns(queue) - queue.running, Len(queue.waiting))

NoLostWakeup ==
    (Asleep(at) # {} /\ call # "submit: notify") =>
        Useful <= Cardinality({t \in Thread : at[t] \in {"starting", "ready"}})

\* Once the pool is dropped none of its threads is left, those its starters
\* started included: the library may be unloaded next (slot.rs:984).
NoThreadOutlivesThePool ==
    call = "no pool" => \A t \in Thread : at[t] = "free"

\* No call to the pool hangs: collect, drain and drop all return.
CallsReturn ==
    (call # "walk") ~> (call \in {"walk", "no pool"})

\* A queued frame is taken by some thread as long as one serves the pool,
\* whether or not the walk ever asks for it.
FramesAreTaken ==
    \A i \in Index :
        (i \in Queued(queue) /\ \E t \in Thread : at[t] \in {"ready", "asleep", "decoding"})
            ~> (i \notin Queued(queue))

\* Once the run is ending and nothing is queued the threads leave of their
\* own accord, while the walk still composites, unless another run starts
\* (slot.rs:658: "leave once it cannot").
ThreadsLeave ==
    (queue.ending /\ queue.waiting = <<>>)
        ~> (queue.threads = 0 \/ ~queue.ending \/ queue.waiting # <<>>)
-----------------------------------------------------------------------------
(* The pool keeps the promise FrameJobs makes.                             *)

StatusOf(i) ==
    IF Dropping THEN "walk"
    ELSE IF i \in Queued(queue) THEN "queued"
    ELSE IF \E t \in Decoding : job[t] = i THEN "decoding"
    ELSE IF i \in queue.finished THEN "decoded"
    ELSE "walk"

Jobs == INSTANCE FrameJobs WITH Frame <- Index, status <- [i \in Index |-> StatusOf(i)]

\* Every behaviour of the threads, the queue and the calls is one in which
\* each frame is decoded once at most and comes back only when it may: a
\* frame a thread has begun is never taken from it, lost or begun again.
KeepsItsPromise == Jobs!Spec
=============================================================================
