------------------------------ MODULE SplitWork ------------------------------
(***************************************************************************)
(* pieces(), for_each() and join() of src/task.rs: work split over scoped  *)
(* threads that may fail to start, a piece of which may panic.             *)
(***************************************************************************)
EXTENDS Integers, SequencesExt

CONSTANTS Calls     \* the calls made: op, the items, the threads asked for and
                    \* the items whose work panics

VARIABLES
    call,       \* the call under way
    chunks,     \* the chunks of items not given to a thread or run here yet
    threads,    \* the chunks that threads work on
    here,       \* the items left of the chunk the caller works on
    ran,        \* how often each item has been worked on
    beside,     \* join(): whether the side runs beside; for_each(): unused
    panicked,   \* a panic is unwinding, or waits to be passed on
    returned

vars == <<call, chunks, threads, here, ran, beside, panicked, returned>>

\* pieces(): never a piece below `min`, never more than there are threads.
Pieces(total, min, n) ==
    IF n < 2 \/ min = 0 THEN 1 ELSE Max({1, Min({n, total \div min})})

\* chunks_mut(per) of for_each(); join() has one item a side, the main last.
Per(c)      == LET n == Min({c.threads, c.items}) IN (c.items + n - 1) \div n
ChunksOf(c) ==
    IF c.op = "join"
    THEN IF c.threads < 2 THEN << <<2, 1>> >> ELSE << <<1>>, <<2>> >>
    ELSE IF c.threads < 2 \/ c.items < 2 THEN << [i \in 1..c.items |-> i] >>
    ELSE [k \in 1..(c.items + Per(c) - 1) \div Per(c) |->
             [i \in 1..Min({Per(c), c.items - (k - 1) * Per(c)}) |-> (k - 1) * Per(c) + i]]

InitOf(c) ==
    /\ call = c /\ chunks = ChunksOf(c) /\ threads = {} /\ here = <<>>
    /\ ran = [i \in 1..c.items |-> 0]
    /\ beside = FALSE /\ panicked = FALSE /\ returned = FALSE
Init == \E c \in Calls : InitOf(c)

\* A chunk but the last is given to a thread.  When none starts it is run here:
\* by for_each() at once, by join() after its main half.
Spawn ==
    /\ ~panicked /\ here = <<>> /\ Len(chunks) > 1
    /\ threads' = threads \cup {Head(chunks)} /\ chunks' = Tail(chunks)
    /\ beside' = TRUE
    /\ UNCHANGED <<call, here, ran, panicked, returned>>
\* A chunk without a thread is left out.
SpawnFailsForgets ==
    /\ ~panicked /\ here = <<>> /\ Len(chunks) > 1
    /\ chunks' = Tail(chunks)
    /\ UNCHANGED <<call, threads, here, ran, beside, panicked, returned>>

SpawnFails ==
    /\ ~panicked /\ here = <<>> /\ Len(chunks) > 1
    /\ IF call.op = "join" THEN chunks' = << Last(chunks) \o Head(chunks) >> /\ UNCHANGED here
                           ELSE here' = Head(chunks) /\ chunks' = Tail(chunks)
    /\ UNCHANGED <<call, threads, ran, beside, panicked, returned>>

\* The last chunk stays with the caller.
RunLast ==
    /\ ~panicked /\ here = <<>> /\ Len(chunks) = 1
    /\ here' = Head(chunks) /\ chunks' = <<>>
    /\ UNCHANGED <<call, threads, ran, beside, panicked, returned>>

\* An item is worked on here.  A panic leaves the rest, and the scope waits.
Work(i) ==
    /\ here # <<>> /\ i = Head(here)
    /\ ran' = [ran EXCEPT ![i] = @ + 1]
    /\ IF i \in call.panics THEN panicked' = TRUE /\ here' = <<>> /\ chunks' = <<>>
                            ELSE here' = Tail(here) /\ UNCHANGED <<panicked, chunks>>
    /\ UNCHANGED <<call, threads, beside, returned>>
ThreadWorks(t) ==
    /\ t # <<>>
    /\ ran' = [ran EXCEPT ![Head(t)] = @ + 1]
    /\ threads' = (threads \ {t}) \cup {IF Head(t) \in call.panics THEN <<>> ELSE Tail(t)}
    /\ UNCHANGED <<call, chunks, here, beside, panicked, returned>>

\* unwrap_joined(): a thread's panic is passed on once every thread is done.
Return ==
    /\ ~returned /\ here = <<>> /\ chunks = <<>> /\ threads \subseteq {<<>>}
    /\ returned' = TRUE /\ threads' = {}
    /\ panicked' = (panicked \/ \E i \in call.panics : ran[i] > 0)
    /\ UNCHANGED <<call, chunks, here, ran, beside>>

Next == \/ Spawn \/ SpawnFails \/ RunLast \/ Return
        \/ \E i \in 1..call.items : Work(i)
        \/ \E t \in threads : ThreadWorks(t)

Spec == Init /\ [][Next]_vars /\ WF_vars(Next)

\* What is asked: join() has two halves, for_each() any number of items.
CallsMeant == \A c \in Calls :
    /\ c.op \in {"join", "for_each"} /\ c.items \in Nat /\ c.threads \in Nat
    /\ c.panics \subseteq 1..c.items
    /\ c.op = "join" => c.items = 2

\* Every piece is run once and no thread outlives the call, however many of
\* the threads start; a piece is left out only behind one that panicked, and
\* then the call does not return as if it had been run.
PiecesRunOnce ==
    /\ \A i \in DOMAIN ran : ran[i] <= 1
    /\ returned => /\ threads = {}
                   /\ (\A i \in DOMAIN ran : ran[i] = 1) \/ panicked
                   /\ panicked => \E i \in call.panics : ran[i] = 1
    \* join(): main, the last item, is never run after a side that it waits for.
    /\ call.op = "join" /\ ~beside /\ ran[1] = 1 => ran[2] = 1

=============================================================================
