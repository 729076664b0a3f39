------------------------------- MODULE MCRows -------------------------------
(***************************************************************************)
(* The three schedules of decode_rows_relayed() as one specification: the  *)
(* two with a step on a thread of its own are RowRelay with N = 1, the one *)
(* with two such steps is RowRelay with N = 2.                             *)
(***************************************************************************)
EXTENDS Integers, Sequences

CONSTANTS B, MaxPass, Rows

VARIABLES
    call, route, entered, passed, sender, receiver, chan, at, hand, seen, back,
    more, refused, ended, panicked,
    schedule, dryModes, dryCoeffs, pc, row, ret, overran, recon, result

Two   == INSTANCE RowRelay WITH N <- 1, Threads <- {2}, Schedules <- {"heavy", "light"}
Three == INSTANCE RowRelay WITH N <- 2, Threads <- {3}, Schedules <- {"three"}

ASSUME Two!ScheduleAssumption /\ Three!ScheduleAssumption
ASSUME Two!RowsAssumption /\ Three!RowsAssumption

vars == <<call, route, entered, passed, sender, receiver, chan, at, hand, seen,
          back, more, refused, ended, panicked,
          schedule, dryModes, dryCoeffs, pc, row, ret, overran, recon, result>>

IsThree == schedule = "three"

\* The frame is decoded under one of the schedules, on its threads.
Init == Two!RowInit \/ Three!RowInit

Next ==
    \/ ~IsThree /\ Two!RowNext
    \/ IsThree /\ Three!RowNext

\* Every thread keeps running.
Spec ==
    /\ Init /\ [][Next]_vars
    /\ WF_vars(~IsThree /\ Two!Calling)
    /\ WF_vars(IsThree /\ Three!Calling)
    /\ \A k \in 1..1 : WF_vars(~IsThree /\ Two!RowStep(k))
    /\ \A k \in 1..2 : WF_vars(IsThree /\ Three!RowStep(k))

\* The frame is decoded as one thread would decode it: see RowRelay.
AsOnOneThread == Two!AsOnOneThread
=============================================================================
