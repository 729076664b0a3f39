------------------------------ MODULE RowRelay ------------------------------
(***************************************************************************)
(* A lossy frame decoded through the relay: decode_rows_relayed() of       *)
(* src/vp8/mod.rs.  Modes are parsed by the producer; coefficients and     *)
(* reconstruction are steps, or one of them shares the producer's thread:  *)
(*                                                                         *)
(*   "three"   the steps are parse_row() and reconstruct_row()             *)
(*   "heavy"   parse_row() is a step; rows are reconstructed by the        *)
(*             producer as their buffers come back                         *)
(*   "light"   reconstruct_row() is a step; the producer parses both       *)
(*                                                                         *)
(* The input is where the partitions run dry.  Steps do not panic.         *)
(***************************************************************************)
EXTENDS Relay

CONSTANTS
    Schedules,      \* those of the three that have N steps
    Rows            \* macroblock rows of the frame

ScheduleAssumption ==
    /\ Schedules \subseteq {"three", "heavy", "light"}
    /\ \A s \in Schedules : N = IF s = "three" THEN 2 ELSE 1
RowsAssumption == Rows \in Nat \ {0} /\ MaxPass >= B + Rows

VARIABLES
    schedule,       \* which of the three
    dryModes,       \* the first row the first partition runs dry in, or Rows
    dryCoeffs,      \* the first row whose coefficients run dry, or Rows
    pc,             \* where the producer is
    row,            \* the row it comes to next
    ret,            \* whether it found an error
    overran,        \* whether a partition has run dry so far
    recon,          \* the rows reconstructed, and whether each is filtered
    result          \* what decode_rows_relayed() returned

inputVars == <<schedule, dryModes, dryCoeffs>>
progVars  == <<pc, row, ret>>
rowVars   == <<inputVars, progVars, overran, recon, result>>

\* The row the buffer of pass n carries; the first B carry none yet.
RowOf(n) == n - B - 1
Pending(n) == n > B

DryIn(r) == r >= dryModes \/ r >= dryCoeffs

\* ran_dry() in parse_rows(), and in parse_modes() the first partition alone.
ProducerDry(r) == r >= dryModes \/ (schedule = "light" /\ r >= dryCoeffs)

Reconstructed(r) == Append(recon, [row |-> r, filter |-> ~DryIn(r)])

Parses(k)       == schedule # "light" /\ k = 1
Reconstructs(k) == schedule # "heavy" /\ k = N

-----------------------------------------------------------------------------
(* The steps.                                                              *)

ParseStep(k) ==
    /\ Parses(k)
    /\ End(k, ~DryIn(RowOf(hand[k])))
    /\ overran' = (overran \/ DryIn(RowOf(hand[k])))
    /\ UNCHANGED <<inputVars, progVars, recon, result>>

ReconstructStep(k) ==
    /\ Reconstructs(k)
    /\ End(k, TRUE)
    /\ recon' = Reconstructed(RowOf(hand[k]))
    /\ UNCHANGED <<inputVars, progVars, overran, result>>

RowStep(k) ==
    \/ ParseStep(k) \/ ReconstructStep(k)
    \/ (Receive(k) \/ Disconnected(k) \/ Leave(k)) /\ UNCHANGED rowVars

-----------------------------------------------------------------------------
(* The producer: parse_modes() and parse_rows().                           *)

Ask ==
    /\ (pc = "rows" /\ row < Rows) \/ pc = "drain"
    /\ StartTake
    /\ UNCHANGED rowVars

TakenUnfinished ==
    /\ Take
    /\ pc' = IF pc = "rows" THEN "parse" ELSE pc
    /\ recon' = IF schedule = "heavy" /\ pc = "rows" /\ Pending(Head(chan[Idle]))
                THEN Reconstructed(RowOf(Head(chan[Idle]))) ELSE recon
    /\ UNCHANGED <<inputVars, row, ret, overran, result>>

\* A row that comes back to be reconstructed is, before its buffer is used
\* again.
Taken ==
    /\ Take
    /\ pc' = IF pc = "rows" THEN "parse" ELSE pc
    /\ recon' = IF schedule = "heavy" /\ Pending(Head(chan[Idle]))
                THEN Reconstructed(RowOf(Head(chan[Idle]))) ELSE recon
    /\ UNCHANGED <<inputVars, row, ret, overran, result>>

NoneTaken ==
    /\ TakeNone
    /\ pc' = IF pc = "drain" THEN "over" ELSE "finish"
    /\ ret' = IF pc = "drain" THEN ret ELSE "failed"
    /\ UNCHANGED <<inputVars, row, overran, recon, result>>

\* What follows a pass: the next row, or the end.
PassOn ==
    /\ IF refused' # refused \/ ProducerDry(row)
       THEN ret' = "failed" /\ pc' = "finish" /\ UNCHANGED row
       ELSE /\ row' = row + 1
            /\ pc' = IF row + 1 = Rows THEN "finish" ELSE "rows"
            /\ UNCHANGED ret
    /\ UNCHANGED <<inputVars, result>>

ParseAcross ==
    /\ pc = "parse"
    /\ PassAcross
    /\ overran' = (overran \/ ProducerDry(row))
    /\ PassOn
    /\ UNCHANGED recon

ParseHere ==
    /\ pc = "parse"
    /\ PassHere(IF schedule # "light" /\ DryIn(row) THEN {1} ELSE {})
    /\ overran' = (overran \/ DryIn(row))
    /\ recon' = IF schedule = "heavy" THEN recon ELSE Reconstructed(row)
    /\ PassOn

\* parse_modes() gets the rows still with the steps back, parse_rows() does
\* not.
FinishRows ==
    /\ pc = "finish"
    /\ IF schedule = "light"
       THEN /\ call = "produce" /\ pc' = "over"
            /\ UNCHANGED vars
       ELSE Finish /\ pc' = "drain"
    /\ UNCHANGED <<inputVars, row, ret, overran, recon, result>>

ProducerOver ==
    /\ pc = "over" /\ Produced
    /\ UNCHANGED rowVars

ReturnUnchecked ==
    /\ call = "returned" /\ result = "none"
    /\ result' = IF ret = "failed" THEN "failed" ELSE "decoded"
    /\ UNCHANGED <<vars, inputVars, progVars, overran, recon>>

\* The relay has returned: the last row's coefficients may have run dry after
\* its modes were passed on.
Return ==
    /\ call = "returned" /\ result = "none"
    /\ result' = IF ret = "failed" \/ overran THEN "failed" ELSE "decoded"
    /\ UNCHANGED <<vars, inputVars, progVars, overran, recon>>

Calling ==
    \/ Ask \/ Taken \/ NoneTaken
    \/ ParseAcross \/ ParseHere
    \/ FinishRows \/ ProducerOver \/ Return
    \/ (Joined \/ \E k \in Step : Spawn(k) \/ SpawnFails(k)) /\ UNCHANGED rowVars

RowInit ==
    /\ Init
    /\ schedule \in Schedules
    /\ dryModes \in 0..Rows /\ dryCoeffs \in 0..Rows
    /\ pc = "rows" /\ row = 0 /\ ret = "none"
    /\ overran = FALSE /\ recon = <<>> /\ result = "none"

RowOver == result # "none" /\ UNCHANGED <<vars, rowVars>>

RowNext ==
    \/ Calling
    \/ \E k \in Step : RowStep(k)
    \/ RowOver

RowSpec ==
    /\ RowInit /\ [][RowNext]_<<vars, rowVars>>
    /\ WF_<<vars, rowVars>>(Calling)
    /\ \A k \in Step : WF_<<vars, rowVars>>(RowStep(k))

-----------------------------------------------------------------------------
(* Properties.                                                             *)

\* Whichever thread does what, and whichever cannot be started, the rows are
\* reconstructed in order, each with its filtering as on one thread, nothing
\* below a row that ran dry is, and the frame is decoded or fails as it does
\* there; and it always comes to one or the other.
InOrderOf == INSTANCE RowsInOrder WITH
    dry <- IF dryModes < dryCoeffs THEN dryModes ELSE dryCoeffs

AsOnOneThread == InOrderOf!Spec
=============================================================================
