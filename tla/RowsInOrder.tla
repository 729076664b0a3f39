----------------------------- MODULE RowsInOrder -----------------------------
(***************************************************************************)
(* What decoding a lossy frame comes to: its macroblock rows reconstructed *)
(* one after the other, down to the first in which a partition runs dry,   *)
(* which is neither filtered nor followed and fails the frame.  This is    *)
(* decode_rows_planes() of src/vp8/mod.rs on one thread with all the data. *)
(***************************************************************************)
EXTENDS Naturals, Sequences

CONSTANT Rows       \* macroblock rows of the frame

VARIABLES
    dry,            \* the first row a partition runs dry in, Rows if none does
    recon,          \* the rows reconstructed, and whether each was filtered
    result          \* what the decode returned

vars == <<dry, recon, result>>

DryBy(n) == dry < n

Row ==
    /\ result = "none" /\ Len(recon) < Rows /\ ~DryBy(Len(recon))
    /\ recon' = Append(recon, [row |-> Len(recon), filter |-> Len(recon) # dry])
    /\ UNCHANGED <<dry, result>>

Return ==
    /\ result = "none"
    /\ Len(recon) = Rows \/ DryBy(Len(recon))
    /\ result' = IF DryBy(Len(recon)) THEN "failed" ELSE "decoded"
    /\ UNCHANGED <<dry, recon>>

Init ==
    /\ dry \in 0..Rows
    /\ recon = <<>> /\ result = "none"

Next == Row \/ Return

Safe == Init /\ [][Next]_vars

Spec == Safe /\ WF_vars(Next)
=============================================================================
