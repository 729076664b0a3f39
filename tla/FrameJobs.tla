------------------------------ MODULE FrameJobs ------------------------------
(***************************************************************************)
(* What the pool of src/driver/slot.rs promises the walk, without threads, *)
(* turns or wake-ups: a frame handed over is decoded at most once, by one  *)
(* thread, and comes back when the walk asks for it: decoded, or still     *)
(* undecoded, in which case the walk decodes it itself.                    *)
(*                                                                         *)
(* FramePool implements this; Ahead is built on it.                        *)
(***************************************************************************)
EXTENDS Integers

CONSTANT Frame      \* the frames of a run that may be handed over

VARIABLE status     \* where each frame is

Statuses == {"walk", "queued", "decoding", "decoded"}

In(s) == {f \in Frame : status[f] = s}

\* The walk hands a batch of its frames over.
Hand(S) ==
    /\ S \subseteq In("walk")
    /\ status' = [f \in Frame |-> IF f \in S THEN "queued" ELSE status[f]]

\* A thread finishes a frame, takes one up, or does both at once.
Decode(done, begun) ==
    /\ done \subseteq In("decoding") /\ begun \subseteq In("queued")
    /\ status' = [f \in Frame |-> IF f \in done THEN "decoded"
                                  ELSE IF f \in begun THEN "decoding"
                                  ELSE status[f]]

\* The walk gets back one frame that no thread has in hand.
Return(f) ==
    /\ status[f] \in {"queued", "decoded"}
    /\ status' = [status EXCEPT ![f] = "walk"]

\* The walk gives the run up: what is queued comes back at once, what was
\* decoded when nothing is being decoded any more.
Recall ==
    status' = [f \in Frame |-> IF status[f] = "queued" THEN "walk" ELSE status[f]]

RecallDecoded ==
    /\ In("decoding") = {}
    /\ status' = [f \in Frame |-> IF status[f] = "decoded" THEN "walk" ELSE status[f]]

\* The pool goes, with all it holds.
Abandon == status' = [f \in Frame |-> "walk"]

Init == status = [f \in Frame |-> "walk"]

Next ==
    \/ \E S \in SUBSET Frame : Hand(S)
    \/ \E done \in {{}} \cup {{f} : f \in Frame},
          begun \in {{}} \cup {{f} : f \in Frame} : Decode(done, begun)
    \/ \E f \in Frame : Return(f)
    \/ Recall \/ RecallDecoded
    \/ Abandon

Spec == Init /\ [][Next]_status
=============================================================================
