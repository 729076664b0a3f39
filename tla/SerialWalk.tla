----------------------------- MODULE SerialWalk -----------------------------
(***************************************************************************)
(* What a caller of the decoder sees of an animation: each call hands out  *)
(* the next frame of the file, decoded under the options in force when it  *)
(* is made.  Nothing here is decoded ahead; Ahead implements this.         *)
(***************************************************************************)
EXTENDS Naturals, Sequences

CONSTANTS Settings, Files

VARIABLES
    file,       \* the chunks of the file, by what they are to the walk
    cursor,     \* the chunk the next call starts at
    settings,   \* what a frame's image depends on besides its bytes
    shown       \* what the last call came to

vars == <<file, cursor, settings, shown>>

Nothing == <<>>
Decoded == {"frame", "small", "broken"}

NextFrame ==
    /\ cursor <= Len(file) /\ file[cursor] \in Decoded
    /\ shown' = <<cursor, settings>>
    /\ cursor' = cursor + 1
    /\ UNCHANGED <<file, settings>>

\* A frame that does not fit the canvas fails the call; the walk goes past it.
Refuse ==
    /\ cursor <= Len(file) /\ file[cursor] = "misfit"
    /\ shown' = <<cursor>>
    /\ cursor' = cursor + 1
    /\ UNCHANGED <<file, settings>>

\* A chunk that is no frame.
Skip ==
    /\ cursor <= Len(file) /\ file[cursor] = "other"
    /\ cursor' = cursor + 1
    /\ UNCHANGED <<file, settings, shown>>

SetOptions ==
    /\ settings' \in Settings
    /\ UNCHANGED <<file, cursor, shown>>

\* Rewinds the file, or opens another.
Open(f) ==
    /\ file' = f /\ cursor' = 1 /\ shown' = Nothing
    /\ UNCHANGED settings

Init ==
    /\ file \in Files /\ cursor = 1
    /\ settings \in Settings /\ shown = Nothing

Next ==
    \/ NextFrame \/ Refuse \/ Skip
    \/ SetOptions
    \/ \E f \in Files : Open(f)

Spec == Init /\ [][Next]_vars
=============================================================================
