------------------------------ MODULE MCStream ------------------------------
(***************************************************************************)
(* Small files for TLC.  Payloads are one to three units, so that every    *)
(* chunk can be cut before, inside and after what is read of it.           *)
(***************************************************************************)
EXTENDS Stream

VP8X(declares, has) == [tag |-> "VP8X", len |-> 0, declares |-> declares, alpha |-> has]
ALPH == [tag |-> "ALPH", len |-> 1]
ANIM == [tag |-> "ANIM", len |-> 0]
ANMF(fits) == [tag |-> "ANMF", len |-> 1, fits |-> fits]
VP8(len, need) == [tag |-> "VP8", len |-> len, need |-> need, agrees |-> TRUE]
META(which, len) == [tag |-> "META", len |-> len, which |-> which]

OfChunks(c) == [chunks |-> c, missing |-> 0]

StillWithAlpha == OfChunks(<<VP8X(FALSE, TRUE), META(1, 2), ALPH, VP8(3, 2), META(2, 1)>>)
Plain          == OfChunks(<<VP8(2, 2), META(1, 1), VP8(1, 1)>>)
Animation      == OfChunks(<<VP8X(TRUE, FALSE), ANIM, ANMF(TRUE), ANMF(TRUE), META(1, 1)>>)
OddAlphas      == OfChunks(<<VP8X(FALSE, FALSE), ALPH, ALPH, VP8(2, 1), ALPH>>)
LateAnimation  == OfChunks(<<VP8(1, 1), ANIM>>)
Misfit         == OfChunks(<<VP8X(TRUE, FALSE), ANIM, ANMF(TRUE), ANMF(FALSE)>>)
TwoFrames      == OfChunks(<<VP8X(FALSE, FALSE), ANIM, ANMF(TRUE), ANMF(TRUE)>>)
NoImage        == OfChunks(<<VP8X(FALSE, FALSE), META(1, 1), META(1, 2)>>)
NoFrames       == OfChunks(<<VP8X(TRUE, FALSE), META(1, 1)>>)
StillInside    == OfChunks(<<VP8X(TRUE, FALSE), VP8(2, 1)>>)
LateCanvas     == OfChunks(<<VP8(1, 1), VP8X(FALSE, FALSE), VP8X(FALSE, TRUE)>>)
LateFlags      == OfChunks(<<VP8(2, 1), VP8X(TRUE, FALSE), ALPH>>)
DeclaredLater  == OfChunks(<<VP8(1, 1), VP8X(TRUE, FALSE)>>)
CanvasLater    == OfChunks(<<VP8(1, 1), ALPH, VP8X(FALSE, FALSE)>>)
Cut            == [chunks |-> <<VP8(3, 2)>>, missing |-> 1]
Conflicting    == OfChunks(<<VP8X(FALSE, FALSE),
                            [VP8(2, 1) EXCEPT !.agrees = FALSE], META(1, 1)>>)

AllFiles == {StillWithAlpha, Plain, Animation, OddAlphas, LateAnimation, Misfit, TwoFrames,
             NoImage, NoFrames, StillInside, LateCanvas, LateFlags, DeclaredLater, CanvasLater, Cut, Conflicting}

ConflictingFiles == {Conflicting}
=============================================================================
