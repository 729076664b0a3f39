------------------------------- MODULE MCAhead -------------------------------
(* Instances of Ahead for TLC.                                             *)
EXTENDS Ahead

\* Runs that outlast the ring; that end at a frame too small to be worth a
\* thread, at one that does not fit, at a broken one and at a chunk that is no frame; and that
\* may start because their frames are large enough together.
MCFiles ==
    { <<"frame", "frame", "frame", "frame", "frame", "frame">>,
      <<"frame", "frame", "small", "frame", "other", "frame", "frame">>,
      <<"frame", "frame", "misfit", "frame", "frame", "broken", "frame">>,
      <<"small", "frame", "frame", "small">> }
=============================================================================
