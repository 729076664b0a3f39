---------------------------- MODULE MCPartialRows ----------------------------
(***************************************************************************)
(* A lossless still of one size, whose decoding may fail while its rows    *)
(* are handed out.                                                         *)
(***************************************************************************)
EXTENDS PartialRows

LosslessStills ==
    [kind : {"lossless"}, height : {8}, sampling : {"Fancy"}, crop : {FALSE}]
=============================================================================
