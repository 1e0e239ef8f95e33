-------------------------- MODULE MCDatasetReaders --------------------------
(* Publications of two scales, listed in the order of their numbers, with   *)
(* more connections than slots.                                             *)
EXTENDS DatasetReaders

MCScale == <<"tiny", "small", "tiny">>
MCOrder == <<1, 2, 3>>
=============================================================================
