---------------------------- MODULE MCStatistics ----------------------------
(***************************************************************************)
(* Statistics for TLC: the printers keep the same numbers.                 *)
(***************************************************************************)
EXTENDS Statistics, TLC

PrinterSymmetry == Permutations(Printers)
=============================================================================
