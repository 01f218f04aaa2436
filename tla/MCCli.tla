-------------------------------- MODULE MCCli -------------------------------
(***************************************************************************)
(* Instances of Cli for TLC.  The printers are interchangeable: the code   *)
(* treats them alike but for the counters it keeps per printer.            *)
(***************************************************************************)
EXTENDS CliClaims, TLC

PrinterSymmetry == Permutations(Printers)
=============================================================================
