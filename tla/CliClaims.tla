------------------------------ MODULE CliClaims -----------------------------
(***************************************************************************)
(* What comments and documentation of the repository say about the command *)
(* line program and its code does not do.  Each property is the claim; the *)
(* run that checks it ends in a counterexample.                            *)
(***************************************************************************)
EXTENDS Cli, FiniteSetsExt

(* "Notify printer thread in case it's waiting" (src/printer.c:150) and    *)
(* "wake up printer threads to let them exit" (src/signalcatcher.c:61): an *)
(* exit leaves no printer waiting for paper with nobody to wake it.        *)
NoPrinterLeftWaiting == ~LeftWithoutPaper

(* The event a printer emits when it asks for paper names "the job that    *)
(* cannot be processed due to lack of paper"                               *)
(* (include/console_handler.h:97): that job is still in the system.        *)
JobAskedForExists ==
  \A p \in Printers : printer_pc[p] = "request" =>
    \/ \E i \in 1..Len(job_queue) : job_queue[i] = job[p]
    \/ \E q \in JobsInService : job[q] = job[p]

(* current_paper_count is the "Current number of papers in the printer"    *)
(* (include/printer.h:14) and papers_refilled the "Total number of papers  *)
(* refilled" (include/simulation_stats.h:38): at the end what was put in is*)
(* what was used or is still there.                                        *)
PaperConserved ==
  main_pc = "done" =>
    PaperCapacity * Cardinality(Printers) + stats.papers_refilled
      = MapThenSumSet(LAMBDA p : current_paper_count[p] + total_papers_used[p],
                      Printers)
=============================================================================
