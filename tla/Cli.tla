--------------------------------- MODULE Cli --------------------------------
(***************************************************************************)
(* The command line program: main of src/cli.c with the threads it creates.*)
(* Init is the state after pthread_create of all of them; main then joins  *)
(* the receiver, the printers and the refiller, cancels and joins the      *)
(* signal catcher, and prints the statistics.                              *)
(***************************************************************************)
EXTENDS Simulation, SignalCatcher

VARIABLE main_pc

vars == <<shared, receiverVars, printerVars, refillerVars, stopper_pc, main_pc>>

MainLabels == {"join_receiver", "join_printers", "join_refiller",
               "cancel_catcher", "join_catcher", "final_log", "done"}

MainTypeOK == main_pc \in MainLabels

Init ==
  /\ SharedInit
  /\ ReceiverInit
  /\ PrinterInit
  /\ RefillerInit
  /\ StopperInit
  /\ main_pc = "join_receiver"

MainGoto(from, to) == main_pc = from /\ main_pc' = to

JoinReceiver ==
  /\ MainGoto("join_receiver", "join_printers")
  /\ receiver_pc = "exited"
  /\ UNCHANGED shared

JoinPrinters ==
  /\ MainGoto("join_printers", "join_refiller")
  /\ \A p \in Printers : printer_pc[p] = "exited"
  /\ UNCHANGED shared

JoinRefiller ==
  /\ MainGoto("join_refiller", "cancel_catcher")
  /\ refiller_pc = "exited"
  /\ UNCHANGED shared

CancelCatcher ==
  /\ MainGoto("cancel_catcher", "join_catcher")
  /\ Cancel(Stopper)
  /\ UNCHANGED <<owner, flags, jobQueueVars, refillQueueVars, paperVars, stats>>

JoinCatcher ==
  /\ MainGoto("join_catcher", "final_log")
  /\ stopper_pc \in {"exited", "killed", "cut_short"}
  /\ UNCHANGED shared

(* The first line of the final log needs the lock of stdout.               *)
FinalLog ==
  /\ MainGoto("final_log", "done")
  /\ ~StdoutLocked
  /\ UNCHANGED shared

MainStep ==
  \/ JoinReceiver
  \/ JoinPrinters
  \/ JoinRefiller
  \/ CancelCatcher
  \/ JoinCatcher
  \/ FinalLog

-----------------------------------------------------------------------------

ReceiverActs   == ReceiverStep
                  /\ UNCHANGED <<printerVars, refillerVars, stopper_pc, main_pc>>
PrinterActs(p) == PrinterStep(p)
                  /\ UNCHANGED <<receiverVars, refillerVars, stopper_pc, main_pc>>
RefillerActs   == RefillerStep
                  /\ UNCHANGED <<receiverVars, printerVars, stopper_pc, main_pc>>
CatcherActs    == CatcherStep
                  /\ UNCHANGED <<receiverVars, printerVars, refillerVars, main_pc>>
SignalArrives  == SigwaitReturns
                  /\ UNCHANGED <<receiverVars, printerVars, refillerVars, main_pc>>
MainActs       == MainStep
                  /\ UNCHANGED <<receiverVars, printerVars, refillerVars, stopper_pc>>
SpuriousReturn == SpuriousWakeup
                  /\ UNCHANGED <<receiverVars, printerVars, refillerVars, stopper_pc,
                                 main_pc>>

Next ==
  \/ ReceiverActs
  \/ \E p \in Printers : PrinterActs(p)
  \/ RefillerActs
  \/ CatcherActs
  \/ SignalArrives
  \/ MainActs
  \/ SpuriousReturn

ThreadActs ==
  \/ ReceiverActs
  \/ \E p \in Printers : PrinterActs(p)
  \/ RefillerActs
  \/ CatcherActs
  \/ MainActs

Spec == Init /\ [][Next]_vars

(* While some thread can go on, some thread does; a signal need not arrive.*)
ProgressSpec == Spec /\ WF_vars(ThreadActs)

-----------------------------------------------------------------------------
(* Properties.                                                             *)

(* The variables range over their types, and the receiver never lets the   *)
(* job queue grow past queue_capacity.                                     *)
TypeOK ==
  /\ SharedTypeOK
  /\ ReceiverTypeOK
  /\ PrinterTypeOK
  /\ RefillerTypeOK
  /\ StopperTypeOK
  /\ MainTypeOK
  /\ Len(job_queue) <= QueueCapacity

(* Of the jobs that job_receiver_thread_func has let into the system, each *)
(* is in the queue, at one printer, or counted exactly once as served,     *)
(* dropped or removed, whatever a stop and the printers do meanwhile.  The *)
(* exception is a signal catcher killed while it removed a job.            *)
JobsAccounted ==
  stopper_pc # "killed" =>
    job_id + (IF receiver_pc = "account" THEN 1 ELSE 0)
      = Len(job_queue) + Cardinality(JobsInService) + JobsSettled

(* A stop leaves at most one job behind: the one the receiver had let past *)
(* its termination check before the stop and put in the queue after it.    *)
(* Without a stop none is left.  The exception is a signal catcher that    *)
(* main cancels in a message of -debug, before it has emptied the queue:   *)
(* the whole queue may be left then.                                       *)
LeftByStop ==
  main_pc = "done" /\ stopper_pc # "cut_short" =>
    /\ Len(job_queue) <= IF g_terminate_now THEN 1 ELSE 0
    /\ \A i \in 1..Len(job_queue) : job_queue[i].id = job_id

(* What JobFlow sees of the threads: a job is let in or dropped when Admit  *)
(* decides, it is served by the printer that took it, and it is settled    *)
(* when it is counted, or at once when it is dropped.                      *)
Decided == job_id + (IF receiver_pc \in {"account", "drop"} THEN 1 ELSE 0)

Ids(q) == [i \in 1..Len(q) |-> q[i].id]

IdServed == [p \in Printers |-> IF Serving(p) THEN job[p].id ELSE NoJob.id]

Dropped == stats.total_jobs_dropped + (IF receiver_pc = "drop" THEN 1 ELSE 0)

Counted == [served  |-> stats.total_jobs_served,
            dropped |-> Dropped,
            removed |-> stats.total_jobs_removed]

Flow == INSTANCE JobFlow WITH
  arrived <- Decided, waiting <- Ids(job_queue), serving <- IdServed,
  settled <- Counted, stopping <- g_terminate_now

(* The threads, with their locks, flags and cancellations, carry out no    *)
(* more than JobFlow: a step of theirs is one of its steps or none.        *)
ImplementsJobFlow == Flow!Spec

(* Without a stop, every job is served or dropped in the end, if no job    *)
(* needs more paper than a printer holds (PapersUpper <= PaperCapacity):   *)
(* one that does waits for paper for ever at src/printer.c:74.             *)
EveryJobSettled == <>(g_terminate_now \/ JobsSettled = NumJobs)

(* The program ends; the two ways it can fail to are a printer left without*)
(* paper and a signal catcher killed with stdout locked.  This too is for  *)
(* jobs no larger than PaperCapacity, and takes the cancel of a thread that*)
(* main has already joined to have no effect; POSIX leaves it undefined.   *)
EndsOrHangsAsKnown ==
  <>(main_pc = "done" \/ LeftWithoutPaper \/ StdoutLocked)
=============================================================================
