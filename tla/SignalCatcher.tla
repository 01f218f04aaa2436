---------------------------- MODULE SignalCatcher ---------------------------
(***************************************************************************)
(* The signal catching thread of the command line program:                 *)
(* sig_int_catching_thread_func of src/signalcatcher.c.  It waits for      *)
(* SIGINT and then runs the stop procedure.  It never disables             *)
(* cancellation, and main cancels it once the other threads are joined: it *)
(* dies in sigwait or in a printf.  In a line of the log it holds the lock *)
(* of stdout, which flockfile took and no cleanup handler gives back; in a *)
(* message of -debug, about the thread it is to cancel, it holds no lock,  *)
(* and the rest of the procedure is not done.                              *)
(***************************************************************************)
EXTENDS StopProcedure

CONSTANTS
  Interruptible,    \* whether SIGINT may arrive
  Debug             \* g_debug: the option -debug

ASSUME InterruptibleAssumption == Interruptible \in BOOLEAN
ASSUME DebugAssumption == Debug \in BOOLEAN

SigwaitReturns ==
  /\ Interruptible
  /\ StopperGoto("idle", "set_flags")
  /\ UNCHANGED shared

CancelledInSigwait ==
  /\ StopperGoto("idle", "exited")
  /\ Cancelled(Stopper)
  /\ UNCHANGED shared

KilledEmittingStop ==
  /\ StopperGoto("emitting", "killed")
  /\ Cancelled(Stopper)
  /\ UNCHANGED shared

KilledInDebugMessage ==
  /\ Debug
  /\ stopper_pc \in {"cancel_receiver", "cancel_refiller"}
  /\ stopper_pc' = "cut_short"
  /\ Cancelled(Stopper)
  /\ UNCHANGED shared

(* The job is out of the queue and not yet counted.                        *)
KilledRemovingJob ==
  /\ StopperGoto("drain", "killed")
  /\ Cancelled(Stopper)
  /\ job_queue # <<>>
  /\ job_queue' = DequeueFront(job_queue)
  /\ UNCHANGED <<owner, flags, cancel_requested, job_queue_not_empty_cv,
                 refillQueueVars, paperVars, stats>>

StdoutLocked == stopper_pc = "killed"

CatcherStep ==
  \/ StopStep
  \/ CancelledInSigwait
  \/ KilledEmittingStop
  \/ KilledInDebugMessage
  \/ KilledRemovingJob
=============================================================================
