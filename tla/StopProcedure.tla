---------------------------- MODULE StopProcedure ---------------------------
(***************************************************************************)
(* The procedure that ends a simulation early.  The code has it twice with *)
(* the same steps: sig_int_catching_thread_func of src/signalcatcher.c     *)
(* after its sigwait, and request_stop_simulation of src/server.c, run on  *)
(* the event loop.  It sets the termination flags, requests cancellation of*)
(* the receiver and the refiller, empties the job queue and wakes whoever  *)
(* waits.                                                                  *)
(***************************************************************************)
EXTENDS SimulationState

VARIABLE stopper_pc

StopperLabels == {"idle", "set_flags", "emit", "emitting", "cancel_receiver",
                  "cancel_refiller", "lock_queue", "lock_stats", "drain", "wake",
                  "exited", "killed", "cut_short"}

StopperTypeOK == stopper_pc \in StopperLabels
StopperInit   == stopper_pc = "idle"

StopperGoto(from, to) == stopper_pc = from /\ stopper_pc' = to

SetFlags ==
  /\ StopperGoto("set_flags", "emit")
  /\ g_terminate_now' = TRUE
  /\ all_jobs_arrived' = TRUE
  /\ UNCHANGED <<owner, all_jobs_served, cancel_requested, jobQueueVars,
                 refillQueueVars, paperVars, stats>>

(* emit_simulation_stopped runs under stats_mutex.  Its printf is a point  *)
(* where the thread can be cancelled, so the section is not one step.      *)
LockStatsToEmit ==
  /\ StopperGoto("emit", "emitting")
  /\ Lock("stats", Stopper)
  /\ UNCHANGED <<flags, cancel_requested, jobQueueVars, refillQueueVars, paperVars,
                 stats>>

EmitStopped ==
  /\ StopperGoto("emitting", "cancel_receiver")
  /\ Unlock({"stats"})
  /\ UNCHANGED <<flags, cancel_requested, jobQueueVars, refillQueueVars, paperVars,
                 stats>>

CancelReceiver ==
  /\ StopperGoto("cancel_receiver", "cancel_refiller")
  /\ Cancel(Receiver)
  /\ UNCHANGED <<owner, flags, jobQueueVars, refillQueueVars, paperVars, stats>>

CancelRefillThread ==
  /\ StopperGoto("cancel_refiller", "lock_queue")
  /\ Cancel(Refiller)
  /\ UNCHANGED <<owner, flags, jobQueueVars, refillQueueVars, paperVars, stats>>

LockJobQueue ==
  /\ StopperGoto("lock_queue", "lock_stats")
  /\ Lock("job_queue", Stopper)
  /\ UNCHANGED <<flags, cancel_requested, jobQueueVars, refillQueueVars, paperVars,
                 stats>>

LockStatsToDrain ==
  /\ StopperGoto("lock_stats", "drain")
  /\ Lock("stats", Stopper)
  /\ UNCHANGED <<flags, cancel_requested, jobQueueVars, refillQueueVars, paperVars,
                 stats>>

(* Mutant of RemovedStats: removals are not counted.                       *)
RemovedStatsMissed(s) == s

RemovedStats(s) == [s EXCEPT !.total_jobs_removed = @ + 1]

(* One iteration of empty_queue_if_terminating.                            *)
RemoveJob ==
  /\ stopper_pc = "drain"
  /\ job_queue # <<>>
  /\ job_queue' = DequeueFront(job_queue)
  /\ stats' = RemovedStats(stats)
  /\ UNCHANGED <<stopper_pc, owner, flags, cancel_requested,
                 job_queue_not_empty_cv, refillQueueVars, paperVars>>

(* Mutant of RemovalDone: if in place of while.                            *)
RemovalDoneAtOnce == TRUE

RemovalDone == job_queue = <<>>

(* The queue is empty: the printers that wait for a job are woken and both *)
(* mutexes released.                                                       *)
EndRemoval ==
  /\ StopperGoto("drain", "wake")
  /\ RemovalDone
  /\ job_queue_not_empty_cv' = Broadcast(job_queue_not_empty_cv)
  /\ Unlock({"job_queue", "stats"})
  /\ UNCHANGED <<flags, cancel_requested, job_queue, refillQueueVars, paperVars,
                 stats>>

WakePrintersAndRefiller ==
  /\ StopperGoto("wake", "exited")
  /\ Unlocked("refill_queue")
  /\ refill_needed_cv' = Broadcast(refill_needed_cv)
  /\ refill_supplier_cv' = Broadcast(refill_supplier_cv)
  /\ UNCHANGED <<owner, flags, cancel_requested, jobQueueVars, paper_refill_queue,
                 paperVars, stats>>

StopStep ==
  \/ SetFlags
  \/ LockStatsToEmit
  \/ EmitStopped
  \/ CancelReceiver
  \/ CancelRefillThread
  \/ LockJobQueue
  \/ LockStatsToDrain
  \/ RemoveJob
  \/ EndRemoval
  \/ WakePrintersAndRefiller
=============================================================================
