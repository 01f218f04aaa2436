------------------------------ MODULE Simulation ----------------------------
(***************************************************************************)
(* One simulation: the receiver, the printers and the refiller, together   *)
(* with whoever may run the stop procedure.  Here is what is true of them  *)
(* whether main of src/cli.c or the runner of src/server.c creates and     *)
(* joins the threads; Cli and Server say who does.                         *)
(***************************************************************************)
EXTENDS JobReceiver, Printer, PaperRefiller, StopProcedure

JobsInService == {p \in Printers : Serving(p)}

JobsSettled ==
  stats.total_jobs_served + stats.total_jobs_dropped + stats.total_jobs_removed

(* Jobs enter service in the order of their arrival, and no two printers   *)
(* print the same job: what is in service is older than what is queued.    *)
ServiceInOrder ==
  /\ \A i, j \in 1..Len(job_queue) : i < j => job_queue[i].id < job_queue[j].id
  /\ \A p \in JobsInService : \A i \in 1..Len(job_queue) :
       job[p].id < job_queue[i].id
  /\ \A p, q \in JobsInService : p # q => job[p].id # job[q].id

(* The paper count of a printer stays between 0 and its capacity, although *)
(* the printer and the refiller update it with no mutex.                   *)
PaperWithinCapacity ==
  \A p \in Printers : current_paper_count[p] \in 0..PaperCapacity

(* The threads that will still broadcast job_queue_not_empty_cv.           *)
JobBroadcastPending ==
  \/ receiver_pc \in {"finish", "last_wake"}
  \/ stopper_pc \in {"emit", "emitting", "cancel_receiver", "cancel_refiller",
                     "lock_queue", "lock_stats", "drain"}

(* No wakeup for a job is lost: a printer blocked on job_queue_not_empty_cv*)
(* has a reason to be, or is about to be woken.                            *)
NoLostJobWakeup ==
  job_queue_not_empty_cv # {} =>
    /\ job_queue # <<>> => receiver_pc = "account"
    /\ all_jobs_arrived => JobBroadcastPending

StopWillWake ==
  stopper_pc \in {"emit", "emitting", "cancel_receiver", "cancel_refiller",
                  "lock_queue", "lock_stats", "drain", "wake"}

(* No wakeup of the refiller is lost: while it is blocked there is no      *)
(* request, and if it has to exit, the broadcast that tells it is to come. *)
NoLostSupplierWakeup ==
  refill_supplier_cv # {} =>
    /\ paper_refill_queue = <<>>
    /\ all_jobs_served => \E p \in Printers : printer_pc[p] = "wake_all"
    /\ g_terminate_now => StopWillWake

(* A printer blocked for paper has its request in the refill queue or in   *)
(* the refiller's hands, for as long as there is a refiller.               *)
RequestPending ==
  refiller_pc # "exited" =>
    \A p \in refill_needed_cv :
      (\E i \in 1..Len(paper_refill_queue) : paper_refill_queue[i] = p)
        \/ p \in refilling

(* A printer blocked for paper that nobody is left to wake.                *)
LeftWithoutPaper ==
  /\ refiller_pc = "exited"
  /\ stopper_pc \in {"idle", "exited", "killed"}
  /\ refill_needed_cv # {}
  /\ \A p \in Printers : p \in refill_needed_cv \/ printer_pc[p] = "exited"
=============================================================================
