------------------------------- MODULE Printer ------------------------------
(***************************************************************************)
(* The printer threads: printer_thread_func of src/printer.c, one instance *)
(* per element of Printers.  A printer takes the job at the front of the   *)
(* queue, or asks for paper and waits when that job needs more than it     *)
(* holds, until the jobs have run out or a stop was requested.             *)
(*                                                                         *)
(* Two accesses are not protected by any mutex in the code and are modelled*)
(* as such.  current_paper_count -= papers_required is a load and a store, *)
(* and the refiller may store in between.  And the pointer job_to_dequeue  *)
(* is used after job_queue_mutex was released.                             *)
(***************************************************************************)
EXTENDS SimulationState

VARIABLES
  printer_pc,
  flag_read,     \* the local that holds the flag read under
                 \* simulation_state_mutex: terminate, later
                 \* have_all_jobs_arrived
  job,           \* job_to_dequeue while asking for paper, then the job taken
  paper_loaded   \* current_paper_count as loaded by the decrement

printerVars == <<printer_pc, flag_read, job, paper_loaded>>

PrinterLabels == {"off", "top", "look", "wait_job", "request", "wait_paper",
                  "note_empty", "print", "store", "depart", "read_arrived",
                  "check_exit", "mark_served", "wake_all", "cancel_refiller",
                  "exited"}

(* The labels at which a printer owns the job it took from the queue.      *)
Serving(p) == printer_pc[p] \in {"print", "store", "depart"}

PrinterTypeOK ==
  /\ printer_pc \in [Printers -> PrinterLabels]
  /\ flag_read \in [Printers -> BOOLEAN]
  /\ job \in [Printers -> Jobs \union {NoJob}]
  /\ paper_loaded \in [Printers -> Int]

PrinterInit ==
  /\ printer_pc = [p \in Printers |-> "top"]
  /\ flag_read = [p \in Printers |-> FALSE]
  /\ job = [p \in Printers |-> NoJob]
  /\ paper_loaded = [p \in Printers |-> 0]

Goto(p, from, to) ==
  /\ printer_pc[p] = from
  /\ printer_pc' = [printer_pc EXCEPT ![p] = to]

ReadTerminate(p) ==
  /\ Goto(p, "top", "look")
  /\ flag_read' = [flag_read EXCEPT ![p] = g_terminate_now]
  /\ UNCHANGED <<job, paper_loaded, shared>>

(* Mutant of MustLeave: all_jobs_arrived alone ends the loop.              *)
MustLeaveEarly(p) == flag_read[p] \/ all_jobs_arrived

(* all_jobs_arrived is read here under job_queue_mutex, not under the mutex*)
(* that its writers hold.                                                  *)
MustLeave(p) == flag_read[p] \/ IsExitConditionMet(all_jobs_arrived, job_queue)

LeaveLoop(p) ==
  /\ Goto(p, "look", "mark_served")
  /\ Unlocked("job_queue")
  /\ MustLeave(p)
  /\ flag_read' = [flag_read EXCEPT ![p] = FALSE]
  /\ UNCHANGED <<job, paper_loaded, shared>>

WaitForJob(p) ==
  /\ Goto(p, "look", "wait_job")
  /\ Unlocked("job_queue")
  /\ ~MustLeave(p)
  /\ job_queue = <<>>
  /\ job_queue_not_empty_cv' = job_queue_not_empty_cv \union {p}
  /\ flag_read' = [flag_read EXCEPT ![p] = FALSE]
  /\ UNCHANGED <<job, paper_loaded, owner, flags, cancel_requested, job_queue,
                 refillQueueVars, paperVars, stats>>

(* Mutant of ShortOfPaper: the comparison lets one sheet too few pass.     *)
ShortOfPaperByTwo(p, j) == j.papers > current_paper_count[p] + 1

ShortOfPaper(p, j) == j.papers > current_paper_count[p]

(* Not enough paper for the front job: job_queue_mutex is released and the *)
(* pointer to that job kept.                                               *)
FindShort(p) ==
  /\ Goto(p, "look", "request")
  /\ Unlocked("job_queue")
  /\ ~MustLeave(p)
  /\ job_queue # <<>>
  /\ ShortOfPaper(p, Head(job_queue))
  /\ job' = [job EXCEPT ![p] = Head(job_queue)]
  /\ flag_read' = [flag_read EXCEPT ![p] = FALSE]
  /\ UNCHANGED <<paper_loaded, shared>>

TakeJob(p) ==
  /\ Goto(p, "look", "print")
  /\ Unlocked("job_queue")
  /\ ~MustLeave(p)
  /\ job_queue # <<>>
  /\ ~ShortOfPaper(p, Head(job_queue))
  /\ job' = [job EXCEPT ![p] = Head(job_queue)]
  /\ job_queue' = DequeueFront(job_queue)
  /\ flag_read' = [flag_read EXCEPT ![p] = FALSE]
  /\ UNCHANGED <<paper_loaded, owner, flags, cancel_requested,
                 job_queue_not_empty_cv, refillQueueVars, paperVars, stats>>

(* pthread_cond_wait returns with the mutex, which is released at once.    *)
JobWaitReturns(p) ==
  /\ Goto(p, "wait_job", "top")
  /\ p \notin job_queue_not_empty_cv
  /\ Unlocked("job_queue")
  /\ UNCHANGED <<flag_read, job, paper_loaded, shared>>

(* The event names job_to_dequeue->id; the printer joins the refill queue, *)
(* wakes the refiller and waits, with no predicate to wait for.            *)
RequestPaper(p) ==
  /\ Goto(p, "request", "wait_paper")
  /\ Unlocked("refill_queue")
  /\ paper_refill_queue' = Enqueue(paper_refill_queue, p)
  /\ refill_supplier_cv' = Broadcast(refill_supplier_cv)
  /\ refill_needed_cv' = refill_needed_cv \union {p}
  /\ job' = [job EXCEPT ![p] = NoJob]
  /\ UNCHANGED <<flag_read, paper_loaded, owner, flags, cancel_requested,
                 jobQueueVars, paperVars, stats>>

PaperWaitReturns(p) ==
  /\ Goto(p, "wait_paper", "note_empty")
  /\ p \notin refill_needed_cv
  /\ Unlocked("refill_queue")
  /\ UNCHANGED <<flag_read, job, paper_loaded, shared>>

(* printerN_paper_empty_time_us is updated; durations are not modelled.    *)
NotePaperEmpty(p) ==
  /\ Goto(p, "note_empty", "top")
  /\ Unlocked("stats")
  /\ UNCHANGED <<flag_read, job, paper_loaded, shared>>

(* The service sleep ends and the decrement loads the paper count.         *)
LoadPaper(p) ==
  /\ Goto(p, "print", "store")
  /\ paper_loaded' = [paper_loaded EXCEPT ![p] = current_paper_count[p]]
  /\ UNCHANGED <<flag_read, job, shared>>

StorePaper(p) ==
  /\ Goto(p, "store", "depart")
  /\ current_paper_count' =
       [current_paper_count EXCEPT ![p] = paper_loaded[p] - job[p].papers]
  /\ total_papers_used' = [total_papers_used EXCEPT ![p] = @ + job[p].papers]
  /\ paper_loaded' = [paper_loaded EXCEPT ![p] = 0]
  /\ UNCHANGED <<flag_read, job, owner, flags, cancel_requested, jobQueueVars,
                 refillQueueVars, stats>>

Depart(p) ==
  /\ Goto(p, "depart", "read_arrived")
  /\ Unlocked("stats")
  /\ stats' = Bump("total_jobs_served")
  /\ job' = [job EXCEPT ![p] = NoJob]
  /\ UNCHANGED <<flag_read, paper_loaded, owner, flags, cancel_requested,
                 jobQueueVars, refillQueueVars, paperVars>>

ReadArrived(p) ==
  /\ Goto(p, "read_arrived", "check_exit")
  /\ flag_read' = [flag_read EXCEPT ![p] = all_jobs_arrived]
  /\ UNCHANGED <<job, paper_loaded, shared>>

CheckExit(p) ==
  /\ Unlocked("job_queue")
  /\ \/ /\ IsExitConditionMet(flag_read[p], job_queue)
        /\ Goto(p, "check_exit", "mark_served")
     \/ /\ ~IsExitConditionMet(flag_read[p], job_queue)
        /\ Goto(p, "check_exit", "top")
  /\ flag_read' = [flag_read EXCEPT ![p] = FALSE]
  /\ UNCHANGED <<job, paper_loaded, shared>>

MarkServed(p) ==
  /\ Goto(p, "mark_served", "wake_all")
  /\ all_jobs_served' = TRUE
  /\ UNCHANGED <<flag_read, job, paper_loaded, owner, g_terminate_now,
                 all_jobs_arrived, cancel_requested, jobQueueVars,
                 refillQueueVars, paperVars, stats>>

(* The refiller and any printer that waits for paper are woken.            *)
WakeAll(p) ==
  /\ Goto(p, "wake_all", "cancel_refiller")
  /\ Unlocked("refill_queue")
  /\ refill_supplier_cv' = Broadcast(refill_supplier_cv)
  /\ refill_needed_cv' = Broadcast(refill_needed_cv)
  /\ UNCHANGED <<flag_read, job, paper_loaded, owner, flags, cancel_requested,
                 jobQueueVars, paper_refill_queue, paperVars, stats>>

CancelRefiller(p) ==
  /\ Goto(p, "cancel_refiller", "exited")
  /\ Cancel(Refiller)
  /\ UNCHANGED <<flag_read, job, paper_loaded, owner, flags, jobQueueVars,
                 refillQueueVars, paperVars, stats>>

PrinterStep(p) ==
  \/ ReadTerminate(p)
  \/ LeaveLoop(p)
  \/ WaitForJob(p)
  \/ FindShort(p)
  \/ TakeJob(p)
  \/ JobWaitReturns(p)
  \/ RequestPaper(p)
  \/ PaperWaitReturns(p)
  \/ NotePaperEmpty(p)
  \/ LoadPaper(p)
  \/ StorePaper(p)
  \/ Depart(p)
  \/ ReadArrived(p)
  \/ CheckExit(p)
  \/ MarkServed(p)
  \/ WakeAll(p)
  \/ CancelRefiller(p)
=============================================================================
