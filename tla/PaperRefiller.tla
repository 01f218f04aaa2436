--------------------------- MODULE PaperRefiller ----------------------------
(***************************************************************************)
(* The paper refiller thread: paper_refill_thread_func of                  *)
(* src/paper_refiller.c.  It serves the refill queue one printer at a time,*)
(* filling it to capacity, until all jobs are served or a stop is          *)
(* requested.  It runs with cancellation disabled except around the sleep  *)
(* that stands for the refill.                                             *)
(*                                                                         *)
(* The paper count is read and updated with no mutex held: once for        *)
(* papers_needed, and then by current_paper_count += papers_needed, a load *)
(* and a store.                                                            *)
(***************************************************************************)
EXTENDS SimulationState

VARIABLES
  refiller_pc,
  refilling,       \* the set of the printer being refilled, or empty
  papers_needed,
  supply_loaded    \* current_paper_count as loaded by the increment

refillerVars == <<refiller_pc, refilling, papers_needed, supply_loaded>>

RefillerLabels == {"off", "top", "examine", "wait", "need", "sleep", "store",
                   "account", "notify", "exited"}

RefillerTypeOK ==
  /\ refiller_pc \in RefillerLabels
  /\ refilling \subseteq Printers
  /\ papers_needed \in Int
  /\ supply_loaded \in Int

RefillerInit ==
  /\ refiller_pc = "top"
  /\ refilling = {}
  /\ papers_needed = 0
  /\ supply_loaded = 0

refillerLocals == <<refilling, papers_needed, supply_loaded>>

LockRefillQueue ==
  /\ refiller_pc = "top"
  /\ Lock("refill_queue", Refiller)
  /\ refiller_pc' = "examine"
  /\ UNCHANGED <<refillerLocals, flags, cancel_requested, jobQueueVars,
                 refillQueueVars, paperVars, stats>>

(* Mutant of RefillerMustExit: the requests that are left come first.      *)
RefillerDone == (g_terminate_now \/ all_jobs_served) /\ paper_refill_queue = <<>>

RefillerMustExit == g_terminate_now \/ all_jobs_served

(* The flags are read with paper_refill_queue_mutex held.                  *)
RefillerExits ==
  /\ refiller_pc = "examine"
  /\ RefillerMustExit
  /\ refill_needed_cv' = Broadcast(refill_needed_cv)
  /\ Unlock({"refill_queue"})
  /\ refiller_pc' = "exited"
  /\ UNCHANGED <<refillerLocals, flags, cancel_requested, jobQueueVars,
                 paper_refill_queue, refill_supplier_cv, paperVars, stats>>

TakeRequest ==
  /\ refiller_pc = "examine"
  /\ ~RefillerMustExit
  /\ paper_refill_queue # <<>>
  /\ refilling' = {Head(paper_refill_queue)}
  /\ paper_refill_queue' = DequeueFront(paper_refill_queue)
  /\ Unlock({"refill_queue"})
  /\ refiller_pc' = "need"
  /\ UNCHANGED <<papers_needed, supply_loaded, flags, cancel_requested,
                 jobQueueVars, refill_needed_cv, refill_supplier_cv, paperVars,
                 stats>>

WaitForRequest ==
  /\ refiller_pc = "examine"
  /\ ~RefillerMustExit
  /\ paper_refill_queue = <<>>
  /\ refill_supplier_cv' = refill_supplier_cv \union {Refiller}
  /\ Unlock({"refill_queue"})
  /\ refiller_pc' = "wait"
  /\ UNCHANGED <<refillerLocals, flags, cancel_requested, jobQueueVars,
                 paper_refill_queue, refill_needed_cv, paperVars, stats>>

RequestWaitReturns ==
  /\ refiller_pc = "wait"
  /\ Refiller \notin refill_supplier_cv
  /\ Lock("refill_queue", Refiller)
  /\ refiller_pc' = "examine"
  /\ UNCHANGED <<refillerLocals, flags, cancel_requested, jobQueueVars,
                 refillQueueVars, paperVars, stats>>

(* Mutant of PapersNeeded: one sheet more than fits.                       *)
PapersNeededOver(p) == PaperCapacity + 1 - current_paper_count[p]

PapersNeeded(p) == PaperCapacity - current_paper_count[p]

ComputeNeed ==
  /\ refiller_pc = "need"
  /\ \E p \in refilling : papers_needed' = PapersNeeded(p)
  /\ refiller_pc' = "sleep"
  /\ UNCHANGED <<refilling, supply_loaded, shared>>

(* The thread dies in the refill sleep: no paper, no broadcast.            *)
RefillerCancelled ==
  /\ refiller_pc = "sleep"
  /\ Cancelled(Refiller)
  /\ refiller_pc' = "exited"
  /\ UNCHANGED <<refillerLocals, shared>>

(* The sleep ends and the increment loads the paper count.                 *)
LoadSupply ==
  /\ refiller_pc = "sleep"
  /\ ~Cancelled(Refiller)
  /\ \E p \in refilling : supply_loaded' = current_paper_count[p]
  /\ refiller_pc' = "store"
  /\ UNCHANGED <<refilling, papers_needed, shared>>

StoreSupply ==
  /\ refiller_pc = "store"
  /\ \E p \in refilling : current_paper_count' =
       [current_paper_count EXCEPT ![p] = supply_loaded + papers_needed]
  /\ refiller_pc' = "account"
  /\ supply_loaded' = 0
  /\ UNCHANGED <<refilling, papers_needed, owner, flags, cancel_requested,
                 jobQueueVars, refillQueueVars, total_papers_used, stats>>

AccountRefill ==
  /\ refiller_pc = "account"
  /\ Unlocked("stats")
  /\ stats' = [stats EXCEPT !.papers_refilled = @ + papers_needed]
  /\ papers_needed' = 0
  /\ refiller_pc' = "notify"
  /\ UNCHANGED <<refilling, supply_loaded, owner, flags, cancel_requested,
                 jobQueueVars, refillQueueVars, paperVars>>

(* Every printer that waits for paper is woken, refilled or not.           *)
NotifyPrinters ==
  /\ refiller_pc = "notify"
  /\ Unlocked("refill_queue")
  /\ refill_needed_cv' = Broadcast(refill_needed_cv)
  /\ refilling' = {}
  /\ refiller_pc' = "top"
  /\ UNCHANGED <<papers_needed, supply_loaded, owner, flags, cancel_requested,
                 jobQueueVars, paper_refill_queue, refill_supplier_cv, paperVars,
                 stats>>

RefillerStep ==
  \/ LockRefillQueue
  \/ RefillerExits
  \/ TakeRequest
  \/ WaitForRequest
  \/ RequestWaitReturns
  \/ ComputeNeed
  \/ RefillerCancelled
  \/ LoadSupply
  \/ StoreSupply
  \/ AccountRefill
  \/ NotifyPrinters
=============================================================================
