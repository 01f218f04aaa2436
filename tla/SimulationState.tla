-------------------------- MODULE SimulationState --------------------------
(***************************************************************************)
(* The state that the threads of one print simulation share, and the       *)
(* operations on it that more than one thread performs.  The variables are *)
(* the fields of simulation_context_t in src/server.c, which main of       *)
(* src/cli.c holds as locals and hands to the threads by pointer.          *)
(*                                                                         *)
(* Mutexes.  owner[m] is the thread that holds m.  A critical section that *)
(* calls nothing blocking is one step, guarded by Unlocked; owner changes  *)
(* only where a thread keeps a mutex while it asks for a second one.       *)
(* simulation_state_mutex is always innermost and held over straight-line  *)
(* code only, so its sections are single steps and it needs no owner.      *)
(*                                                                         *)
(* Condition variables.  Each is the set of threads blocked in             *)
(* pthread_cond_wait on it.  A woken thread leaves the set and then        *)
(* competes for the mutex in a step of its own.                            *)
(***************************************************************************)
EXTENDS Integers, Sequences, FiniteSets

CONSTANTS
  Printers,          \* the printer threads; the code has two
  NumJobs,           \* params->num_jobs
  QueueCapacity,     \* params->queue_capacity
  PaperCapacity,     \* params->printer_paper_capacity
  PapersLower,       \* params->papers_required_lower_bound
  PapersUpper,       \* params->papers_required_upper_bound
  SpuriousWakeups    \* a bound: waits return unprompted only while fewer
                     \* requests than this are queued; 0 means never

Receiver == "receiver"
Refiller == "refiller"
Stopper  == "stopper"    \* whoever runs the stop procedure
Nobody   == "nobody"

Threads == Printers \union {Receiver, Refiller, Stopper}
Mutexes == {"job_queue", "refill_queue", "stats"}

(* What process_args lets through: positive integers, ordered bounds.  It  *)
(* does not compare papers_required_upper_bound with the paper capacity.   *)
ASSUME ParamsAssumption ==
  /\ NumJobs \in Nat \ {0}
  /\ QueueCapacity \in Nat \ {0}
  /\ PaperCapacity \in Nat \ {0}
  /\ PapersLower \in Nat \ {0}
  /\ PapersUpper \in Nat \ {0}
  /\ PapersLower <= PapersUpper
  /\ SpuriousWakeups \in Nat

ASSUME PrintersAssumption ==
  /\ IsFiniteSet(Printers)
  /\ Printers # {}
  /\ Printers \intersect {Receiver, Refiller, Stopper, Nobody} = {}

VARIABLES
  owner,                   \* who holds each mutex
  g_terminate_now,         \* set by a stop, never reset
  all_jobs_arrived,
  all_jobs_served,         \* set by the first printer that leaves its loop
  cancel_requested,        \* threads with a pthread_cancel pending
  job_queue,               \* the jobs waiting, oldest first
  job_queue_not_empty_cv,  \* printers waiting for a job
  paper_refill_queue,      \* printers that asked for paper, oldest first
  refill_needed_cv,        \* printers waiting for paper
  refill_supplier_cv,      \* the refiller, when it waits for a request
  current_paper_count,     \* of each printer
  total_papers_used,       \* of each printer
  stats                    \* the counters of simulation_statistics_t

flags           == <<g_terminate_now, all_jobs_arrived, all_jobs_served>>
jobQueueVars    == <<job_queue, job_queue_not_empty_cv>>
refillQueueVars == <<paper_refill_queue, refill_needed_cv, refill_supplier_cv>>
paperVars       == <<current_paper_count, total_papers_used>>

shared == <<owner, flags, cancel_requested, jobQueueVars, refillQueueVars,
            paperVars, stats>>

Jobs  == [id : 1..NumJobs, papers : PapersLower..PapersUpper]
NoJob == [id |-> 0, papers |-> 0]

StatsFields == {"total_jobs_arrived", "total_jobs_served", "total_jobs_dropped",
                "total_jobs_removed", "max_job_queue_length", "papers_refilled"}

SharedTypeOK ==
  /\ owner \in [Mutexes -> Threads \union {Nobody}]
  /\ g_terminate_now \in BOOLEAN
  /\ all_jobs_arrived \in BOOLEAN
  /\ all_jobs_served \in BOOLEAN
  /\ cancel_requested \subseteq {Receiver, Refiller, Stopper}
  /\ job_queue \in Seq(Jobs)
  /\ job_queue_not_empty_cv \subseteq Printers
  /\ paper_refill_queue \in Seq(Printers)
  /\ refill_needed_cv \subseteq Printers
  /\ refill_supplier_cv \subseteq {Refiller}
  /\ current_paper_count \in [Printers -> Int]
  /\ total_papers_used \in [Printers -> Int]
  /\ stats \in [StatsFields -> Int]

SharedInit ==
  /\ owner = [m \in Mutexes |-> Nobody]
  /\ g_terminate_now = FALSE
  /\ all_jobs_arrived = FALSE
  /\ all_jobs_served = FALSE
  /\ cancel_requested = {}
  /\ job_queue = <<>>
  /\ job_queue_not_empty_cv = {}
  /\ paper_refill_queue = <<>>
  /\ refill_needed_cv = {}
  /\ refill_supplier_cv = {}
  /\ current_paper_count = [p \in Printers |-> PaperCapacity]
  /\ total_papers_used = [p \in Printers |-> 0]
  /\ stats = [f \in StatsFields |-> 0]

-----------------------------------------------------------------------------
(* Mutexes, condition variables and cancellation: POSIX threads.           *)

Unlocked(m)   == owner[m] = Nobody
Lock(m, t)    == Unlocked(m) /\ owner' = [owner EXCEPT ![m] = t]
Unlock(ms)    == owner' = [m \in Mutexes |-> IF m \in ms THEN Nobody ELSE owner[m]]
Holds(t, m)   == owner[m] = t

(* Mutant of Broadcast: nobody is woken.                                   *)
BroadcastLost(cv) == cv

(* The threads that still wait on cv after pthread_cond_broadcast(cv).     *)
Broadcast(cv) == {}

(* Mutant of Cancel: the thread runs with cancellation disabled for good.  *)
CancelIgnored(t) == UNCHANGED cancel_requested

Cancel(t)     == cancel_requested' = cancel_requested \union {t}
Cancelled(t)  == t \in cancel_requested

(* POSIX lets pthread_cond_wait return although nothing was signalled.  A  *)
(* printer that waits for paper then asks again, so the bound is on the    *)
(* length of paper_refill_queue.                                           *)
SpuriousWakeup ==
  /\ Len(paper_refill_queue) < SpuriousWakeups
  /\ \/ /\ \E t \in job_queue_not_empty_cv :
             job_queue_not_empty_cv' = job_queue_not_empty_cv \ {t}
        /\ UNCHANGED <<job_queue, refillQueueVars>>
     \/ /\ \E t \in refill_needed_cv : refill_needed_cv' = refill_needed_cv \ {t}
        /\ UNCHANGED <<jobQueueVars, paper_refill_queue, refill_supplier_cv>>
     \/ /\ \E t \in refill_supplier_cv :
             refill_supplier_cv' = refill_supplier_cv \ {t}
        /\ UNCHANGED <<jobQueueVars, paper_refill_queue, refill_needed_cv>>
  /\ UNCHANGED <<owner, flags, cancel_requested, paperVars, stats>>

-----------------------------------------------------------------------------
(* The two lists and the counters.                                         *)

(* Mutant of Enqueue: timed_queue_enqueue_front in place of                *)
(* timed_queue_enqueue.                                                    *)
EnqueueFront(q, x) == <<x>> \o q

Enqueue(q, x) == Append(q, x)

(* Mutant of DequeueFront: the rest of the list is lost with its front.    *)
DequeueAll(q) == <<>>

DequeueFront(q) == Tail(q)

(* is_exit_condition_met of src/printer.c.                                 *)
IsExitConditionMet(arrived, q) == arrived /\ q = <<>>

Bump(f) == [stats EXCEPT ![f] = @ + 1]
=============================================================================
