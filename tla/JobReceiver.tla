---------------------------- MODULE JobReceiver ----------------------------
(***************************************************************************)
(* The job receiver thread: job_receiver_thread_func of                    *)
(* src/job_receiver.c.  It creates NumJobs jobs, sleeps before each, and   *)
(* puts it in the job queue or drops it when the queue is full.            *)
(*                                                                         *)
(* The thread runs with cancellation disabled except around its usleep, so *)
(* a pending pthread_cancel takes effect there and nowhere else.           *)
(***************************************************************************)
EXTENDS SimulationState

VARIABLES
  receiver_pc,
  job_id,      \* the loop variable: how many iterations are complete
  in_hand      \* the job allocated by the current iteration

receiverVars == <<receiver_pc, job_id, in_hand>>

ReceiverLabels == {"off", "loop", "sleep", "check", "arrive", "admit", "drop",
                   "account", "finish", "last_wake", "exited"}

ReceiverTypeOK ==
  /\ receiver_pc \in ReceiverLabels
  /\ job_id \in 0..NumJobs
  /\ in_hand \in Jobs \union {NoJob}

ReceiverInit == receiver_pc = "loop" /\ job_id = 0 /\ in_hand = NoJob

(* The next job is allocated with a random demand for paper.               *)
CreateJob ==
  /\ receiver_pc = "loop"
  /\ job_id < NumJobs
  /\ \E n \in PapersLower..PapersUpper :
       in_hand' = [id |-> job_id + 1, papers |-> n]
  /\ receiver_pc' = "sleep"
  /\ UNCHANGED <<job_id, shared>>

(* The thread dies in usleep; the job in hand leaks.                       *)
ReceiverCancelled ==
  /\ receiver_pc = "sleep"
  /\ Cancelled(Receiver)
  /\ receiver_pc' = "exited"
  /\ UNCHANGED <<job_id, in_hand, shared>>

ReceiverWakesUp ==
  /\ receiver_pc = "sleep"
  /\ ~Cancelled(Receiver)
  /\ receiver_pc' = "check"
  /\ UNCHANGED <<job_id, in_hand, shared>>

(* g_terminate_now is read; on termination the job is freed and the loop   *)
(* left.                                                                   *)
CheckTermination ==
  /\ receiver_pc = "check"
  /\ \/ /\ g_terminate_now
        /\ all_jobs_arrived' = TRUE
        /\ in_hand' = NoJob
        /\ receiver_pc' = "finish"
     \/ /\ ~g_terminate_now
        /\ receiver_pc' = "arrive"
        /\ UNCHANGED <<all_jobs_arrived, in_hand>>
  /\ UNCHANGED <<job_id, owner, g_terminate_now, all_jobs_served, cancel_requested,
                 jobQueueVars, refillQueueVars, paperVars, stats>>

(* emit_system_arrival counts the arrival.                                 *)
Arrive ==
  /\ receiver_pc = "arrive"
  /\ Unlocked("stats")
  /\ stats' = Bump("total_jobs_arrived")
  /\ receiver_pc' = "admit"
  /\ UNCHANGED <<job_id, in_hand, owner, flags, cancel_requested, jobQueueVars,
                 refillQueueVars, paperVars>>

(* Mutant of QueueFull: the bound is off by one.                           *)
QueueOverfull(q) == Len(q) > QueueCapacity

QueueFull(q) == Len(q) >= QueueCapacity

(* The queue length decides under job_queue_mutex; an admitted job is      *)
(* enqueued and the mutex kept for AccountArrival.                         *)
Admit ==
  /\ receiver_pc = "admit"
  /\ \/ /\ QueueFull(job_queue)
        /\ Unlocked("job_queue")
        /\ receiver_pc' = "drop"
        /\ UNCHANGED <<job_queue, in_hand, owner>>
     \/ /\ ~QueueFull(job_queue)
        /\ Lock("job_queue", Receiver)
        /\ job_queue' = Enqueue(job_queue, in_hand)
        /\ in_hand' = NoJob
        /\ receiver_pc' = "account"
  /\ UNCHANGED <<job_id, flags, cancel_requested, job_queue_not_empty_cv,
                 refillQueueVars, paperVars, stats>>

(* Mutant of DroppedStats: the drop itself is not counted.                 *)
DroppedStatsMissed(s) == [s EXCEPT !.total_jobs_arrived = @ + 1]

(* emit_dropped_job: job_arrival_helper counts an arrival a second time.   *)
DroppedStats(s) == [s EXCEPT !.total_jobs_dropped = @ + 1,
                             !.total_jobs_arrived = @ + 1]

(* drop_job_from_system under stats_mutex; the loop goes on.               *)
DropJob ==
  /\ receiver_pc = "drop"
  /\ Unlocked("stats")
  /\ stats' = DroppedStats(stats)
  /\ in_hand' = NoJob
  /\ job_id' = job_id + 1
  /\ receiver_pc' = "loop"
  /\ UNCHANGED <<owner, flags, cancel_requested, jobQueueVars, refillQueueVars,
                 paperVars>>

(* max_job_queue_length is raised to the length before the enqueue.        *)
ArrivalStats(s) ==
  LET queue_length == Len(job_queue) - 1
  IN  IF queue_length > s.max_job_queue_length
        THEN [s EXCEPT !.max_job_queue_length = queue_length]
        ELSE s

(* Statistics under both mutexes, then the broadcast that ends the         *)
(* iteration.                                                              *)
AccountArrival ==
  /\ receiver_pc = "account"
  /\ Unlocked("stats")
  /\ stats' = ArrivalStats(stats)
  /\ job_queue_not_empty_cv' = Broadcast(job_queue_not_empty_cv)
  /\ Unlock({"job_queue"})
  /\ job_id' = job_id + 1
  /\ receiver_pc' = "loop"
  /\ UNCHANGED <<in_hand, flags, cancel_requested, job_queue, refillQueueVars,
                 paperVars>>

FinishArrivals ==
  /\ receiver_pc = "finish" \/ (receiver_pc = "loop" /\ job_id >= NumJobs)
  /\ all_jobs_arrived' = TRUE
  /\ receiver_pc' = "last_wake"
  /\ UNCHANGED <<job_id, in_hand, owner, g_terminate_now, all_jobs_served,
                 cancel_requested, jobQueueVars, refillQueueVars, paperVars, stats>>

LastBroadcast ==
  /\ receiver_pc = "last_wake"
  /\ Unlocked("job_queue")
  /\ job_queue_not_empty_cv' = Broadcast(job_queue_not_empty_cv)
  /\ receiver_pc' = "exited"
  /\ UNCHANGED <<job_id, in_hand, owner, flags, cancel_requested, job_queue,
                 refillQueueVars, paperVars, stats>>

ReceiverStep ==
  \/ CreateJob
  \/ ReceiverCancelled
  \/ ReceiverWakesUp
  \/ CheckTermination
  \/ Arrive
  \/ Admit
  \/ DropJob
  \/ AccountArrival
  \/ FinishArrivals
  \/ LastBroadcast
=============================================================================
