--------------------------- MODULE SimulationProofs --------------------------
(***************************************************************************)
(* What the steps of the threads keep, whoever creates and joins them: the *)
(* lemmas that CliProofs and ServerProofs rest on.                         *)
(***************************************************************************)
EXTENDS Simulation, FiniteSetTheorems, TLAPS

(* What the receiver's program counter says of its locals.                 *)
ReceiverBusy == receiver_pc \in {"sleep", "check", "arrive", "admit", "drop", "account"}

ReceiverInv ==
  /\ ReceiverBusy => job_id < NumJobs
  /\ receiver_pc \in {"sleep", "check", "arrive", "admit", "drop"} => in_hand \in Jobs

ThreadsTyped ==
  /\ SharedTypeOK
  /\ ReceiverTypeOK
  /\ PrinterTypeOK
  /\ RefillerTypeOK
  /\ StopperTypeOK
  /\ Len(job_queue) <= QueueCapacity
  /\ ReceiverInv

USE DEF SharedTypeOK, ReceiverTypeOK, PrinterTypeOK, RefillerTypeOK, StopperTypeOK

(* The state that Cli and Server start from.                               *)
LEMMA SharedInitTyped ==
  ASSUME SharedInit
  PROVE  SharedTypeOK /\ Len(job_queue) <= QueueCapacity
  <1>1. owner \in [Mutexes -> Threads \union {Nobody}]
    BY DEF SharedInit, Threads
  <1>2. /\ current_paper_count \in [Printers -> Int]
        /\ total_papers_used \in [Printers -> Int]
        /\ stats \in [StatsFields -> Int]
    BY ParamsAssumption DEF SharedInit
  <1>3. job_queue \in Seq(Jobs) /\ paper_refill_queue \in Seq(Printers)
    BY DEF SharedInit
  <1>4. Len(job_queue) <= QueueCapacity
    BY ParamsAssumption DEF SharedInit
  <1> QED
    BY <1>1, <1>2, <1>3, <1>4 DEF SharedInit

(* The updates of the statistics keep their type.                          *)
LEMMA StatsType ==
  ASSUME stats \in [StatsFields -> Int], job_queue \in Seq(Jobs)
  PROVE  /\ \A f \in StatsFields : Bump(f) \in [StatsFields -> Int]
         /\ DroppedStats(stats) \in [StatsFields -> Int]
         /\ ArrivalStats(stats) \in [StatsFields -> Int]
         /\ RemovedStats(stats) \in [StatsFields -> Int]
  <1>1. \A f \in StatsFields : Bump(f) \in [StatsFields -> Int]
    BY DEF Bump
  <1>2. DroppedStats(stats) \in [StatsFields -> Int]
    <2>1. /\ stats.total_jobs_dropped + 1 \in Int
          /\ stats.total_jobs_arrived + 1 \in Int
      BY DEF StatsFields
    <2> QED
      BY <2>1 DEF DroppedStats, StatsFields
  <1>3. ArrivalStats(stats) \in [StatsFields -> Int]
    <2> DEFINE len == Len(job_queue) - 1
    <2>1. len \in Int
      OBVIOUS
    <2> HIDE DEF len
    <2>2. [stats EXCEPT !.max_job_queue_length = len] \in [StatsFields -> Int]
      BY <2>1 DEF StatsFields
    <2> QED
      BY <2>2 DEF ArrivalStats, len
  <1>4. RemovedStats(stats) \in [StatsFields -> Int]
    BY DEF RemovedStats, StatsFields
  <1> QED
    BY <1>1, <1>2, <1>3, <1>4

LEMMA TypeReceiver ==
  ASSUME ThreadsTyped, ReceiverStep, UNCHANGED <<printerVars, refillerVars, stopper_pc>>
  PROVE  ThreadsTyped'
  <1> USE ParamsAssumption
  <1> USE DEF ThreadsTyped, ReceiverInv, ReceiverBusy, ReceiverLabels, Threads,
              shared, flags, jobQueueVars, refillQueueVars, paperVars,
              printerVars, refillerVars
  <1>1. CASE CreateJob
    BY <1>1 DEF CreateJob, Jobs
  <1>2. CASE ReceiverCancelled
    BY <1>2 DEF ReceiverCancelled
  <1>3. CASE ReceiverWakesUp
    BY <1>3 DEF ReceiverWakesUp
  <1>4. CASE CheckTermination
    BY <1>4 DEF CheckTermination, NoJob
  <1>5. CASE Arrive
    BY <1>5, StatsType DEF Arrive, StatsFields
  <1>6. CASE Admit
    <2>1. CASE QueueFull(job_queue)
      BY <1>6, <2>1 DEF Admit
    <2>2. CASE ~QueueFull(job_queue)
      <3>1. /\ owner' \in [Mutexes -> Threads \union {Nobody}]
            /\ in_hand' = NoJob /\ receiver_pc' = "account"
            /\ UNCHANGED <<job_id, flags, cancel_requested, refillQueueVars,
                           paperVars, stats, job_queue_not_empty_cv>>
        BY <1>6, <2>2 DEF Admit, Lock
      <3>2. job_queue' \in Seq(Jobs) /\ Len(job_queue') <= QueueCapacity
        <4>1. job_queue \in Seq(Jobs) /\ in_hand \in Jobs
          BY <1>6 DEF Admit
        <4>2. job_queue' = Append(job_queue, in_hand)
          BY <1>6, <2>2 DEF Admit, Enqueue
        <4>3. Len(job_queue) < QueueCapacity
          BY <2>2, <4>1 DEF QueueFull
        <4> QED
          BY <4>1, <4>2, <4>3
      <3> QED
        BY <1>6, <3>1, <3>2 DEF Admit
    <2> QED
      BY <2>1, <2>2
  <1>7. CASE DropJob
    BY <1>7, StatsType DEF DropJob
  <1>8. CASE AccountArrival
    BY <1>8, StatsType DEF AccountArrival, Unlock, Broadcast
  <1>9. CASE FinishArrivals
    BY <1>9 DEF FinishArrivals
  <1>10. CASE LastBroadcast
    BY <1>10 DEF LastBroadcast, Broadcast
  <1> QED
    BY <1>1, <1>2, <1>3, <1>4, <1>5, <1>6, <1>7, <1>8, <1>9, <1>10
    DEF ReceiverStep

LEMMA TypePrinter ==
  ASSUME ThreadsTyped, NEW p \in Printers, PrinterStep(p),
         UNCHANGED <<receiverVars, refillerVars, stopper_pc>>
  PROVE  ThreadsTyped'
  <1> USE DEF ThreadsTyped, ReceiverInv, ReceiverBusy, PrinterLabels, Goto,
              shared, flags, jobQueueVars, refillQueueVars, paperVars,
              receiverVars, refillerVars
  <1>1. CASE ReadTerminate(p)
    BY <1>1 DEF ReadTerminate
  <1>2. CASE LeaveLoop(p)
    BY <1>2 DEF LeaveLoop
  <1>3. CASE WaitForJob(p)
    BY <1>3 DEF WaitForJob
  <1>4. CASE FindShort(p)
    BY <1>4 DEF FindShort
  <1>5. CASE TakeJob(p)
    <2>1. job_queue \in Seq(Jobs) /\ job_queue # <<>>
      BY <1>5 DEF TakeJob
    <2>2. Head(job_queue) \in Jobs
      BY <2>1
    <2>3. job_queue' \in Seq(Jobs) /\ Len(job_queue') <= QueueCapacity
      BY <1>5, <2>1, ParamsAssumption DEF TakeJob, DequeueFront
    <2> QED
      BY <1>5, <2>2, <2>3 DEF TakeJob
  <1>6. CASE JobWaitReturns(p)
    BY <1>6 DEF JobWaitReturns
  <1>7. CASE RequestPaper(p)
    BY <1>7 DEF RequestPaper, Enqueue, Broadcast
  <1>8. CASE PaperWaitReturns(p)
    BY <1>8 DEF PaperWaitReturns
  <1>9. CASE NotePaperEmpty(p)
    BY <1>9 DEF NotePaperEmpty
  <1>10. CASE LoadPaper(p)
    BY <1>10 DEF LoadPaper
  <1>11. CASE StorePaper(p)
    <2>1. job[p].papers \in Int
      BY ParamsAssumption DEF Jobs, NoJob
    <2>2. /\ current_paper_count' \in [Printers -> Int]
          /\ total_papers_used' \in [Printers -> Int]
      BY <1>11, <2>1 DEF StorePaper
    <2> QED
      BY <1>11, <2>2 DEF StorePaper
  <1>12. CASE Depart(p)
    BY <1>12, StatsType DEF Depart, StatsFields
  <1>13. CASE ReadArrived(p)
    BY <1>13 DEF ReadArrived
  <1>14. CASE CheckExit(p)
    BY <1>14 DEF CheckExit
  <1>15. CASE MarkServed(p)
    BY <1>15 DEF MarkServed
  <1>16. CASE WakeAll(p)
    BY <1>16 DEF WakeAll, Broadcast
  <1>17. CASE CancelRefiller(p)
    BY <1>17 DEF CancelRefiller, Cancel
  <1> QED
    BY <1>1, <1>2, <1>3, <1>4, <1>5, <1>6, <1>7, <1>8, <1>9, <1>10, <1>11, <1>12, <1>13, <1>14, <1>15, <1>16, <1>17
    DEF PrinterStep

LEMMA TypeRefiller ==
  ASSUME ThreadsTyped, RefillerStep, UNCHANGED <<receiverVars, printerVars, stopper_pc>>
  PROVE  ThreadsTyped'
  <1> USE DEF ThreadsTyped, ReceiverInv, ReceiverBusy, RefillerLabels, Threads,
              shared, flags, jobQueueVars, refillQueueVars, paperVars,
              receiverVars, printerVars, refillerLocals
  <1>1. CASE LockRefillQueue
    BY <1>1, ParamsAssumption DEF LockRefillQueue, Lock
  <1>2. CASE RefillerExits
    BY <1>2, ParamsAssumption DEF RefillerExits, Unlock, Broadcast
  <1>3. CASE TakeRequest
    BY <1>3, ParamsAssumption DEF TakeRequest, Unlock, DequeueFront
  <1>4. CASE WaitForRequest
    BY <1>4, ParamsAssumption DEF WaitForRequest, Unlock
  <1>5. CASE RequestWaitReturns
    BY <1>5, ParamsAssumption DEF RequestWaitReturns, Lock
  <1>6. CASE ComputeNeed
    BY <1>6, ParamsAssumption DEF ComputeNeed, PapersNeeded
  <1>7. CASE RefillerCancelled
    BY <1>7, ParamsAssumption DEF RefillerCancelled
  <1>8. CASE LoadSupply
    BY <1>8, ParamsAssumption DEF LoadSupply
  <1>9. CASE StoreSupply
    BY <1>9, ParamsAssumption DEF StoreSupply
  <1>10. CASE AccountRefill
    <2>1. stats' \in [StatsFields -> Int]
      <3>1. stats.papers_refilled + papers_needed \in Int
        BY DEF StatsFields
      <3> QED
        BY <1>10, <3>1 DEF AccountRefill, StatsFields
    <2> QED
      BY <1>10, <2>1 DEF AccountRefill
  <1>11. CASE NotifyPrinters
    BY <1>11, ParamsAssumption DEF NotifyPrinters, Broadcast
  <1> QED
    BY <1>1, <1>2, <1>3, <1>4, <1>5, <1>6, <1>7, <1>8, <1>9, <1>10, <1>11
    DEF RefillerStep

LEMMA TypeStop ==
  ASSUME ThreadsTyped, StopStep, UNCHANGED <<receiverVars, printerVars, refillerVars>>
  PROVE  ThreadsTyped'
  <1> USE DEF ThreadsTyped, ReceiverInv, ReceiverBusy, StopperLabels, Threads,
              shared, flags, jobQueueVars, refillQueueVars, paperVars,
              receiverVars, printerVars, refillerVars, StopperGoto
  <1>1. CASE SetFlags
    BY <1>1 DEF SetFlags
  <1>2. CASE LockStatsToEmit
    BY <1>2 DEF LockStatsToEmit, Lock
  <1>3. CASE EmitStopped
    BY <1>3 DEF EmitStopped, Unlock
  <1>4. CASE CancelReceiver
    BY <1>4 DEF CancelReceiver, Cancel
  <1>5. CASE CancelRefillThread
    BY <1>5 DEF CancelRefillThread, Cancel
  <1>6. CASE LockJobQueue
    BY <1>6 DEF LockJobQueue, Lock
  <1>7. CASE LockStatsToDrain
    BY <1>7 DEF LockStatsToDrain, Lock
  <1>8. CASE RemoveJob
    BY <1>8, StatsType, ParamsAssumption DEF RemoveJob, DequeueFront
  <1>9. CASE EndRemoval
    BY <1>9 DEF EndRemoval, Unlock, Broadcast
  <1>10. CASE WakePrintersAndRefiller
    BY <1>10 DEF WakePrintersAndRefiller, Broadcast
  <1> QED
    BY <1>1, <1>2, <1>3, <1>4, <1>5, <1>6, <1>7, <1>8, <1>9, <1>10 DEF StopStep
=============================================================================
