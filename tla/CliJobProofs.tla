----------------------------- MODULE CliJobProofs ---------------------------
(***************************************************************************)
(* Theorems about the jobs of Cli: none is lost or counted twice, they     *)
(* enter service in the order of their arrival, and the threads do to them *)
(* no more than JobFlow.                                                   *)
(***************************************************************************)
EXTENDS CliProofs, SequenceTheorems

USE DEF SharedTypeOK, ReceiverTypeOK, PrinterTypeOK

(* What the sum in JobsAccounted is made of.                               *)
LEMMA JobNumbers ==
  ASSUME TypeInv
  PROVE  /\ job_id \in Int
         /\ Len(job_queue) \in Int
         /\ stats.total_jobs_served \in Int
         /\ stats.total_jobs_dropped \in Int
         /\ stats.total_jobs_removed \in Int
         /\ IsFiniteSet(JobsInService)
         /\ Cardinality(JobsInService) \in Int
  <1>1. job_id \in Int /\ Len(job_queue) \in Int
    BY ParamsAssumption DEF TypeInv, TypeOK
  <1>2. /\ stats.total_jobs_served \in Int
        /\ stats.total_jobs_dropped \in Int
        /\ stats.total_jobs_removed \in Int
    BY DEF TypeInv, TypeOK, StatsFields
  <1>3. IsFiniteSet(JobsInService)
    <2>1. JobsInService \subseteq Printers
      BY DEF JobsInService
    <2> QED
      BY <2>1, PrintersAssumption, FS_Subset
  <1>4. Cardinality(JobsInService) \in Int
    BY <1>3, FS_CardinalityType
  <1> QED
    BY <1>1, <1>2, <1>3, <1>4

LEMMA JobsInit == Init => JobsAccounted
  <1> SUFFICES ASSUME Init PROVE JobsAccounted
    OBVIOUS
  <1>1. JobsInService = {}
    BY DEF Init, PrinterInit, JobsInService, Serving
  <1>2. Cardinality(JobsInService) = 0
    BY <1>1, FS_EmptySet
  <1>3. JobsSettled = 0
    BY DEF Init, SharedInit, JobsSettled, StatsFields
  <1>4. Len(job_queue) = 0 /\ job_id = 0 /\ receiver_pc = "loop"
    BY DEF Init, SharedInit, ReceiverInit
  <1> QED
    BY <1>2, <1>3, <1>4 DEF JobsAccounted

(* A printer moves no job unless it takes one or lets one depart.          *)
LEMMA JobsPrinter ==
  ASSUME TypeInv, JobsAccounted, NEW p \in Printers, PrinterActs(p)
  PROVE  JobsAccounted'
  <1> USE DEF shared, flags, jobQueueVars, refillQueueVars, paperVars, receiverVars,
              Goto
  <1>0. UNCHANGED <<receiver_pc, job_id, stopper_pc>>
    BY DEF PrinterActs
  <1>t. printer_pc \in [Printers -> PrinterLabels] /\ stats \in [StatsFields -> Int]
    BY DEF TypeInv, TypeOK
  <1>1. CASE TakeJob(p)
    <2>1. JobsInService' = JobsInService \union {p} /\ p \notin JobsInService
      BY <1>1, <1>t DEF TakeJob, JobsInService, Serving
    <2>2. Cardinality(JobsInService') = Cardinality(JobsInService) + 1
      BY <2>1, JobNumbers, FS_AddElement
    <2>3. Len(job_queue') = Len(job_queue) - 1
      BY <1>1 DEF TakeJob, DequeueFront, TypeInv, TypeOK
    <2>4. JobsSettled' = JobsSettled
      BY <1>1 DEF TakeJob, JobsSettled
    <2> QED
      BY <1>0, <2>2, <2>3, <2>4, JobNumbers DEF JobsAccounted, JobsSettled
  <1>2. CASE Depart(p)
    <2>1. JobsInService' = JobsInService \ {p} /\ p \in JobsInService
      BY <1>2, <1>t DEF Depart, JobsInService, Serving
    <2>2. Cardinality(JobsInService') = Cardinality(JobsInService) - 1
      BY <2>1, JobNumbers, FS_RemoveElement
    <2>3. JobsSettled' = JobsSettled + 1 /\ UNCHANGED job_queue
      BY <1>2, <1>t, JobNumbers DEF Depart, Bump, JobsSettled, StatsFields
    <2> QED
      BY <1>0, <2>2, <2>3, JobNumbers DEF JobsAccounted, JobsSettled
  <1>3. CASE ~TakeJob(p) /\ ~Depart(p)
    <2>1. /\ UNCHANGED <<stats, job_queue>>
          /\ \A q \in Printers : Serving(q)' = Serving(q)
      BY <1>3, <1>t
      DEF Serving, PrinterActs, PrinterStep, ReadTerminate, LeaveLoop, WaitForJob,
          FindShort, JobWaitReturns, RequestPaper, PaperWaitReturns, NotePaperEmpty,
          LoadPaper, StorePaper, ReadArrived, CheckExit, MarkServed, WakeAll,
          CancelRefiller
    <2>2. JobsInService' = JobsInService /\ JobsSettled' = JobsSettled
      BY <2>1 DEF JobsInService, JobsSettled
    <2> QED
      BY <1>0, <2>1, <2>2 DEF JobsAccounted
  <1> QED
    BY <1>1, <1>2, <1>3

LEMMA JobsReceiver ==
  ASSUME TypeInv, JobsAccounted, ReceiverActs
  PROVE  JobsAccounted'
  <1> USE DEF shared, flags, jobQueueVars, refillQueueVars, paperVars, printerVars
  <1>0. UNCHANGED stopper_pc /\ JobsInService' = JobsInService
    BY DEF ReceiverActs, JobsInService, Serving
  <1>1. CASE Admit
    <2>1. CASE QueueFull(job_queue)
      BY <1>0, <1>1, <2>1 DEF Admit, JobsAccounted, JobsSettled
    <2>2. CASE ~QueueFull(job_queue)
      <3>1. Len(job_queue') = Len(job_queue) + 1
        BY <1>1, <2>2 DEF Admit, Enqueue, TypeInv, TypeOK, ReceiverInv
      <3>2. UNCHANGED <<job_id, stats>> /\ receiver_pc = "admit" /\ receiver_pc' = "account"
        BY <1>1, <2>2 DEF Admit
      <3> QED
        BY <1>0, <3>1, <3>2, JobNumbers DEF JobsAccounted, JobsSettled
    <2> QED
      BY <2>1, <2>2
  <1>2. CASE DropJob
    <2>1. JobsSettled' = JobsSettled + 1
      BY <1>2, JobNumbers DEF DropJob, DroppedStats, JobsSettled, StatsFields, TypeInv, TypeOK
    <2> QED
      BY <1>0, <1>2, <2>1, JobNumbers DEF DropJob, JobsAccounted, JobsSettled
  <1>3. CASE AccountArrival
    <2>1. JobsSettled' = JobsSettled
      BY <1>3 DEF AccountArrival, ArrivalStats, JobsSettled, StatsFields, TypeInv, TypeOK
    <2> QED
      BY <1>0, <1>3, <2>1, JobNumbers DEF AccountArrival, JobsAccounted
  <1>4. CASE Arrive
    <2>1. JobsSettled' = JobsSettled
      BY <1>4 DEF Arrive, Bump, JobsSettled, StatsFields, TypeInv, TypeOK
    <2> QED
      BY <1>0, <1>4, <2>1 DEF Arrive, JobsAccounted
  <1>5. CASE ~Admit /\ ~DropJob /\ ~AccountArrival /\ ~Arrive
    <2>1. /\ UNCHANGED <<job_id, stats, job_queue>>
          /\ receiver_pc # "account" /\ receiver_pc' # "account"
      BY <1>5
      DEF ReceiverActs, ReceiverStep, CreateJob, ReceiverCancelled, ReceiverWakesUp,
          CheckTermination, FinishArrivals, LastBroadcast
    <2> QED
      BY <1>0, <2>1 DEF JobsAccounted, JobsSettled
  <1> QED
    BY <1>1, <1>2, <1>3, <1>4, <1>5

LEMMA JobsCatcher ==
  ASSUME TypeInv, JobsAccounted, CatcherActs
  PROVE  JobsAccounted'
  <1> USE DEF shared, flags, jobQueueVars, refillQueueVars, paperVars, printerVars,
              receiverVars, StopperGoto
  <1>0. UNCHANGED <<receiver_pc, job_id>> /\ JobsInService' = JobsInService
    BY DEF CatcherActs, JobsInService, Serving
  <1>1. CASE RemoveJob
    <2>1. Len(job_queue') = Len(job_queue) - 1
      BY <1>1 DEF RemoveJob, DequeueFront, TypeInv, TypeOK
    <2>2. JobsSettled' = JobsSettled + 1
      BY <1>1, JobNumbers DEF RemoveJob, RemovedStats, JobsSettled, StatsFields, TypeInv, TypeOK
    <2> QED
      BY <1>0, <1>1, <2>1, <2>2, JobNumbers DEF RemoveJob, JobsAccounted, JobsSettled
  <1>2. CASE KilledEmittingStop \/ KilledRemovingJob
    BY <1>2 DEF KilledEmittingStop, KilledRemovingJob, JobsAccounted
  <1>3. CASE ~RemoveJob /\ ~KilledEmittingStop /\ ~KilledRemovingJob
    <2>1. UNCHANGED <<stats, job_queue>> /\ stopper_pc # "killed"
      BY <1>3
      DEF CatcherActs, CatcherStep, StopStep, SetFlags, LockStatsToEmit, EmitStopped,
          CancelReceiver, CancelRefillThread, LockJobQueue, LockStatsToDrain,
          EndRemoval, WakePrintersAndRefiller, CancelledInSigwait,
          KilledInDebugMessage
    <2> QED
      BY <1>0, <2>1 DEF JobsAccounted, JobsSettled
  <1> QED
    BY <1>1, <1>2, <1>3

LEMMA JobsStep == TypeInv /\ JobsAccounted /\ [Next]_vars => JobsAccounted'
  <1> SUFFICES ASSUME TypeInv, JobsAccounted, [Next]_vars PROVE JobsAccounted'
    OBVIOUS
  <1>1. CASE RefillerActs \/ SignalArrives \/ MainActs \/ SpuriousReturn \/ UNCHANGED vars
    <2>1. /\ UNCHANGED <<job_queue, receiver_pc, job_id, printer_pc>>
          /\ stopper_pc' = stopper_pc \/ stopper_pc # "killed"
      BY <1>1
      DEF shared, flags, jobQueueVars, refillQueueVars, paperVars, printerVars,
          receiverVars, vars, RefillerActs, RefillerStep, LockRefillQueue,
          RefillerExits, TakeRequest, WaitForRequest, RequestWaitReturns, ComputeNeed,
          RefillerCancelled, LoadSupply, StoreSupply, AccountRefill, NotifyPrinters,
          SignalArrives, SigwaitReturns, StopperGoto, MainActs, MainStep, JoinReceiver,
          JoinPrinters, JoinRefiller, CancelCatcher, JoinCatcher, FinalLog,
          SpuriousReturn, SpuriousWakeup
    <2>2. JobsSettled' = JobsSettled
      BY <1>1
      DEF shared, flags, jobQueueVars, refillQueueVars, paperVars, refillerLocals,
          vars, RefillerActs, RefillerStep, LockRefillQueue,
          RefillerExits, TakeRequest, WaitForRequest, RequestWaitReturns, ComputeNeed,
          RefillerCancelled, LoadSupply, StoreSupply, AccountRefill, NotifyPrinters,
          SignalArrives, SigwaitReturns, MainActs, MainStep, JoinReceiver,
          JoinPrinters, JoinRefiller, CancelCatcher, JoinCatcher, FinalLog,
          SpuriousReturn, SpuriousWakeup, JobsSettled, StatsFields, TypeInv, TypeOK
    <2>3. JobsInService' = JobsInService
      BY <2>1 DEF JobsInService, Serving
    <2> QED
      BY <2>1, <2>2, <2>3 DEF JobsAccounted
  <1> QED
    BY <1>1, JobsPrinter, JobsReceiver, JobsCatcher DEF Next

(* Every job the receiver let in is in the queue, at one printer, or       *)
(* counted exactly once as served, dropped or removed.                     *)
THEOREM JobsConserved == Spec => []JobsAccounted
  <1>1. Init => TypeInv /\ JobsAccounted
    BY TypeInit, JobsInit
  <1>2. TypeInv /\ JobsAccounted /\ [Next]_vars => (TypeInv /\ JobsAccounted)'
    BY TypeInvStep, JobsStep
  <1> QED
    BY <1>1, <1>2, PTL DEF Spec

-----------------------------------------------------------------------------
(* The order of service.  The ids that the receiver has handed out bound   *)
(* every id in the queue and in service.                                   *)
Admitted == job_id + (IF receiver_pc = "account" THEN 1 ELSE 0)

OrderInv ==
  /\ ServiceInOrder
  /\ receiver_pc \in {"sleep", "check", "arrive", "admit", "drop"} =>
       in_hand.id = job_id + 1
  /\ \A i \in 1..Len(job_queue) : job_queue[i].id <= Admitted
  /\ \A p \in JobsInService : job[p].id <= Admitted

LEMMA OrderTypes ==
  ASSUME TypeInv
  PROVE  /\ job_id \in Int
         /\ Admitted \in Int
         /\ job_queue \in Seq(Jobs)
         /\ \A i \in 1..Len(job_queue) : job_queue[i].id \in Int
         /\ \A p \in Printers : job[p].id \in Int
         /\ printer_pc \in [Printers -> PrinterLabels]
  <1>1. job_id \in Int /\ Admitted \in Int
    BY ParamsAssumption DEF TypeInv, TypeOK, Admitted
  <1>2. job_queue \in Seq(Jobs) /\ printer_pc \in [Printers -> PrinterLabels]
    BY DEF TypeInv, TypeOK
  <1>3. \A j \in Jobs \union {NoJob} : j.id \in Int
    BY ParamsAssumption DEF Jobs, NoJob
  <1>4. \A i \in 1..Len(job_queue) : job_queue[i].id \in Int
    BY <1>2, <1>3
  <1>5. \A p \in Printers : job[p].id \in Int
    BY <1>3 DEF TypeInv, TypeOK
  <1> QED
    BY <1>1, <1>2, <1>4, <1>5

LEMMA OrderInit == Init => OrderInv
  BY DEF Init, SharedInit, PrinterInit, ReceiverInit, OrderInv, ServiceInOrder,
     JobsInService, Serving

(* Nothing moves: no job enters or leaves the queue or the service, and the*)
(* bound does not shrink.                                                  *)
LEMMA OrderUnchanged ==
  ASSUME TypeInv, OrderInv, UNCHANGED job_queue,
         JobsInService' \subseteq JobsInService,
         \A p \in JobsInService' : job'[p] = job[p],
         Admitted' \in Int, Admitted <= Admitted',
         receiver_pc' \in {"sleep", "check", "arrive", "admit", "drop"} =>
           in_hand'.id = job_id' + 1
  PROVE  OrderInv'
  <1>1. ServiceInOrder'
    BY DEF OrderInv, ServiceInOrder
  <1>2. (\A i \in 1..Len(job_queue) : job_queue[i].id <= Admitted)'
    BY OrderTypes DEF OrderInv
  <1>3. (\A p \in JobsInService : job[p].id <= Admitted)'
    <2> SUFFICES ASSUME NEW p \in JobsInService' PROVE job[p].id <= Admitted'
      BY DEF OrderInv
    <2>1. p \in Printers /\ job[p].id <= Admitted
      BY DEF OrderInv, JobsInService
    <2> QED
      BY <2>1, OrderTypes
  <1> QED
    BY <1>1, <1>2, <1>3 DEF OrderInv

(* The front of the queue leaves it, to a printer or for good.             *)
LEMMA OrderDequeue ==
  ASSUME TypeInv, OrderInv, job_queue # <<>>, job_queue' = Tail(job_queue),
         UNCHANGED <<job_id, receiver_pc, in_hand>>,
         \A p \in JobsInService' :
           \/ p \in JobsInService /\ job'[p] = job[p]
           \/ p \notin JobsInService /\ job'[p] = Head(job_queue),
         \A p, q \in JobsInService' \ JobsInService : p = q
  PROVE  OrderInv'
  <1>1. /\ Len(job_queue') = Len(job_queue) - 1
        /\ Len(job_queue) \in Nat \ {0}
        /\ \A i \in 1..Len(job_queue') : job_queue'[i] = job_queue[i + 1]
        /\ Head(job_queue) = job_queue[1]
    BY OrderTypes
  <1>2. Admitted' = Admitted
    BY DEF Admitted
  <1>3. \A i, j \in 1..Len(job_queue') : i < j => job_queue'[i].id < job_queue'[j].id
    <2> SUFFICES ASSUME NEW i \in 1..Len(job_queue'), NEW j \in 1..Len(job_queue'),
                        i < j
                 PROVE  job_queue[i + 1].id < job_queue[j + 1].id
      BY <1>1
    <2>1. i + 1 \in 1..Len(job_queue) /\ j + 1 \in 1..Len(job_queue) /\ i + 1 < j + 1
      BY <1>1
    <2> QED
      BY <2>1 DEF OrderInv, ServiceInOrder
  <1>4. ASSUME NEW p \in JobsInService', NEW i \in 1..Len(job_queue')
        PROVE  job'[p].id < job_queue'[i].id
    <2>1. i + 1 \in 1..Len(job_queue) /\ 1 \in 1..Len(job_queue) /\ 1 < i + 1
      BY <1>1
    <2>2. job_queue[1].id < job_queue[i + 1].id
      BY <2>1 DEF OrderInv, ServiceInOrder
    <2>3. CASE p \in JobsInService
      BY <1>1, <2>1, <2>3 DEF OrderInv, ServiceInOrder
    <2>4. CASE p \notin JobsInService
      BY <1>1, <2>2, <2>4
    <2> QED
      BY <2>3, <2>4
  <1>5. ASSUME NEW p \in JobsInService', NEW q \in JobsInService', p # q
        PROVE  job'[p].id # job'[q].id
    <2>1. 1 \in 1..Len(job_queue) /\ job_queue[1].id \in Int
      BY <1>1, OrderTypes
    <2>2. \A r \in JobsInService : job[r].id < job_queue[1].id /\ job[r].id \in Int
      BY <2>1, OrderTypes DEF OrderInv, ServiceInOrder, JobsInService
    <2>3. CASE p \in JobsInService /\ q \in JobsInService
      BY <1>5, <2>3 DEF OrderInv, ServiceInOrder
    <2>4. CASE p \in JobsInService /\ q \notin JobsInService
      <3>1. job'[p] = job[p] /\ job'[q] = job_queue[1]
        BY <1>1, <2>4
      <3> QED
        BY <2>1, <2>2, <2>4, <3>1
    <2>5. CASE p \notin JobsInService /\ q \in JobsInService
      <3>1. job'[p] = job_queue[1] /\ job'[q] = job[q]
        BY <1>1, <2>5
      <3> QED
        BY <2>1, <2>2, <2>5, <3>1
    <2> QED
      BY <1>5, <2>3, <2>4, <2>5
  <1>6. (\A i \in 1..Len(job_queue) : job_queue[i].id <= Admitted)'
    <2> SUFFICES ASSUME NEW i \in 1..Len(job_queue')
                 PROVE  job_queue[i + 1].id <= Admitted
      BY <1>1, <1>2
    <2>1. i + 1 \in 1..Len(job_queue)
      BY <1>1
    <2> QED
      BY <2>1 DEF OrderInv
  <1>7. (\A p \in JobsInService : job[p].id <= Admitted)'
    <2>1. 1 \in 1..Len(job_queue)
      BY <1>1
    <2> QED
      BY <1>1, <1>2, <2>1 DEF OrderInv
  <1> QED
    BY <1>3, <1>4, <1>5, <1>6, <1>7 DEF OrderInv, ServiceInOrder

LEMMA OrderPrinter ==
  ASSUME TypeInv, OrderInv, NEW p \in Printers, PrinterActs(p)
  PROVE  OrderInv'
  <1> USE DEF shared, flags, jobQueueVars, refillQueueVars, paperVars, receiverVars,
              Goto
  <1>0. UNCHANGED <<receiver_pc, job_id, in_hand>>
    BY DEF PrinterActs
  <1>t. /\ printer_pc \in [Printers -> PrinterLabels]
        /\ job \in [Printers -> Jobs \union {NoJob}]
    BY DEF TypeInv, TypeOK
  <1>1. CASE TakeJob(p)
    <2>1. JobsInService' = JobsInService \union {p} /\ p \notin JobsInService
      BY <1>1, <1>t DEF TakeJob, JobsInService, Serving
    <2>2. /\ job' = [job EXCEPT ![p] = Head(job_queue)]
          /\ job_queue # <<>> /\ job_queue' = Tail(job_queue)
      BY <1>1 DEF TakeJob, DequeueFront
    <2>3. \A q \in JobsInService' :
            \/ q \in JobsInService /\ job'[q] = job[q]
            \/ q \notin JobsInService /\ job'[q] = Head(job_queue)
      BY <1>t, <2>1, <2>2 DEF JobsInService
    <2>4. \A q, r \in JobsInService' \ JobsInService : q = r
      BY <2>1
    <2> QED
      BY <1>0, <2>2, <2>3, <2>4, OrderDequeue
  <1>2. CASE ~TakeJob(p)
    <2>1. /\ UNCHANGED job_queue
          /\ \A q \in Printers : Serving(q)' => Serving(q) /\ job'[q] = job[q]
      BY <1>2, <1>t
      DEF Serving, PrinterActs, PrinterStep, ReadTerminate, LeaveLoop, WaitForJob,
          FindShort, JobWaitReturns, RequestPaper, PaperWaitReturns, NotePaperEmpty,
          LoadPaper, StorePaper, Depart, ReadArrived, CheckExit, MarkServed, WakeAll,
          CancelRefiller
    <2>2. /\ JobsInService' \subseteq JobsInService
          /\ \A q \in JobsInService' : job'[q] = job[q]
      BY <2>1 DEF JobsInService
    <2>3. Admitted' = Admitted
      BY <1>0 DEF Admitted
    <2> QED
      BY <1>0, <2>1, <2>2, <2>3, OrderTypes, OrderUnchanged DEF OrderInv
  <1> QED
    BY <1>1, <1>2

LEMMA OrderReceiver ==
  ASSUME TypeInv, OrderInv, ReceiverActs
  PROVE  OrderInv'
  <1> USE DEF shared, flags, jobQueueVars, refillQueueVars, paperVars, printerVars
  <1>0. UNCHANGED job /\ JobsInService' = JobsInService
    BY DEF ReceiverActs, JobsInService, Serving
  <1>1. CASE Admit /\ ~QueueFull(job_queue)
    <2>1. /\ job_queue' = Append(job_queue, in_hand)
          /\ receiver_pc = "admit" /\ receiver_pc' = "account" /\ UNCHANGED job_id
      BY <1>1 DEF Admit, Enqueue
    <2>2. in_hand.id = job_id + 1 /\ Admitted' = job_id + 1 /\ Admitted = job_id
      BY <2>1, OrderTypes DEF OrderInv, Admitted
    <2>3. /\ Len(job_queue') = Len(job_queue) + 1 /\ Len(job_queue) \in Nat
          /\ \A i \in 1..Len(job_queue) : job_queue'[i] = job_queue[i]
          /\ job_queue'[Len(job_queue) + 1] = in_hand
      BY <2>1, OrderTypes
    <2>4. \A i \in 1..Len(job_queue') :
            \/ i \in 1..Len(job_queue) /\ job_queue'[i] = job_queue[i]
            \/ i = Len(job_queue) + 1 /\ job_queue'[i].id = job_id + 1
      BY <2>2, <2>3
    <2>5. \A i \in 1..Len(job_queue) :
            job_queue[i].id \in Int /\ job_queue[i].id <= job_id
      BY <2>2, OrderTypes DEF OrderInv
    <2>6. \A q \in JobsInService : job[q].id \in Int /\ job[q].id <= job_id
      BY <2>2, OrderTypes DEF OrderInv, JobsInService
    <2>7. ASSUME NEW i \in 1..Len(job_queue'), NEW j \in 1..Len(job_queue'), i < j
          PROVE  job_queue'[i].id < job_queue'[j].id
      <3>1. CASE j \in 1..Len(job_queue)
        BY <2>3, <2>7, <3>1 DEF OrderInv, ServiceInOrder
      <3>2. CASE j = Len(job_queue) + 1
        BY <2>2, <2>3, <2>5, <2>7, <3>2, OrderTypes
      <3> QED
        BY <2>4, <3>1, <3>2
    <2>8. ASSUME NEW q \in JobsInService, NEW i \in 1..Len(job_queue')
          PROVE  job[q].id < job_queue'[i].id
      <3>1. CASE i \in 1..Len(job_queue)
        BY <2>3, <3>1 DEF OrderInv, ServiceInOrder
      <3>2. CASE i = Len(job_queue) + 1
        BY <2>2, <2>3, <2>6, <3>2, OrderTypes
      <3> QED
        BY <2>4, <3>1, <3>2
    <2>9. (\A i \in 1..Len(job_queue) : job_queue[i].id <= Admitted)'
      BY <2>2, <2>4, <2>5, OrderTypes
    <2>10. (\A q \in JobsInService : job[q].id <= Admitted)'
      BY <1>0, <2>2, <2>6, OrderTypes
    <2> QED
      BY <1>0, <2>1, <2>7, <2>8, <2>9, <2>10 DEF OrderInv, ServiceInOrder
  <1>2. CASE ~(Admit /\ ~QueueFull(job_queue))
    <2>1. /\ UNCHANGED job_queue
          /\ receiver_pc' \in {"sleep", "check", "arrive", "admit", "drop"} =>
               in_hand'.id = job_id' + 1
      BY <1>2
      DEF ReceiverActs, ReceiverStep, CreateJob, ReceiverCancelled, ReceiverWakesUp,
          CheckTermination, Arrive, Admit, DropJob, AccountArrival, FinishArrivals,
          LastBroadcast, OrderInv
    <2>2. \/ /\ UNCHANGED job_id
             /\ receiver_pc # "account" /\ receiver_pc' # "account"
          \/ /\ job_id' = job_id + 1
             /\ receiver_pc' # "account"
      BY <1>2
      DEF ReceiverActs, ReceiverStep, CreateJob, ReceiverCancelled, ReceiverWakesUp,
          CheckTermination, Arrive, Admit, DropJob, AccountArrival, FinishArrivals,
          LastBroadcast
    <2>3. Admitted' \in Int /\ Admitted <= Admitted'
      BY <2>2, OrderTypes DEF Admitted
    <2> QED
      BY <1>0, <2>1, <2>3, OrderUnchanged
  <1> QED
    BY <1>1, <1>2

LEMMA OrderCatcher ==
  ASSUME TypeInv, OrderInv, CatcherActs
  PROVE  OrderInv'
  <1> USE DEF shared, flags, jobQueueVars, refillQueueVars, paperVars, printerVars,
              receiverVars, StopperGoto
  <1>0. UNCHANGED <<receiver_pc, job_id, in_hand, job>> /\ JobsInService' = JobsInService
    BY DEF CatcherActs, JobsInService, Serving
  <1>1. CASE RemoveJob \/ KilledRemovingJob
    <2>1. job_queue # <<>> /\ job_queue' = Tail(job_queue)
      BY <1>1 DEF RemoveJob, KilledRemovingJob, DequeueFront
    <2> QED
      BY <1>0, <2>1, OrderDequeue
  <1>2. CASE ~RemoveJob /\ ~KilledRemovingJob
    <2>1. UNCHANGED job_queue
      BY <1>2
      DEF CatcherActs, CatcherStep, StopStep, SetFlags, LockStatsToEmit, EmitStopped,
          CancelReceiver, CancelRefillThread, LockJobQueue, LockStatsToDrain,
          EndRemoval, WakePrintersAndRefiller, CancelledInSigwait, KilledEmittingStop,
          KilledInDebugMessage
    <2>2. Admitted' = Admitted
      BY <1>0 DEF Admitted
    <2> QED
      BY <1>0, <2>1, <2>2, OrderTypes, OrderUnchanged DEF OrderInv
  <1> QED
    BY <1>1, <1>2

LEMMA OrderStep == TypeInv /\ OrderInv /\ [Next]_vars => OrderInv'
  <1> SUFFICES ASSUME TypeInv, OrderInv, [Next]_vars PROVE OrderInv'
    OBVIOUS
  <1>1. CASE RefillerActs \/ SignalArrives \/ MainActs \/ SpuriousReturn \/ UNCHANGED vars
    <2>1. UNCHANGED <<job_queue, receiver_pc, job_id, in_hand, printer_pc, job>>
      BY <1>1
      DEF shared, flags, jobQueueVars, refillQueueVars, paperVars, printerVars,
          receiverVars, vars, RefillerActs, RefillerStep, LockRefillQueue,
          RefillerExits, TakeRequest, WaitForRequest, RequestWaitReturns, ComputeNeed,
          RefillerCancelled, LoadSupply, StoreSupply, AccountRefill, NotifyPrinters,
          SignalArrives, SigwaitReturns, StopperGoto, MainActs, MainStep, JoinReceiver,
          JoinPrinters, JoinRefiller, CancelCatcher, JoinCatcher, FinalLog,
          SpuriousReturn, SpuriousWakeup
    <2>2. JobsInService' = JobsInService /\ Admitted' = Admitted
      BY <2>1 DEF JobsInService, Serving, Admitted
    <2> QED
      BY <2>1, <2>2, OrderTypes, OrderUnchanged DEF OrderInv
  <1> QED
    BY <1>1, OrderPrinter, OrderReceiver, OrderCatcher DEF Next

(* Jobs enter service oldest first, and no job is at two printers.         *)
THEOREM ServedInOrder == Spec => []ServiceInOrder
  <1>1. Init => TypeInv /\ OrderInv
    BY TypeInit, OrderInit
  <1>2. TypeInv /\ OrderInv /\ [Next]_vars => (TypeInv /\ OrderInv)'
    BY TypeInvStep, OrderStep
  <1>3. OrderInv => ServiceInOrder
    BY DEF OrderInv
  <1> QED
    BY <1>1, <1>2, <1>3, PTL DEF Spec

-----------------------------------------------------------------------------
(* Cli implements JobFlow: every step of a thread is a step of the abstract*)
(* flow of jobs, or none.                                                  *)

(* A printer that serves holds a job, and whoever removes jobs has set     *)
(* g_terminate_now.                                                        *)
ServingInv == \A p \in Printers : Serving(p) => job[p] \in Jobs

StopInv == stopper_pc \notin {"idle", "set_flags", "exited", "killed"} => g_terminate_now

FlowInv == TypeInv /\ OrderInv /\ ServingInv /\ StopInv

-----------------------------------------------------------------------------
(* The ids of a queue.                                                     *)

LEMMA IdsType ==
  ASSUME NEW q \in Seq(Jobs)
  PROVE  /\ Ids(q) \in Seq(Int)
         /\ Len(Ids(q)) = Len(q)
         /\ Len(q) \in Nat
         /\ \A i \in 1..Len(q) : Ids(q)[i] = q[i].id
  <1>1. Len(q) \in Nat /\ \A i \in 1..Len(q) : q[i] \in Jobs
    BY LenProperties, ElementOfSeq
  <1>2. \A i \in 1..Len(q) : q[i].id \in Int
    BY <1>1 DEF Jobs
  <1>3. Ids(q) \in [1..Len(q) -> Int]
    BY <1>2 DEF Ids
  <1>4. Ids(q) \in Seq(Int) /\ Len(Ids(q)) = Len(q)
    BY <1>1, <1>3
  <1> QED
    BY <1>1, <1>4 DEF Ids

LEMMA IdsAppend ==
  ASSUME NEW q \in Seq(Jobs), NEW j \in Jobs
  PROVE  Ids(Append(q, j)) = Append(Ids(q), j.id)
  <1>1. /\ Append(q, j) \in Seq(Jobs)
        /\ Len(Append(q, j)) = Len(q) + 1
        /\ \A i \in 1..Len(q) : Append(q, j)[i] = q[i]
        /\ Append(q, j)[Len(q) + 1] = j
    BY IdsType
  <1>2. j.id \in Int
    BY DEF Jobs
  <1>3. /\ Append(Ids(q), j.id) \in Seq(Int)
        /\ Len(Append(Ids(q), j.id)) = Len(q) + 1
        /\ \A i \in 1..Len(q) : Append(Ids(q), j.id)[i] = q[i].id
        /\ Append(Ids(q), j.id)[Len(q) + 1] = j.id
    BY <1>2, IdsType
  <1>4. /\ Ids(Append(q, j)) \in Seq(Int)
        /\ Len(Ids(Append(q, j))) = Len(q) + 1
        /\ \A i \in 1..(Len(q) + 1) : Ids(Append(q, j))[i] = Append(q, j)[i].id
    BY <1>1, IdsType
  <1>5. \A i \in 1..(Len(q) + 1) : Ids(Append(q, j))[i] = Append(Ids(q), j.id)[i]
    <2>1. Len(q) \in Nat
      OBVIOUS
    <2>2. \A i \in 1..(Len(q) + 1) : i \in 1..Len(q) \/ i = Len(q) + 1
      BY <2>1
    <2> QED
      BY <1>1, <1>3, <1>4, <2>2
  <1> QED
    BY <1>3, <1>4, <1>5, SeqEqual

LEMMA IdsTail ==
  ASSUME NEW q \in Seq(Jobs), q # <<>>
  PROVE  /\ Ids(q) # <<>>
         /\ Head(Ids(q)) = Head(q).id
         /\ Ids(Tail(q)) = Tail(Ids(q))
  <1>1. /\ Tail(q) \in Seq(Jobs)
        /\ Len(Tail(q)) = Len(q) - 1
        /\ \A i \in 1..Len(Tail(q)) : Tail(q)[i] = q[i + 1]
        /\ Len(q) \in Nat \ {0}
        /\ Head(q) = q[1]
    BY HeadTailProperties, EmptySeq
  <1>2. Ids(q) # <<>> /\ Head(Ids(q)) = Head(q).id
    <2>1. Ids(q) # <<>>
      BY <1>1, IdsType
    <2>2. Head(Ids(q)) = Ids(q)[1]
      BY <2>1, IdsType
    <2> QED
      BY <1>1, <2>1, <2>2, IdsType
  <1>3. /\ Tail(Ids(q)) \in Seq(Int)
        /\ Len(Tail(Ids(q))) = Len(q) - 1
        /\ \A i \in 1..(Len(q) - 1) : Tail(Ids(q))[i] = Ids(q)[i + 1]
    BY <1>2, IdsType, HeadTailProperties
  <1>4. /\ Ids(Tail(q)) \in Seq(Int)
        /\ Len(Ids(Tail(q))) = Len(q) - 1
        /\ \A i \in 1..(Len(q) - 1) : Ids(Tail(q))[i] = q[i + 1].id
    <2>1. /\ Ids(Tail(q)) \in Seq(Int) /\ Len(Ids(Tail(q))) = Len(Tail(q))
          /\ \A i \in 1..Len(Tail(q)) : Ids(Tail(q))[i] = Tail(q)[i].id
      BY <1>1, IdsType
    <2> QED
      BY <1>1, <2>1
  <1>5. \A i \in 1..(Len(q) - 1) : Ids(Tail(q))[i] = Tail(Ids(q))[i]
    <2> SUFFICES ASSUME NEW i \in 1..(Len(q) - 1)
                 PROVE  Ids(Tail(q))[i] = Tail(Ids(q))[i]
      OBVIOUS
    <2>1. i + 1 \in 1..Len(q)
      BY <1>1
    <2> QED
      BY <1>3, <1>4, <2>1, IdsType
  <1> QED
    BY <1>2, <1>3, <1>4, <1>5, SeqEqual

-----------------------------------------------------------------------------
(* The invariant.                                                          *)

LEMMA FlowInvInit == Init => FlowInv
  <1> SUFFICES ASSUME Init PROVE ServingInv /\ StopInv
    BY TypeInit, OrderInit DEF FlowInv
  <1> QED
    BY DEF Init, PrinterInit, StopperInit, ServingInv, StopInv, Serving

(* A thread other than the printers moves none of what they serve.         *)
LEMMA ServingStep == FlowInv /\ [Next]_vars => ServingInv'
  <1> SUFFICES ASSUME FlowInv, [Next]_vars PROVE ServingInv'
    OBVIOUS
  <1> USE DEF FlowInv
  <1>1. ASSUME NEW p \in Printers, PrinterActs(p) PROVE ServingInv'
    <2> USE DEF shared, flags, jobQueueVars, refillQueueVars, paperVars, Goto
    <2>t. /\ printer_pc \in [Printers -> PrinterLabels]
          /\ job \in [Printers -> Jobs \union {NoJob}]
          /\ job_queue \in Seq(Jobs)
      BY DEF TypeInv, TypeOK
    <2>1. CASE TakeJob(p)
      <3>1. Head(job_queue) \in Jobs
        BY <2>1, <2>t, HeadTailProperties DEF TakeJob
      <3> QED
        BY <2>1, <2>t, <3>1 DEF TakeJob, ServingInv, Serving
    <2>2. CASE ~TakeJob(p)
      <3>1. \A q \in Printers : Serving(q)' => Serving(q) /\ job'[q] = job[q]
        BY <1>1, <2>2, <2>t
        DEF Serving, PrinterActs, PrinterStep, ReadTerminate, LeaveLoop, WaitForJob,
            FindShort, JobWaitReturns, RequestPaper, PaperWaitReturns, NotePaperEmpty,
            LoadPaper, StorePaper, Depart, ReadArrived, CheckExit, MarkServed, WakeAll,
            CancelRefiller
      <3> QED
        BY <3>1 DEF ServingInv
    <2> QED
      BY <2>1, <2>2
  <1>2. CASE ~\E p \in Printers : PrinterActs(p)
    <2>1. UNCHANGED printerVars
      BY <1>2 DEF Next, vars, ReceiverActs, RefillerActs, CatcherActs, SignalArrives,
                  MainActs, SpuriousReturn
    <2> QED
      BY <2>1 DEF printerVars, ServingInv, Serving
  <1> QED
    BY <1>1, <1>2

(* Only SetFlags leads on to the steps of a stop, and no thread resets the *)
(* flag.                                                                   *)
LEMMA StopStepInv == FlowInv /\ [Next]_vars => StopInv'
  <1> SUFFICES ASSUME FlowInv, [Next]_vars PROVE StopInv'
    OBVIOUS
  <1> USE DEF FlowInv
  <1>1. CASE CatcherActs
    BY <1>1
    DEF CatcherActs, CatcherStep, StopStep, SetFlags, LockStatsToEmit, EmitStopped,
        CancelReceiver, CancelRefillThread, LockJobQueue, LockStatsToDrain, RemoveJob,
        EndRemoval, WakePrintersAndRefiller, CancelledInSigwait, KilledEmittingStop,
        KilledInDebugMessage, KilledRemovingJob, StopperGoto, StopInv, shared, flags
  <1>2. CASE SignalArrives
    BY <1>2 DEF SignalArrives, SigwaitReturns, StopperGoto, StopInv
  <1>3. ASSUME NEW p \in Printers, PrinterActs(p)
        PROVE  UNCHANGED <<stopper_pc, g_terminate_now>>
    BY <1>3
    DEF PrinterActs, PrinterStep, ReadTerminate, LeaveLoop, WaitForJob, FindShort,
        TakeJob, JobWaitReturns, RequestPaper, PaperWaitReturns, NotePaperEmpty,
        LoadPaper, StorePaper, Depart, ReadArrived, CheckExit, MarkServed, WakeAll,
        CancelRefiller, shared, flags
  <1>4. CASE ReceiverActs
    BY <1>4
    DEF ReceiverActs, ReceiverStep, CreateJob, ReceiverCancelled, ReceiverWakesUp,
        CheckTermination, Arrive, Admit, DropJob, AccountArrival, FinishArrivals,
        LastBroadcast, StopInv, shared, flags
  <1>5. CASE RefillerActs \/ MainActs \/ SpuriousReturn \/ UNCHANGED vars
    <2>1. UNCHANGED <<stopper_pc, g_terminate_now>>
      BY <1>5
      DEF RefillerActs, RefillerStep, LockRefillQueue, RefillerExits, TakeRequest,
          WaitForRequest, RequestWaitReturns, ComputeNeed, RefillerCancelled,
          LoadSupply, StoreSupply, AccountRefill, NotifyPrinters, MainActs, MainStep,
          JoinReceiver, JoinPrinters, JoinRefiller, CancelCatcher, JoinCatcher,
          FinalLog, SpuriousReturn, SpuriousWakeup, shared, flags, vars
    <2> QED
      BY <2>1 DEF StopInv
  <1> QED
    BY <1>1, <1>2, <1>3, <1>4, <1>5 DEF Next, StopInv

LEMMA FlowInvStep == FlowInv /\ [Next]_vars => FlowInv'
  BY TypeInvStep, OrderStep, ServingStep, StopStepInv DEF FlowInv

-----------------------------------------------------------------------------
(* The refinement.                                                         *)

LEMMA FlowInit == Init => Flow!Init
  <1> SUFFICES ASSUME Init PROVE Flow!Init
    OBVIOUS
  <1>1. Decided = 0 /\ g_terminate_now = FALSE
    BY DEF Init, SharedInit, ReceiverInit, Decided
  <1>2. Ids(job_queue) = <<>>
    <2>1. job_queue \in Seq(Jobs) /\ Len(job_queue) = 0
      BY TypeInit DEF Init, SharedInit, TypeInv, TypeOK
    <2> QED
      BY <2>1, IdsType, EmptySeq
  <1>3. IdServed = [p \in Printers |-> 0]
    BY DEF Init, PrinterInit, IdServed, Serving, NoJob
  <1>4. Counted = [served |-> 0, dropped |-> 0, removed |-> 0]
    BY DEF Init, SharedInit, ReceiverInit, Counted, Dropped, StatsFields
  <1> QED
    BY <1>1, <1>2, <1>3, <1>4 DEF Flow!Init, Flow!NoId

(* A step that moves no job and changes no counter of jobs is none of      *)
(* JobFlow.                                                                *)
LEMMA FlowKept ==
  ASSUME UNCHANGED <<Decided, job_queue, IdServed, Counted, g_terminate_now>>
  PROVE  UNCHANGED Flow!flowVars
  <1>1. Ids(job_queue)' = Ids(job_queue)
    BY DEF Ids
  <1> QED
    BY <1>1 DEF Flow!flowVars

LEMMA CountedKept ==
  ASSUME UNCHANGED <<receiver_pc, stats>>
  PROVE  UNCHANGED Counted
  BY DEF Counted, Dropped

LEMMA FlowPrinter ==
  ASSUME FlowInv, NEW p \in Printers, PrinterActs(p)
  PROVE  [Flow!Next]_(Flow!flowVars)
  <1> USE DEF shared, flags, jobQueueVars, refillQueueVars, paperVars, receiverVars,
              Goto
  <1>0. UNCHANGED <<receiver_pc, job_id, Decided>>
    BY DEF PrinterActs, Decided
  <1>t. /\ printer_pc \in [Printers -> PrinterLabels]
        /\ job \in [Printers -> Jobs \union {NoJob}]
        /\ job_queue \in Seq(Jobs)
        /\ stats \in [StatsFields -> Int]
    BY DEF FlowInv, TypeInv, TypeOK
  <1>1. CASE TakeJob(p)
    <2>1. /\ job_queue # <<>> /\ job_queue' = Tail(job_queue)
          /\ job' = [job EXCEPT ![p] = Head(job_queue)]
          /\ printer_pc[p] = "look"
          /\ printer_pc' = [printer_pc EXCEPT ![p] = "print"]
          /\ UNCHANGED <<stats, g_terminate_now>>
      BY <1>1 DEF TakeJob, DequeueFront
    <2>2. /\ Ids(job_queue) # <<>>
          /\ Head(Ids(job_queue)) = Head(job_queue).id
          /\ Ids(job_queue)' = Tail(Ids(job_queue))
      <3>1. Ids(job_queue)' = Ids(Tail(job_queue))
        BY <2>1 DEF Ids
      <3> QED
        BY <1>t, <2>1, <3>1, IdsTail
    <2>3. IdServed[p] = 0
      BY <2>1 DEF IdServed, Serving, NoJob
    <2>4. IdServed' = [IdServed EXCEPT ![p] = Head(Ids(job_queue))]
      BY <1>t, <2>1, <2>2 DEF IdServed, Serving
    <2>5. Flow!Serve(p)
      BY <1>0, <2>1, <2>2, <2>3, <2>4, CountedKept DEF Flow!Serve, Flow!NoId
    <2> QED
      BY <2>5 DEF Flow!Next
  <1>2. CASE Depart(p)
    <2>1. /\ UNCHANGED <<job_queue, g_terminate_now>>
          /\ printer_pc[p] = "depart"
          /\ printer_pc' = [printer_pc EXCEPT ![p] = "read_arrived"]
          /\ job' = [job EXCEPT ![p] = NoJob]
          /\ stats' = [stats EXCEPT !.total_jobs_served = @ + 1]
      BY <1>2 DEF Depart, Bump
    <2>2. IdServed[p] # 0
      <3>1. job[p] \in Jobs /\ Serving(p)
        BY <2>1 DEF FlowInv, ServingInv, Serving
      <3>2. job[p].id # 0
        BY <3>1 DEF Jobs
      <3> QED
        BY <3>1, <3>2 DEF IdServed
    <2>3. IdServed' = [IdServed EXCEPT ![p] = 0]
      BY <1>t, <2>1 DEF IdServed, Serving, NoJob
    <2>4. Counted' = [Counted EXCEPT !.served = @ + 1]
      BY <1>0, <1>t, <2>1 DEF Counted, Dropped, StatsFields
    <2>5. Ids(job_queue)' = Ids(job_queue)
      BY <2>1 DEF Ids
    <2>6. Flow!Finish(p)
      BY <1>0, <2>1, <2>2, <2>3, <2>4, <2>5 DEF Flow!Finish, Flow!NoId
    <2> QED
      BY <2>6 DEF Flow!Next
  <1>3. CASE ~TakeJob(p) /\ ~Depart(p)
    <2>1. /\ UNCHANGED <<stats, job_queue, g_terminate_now>>
          /\ \A q \in Printers : Serving(q)' = Serving(q) /\ (Serving(q) => job'[q] = job[q])
      BY <1>3, <1>t
      DEF Serving, PrinterActs, PrinterStep, ReadTerminate, LeaveLoop, WaitForJob,
          FindShort, JobWaitReturns, RequestPaper, PaperWaitReturns, NotePaperEmpty,
          LoadPaper, StorePaper, ReadArrived, CheckExit, MarkServed, WakeAll,
          CancelRefiller
    <2>2. IdServed' = IdServed
      BY <2>1 DEF IdServed
    <2> QED
      BY <1>0, <2>1, <2>2, CountedKept, FlowKept
  <1> QED
    BY <1>1, <1>2, <1>3

LEMMA FlowReceiver ==
  ASSUME FlowInv, ReceiverActs
  PROVE  [Flow!Next]_(Flow!flowVars)
  <1> USE DEF shared, flags, jobQueueVars, refillQueueVars, paperVars, printerVars
  <1>0. IdServed' = IdServed
    BY DEF ReceiverActs, IdServed, Serving
  <1>t. /\ job_queue \in Seq(Jobs) /\ Len(job_queue) <= QueueCapacity
        /\ stats \in [StatsFields -> Int]
        /\ job_id \in Int
        /\ ReceiverInv
    BY DEF FlowInv, TypeInv, TypeOK
  <1>1. CASE Admit
    <2>1. /\ receiver_pc = "admit"
          /\ UNCHANGED <<job_id, g_terminate_now, stats>>
          /\ Decided = job_id /\ Decided < NumJobs
      BY <1>1, <1>t DEF Admit, Decided, ReceiverInv, ReceiverBusy
    <2>2. CASE QueueFull(job_queue)
      <3>1. receiver_pc' = "drop" /\ UNCHANGED job_queue
        BY <1>1, <2>2 DEF Admit
      <3>2. Decided' = Decided + 1
        BY <2>1, <3>1 DEF Decided
      <3>3. Len(Ids(job_queue)) = QueueCapacity /\ Ids(job_queue)' = Ids(job_queue)
        BY <1>t, <2>2, <3>1, IdsType, ParamsAssumption DEF QueueFull, Ids
      <3>4. Counted' = [Counted EXCEPT !.dropped = @ + 1]
        BY <1>t, <2>1, <3>1 DEF Counted, Dropped, StatsFields
      <3>5. Flow!Drop
        BY <1>0, <2>1, <3>2, <3>3, <3>4 DEF Flow!Drop, Flow!Arrival
      <3> QED
        BY <3>5 DEF Flow!Next
    <2>3. CASE ~QueueFull(job_queue)
      <3>1. receiver_pc' = "account" /\ job_queue' = Append(job_queue, in_hand)
        BY <1>1, <2>3 DEF Admit, Enqueue
      <3>2. Decided' = Decided + 1
        BY <2>1, <3>1 DEF Decided
      <3>3. in_hand \in Jobs /\ in_hand.id = Decided + 1
        BY <1>t, <2>1 DEF ReceiverInv, FlowInv, OrderInv
      <3>4. Ids(job_queue)' = Append(Ids(job_queue), Decided + 1)
        <4>1. Ids(job_queue)' = Ids(Append(job_queue, in_hand))
          BY <3>1 DEF Ids
        <4> QED
          BY <1>t, <3>3, <4>1, IdsAppend
      <3>5. Len(Ids(job_queue)) < QueueCapacity
        BY <1>t, <2>3, IdsType, ParamsAssumption DEF QueueFull
      <3>6. Counted' = Counted
        BY <2>1, <3>1 DEF Counted, Dropped
      <3>7. Flow!Admit
        BY <1>0, <2>1, <3>2, <3>4, <3>5, <3>6 DEF Flow!Admit, Flow!Arrival
      <3> QED
        BY <3>7 DEF Flow!Next
    <2> QED
      BY <2>2, <2>3
  <1>2. CASE DropJob
    <2>1. /\ UNCHANGED <<job_queue, g_terminate_now>>
          /\ Decided' = Decided
      BY <1>2, <1>t DEF DropJob, Decided
    <2>2. Counted' = Counted
      BY <1>2, <1>t DEF DropJob, DroppedStats, Counted, Dropped, StatsFields
    <2> QED
      BY <1>0, <2>1, <2>2, FlowKept
  <1>3. CASE AccountArrival
    <2>1. /\ UNCHANGED <<job_queue, g_terminate_now>>
          /\ Decided' = Decided
      BY <1>3, <1>t DEF AccountArrival, Decided
    <2>2. Counted' = Counted
      BY <1>3, <1>t DEF AccountArrival, ArrivalStats, Counted, Dropped, StatsFields
    <2> QED
      BY <1>0, <2>1, <2>2, FlowKept
  <1>4. CASE Arrive
    <2>1. /\ UNCHANGED <<job_queue, g_terminate_now>>
          /\ Decided' = Decided
      BY <1>4 DEF Arrive, Decided
    <2>2. Counted' = Counted
      BY <1>4, <1>t DEF Arrive, Bump, Counted, Dropped, StatsFields
    <2> QED
      BY <1>0, <2>1, <2>2, FlowKept
  <1>5. CASE ~Admit /\ ~DropJob /\ ~AccountArrival /\ ~Arrive
    <2>1. /\ UNCHANGED <<job_id, stats, job_queue, g_terminate_now>>
          /\ receiver_pc \notin {"account", "drop"} /\ receiver_pc' \notin {"account", "drop"}
      BY <1>5
      DEF ReceiverActs, ReceiverStep, CreateJob, ReceiverCancelled, ReceiverWakesUp,
          CheckTermination, FinishArrivals, LastBroadcast
    <2>2. UNCHANGED <<Decided, Counted>>
      BY <2>1 DEF Decided, Counted, Dropped
    <2> QED
      BY <1>0, <2>1, <2>2, FlowKept
  <1> QED
    BY <1>1, <1>2, <1>3, <1>4, <1>5

LEMMA FlowCatcher ==
  ASSUME FlowInv, CatcherActs
  PROVE  [Flow!Next]_(Flow!flowVars)
  <1> USE DEF shared, flags, jobQueueVars, refillQueueVars, paperVars, printerVars,
              receiverVars, StopperGoto
  <1>0. UNCHANGED <<receiver_pc, Decided, IdServed>>
    BY DEF CatcherActs, Decided, IdServed, Serving
  <1>t. job_queue \in Seq(Jobs) /\ stats \in [StatsFields -> Int]
    BY DEF FlowInv, TypeInv, TypeOK
  <1>1. CASE SetFlags
    <2>1. g_terminate_now' = TRUE /\ UNCHANGED <<job_queue, stats>>
      BY <1>1 DEF SetFlags
    <2>2. Ids(job_queue)' = Ids(job_queue)
      BY <2>1 DEF Ids
    <2>3. Flow!Stop
      BY <1>0, <2>1, <2>2, CountedKept DEF Flow!Stop
    <2> QED
      BY <2>3 DEF Flow!Next
  <1>2. CASE RemoveJob \/ KilledRemovingJob
    <2>1. /\ stopper_pc = "drain" /\ UNCHANGED g_terminate_now
          /\ job_queue # <<>> /\ job_queue' = Tail(job_queue)
      BY <1>2 DEF RemoveJob, KilledRemovingJob, DequeueFront
    <2>2. g_terminate_now
      BY <2>1 DEF FlowInv, StopInv
    <2>3. Ids(job_queue) # <<>> /\ Ids(job_queue)' = Tail(Ids(job_queue))
      <3>1. Ids(job_queue)' = Ids(Tail(job_queue))
        BY <2>1 DEF Ids
      <3> QED
        BY <1>t, <2>1, <3>1, IdsTail
    <2>4. \/ Counted' = [Counted EXCEPT !.removed = @ + 1]
          \/ Counted' = Counted
      <3>1. CASE RemoveJob
        BY <1>0, <1>t, <3>1 DEF RemoveJob, RemovedStats, Counted, Dropped, StatsFields
      <3>2. CASE KilledRemovingJob
        BY <1>0, <3>2, CountedKept DEF KilledRemovingJob
      <3> QED
        BY <1>2, <3>1, <3>2
    <2>5. Flow!Remove
      BY <1>0, <2>1, <2>2, <2>3, <2>4 DEF Flow!Remove
    <2> QED
      BY <2>5 DEF Flow!Next
  <1>3. CASE ~SetFlags /\ ~RemoveJob /\ ~KilledRemovingJob
    <2>1. UNCHANGED <<stats, job_queue, g_terminate_now>>
      BY <1>3
      DEF CatcherActs, CatcherStep, StopStep, LockStatsToEmit, EmitStopped,
          CancelReceiver, CancelRefillThread, LockJobQueue, LockStatsToDrain,
          EndRemoval, WakePrintersAndRefiller, CancelledInSigwait, KilledEmittingStop,
          KilledInDebugMessage
    <2> QED
      BY <1>0, <2>1, CountedKept, FlowKept
  <1> QED
    BY <1>1, <1>2, <1>3

LEMMA FlowStep == FlowInv /\ [Next]_vars => [Flow!Next]_(Flow!flowVars)
  <1> SUFFICES ASSUME FlowInv, [Next]_vars PROVE [Flow!Next]_(Flow!flowVars)
    OBVIOUS
  <1>1. CASE RefillerActs \/ SignalArrives \/ MainActs \/ SpuriousReturn \/ UNCHANGED vars
    <2> USE DEF shared, flags, jobQueueVars, refillQueueVars, paperVars, receiverVars,
                printerVars, vars
    <2>1. UNCHANGED <<receiver_pc, job_id, printer_pc, job>>
      BY <1>1 DEF RefillerActs, SignalArrives, MainActs, SpuriousReturn
    <2>2. UNCHANGED <<job_queue, g_terminate_now>>
      BY <1>1
      DEF RefillerActs, RefillerStep, LockRefillQueue, RefillerExits, TakeRequest,
          WaitForRequest, RequestWaitReturns, ComputeNeed, RefillerCancelled,
          LoadSupply, StoreSupply, AccountRefill, NotifyPrinters, SignalArrives,
          SigwaitReturns, MainActs, MainStep, JoinReceiver, JoinPrinters, JoinRefiller,
          CancelCatcher, JoinCatcher, FinalLog, SpuriousReturn, SpuriousWakeup
    <2>3. \A f \in StatsFields \ {"papers_refilled"} : stats'[f] = stats[f]
      BY <1>1
      DEF RefillerActs, RefillerStep, LockRefillQueue, RefillerExits, TakeRequest,
          WaitForRequest, RequestWaitReturns, ComputeNeed, RefillerCancelled,
          LoadSupply, StoreSupply, AccountRefill, NotifyPrinters, SignalArrives,
          SigwaitReturns, MainActs, MainStep, JoinReceiver, JoinPrinters, JoinRefiller,
          CancelCatcher, JoinCatcher, FinalLog, SpuriousReturn, SpuriousWakeup,
          FlowInv, TypeInv, TypeOK
    <2>4. UNCHANGED <<Decided, IdServed, Counted>>
      BY <2>1, <2>3 DEF Decided, IdServed, Serving, Counted, Dropped, StatsFields
    <2> QED
      BY <2>2, <2>4, FlowKept
  <1> QED
    BY <1>1, FlowPrinter, FlowReceiver, FlowCatcher DEF Next

(* Every behaviour of the program is one of JobFlow: a job is dropped only *)
(* when the queue is full, served from the front of it, settled once, and  *)
(* removed only after a stop.                                              *)
THEOREM FlowImplemented == Spec => ImplementsJobFlow
  <1>1. Init => FlowInv /\ Flow!Init
    BY FlowInvInit, FlowInit
  <1>2. FlowInv /\ [Next]_vars => FlowInv' /\ [Flow!Next]_(Flow!flowVars)
    BY FlowInvStep, FlowStep
  <1> QED
    BY <1>1, <1>2, PTL DEF Spec, ImplementsJobFlow, Flow!Spec
-----------------------------------------------------------------------------
(* What a stop leaves behind.  When it has emptied the queue, the receiver *)
(* is past its last check at most once; and without a stop no printer      *)
(* leaves before the jobs have run out.                                    *)

Leaving(p) == printer_pc[p] \in {"mark_served", "wake_all", "cancel_refiller", "exited"}

PrintersLeave ==
  \A p \in Printers :
    /\ printer_pc[p] = "look" /\ flag_read[p] => g_terminate_now
    /\ printer_pc[p] = "check_exit" /\ flag_read[p] => all_jobs_arrived
    /\ Leaving(p) /\ ~g_terminate_now => all_jobs_arrived /\ job_queue = <<>>

ArrivalsOver ==
  all_jobs_arrived /\ ~g_terminate_now => receiver_pc \in {"last_wake", "exited"}

Emptied ==
  stopper_pc \in {"wake", "exited"} /\ g_terminate_now =>
    /\ \A i \in 1..Len(job_queue) : job_queue[i].id = Admitted
    /\ job_queue # <<>> => receiver_pc \notin {"arrive", "admit", "drop"}

Joined ==
  /\ main_pc # "join_receiver" => receiver_pc = "exited"
  /\ main_pc \in {"final_log", "done"} =>
       stopper_pc \in {"exited", "killed", "cut_short"}
  /\ main_pc = "done" => stopper_pc # "killed"
  /\ stopper_pc \in {"idle", "set_flags"} => ~g_terminate_now

LeftInv == PrintersLeave /\ ArrivalsOver /\ Emptied /\ Joined

LEMMA LeftInit == Init => LeftInv
  BY DEF Init, SharedInit, ReceiverInit, PrinterInit, StopperInit, LeftInv, PrintersLeave,
     Leaving, ArrivalsOver, Emptied, Joined

LEMMA LeftPrinter ==
  ASSUME TypeInv, LeftInv, NEW p \in Printers, PrinterActs(p)
  PROVE  LeftInv'
  <1> USE DEF shared, flags, jobQueueVars, refillQueueVars, paperVars, receiverVars, Goto
  <1>t. /\ printer_pc \in [Printers -> PrinterLabels] /\ flag_read \in [Printers -> BOOLEAN]
        /\ job_queue \in Seq(Jobs)
    BY DEF TypeInv, TypeOK
  <1>1. UNCHANGED <<receiver_pc, job_id, stopper_pc, main_pc, g_terminate_now,
                    all_jobs_arrived>>
    BY DEF PrinterActs, PrinterStep, ReadTerminate, LeaveLoop, WaitForJob, FindShort,
       TakeJob, JobWaitReturns, RequestPaper, PaperWaitReturns, NotePaperEmpty, LoadPaper,
       StorePaper, Depart, ReadArrived, CheckExit, MarkServed, WakeAll, CancelRefiller
  <1>2. job_queue' = job_queue \/ (job_queue # <<>> /\ job_queue' = Tail(job_queue))
    BY DEF PrinterActs, PrinterStep, ReadTerminate, LeaveLoop, WaitForJob, FindShort,
       TakeJob, JobWaitReturns, RequestPaper, PaperWaitReturns, NotePaperEmpty, LoadPaper,
       StorePaper, Depart, ReadArrived, CheckExit, MarkServed, WakeAll, CancelRefiller,
       DequeueFront
  <1>3. ArrivalsOver' /\ Joined'
    BY <1>1 DEF LeftInv, ArrivalsOver, Joined
  <1>4. Emptied'
    <2>1. Admitted' = Admitted
      BY <1>1 DEF Admitted
    <2>2. CASE job_queue' = job_queue
      BY <1>1, <2>1, <2>2 DEF LeftInv, Emptied
    <2>3. CASE job_queue # <<>> /\ job_queue' = Tail(job_queue)
      <3>1. /\ Len(job_queue') = Len(job_queue) - 1 /\ Len(job_queue) \in Nat
            /\ \A i \in 1..Len(job_queue') : job_queue'[i] = job_queue[i + 1]
        BY <1>t, <2>3
      <3>2. \A i \in 1..Len(job_queue') : i + 1 \in 1..Len(job_queue)
        BY <3>1
      <3> QED
        BY <1>1, <2>1, <2>3, <3>1, <3>2 DEF LeftInv, Emptied
    <2> QED
      BY <1>2, <2>2, <2>3
  <1>5. PrintersLeave'
    <2>1. ASSUME NEW q \in Printers, q # p
          PROVE  printer_pc'[q] = printer_pc[q] /\ flag_read'[q] = flag_read[q]
      BY <1>t, <2>1
      DEF PrinterActs, PrinterStep, ReadTerminate, LeaveLoop, WaitForJob, FindShort,
          TakeJob, JobWaitReturns, RequestPaper, PaperWaitReturns, NotePaperEmpty,
          LoadPaper, StorePaper, Depart, ReadArrived, CheckExit, MarkServed, WakeAll,
          CancelRefiller
    <2>2. job_queue = <<>> => job_queue' = <<>>
      BY <1>2
    <2>3. /\ printer_pc'[p] = "look" => flag_read'[p] = g_terminate_now
          /\ printer_pc'[p] = "check_exit" => flag_read'[p] = all_jobs_arrived
          /\ Leaving(p)' /\ ~Leaving(p) =>
               /\ job_queue' = job_queue
               /\ \/ printer_pc[p] = "look"
                     /\ (flag_read[p] \/ (all_jobs_arrived /\ job_queue = <<>>))
                  \/ printer_pc[p] = "check_exit" /\ flag_read[p] /\ job_queue = <<>>
      BY <1>t
      DEF PrinterActs, PrinterStep, ReadTerminate, LeaveLoop, WaitForJob, FindShort,
          TakeJob, JobWaitReturns, RequestPaper, PaperWaitReturns, NotePaperEmpty,
          LoadPaper, StorePaper, Depart, ReadArrived, CheckExit, MarkServed, WakeAll,
          CancelRefiller, Leaving, MustLeave, IsExitConditionMet
    <2>4. ASSUME NEW q \in Printers, q # p
          PROVE  /\ printer_pc'[q] = "look" /\ flag_read'[q] => g_terminate_now
                 /\ printer_pc'[q] = "check_exit" /\ flag_read'[q] => all_jobs_arrived
                 /\ Leaving(q)' /\ ~g_terminate_now => all_jobs_arrived /\ job_queue' = <<>>
      BY <2>1, <2>2, <2>4 DEF LeftInv, PrintersLeave, Leaving
    <2>5. /\ printer_pc'[p] = "look" /\ flag_read'[p] => g_terminate_now
          /\ printer_pc'[p] = "check_exit" /\ flag_read'[p] => all_jobs_arrived
          /\ Leaving(p)' /\ ~g_terminate_now => all_jobs_arrived /\ job_queue' = <<>>
      BY <2>2, <2>3 DEF LeftInv, PrintersLeave
    <2> QED
      BY <1>1, <2>4, <2>5 DEF PrintersLeave
  <1> QED
    BY <1>3, <1>4, <1>5 DEF LeftInv

LEMMA LeftReceiver ==
  ASSUME TypeInv, OrderInv, LeftInv, ReceiverActs
  PROVE  LeftInv'
  <1> USE DEF shared, flags, jobQueueVars, refillQueueVars, paperVars, printerVars
  <1>t. job_queue \in Seq(Jobs) /\ job_id \in Int /\ QueueCapacity \in Nat \ {0}
    BY OrderTypes, ParamsAssumption
  <1>0. UNCHANGED <<printer_pc, flag_read, stopper_pc, main_pc>>
    BY DEF ReceiverActs
  <1>u. g_terminate_now' = g_terminate_now /\ (all_jobs_arrived => all_jobs_arrived')
    BY DEF ReceiverActs, ReceiverStep, CreateJob, ReceiverCancelled, ReceiverWakesUp,
       CheckTermination, Arrive, Admit, DropJob, AccountArrival, FinishArrivals,
       LastBroadcast
  <1>1. CASE Admit /\ ~QueueFull(job_queue)
    <2>1. /\ job_queue' = Append(job_queue, in_hand) /\ all_jobs_arrived' = all_jobs_arrived
          /\ receiver_pc = "admit" /\ receiver_pc' = "account" /\ UNCHANGED job_id
      BY <1>1 DEF Admit, Enqueue
    <2>2. all_jobs_arrived => g_terminate_now
      BY <2>1 DEF LeftInv, ArrivalsOver
    <2>3. PrintersLeave'
      BY <1>0, <1>u, <2>1, <2>2 DEF LeftInv, PrintersLeave, Leaving
    <2>4. ArrivalsOver' /\ Joined'
      BY <1>0, <1>u, <2>1, <2>2 DEF LeftInv, ArrivalsOver, Joined
    <2>5. Emptied'
      <3> SUFFICES ASSUME stopper_pc \in {"wake", "exited"}, g_terminate_now
                   PROVE  \A i \in 1..Len(job_queue') : job_queue'[i].id = Admitted'
        BY <1>0, <1>u, <2>1 DEF Emptied
      <3>1. job_queue = <<>>
        BY <2>1 DEF LeftInv, Emptied
      <3>2. Len(job_queue') = 1 /\ job_queue'[1] = in_hand
        BY <2>1, <3>1
      <3>3. in_hand.id = job_id + 1 /\ Admitted' = job_id + 1
        BY <2>1, <1>t DEF OrderInv, Admitted
      <3> QED
        BY <3>2, <3>3
    <2> QED
      BY <2>3, <2>4, <2>5 DEF LeftInv
  <1>2. CASE ~(Admit /\ ~QueueFull(job_queue))
    <2>1. UNCHANGED job_queue
      BY <1>2
      DEF ReceiverActs, ReceiverStep, CreateJob, ReceiverCancelled, ReceiverWakesUp,
          CheckTermination, Arrive, Admit, DropJob, AccountArrival, FinishArrivals,
          LastBroadcast
    <2>2. /\ all_jobs_arrived' /\ ~g_terminate_now =>
               receiver_pc' \in {"last_wake", "exited"}
          /\ receiver_pc = "exited" => receiver_pc' = "exited"
      BY <1>2
      DEF ReceiverActs, ReceiverStep, CreateJob, ReceiverCancelled, ReceiverWakesUp,
          CheckTermination, Arrive, Admit, DropJob, AccountArrival, FinishArrivals,
          LastBroadcast, LeftInv, ArrivalsOver
    <2>3. PrintersLeave' /\ ArrivalsOver' /\ Joined'
      BY <1>0, <1>u, <2>1, <2>2 DEF LeftInv, PrintersLeave, Leaving, ArrivalsOver, Joined
    <2>4. Emptied'
      <3> SUFFICES ASSUME stopper_pc \in {"wake", "exited"}, g_terminate_now,
                          job_queue # <<>>
                   PROVE  /\ \A i \in 1..Len(job_queue) : job_queue[i].id = Admitted'
                          /\ receiver_pc' \notin {"arrive", "admit", "drop"}
        BY <1>0, <1>u, <1>t, <2>1 DEF Emptied
      <3>1. /\ \A i \in 1..Len(job_queue) : job_queue[i].id = Admitted
            /\ receiver_pc \notin {"arrive", "admit", "drop"}
        BY DEF LeftInv, Emptied
      <3>2. receiver_pc # "check" \/ receiver_pc' = "finish"
        BY <1>2 DEF ReceiverActs, ReceiverStep, CreateJob, ReceiverCancelled,
           ReceiverWakesUp, CheckTermination, Arrive, Admit, DropJob, AccountArrival,
           FinishArrivals, LastBroadcast
      <3>3. receiver_pc' \notin {"arrive", "admit", "drop"}
        BY <1>2, <3>1, <3>2
        DEF ReceiverActs, ReceiverStep, CreateJob, ReceiverCancelled, ReceiverWakesUp,
            CheckTermination, Arrive, Admit, DropJob, AccountArrival, FinishArrivals,
            LastBroadcast
      <3>4. \/ receiver_pc = "account" /\ receiver_pc' = "loop" /\ job_id' = job_id + 1
            \/ receiver_pc # "account" /\ receiver_pc' # "account" /\ job_id' = job_id
        BY <1>2, <3>1, <3>2
        DEF ReceiverActs, ReceiverStep, CreateJob, ReceiverCancelled, ReceiverWakesUp,
            CheckTermination, Arrive, Admit, DropJob, AccountArrival, FinishArrivals,
            LastBroadcast
      <3>5. Admitted' = Admitted
        BY <1>t, <3>4 DEF Admitted
      <3> QED
        BY <3>1, <3>3, <3>5
    <2> QED
      BY <2>3, <2>4 DEF LeftInv
  <1> QED
    BY <1>1, <1>2

LEMMA LeftCatcher ==
  ASSUME TypeInv, LeftInv, JoinInv, CatcherActs
  PROVE  LeftInv'
  <1> USE DEF shared, flags, jobQueueVars, refillQueueVars, paperVars, printerVars,
              receiverVars, StopperGoto
  <1>0. UNCHANGED <<printer_pc, flag_read, receiver_pc, job_id, main_pc>>
    BY DEF CatcherActs
  <1>t. job_queue \in Seq(Jobs) /\ g_terminate_now \in BOOLEAN
    BY DEF TypeInv, TypeOK
  <1>1. /\ stopper_pc \notin {"exited", "killed", "cut_short"}
        /\ stopper_pc' \notin {"idle", "set_flags"}
        /\ \/ /\ UNCHANGED <<g_terminate_now, all_jobs_arrived>>
              /\ stopper_pc \notin {"set_flags"}
           \/ g_terminate_now' /\ all_jobs_arrived' /\ stopper_pc' = "emit"
    BY DEF CatcherActs, CatcherStep, StopStep, SetFlags, LockStatsToEmit, EmitStopped,
       CancelReceiver, CancelRefillThread, LockJobQueue, LockStatsToDrain, RemoveJob,
       EndRemoval, WakePrintersAndRefiller, CancelledInSigwait, KilledEmittingStop,
       KilledInDebugMessage, KilledRemovingJob
  <1>2. job_queue = <<>> => job_queue' = <<>>
    BY DEF CatcherActs, CatcherStep, StopStep, SetFlags, LockStatsToEmit, EmitStopped,
       CancelReceiver, CancelRefillThread, LockJobQueue, LockStatsToDrain, RemoveJob,
       EndRemoval, WakePrintersAndRefiller, CancelledInSigwait, KilledEmittingStop,
       KilledInDebugMessage, KilledRemovingJob
  <1>3. PrintersLeave'
    BY <1>0, <1>1, <1>2 DEF LeftInv, PrintersLeave, Leaving
  <1>4. ArrivalsOver' /\ Joined'
    BY <1>0, <1>1 DEF LeftInv, ArrivalsOver, Joined
  <1>5. Emptied'
    <2>1. ASSUME stopper_pc' \in {"wake", "exited"}
          PROVE  \/ EndRemoval \/ WakePrintersAndRefiller \/ CancelledInSigwait
      BY <2>1
      DEF CatcherActs, CatcherStep, StopStep, SetFlags, LockStatsToEmit, EmitStopped,
          CancelReceiver, CancelRefillThread, LockJobQueue, LockStatsToDrain, RemoveJob,
          EndRemoval, WakePrintersAndRefiller, CancelledInSigwait, KilledEmittingStop,
          KilledInDebugMessage, KilledRemovingJob
    <2>2. CASE EndRemoval
      <3>1. job_queue' = <<>>
        BY <2>2 DEF EndRemoval, RemovalDone
      <3> QED
        BY <3>1 DEF Emptied
    <2>3. CASE WakePrintersAndRefiller
      <3>1. Admitted' = Admitted
        BY <1>0 DEF Admitted
      <3> QED
        BY <1>0, <2>3, <3>1 DEF WakePrintersAndRefiller, LeftInv, Emptied
    <2>4. CASE CancelledInSigwait
      <3>1. ~g_terminate_now'
        BY <2>4 DEF CancelledInSigwait, LeftInv, Joined
      <3> QED
        BY <3>1 DEF Emptied
    <2> QED
      BY <2>1, <2>2, <2>3, <2>4 DEF Emptied
  <1> QED
    BY <1>3, <1>4, <1>5 DEF LeftInv

LEMMA LeftRest ==
  ASSUME LeftInv,
         RefillerActs \/ SignalArrives \/ MainActs \/ SpuriousReturn \/ UNCHANGED vars
  PROVE  LeftInv'
  <1>1. /\ UNCHANGED <<printer_pc, flag_read, receiver_pc, job_id, job_queue,
                       g_terminate_now, all_jobs_arrived>>
        /\ \/ UNCHANGED stopper_pc
           \/ stopper_pc = "idle" /\ stopper_pc' = "set_flags"
        /\ \/ UNCHANGED main_pc
           \/ /\ stopper_pc' = stopper_pc
              /\ main_pc = "join_receiver" => receiver_pc = "exited"
              /\ main_pc' \in {"final_log", "done"} =>
                   stopper_pc \in {"exited", "killed", "cut_short"}
              /\ main_pc' = "done" => stopper_pc # "killed"
              /\ main_pc' # "join_receiver"
    BY DEF shared, flags, jobQueueVars, refillQueueVars, paperVars, printerVars,
       receiverVars, vars, RefillerActs, RefillerStep, LockRefillQueue,
       RefillerExits, TakeRequest, WaitForRequest, RequestWaitReturns, ComputeNeed,
       RefillerCancelled, LoadSupply, StoreSupply, AccountRefill, NotifyPrinters,
       SignalArrives, SigwaitReturns, StopperGoto, MainActs, MainStep, JoinReceiver,
       JoinPrinters, JoinRefiller, CancelCatcher, JoinCatcher, FinalLog, MainGoto,
       SpuriousReturn, SpuriousWakeup, StdoutLocked, LeftInv, Joined
  <1>2. Admitted' = Admitted
    BY <1>1 DEF Admitted
  <1> QED
    BY <1>1, <1>2 DEF LeftInv, PrintersLeave, Leaving, ArrivalsOver, Emptied, Joined

LEMMA LeftStep == TypeInv /\ OrderInv /\ JoinInv /\ LeftInv /\ [Next]_vars => LeftInv'
  BY LeftPrinter, LeftReceiver, LeftCatcher, LeftRest DEF Next

(* A stop leaves at most one job in the queue: the one the receiver had let*)
(* past its termination check before the stop.  Without a stop none is left*)
(* when main is done.  With -debug this leaves out a catcher that main     *)
(* cancels in one of the two messages before it empties the queue.         *)
THEOREM AtMostOneLeft == Spec => []LeftByStop
  <1>1. Init => TypeInv /\ OrderInv /\ WakeInv /\ LeftInv
    BY TypeInit, OrderInit, WakeInit, LeftInit
  <1>2. /\ TypeInv /\ OrderInv /\ WakeInv /\ LeftInv /\ [Next]_vars
        => (TypeInv /\ OrderInv /\ WakeInv /\ LeftInv)'
    BY TypeInvStep, OrderStep, WakeStep, LeftStep DEF WakeInv
  <1>3. TypeInv /\ OrderInv /\ WakeInv /\ LeftInv => LeftByStop
    <2> SUFFICES ASSUME TypeInv, OrderInv, WakeInv, LeftInv, main_pc = "done",
                        stopper_pc # "cut_short"
                 PROVE  /\ Len(job_queue) <= IF g_terminate_now THEN 1 ELSE 0
                        /\ \A i \in 1..Len(job_queue) : job_queue[i].id = job_id
      BY DEF LeftByStop
    <2>1. receiver_pc = "exited" /\ stopper_pc = "exited"
      BY DEF LeftInv, Joined
    <2>2. Admitted = job_id
      BY <2>1, OrderTypes DEF Admitted
    <2>3. \A p \in Printers : printer_pc[p] = "exited"
      BY DEF WakeInv, JoinInv, PastPrinters
    <2>4. CASE g_terminate_now
      <3>1. \A i \in 1..Len(job_queue) : job_queue[i].id = job_id
        BY <2>1, <2>2, <2>4 DEF LeftInv, Emptied
      <3>2. \A i, j \in 1..Len(job_queue) : i < j => job_queue[i].id < job_queue[j].id
        BY DEF OrderInv, ServiceInOrder
      <3>3. Len(job_queue) \in Nat
        BY OrderTypes
      <3>4. ~(Len(job_queue) >= 2)
        <4> SUFFICES ASSUME Len(job_queue) >= 2 PROVE FALSE
          OBVIOUS
        <4>1. 1 \in 1..Len(job_queue) /\ 2 \in 1..Len(job_queue)
          BY <3>3
        <4>2. job_queue[1].id < job_queue[2].id
          BY <3>2, <4>1
        <4> QED
          BY <3>1, <4>1, <4>2, OrderTypes
      <3> QED
        BY <2>4, <3>1, <3>3, <3>4
    <2>5. CASE ~g_terminate_now
      <3>1. job_queue = <<>>
        BY <2>3, <2>5, PrintersAssumption DEF LeftInv, PrintersLeave, Leaving
      <3> QED
        BY <2>5, <3>1
    <2> QED
      BY <2>4, <2>5
  <1> QED
    BY <1>1, <1>2, <1>3, PTL DEF Spec

=============================================================================
