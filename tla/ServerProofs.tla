----------------------------- MODULE ServerProofs ----------------------------
(***************************************************************************)
(* Theorems about Server, for any number of simulations and stops: one     *)
(* simulation runs at a time, the counters balance across simulations, a   *)
(* printer cancels a refiller that is there, requests left over from an    *)
(* earlier simulation are never served, and no wakeup for a job is lost.   *)
(***************************************************************************)
EXTENDS Server, SimulationProofs

TypeInv == TypeOK /\ ReceiverInv

USE DEF SharedTypeOK, ReceiverTypeOK, PrinterTypeOK, RefillerTypeOK,
        StopperTypeOK, ServerTypeOK, JoinReceiver, JoinPrinters, JoinRefiller

LEMMA TypedThreads == TypeInv <=> ThreadsTyped /\ ServerTypeOK
  BY DEF TypeInv, TypeOK, ThreadsTyped

LEMMA TypeInit == Init => TypeInv
  <1> SUFFICES ASSUME Init PROVE TypeInv
    OBVIOUS
  <1> USE ParamsAssumption DEF Init
  <1>1. SharedTypeOK /\ Len(job_queue) <= QueueCapacity
    BY SharedInitTyped
  <1>2. ReceiverTypeOK /\ ReceiverInv
    BY DEF ReceiverInv, ReceiverBusy, ReceiverLabels
  <1>3. PrinterTypeOK /\ RefillerTypeOK
    BY DEF PrinterLabels, RefillerLabels
  <1>4. StopperTypeOK
    BY DEF StopperInit, StopperLabels
  <1>5. ServerTypeOK
    <2>1. starts \in 0..MaxStarts /\ stops \in 0..MaxStops
      BY BoundsAssumption
    <2>2. /\ runner_pc \in RunnerLabels
          /\ is_running \in BOOLEAN /\ crashed \in BOOLEAN
          /\ joinable \subseteq {Receiver, Refiller}
      BY Zenon DEF RunnerLabels
    <2> QED
      BY <2>1, <2>2
  <1> QED
    BY <1>1, <1>2, <1>3, <1>4, <1>5 DEF TypeInv, TypeOK

LEMMA TypeRunner ==
  ASSUME TypeInv, RunnerStep
  PROVE  TypeInv'
  <1> USE ParamsAssumption
  <1> USE DEF ReceiverInv, ReceiverBusy, ReceiverLabels, RefillerLabels,
              PrinterLabels, RunnerGoto, shared, flags, jobQueueVars,
              refillQueueVars, paperVars, receiverVars, printerVars, refillerVars
  <1>0. UNCHANGED stopper_pc
    BY DEF RunnerStep
  <1>t. ThreadsTyped /\ ServerTypeOK
    BY TypedThreads
  <1>1. ServerTypeOK'
    BY <1>t DEF RunnerStep, CreateReceiver, CreateRefiller, CreatePrinters, JoinThreads,
                ClearRunning, RunnerLabels
  <1>2. CASE CreateReceiver
    BY <1>0, <1>t, <1>1, <1>2 DEF CreateReceiver, ThreadsTyped, TypeInv, TypeOK
  <1>3. CASE CreateRefiller
    BY <1>0, <1>t, <1>1, <1>3 DEF CreateRefiller, ThreadsTyped, TypeInv, TypeOK
  <1>4. CASE CreatePrinters
    BY <1>0, <1>t, <1>1, <1>4 DEF CreatePrinters, ThreadsTyped, TypeInv, TypeOK
  <1>5. CASE JoinThreads \/ ClearRunning
    BY <1>0, <1>t, <1>1, <1>5, SMTT(30) DEF JoinThreads, ClearRunning, ThreadsTyped, TypeInv, TypeOK
  <1> QED
    BY <1>2, <1>3, <1>4, <1>5 DEF RunnerStep

LEMMA TypeMessages ==
  ASSUME TypeInv, CancelCrashes \/ StopReplied \/ Messages
  PROVE  TypeInv'
  <1>t. ThreadsTyped /\ ServerTypeOK
    BY TypedThreads
  <1>1. /\ UNCHANGED <<shared, receiverVars, printerVars, refillerVars>>
        /\ stopper_pc' \in StopperLabels
    BY <1>t DEF CancelCrashes, StopReplied, Messages, StartSimulation, StopRequested,
                StopperGoto, StopperLabels, ThreadsTyped
  <1>2. ServerTypeOK'
    <2>1. CASE StartSimulation
      BY <1>t, <2>1, BoundsAssumption DEF StartSimulation, RunnerLabels
    <2>2. CASE StopRequested
      BY <1>t, <2>2, BoundsAssumption DEF StopRequested
    <2>3. CASE CancelCrashes \/ StopReplied
      BY <1>t, <2>3 DEF CancelCrashes, StopReplied, serverVars
    <2> QED
      BY <2>1, <2>2, <2>3 DEF Messages
  <1> QED
    BY <1>t, <1>1, <1>2
    DEF TypeInv, TypeOK, ThreadsTyped, ReceiverInv, ReceiverBusy, shared, flags,
        jobQueueVars, refillQueueVars, paperVars, receiverVars, printerVars, refillerVars

LEMMA TypeInvStep == TypeInv /\ [Next]_vars => TypeInv'
  <1> SUFFICES ASSUME TypeInv, [Next]_vars PROVE TypeInv'
    OBVIOUS
  <1>1. CASE UNCHANGED vars
    BY <1>1 DEF vars, shared, flags, jobQueueVars, refillQueueVars, paperVars,
       receiverVars, printerVars, refillerVars, serverVars, TypeInv, TypeOK,
       ReceiverInv, ReceiverBusy
  <1>2. CASE ReceiverActs \/ (\E p \in Printers : PrinterActs(p)) \/ RefillerActs \/ StopActs
    <2>1. ThreadsTyped'
      BY <1>2, TypedThreads, TypeReceiver, TypePrinter, TypeRefiller, TypeStop
      DEF ReceiverActs, PrinterActs, RefillerActs, StopActs
    <2>2. UNCHANGED serverVars
      BY <1>2 DEF ReceiverActs, PrinterActs, RefillerActs, StopActs
    <2>3. ServerTypeOK'
      BY <2>2 DEF serverVars, TypeInv, TypeOK
    <2> QED
      BY <2>1, <2>3 DEF TypeInv, TypeOK, ThreadsTyped
  <1> QED
    BY <1>1, <1>2, TypeRunner, TypeMessages DEF Next, ThreadActs, LoopActs

(* Every variable keeps its type, and the job queue stays within           *)
(* queue_capacity however many simulations and stops there are.            *)
THEOREM ServerTypeCorrect == Spec => []TypeOK
  <1>1. TypeInv => TypeOK
    BY DEF TypeInv
  <1> QED
    BY <1>1, TypeInit, TypeInvStep, PTL DEF Spec

-----------------------------------------------------------------------------
(* Creation and joining.  What the runner has joined has ended, and what it*)
(* has still to create has ended or never was.                             *)
LifeInv ==
  /\ OneSimulation
  /\ runner_pc \in {"join_printers", "join_refiller", "clear_running"} => Gone(receiver_pc)
  /\ runner_pc \in {"join_refiller", "clear_running"} => \A p \in Printers : Gone(printer_pc[p])
  /\ runner_pc = "clear_running" => Gone(refiller_pc)

LEMMA LifeInit == Init => LifeInv
  BY DEF Init, LifeInv, OneSimulation, Gone

(* A thread that is gone takes no step, and no thread creates another.     *)
LEMMA GoneStays ==
  ASSUME TypeInv,
         \/ ReceiverActs
         \/ \E p \in Printers : PrinterActs(p)
         \/ RefillerActs
  PROVE  /\ Gone(receiver_pc) => Gone(receiver_pc')
         /\ Gone(refiller_pc) => Gone(refiller_pc')
         /\ \A p \in Printers : Gone(printer_pc[p]) => Gone(printer_pc'[p])
         /\ UNCHANGED serverVars
  <1>1. CASE ReceiverActs
    BY <1>1
    DEF ReceiverActs, ReceiverStep, CreateJob, ReceiverCancelled, ReceiverWakesUp,
        CheckTermination, Arrive, Admit, DropJob, AccountArrival, FinishArrivals,
        LastBroadcast, Gone, printerVars, refillerVars
  <1>2. CASE RefillerActs
    BY <1>2
    DEF RefillerActs, RefillerStep, LockRefillQueue, RefillerExits, TakeRequest,
        WaitForRequest, RequestWaitReturns, ComputeNeed, RefillerCancelled,
        LoadSupply, StoreSupply, AccountRefill, NotifyPrinters, Gone, printerVars,
        receiverVars
  <1>3. ASSUME NEW p \in Printers, PrinterActs(p)
        PROVE  /\ \A q \in Printers : Gone(printer_pc[q]) => Gone(printer_pc'[q])
               /\ UNCHANGED <<receiver_pc, refiller_pc, serverVars>>
    <2>1. /\ ~Gone(printer_pc[p])
          /\ \A q \in Printers \ {p} : printer_pc'[q] = printer_pc[q]
      BY <1>3
      DEF PrinterActs, PrinterStep, ReadTerminate, LeaveLoop, WaitForJob, FindShort,
          TakeJob, JobWaitReturns, RequestPaper, PaperWaitReturns, NotePaperEmpty,
          LoadPaper, StorePaper, Depart, ReadArrived, CheckExit, MarkServed, WakeAll,
          CancelRefiller, Goto, Gone, TypeInv, TypeOK
    <2> QED
      BY <1>3, <2>1 DEF PrinterActs, receiverVars, refillerVars
  <1> QED
    BY <1>1, <1>2, <1>3

LEMMA LifeStep == TypeInv /\ LifeInv /\ [Next]_vars => LifeInv'
  <1> SUFFICES ASSUME TypeInv, LifeInv, [Next]_vars PROVE LifeInv'
    OBVIOUS
  <1>1. CASE ReceiverActs \/ (\E p \in Printers : PrinterActs(p)) \/ RefillerActs
    BY <1>1, GoneStays DEF LifeInv, OneSimulation, serverVars
  <1>2. CASE RunnerStep
    <2> USE DEF receiverVars, printerVars, refillerVars, RunnerGoto, Gone
    <2>1. CASE CreateReceiver
      BY <2>1 DEF CreateReceiver, LifeInv, OneSimulation
    <2>2. CASE CreateRefiller
      BY <2>2 DEF CreateRefiller, LifeInv, OneSimulation
    <2>3. CASE CreatePrinters
      BY <2>3 DEF CreatePrinters, LifeInv, OneSimulation
    <2>4. CASE JoinThreads
      BY <2>4 DEF JoinThreads, LifeInv, OneSimulation
    <2>5. CASE ClearRunning
      BY <2>5 DEF ClearRunning, LifeInv, OneSimulation
    <2> QED
      BY <1>2, <2>1, <2>2, <2>3, <2>4, <2>5 DEF RunnerStep
  <1>3. CASE LoopActs \/ Messages \/ UNCHANGED vars
    <2>1. /\ UNCHANGED <<receiver_pc, printer_pc, refiller_pc>>
          /\ \/ UNCHANGED <<runner_pc, is_running>>
             \/ ~is_running /\ is_running' = TRUE /\ runner_pc' = "create_receiver"
      BY <1>3 DEF LoopActs, StopActs, CancelCrashes, StopReplied, Messages,
         StartSimulation, MayStart, StopRequested, vars, receiverVars, printerVars,
         refillerVars, serverVars
    <2> QED
      BY <2>1 DEF LifeInv, OneSimulation
  <1> QED
    BY <1>1, <1>2, <1>3 DEF Next, ThreadActs

(* No thread of one simulation is alive when the next one is created.      *)
THEOREM SimulationsOneByOne == Spec => []OneSimulation
  <1>1. Init => TypeInv /\ LifeInv
    BY TypeInit, LifeInit
  <1>2. TypeInv /\ LifeInv /\ [Next]_vars => (TypeInv /\ LifeInv)'
    BY TypeInvStep, LifeStep
  <1>3. LifeInv => OneSimulation
    BY DEF LifeInv
  <1> QED
    BY <1>1, <1>2, <1>3, PTL DEF Spec

(* The refiller can be joined from its creation until its join.            *)
JoinableInv ==
  Refiller \in joinable <=> runner_pc \in {"create_printers", "join_receiver",
                                          "join_printers", "join_refiller"}

LEMMA JoinableInit == Init => JoinableInv
  BY DEF Init, JoinableInv

LEMMA JoinableStep == LifeInv /\ JoinableInv /\ [Next]_vars => JoinableInv'
  <1> SUFFICES ASSUME LifeInv, JoinableInv, [Next]_vars PROVE JoinableInv'
    OBVIOUS
  <1>1. CASE RunnerStep
    BY <1>1
    DEF RunnerStep, CreateReceiver, CreateRefiller, CreatePrinters, JoinThreads,
        ClearRunning, RunnerGoto, JoinableInv, Receiver, Refiller
  <1>2. CASE StartSimulation
    BY <1>2 DEF StartSimulation, MayStart, LifeInv, OneSimulation, JoinableInv
  <1>3. CASE ~RunnerStep /\ ~StartSimulation
    <2>1. UNCHANGED <<runner_pc, joinable>>
      BY <1>3
      DEF Next, ThreadActs, Messages, ReceiverActs, PrinterActs, RefillerActs, LoopActs,
          StopActs, CancelCrashes, StopReplied, StopRequested, serverVars, vars
    <2> QED
      BY <2>1 DEF JoinableInv
  <1> QED
    BY <1>1, <1>2, <1>3

(* The refiller that a printer cancels on its way out was created before   *)
(* that printer and has not been joined.                                   *)
THEOREM PrintersCancelRefiller == Spec => []RefillerThereToCancel
  <1>1. Init => TypeInv /\ LifeInv /\ JoinableInv
    BY TypeInit, LifeInit, JoinableInit
  <1>2. TypeInv /\ LifeInv /\ JoinableInv /\ [Next]_vars
          => (TypeInv /\ LifeInv /\ JoinableInv)'
    BY TypeInvStep, LifeStep, JoinableStep
  <1>3. TypeInv /\ LifeInv /\ JoinableInv => RefillerThereToCancel
    BY DEF RefillerThereToCancel, JoinableInv, LifeInv, OneSimulation, Gone, TypeInv,
           TypeOK, RunnerLabels
  <1> QED
    BY <1>1, <1>2, <1>3, PTL DEF Spec

-----------------------------------------------------------------------------
(* Requests left over.  The refiller of a simulation ends only once a flag *)
(* tells it to, and no flag is ever reset.                                 *)
StopFlagged  == stopper_pc \notin {"idle", "set_flags", "killed"} => g_terminate_now
ServedMarked == \A p \in Printers :
                  printer_pc[p] \in {"wake_all", "cancel_refiller"} => all_jobs_served

FlagsInv ==
  /\ StopFlagged
  /\ ServedMarked
  /\ Refiller \in cancel_requested => RefillerMustExit
  /\ refiller_pc = "exited" => RefillerMustExit
  /\ runner_pc \in {"create_printers", "join_receiver", "join_printers", "join_refiller"} =>
       refiller_pc # "off"
  /\ starts > 0 /\ runner_pc \in {"off", "clear_running"} => RefillerMustExit
  /\ starts > 1 => RefillerMustExit

LEMMA FlagsInit == Init => FlagsInv
  BY DEF Init, SharedInit, StopperInit, FlagsInv, StopFlagged, ServedMarked

LEMMA FlagsStep == TypeInv /\ LifeInv /\ FlagsInv /\ [Next]_vars => FlagsInv'
  <1> SUFFICES ASSUME TypeInv, LifeInv, FlagsInv, [Next]_vars PROVE FlagsInv'
    OBVIOUS
  <1> USE DEF FlagsInv, StopFlagged, ServedMarked, RefillerMustExit
  <1>1. CASE ReceiverActs
    <2>1. /\ UNCHANGED <<g_terminate_now, all_jobs_served, cancel_requested>>
          /\ UNCHANGED <<printer_pc, refiller_pc, stopper_pc, runner_pc, starts>>
      BY <1>1
      DEF ReceiverActs, ReceiverStep, CreateJob, ReceiverCancelled, ReceiverWakesUp,
          CheckTermination, Arrive, Admit, DropJob, AccountArrival, FinishArrivals,
          LastBroadcast, shared, flags, printerVars, refillerVars, serverVars
    <2> QED
      BY <2>1
  <1>2. CASE RefillerActs
    <2>1. /\ UNCHANGED <<g_terminate_now, all_jobs_served, cancel_requested>>
          /\ UNCHANGED <<printer_pc, stopper_pc, runner_pc, starts>>
          /\ refiller_pc' # "off"
          /\ refiller_pc' = "exited" => RefillerMustExit
      BY <1>2
      DEF RefillerActs, RefillerStep, LockRefillQueue, RefillerExits, TakeRequest,
          WaitForRequest, RequestWaitReturns, ComputeNeed, RefillerCancelled, Cancelled,
          LoadSupply, StoreSupply, AccountRefill, NotifyPrinters, shared, flags,
          printerVars, serverVars
    <2> QED
      BY <2>1
  <1>3. ASSUME NEW p \in Printers, PrinterActs(p) PROVE FlagsInv'
    <2>1. /\ UNCHANGED <<g_terminate_now, refiller_pc, stopper_pc, runner_pc, starts>>
          /\ \A q \in Printers \ {p} : printer_pc'[q] = printer_pc[q]
          /\ all_jobs_served => all_jobs_served'
          /\ printer_pc'[p] \in {"wake_all", "cancel_refiller"} => all_jobs_served'
          /\ Refiller \in cancel_requested' =>
               Refiller \in cancel_requested \/ all_jobs_served
      BY <1>3
      DEF PrinterActs, PrinterStep, ReadTerminate, LeaveLoop, WaitForJob, FindShort,
          TakeJob, JobWaitReturns, RequestPaper, PaperWaitReturns, NotePaperEmpty,
          LoadPaper, StorePaper, Depart, ReadArrived, CheckExit, MarkServed, WakeAll,
          CancelRefiller, Cancel, Goto, TypeInv, TypeOK, shared, flags, refillerVars,
          serverVars
    <2> QED
      BY <2>1
  <1>4. CASE StopActs
    <2>1. /\ UNCHANGED <<all_jobs_served, printer_pc, refiller_pc, runner_pc, starts>>
          /\ g_terminate_now => g_terminate_now'
          /\ stopper_pc' \notin {"idle", "set_flags", "killed"} => g_terminate_now'
          /\ Refiller \in cancel_requested' =>
               Refiller \in cancel_requested \/ g_terminate_now
      BY <1>4
      DEF StopActs, StopStep, SetFlags, LockStatsToEmit, EmitStopped, CancelReceiver,
          CancelRefillThread, LockJobQueue, LockStatsToDrain, RemoveJob, EndRemoval,
          WakePrintersAndRefiller, StopperGoto, Cancel, Receiver, Refiller, shared, flags,
          printerVars, refillerVars, serverVars
    <2> QED
      BY <2>1
  <1>5. CASE RunnerStep
    <2>0. UNCHANGED <<g_terminate_now, all_jobs_served, stopper_pc, starts>>
      BY <1>5
      DEF RunnerStep, CreateReceiver, CreateRefiller, CreatePrinters, JoinThreads,
          ClearRunning, RunnerGoto, shared, flags
    <2> USE DEF RunnerGoto, printerVars, refillerVars, shared
    <2>1. CASE CreateReceiver
      BY <2>0, <2>1 DEF CreateReceiver, Receiver, Refiller
    <2>2. CASE CreateRefiller
      BY <2>0, <2>2 DEF CreateRefiller
    <2>3. CASE CreatePrinters
      BY <2>0, <2>3 DEF CreatePrinters
    <2>4. CASE JoinThreads
      BY <2>0, <2>4 DEF JoinThreads
    <2>5. CASE ClearRunning
      BY <2>0, <2>5 DEF ClearRunning
    <2> QED
      BY <1>5, <2>1, <2>2, <2>3, <2>4, <2>5 DEF RunnerStep
  <1>6. CASE CancelCrashes \/ StopReplied \/ Messages \/ UNCHANGED vars
    <2>1. UNCHANGED <<g_terminate_now, all_jobs_served, cancel_requested, printer_pc,
                      refiller_pc>>
      BY <1>6 DEF CancelCrashes, StopReplied, Messages, StartSimulation, StopRequested,
                  vars, shared, flags, printerVars, refillerVars
    <2>2. stopper_pc' = stopper_pc \/ stopper_pc' \in {"idle", "set_flags"}
      BY <1>6 DEF CancelCrashes, StopReplied, Messages, StartSimulation, StopRequested,
                  StopperGoto, vars
    <2>3. \/ UNCHANGED <<runner_pc, starts>>
          \/ /\ runner_pc = "off" /\ runner_pc' = "create_receiver"
             /\ starts' = starts + 1
      BY <1>6 DEF CancelCrashes, StopReplied, Messages, StartSimulation, MayStart,
                  StopRequested, LifeInv, OneSimulation, vars, serverVars
    <2>4. starts \in Nat
      BY BoundsAssumption DEF TypeInv, TypeOK
    <2> QED
      BY <2>1, <2>2, <2>3, <2>4
  <1> QED
    BY <1>1, <1>2, <1>3, <1>4, <1>5, <1>6 DEF Next, ThreadActs, LoopActs

LEMMA StaleStep ==
  TypeInv /\ FlagsInv /\ [Next]_vars => [starts > 1 => refilling' \subseteq refilling]_vars
  <1> SUFFICES ASSUME TypeInv, FlagsInv, Next, starts > 1
               PROVE  refilling' \subseteq refilling
    OBVIOUS
  <1>1. RefillerMustExit
    BY DEF FlagsInv
  <1>2. CASE RefillerActs
    BY <1>1, <1>2
    DEF RefillerActs, RefillerStep, LockRefillQueue, RefillerExits, TakeRequest,
        WaitForRequest, RequestWaitReturns, ComputeNeed, RefillerCancelled,
        LoadSupply, StoreSupply, AccountRefill, NotifyPrinters, refillerLocals
  <1>3. CASE ~RefillerActs
    BY <1>3
    DEF Next, ThreadActs, Messages, ReceiverActs, PrinterActs, RunnerStep,
        CreateReceiver, CreateRefiller, CreatePrinters, JoinThreads, ClearRunning,
        LoopActs, StopActs, CancelCrashes, StopReplied, StartSimulation,
        StopRequested, refillerVars
  <1> QED
    BY <1>2, <1>3

(* Whatever requests a simulation leaves behind, no refiller of a later one*)
(* follows them to a printer that is gone.                                 *)
THEOREM StaleRequestsStay == Spec => StaleRequestsIgnored
  <1>1. Init => TypeInv /\ LifeInv /\ FlagsInv
    BY TypeInit, LifeInit, FlagsInit
  <1>2. TypeInv /\ LifeInv /\ FlagsInv /\ [Next]_vars
          => (TypeInv /\ LifeInv /\ FlagsInv)'
    BY TypeInvStep, LifeStep, FlagsStep
  <1> QED
    BY <1>1, <1>2, StaleStep, PTL DEF Spec, StaleRequestsIgnored

-----------------------------------------------------------------------------
(* The counters.                                                           *)

LEMMA BalanceNumbers ==
  ASSUME TypeInv
  PROVE  /\ Len(job_queue) \in Int
         /\ stats.total_jobs_arrived \in Int
         /\ stats.total_jobs_dropped \in Int
         /\ JobsSettled \in Int
         /\ IsFiniteSet(JobsInService)
         /\ Cardinality(JobsInService) \in Int
  <1>1. /\ Len(job_queue) \in Int
        /\ stats.total_jobs_arrived \in Int
        /\ stats.total_jobs_dropped \in Int
        /\ stats.total_jobs_served \in Int
        /\ stats.total_jobs_removed \in Int
    BY DEF TypeInv, TypeOK, StatsFields
  <1>2. JobsSettled \in Int
    BY <1>1 DEF JobsSettled
  <1>3. JobsInService \subseteq Printers
    BY DEF JobsInService
  <1>4. IsFiniteSet(JobsInService)
    BY <1>3, PrintersAssumption, FS_Subset
  <1> QED
    BY <1>1, <1>2, <1>4, FS_CardinalityType

(* The sum with its conditional term named.                                *)
InHand == IF receiver_pc \in {"admit", "drop"} THEN 1 ELSE 0

LEMMA BalanceSum ==
  /\ InHand \in Int
  /\ CountersBalance <=>
       stats.total_jobs_arrived - stats.total_jobs_dropped
         = InHand + Len(job_queue) + Cardinality(JobsInService) + JobsSettled
  BY DEF InHand, CountersBalance

LEMMA BalanceInit == Init => CountersBalance
  <1> SUFFICES ASSUME Init PROVE CountersBalance
    OBVIOUS
  <1>1. JobsInService = {}
    BY DEF Init, JobsInService, Serving
  <1>2. Cardinality(JobsInService) = 0
    BY <1>1, FS_EmptySet
  <1> QED
    BY <1>2 DEF Init, SharedInit, StatsFields, JobsSettled, CountersBalance

LEMMA BalancePrinter ==
  ASSUME TypeInv, CountersBalance, NEW p \in Printers, PrinterActs(p)
  PROVE  CountersBalance'
  <1> USE DEF shared, flags, jobQueueVars, refillQueueVars, paperVars, receiverVars, Goto
  <1>0. UNCHANGED receiver_pc /\ InHand' = InHand
    BY DEF PrinterActs, InHand
  <1>t. printer_pc \in [Printers -> PrinterLabels] /\ stats \in [StatsFields -> Int]
    BY DEF TypeInv, TypeOK
  <1>1. CASE TakeJob(p)
    <2>1. JobsInService' = JobsInService \union {p} /\ p \notin JobsInService
      BY <1>1, <1>t DEF TakeJob, JobsInService, Serving
    <2>2. Cardinality(JobsInService') = Cardinality(JobsInService) + 1
      BY <2>1, BalanceNumbers, FS_AddElement
    <2>3. Len(job_queue') = Len(job_queue) - 1 /\ UNCHANGED stats
      BY <1>1 DEF TakeJob, DequeueFront, TypeInv, TypeOK
    <2>4. JobsSettled' = JobsSettled
      BY <2>3 DEF JobsSettled
    <2>5. (stats.total_jobs_arrived - stats.total_jobs_dropped
             = InHand + Len(job_queue) + Cardinality(JobsInService) + JobsSettled)'
      BY <1>0, <2>2, <2>3, <2>4, BalanceNumbers, BalanceSum
    <2> QED
      BY <2>5 DEF CountersBalance, InHand
  <1>2. CASE Depart(p)
    <2>1. JobsInService' = JobsInService \ {p} /\ p \in JobsInService
      BY <1>2, <1>t DEF Depart, JobsInService, Serving
    <2>2. Cardinality(JobsInService') = Cardinality(JobsInService) - 1
      BY <2>1, BalanceNumbers, FS_RemoveElement
    <2>3. /\ UNCHANGED job_queue
          /\ stats' = [stats EXCEPT !.total_jobs_served = @ + 1]
      BY <1>2 DEF Depart, Bump
    <2> QED
      <3>1. /\ UNCHANGED <<stats.total_jobs_arrived, stats.total_jobs_dropped>>
            /\ JobsSettled' = JobsSettled + 1
        BY <1>t, <2>3, BalanceNumbers DEF JobsSettled, StatsFields
      <3>2. (stats.total_jobs_arrived - stats.total_jobs_dropped
               = InHand + Len(job_queue) + Cardinality(JobsInService) + JobsSettled)'
        BY <1>0, <2>2, <2>3, <3>1, BalanceNumbers, BalanceSum
      <3> QED
        BY <3>2 DEF CountersBalance, InHand
  <1>3. CASE ~TakeJob(p) /\ ~Depart(p)
    <2>1. /\ UNCHANGED <<stats, job_queue>>
          /\ \A q \in Printers : Serving(q)' = Serving(q)
      BY <1>3, <1>t
      DEF Serving, PrinterActs, PrinterStep, ReadTerminate, LeaveLoop, WaitForJob,
          FindShort, JobWaitReturns, RequestPaper, PaperWaitReturns, NotePaperEmpty,
          LoadPaper, StorePaper, ReadArrived, CheckExit, MarkServed, WakeAll,
          CancelRefiller
    <2>2. JobsInService' = JobsInService
      BY <2>1 DEF JobsInService
    <2> QED
      BY <1>0, <2>1, <2>2 DEF CountersBalance, JobsSettled
  <1> QED
    BY <1>1, <1>2, <1>3

LEMMA BalanceReceiver ==
  ASSUME TypeInv, CountersBalance, ReceiverActs
  PROVE  CountersBalance'
  <1> USE DEF shared, flags, jobQueueVars, refillQueueVars, paperVars, printerVars
  <1>0. JobsInService' = JobsInService
    BY DEF ReceiverActs, JobsInService, Serving
  <1>t. stats \in [StatsFields -> Int] /\ job_queue \in Seq(Jobs)
    BY DEF TypeInv, TypeOK
  <1>1. CASE Admit
    <2>1. receiver_pc = "admit" /\ UNCHANGED stats
      BY <1>1 DEF Admit
    <2>2. \/ receiver_pc' = "drop" /\ Len(job_queue') = Len(job_queue)
          \/ receiver_pc' = "account" /\ Len(job_queue') = Len(job_queue) + 1
      BY <1>1, <1>t DEF Admit, Enqueue, TypeInv, ReceiverInv
    <2> QED
      BY <1>0, <2>1, <2>2, BalanceNumbers DEF CountersBalance, JobsSettled
  <1>2. CASE DropJob
    <2>1. receiver_pc = "drop" /\ receiver_pc' = "loop" /\ UNCHANGED job_queue
      BY <1>2 DEF DropJob
    <2>2. /\ stats'.total_jobs_arrived = stats.total_jobs_arrived + 1
          /\ stats'.total_jobs_dropped = stats.total_jobs_dropped + 1
          /\ JobsSettled' = JobsSettled + 1
      BY <1>2, <1>t, BalanceNumbers DEF DropJob, DroppedStats, JobsSettled, StatsFields
    <2> QED
      BY <1>0, <2>1, <2>2, BalanceNumbers DEF CountersBalance
  <1>3. CASE Arrive
    <2>1. /\ receiver_pc = "arrive" /\ receiver_pc' = "admit" /\ UNCHANGED job_queue
          /\ stats' = [stats EXCEPT !.total_jobs_arrived = @ + 1]
      BY <1>3 DEF Arrive, Bump
    <2> QED
      <3>1. /\ stats'.total_jobs_arrived = stats.total_jobs_arrived + 1
            /\ UNCHANGED <<stats.total_jobs_dropped, JobsSettled>>
        BY <1>t, <2>1, BalanceNumbers DEF JobsSettled, StatsFields
      <3>2. Cardinality(JobsInService') = Cardinality(JobsInService) /\ Len(job_queue') = Len(job_queue)
        BY <1>0, <2>1
      <3> QED
        BY <2>1, <3>1, <3>2, BalanceNumbers, SMTT(30) DEF CountersBalance
  <1>4. CASE AccountArrival
    <2>1. /\ receiver_pc = "account" /\ receiver_pc' = "loop" /\ UNCHANGED job_queue
          /\ \A f \in StatsFields \ {"max_job_queue_length"} : stats'[f] = stats[f]
      BY <1>4, <1>t DEF AccountArrival, ArrivalStats
    <2> QED
      BY <1>0, <2>1, BalanceNumbers DEF CountersBalance, JobsSettled, StatsFields
  <1>5. CASE ~Admit /\ ~DropJob /\ ~Arrive /\ ~AccountArrival
    <2>1. /\ UNCHANGED <<stats, job_queue>>
          /\ receiver_pc \notin {"admit", "drop"} /\ receiver_pc' \notin {"admit", "drop"}
      BY <1>5
      DEF ReceiverActs, ReceiverStep, CreateJob, ReceiverCancelled, ReceiverWakesUp,
          CheckTermination, FinishArrivals, LastBroadcast
    <2> QED
      BY <1>0, <2>1 DEF CountersBalance, JobsSettled
  <1> QED
    BY <1>1, <1>2, <1>3, <1>4, <1>5 DEF ReceiverActs, ReceiverStep

LEMMA BalanceStop ==
  ASSUME TypeInv, CountersBalance, StopActs
  PROVE  CountersBalance'
  <1> USE DEF shared, flags, jobQueueVars, refillQueueVars, paperVars, printerVars,
              receiverVars
  <1>0. UNCHANGED <<receiver_pc, InHand>> /\ JobsInService' = JobsInService
    BY DEF StopActs, InHand, JobsInService, Serving
  <1>t. stats \in [StatsFields -> Int] /\ job_queue \in Seq(Jobs)
    BY DEF TypeInv, TypeOK
  <1>1. CASE RemoveJob
    <2>1. Len(job_queue') = Len(job_queue) - 1
      BY <1>1, <1>t DEF RemoveJob, DequeueFront
    <2>2. stats' = [stats EXCEPT !.total_jobs_removed = @ + 1]
      BY <1>1 DEF RemoveJob, RemovedStats
    <2> QED
      <3>1. /\ UNCHANGED <<stats.total_jobs_arrived, stats.total_jobs_dropped>>
            /\ JobsSettled' = JobsSettled + 1
        BY <1>t, <2>2, BalanceNumbers DEF JobsSettled, StatsFields
      <3>2. (stats.total_jobs_arrived - stats.total_jobs_dropped
               = InHand + Len(job_queue) + Cardinality(JobsInService) + JobsSettled)'
        BY <1>0, <2>1, <3>1, BalanceNumbers, BalanceSum
      <3> QED
        BY <3>2 DEF CountersBalance, InHand
  <1>2. CASE ~RemoveJob
    <2>1. UNCHANGED <<stats, job_queue>>
      BY <1>2
      DEF StopActs, StopStep, SetFlags, LockStatsToEmit, EmitStopped, CancelReceiver,
          CancelRefillThread, LockJobQueue, LockStatsToDrain, EndRemoval,
          WakePrintersAndRefiller
    <2> QED
      BY <1>0, <2>1 DEF CountersBalance, JobsSettled
  <1> QED
    BY <1>1, <1>2

(* A runner moves no job: the threads that it replaces hold none.          *)
LEMMA BalanceRunner ==
  ASSUME TypeInv, LifeInv, CountersBalance, RunnerStep
  PROVE  CountersBalance'
  <1> USE DEF shared, jobQueueVars, receiverVars, printerVars, RunnerGoto
  <1>1. UNCHANGED <<stats, job_queue>>
    BY DEF RunnerStep, CreateReceiver, CreateRefiller, CreatePrinters, JoinThreads,
           ClearRunning
  <1>2. \/ receiver_pc' = receiver_pc
        \/ {receiver_pc, receiver_pc'} \intersect {"admit", "drop"} = {}
    BY DEF RunnerStep, CreateReceiver, CreateRefiller, CreatePrinters, JoinThreads,
           ClearRunning, LifeInv, OneSimulation, Gone
  <1>3. JobsInService' = JobsInService
    <2>1. CASE CreatePrinters
      <3>1. \A p \in Printers : Gone(printer_pc[p]) /\ printer_pc'[p] = "top"
        BY <2>1 DEF CreatePrinters, LifeInv, OneSimulation
      <3> QED
        BY <3>1 DEF JobsInService, Serving, Gone
    <2>2. CASE ~CreatePrinters
      <3>1. UNCHANGED printer_pc
        BY <2>2 DEF RunnerStep, CreateReceiver, CreateRefiller, JoinThreads, ClearRunning
      <3> QED
        BY <3>1 DEF JobsInService, Serving
    <2> QED
      BY <2>1, <2>2
  <1> QED
    BY <1>1, <1>2, <1>3 DEF CountersBalance, JobsSettled

LEMMA BalanceStep == TypeInv /\ LifeInv /\ CountersBalance /\ [Next]_vars => CountersBalance'
  <1> SUFFICES ASSUME TypeInv, LifeInv, CountersBalance, [Next]_vars
               PROVE  CountersBalance'
    OBVIOUS
  <1>1. CASE RefillerActs
    <2>1. /\ UNCHANGED <<receiver_pc, job_queue, printer_pc>>
          /\ \A f \in StatsFields \ {"papers_refilled"} : stats'[f] = stats[f]
      BY <1>1
      DEF RefillerActs, RefillerStep, LockRefillQueue, RefillerExits, TakeRequest,
          WaitForRequest, RequestWaitReturns, ComputeNeed, RefillerCancelled,
          LoadSupply, StoreSupply, AccountRefill, NotifyPrinters, TypeInv, TypeOK,
          shared, jobQueueVars, receiverVars, printerVars
    <2>2. JobsInService' = JobsInService
      BY <2>1 DEF JobsInService, Serving
    <2> QED
      BY <2>1, <2>2 DEF CountersBalance, JobsSettled, StatsFields
  <1>2. CASE CancelCrashes \/ StopReplied \/ Messages \/ UNCHANGED vars
    <2>1. UNCHANGED <<receiver_pc, job_queue, printer_pc, stats>>
      BY <1>2 DEF CancelCrashes, StopReplied, Messages, StartSimulation, StopRequested,
                  vars, shared, jobQueueVars, receiverVars, printerVars
    <2>2. JobsInService' = JobsInService
      BY <2>1 DEF JobsInService, Serving
    <2> QED
      BY <2>1, <2>2 DEF CountersBalance, JobsSettled
  <1> QED
    BY <1>1, <1>2, BalancePrinter, BalanceReceiver, BalanceStop, BalanceRunner
    DEF Next, ThreadActs, LoopActs

(* In every state of every simulation each job that was counted as arrived *)
(* is in one place only, or settled once.                                  *)
THEOREM BalanceKept == Spec => []CountersBalance
  <1>1. Init => TypeInv /\ LifeInv /\ CountersBalance
    BY TypeInit, LifeInit, BalanceInit
  <1>2. TypeInv /\ LifeInv /\ CountersBalance /\ [Next]_vars
          => (TypeInv /\ LifeInv /\ CountersBalance)'
    BY TypeInvStep, LifeStep, BalanceStep
  <1> QED
    BY <1>1, <1>2, PTL DEF Spec

-----------------------------------------------------------------------------
(* The wakeups for a job, in every simulation.  A printer of the one before*)
(* has ended and so is not blocked when the next is created.               *)

WakeInv ==
  /\ \A p \in job_queue_not_empty_cv : printer_pc[p] = "wait_job"
  /\ NoLostJobWakeup

LEMMA WakeInit == Init => WakeInv
  BY DEF Init, SharedInit, WakeInv, NoLostJobWakeup

(* A step that changes nothing the wakeups depend on.                      *)
LEMMA WakeKept ==
  ASSUME WakeInv, UNCHANGED <<job_queue_not_empty_cv, job_queue, all_jobs_arrived,
                              printer_pc, receiver_pc>>,
         JobBroadcastPending => JobBroadcastPending'
  PROVE  WakeInv'
  BY DEF WakeInv, NoLostJobWakeup

LEMMA WakePrinter ==
  ASSUME TypeInv, WakeInv, NEW p \in Printers, PrinterActs(p)
  PROVE  WakeInv'
  <1> USE DEF shared, flags, jobQueueVars, refillQueueVars, paperVars, Goto, receiverVars
  <1>1. /\ UNCHANGED <<receiver_pc, stopper_pc, all_jobs_arrived>>
        /\ \A q \in Printers \ {p} : printer_pc'[q] = printer_pc[q]
        /\ \/ WaitForJob(p)
           \/ /\ UNCHANGED job_queue_not_empty_cv
              /\ p \notin job_queue_not_empty_cv \/ printer_pc[p] # "wait_job"
              /\ job_queue' \in {job_queue, Tail(job_queue)}
              /\ job_queue' # job_queue => job_queue # <<>>
           \/ UNCHANGED <<job_queue, job_queue_not_empty_cv, printer_pc>>
           \/ /\ job_queue_not_empty_cv' = {}
              /\ UNCHANGED job_queue
    BY DEF PrinterActs, PrinterStep, ReadTerminate, LeaveLoop, WaitForJob, FindShort,
       TakeJob, JobWaitReturns, RequestPaper, PaperWaitReturns, NotePaperEmpty,
       LoadPaper, StorePaper, Depart, ReadArrived, CheckExit, MarkServed, WakeAll,
       CancelRefiller, DequeueFront, Broadcast, TypeInv, TypeOK
  <1>2. /\ printer_pc \in [Printers -> PrinterLabels] /\ job_queue \in Seq(Jobs)
        /\ job_queue_not_empty_cv \subseteq Printers
    BY DEF TypeInv, TypeOK
  <1>3. CASE WaitForJob(p)
    BY <1>1, <1>2, <1>3
    DEF WaitForJob, MustLeave, IsExitConditionMet, WakeInv, NoLostJobWakeup
  <1>4. CASE ~WaitForJob(p)
    <2>1. job_queue' # <<>> => job_queue # <<>>
      BY <1>1, <1>2, <1>4
    <2> QED
      BY <1>1, <1>2, <1>4, <2>1 DEF WakeInv, NoLostJobWakeup, JobBroadcastPending
  <1> QED
    BY <1>3, <1>4

LEMMA WakeReceiver ==
  ASSUME TypeInv, WakeInv, ReceiverActs
  PROVE  WakeInv'
  <1> USE DEF WakeInv, NoLostJobWakeup, JobBroadcastPending, shared, flags, jobQueueVars,
              refillQueueVars, paperVars, printerVars
  <1>0. UNCHANGED <<printer_pc, stopper_pc>>
    BY DEF ReceiverActs
  <1>1. CASE CreateJob \/ ReceiverCancelled \/ ReceiverWakesUp \/ CheckTermination
    BY <1>0, <1>1 DEF CreateJob, ReceiverCancelled, ReceiverWakesUp, CheckTermination
  <1>2. CASE Arrive \/ Admit \/ DropJob
    BY <1>0, <1>2 DEF Arrive, Admit, DropJob
  <1>3. CASE AccountArrival \/ FinishArrivals \/ LastBroadcast
    BY <1>0, <1>3 DEF AccountArrival, FinishArrivals, LastBroadcast, Broadcast
  <1> QED
    BY <1>1, <1>2, <1>3 DEF ReceiverActs, ReceiverStep

LEMMA WakeRefiller ==
  ASSUME WakeInv, RefillerActs
  PROVE  WakeInv'
  BY WakeKept
  DEF RefillerActs, RefillerStep, LockRefillQueue, RefillerExits, TakeRequest,
      WaitForRequest, RequestWaitReturns, ComputeNeed, RefillerCancelled, LoadSupply,
      StoreSupply, AccountRefill, NotifyPrinters, JobBroadcastPending, shared, flags,
      jobQueueVars, refillQueueVars, paperVars, receiverVars, printerVars

LEMMA WakeLoop ==
  ASSUME TypeInv, WakeInv, LoopActs \/ Messages
  PROVE  WakeInv'
  <1> USE DEF shared, flags, jobQueueVars, refillQueueVars, paperVars, receiverVars,
              printerVars, StopperGoto
  <1>0. UNCHANGED <<printer_pc, receiver_pc>>
    BY DEF LoopActs, StopActs, CancelCrashes, StopReplied, Messages, StartSimulation,
       StopRequested
  <1>1. CASE CancelCrashes \/ StopReplied \/ Messages
    BY <1>1, WakeKept DEF CancelCrashes, StopReplied, Messages, StartSimulation,
       StopRequested, JobBroadcastPending
  <1>2. CASE StopActs
    <2>1. CASE SetFlags
      BY <1>0, <2>1 DEF SetFlags, WakeInv, NoLostJobWakeup, JobBroadcastPending
    <2>2. CASE RemoveJob
      <3>1. job_queue # <<>> /\ UNCHANGED <<job_queue_not_empty_cv, stopper_pc, all_jobs_arrived>>
        BY <2>2 DEF RemoveJob
      <3> QED
        BY <1>0, <3>1 DEF WakeInv, NoLostJobWakeup, JobBroadcastPending
    <2>3. CASE EndRemoval
      BY <1>0, <2>3 DEF EndRemoval, Broadcast, WakeInv, NoLostJobWakeup
    <2>4. CASE \/ LockStatsToEmit \/ EmitStopped \/ CancelReceiver \/ CancelRefillThread
               \/ LockJobQueue \/ LockStatsToDrain \/ WakePrintersAndRefiller
      <3>1. JobBroadcastPending => JobBroadcastPending'
        BY <1>0, <2>4 DEF LockStatsToEmit, EmitStopped, CancelReceiver, CancelRefillThread,
           LockJobQueue, LockStatsToDrain, WakePrintersAndRefiller, JobBroadcastPending
      <3>2. UNCHANGED <<job_queue_not_empty_cv, job_queue, all_jobs_arrived>>
        BY <2>4 DEF LockStatsToEmit, EmitStopped, CancelReceiver, CancelRefillThread,
           LockJobQueue, LockStatsToDrain, WakePrintersAndRefiller
      <3> QED
        BY <1>0, <3>1, <3>2, WakeKept
    <2> QED
      BY <1>2, <2>1, <2>2, <2>3, <2>4 DEF StopActs, StopStep
  <1> QED
    BY <1>1, <1>2 DEF LoopActs

LEMMA WakeRunner ==
  ASSUME TypeInv, LifeInv, WakeInv, RunnerStep
  PROVE  WakeInv'
  <1> USE DEF shared, flags, jobQueueVars, refillQueueVars, paperVars, receiverVars,
              printerVars, RunnerGoto
  <1>0. UNCHANGED <<stopper_pc, job_queue_not_empty_cv, job_queue, all_jobs_arrived>>
    BY DEF RunnerStep, CreateReceiver, CreateRefiller, CreatePrinters, JoinThreads,
       ClearRunning
  <1>1. CASE CreateReceiver
    <2>1. UNCHANGED printer_pc /\ Gone(receiver_pc)
      BY <1>1 DEF CreateReceiver, LifeInv, OneSimulation
    <2> QED
      BY <1>0, <2>1 DEF WakeInv, NoLostJobWakeup, JobBroadcastPending, Gone
  <1>2. CASE CreatePrinters
    <2>1. \A p \in Printers : Gone(printer_pc[p])
      BY <1>2 DEF CreatePrinters, LifeInv, OneSimulation
    <2>2. job_queue_not_empty_cv \subseteq Printers
      BY DEF TypeInv, TypeOK
    <2>3. job_queue_not_empty_cv = {}
      BY <2>1, <2>2 DEF WakeInv, Gone
    <2> QED
      BY <1>0, <2>3 DEF WakeInv, NoLostJobWakeup
  <1>3. CASE CreateRefiller \/ JoinThreads \/ ClearRunning
    BY <1>0, <1>3, WakeKept
    DEF CreateRefiller, JoinThreads, ClearRunning, JobBroadcastPending
  <1> QED
    BY <1>1, <1>2, <1>3 DEF RunnerStep

LEMMA WakeStep == TypeInv /\ LifeInv /\ WakeInv /\ [Next]_vars => WakeInv'
  <1> SUFFICES ASSUME TypeInv, LifeInv, WakeInv, [Next]_vars PROVE WakeInv'
    OBVIOUS
  <1>1. CASE UNCHANGED vars
    BY <1>1, WakeKept DEF vars, shared, flags, jobQueueVars, receiverVars, printerVars,
       JobBroadcastPending
  <1> QED
    BY <1>1, WakePrinter, WakeReceiver, WakeRefiller, WakeLoop, WakeRunner
    DEF Next, ThreadActs

(* A printer blocked for a job finds the queue empty, or the receiver about*)
(* to broadcast; and once a stop or the last job has set all_jobs_arrived a*)
(* broadcast is to come: across simulations that share the flags and queues*)
(* and never reset them.                                                   *)
THEOREM ServerJobWakeups == Spec => []NoLostJobWakeup
  <1>1. Init => TypeInv /\ LifeInv /\ WakeInv
    BY TypeInit, LifeInit, WakeInit
  <1>2. TypeInv /\ LifeInv /\ WakeInv /\ [Next]_vars => (TypeInv /\ LifeInv /\ WakeInv)'
    BY TypeInvStep, LifeStep, WakeStep
  <1>3. WakeInv => NoLostJobWakeup
    BY DEF WakeInv
  <1> QED
    BY <1>1, <1>2, <1>3, PTL DEF Spec
=============================================================================
