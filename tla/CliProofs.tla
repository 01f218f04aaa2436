----------------------------- MODULE CliProofs -----------------------------
(***************************************************************************)
(* Theorems about Cli, for every number of printers and jobs, every queue  *)
(* and paper capacity, with and without a SIGINT and spurious wakeups:     *)
(* types, paper, and condition variables.                                  *)
(***************************************************************************)
EXTENDS Cli, SimulationProofs

TypeInv == TypeOK /\ ReceiverInv

USE DEF SharedTypeOK, ReceiverTypeOK, PrinterTypeOK, RefillerTypeOK,
        StopperTypeOK, MainTypeOK

LEMMA TypeInit == Init => TypeInv
  <1> SUFFICES ASSUME Init PROVE TypeInv
    OBVIOUS
  <1> USE ParamsAssumption DEF Init
  <1>1. SharedTypeOK /\ Len(job_queue) <= QueueCapacity
    BY SharedInitTyped
  <1>2. ReceiverTypeOK /\ ReceiverInv
    BY DEF ReceiverInit, ReceiverInv, ReceiverBusy, ReceiverLabels
  <1>3. PrinterTypeOK /\ RefillerTypeOK
    BY DEF PrinterInit, RefillerInit, PrinterLabels, RefillerLabels
  <1>4. StopperTypeOK /\ MainTypeOK
    BY DEF StopperInit, StopperLabels, MainLabels
  <1> QED
    BY <1>1, <1>2, <1>3, <1>4 DEF TypeInv, TypeOK

LEMMA TypeThreads ==
  ASSUME TypeInv,
         ReceiverActs \/ (\E p \in Printers : PrinterActs(p)) \/ RefillerActs
  PROVE  TypeInv'
  <1>1. ThreadsTyped /\ MainTypeOK
    BY DEF TypeInv, TypeOK, ThreadsTyped
  <1>2. UNCHANGED main_pc
    BY DEF ReceiverActs, PrinterActs, RefillerActs
  <1>3. ThreadsTyped'
    BY <1>1, TypeReceiver, TypePrinter, TypeRefiller
    DEF ReceiverActs, PrinterActs, RefillerActs
  <1> QED
    BY <1>1, <1>2, <1>3 DEF TypeInv, TypeOK, ThreadsTyped

LEMMA TypeCatcher ==
  ASSUME TypeInv, CatcherActs \/ SignalArrives
  PROVE  TypeInv'
  <1> USE DEF TypeInv, TypeOK, ReceiverInv, ReceiverBusy, StopperLabels,
              shared, flags, jobQueueVars, refillQueueVars, paperVars,
              receiverVars, printerVars, refillerVars, StopperGoto
  <1>0. UNCHANGED <<receiverVars, printerVars, refillerVars, main_pc>>
    BY DEF CatcherActs, SignalArrives
  <1>1. CASE StopStep
    <2>1. ThreadsTyped'
      BY <1>0, <1>1, TypeStop DEF ThreadsTyped
    <2> QED
      BY <1>0, <2>1 DEF ThreadsTyped
  <1>2. CASE CancelledInSigwait
    BY <1>0, <1>2 DEF CancelledInSigwait
  <1>3. CASE KilledEmittingStop
    BY <1>0, <1>3 DEF KilledEmittingStop
  <1>4. CASE KilledRemovingJob
    BY <1>0, <1>4, ParamsAssumption DEF KilledRemovingJob, DequeueFront
  <1>5. CASE SignalArrives
    BY <1>0, <1>5 DEF SignalArrives, SigwaitReturns
  <1>6. CASE KilledInDebugMessage
    BY <1>0, <1>6 DEF KilledInDebugMessage
  <1> QED
    BY <1>1, <1>2, <1>3, <1>4, <1>5, <1>6 DEF CatcherActs, CatcherStep

LEMMA TypeMain ==
  ASSUME TypeInv, MainActs \/ SpuriousReturn
  PROVE  TypeInv'
  <1> USE DEF TypeInv, TypeOK, ReceiverInv, ReceiverBusy, MainLabels,
              shared, flags, jobQueueVars, refillQueueVars, paperVars,
              receiverVars, printerVars, refillerVars
  <1>1. CASE MainActs
    BY <1>1 DEF MainActs, MainStep, MainGoto, JoinReceiver, JoinPrinters,
       JoinRefiller, CancelCatcher, JoinCatcher, FinalLog, Cancel
  <1>2. CASE SpuriousReturn
    BY <1>2 DEF SpuriousReturn, SpuriousWakeup
  <1> QED
    BY <1>1, <1>2

LEMMA TypeInvStep == TypeInv /\ [Next]_vars => TypeInv'
  <1> SUFFICES ASSUME TypeInv, [Next]_vars PROVE TypeInv'
    OBVIOUS
  <1>1. CASE UNCHANGED vars
    BY <1>1 DEF vars, shared, flags, jobQueueVars, refillQueueVars, paperVars,
       receiverVars, printerVars, refillerVars, TypeInv, TypeOK, ReceiverInv,
       ReceiverBusy
  <1> QED
    BY <1>1, TypeThreads, TypeCatcher, TypeMain
    DEF Next

(* Every variable keeps its type and the job queue never grows past        *)
(* queue_capacity.                                                         *)
THEOREM TypeCorrect == Spec => []TypeOK
  <1>1. TypeInv => TypeOK
    BY DEF TypeInv
  <1> QED
    BY <1>1, TypeInit, TypeInvStep, PTL DEF Spec

-----------------------------------------------------------------------------
(* The paper count.  A printer holds the paper of the job it prints, loads *)
(* no more than is there, and what the refiller is about to add fits,      *)
(* whichever of the two stores last.                                       *)
PrinterPaper(p) ==
  /\ current_paper_count[p] \in 0..PaperCapacity
  /\ printer_pc[p] \in {"print", "store"} =>
       job[p] \in Jobs /\ job[p].papers <= current_paper_count[p]
  /\ printer_pc[p] = "store" =>
       job[p].papers <= paper_loaded[p] /\ paper_loaded[p] <= current_paper_count[p]

RefillPaper(p) ==
  /\ refiller_pc \in {"sleep", "store"} =>
       papers_needed >= 0 /\ current_paper_count[p] + papers_needed <= PaperCapacity
  /\ refiller_pc = "store" =>
       /\ current_paper_count[p] <= supply_loaded
       /\ supply_loaded + papers_needed <= PaperCapacity

PaperInv ==
  /\ \A p \in Printers : PrinterPaper(p)
  /\ \A p \in refilling : RefillPaper(p)
  /\ \A p, q \in refilling : p = q

LEMMA PaperInit == Init => PaperInv
  BY ParamsAssumption
  DEF Init, SharedInit, PrinterInit, RefillerInit, PaperInv, PrinterPaper, RefillPaper

(* Steps of the other threads and of main touch none of it.                *)
LEMMA PaperUnchanged ==
  ASSUME PaperInv,
         UNCHANGED <<current_paper_count, printer_pc, job, paper_loaded, refillerVars>>
  PROVE  PaperInv'
  BY DEF PaperInv, PrinterPaper, RefillPaper, refillerVars

(* A step of a printer that leaves it outside its service and the paper    *)
(* count alone.                                                            *)
LEMMA PaperOutsideService ==
  ASSUME TypeInv, PaperInv, NEW p \in Printers,
         UNCHANGED <<current_paper_count, paper_loaded, refillerVars>>,
         printer_pc' = [printer_pc EXCEPT ![p] = printer_pc'[p]],
         printer_pc'[p] \notin {"print", "store"},
         \A q \in Printers \ {p} : job'[q] = job[q]
  PROVE  PaperInv'
  <1>1. \A q \in Printers : PrinterPaper(q)'
    <2> SUFFICES ASSUME NEW q \in Printers PROVE PrinterPaper(q)'
      OBVIOUS
    <2>1. CASE q = p
      BY <2>1 DEF PaperInv, PrinterPaper
    <2>2. CASE q # p
      BY <2>2 DEF PaperInv, PrinterPaper, TypeInv, TypeOK
    <2> QED
      BY <2>1, <2>2
  <1>2. (\A q \in refilling : RefillPaper(q))' /\ (\A q, r \in refilling : q = r)'
    BY DEF PaperInv, RefillPaper, refillerVars
  <1> QED
    BY <1>1, <1>2 DEF PaperInv

LEMMA PaperPrinter ==
  ASSUME TypeInv, PaperInv, NEW p \in Printers, PrinterActs(p)
  PROVE  PaperInv'
  <1> USE DEF shared, flags, jobQueueVars, refillQueueVars, paperVars, refillerVars,
              Goto
  <1>0. UNCHANGED refillerVars
    BY DEF PrinterActs
  <1>t. /\ printer_pc \in [Printers -> PrinterLabels]
        /\ job \in [Printers -> Jobs \union {NoJob}]
        /\ paper_loaded \in [Printers -> Int]
        /\ current_paper_count \in [Printers -> Int]
        /\ job_queue \in Seq(Jobs)
        /\ refilling \subseteq Printers
        /\ papers_needed \in Int
        /\ supply_loaded \in Int
    BY DEF TypeInv, TypeOK
  <1>1. CASE TakeJob(p)
    <2>1. Head(job_queue) \in Jobs /\ Head(job_queue).papers <= current_paper_count[p]
      <3>1. Head(job_queue) \in Jobs
        BY <1>1, <1>t DEF TakeJob
      <3>2. Head(job_queue).papers \in Int
        BY <3>1, ParamsAssumption DEF Jobs
      <3> QED
        BY <1>1, <1>t, <3>1, <3>2 DEF TakeJob, ShortOfPaper
    <2>2. ASSUME NEW q \in Printers PROVE PrinterPaper(q)'
      BY <1>1, <1>t, <2>1, <2>2 DEF TakeJob, PaperInv, PrinterPaper
    <2> QED
      BY <1>0, <1>1, <2>2 DEF TakeJob, PaperInv, RefillPaper
  <1>2. CASE LoadPaper(p)
    <2>1. ASSUME NEW q \in Printers PROVE PrinterPaper(q)'
      BY <1>2, <1>t, <2>1 DEF LoadPaper, PaperInv, PrinterPaper
    <2> QED
      BY <1>0, <1>2, <2>1 DEF LoadPaper, PaperInv, RefillPaper
  <1>3. CASE StorePaper(p)
    <2>1. /\ job[p] \in Jobs /\ job[p].papers \in Nat
          /\ job[p].papers <= paper_loaded[p]
          /\ paper_loaded[p] <= current_paper_count[p]
          /\ current_paper_count[p] <= PaperCapacity
      <3>1. /\ job[p] \in Jobs
            /\ job[p].papers <= paper_loaded[p]
            /\ paper_loaded[p] <= current_paper_count[p]
            /\ current_paper_count[p] <= PaperCapacity
        BY <1>3, <1>t, ParamsAssumption DEF StorePaper, PaperInv, PrinterPaper
      <3> QED
        BY <3>1, ParamsAssumption DEF Jobs
    <2>2. /\ current_paper_count'[p] \in 0..PaperCapacity
          /\ current_paper_count'[p] <= current_paper_count[p]
      BY <1>3, <1>t, <2>1, ParamsAssumption DEF StorePaper
    <2>3. ASSUME NEW q \in Printers PROVE PrinterPaper(q)'
      <3>1. CASE q = p
        BY <1>3, <1>t, <2>2, <3>1 DEF StorePaper, PrinterPaper
      <3>2. CASE q # p
        BY <1>3, <1>t, <3>2 DEF StorePaper, PaperInv, PrinterPaper
      <3> QED
        BY <3>1, <3>2
    <2>4. ASSUME NEW q \in refilling PROVE RefillPaper(q)'
      <3>1. current_paper_count'[q] <= current_paper_count[q]
            /\ current_paper_count'[q] \in Int /\ current_paper_count[q] \in Int
        BY <1>3, <1>t, <2>2, <2>4 DEF StorePaper
      <3>2. RefillPaper(q)
        BY <2>4 DEF PaperInv
      <3> QED
        BY <1>0, <1>t, <3>1, <3>2, ParamsAssumption DEF RefillPaper
    <2> QED
      BY <1>0, <2>3, <2>4 DEF PaperInv
  <1>4. CASE ~TakeJob(p) /\ ~LoadPaper(p) /\ ~StorePaper(p)
    <2>1. /\ UNCHANGED <<current_paper_count, paper_loaded>>
          /\ printer_pc' = [printer_pc EXCEPT ![p] = printer_pc'[p]]
          /\ printer_pc'[p] \notin {"print", "store"}
          /\ \A q \in Printers \ {p} : job'[q] = job[q]
      BY <1>4, <1>t
      DEF PrinterActs, PrinterStep, ReadTerminate, LeaveLoop, WaitForJob, FindShort,
          JobWaitReturns, RequestPaper, PaperWaitReturns, NotePaperEmpty, Depart,
          ReadArrived, CheckExit, MarkServed, WakeAll, CancelRefiller
    <2> QED
      BY <1>0, <2>1, PaperOutsideService
  <1> QED
    BY <1>1, <1>2, <1>3, <1>4

LEMMA PaperRefills ==
  ASSUME TypeInv, PaperInv, RefillerActs
  PROVE  PaperInv'
  <1> USE DEF shared, flags, jobQueueVars, refillQueueVars, paperVars, refillerLocals
  <1>0. UNCHANGED printerVars
    BY DEF RefillerActs
  <1>t. /\ paper_loaded \in [Printers -> Int]
        /\ current_paper_count \in [Printers -> Int]
        /\ paper_refill_queue \in Seq(Printers)
        /\ refilling \subseteq Printers
        /\ papers_needed \in Int
        /\ supply_loaded \in Int
    BY DEF TypeInv, TypeOK
  <1>1. CASE ComputeNeed
    BY <1>0, <1>1, <1>t, ParamsAssumption
    DEF ComputeNeed, PapersNeeded, PaperInv, PrinterPaper, RefillPaper, printerVars
  <1>2. CASE LoadSupply
    BY <1>0, <1>2, <1>t, ParamsAssumption
    DEF LoadSupply, PaperInv, PrinterPaper, RefillPaper, printerVars
  <1>3. CASE StoreSupply
    <2>1. PICK r \in refilling : current_paper_count' =
              [current_paper_count EXCEPT ![r] = supply_loaded + papers_needed]
      BY <1>3 DEF StoreSupply
    <2>2. /\ papers_needed >= 0
          /\ current_paper_count[r] <= supply_loaded
          /\ supply_loaded + papers_needed <= PaperCapacity
          /\ current_paper_count[r] \in 0..PaperCapacity
      BY <1>3, <1>t DEF StoreSupply, PaperInv, PrinterPaper, RefillPaper
    <2>3. /\ current_paper_count'[r] \in 0..PaperCapacity
          /\ current_paper_count[r] <= current_paper_count'[r]
      BY <1>t, <2>1, <2>2, ParamsAssumption
    <2>4. ASSUME NEW q \in Printers PROVE PrinterPaper(q)'
      <3>1. CASE q = r
        <4>1. PrinterPaper(q)
          BY DEF PaperInv
        <4>2. job[q] \in Jobs => job[q].papers \in Int
          BY ParamsAssumption DEF Jobs
        <4> QED
          BY <1>0, <1>t, <2>2, <2>3, <3>1, <4>1, <4>2 DEF PrinterPaper, printerVars
      <3>2. CASE q # r
        BY <1>0, <1>t, <2>1, <3>2 DEF PaperInv, PrinterPaper, printerVars
      <3> QED
        BY <3>1, <3>2
    <2> QED
      BY <1>3, <2>4 DEF StoreSupply, PaperInv, RefillPaper
  <1>4. CASE TakeRequest
    BY <1>0, <1>4, <1>t DEF TakeRequest, PaperInv, PrinterPaper, RefillPaper, printerVars
  <1>5. CASE ~ComputeNeed /\ ~LoadSupply /\ ~StoreSupply /\ ~TakeRequest
    <2>1. /\ UNCHANGED current_paper_count
          /\ refilling' \subseteq refilling
          /\ refiller_pc' \notin {"sleep", "store"}
      BY <1>5
      DEF RefillerActs, RefillerStep, LockRefillQueue, RefillerExits, WaitForRequest,
          RequestWaitReturns, RefillerCancelled, AccountRefill, NotifyPrinters
    <2> QED
      BY <1>0, <2>1 DEF PaperInv, PrinterPaper, RefillPaper, printerVars
  <1> QED
    BY <1>1, <1>2, <1>3, <1>4, <1>5

LEMMA PaperStep == TypeInv /\ PaperInv /\ [Next]_vars => PaperInv'
  <1> SUFFICES ASSUME TypeInv, PaperInv, [Next]_vars PROVE PaperInv'
    OBVIOUS
  <1> USE DEF shared, flags, jobQueueVars, refillQueueVars, paperVars, printerVars
  <1>1. CASE ReceiverActs
    <2>1. UNCHANGED <<current_paper_count, printer_pc, job, paper_loaded, refillerVars>>
      BY <1>1
      DEF ReceiverActs, ReceiverStep, CreateJob, ReceiverCancelled, ReceiverWakesUp,
          CheckTermination, Arrive, Admit, DropJob, AccountArrival, FinishArrivals,
          LastBroadcast
    <2> QED
      BY <2>1, PaperUnchanged
  <1>2. CASE CatcherActs \/ SignalArrives
    <2>1. UNCHANGED <<current_paper_count, printer_pc, job, paper_loaded, refillerVars>>
      BY <1>2
      DEF CatcherActs, CatcherStep, StopStep, SetFlags, LockStatsToEmit, EmitStopped,
          CancelReceiver, CancelRefillThread, LockJobQueue, LockStatsToDrain,
          RemoveJob, EndRemoval, WakePrintersAndRefiller, CancelledInSigwait,
          KilledEmittingStop, KilledInDebugMessage, KilledRemovingJob, SignalArrives,
          SigwaitReturns
    <2> QED
      BY <2>1, PaperUnchanged
  <1>3. CASE MainActs \/ SpuriousReturn \/ UNCHANGED vars
    <2>1. UNCHANGED <<current_paper_count, printer_pc, job, paper_loaded, refillerVars>>
      BY <1>3
      DEF MainActs, MainStep, JoinReceiver, JoinPrinters, JoinRefiller, CancelCatcher,
          JoinCatcher, FinalLog, SpuriousReturn, SpuriousWakeup, vars
    <2> QED
      BY <2>1, PaperUnchanged
  <1> QED
    BY <1>1, <1>2, <1>3, PaperPrinter, PaperRefills DEF Next

(* The paper count of every printer stays between 0 and the capacity, in   *)
(* spite of the unprotected loads and stores of printer and refiller.      *)
THEOREM PaperBounded == Spec => []PaperWithinCapacity
  <1>1. PaperInv => PaperWithinCapacity
    BY DEF PaperInv, PrinterPaper, PaperWithinCapacity
  <1>2. Init => TypeInv /\ PaperInv
    BY TypeInit, PaperInit
  <1>3. TypeInv /\ PaperInv /\ [Next]_vars => (TypeInv /\ PaperInv)'
    BY TypeInvStep, PaperStep
  <1> QED
    BY <1>1, <1>2, <1>3, PTL DEF Spec

-----------------------------------------------------------------------------
(* The condition variables: no wakeup is lost while the threads that owe   *)
(* it can still give it.                                                   *)

HIDE DEF ReceiverTypeOK, StopperTypeOK, MainTypeOK

(* Who waits is where it waits, and main goes on only past threads that    *)
(* have ended.                                                             *)
WaitInv ==
  /\ \A p \in job_queue_not_empty_cv : printer_pc[p] = "wait_job"
  /\ \A p \in refill_needed_cv : printer_pc[p] = "wait_paper"
  /\ refill_supplier_cv # {} => refiller_pc = "wait"
  /\ refiller_pc \in {"top", "examine", "wait"} => refilling = {}

PastPrinters == main_pc \notin {"join_receiver", "join_printers"}
PastRefiller == PastPrinters /\ main_pc # "join_refiller"

JoinInv ==
  /\ Stopper \in cancel_requested \/ stopper_pc \in {"killed", "cut_short"} =>
       PastRefiller /\ main_pc # "cancel_catcher"
  /\ PastPrinters => \A p \in Printers : printer_pc[p] = "exited"
  /\ PastRefiller => refiller_pc = "exited"

WakeInv ==
  /\ WaitInv
  /\ JoinInv
  /\ NoLostJobWakeup
  /\ NoLostSupplierWakeup
  /\ RequestPending

LEMMA WakeInit == Init => WakeInv
  BY DEF Init, SharedInit, PrinterInit, RefillerInit, StopperInit, WakeInv, WaitInv,
     JoinInv, PastPrinters, PastRefiller, NoLostJobWakeup, NoLostSupplierWakeup,
     RequestPending

LEMMA WakePrinter ==
  ASSUME TypeInv, WakeInv, NEW p \in Printers, PrinterActs(p)
  PROVE  WakeInv'
  <1> USE DEF WakeInv, WaitInv, JoinInv, PastPrinters, PastRefiller, NoLostJobWakeup,
              NoLostSupplierWakeup, RequestPending, JobBroadcastPending, StopWillWake,
              shared, flags, jobQueueVars, refillQueueVars, paperVars, Goto, receiverVars, refillerVars
  <1>0. UNCHANGED <<receiver_pc, refiller_pc, refilling, stopper_pc, main_pc>>
    BY DEF PrinterActs
  <1>t. /\ printer_pc \in [Printers -> PrinterLabels]
        /\ paper_refill_queue \in Seq(Printers)
        /\ job_queue \in Seq(Jobs)
        /\ job_queue_not_empty_cv \subseteq Printers
        /\ refill_needed_cv \subseteq Printers
        /\ refill_supplier_cv \subseteq {Refiller}
        /\ refilling \subseteq Printers
    BY DEF TypeInv, TypeOK

  <1>1. CASE ReadTerminate(p)
    BY <1>0, <1>1, <1>t DEF ReadTerminate
  <1>2. CASE LeaveLoop(p)
    BY <1>0, <1>2, <1>t DEF LeaveLoop
  <1>3. CASE WaitForJob(p)
    BY <1>0, <1>3, <1>t DEF WaitForJob, MustLeave, IsExitConditionMet
  <1>4. CASE FindShort(p)
    BY <1>0, <1>4, <1>t DEF FindShort
  <1>5. CASE TakeJob(p)
    BY <1>0, <1>5, <1>t DEF TakeJob, DequeueFront
  <1>6. CASE JobWaitReturns(p)
    BY <1>0, <1>6, <1>t DEF JobWaitReturns
  <1>7. CASE RequestPaper(p)
    BY <1>0, <1>7, <1>t DEF RequestPaper, Enqueue, Broadcast
  <1>8. CASE PaperWaitReturns(p)
    BY <1>0, <1>8, <1>t DEF PaperWaitReturns
  <1>9. CASE NotePaperEmpty(p)
    BY <1>0, <1>9, <1>t DEF NotePaperEmpty
  <1>10. CASE LoadPaper(p)
    BY <1>0, <1>10, <1>t DEF LoadPaper
  <1>11. CASE StorePaper(p)
    BY <1>0, <1>11, <1>t DEF StorePaper
  <1>12. CASE Depart(p)
    BY <1>0, <1>12, <1>t DEF Depart
  <1>13. CASE ReadArrived(p)
    BY <1>0, <1>13, <1>t DEF ReadArrived
  <1>14. CASE CheckExit(p)
    BY <1>0, <1>14, <1>t DEF CheckExit
  <1>15. CASE MarkServed(p)
    BY <1>0, <1>15, <1>t DEF MarkServed
  <1>16. CASE WakeAll(p)
    BY <1>0, <1>16, <1>t DEF WakeAll, Broadcast
  <1>17. CASE CancelRefiller(p)
    BY <1>0, <1>17, <1>t DEF CancelRefiller, Cancel, Refiller, Stopper
  <1> QED
    BY <1>1, <1>2, <1>3, <1>4, <1>5, <1>6, <1>7, <1>8, <1>9, <1>10, <1>11, <1>12, <1>13, <1>14, <1>15, <1>16, <1>17
    DEF PrinterActs, PrinterStep

LEMMA WakeRefiller ==
  ASSUME TypeInv, WakeInv, RefillerActs
  PROVE  WakeInv'
  <1> USE DEF WakeInv, WaitInv, JoinInv, PastPrinters, PastRefiller, NoLostJobWakeup,
              NoLostSupplierWakeup, RequestPending, JobBroadcastPending, StopWillWake,
              shared, flags, jobQueueVars, refillQueueVars, paperVars, receiverVars, printerVars, refillerLocals
  <1>0. UNCHANGED <<receiver_pc, printer_pc, stopper_pc, main_pc>>
    BY DEF RefillerActs
  <1>t. /\ printer_pc \in [Printers -> PrinterLabels]
        /\ paper_refill_queue \in Seq(Printers)
        /\ job_queue \in Seq(Jobs)
        /\ job_queue_not_empty_cv \subseteq Printers
        /\ refill_needed_cv \subseteq Printers
        /\ refill_supplier_cv \subseteq {Refiller}
        /\ refilling \subseteq Printers
    BY DEF TypeInv, TypeOK

  <1>1. CASE LockRefillQueue
    BY <1>0, <1>1, <1>t DEF LockRefillQueue
  <1>2. CASE RefillerExits
    BY <1>0, <1>2, <1>t DEF RefillerExits, Broadcast
  <1>3. CASE TakeRequest
    <2>1. /\ refilling' = {Head(paper_refill_queue)}
          /\ paper_refill_queue' = Tail(paper_refill_queue)
          /\ paper_refill_queue # <<>>
          /\ refill_supplier_cv = {}
          /\ refiller_pc = "examine" /\ refiller_pc' = "need" /\ refilling = {}
          /\ UNCHANGED <<refill_needed_cv, refill_supplier_cv, job_queue_not_empty_cv,
                         job_queue, flags, cancel_requested>>
      BY <1>3 DEF TakeRequest, DequeueFront
    <2>2. RequestPending'
      <3> SUFFICES ASSUME NEW p \in refill_needed_cv
                   PROVE  \/ \E i \in 1..Len(paper_refill_queue') :
                               paper_refill_queue'[i] = p
                          \/ p \in refilling'
        BY <2>1
      <3>1. PICK i \in 1..Len(paper_refill_queue) : paper_refill_queue[i] = p
        BY <2>1
      <3>2. CASE i = 1
        BY <1>t, <2>1, <3>1, <3>2
      <3>3. CASE i # 1
        <4>1. i - 1 \in 1..Len(paper_refill_queue')
              /\ paper_refill_queue'[i - 1] = p
          BY <1>t, <2>1, <3>1, <3>3
        <4> QED
          BY <4>1
      <3> QED
        BY <3>2, <3>3
    <2>3. WaitInv' /\ JoinInv' /\ NoLostJobWakeup' /\ NoLostSupplierWakeup'
      BY <1>0, <2>1
    <2> QED
      BY <2>2, <2>3
  <1>4. CASE WaitForRequest
    BY <1>0, <1>4, <1>t DEF WaitForRequest, RefillerMustExit
  <1>5. CASE RequestWaitReturns
    BY <1>0, <1>5, <1>t DEF RequestWaitReturns
  <1>6. CASE ComputeNeed
    BY <1>0, <1>6, <1>t DEF ComputeNeed
  <1>7. CASE RefillerCancelled
    BY <1>0, <1>7, <1>t DEF RefillerCancelled
  <1>8. CASE LoadSupply
    BY <1>0, <1>8, <1>t DEF LoadSupply
  <1>9. CASE StoreSupply
    BY <1>0, <1>9, <1>t DEF StoreSupply
  <1>10. CASE AccountRefill
    BY <1>0, <1>10, <1>t DEF AccountRefill
  <1>11. CASE NotifyPrinters
    BY <1>0, <1>11, <1>t DEF NotifyPrinters, Broadcast
  <1> QED
    BY <1>1, <1>2, <1>3, <1>4, <1>5, <1>6, <1>7, <1>8, <1>9, <1>10, <1>11
    DEF RefillerActs, RefillerStep

LEMMA WakeReceiver ==
  ASSUME TypeInv, WakeInv, ReceiverActs
  PROVE  WakeInv'
  <1> USE DEF WakeInv, WaitInv, JoinInv, PastPrinters, PastRefiller, NoLostJobWakeup,
              NoLostSupplierWakeup, RequestPending, JobBroadcastPending, StopWillWake,
              shared, flags, jobQueueVars, refillQueueVars, paperVars, printerVars, refillerVars
  <1>0. UNCHANGED <<printer_pc, refiller_pc, refilling, stopper_pc, main_pc>>
    BY DEF ReceiverActs
  <1>t. /\ printer_pc \in [Printers -> PrinterLabels]
        /\ paper_refill_queue \in Seq(Printers)
        /\ job_queue \in Seq(Jobs)
        /\ job_queue_not_empty_cv \subseteq Printers
        /\ refill_needed_cv \subseteq Printers
        /\ refill_supplier_cv \subseteq {Refiller}
        /\ refilling \subseteq Printers
    BY DEF TypeInv, TypeOK

  <1>1. CASE CreateJob
    BY <1>0, <1>1, <1>t DEF CreateJob
  <1>2. CASE ReceiverCancelled
    BY <1>0, <1>2, <1>t DEF ReceiverCancelled
  <1>3. CASE ReceiverWakesUp
    BY <1>0, <1>3, <1>t DEF ReceiverWakesUp
  <1>4. CASE CheckTermination
    BY <1>0, <1>4, <1>t DEF CheckTermination
  <1>5. CASE Arrive
    BY <1>0, <1>5, <1>t DEF Arrive
  <1>6. CASE Admit
    BY <1>0, <1>6, <1>t DEF Admit, Enqueue
  <1>7. CASE DropJob
    BY <1>0, <1>7, <1>t DEF DropJob
  <1>8. CASE AccountArrival
    BY <1>0, <1>8, <1>t DEF AccountArrival, Broadcast
  <1>9. CASE FinishArrivals
    BY <1>0, <1>9, <1>t DEF FinishArrivals
  <1>10. CASE LastBroadcast
    BY <1>0, <1>10, <1>t DEF LastBroadcast, Broadcast
  <1> QED
    BY <1>1, <1>2, <1>3, <1>4, <1>5, <1>6, <1>7, <1>8, <1>9, <1>10
    DEF ReceiverActs, ReceiverStep

LEMMA WakeCatcher ==
  ASSUME TypeInv, WakeInv, CatcherActs
  PROVE  WakeInv'
  <1> USE DEF WakeInv, WaitInv, JoinInv, PastPrinters, PastRefiller, NoLostJobWakeup,
              NoLostSupplierWakeup, RequestPending, JobBroadcastPending, StopWillWake,
              shared, flags, jobQueueVars, refillQueueVars, paperVars, receiverVars, printerVars, refillerVars, StopperGoto
  <1>0. UNCHANGED <<receiver_pc, printer_pc, refiller_pc, refilling, main_pc>>
    BY DEF CatcherActs
  <1>t. /\ printer_pc \in [Printers -> PrinterLabels]
        /\ paper_refill_queue \in Seq(Printers)
        /\ job_queue \in Seq(Jobs)
        /\ job_queue_not_empty_cv \subseteq Printers
        /\ refill_needed_cv \subseteq Printers
        /\ refill_supplier_cv \subseteq {Refiller}
        /\ refilling \subseteq Printers
    BY DEF TypeInv, TypeOK

  <1>1. CASE SetFlags
    BY <1>0, <1>1, <1>t DEF SetFlags
  <1>2. CASE LockStatsToEmit
    BY <1>0, <1>2, <1>t DEF LockStatsToEmit
  <1>3. CASE EmitStopped
    BY <1>0, <1>3, <1>t DEF EmitStopped
  <1>4. CASE CancelReceiver
    BY <1>0, <1>4, <1>t DEF CancelReceiver, Cancel, Receiver, Stopper
  <1>5. CASE CancelRefillThread
    BY <1>0, <1>5, <1>t DEF CancelRefillThread, Cancel, Refiller, Stopper
  <1>6. CASE LockJobQueue
    BY <1>0, <1>6, <1>t DEF LockJobQueue
  <1>7. CASE LockStatsToDrain
    BY <1>0, <1>7, <1>t DEF LockStatsToDrain
  <1>8. CASE RemoveJob
    BY <1>0, <1>8, <1>t DEF RemoveJob, DequeueFront
  <1>9. CASE EndRemoval
    BY <1>0, <1>9, <1>t DEF EndRemoval, Broadcast
  <1>10. CASE WakePrintersAndRefiller
    BY <1>0, <1>10, <1>t DEF WakePrintersAndRefiller, Broadcast
  <1>11. CASE CancelledInSigwait
    BY <1>0, <1>11, <1>t DEF CancelledInSigwait
  <1>12. CASE KilledEmittingStop
    BY <1>0, <1>12, <1>t DEF KilledEmittingStop, Cancelled
  <1>13. CASE KilledRemovingJob
    BY <1>0, <1>13, <1>t DEF KilledRemovingJob, DequeueFront, Cancelled
  <1>14. CASE KilledInDebugMessage
    BY <1>0, <1>14, <1>t DEF KilledInDebugMessage, Cancelled
  <1> QED
    BY <1>1, <1>2, <1>3, <1>4, <1>5, <1>6, <1>7, <1>8, <1>9, <1>10, <1>11, <1>12, <1>13,
       <1>14
    DEF CatcherActs, CatcherStep, StopStep

LEMMA WakeMain ==
  ASSUME TypeInv, WakeInv, MainActs \/ SignalArrives \/ SpuriousReturn
  PROVE  WakeInv'
  <1> USE DEF WakeInv, WaitInv, JoinInv, PastPrinters, PastRefiller, NoLostJobWakeup,
              NoLostSupplierWakeup, RequestPending, JobBroadcastPending, StopWillWake,
              shared, flags, jobQueueVars, refillQueueVars, paperVars, receiverVars,
              printerVars, refillerVars
  <1>1. CASE MainActs
    BY <1>1 DEF MainActs, MainStep, MainGoto, JoinReceiver, JoinPrinters, JoinRefiller,
       CancelCatcher, JoinCatcher, FinalLog, Cancel
  <1>2. CASE SignalArrives
    BY <1>2 DEF SignalArrives, SigwaitReturns, StopperGoto
  <1>3. CASE SpuriousReturn
    BY <1>3 DEF SpuriousReturn, SpuriousWakeup
  <1> QED
    BY <1>1, <1>2, <1>3

LEMMA WakeStep == TypeInv /\ WakeInv /\ [Next]_vars => WakeInv'
  <1> SUFFICES ASSUME TypeInv, WakeInv, [Next]_vars PROVE WakeInv'
    OBVIOUS
  <1>1. CASE UNCHANGED vars
    BY <1>1 DEF vars, shared, flags, jobQueueVars, refillQueueVars, paperVars,
       receiverVars, printerVars, refillerVars, WakeInv, WaitInv, JoinInv,
       PastPrinters, PastRefiller, NoLostJobWakeup, NoLostSupplierWakeup,
       RequestPending, JobBroadcastPending, StopWillWake
  <1> QED
    BY <1>1, WakePrinter, WakeRefiller, WakeReceiver, WakeCatcher, WakeMain DEF Next

LEMMA WakeAlways == Spec => []WakeInv
  <1>1. Init => TypeInv /\ WakeInv
    BY TypeInit, WakeInit
  <1>2. TypeInv /\ WakeInv /\ [Next]_vars => (TypeInv /\ WakeInv)'
    BY TypeInvStep, WakeStep
  <1> QED
    BY <1>1, <1>2, PTL DEF Spec

(* A printer blocked for a job finds the queue empty, or the receiver about*)
(* to broadcast; and once the jobs have all arrived a broadcast is to come.*)
THEOREM JobWakeups == Spec => []NoLostJobWakeup
  BY WakeAlways, PTL DEF WakeInv

(* The refiller is blocked only while nobody asks for paper, and the exit  *)
(* it has to make is still to be announced to it.                          *)
THEOREM SupplierWakeups == Spec => []NoLostSupplierWakeup
  BY WakeAlways, PTL DEF WakeInv

(* While there is a refiller, a printer blocked for paper has a request    *)
(* that the refiller has not finished.                                     *)
THEOREM RequestsKept == Spec => []RequestPending
  BY WakeAlways, PTL DEF WakeInv
=============================================================================
