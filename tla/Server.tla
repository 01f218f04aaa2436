-------------------------------- MODULE Server ------------------------------
(***************************************************************************)
(* The websocket server: src/server.c.  One event loop takes the messages  *)
(* of the client; "start" creates a runner thread, which creates the       *)
(* threads of a simulation, joins them and says that nothing is running any*)
(* more; "stop" runs the stop procedure on the event loop itself.  The one *)
(* simulation context is initialised when the server starts and never      *)
(* again: every simulation finds the flags, queues and counters as the one *)
(* before it left them.                                                    *)
(*                                                                         *)
(* Undefined in the code: pthread_cancel of a thread id that names no      *)
(* thread.  An id that was never set is a null pointer, and the process    *)
(* dies.  The id of a thread that was joined may still point at memory that*)
(* says the thread has ended, and then nothing happens; or the process dies*)
(* or the id is by then that of another thread, which is cancelled in its  *)
(* place.  Both of these are crashed: nothing is modelled or claimed after.*)
(* Threads of one simulation are created in the order receiver, refiller,  *)
(* printers.  The waits return only when they are woken: spurious wakeups  *)
(* are in Cli.                                                             *)
(***************************************************************************)
EXTENDS Simulation

CONSTANTS
  MaxStarts,     \* a bound on the simulations that are started
  MaxStops       \* a bound on the "stop" messages

ASSUME BoundsAssumption == MaxStarts \in Nat /\ MaxStops \in Nat

VARIABLES
  runner_pc,     \* of the runner, "off" when there is none
  is_running,
  starts,        \* how many simulations were started
  stops,         \* how many "stop" messages were handled
  joinable,      \* of receiver and refiller, those created and not joined
  crashed

serverVars == <<runner_pc, is_running, starts, stops, joinable, crashed>>

vars == <<shared, receiverVars, printerVars, refillerVars, stopper_pc, serverVars>>

RunnerLabels == {"off", "create_receiver", "create_refiller", "create_printers",
                 "join_receiver", "join_printers", "join_refiller", "clear_running"}

ServerTypeOK ==
  /\ runner_pc \in RunnerLabels
  /\ is_running \in BOOLEAN
  /\ starts \in 0..MaxStarts
  /\ stops \in 0..MaxStops
  /\ joinable \subseteq {Receiver, Refiller}
  /\ crashed \in BOOLEAN

Init ==
  /\ SharedInit
  /\ receiver_pc = "off" /\ job_id = 0 /\ in_hand = NoJob
  /\ printer_pc = [p \in Printers |-> "off"]
  /\ flag_read = [p \in Printers |-> FALSE]
  /\ job = [p \in Printers |-> NoJob]
  /\ paper_loaded = [p \in Printers |-> 0]
  /\ refiller_pc = "off" /\ refilling = {} /\ papers_needed = 0 /\ supply_loaded = 0
  /\ StopperInit
  /\ runner_pc = "off"
  /\ is_running = FALSE
  /\ starts = 0
  /\ stops = 0
  /\ joinable = {}
  /\ crashed = FALSE

-----------------------------------------------------------------------------
(* The event loop takes a message when it is not busy with a stop.         *)

LoopIsFree == stopper_pc = "idle"

(* Mutant of MayStart: is_running is not looked at.                        *)
MayStartAlways == TRUE

MayStart == ~is_running

(* "start"; while a simulation runs it changes nothing.                    *)
StartSimulation ==
  /\ LoopIsFree
  /\ MayStart
  /\ starts < MaxStarts
  /\ starts' = starts + 1
  /\ is_running' = TRUE
  /\ runner_pc' = "create_receiver"
  /\ UNCHANGED <<shared, receiverVars, printerVars, refillerVars, stopper_pc, stops,
                 joinable, crashed>>

(* "stop", whether or not a simulation runs.                               *)
StopRequested ==
  /\ LoopIsFree
  /\ stops < MaxStops
  /\ stops' = stops + 1
  /\ StopperGoto("idle", "set_flags")
  /\ UNCHANGED <<shared, receiverVars, printerVars, refillerVars, runner_pc,
                 is_running, starts, joinable, crashed>>

(* Whether job_receiver_thread and paper_refill_thread were ever set.      *)
ReceiverIdSet == receiver_pc # "off"
RefillerIdSet == refiller_pc # "off"

StopActs ==
  /\ StopStep
  /\ stopper_pc = "cancel_receiver" => ReceiverIdSet
  /\ stopper_pc = "cancel_refiller" => RefillerIdSet
  /\ UNCHANGED <<receiverVars, printerVars, refillerVars, serverVars>>

CancelCrashes ==
  /\ \/ stopper_pc = "cancel_receiver" /\ Receiver \notin joinable
     \/ stopper_pc = "cancel_refiller" /\ Refiller \notin joinable
  /\ crashed' = TRUE
  /\ UNCHANGED <<shared, receiverVars, printerVars, refillerVars, stopper_pc,
                 runner_pc, is_running, starts, stops, joinable>>

StopReplied ==
  /\ StopperGoto("exited", "idle")
  /\ UNCHANGED <<shared, receiverVars, printerVars, refillerVars, serverVars>>

LoopActs == StopActs \/ CancelCrashes \/ StopReplied

-----------------------------------------------------------------------------
(* The runner.  A cancellation pending for the thread of an earlier        *)
(* simulation does not touch its successor.                                *)

RunnerGoto(from, to) ==
  /\ runner_pc = from
  /\ runner_pc' = to
  /\ UNCHANGED <<starts, stops, crashed>>

CreateReceiver ==
  /\ RunnerGoto("create_receiver", "create_refiller")
  /\ receiver_pc' = "loop" /\ job_id' = 0 /\ in_hand' = NoJob
  /\ cancel_requested' = cancel_requested \ {Receiver}
  /\ joinable' = joinable \union {Receiver}
  /\ UNCHANGED <<owner, flags, jobQueueVars, refillQueueVars, paperVars, stats,
                 printerVars, refillerVars, is_running>>

CreateRefiller ==
  /\ RunnerGoto("create_refiller", "create_printers")
  /\ refiller_pc' = "top" /\ refilling' = {} /\ papers_needed' = 0
  /\ supply_loaded' = 0
  /\ cancel_requested' = cancel_requested \ {Refiller}
  /\ joinable' = joinable \union {Refiller}
  /\ UNCHANGED <<owner, flags, jobQueueVars, refillQueueVars, paperVars, stats,
                 receiverVars, printerVars, is_running>>

(* The printers are locals of the runner: each simulation has new ones,    *)
(* full of paper.                                                          *)
CreatePrinters ==
  /\ RunnerGoto("create_printers", "join_receiver")
  /\ printer_pc' = [p \in Printers |-> "top"]
  /\ flag_read' = [p \in Printers |-> FALSE]
  /\ job' = [p \in Printers |-> NoJob]
  /\ paper_loaded' = [p \in Printers |-> 0]
  /\ current_paper_count' = [p \in Printers |-> PaperCapacity]
  /\ total_papers_used' = [p \in Printers |-> 0]
  /\ UNCHANGED <<owner, flags, cancel_requested, jobQueueVars, refillQueueVars, stats,
                 receiverVars, refillerVars, is_running, joinable>>

JoinReceiver(from, to) ==
  /\ RunnerGoto(from, to)
  /\ receiver_pc = "exited"
  /\ joinable' = joinable \ {Receiver}

JoinPrinters(from, to) ==
  /\ RunnerGoto(from, to)
  /\ \A p \in Printers : printer_pc[p] = "exited"
  /\ UNCHANGED joinable

JoinRefiller(from, to) ==
  /\ RunnerGoto(from, to)
  /\ refiller_pc = "exited"
  /\ joinable' = joinable \ {Refiller}

(* Mutant of JoinThreads: the refiller is joined before the printers.      *)
JoinRefillerFirst ==
  /\ \/ JoinReceiver("join_receiver", "join_refiller")
     \/ JoinRefiller("join_refiller", "join_printers")
     \/ JoinPrinters("join_printers", "clear_running")
  /\ UNCHANGED <<shared, receiverVars, printerVars, refillerVars, is_running>>

JoinThreads ==
  /\ \/ JoinReceiver("join_receiver", "join_printers")
     \/ JoinPrinters("join_printers", "join_refiller")
     \/ JoinRefiller("join_refiller", "clear_running")
  /\ UNCHANGED <<shared, receiverVars, printerVars, refillerVars, is_running>>

ClearRunning ==
  /\ RunnerGoto("clear_running", "off")
  /\ is_running' = FALSE
  /\ UNCHANGED <<shared, receiverVars, printerVars, refillerVars, joinable>>

RunnerStep ==
  /\ \/ CreateReceiver
     \/ CreateRefiller
     \/ CreatePrinters
     \/ JoinThreads
     \/ ClearRunning
  /\ UNCHANGED stopper_pc

-----------------------------------------------------------------------------

ReceiverActs   == ReceiverStep
                  /\ UNCHANGED <<printerVars, refillerVars, stopper_pc, serverVars>>
PrinterActs(p) == PrinterStep(p)
                  /\ UNCHANGED <<receiverVars, refillerVars, stopper_pc, serverVars>>
RefillerActs   == RefillerStep
                  /\ UNCHANGED <<receiverVars, printerVars, stopper_pc, serverVars>>

ThreadActs ==
  /\ ~crashed
  /\ \/ ReceiverActs
     \/ \E p \in Printers : PrinterActs(p)
     \/ RefillerActs
     \/ RunnerStep
     \/ LoopActs

Messages == ~crashed /\ (StartSimulation \/ StopRequested)

Next == ThreadActs \/ Messages

Spec == Init /\ [][Next]_vars

(* While some thread can go on, some thread does; messages need not come.  *)
ProgressSpec == Spec /\ WF_vars(ThreadActs)

-----------------------------------------------------------------------------
(* Properties.                                                             *)

(* The variables range over their types, and the job queue stays within    *)
(* queue_capacity although a simulation may start with one that is full.   *)
TypeOK ==
  /\ SharedTypeOK
  /\ ReceiverTypeOK
  /\ PrinterTypeOK
  /\ RefillerTypeOK
  /\ StopperTypeOK
  /\ ServerTypeOK
  /\ Len(job_queue) <= QueueCapacity

Gone(pc) == pc \in {"off", "exited"}

(* The threads of two simulations never run side by side: is_running is    *)
(* cleared only when every thread of a simulation has ended, and the runner*)
(* of the next one replaces none that is alive.                            *)
OneSimulation ==
  /\ is_running <=> runner_pc # "off"
  /\ runner_pc \in {"off", "create_receiver"} => Gone(receiver_pc)
  /\ runner_pc \in {"off", "create_receiver", "create_refiller"} => Gone(refiller_pc)
  /\ runner_pc \in {"off", "create_receiver", "create_refiller", "create_printers"} =>
       \A p \in Printers : Gone(printer_pc[p])

(* The counters balance in every state and across simulations.  A job is   *)
(* counted in total_jobs_arrived once when it arrives and once more when it*)
(* is dropped; it is in the receiver's hands, queued, at a printer, served,*)
(* dropped or removed, and nowhere twice, whenever a stop comes.           *)
CountersBalance ==
  stats.total_jobs_arrived - stats.total_jobs_dropped
    = (IF receiver_pc \in {"admit", "drop"} THEN 1 ELSE 0)
      + Len(job_queue) + Cardinality(JobsInService) + JobsSettled

(* Every simulation ends, and the server is ready for another, unless a    *)
(* printer is left waiting for paper or a stop has killed the process.     *)
EverySimulationEnds ==
  is_running ~> (~is_running \/ LeftWithoutPaper \/ crashed)

(* A printer cancels the refiller (src/printer.c:152) when the refiller may*)
(* long have ended, all jobs being served.  Its thread id is one that may  *)
(* be cancelled even then: the runner has created the refiller before any  *)
(* printer and does not join it while a printer may still come to that.    *)
(* Nothing of the kind is true of the cancels of a stop.                   *)
RefillerThereToCancel ==
  \A p \in Printers : printer_pc[p] = "cancel_refiller" => Refiller \in joinable

(* A request for paper that a simulation leaves in paper_refill_queue      *)
(* points to a printer that is gone.  It is never followed: no refiller but*)
(* that of the first simulation takes up any request.                      *)
StaleRequestsIgnored ==
  [][starts > 1 => refilling' \subseteq refilling]_vars

(* The server "drives the print simulation" and accepts "start"            *)
(* (src/server.c:1-2): when no "stop" was sent and nothing runs, the jobs  *)
(* of every simulation that was started are served or dropped.             *)
StartedSimulationsServe ==
  ~is_running /\ ~g_terminate_now => JobsSettled = starts * NumJobs
=============================================================================
