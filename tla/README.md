# A verification development for ConcurrentPrintServiceAPI

The repository simulates a print service: a receiver thread produces jobs, two
printer threads take them from a bounded queue, a refiller thread brings paper,
and a stop (SIGINT, or a websocket message) may end everything early. This
directory holds TLA+ modules that model it, TLC configurations that check them,
and TLAPS proofs. Paths below are relative to the repository.

## 1. Inventory of the system

| Part | Code | State it keeps | Operations |
|---|---|---|---|
| Shared state | `src/server.c` (`simulation_context_t`), locals of `main` in `src/cli.c` | `g_terminate_now`, `all_jobs_arrived`, `all_jobs_served`, job queue, refill queue, paper counts, statistics, four mutexes, three condition variables | POSIX lock, wait, broadcast, cancel; queue and counter updates |
| Job receiver | `src/job_receiver.c` | loop counter, the job allocated | create, sleep (cancellable), check for termination, arrive, drop or enqueue, last broadcast |
| Printers | `src/printer.c` | job in service, paper count | look, wait for a job, ask for paper and wait, print, depart, exit |
| Paper refiller | `src/paper_refiller.c` | printer being refilled, papers needed | wait for a request, take it, refill (cancellable sleep), account, notify, exit |
| Stop procedure | `src/signalcatcher.c`; a second copy in `src/server.c` (`request_stop_simulation`) | its own progress | set flags, log, cancel receiver and refiller, empty the job queue, wake everybody |
| Command line program | `src/cli.c` | `main`'s progress | create threads, join them, cancel the catcher, final log |
| Server | `src/server.c` | `is_running`, thread ids | start, stop, status, runner thread |
| WebSocket bridge | `src/server.c`, from `src/websocket_handler.c` | `g_ws_conn_id`, the pipe behind `mg_wakeup` | open, close, read the id, hand a frame over, deliver it |
| Linked list, timed queue | `src/linked_list.c`, `src/timed_queue.c` | nodes, counts, time of last change | append, pop, remove, clear, find, ... |
| Console and websocket handlers, log router | `src/console_handler.c`, `src/websocket_handler.c`, `src/log_router.c` | reference times; they advance the statistics | one function per event |
| Statistics | `src/simulation_stats.c` | none | averages of what the handlers add up, formatting |
| Preprocessing | `src/preprocessing.c` | the parameters | `process_args` |

Interaction. The threads share everything by pointer. `job_queue_mutex` guards
the job queue, `paper_refill_queue_mutex` the refill queue, `stats_mutex` the
counters, `simulation_state_mutex` the flags; `stats_mutex` is asked for with
`job_queue_mutex` held (receiver, stop procedure). Receiver to printers:
`job_queue_not_empty_cv`. Printer to refiller: the refill queue and
`refill_supplier_cv`. Refiller to printers: `refill_needed_cv`. A printer that
leaves its loop sets `all_jobs_served`, wakes everybody and cancels the
refiller. The stop procedure cancels receiver and refiller, which die only in
their sleeps, and `main` cancels the signal catcher, which can die anywhere.
On the server every log event becomes a frame that a simulation thread hands to
the event loop; the event loop publishes frames itself while it stops a
simulation.

What is hard here: waits whose predicate changes under another mutex; a wait
without a predicate (`src/printer.c:74`); a paper count that printer and
refiller update with no mutex; a pointer used after the unlock; cancellation
that may leave a lock held or a procedure half done; a stop that overtakes a job on its way into the
queue; a server that reuses one context for every simulation; frames that pass
a connection id read earlier, a pipe that may be full, and clients that come and
go. The hazards are listed with their lines in `PROJECT.json`.

What makes each part correct: jobs are never lost nor counted twice and are
served in order (receiver, printers, stop); no wakeup is lost (condition
variables); paper stays within its capacity (printer, refiller); the program
ends (all); one simulation at a time (server); the pointers implement a
sequence (list); the integral of the queue length is exact (timed queue); the
report is consistent with itself (handlers, statistics); the parameters accepted
are those the threads rely on (preprocessing); the newest client gets the log,
in order (bridge).

## 2. Modules

| Module | Models |
|---|---|
| `SimulationState` | the shared variables; mutexes, condition variables, cancellation, spurious wakeups; queue and counter operators |
| `JobReceiver`, `Printer`, `PaperRefiller` | one thread function each, one action per step between two points where another thread can be seen |
| `StopProcedure` | the stop, shared by the signal catcher and the server |
| `SignalCatcher` | `sigwait`, the stop, and the deaths by cancellation |
| `Simulation` | the threads together; the properties that hold whoever controls them |
| `JobFlow` | the abstract specification: what a simulation may do to its jobs |
| `Cli` | `main` of `src/cli.c` composed with all threads; `Spec`, `ProgressSpec`, properties, and the mapping to `JobFlow` |
| `CliClaims` | what comments and docs say and the code does not do |
| `MCCli` | instance of `Cli` for TLC, with printer symmetry |
| `Server` | event loop and runner of `src/server.c` composed with the same threads |
| `WsBridge` | connections, `g_ws_conn_id`, frames from thread to client |
| `Preprocessing` | `process_args`, one option at a time |
| `Statistics`, `MCStatistics` | what the log handlers add up along a clock, and the averages made of it |
| `Deque` | the abstract sequence that `include/linked_list.h` promises |
| `LinkedList` | `src/linked_list.c` pointer by pointer |
| `TimedQueue`, `MCTimedQueue` | `src/timed_queue.c` on top of it, the area integral of the handlers, the refinement of `Deque` |
| `SimulationProofs` | lemmas about the types of the threads, used for `Cli` and `Server` |
| `CliProofs`, `CliJobProofs` | theorems about `Cli`: types, paper and wakeups in the first, what becomes of the jobs in the second |
| `ServerProofs`, `PreprocessingProofs`, `StatisticsProofs`, `TimedQueueProofs`, `WsBridgeProofs` | theorems about the module each is named after |

How state and actions correspond to the code:

* Variables carry the names of the C fields. A program counter per thread
  (`receiver_pc`, `printer_pc[p]`, `refiller_pc`, `stopper_pc`, `main_pc`,
  `runner_pc`) stands for the place in the thread function.
* A critical section that calls nothing blocking is one action guarded by
  `Unlocked(m)`. `owner[m]` changes only where a thread holds one mutex while
  it asks for another or loops inside it, or where it can be cancelled inside.
  `simulation_state_mutex` covers straight-line code only; its sections are
  single actions and it has no owner. A *read* of a flag and its use under
  another mutex are separate actions (`ReadTerminate` and `LeaveLoop`, for
  instance), so that the flag can be stale.
* A condition variable is the set of threads blocked on it. `Broadcast`
  empties it; the woken thread then competes for the mutex in a step of its own
  (`JobWaitReturns`, `PaperWaitReturns`, `RequestWaitReturns`).
* Data races are explicit: `current_paper_count -= n` is `LoadPaper` and
  `StorePaper`, `+= n` is `LoadSupply` and `StoreSupply`, and `ComputeNeed`
  reads the count once more. `job[p]` keeps the pointer a printer uses
  after its unlock.
* Cancellation is a set of threads with a request pending. Receiver and refiller
  act on it in their sleep only; the catcher in `sigwait`, in the `printf`
  of two handlers, where it leaves stdout locked (`StdoutLocked`), and in its two
  messages of `-debug` (`Debug`), where it leaves the rest of the stop undone
  (`cut_short`).
* `joinable` of `Server` holds the receiver and the refiller while they are
  created and not joined: their ids may be cancelled. To cancel the id of a
  joined thread may have no effect or bring the process down (`crashed`, which
  stands for anything that undefined behaviour can do, a reused id that names
  another thread included); an id that was never set always does the latter. In
  `Cli` it has no effect.
* `SpuriousReturn` is an action of `Cli` only. `Server` leaves spurious wakeups out:
  `EverySimulationEnds` is checked under the least fairness there is, and a wait
  that returns unprompted over and over would keep every other thread from
  running (`cli_liveness` has `SpuriousWakeups = 0` for the same reason). What a
  spurious wakeup does to the same threads is in `cli_stop`.
* Jobs are records of an id and the paper they need; times and durations are
  not modelled in the thread modules. `TimedQueue` and `Statistics` have a clock
  that never runs back.
* `Statistics` reduces the threads to the moments at which they read the clock
  and the guards between them; it owns every time and counter of the report,
  and the averages are exact fractions. `program` says whether the stop comes
  from the catcher of `cli.c`, which is joined before the end, or from the event
  loop of `server.c`, which is not. Reading the clock and writing the duration
  are two steps on both sides (`ReadStop`, `LogStopped`; `ReadEnd`, `LogEnd`).
* A duration that the code keeps in an int passes through `AsInt`, an int of
  `IntRange` values: the gap between arrivals, the time in the system and its
  square, the time of service, the wait for paper. The totals they are added to
  are unsigned long in the code; a negative total of the model stands for that
  value modulo 2^64. `ints_fit` remembers whether every such duration has fitted
  so far. The wait in the queue and the area stay unsigned long throughout.
* `WsBridge` reduces a simulation to its frames: the runner publishes the first
  and the last ones, workers those in between. To publish is two steps, the read
  of `g_ws_conn_id` and `mg_wakeup`. The connection ids of the listener and of
  the pipe are left out. How the thread modules reach these points is in
  `Server`.
* `Preprocessing` has the whole body of the option loop as one action, with the
  parameters as a function of the field's name; `given` remembers what the user
  asked for.
* `JobFlow` sees of `Cli` how many jobs the receiver has decided on, the ids in
  the queue, the id at each printer, the three counters and `g_terminate_now`.
* `malloc` succeeds in the thread modules. In `LinkedList` it may fail.

## 3. Runs

Every passing run sets `CHECK_DEADLOCK FALSE` because the program really stops: it
ends, or its message and time bounds are used up. `EndsOrHangsAsKnown` and
`EverySimulationEnds` are the statements about ending, and say which final
states are allowed.

| Run | Instance | Shows |
|---|---|---|
| `cli_stop` | 2 printers, 2 jobs, queue of 2, capacity 2, jobs of 2 sheets, SIGINT at any moment, `-debug` set, spurious wakeups (944 thousand states) | `JobsAccounted`, `LeftByStop`, `PaperWithinCapacity`, `NoLostJobWakeup`, `NoLostSupplierWakeup`, `ImplementsJobFlow` through a stop |
| `cli_normal` | 3 jobs of 1 or 2 sheets, queue of 2, capacity 2, no SIGINT | the same accounting with a full queue and a drop; `ServiceInOrder`; `RequestPending` with two printers short of paper at once; `ImplementsJobFlow` |
| `cli_liveness` | 2 jobs, queue and capacity of 1, SIGINT possible | `EveryJobSettled`, `EndsOrHangsAsKnown` |
| `server` | 1 printer, 2 jobs, 3 simulations, 1 stop | `OneSimulation`, `CountersBalance`, `NoLostJobWakeup`, `RefillerThereToCancel`, `StaleRequestsIgnored`, `EverySimulationEnds` |
| `timed_queue` | 3 nodes, 2 objects, clock to 3 | `WellFormed`, `ImplementsDeque` (refinement), `AreaIsIntegral` |
| `statistics` | 2 printers, 3 jobs, queue of 2, clock to 2, ints of 4 values, both programs (6.8 million states) | `WaitsAddUp` (Little's law), `InterArrivalsTelescope`, `ReportInRange` |
| `ws_bridge` | 1 worker, 2 connections, 2 simulations, 2 messages, 1 frame per worker, pipe of 2 (381 thousand states) | `NewestIsActive`, `FramesInOrder`, `NoStaleFrames`, `WholeLog`, `NothingBlocks` |
| `cli_left_waiting` | violation | a printer that reaches the refill queue after the last broadcast waits for ever |
| `cli_job_named` | violation | the job a printer names when it asks for paper may be printed and freed |
| `cli_paper_conserved` | violation | a stale refill request loses an update of the paper count |
| `server_restart` | violation | the second simulation of a server prints nothing |
| `preprocessing_bounds` | violation | two bounds given in order are not the bounds of the simulation, because they are put in order after each option |

Why the bounds are enough. Two printers is what the code has. Two jobs and a
queue of two give printers that compete for a job and a stop that meets zero,
one or two queued jobs while the receiver is on its way with another; three jobs
and a queue of two give a full queue, a drop, order in the queue and a stale
request behind a job in service. A capacity of two with jobs of one or two
sheets (`cli_normal`) gives a printer that is short for one job and not for
another; with jobs of two only (`cli_stop`) a printer that takes both is short
for the second, which is enough for a stop and a stale request to meet a refill.
`SpuriousWakeups` lets a wait return unprompted only while fewer requests than
that are in the refill queue: otherwise a printer could ask without end. In
`server`, one printer is enough because the interaction of two is in the other
runs; the third simulation is the first to find both leftover jobs and flags
set. `MaxStarts`, `MaxStops` and `MaxTime` bound counters that the code leaves
unbounded. Three nodes give a list with an inner node, and popped nodes that are
still held while others move. In `statistics` three moments are enough to tell
arrival, entry, departure, a stop and the end apart, and a duration of 2 does not
fit an int of 4 values (-2 to 1) while a duration of 1 does: `ints_fit` takes both
values, and so does `DurationPutBack`. In `ws_bridge` two connections give the
old and the new client, two simulations a frame that comes too late, and a pipe
of two is full while the runner, the worker and the event loop each hold a frame.
Symmetry (`PrinterSymmetry`, `Interchangeable`) is used in runs of invariants
and action properties only; `ImplementsJobFlow` and `ImplementsDeque` are of the
form `Init /\ [][Next]_v`, without fairness.

Fairness. `ProgressSpec` of `Cli` and `Server` is the least there is to say:
while some thread can step, some thread does. It follows from the scheduling of
every thread by the operating system, and what `cli_liveness` and `server` show
holds under anything stronger. `FairSpec` of `WsBridge` needs more, because
messages can go on for ever beside a frame: weak fairness of the runner, of each
`mg_wakeup` begun and of a stop on the event loop. It assumes nothing of the
workers, which may never end (`NoPrinterLeftWaiting` is the run about that), nor
that the pipe is ever emptied; so `NothingBlocks` says that handing frames over
blocks nobody, and not that a simulation ends. No fairness is given
to SIGINT, to messages, to connections or to spurious wakeups.

## 4. What is proved

All invariants and action properties of the passing runs, and both refinements,
are theorems. For every number of printers (one at least), jobs and sheets, every
capacity, with and without SIGINT, `-debug` and spurious wakeups, from `ParamsAssumption`, `PrintersAssumption`,
`InterruptibleAssumption` and `DebugAssumption` alone, TLAPS proves that `Spec` of `Cli` implies

| Theorem | Property | Along |
|---|---|---|
| `TypeCorrect` | `TypeOK` | `TypeInv`: types, and what the receiver's program counter says of the job it holds |
| `PaperBounded` | `PaperWithinCapacity` | `PaperInv`: a printer in service loaded at least as much paper as its job needs, and what the refiller loaded and needs never exceed the capacity, whichever of the two stores comes first |
| `JobsConserved` | `JobsAccounted` | inductive together with the types; the cardinality of the set of printers in service changes by one with `TakeJob` and `Depart` |
| `ServedInOrder` | `ServiceInOrder` | `OrderInv`: ids in the queue ascend and are below the id the receiver works on |
| `JobWakeups`, `SupplierWakeups`, `RequestsKept` | `NoLostJobWakeup`, `NoLostSupplierWakeup`, `RequestPending` | `WakeInv`: who holds which mutex at which label, who is in which wait set, and that after a join the joined thread has ended |
| `AtMostOneLeft` | `LeftByStop` | `LeftInv`: without a stop no printer leaves before the jobs have run out, the receiver ends the arrivals only when it is past its last job, what is in the queue after the removal is the job the receiver was letting in, and `main` is done only after the joins, so that a stop that was not cut short has got to the queue; with `OrderInv` that is one job at most |
| `FlowImplemented` | `ImplementsJobFlow` | `FlowInv`: the initial states map to initial states, and each action to one step of `JobFlow` or to a stutter; it needs the order of the ids in the queue, that a printer in service holds a job, and that whoever removes jobs has set the flag |

From the same assumptions and `BoundsAssumption`, for every number of starts and
stops, `Spec` of `Server` implies

| Theorem | Property | Along |
|---|---|---|
| `ServerTypeCorrect` | `TypeOK` | the thread lemmas of `SimulationProofs`, which `Cli` uses too |
| `SimulationsOneByOne` | `OneSimulation` | `LifeInv`: what the runner has joined, or has not created yet, is gone |
| `PrintersCancelRefiller` | `RefillerThereToCancel` | `JoinableInv`: the refiller's id is good from its creation, before any printer exists, to its join, after all of them; with `LifeInv` |
| `StaleRequestsStay` | `StaleRequestsIgnored` | `FlagsInv`: a refiller ends only once a flag is set, and no flag is ever reset |
| `BalanceKept` | `CountersBalance` | inductive together with the types and `LifeInv`: a receiver that is created anew has no job in its hands |
| `ServerJobWakeups` | `NoLostJobWakeup` | `WakeInv`: a blocked printer is at its wait; `LifeInv` says that a new simulation finds no printer blocked |

And about the sequential parts:

| Theorem | Property | Along |
|---|---|---|
| `ParamsAccepted` | `AcceptedParams`: what `process_args` accepts satisfies `ParamsAssumption`, for any options | `ParamsInv`: the same of the parameters before the end of the options |
| `StatisticsInRange` | `ReportInRange`: in part with durations too long for an int, and for both orders of the stop and the end of a server | `Inv`: types, the order of the times kept in a job and a printer, what each printer's times add up to while every duration fits an int, the totals, and whose reading the duration is; from `CapacityAssumption` |
| `StatisticsTypeCorrect` | `TypeOK` of `Statistics` | the same `Inv` |
| `GapsTelescope` | `InterArrivalsTelescope` | `Gaps`: between the arrival of a job and its admission or drop the sum exceeds the last arrival by no more than the arrival before it, so that counting the last gap once more stays within the bound |
| `LittlesLaw` | `WaitsAddUp` | `WaitsInv`: each change of the queue adds to the area its length times the time since the last change, and that is what the sum of the waits of the queued jobs grows by; a printer that holds a job is serving or about to |
| `QueueTypeCorrect`, `LinksHoldTogether` | `TypeOK`, `WellFormed` of `TimedQueue` | `QInv`: some function c counts the list through from head to tail without a repetition, hits exactly the members, and both links of every node agree with it (`Linked`) |
| `AreaUnderQueueLength` | `AreaIsIntegral` | inductive together with `QInv` |
| `DequeImplemented` | `ImplementsDeque` | each call is one step of `Deque` or a stutter: where a node is linked in or taken out, c shifts by one (`Inserted`, `Without`) |
| `BridgeTypeCorrect` | `TypeOK` of `WsBridge` | the pipe takes a frame only while there is room, and `is_running` follows the runner |
| `ActiveClient` | `NewestIsActive` | `ConnInv`: ids are given out in ascending order and none is used twice |
| `NothingStale` | `NoStaleFrames` | `HeardInv`: the same of every frame in a hand or in the pipe, each of which goes to a client that was active when it was published |
| `SentInOrder` | `FramesInOrder` | `OrderInv`: what is received comes before what is in the pipe, that before what is in a hand, and that before what the thread publishes next; the joins separate the frames of the workers from the last ones of the runner |
| `NothingElseLost` | `WholeLog` | `LogInv`: as long as one client is the audience, every frame in a hand is addressed to it |

Few of the invariants are inductive on their own: the wakeup properties need to
know that a thread at a label inside a critical section owns the mutex, the paper
bound needs the locals of both racing threads, and the averages need the times of
the jobs that are not finished. TLC checked the strengthened invariants first.

`PaperBounded` and the run `cli_paper_conserved` together say what the race on
the paper count can do: it can lose sheets, it cannot make the count negative or
more than full. `ParamsAccepted` says that the assumption the theorems about the
threads start from is what the program establishes. It is about the values as
`atoi` and `atof` return them, and `-arr` is outside it (see below).

The theorems of `TimedQueueProofs` need `NodesAssumption`, `DataAssumption` and
`TimeAssumption` (the nodes are finitely many and distinct from the sentinels and
NULL), those of `WsBridgeProofs` need `BridgeAssumption` (the bounds are natural
numbers, the threads finitely many and distinct). Both hold for any bounds, that
is for any behaviour of the code, however long.

Two arguments go by induction over data: that counting a list through is what
`Chain` computes, and that a sum over a finite set changes by what one of its
terms changes. The induction theorems of the library take an operator as a
parameter, which the provers cannot instantiate; the same is said with sets
instead. A set of natural numbers that is not empty has a least member, a family
of finite sets has a smallest one (both from the well-foundedness theorems of
the library), and what fails at the least member or in the smallest set would
fail below it. `StatisticsProofs` proves in this way what it needs of
`FoldFunction` (`SumAdds`, `SumChanged`, `SumAppended`, `SumOfTail`,
`SumRaised`); it is why `CapacityAssumption` says that `Printers` is finite.

Only model-checked: the liveness properties `EveryJobSettled`,
`EndsOrHangsAsKnown`, `EverySimulationEnds` and `NothingBlocks`, because
fairness and ENABLED are out of the reach of TLAPS; and the five violations.

## 5. Where code and documentation disagree, without a run

* `total_jobs_arrived` counts a dropped job twice (`src/console_handler.c:89`,
  called for the arrival and for the drop), although
  `include/simulation_stats.h:10` calls it the count of all jobs that entered;
  `CountersBalance` states what it does count.
* `max_job_queue_length` is compared before the enqueue
  (`src/job_receiver.c:126`, `:147`) and stays one short of the peak.
* `list_find(list, NULL)` returns the tail sentinel of a list that is not empty
  (`src/linked_list.c:99`), although the header says NULL if not found
  (`include/linked_list.h:104`). `Deque` says so (`FindNull`): an answer is the
  object of the node given back, or none, and here it is the sentinel's, which is
  a null pointer. `ImplementsDeque` therefore is the promise of the header but for
  this call, which the program never makes.
* The catcher that is cancelled while it logs a late SIGINT leaves stdout locked
  and `main` blocks in its final log (`StdoutLocked` in `EndsOrHangsAsKnown`).
* With `-debug`, the catcher of a late SIGINT may be cancelled in the messages at
  `src/signalcatcher.c:43` and `:45`. `main` then ends with the queue not emptied:
  up to `-q` jobs are left, counted neither as served nor as removed
  (`cut_short` in `LeftByStop`).
* The websocket handler never advances `printer1_paper_used` and
  `printer2_paper_used`.
* `process_args` lets through a job that needs more paper than a printer holds
  (`-papers_upper` above `-p_cap`). It is never served and its printers ask for
  paper for ever; `EveryJobSettled` is checked where this cannot happen.
* Otherwise a stop may leave one job in the queue, counted neither as served nor as
  `total_jobs_removed`, which `include/simulation_stats.h:13` calls the count of
  the jobs removed by a premature termination. `LeftByStop` says it is one at
  most, and which.
* "stop" before the first "start", or after the end of a simulation, cancels ids
  that name no thread, or another one if the id was given out again
  (`src/server.c:212`): `crashed`. Nothing in the code excludes it, and no
  property does. A late SIGINT does the same to the receiver that `main` has
  joined (`src/signalcatcher.c:44`). A stop while nothing has run also computes
  a duration from a reference time of 0.
* Once a job is in the system for more than 46 ms, its squared time wraps
  (`src/console_handler.c:171`). At the default parameters every job prints for
  1.25 s at least, so that the standard deviation of the report never means
  anything. No property is about it.
* Durations of more than 35 minutes do not fit an int and turn negative
  (`src/console_handler.c:87`, `:169`, `:174`, `src/printer.c:79`); the unsigned
  totals they are added to, and the averages, mean nothing then. This is the
  condition `ints_fit` of `ReportInRange`, `TypeOK` and `InterArrivalsTelescope`.
* The server does not join a stop that is still going on. It may write the
  duration (`src/server.c:209`) from a reading of the clock that is older than
  that of the end of the simulation (`:180`), after the end has written its own
  and before the statistics are sent (`:181`): utilizations above 1 may be
  reported. This is `DurationPutBack` in `ReportInRange`.
* The average inter-arrival time divides by one less than the number of arrivals
  (`src/simulation_stats.c:18`), but the first arrival adds a gap too, the one
  since the start of the simulation (`InterArrivalsTelescope`).
* A second client takes the log from the first (`src/server.c:276`), and when it
  closes, the first gets nothing more although it is still open
  (`NewestIsActive`).
* Frames of a simulation may reach the client after a "status" that was answered
  "idle": they were in the pipe when the runner cleared `is_running`.
* A full pipe drops frames and nobody is told (`lost` in `WholeLog`).
* A tiny `-arr` makes `1000000.0 / rate` too large for an int, and a large one
  makes it 0: `job_arrival_time_us` is the one parameter of which
  `AcceptedParams` says nothing.
* The second simulation of a server keeps adding to the totals of the first
  while its duration starts anew, so that its utilization may exceed 1;
  `ReportInRange` is about one simulation.

## 6. Not modelled

Formatting, log lines and the JSON text; floating point and the square root (the
averages are exact fractions), and with them the standard deviation; the log router, which is bound once before any
thread exists; HTTP serving and the vendored mongoose library but for the ids of
connections and the pipe; failing `malloc` in the threads; the two totals of the
refills, of time and sheets; how long a sleep takes; the unit tests, none of which
starts two threads.

## 7. Plan

Done: shared state and thread modules, `Cli`, its claims and proofs; `Server` and
its proofs; `LinkedList`, `Deque`, `TimedQueue`; `WsBridge`; `Preprocessing` and
`Statistics`; `JobFlow` and the proof that `Cli` implements it; a theorem for
every safety property that a run checks.

Left, in this order:

1. `Server` as an implementation of `JobFlow` up to its first restart.
2. `PaperWithinCapacity` and the wakeups of the refiller for `Server`, which the
   lemmas of `CliProofs` about the same threads would carry once they are stated
   for `Simulation`.
3. The two totals of the refills in `Statistics`; failing `malloc` in the
   receiver and the printers.
