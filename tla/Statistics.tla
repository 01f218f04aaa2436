------------------------------ MODULE Statistics ----------------------------
(***************************************************************************)
(* What the log handlers write into simulation_statistics_t while jobs     *)
(* arrive, wait and are printed, and the averages that                     *)
(* src/simulation_stats.c makes of it.  src/console_handler.c and          *)
(* src/websocket_handler.c keep the same numbers.                          *)
(*                                                                         *)
(* The threads are reduced to the moments at which they read the clock and *)
(* to the guards between them; what they do between these moments, and     *)
(* under which mutex, is in JobReceiver, Printer and StopProcedure.  The   *)
(* clock starts with log_simulation_start, which sets the reference time,  *)
(* and is assumed not to be set back.  Whoever stops the simulation is the *)
(* signal catcher of cli.c, which main joins before it logs the end, or    *)
(* the event loop of server.c, which nobody joins; one stop is modelled.   *)
(*                                                                         *)
(* Many durations pass through an int, and may come out negative.  A total *)
(* that an int is added to is an unsigned long in the code: a value below 0*)
(* here stands for that value modulo 2^64 there.                           *)
(***************************************************************************)
EXTENDS Integers, Sequences, FiniteSets, Functions

CONSTANTS
  Printers,
  NumJobs,
  QueueCapacity,
  MaxTime,       \* a bound on the clock
  IntRange       \* how many values an int has: 2^32 in the code

ASSUME CapacityAssumption ==
  /\ IsFiniteSet(Printers)
  /\ QueueCapacity \in Nat /\ MaxTime \in Nat
  /\ IntRange \in Nat \ {0} /\ IntRange % 2 = 0

VARIABLES
  now,                           \* get_time_in_us() - reference_time_us
  stats,                         \* simulation_statistics_t
  job_queue,                     \* the jobs that wait, oldest first
  last_interaction_time_us,      \* of job_queue
  receiver_pc,
  job_id,                        \* how many jobs have arrived
  system_arrival_time_us,        \* of the job the receiver holds
  previous_job_arrival_time_us,
  printer,                       \* the job, stage and start of stage of each
  program,                       \* cli.c or server.c
  stop_pc,                       \* how far a stop has come
  stop_reading,                  \* the clock, as read by the stop
  end_pc,                        \* how far main or the runner has come
  end_reading,                   \* the clock, as read for the end
  longest_system_time,           \* history: of the jobs served so far
  wait_of_removed,               \* history: see WaitsAddUp
  ints_fit                       \* history: no duration was too long for an int

receiverVars == <<receiver_pc, job_id, system_arrival_time_us,
                  previous_job_arrival_time_us>>
queueVars    == <<job_queue, last_interaction_time_us>>
stopVars     == <<program, stop_pc, stop_reading, end_pc, end_reading>>
history      == <<longest_system_time, wait_of_removed, ints_fit>>
vars == <<now, stats, queueVars, receiverVars, printer, stopVars, history>>

NoJob == [sys |-> 0, entered |-> 0, left |-> 0]
Idle  == [pc |-> "idle", since |-> 0, job |-> NoJob]

Init ==
  /\ now = 0
  /\ stats = [total_jobs_arrived |-> 0, total_jobs_served |-> 0, total_jobs_dropped |-> 0,
              total_jobs_removed |-> 0, total_inter_arrival_time_us |-> 0,
              total_system_time_us |-> 0, sum_of_system_time_squared_us2 |-> 0,
              total_queue_wait_time_us |-> 0, area_num_in_job_queue_us |-> 0,
              simulation_duration_us |-> 0,
              jobs_served_by_printer |-> [p \in Printers |-> 0],
              total_service_time_us |-> [p \in Printers |-> 0],
              paper_empty_time_us |-> [p \in Printers |-> 0]]
  /\ job_queue = <<>>
  /\ last_interaction_time_us = 0
  /\ receiver_pc = "sleep"
  /\ job_id = 0
  /\ system_arrival_time_us = 0
  /\ previous_job_arrival_time_us = 0
  /\ printer = [p \in Printers |-> Idle]
  /\ program \in {"cli", "server"}
  /\ stop_pc = "none" /\ stop_reading = 0
  /\ end_pc = "running" /\ end_reading = 0
  /\ longest_system_time = 0
  /\ wait_of_removed = 0
  /\ ints_fit = TRUE

Terminated == stop_pc # "none"

(* What an int holds of a number, and whether it is the number itself.     *)
AsInt(n) == LET half == IntRange \div 2 IN ((n + half) % IntRange) - half
Fits(duration) == 2 * duration < IntRange

Tick ==
  /\ now < MaxTime
  /\ now' = now + 1
  /\ UNCHANGED <<stats, queueVars, receiverVars, printer, stopVars, history>>

-----------------------------------------------------------------------------
(* The receiver.                                                           *)

(* Mutant of ArrivalStats: the gap is measured from the start.             *)
ArrivalStatsFromStart(s, arrival) ==
  [s EXCEPT !.total_inter_arrival_time_us = @ + AsInt(arrival),
            !.total_jobs_arrived = @ + 1]

(* job_arrival_helper, for an arrival and once more for a drop.            *)
ArrivalStats(s, arrival) ==
  [s EXCEPT !.total_inter_arrival_time_us = @ + AsInt(arrival - previous_job_arrival_time_us),
            !.total_jobs_arrived = @ + 1]

CheckTermination ==
  /\ receiver_pc = "sleep"
  /\ receiver_pc' = IF Terminated \/ job_id = NumJobs THEN "done" ELSE "checked"
  /\ UNCHANGED <<now, stats, queueVars, job_id, system_arrival_time_us,
                 previous_job_arrival_time_us, printer, stopVars, history>>

Arrive ==
  /\ receiver_pc = "checked"
  /\ receiver_pc' = "arrived"
  /\ job_id' = job_id + 1
  /\ system_arrival_time_us' = now
  /\ stats' = ArrivalStats(stats, now)
  /\ ints_fit' = (ints_fit /\ Fits(now - previous_job_arrival_time_us))
  /\ UNCHANGED <<now, queueVars, previous_job_arrival_time_us, printer, stopVars,
                 longest_system_time, wait_of_removed>>

DropJob ==
  /\ receiver_pc = "arrived"
  /\ Len(job_queue) >= QueueCapacity
  /\ receiver_pc' = "sleep"
  /\ previous_job_arrival_time_us' = system_arrival_time_us
  /\ stats' = ArrivalStats([stats EXCEPT !.total_jobs_dropped = @ + 1],
                           system_arrival_time_us)
  /\ ints_fit' = (ints_fit /\ Fits(system_arrival_time_us - previous_job_arrival_time_us))
  /\ UNCHANGED <<now, queueVars, job_id, system_arrival_time_us, printer, stopVars,
                 longest_system_time, wait_of_removed>>

(* Mutants of Area: the time since the start of the simulation; the length *)
(* corrected once too often.                                               *)
AreaFromStart(length) == now * length
AreaCorrected(length) == (now - last_interaction_time_us) * (length - 1)

(* The length that the queue had since it last changed, over that time.    *)
Area(length) == (now - last_interaction_time_us) * length

EnterQueue ==
  /\ receiver_pc = "arrived"
  /\ Len(job_queue) < QueueCapacity
  /\ job_queue' = Append(job_queue, [NoJob EXCEPT !.sys = system_arrival_time_us,
                                                  !.entered = now])
  /\ stats' = [stats EXCEPT !.area_num_in_job_queue_us = @ + Area(Len(job_queue') - 1)]
  /\ last_interaction_time_us' = now
  /\ receiver_pc' = "sleep"
  /\ previous_job_arrival_time_us' = system_arrival_time_us
  /\ UNCHANGED <<now, job_id, system_arrival_time_us, printer, stopVars, history>>

-----------------------------------------------------------------------------
(* A printer.                                                              *)

(* log_queue_departure.  A printer that has been joined takes no job.      *)
LeaveQueue(p) ==
  /\ end_pc = "running" /\ printer[p].pc = "idle" /\ job_queue # <<>>
  /\ job_queue' = Tail(job_queue)
  /\ stats' = [stats EXCEPT !.area_num_in_job_queue_us = @ + Area(Len(job_queue') + 1)]
  /\ last_interaction_time_us' = now
  /\ printer' = [printer EXCEPT ![p] =
                   [pc |-> "taken", since |-> now, job |-> [Head(job_queue) EXCEPT !.left = now]]]
  /\ UNCHANGED <<now, receiverVars, stopVars, history>>

BeginService(p) ==
  /\ printer[p].pc = "taken"
  /\ printer' = [printer EXCEPT ![p].pc = "serving", ![p].since = now]
  /\ UNCHANGED <<now, stats, queueVars, receiverVars, stopVars, history>>

(* Mutant of ServiceTime: the system time is taken for the service time.   *)
ServiceFromArrival(p) == AsInt(now - printer[p].job.sys)

(* service_duration and paper_empty_duration_us, which are ints.           *)
ServiceTime(p) == AsInt(now - printer[p].since)

(* system_time, an int.                                                    *)
SystemTime(p) == AsInt(now - printer[p].job.sys)

(* system_time * system_time is the product of two ints and wraps.         *)
Squared(p) == AsInt(SystemTime(p) * SystemTime(p))

(* log_system_departure.                                                   *)
Depart(p) ==
  LET job  == printer[p].job
      time == now - job.sys
  IN  /\ printer[p].pc = "serving"
      /\ stats' = [stats EXCEPT
                     !.total_system_time_us = @ + SystemTime(p),
                     !.sum_of_system_time_squared_us2 = @ + Squared(p),
                     !.total_jobs_served = @ + 1,
                     !.total_service_time_us[p] = @ + ServiceTime(p),
                     !.jobs_served_by_printer[p] = @ + 1,
                     !.total_queue_wait_time_us = @ + (job.left - job.entered)]
      /\ printer' = [printer EXCEPT ![p] = Idle]
      /\ longest_system_time' =
           IF time > longest_system_time THEN time ELSE longest_system_time
      /\ ints_fit' = (ints_fit /\ Fits(time))
      /\ UNCHANGED <<now, queueVars, receiverVars, stopVars, wait_of_removed>>

(* The front of the queue needs more paper than there is; any broadcast    *)
(* ends the wait.                                                          *)
RunShort(p) ==
  /\ end_pc = "running" /\ printer[p].pc = "idle" /\ job_queue # <<>>
  /\ printer' = [printer EXCEPT ![p].pc = "short", ![p].since = now]
  /\ UNCHANGED <<now, stats, queueVars, receiverVars, stopVars, history>>

NotePaperEmpty(p) ==
  /\ printer[p].pc = "short"
  /\ stats' = [stats EXCEPT !.paper_empty_time_us[p] = @ + ServiceTime(p)]
  /\ printer' = [printer EXCEPT ![p] = Idle]
  /\ ints_fit' = (ints_fit /\ Fits(now - printer[p].since))
  /\ UNCHANGED <<now, queueVars, receiverVars, stopVars, longest_system_time,
                 wait_of_removed>>

-----------------------------------------------------------------------------
(* A stop, and the end that main or the runner logs once it has joined the *)
(* threads.  Both read the clock and then write the duration.  The reading *)
(* is a variable that they share, reference_end_time_us; each is given one *)
(* of its own here, which leads to the same durations: if one side stores  *)
(* its reading before the other has written, the other writes what the     *)
(* first is about to write anyway.                                         *)

(* The catcher of cli.c has ended before main logs the end.                *)
MayStop == program = "server" \/ end_pc = "running"

SetFlags ==
  /\ MayStop /\ stop_pc = "none"
  /\ stop_pc' = "flagged"
  /\ UNCHANGED <<now, stats, queueVars, receiverVars, printer, program, stop_reading,
                 end_pc, end_reading, history>>

ReadStop ==
  /\ MayStop /\ stop_pc = "flagged"
  /\ stop_pc' = "reading"
  /\ stop_reading' = now
  /\ UNCHANGED <<now, stats, queueVars, receiverVars, printer, program, end_pc,
                 end_reading, history>>

LogStopped ==
  /\ MayStop /\ stop_pc = "reading"
  /\ stop_pc' = "logged"
  /\ stats' = [stats EXCEPT !.simulation_duration_us = stop_reading]
  /\ UNCHANGED <<now, queueVars, receiverVars, printer, program, stop_reading, end_pc,
                 end_reading, history>>

Sum(f) == FoldFunction(+, 0, f)

(* How long the jobs in the queue had waited when it last changed.         *)
WaitSoFar ==
  Sum([i \in DOMAIN job_queue |-> last_interaction_time_us - job_queue[i].entered])

(* empty_queue_if_terminating: timed_queue_dequeue_front moves the time of *)
(* the last change, and nothing is added to the area.                      *)
EmptyQueue ==
  /\ MayStop /\ stop_pc = "logged"
  /\ stop_pc' = "emptied"
  /\ job_queue' = <<>>
  /\ last_interaction_time_us' = IF job_queue = <<>> THEN last_interaction_time_us ELSE now
  /\ stats' = [stats EXCEPT !.total_jobs_removed = @ + Len(job_queue)]
  /\ wait_of_removed' = wait_of_removed + WaitSoFar
  /\ UNCHANGED <<now, receiverVars, printer, program, stop_reading, end_pc, end_reading,
                 longest_system_time, ints_fit>>

ReadEnd ==
  /\ end_pc = "running"
  /\ receiver_pc = "done"
  /\ \A p \in Printers : printer[p].pc = "idle"
  /\ Terminated \/ job_queue = <<>>
  /\ program = "cli" => stop_pc \in {"none", "logged", "emptied"}
  /\ end_pc' = "reading"
  /\ end_reading' = now
  /\ UNCHANGED <<now, stats, queueVars, receiverVars, printer, program, stop_pc,
                 stop_reading, history>>

LogEnd ==
  /\ end_pc = "reading"
  /\ end_pc' = "ended"
  /\ stats' = [stats EXCEPT !.simulation_duration_us = end_reading]
  /\ UNCHANGED <<now, queueVars, receiverVars, printer, program, stop_pc, stop_reading,
                 end_reading, history>>

Next ==
  \/ Tick
  \/ CheckTermination \/ Arrive \/ DropJob \/ EnterQueue
  \/ \E p \in Printers : \/ LeaveQueue(p) \/ BeginService(p) \/ Depart(p)
                         \/ RunShort(p) \/ NotePaperEmpty(p)
  \/ SetFlags \/ ReadStop \/ LogStopped \/ EmptyQueue
  \/ ReadEnd \/ LogEnd

Spec == Init /\ [][Next]_vars

-----------------------------------------------------------------------------
(* The averages of src/simulation_stats.c, as exact quotients.  Each       *)
(* function looks whether its divisor is 0 first; a second is a million    *)
(* units of the clock on both sides of every comparison below.             *)

Quotient(numerator, divisor) ==
  IF divisor = 0 THEN [num |-> 0, den |-> 1] ELSE [num |-> numerator, den |-> divisor]

AtMost(q, r)   == q.num * r.den <= r.num * q.den
Whole(n)       == [num |-> n, den |-> 1]
Within(q, n)   == AtMost(Whole(0), q) /\ AtMost(q, Whole(n))

AverageSystemTime     == Quotient(stats.total_system_time_us, stats.total_jobs_served)
AverageQueueWaitTime  == Quotient(stats.total_queue_wait_time_us, stats.total_jobs_served)
AverageServiceTime(p) ==
  Quotient(stats.total_service_time_us[p], stats.jobs_served_by_printer[p])
AverageQueueLength    ==
  Quotient(stats.area_num_in_job_queue_us, stats.simulation_duration_us)
SystemUtilization(p)  ==
  Quotient(stats.total_service_time_us[p], stats.simulation_duration_us)
JobDropProbability    == Quotient(stats.total_jobs_dropped, stats.total_jobs_arrived)

-----------------------------------------------------------------------------
(* Properties.                                                             *)

(* The counters and times range over their types: none of the differences *)
(* that stay unsigned in the code runs below 0, and none of the totals that*)
(* an int is added to does while every duration fits an int.               *)
TypeOK ==
  /\ now \in 0..MaxTime
  /\ last_interaction_time_us \in 0..now
  /\ previous_job_arrival_time_us \in 0..now
  /\ \A i \in 1..Len(job_queue) :
        job_queue[i].sys <= job_queue[i].entered /\ job_queue[i].entered <= now
  /\ Len(job_queue) <= QueueCapacity
  /\ \A f \in {"total_jobs_arrived", "total_jobs_served", "total_jobs_dropped",
               "total_jobs_removed", "total_queue_wait_time_us",
               "area_num_in_job_queue_us", "simulation_duration_us"} :
        stats[f] \in Nat
  /\ ints_fit =>
       /\ stats.total_inter_arrival_time_us \in Nat /\ stats.total_system_time_us \in Nat
       /\ \A p \in Printers : /\ stats.total_service_time_us[p] \in Nat
                              /\ stats.paper_empty_time_us[p] \in Nat

(* Little's law: the integral of the queue length is the time that the jobs*)
(* waited, each counted once: those served, those at a printer, those still*)
(* in the queue.  The jobs that a stop removes are counted up to the last  *)
(* change of the queue before the stop only: empty_queue_if_terminating    *)
(* does not call log_queue_departure.                                      *)
WaitsAddUp ==
  stats.area_num_in_job_queue_us =
    stats.total_queue_wait_time_us
      + Sum([p \in Printers |-> printer[p].job.left - printer[p].job.entered])
      + WaitSoFar + wait_of_removed

(* total_inter_arrival_time_us, the "Sum of time between arrivals"         *)
(* (include/simulation_stats.h:14), telescopes to the last arrival as long *)
(* as no job is dropped and every gap fits an int.  The gap before a       *)
(* dropped job is counted twice, as the job is, and no gap more than twice.*)
InterArrivalsTelescope ==
  LET last  == IF receiver_pc = "arrived" THEN system_arrival_time_us
               ELSE previous_job_arrival_time_us
      total == stats.total_inter_arrival_time_us
  IN  /\ stats.total_jobs_arrived = job_id + stats.total_jobs_dropped
      /\ ints_fit => /\ last <= total /\ total <= 2 * last
                     /\ stats.total_jobs_dropped = 0 => total = last

(* The stop of server.c read the clock before the end did and wrote the    *)
(* duration after it.                                                      *)
DurationPutBack == program = "server" /\ stats.simulation_duration_us < end_reading

(* What the final statistics say is possible: the utilization of a printer *)
(* and the drop probability are "a value between 0 and 1"                  *)
(* (src/simulation_stats.c:102, :140), also after a stop and while one is  *)
(* still going on; a printer is not printing while it waits for paper; the *)
(* queue is no longer on average than it may ever be; a job is served no   *)
(* longer than the longest stay, and waits no longer than it stays.  The   *)
(* totals that an int is added to need every duration to fit an int, and   *)
(* those divided by the duration need the end to have the last word on it. *)
ReportInRange ==
  end_pc = "ended" =>
    /\ Within(JobDropProbability, 1)
    /\ ints_fit =>
         /\ \A p \in Printers : Within(AverageServiceTime(p), longest_system_time)
         /\ AtMost(AverageQueueWaitTime, AverageSystemTime)
    /\ ~DurationPutBack =>
         /\ Within(AverageQueueLength, QueueCapacity)
         /\ ints_fit => \A p \in Printers :
              /\ Within(SystemUtilization(p), 1)
              /\ Within(Quotient(stats.total_service_time_us[p] + stats.paper_empty_time_us[p],
                                 stats.simulation_duration_us), 1)
=============================================================================
