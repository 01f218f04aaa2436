--------------------------- MODULE StatisticsProofs -------------------------
(***************************************************************************)
(* The statistics of a simulation, for every number of printers and jobs,  *)
(* every capacity, and however long it takes: they are in range, the gaps  *)
(* between the arrivals telescope, and the area under the queue length is  *)
(* the time that the jobs have waited.                                     *)
(***************************************************************************)
EXTENDS Statistics, FiniteSetTheorems, WellFoundedInduction, NaturalsInduction, TLAPS

Stages == {"idle", "taken", "serving", "short"}

JobType == [sys : Nat, entered : Nat, left : Nat]

StatsType ==
  [total_jobs_arrived : Nat, total_jobs_served : Nat, total_jobs_dropped : Nat,
   total_jobs_removed : Nat, total_inter_arrival_time_us : Int,
   total_system_time_us : Int, sum_of_system_time_squared_us2 : Int,
   total_queue_wait_time_us : Nat, area_num_in_job_queue_us : Nat,
   simulation_duration_us : Nat,
   jobs_served_by_printer : [Printers -> Nat],
   total_service_time_us : [Printers -> Int],
   paper_empty_time_us : [Printers -> Int]]

TimesType ==
  /\ now \in Nat
  /\ stats \in StatsType
  /\ job_queue \in Seq(JobType)
  /\ Len(job_queue) <= QueueCapacity
  /\ last_interaction_time_us \in Nat
  /\ system_arrival_time_us \in Nat
  /\ previous_job_arrival_time_us \in Nat
  /\ printer \in [Printers -> [pc : Stages, since : Nat, job : JobType]]
  /\ program \in {"cli", "server"}
  /\ stop_reading \in Nat /\ end_reading \in Nat
  /\ longest_system_time \in Nat
  /\ ints_fit \in BOOLEAN

(* No time lies ahead, and the times of a job follow one another.          *)
InOrder(job) == job.sys <= job.entered /\ job.entered <= now

TimesOrdered ==
  /\ last_interaction_time_us <= now
  /\ system_arrival_time_us <= now
  /\ previous_job_arrival_time_us <= system_arrival_time_us
  /\ \A i \in 1..Len(job_queue) : InOrder(job_queue[i])
  /\ \A p \in Printers :
       /\ printer[p].since <= now
       /\ printer[p].pc \in {"taken", "serving"} =>
            /\ InOrder(printer[p].job)
            /\ printer[p].job.entered <= printer[p].job.left
            /\ printer[p].job.left <= printer[p].since

(* A printer prints, waits for paper or does neither.                      *)
Busy(p) == IF printer[p].pc \in {"serving", "short"} THEN now - printer[p].since ELSE 0

PrinterTimes(p) ==
  /\ stats.total_service_time_us[p] + stats.paper_empty_time_us[p] + Busy(p) <= now
  /\ stats.total_service_time_us[p]
       <= longest_system_time * stats.jobs_served_by_printer[p]

(* The totals of the queue and of the jobs.                                *)
Totals ==
  /\ stats.area_num_in_job_queue_us <= QueueCapacity * last_interaction_time_us
  /\ stats.total_jobs_dropped <= stats.total_jobs_arrived
  /\ ints_fit => stats.total_queue_wait_time_us <= stats.total_system_time_us
  /\ stats.total_jobs_served = 0 =>
       stats.total_queue_wait_time_us = 0 /\ stats.total_system_time_us = 0

(* The totals that an int is added to, while every duration fits one.      *)
IntTotals ==
  ints_fit =>
    /\ stats.total_inter_arrival_time_us \in Nat
    /\ stats.total_system_time_us \in Nat
    /\ \A p \in Printers : /\ stats.total_service_time_us[p] \in Nat
                           /\ stats.paper_empty_time_us[p] \in Nat

(* Once the threads are joined no printer prints and the queue is as it is,*)
(* whatever a stop of the server still does.                               *)
AfterEnd ==
  /\ end_pc # "running" =>
       /\ receiver_pc = "done"
       /\ stats.area_num_in_job_queue_us <= QueueCapacity * end_reading
       /\ \A p \in Printers :
            /\ printer[p].pc = "idle"
            /\ stats.total_service_time_us[p] + stats.paper_empty_time_us[p] <= end_reading
  /\ end_pc = "ended" /\ program = "cli" => stats.simulation_duration_us = end_reading

Inv ==
  /\ TimesType /\ TimesOrdered
  /\ \A p \in Printers : PrinterTimes(p)
  /\ Totals /\ IntTotals /\ AfterEnd

(* What an int holds of a duration: no more than that, and all of it if it *)
(* fits.                                                                   *)
LEMMA AsIntIsInt == ASSUME NEW n \in Int PROVE AsInt(n) \in Int
  BY CapacityAssumption DEF AsInt

LEMMA AsIntOfDuration ==
  ASSUME NEW d \in Nat
  PROVE  /\ AsInt(d) \in Int /\ AsInt(d) <= d
         /\ Fits(d) => AsInt(d) = d
  <1> DEFINE half == IntRange \div 2
             n == d + half
  <1>1. AsInt(d) = (n % IntRange) - half
    BY DEF AsInt
  <1>2. half \in Nat /\ 2 * half = IntRange /\ IntRange \in Nat \ {0}
    BY CapacityAssumption
  <1> HIDE DEF half
  <1>3. n \in Nat /\ (2 * d < IntRange => n < IntRange)
    BY <1>2
  <1>4. n < IntRange => n % IntRange = n
    BY <1>2, <1>3
  <1>5. n % IntRange \in Int /\ n % IntRange <= n
    BY <1>2, <1>3, <1>4
  <1> QED
    BY <1>1, <1>2, <1>3, <1>4, <1>5 DEF Fits

LEMMA InvInit == Init => Inv
  <1> SUFFICES ASSUME Init PROVE Inv
    OBVIOUS
  <1> USE CapacityAssumption DEF Init, Idle, NoJob
  <1>1. TimesType
    BY DEF TimesType, StatsType, JobType, Stages
  <1>2. TimesOrdered
    BY DEF TimesOrdered, InOrder
  <1>3. (\A p \in Printers : PrinterTimes(p)) /\ Totals /\ IntTotals /\ AfterEnd
    BY DEF PrinterTimes, Busy, Totals, IntTotals, AfterEnd
  <1> QED
    BY <1>1, <1>2, <1>3 DEF Inv

(* The numbers that the invariant is about.                                *)
LEMMA Numbers ==
  ASSUME TimesType
  PROVE  /\ now \in Nat /\ last_interaction_time_us \in Nat
         /\ system_arrival_time_us \in Nat /\ previous_job_arrival_time_us \in Nat
         /\ longest_system_time \in Nat
         /\ Len(job_queue) \in 0..QueueCapacity
         /\ \A i \in 1..Len(job_queue) :
              /\ job_queue[i] \in JobType
              /\ job_queue[i].sys \in Nat /\ job_queue[i].entered \in Nat
         /\ \A p \in Printers :
              /\ printer[p].pc \in Stages /\ printer[p].since \in Nat
              /\ printer[p].job.sys \in Nat /\ printer[p].job.entered \in Nat
              /\ printer[p].job.left \in Nat
              /\ stats.total_service_time_us[p] \in Int
              /\ stats.paper_empty_time_us[p] \in Int
              /\ stats.jobs_served_by_printer[p] \in Nat
         /\ stats.area_num_in_job_queue_us \in Nat
         /\ stats.total_jobs_dropped \in Nat /\ stats.total_jobs_arrived \in Nat
         /\ stats.total_jobs_served \in Nat
         /\ stats.total_queue_wait_time_us \in Nat /\ stats.total_system_time_us \in Int
         /\ end_reading \in Nat /\ stats.simulation_duration_us \in Nat
  <1> USE CapacityAssumption DEF TimesType
  <1>1. Len(job_queue) \in 0..QueueCapacity
    OBVIOUS
  <1>2. ASSUME NEW i \in 1..Len(job_queue)
        PROVE  /\ job_queue[i] \in JobType
               /\ job_queue[i].sys \in Nat /\ job_queue[i].entered \in Nat
    <2>1. job_queue[i] \in JobType
      OBVIOUS
    <2> QED
      BY <2>1 DEF JobType
  <1>4. ASSUME NEW p \in Printers
        PROVE  /\ printer[p].pc \in Stages /\ printer[p].since \in Nat
               /\ printer[p].job.sys \in Nat /\ printer[p].job.entered \in Nat
               /\ printer[p].job.left \in Nat
    <2>1. printer[p] \in [pc : Stages, since : Nat, job : JobType]
      OBVIOUS
    <2>2. printer[p].pc \in Stages /\ printer[p].since \in Nat /\ printer[p].job \in JobType
      BY <2>1
    <2> QED
      BY <2>2 DEF JobType
  <1>3. /\ stats.total_service_time_us \in [Printers -> Int]
        /\ stats.paper_empty_time_us \in [Printers -> Int]
        /\ stats.jobs_served_by_printer \in [Printers -> Nat]
    BY DEF StatsType
  <1>5. /\ stats.area_num_in_job_queue_us \in Nat
        /\ stats.total_jobs_dropped \in Nat /\ stats.total_jobs_arrived \in Nat
        /\ stats.total_jobs_served \in Nat
        /\ stats.total_queue_wait_time_us \in Nat /\ stats.total_system_time_us \in Int
        /\ stats.simulation_duration_us \in Nat
    BY DEF StatsType
  <1> QED
    BY <1>1, <1>2, <1>3, <1>4, <1>5

(* What the end of a service adds to the statistics.                       *)
LEMMA DepartStats ==
  ASSUME stats \in StatsType, NEW p \in Printers, Depart(p)
  PROVE  /\ stats'.total_jobs_served = stats.total_jobs_served + 1
         /\ stats'.total_system_time_us
              = stats.total_system_time_us + SystemTime(p)
         /\ stats'.sum_of_system_time_squared_us2
              = stats.sum_of_system_time_squared_us2 + Squared(p)
         /\ stats'.total_queue_wait_time_us
              = stats.total_queue_wait_time_us + (printer[p].job.left - printer[p].job.entered)
         /\ stats'.area_num_in_job_queue_us = stats.area_num_in_job_queue_us
  <1> DEFINE system == stats.total_system_time_us + SystemTime(p)
             squares == stats.sum_of_system_time_squared_us2 + Squared(p)
             served == stats.total_jobs_served + 1
             services == [stats.total_service_time_us EXCEPT ![p] = @ + ServiceTime(p)]
             counts == [stats.jobs_served_by_printer EXCEPT ![p] = @ + 1]
             waits == stats.total_queue_wait_time_us
                        + (printer[p].job.left - printer[p].job.entered)
  <1>1. stats' = [stats EXCEPT
                    !.total_system_time_us = system,
                    !.sum_of_system_time_squared_us2 = squares,
                    !.total_jobs_served = served,
                    !.total_service_time_us = services,
                    !.jobs_served_by_printer = counts,
                    !.total_queue_wait_time_us = waits]
    BY DEF Depart, StatsType
  <1> HIDE DEF system, squares, served, services, counts, waits
  <1>2. /\ stats'.total_jobs_served = served
        /\ stats'.total_system_time_us = system
        /\ stats'.sum_of_system_time_squared_us2 = squares
        /\ stats'.total_queue_wait_time_us = waits
        /\ stats'.area_num_in_job_queue_us = stats.area_num_in_job_queue_us
    BY <1>1 DEF StatsType
  <1> QED
    BY <1>2 DEF system, squares, served, waits

(* Parts of Numbers, for the steps that need no more.                      *)
LEMMA ClockNumbers ==
  ASSUME TimesType
  PROVE  /\ now \in Nat /\ last_interaction_time_us \in Nat
         /\ longest_system_time \in Nat
  BY DEF TimesType

LEMMA QueueNumbers ==
  ASSUME TimesType
  PROVE  /\ job_queue \in Seq(JobType) /\ Len(job_queue) \in Nat
         /\ \A i \in 1..Len(job_queue) : job_queue[i].entered \in Nat
  BY Numbers DEF TimesType

LEMMA PrinterNumbers ==
  ASSUME TimesType, NEW p \in Printers
  PROVE  printer[p].job.entered \in Nat /\ printer[p].job.left \in Nat
  BY Numbers

LEMMA InvTick ==
  ASSUME Inv, Tick
  PROVE  Inv'
  <1> USE CapacityAssumption
  <1>1. /\ now' = now + 1
        /\ UNCHANGED <<stats, job_queue, last_interaction_time_us, receiver_pc,
             system_arrival_time_us, previous_job_arrival_time_us, printer, program,
             stop_reading, end_pc, end_reading, longest_system_time, ints_fit>>
    BY DEF Tick, queueVars, receiverVars, stopVars, history
  <1>2. TimesType'
    BY <1>1 DEF TimesType, Inv
  <1>3. TimesOrdered'
    <2>1. TimesOrdered /\ now \in Nat /\ now <= now'
      BY <1>1 DEF Inv, TimesType
    <2>2. ASSUME NEW i \in 1..Len(job_queue)
          PROVE  InOrder(job_queue[i])'
      <3>1. InOrder(job_queue[i]) /\ job_queue[i].entered \in Nat
        BY <2>1, Numbers DEF Inv, TimesOrdered
      <3>2. job_queue'[i] = job_queue[i]
        BY <1>1
      <3>3. now' \in Nat
        BY <1>1, <2>1
      <3> QED
        BY <2>1, <3>1, <3>2, <3>3 DEF InOrder
    <2>3. ASSUME NEW p \in Printers
          PROVE  /\ printer[p].since <= now'
                 /\ InOrder(printer[p].job) => InOrder(printer[p].job)'
      <3>1. /\ printer[p].since \in Nat /\ printer[p].job.entered \in Nat
            /\ printer[p].since <= now /\ now' = now + 1 /\ now \in Nat
        BY <1>1, <2>1, Numbers DEF Inv, TimesOrdered
      <3>2. printer'[p] = printer[p]
        BY <1>1
      <3> QED
        BY <3>1, <3>2 DEF InOrder
    <2>4. last_interaction_time_us <= now' /\ system_arrival_time_us <= now'
      BY <1>1, <2>1, Numbers DEF Inv, TimesOrdered
    <2> QED
      BY <1>1, <2>1, <2>2, <2>3, <2>4 DEF TimesOrdered
  <1>4. ASSUME NEW p \in Printers PROVE PrinterTimes(p)'
    <2> DEFINE service == stats.total_service_time_us[p]
               empty == stats.paper_empty_time_us[p]
    <2>1. service \in Int /\ empty \in Int /\ now \in Nat /\ printer[p].since \in Nat
      BY Numbers DEF Inv
    <2>2. PrinterTimes(p)
      BY DEF Inv
    <2>3. Busy(p) \in Int /\ Busy(p)' <= Busy(p) + 1 /\ Busy(p)' \in Int
      BY <1>1, <2>1 DEF Busy
    <2>4. service + empty + Busy(p)' <= now'
      BY <1>1, <2>1, <2>2, <2>3 DEF PrinterTimes
    <2> QED
      BY <1>1, <2>2, <2>4 DEF PrinterTimes
  <1>5. Totals' /\ IntTotals' /\ AfterEnd'
    BY <1>1 DEF Inv, Totals, IntTotals, AfterEnd
  <1> QED
    BY <1>2, <1>3, <1>4, <1>5 DEF Inv

(* A step of a thread that leaves the clock and the printers alone.        *)
LEMMA PrintersKept ==
  ASSUME Inv, UNCHANGED <<now, printer, longest_system_time>>,
         stats'.total_service_time_us = stats.total_service_time_us,
         stats'.paper_empty_time_us = stats.paper_empty_time_us,
         stats'.jobs_served_by_printer = stats.jobs_served_by_printer
  PROVE  \A p \in Printers : PrinterTimes(p)'
  BY DEF Inv, PrinterTimes, Busy

(* A step of a thread that changes no number.                              *)
LEMMA InvKept ==
  ASSUME Inv,
         UNCHANGED <<now, stats, job_queue, last_interaction_time_us,
                     system_arrival_time_us, previous_job_arrival_time_us, printer,
                     program, end_pc, end_reading, longest_system_time, ints_fit>>,
         stop_reading' \in Nat,
         receiver_pc' = receiver_pc \/ end_pc = "running"
  PROVE  Inv'
  BY DEF Inv, TimesType, TimesOrdered, InOrder, PrinterTimes, Busy, Totals, IntTotals, AfterEnd

(* While a thread is at work the end is not in sight.                      *)
LEMMA StillRunning ==
  ASSUME Inv, receiver_pc # "done" \/ \E p \in Printers : printer[p].pc # "idle"
  PROVE  end_pc = "running"
  BY DEF Inv, AfterEnd

LEMMA InvCheckTermination == ASSUME Inv, CheckTermination PROVE Inv'
  BY InvKept, StillRunning DEF CheckTermination, queueVars, stopVars, history, Inv, TimesType

LEMMA InvSetFlags == ASSUME Inv, SetFlags PROVE Inv'
  BY InvKept DEF SetFlags, queueVars, receiverVars, history, Inv, TimesType

LEMMA InvReadStop == ASSUME Inv, ReadStop PROVE Inv'
  BY InvKept DEF ReadStop, queueVars, receiverVars, history, Inv, TimesType

(* A job arrives, and is perhaps dropped: the job queue stays as it is.    *)
LEMMA InvArrival ==
  ASSUME Inv, Arrive \/ DropJob
  PROVE  Inv'
  <1>1. /\ UNCHANGED <<now, job_queue, last_interaction_time_us, printer, program, stop_reading,
                       end_pc, end_reading, longest_system_time>>
        /\ end_pc = "running"
    BY StillRunning DEF Arrive, DropJob, queueVars, stopVars
  <1>2. /\ system_arrival_time_us' \in {system_arrival_time_us, now}
        /\ previous_job_arrival_time_us' <= system_arrival_time_us'
        /\ previous_job_arrival_time_us' \in Nat
        /\ system_arrival_time_us' - previous_job_arrival_time_us \in Nat
    BY Numbers, SMTT(30) DEF Arrive, DropJob, Inv, TimesOrdered
  <1> DEFINE gap == system_arrival_time_us' - previous_job_arrival_time_us
  <1>12. ints_fit' = (ints_fit /\ Fits(gap))
    BY DEF Arrive, DropJob
  <1>13. AsInt(gap) \in Int /\ (Fits(gap) => AsInt(gap) \in Nat)
    BY <1>2, AsIntOfDuration
  <1>14. /\ ints_fit \in BOOLEAN /\ ints_fit' \in BOOLEAN
         /\ ints_fit' => ints_fit /\ AsInt(gap) \in Nat
    BY <1>12, <1>13 DEF Inv, TimesType, Fits
  <1>3. \E s \in StatsType :
          /\ \/ s = stats
             \/ s = [stats EXCEPT !.total_jobs_dropped = @ + 1]
          /\ stats' = ArrivalStats(s, system_arrival_time_us')
    <2>1. stats \in StatsType
      BY DEF Inv, TimesType
    <2>2. [stats EXCEPT !.total_jobs_dropped = @ + 1] \in StatsType
      BY <2>1 DEF StatsType
    <2> QED
      BY <2>1, <2>2 DEF Arrive, DropJob
  <1>4. PICK s \in StatsType :
          /\ \/ s = stats
             \/ s = [stats EXCEPT !.total_jobs_dropped = @ + 1]
          /\ stats' = ArrivalStats(s, system_arrival_time_us')
    BY <1>3
  <1>5. stats' \in StatsType
    <2> DEFINE gaps == s.total_inter_arrival_time_us + AsInt(gap)
               arrived == s.total_jobs_arrived + 1
    <2>1. stats' = [s EXCEPT !.total_inter_arrival_time_us = gaps,
                             !.total_jobs_arrived = arrived]
      BY <1>4 DEF ArrivalStats
    <2>2. gaps \in Int /\ arrived \in Nat
      <3> HIDE DEF gap
      <3> QED
        BY <1>13, <1>4 DEF StatsType
    <2> HIDE DEF gaps, arrived
    <2> QED
      BY <2>1, <2>2, <1>4 DEF StatsType
  <1>6. TimesType'
    BY <1>1, <1>2, <1>5, <1>14 DEF Inv, TimesType
  <1>7. TimesOrdered'
    BY <1>1, <1>2, Numbers DEF Inv, TimesOrdered, InOrder
  <1>8. stats \in StatsType
    BY DEF Inv, TimesType
  <1>9. \A p \in Printers : PrinterTimes(p)'
    <2>1. /\ stats'.total_service_time_us = stats.total_service_time_us
          /\ stats'.paper_empty_time_us = stats.paper_empty_time_us
          /\ stats'.jobs_served_by_printer = stats.jobs_served_by_printer
      BY <1>4, <1>8 DEF ArrivalStats, StatsType
    <2> QED
      BY <2>1, <1>1, PrintersKept
  <1>10. Totals'
    <2>1. /\ stats'.area_num_in_job_queue_us = stats.area_num_in_job_queue_us
          /\ stats'.total_jobs_arrived = stats.total_jobs_arrived + 1
          /\ stats'.total_jobs_dropped <= stats.total_jobs_dropped + 1
          /\ stats'.total_queue_wait_time_us = stats.total_queue_wait_time_us
          /\ stats'.total_system_time_us = stats.total_system_time_us
          /\ stats'.total_jobs_served = stats.total_jobs_served
      BY <1>4, <1>8 DEF ArrivalStats, StatsType
    <2> QED
      BY <2>1, <1>1, <1>5, <1>8, <1>14 DEF Inv, Totals, StatsType
  <1>11. AfterEnd'
    BY <1>1 DEF AfterEnd
  <1>15. IntTotals'
    <2>1. /\ stats'.total_inter_arrival_time_us
               = stats.total_inter_arrival_time_us + AsInt(gap)
          /\ stats'.total_system_time_us = stats.total_system_time_us
          /\ stats'.total_service_time_us = stats.total_service_time_us
          /\ stats'.paper_empty_time_us = stats.paper_empty_time_us
      BY <1>4, <1>8 DEF ArrivalStats, StatsType
    <2> HIDE DEF gap
    <2> QED
      BY <2>1, <1>14 DEF Inv, IntTotals
  <1> QED
    BY <1>6, <1>7, <1>9, <1>10, <1>11, <1>15 DEF Inv

(* The area grows by at most the capacity for every unit of time.          *)
LEMMA AreaBounded ==
  ASSUME Inv, NEW length \in 0..QueueCapacity
  PROVE  /\ Area(length) \in Nat
         /\ stats.area_num_in_job_queue_us + Area(length) <= QueueCapacity * now
  <1> DEFINE d == now - last_interaction_time_us
  <1>1. /\ now \in Nat /\ last_interaction_time_us \in Nat /\ d \in Nat
        /\ stats.area_num_in_job_queue_us \in Nat
        /\ stats.area_num_in_job_queue_us <= QueueCapacity * last_interaction_time_us
    BY Numbers DEF Inv, Totals, TimesOrdered
  <1>2. now = last_interaction_time_us + d
    BY <1>1
  <1>3. Area(length) = d * length
    BY DEF Area
  <1> HIDE DEF d
  <1>4. d * length \in Nat /\ d * length <= d * QueueCapacity
    BY <1>1, CapacityAssumption
  <1>5. QueueCapacity * now = QueueCapacity * last_interaction_time_us + d * QueueCapacity
    BY <1>1, <1>2, CapacityAssumption
  <1>6. QueueCapacity * last_interaction_time_us \in Nat /\ d * QueueCapacity \in Nat
    BY <1>1, CapacityAssumption
  <1> QED
    BY <1>1, <1>3, <1>4, <1>5, <1>6

(* Nothing but the area is written when a job enters or leaves the queue.  *)
LEMMA AreaAdded ==
  ASSUME Inv, NEW length \in 0..QueueCapacity,
         stats' = [stats EXCEPT !.area_num_in_job_queue_us = @ + Area(length)],
         last_interaction_time_us' = now, now' = now, ints_fit' = ints_fit
  PROVE  stats' \in StatsType /\ Totals' /\ IntTotals'
  <1> DEFINE area == stats.area_num_in_job_queue_us + Area(length)
  <1>1. area \in Nat /\ area <= QueueCapacity * now
    <2>1. stats.area_num_in_job_queue_us \in Nat
      BY Numbers DEF Inv
    <2>2. Area(length) \in Nat /\ area <= QueueCapacity * now
      BY AreaBounded
    <2> QED
      BY <2>1, <2>2
  <1>2. stats' = [stats EXCEPT !.area_num_in_job_queue_us = area]
    OBVIOUS
  <1>3. stats \in StatsType
    BY DEF Inv, TimesType
  <1> HIDE DEF area
  <1>4. stats' \in StatsType
    BY <1>1, <1>2, <1>3 DEF StatsType
  <1>5. /\ stats'.area_num_in_job_queue_us = area
        /\ stats'.total_jobs_arrived = stats.total_jobs_arrived
        /\ stats'.total_jobs_dropped = stats.total_jobs_dropped
        /\ stats'.total_queue_wait_time_us = stats.total_queue_wait_time_us
        /\ stats'.total_system_time_us = stats.total_system_time_us
        /\ stats'.total_jobs_served = stats.total_jobs_served
        /\ stats'.total_inter_arrival_time_us = stats.total_inter_arrival_time_us
        /\ stats'.total_service_time_us = stats.total_service_time_us
        /\ stats'.paper_empty_time_us = stats.paper_empty_time_us
    BY <1>2, <1>3 DEF StatsType
  <1>6. Totals'
    BY <1>1, <1>5 DEF Inv, Totals
  <1>7. IntTotals'
    BY <1>5 DEF Inv, IntTotals
  <1> QED
    BY <1>4, <1>6, <1>7

LEMMA InvEnterQueue ==
  ASSUME Inv, EnterQueue
  PROVE  Inv'
  <1> DEFINE job == [NoJob EXCEPT !.sys = system_arrival_time_us, !.entered = now]
  <1>1. /\ UNCHANGED <<now, system_arrival_time_us, printer, program, stop_reading, end_pc,
                       end_reading, longest_system_time, ints_fit>>
        /\ end_pc = "running"
        /\ previous_job_arrival_time_us' = system_arrival_time_us
        /\ last_interaction_time_us' = now
        /\ Len(job_queue) < QueueCapacity
        /\ job_queue' = Append(job_queue, job)
        /\ stats' = [stats EXCEPT !.area_num_in_job_queue_us = @ + Area(Len(job_queue') - 1)]
    BY StillRunning DEF EnterQueue, stopVars, history
  <1>2. /\ job \in JobType /\ job.sys = system_arrival_time_us /\ job.entered = now
    BY Numbers DEF Inv, JobType, NoJob
  <1> HIDE DEF job
  <1>3. job_queue \in Seq(JobType) /\ Len(job_queue) \in 0..QueueCapacity
    BY Numbers DEF Inv, TimesType
  <1>4. /\ job_queue' \in Seq(JobType) /\ Len(job_queue') = Len(job_queue) + 1
        /\ \A i \in 1..Len(job_queue') :
             job_queue'[i] = IF i = Len(job_queue') THEN job ELSE job_queue[i]
    BY <1>1, <1>2, <1>3
  <1>5. stats' = [stats EXCEPT !.area_num_in_job_queue_us = @ + Area(Len(job_queue))]
    BY <1>1, <1>3, <1>4
  <1>6. stats' \in StatsType /\ Totals' /\ IntTotals'
    BY <1>1, <1>3, <1>5, AreaAdded
  <1>7. TimesType'
    BY <1>1, <1>3, <1>4, <1>6, CapacityAssumption DEF Inv, TimesType
  <1>8. TimesOrdered'
    <2>1. \A i \in 1..Len(job_queue') : InOrder(job_queue[i])'
      <3>1. \A i \in 1..Len(job_queue) : InOrder(job_queue[i])
        BY DEF Inv, TimesOrdered
      <3>2. InOrder(job)
        BY <1>2, Numbers DEF Inv, TimesOrdered, InOrder
      <3>3. \A i \in 1..Len(job_queue') : i # Len(job_queue') => i \in 1..Len(job_queue)
        BY <1>3, <1>4
      <3> QED
        BY <1>1, <1>4, <3>1, <3>2, <3>3 DEF InOrder
    <2>2. /\ last_interaction_time_us' <= now' /\ system_arrival_time_us' <= now'
          /\ previous_job_arrival_time_us' <= system_arrival_time_us'
      <3>1. now \in Nat /\ system_arrival_time_us \in Nat
        BY DEF Inv, TimesType
      <3>2. system_arrival_time_us <= now
        BY DEF Inv, TimesOrdered
      <3> QED
        BY <1>1, <3>1, <3>2
    <2> QED
      BY <2>1, <2>2, <1>1 DEF Inv, TimesOrdered, InOrder
  <1>9. \A p \in Printers : PrinterTimes(p)'
    <2>1. stats \in StatsType
      BY DEF Inv, TimesType
    <2> QED
      BY <2>1, <1>1, <1>5, PrintersKept DEF StatsType
  <1>10. AfterEnd'
    BY <1>1 DEF AfterEnd
  <1> QED
    BY <1>6, <1>7, <1>8, <1>9, <1>10 DEF Inv

(* What is left to show of a step of printer p: the others stay.           *)
LEMMA OtherPrinters ==
  ASSUME Inv, NEW p \in Printers, NEW new, printer' = [printer EXCEPT ![p] = new],
         now' = now, longest_system_time' >= longest_system_time,
         longest_system_time' \in Nat,
         \A q \in Printers \ {p} :
           /\ stats'.total_service_time_us[q] = stats.total_service_time_us[q]
           /\ stats'.paper_empty_time_us[q] = stats.paper_empty_time_us[q]
           /\ stats'.jobs_served_by_printer[q] = stats.jobs_served_by_printer[q],
         NEW q \in Printers \ {p}
  PROVE  printer'[q] = printer[q] /\ PrinterTimes(q)'
  <1>1. printer'[q] = printer[q]
    BY DEF Inv, TimesType
  <1>2. Busy(q)' = Busy(q)
    BY <1>1 DEF Busy
  <1>3. /\ PrinterTimes(q)
        /\ stats.total_service_time_us[q] \in Int
        /\ stats.jobs_served_by_printer[q] \in Nat
        /\ longest_system_time \in Nat
    BY Numbers DEF Inv
  <1>4. longest_system_time * stats.jobs_served_by_printer[q]
          <= longest_system_time' * stats.jobs_served_by_printer[q]
    BY <1>3
  <1>5. /\ longest_system_time * stats.jobs_served_by_printer[q] \in Nat
        /\ longest_system_time' * stats.jobs_served_by_printer[q] \in Nat
    BY <1>3
  <1> QED
    BY <1>1, <1>2, <1>3, <1>4, <1>5 DEF PrinterTimes

LEMMA InvLeaveQueue ==
  ASSUME Inv, NEW p \in Printers, LeaveQueue(p)
  PROVE  Inv'
  <1> DEFINE job == [Head(job_queue) EXCEPT !.left = now]
             new == [pc |-> "taken", since |-> now, job |-> job]
  <1>1. /\ UNCHANGED <<now, system_arrival_time_us, previous_job_arrival_time_us,
                       program, stop_reading, end_pc, end_reading, longest_system_time, ints_fit>>
        /\ end_pc = "running" /\ job_queue # <<>>
        /\ last_interaction_time_us' = now
        /\ job_queue' = Tail(job_queue)
        /\ printer' = [printer EXCEPT ![p] = new]
        /\ stats' = [stats EXCEPT !.area_num_in_job_queue_us = @ + Area(Len(job_queue') + 1)]
    BY DEF LeaveQueue, receiverVars, stopVars, history
  <1>2. job_queue \in Seq(JobType) /\ Len(job_queue) \in 1..QueueCapacity
    BY <1>1, Numbers DEF Inv, TimesType
  <1>3. /\ job_queue' \in Seq(JobType) /\ Len(job_queue') = Len(job_queue) - 1
        /\ \A i \in 1..Len(job_queue') : job_queue'[i] = job_queue[i + 1]
        /\ Head(job_queue) = job_queue[1]
    BY <1>1, <1>2
  <1>4. stats' = [stats EXCEPT !.area_num_in_job_queue_us = @ + Area(Len(job_queue))]
    BY <1>1, <1>2, <1>3
  <1>5. stats' \in StatsType /\ Totals' /\ IntTotals'
    BY <1>1, <1>2, <1>4, AreaAdded
  <1>6. InOrder(job_queue[1]) /\ job_queue[1] \in JobType /\ now \in Nat
    BY <1>2, Numbers DEF Inv, TimesOrdered
  <1>7. /\ job \in JobType /\ InOrder(job) /\ job.entered <= now /\ job.left = now
    BY <1>3, <1>6 DEF JobType, InOrder
  <1>8. new \in [pc : Stages, since : Nat, job : JobType]
    BY <1>6, <1>7 DEF Stages
  <1>9. new.pc = "taken" /\ new.since = now /\ new.job = job
    OBVIOUS
  <1> HIDE DEF new, job
  <1>10. printer'[p] = new /\ \A q \in Printers \ {p} : printer'[q] = printer[q]
    BY <1>1 DEF Inv, TimesType
  <1>11. TimesType'
    BY <1>1, <1>2, <1>3, <1>5, <1>6, <1>8, CapacityAssumption DEF Inv, TimesType
  <1>12. TimesOrdered'
    <2>1. \A i \in 1..Len(job_queue') : InOrder(job_queue[i])'
      BY <1>1, <1>2, <1>3 DEF Inv, TimesOrdered, InOrder
    <2>2. \A q \in Printers :
           /\ printer'[q].since <= now
           /\ printer'[q].pc \in {"taken", "serving"} =>
                /\ InOrder(printer'[q].job)
                /\ printer'[q].job.entered <= printer'[q].job.left
                /\ printer'[q].job.left <= printer'[q].since
      BY <1>6, <1>7, <1>9, <1>10 DEF Inv, TimesOrdered
    <2> QED
      BY <1>1, <1>6, <2>1, <2>2 DEF Inv, TimesOrdered, InOrder
  <1>13. ASSUME NEW q \in Printers PROVE PrinterTimes(q)'
    <2>1. /\ stats'.total_service_time_us = stats.total_service_time_us
          /\ stats'.paper_empty_time_us = stats.paper_empty_time_us
          /\ stats'.jobs_served_by_printer = stats.jobs_served_by_printer
      BY <1>4 DEF Inv, TimesType, StatsType
    <2>2. Busy(q) \in Nat /\ Busy(q)' <= Busy(q) /\ Busy(q)' \in Nat
      <3>1. Busy(q) \in Nat
        BY Numbers DEF Busy, Inv, TimesOrdered
      <3>2. CASE q = p
        BY <3>1, <3>2, <1>9, <1>10 DEF Busy
      <3>3. CASE q # p
        BY <3>1, <3>3, <1>1, <1>10 DEF Busy
      <3> QED
        BY <3>2, <3>3
    <2>3. PrinterTimes(q) /\ stats.total_service_time_us[q] \in Int
           /\ stats.paper_empty_time_us[q] \in Int /\ now \in Nat
      BY Numbers DEF Inv
    <2> QED
      BY <1>1, <2>1, <2>2, <2>3 DEF PrinterTimes
  <1> QED
    BY <1>1, <1>5, <1>11, <1>12, <1>13 DEF Inv, AfterEnd

LEMMA InvBeginService ==
  ASSUME Inv, NEW p \in Printers, BeginService(p)
  PROVE  Inv'
  <1> DEFINE new == [printer[p] EXCEPT !.pc = "serving", !.since = now]
  <1>1. /\ UNCHANGED <<now, stats, job_queue, last_interaction_time_us,
                       system_arrival_time_us, previous_job_arrival_time_us,
                       program, stop_reading, end_pc, end_reading, longest_system_time, ints_fit>>
        /\ printer[p].pc = "taken" /\ end_pc = "running"
        /\ printer' = [printer EXCEPT ![p] = new]
    BY StillRunning
    DEF BeginService, queueVars, receiverVars, stopVars, history, Inv, TimesType
  <1>2. printer[p] \in [pc : Stages, since : Nat, job : JobType] /\ now \in Nat
    BY DEF Inv, TimesType
  <1>3. /\ new \in [pc : Stages, since : Nat, job : JobType]
        /\ new.pc = "serving" /\ new.since = now /\ new.job = printer[p].job
    BY <1>2 DEF Stages
  <1> HIDE DEF new
  <1>4. printer'[p] = new /\ \A q \in Printers \ {p} : printer'[q] = printer[q]
    BY <1>1 DEF Inv, TimesType
  <1>5. TimesType'
    BY <1>1, <1>2, <1>3 DEF Inv, TimesType
  <1>6. TimesOrdered'
    <2>1. /\ printer[p].since <= now /\ InOrder(printer[p].job)
          /\ printer[p].job.entered <= printer[p].job.left
          /\ printer[p].job.left <= now
      <3>1. /\ printer[p].since <= now /\ InOrder(printer[p].job)
            /\ printer[p].job.entered <= printer[p].job.left
            /\ printer[p].job.left <= printer[p].since
        BY <1>1 DEF Inv, TimesOrdered
      <3>2. printer[p].job.left \in Nat /\ printer[p].since \in Nat /\ now \in Nat
        BY <1>2 DEF JobType
      <3> QED
        BY <3>1, <3>2
    <2> QED
      BY <1>1, <1>2, <1>3, <1>4, <2>1 DEF Inv, TimesOrdered, InOrder
  <1>7. ASSUME NEW q \in Printers PROVE PrinterTimes(q)'
    <2>1. Busy(q)' = Busy(q)
      BY <1>1, <1>2, <1>3, <1>4 DEF Busy
    <2> QED
      BY <1>1, <2>1 DEF Inv, PrinterTimes
  <1>8. Totals' /\ IntTotals' /\ AfterEnd'
    BY <1>1 DEF Inv, Totals, IntTotals, AfterEnd
  <1> QED
    BY <1>5, <1>6, <1>7, <1>8 DEF Inv

LEMMA InvRunShort ==
  ASSUME Inv, NEW p \in Printers, RunShort(p)
  PROVE  Inv'
  <1> DEFINE new == [printer[p] EXCEPT !.pc = "short", !.since = now]
  <1>1. /\ UNCHANGED <<now, stats, job_queue, last_interaction_time_us,
                       system_arrival_time_us, previous_job_arrival_time_us,
                       program, stop_reading, end_pc, end_reading, longest_system_time, ints_fit>>
        /\ printer[p].pc = "idle" /\ end_pc = "running"
        /\ printer' = [printer EXCEPT ![p] = new]
    BY DEF RunShort, queueVars, receiverVars, stopVars, history, Inv, TimesType
  <1>2. printer[p] \in [pc : Stages, since : Nat, job : JobType] /\ now \in Nat
    BY DEF Inv, TimesType
  <1>3. /\ new \in [pc : Stages, since : Nat, job : JobType]
        /\ new.pc = "short" /\ new.since = now
    BY <1>2 DEF Stages
  <1> HIDE DEF new
  <1>4. printer'[p] = new /\ \A q \in Printers \ {p} : printer'[q] = printer[q]
    BY <1>1 DEF Inv, TimesType
  <1>5. TimesType'
    BY <1>1, <1>2, <1>3 DEF Inv, TimesType
  <1>6. TimesOrdered'
    BY <1>1, <1>2, <1>3, <1>4 DEF Inv, TimesOrdered, InOrder
  <1>7. ASSUME NEW q \in Printers PROVE PrinterTimes(q)'
    <2>1. Busy(q)' = Busy(q)
      BY <1>1, <1>2, <1>3, <1>4 DEF Busy
    <2> QED
      BY <1>1, <2>1 DEF Inv, PrinterTimes
  <1>8. Totals' /\ IntTotals' /\ AfterEnd'
    BY <1>1 DEF Inv, Totals, IntTotals, AfterEnd
  <1> QED
    BY <1>5, <1>6, <1>7, <1>8 DEF Inv

LEMMA InvNotePaperEmpty ==
  ASSUME Inv, NEW p \in Printers, NotePaperEmpty(p)
  PROVE  Inv'
  <1> DEFINE wait == ServiceTime(p)
             empty == stats.paper_empty_time_us[p] + wait
  <1>1. /\ UNCHANGED <<now, job_queue, last_interaction_time_us, system_arrival_time_us,
                       previous_job_arrival_time_us, program, stop_reading, end_pc, end_reading,
                       longest_system_time>>
        /\ printer[p].pc = "short" /\ end_pc = "running"
        /\ printer' = [printer EXCEPT ![p] = Idle]
        /\ stats' = [stats EXCEPT !.paper_empty_time_us[p] = empty]
    BY StillRunning DEF NotePaperEmpty, queueVars, receiverVars, stopVars
  <1>13. /\ wait \in Int /\ wait <= Busy(p)
         /\ ints_fit' \in BOOLEAN
         /\ ints_fit' => ints_fit /\ wait \in Nat
    <2>1. now - printer[p].since \in Nat
      <3>1. now \in Nat /\ printer[p].since \in Nat
        BY Numbers DEF Inv
      <3>2. printer[p].since <= now
        BY DEF Inv, TimesOrdered
      <3> QED
        BY <3>1, <3>2
    <2>2. Busy(p) = now - printer[p].since
      BY <1>1 DEF Busy
    <2>3. ints_fit' = (ints_fit /\ Fits(now - printer[p].since))
      BY DEF NotePaperEmpty
    <2>4. /\ wait \in Int /\ wait <= now - printer[p].since
          /\ Fits(now - printer[p].since) => wait = now - printer[p].since
      BY <2>1, AsIntOfDuration DEF ServiceTime
    <2> HIDE DEF wait
    <2> QED
      BY <2>1, <2>2, <2>3, <2>4 DEF Inv, TimesType, Fits
  <1> HIDE DEF wait
  <1>2. /\ stats \in StatsType /\ empty \in Int /\ now \in Nat
    BY <1>13, Numbers DEF Inv, TimesType
  <1>3. empty = stats.paper_empty_time_us[p] + wait
    OBVIOUS
  <1> HIDE DEF empty
  <1>4. /\ stats' \in StatsType
        /\ stats'.paper_empty_time_us[p] = empty
        /\ \A q \in Printers \ {p} :
             stats'.paper_empty_time_us[q] = stats.paper_empty_time_us[q]
        /\ stats'.total_service_time_us = stats.total_service_time_us
        /\ stats'.jobs_served_by_printer = stats.jobs_served_by_printer
        /\ stats'.total_inter_arrival_time_us = stats.total_inter_arrival_time_us
        /\ stats'.total_system_time_us = stats.total_system_time_us
    BY <1>1, <1>2 DEF StatsType
  <1>5. /\ Idle \in [pc : Stages, since : Nat, job : JobType]
        /\ Idle.pc = "idle" /\ Idle.since = 0
    BY DEF Idle, NoJob, Stages, JobType
  <1>6. printer'[p] = Idle /\ \A q \in Printers \ {p} : printer'[q] = printer[q]
    BY <1>1 DEF Inv, TimesType
  <1>7. TimesType'
    BY <1>1, <1>4, <1>5, <1>13 DEF Inv, TimesType
  <1>8. TimesOrdered'
    BY <1>1, <1>2, <1>5, <1>6 DEF Inv, TimesOrdered, InOrder
  <1>9. PrinterTimes(p)'
    <2>1. Busy(p)' = 0 /\ Busy(p) \in Nat
      <3>1. printer[p].since \in Nat
        BY Numbers DEF Inv
      <3>2. printer[p].since <= now
        BY DEF Inv, TimesOrdered
      <3> QED
        BY <1>1, <1>2, <1>5, <1>6, <3>1, <3>2 DEF Busy
    <2>2. /\ stats.total_service_time_us[p] \in Int
          /\ stats.paper_empty_time_us[p] \in Int
          /\ PrinterTimes(p)
      BY Numbers DEF Inv
    <2>3. /\ longest_system_time' = longest_system_time
          /\ stats'.total_service_time_us[p] = stats.total_service_time_us[p]
          /\ stats'.jobs_served_by_printer[p] = stats.jobs_served_by_printer[p]
          /\ stats'.paper_empty_time_us[p] = stats.paper_empty_time_us[p] + wait
          /\ now' = now
      BY <1>1, <1>3, <1>4
    <2> QED
      BY <2>1, <2>2, <2>3, <1>2, <1>13 DEF PrinterTimes
  <1>10. ASSUME NEW q \in Printers \ {p} PROVE PrinterTimes(q)'
    <2>1. longest_system_time' \in Nat /\ longest_system_time' >= longest_system_time
      BY <1>1, Numbers DEF Inv
    <2> QED
      BY <1>1, <1>4, <2>1, OtherPrinters
  <1>11. Totals'
    BY <1>1, <1>2, <1>13 DEF Inv, Totals, StatsType
  <1>12. AfterEnd'
    BY <1>1 DEF AfterEnd
  <1>14. IntTotals'
    BY <1>3, <1>4, <1>13 DEF Inv, IntTotals
  <1> QED
    BY <1>7, <1>8, <1>9, <1>10, <1>11, <1>12, <1>14 DEF Inv

LEMMA InvDepart ==
  ASSUME Inv, NEW p \in Printers, Depart(p)
  PROVE  Inv'
  <1> DEFINE job == printer[p].job
             time == now - job.sys
             stayed == SystemTime(p)
             printed == ServiceTime(p)
             waited == job.left - job.entered
             new == [stats EXCEPT
                       !.total_system_time_us = @ + stayed,
                       !.sum_of_system_time_squared_us2 = @ + Squared(p),
                       !.total_jobs_served = @ + 1,
                       !.total_service_time_us[p] = @ + printed,
                       !.jobs_served_by_printer[p] = @ + 1,
                       !.total_queue_wait_time_us = @ + waited]
  <1>1. /\ UNCHANGED <<now, job_queue, last_interaction_time_us, system_arrival_time_us,
                       previous_job_arrival_time_us, program, stop_reading, end_pc, end_reading>>
        /\ printer[p].pc = "serving" /\ end_pc = "running"
        /\ printer' = [printer EXCEPT ![p] = Idle]
        /\ stats' = new
        /\ longest_system_time' =
             IF time > longest_system_time THEN time ELSE longest_system_time
    BY StillRunning DEF Depart, queueVars, receiverVars, stopVars
  <1>2. /\ time \in Nat /\ stayed \in Int /\ printed \in Int /\ waited \in Nat
        /\ now \in Nat /\ printed <= time /\ printed <= Busy(p)
        /\ ints_fit' \in BOOLEAN
        /\ ints_fit' => /\ ints_fit /\ stayed \in Nat /\ printed \in Nat
                        /\ waited <= stayed
    <2>1. /\ InOrder(job) /\ job.entered <= job.left /\ job.left <= printer[p].since
          /\ printer[p].since <= now
      BY <1>1 DEF Inv, TimesOrdered
    <2>2. /\ now \in Nat /\ printer[p].since \in Nat /\ job.sys \in Nat
          /\ job.entered \in Nat /\ job.left \in Nat
      BY Numbers DEF Inv
    <2> DEFINE busy == now - printer[p].since
    <2>3. Busy(p) = busy
      BY <1>1 DEF Busy
    <2>4. /\ time \in Nat /\ busy \in Nat /\ waited \in Nat /\ busy + waited <= time
      BY <2>1, <2>2 DEF InOrder
    <2>5. /\ stayed \in Int /\ stayed <= time /\ (Fits(time) => stayed = time)
      BY <2>4, AsIntOfDuration DEF SystemTime
    <2>6. /\ printed \in Int /\ printed <= busy /\ (Fits(busy) => printed = busy)
      BY <2>4, AsIntOfDuration DEF ServiceTime
    <2>7. ints_fit' = (ints_fit /\ Fits(time))
      BY DEF Depart
    <2> HIDE DEF time, stayed, printed, waited, busy
    <2>8. Fits(time) => Fits(busy)
      BY <2>4, CapacityAssumption DEF Fits
    <2>9. Fits(time) \in BOOLEAN /\ ints_fit \in BOOLEAN
      BY DEF Fits, Inv, TimesType
    <2>10. ints_fit' => ints_fit /\ stayed = time /\ printed = busy
      BY <2>5, <2>6, <2>7, <2>8, <2>9
    <2> QED
      BY <2>2, <2>3, <2>4, <2>5, <2>6, <2>7, <2>9, <2>10
  <1>3. Squared(p) \in Int
    <2>1. SystemTime(p) * SystemTime(p) \in Int
      BY <1>2
    <2> QED
      BY <2>1, AsIntIsInt DEF Squared
  <1>4. stats \in StatsType
    BY DEF Inv, TimesType
  <1> HIDE DEF time, stayed, printed, waited, job
  <1>5. /\ stats' \in StatsType
        /\ stats'.total_service_time_us[p] = stats.total_service_time_us[p] + printed
        /\ stats'.jobs_served_by_printer[p] = stats.jobs_served_by_printer[p] + 1
        /\ \A q \in Printers \ {p} :
             /\ stats'.total_service_time_us[q] = stats.total_service_time_us[q]
             /\ stats'.jobs_served_by_printer[q] = stats.jobs_served_by_printer[q]
        /\ stats'.paper_empty_time_us = stats.paper_empty_time_us
        /\ stats'.area_num_in_job_queue_us = stats.area_num_in_job_queue_us
        /\ stats'.total_jobs_arrived = stats.total_jobs_arrived
        /\ stats'.total_jobs_dropped = stats.total_jobs_dropped
        /\ stats'.total_jobs_served = stats.total_jobs_served + 1
        /\ stats'.total_queue_wait_time_us = stats.total_queue_wait_time_us + waited
        /\ stats'.total_system_time_us = stats.total_system_time_us + stayed
        /\ stats'.total_inter_arrival_time_us = stats.total_inter_arrival_time_us
    <2> DEFINE system == stats.total_system_time_us + stayed
               squares == stats.sum_of_system_time_squared_us2 + Squared(p)
               served == stats.total_jobs_served + 1
               services == [stats.total_service_time_us EXCEPT ![p] = @ + printed]
               counts == [stats.jobs_served_by_printer EXCEPT ![p] = @ + 1]
               waits == stats.total_queue_wait_time_us + waited
    <2>1. stats' = [stats EXCEPT
                      !.total_system_time_us = system,
                      !.sum_of_system_time_squared_us2 = squares,
                      !.total_jobs_served = served,
                      !.total_service_time_us = services,
                      !.jobs_served_by_printer = counts,
                      !.total_queue_wait_time_us = waits]
      BY <1>1, <1>4 DEF StatsType
    <2>2. system \in Int /\ squares \in Int /\ served \in Nat /\ waits \in Nat
      BY <1>2, <1>3, <1>4 DEF StatsType
    <2>3. /\ services \in [Printers -> Int] /\ counts \in [Printers -> Nat]
          /\ services[p] = stats.total_service_time_us[p] + printed
          /\ counts[p] = stats.jobs_served_by_printer[p] + 1
          /\ \A q \in Printers \ {p} :
               /\ services[q] = stats.total_service_time_us[q]
               /\ counts[q] = stats.jobs_served_by_printer[q]
      <3>1. /\ stats.total_service_time_us \in [Printers -> Int]
            /\ stats.jobs_served_by_printer \in [Printers -> Nat]
        BY <1>4 DEF StatsType
      <3> QED
        BY <3>1, <1>2
    <2> HIDE DEF new, system, squares, served, services, counts, waits
    <2>4. stats' \in StatsType
      BY <2>1, <2>2, <2>3, <1>4 DEF StatsType
    <2>5. /\ stats'.total_service_time_us = services
          /\ stats'.jobs_served_by_printer = counts
          /\ stats'.total_jobs_served = served
          /\ stats'.total_queue_wait_time_us = waits
          /\ stats'.total_system_time_us = system
          /\ UNCHANGED <<stats.paper_empty_time_us, stats.area_num_in_job_queue_us,
               stats.total_jobs_arrived, stats.total_jobs_dropped,
               stats.total_inter_arrival_time_us>>
      BY <2>1, <1>4 DEF StatsType
    <2> QED
      BY <2>3, <2>4, <2>5 DEF served, waits, system
  <1>6. /\ Idle \in [pc : Stages, since : Nat, job : JobType]
        /\ Idle.pc = "idle" /\ Idle.since = 0
    BY DEF Idle, NoJob, Stages, JobType
  <1>7. printer'[p] = Idle /\ \A q \in Printers \ {p} : printer'[q] = printer[q]
    BY <1>1 DEF Inv, TimesType
  <1>8. /\ longest_system_time' \in Nat /\ longest_system_time' >= longest_system_time
        /\ longest_system_time' >= time
    <2>1. longest_system_time \in Nat
      BY ClockNumbers DEF Inv
    <2> QED
      BY <1>1, <1>2, <2>1
  <1>9. TimesType'
    BY <1>1, <1>2, <1>5, <1>6, <1>8 DEF Inv, TimesType
  <1>10. TimesOrdered'
    BY <1>1, <1>2, <1>6, <1>7 DEF Inv, TimesOrdered, InOrder
  <1>11. PrinterTimes(p)'
    <2> DEFINE service == stats.total_service_time_us[p]
               served == stats.jobs_served_by_printer[p]
               longest == longest_system_time'
    <2>1. Busy(p)' = 0
      BY <1>6, <1>7 DEF Busy
    <2>2. /\ service \in Int /\ served \in Nat /\ stats.paper_empty_time_us[p] \in Int
          /\ longest_system_time \in Nat
      BY Numbers DEF Inv
    <2>9. Busy(p) \in Int
      BY Numbers DEF Busy, Inv
    <2>3. /\ service + stats.paper_empty_time_us[p] + printed <= now
          /\ service <= longest_system_time * served
      BY <1>2, <2>2, <2>9 DEF Inv, PrinterTimes
    <2> HIDE DEF service, served, longest
    <2>4. longest \in Nat /\ longest >= longest_system_time /\ printed <= longest
      BY <1>2, <1>8 DEF longest
    <2>5. longest_system_time * served <= longest * served
      BY <2>2, <2>4
    <2>6. longest * (served + 1) = longest * served + longest
      BY <2>2, <2>4
    <2>7. longest * served \in Nat /\ longest_system_time * served \in Nat
      BY <2>2, <2>4
    <2>8. service + printed <= longest * (served + 1)
      BY <1>2, <2>2, <2>3, <2>4, <2>5, <2>6, <2>7
    <2> QED
      BY <1>1, <1>2, <1>5, <2>1, <2>2, <2>3, <2>8 DEF PrinterTimes, service, served, longest
  <1>12. ASSUME NEW q \in Printers \ {p} PROVE PrinterTimes(q)'
    <2>1. now' = now
      BY <1>1
    <2> QED
      BY <1>1, <1>5, <1>8, <2>1, OtherPrinters
  <1>13. Totals'
    <2>1. /\ Totals /\ stats.total_queue_wait_time_us \in Nat
          /\ stats.total_system_time_us \in Int /\ stats.total_jobs_served \in Nat
      BY <1>4 DEF Inv, StatsType
    <2> QED
      BY <1>1, <1>2, <1>5, <2>1 DEF Totals
  <1>14. AfterEnd'
    BY <1>1 DEF AfterEnd
  <1>15. IntTotals'
    <2>1. ASSUME ints_fit', NEW q \in Printers
          PROVE  /\ stats'.total_service_time_us[q] \in Nat
                 /\ stats'.paper_empty_time_us[q] \in Nat
      <3>1. CASE q = p
        BY <1>2, <1>5, <2>1, <3>1 DEF Inv, IntTotals
      <3>2. CASE q # p
        BY <1>2, <1>5, <2>1, <3>2 DEF Inv, IntTotals
      <3> QED
        BY <3>1, <3>2
    <2>2. ints_fit' => /\ stats'.total_inter_arrival_time_us \in Nat
                      /\ stats'.total_system_time_us \in Nat
      BY <1>2, <1>5 DEF Inv, IntTotals
    <2> QED
      BY <2>1, <2>2 DEF IntTotals
  <1> QED
    BY <1>9, <1>10, <1>11, <1>12, <1>13, <1>14, <1>15 DEF Inv

(* The steps of a stop and of the end that write to the statistics.        *)
LEMMA InvStop ==
  ASSUME Inv, LogStopped \/ EmptyQueue \/ LogEnd
  PROVE  Inv'
  <1>1. /\ UNCHANGED <<now, system_arrival_time_us, previous_job_arrival_time_us, program,
                       receiver_pc, printer, stop_reading, end_reading,
                       longest_system_time, ints_fit>>
        /\ last_interaction_time_us' \in {last_interaction_time_us, now}
        /\ job_queue' \in {job_queue, <<>>}
    BY DEF LogStopped, EmptyQueue, LogEnd, queueVars, receiverVars, history
  <1>2. /\ \/ end_pc' = end_pc
           \/ end_pc = "reading" /\ end_pc' = "ended"
        /\ end_pc' = "ended" /\ program = "cli" => stats'.simulation_duration_us = end_reading
    <2>1. stats \in StatsType
      BY DEF Inv, TimesType
    <2>2. CASE LogStopped \/ EmptyQueue
      BY <2>2 DEF LogStopped, EmptyQueue, MayStop
    <2>3. CASE LogEnd
      BY <2>1, <2>3 DEF LogEnd, StatsType
    <2> QED
      BY <2>2, <2>3
  <1>3. /\ stats' \in StatsType
        /\ UNCHANGED <<stats.total_service_time_us, stats.paper_empty_time_us,
             stats.jobs_served_by_printer, stats.area_num_in_job_queue_us,
             stats.total_jobs_arrived, stats.total_jobs_dropped, stats.total_jobs_served,
             stats.total_queue_wait_time_us, stats.total_system_time_us,
             stats.total_inter_arrival_time_us>>
    <2>1. /\ stats \in StatsType /\ stop_reading \in Nat /\ end_reading \in Nat
          /\ Len(job_queue) \in Nat
      BY Numbers DEF Inv, TimesType
    <2>2. stats.total_jobs_removed + Len(job_queue) \in Nat
      BY <2>1 DEF StatsType
    <2>3. CASE LogStopped \/ LogEnd
      BY <2>1, <2>3 DEF LogStopped, LogEnd, StatsType
    <2>4. CASE EmptyQueue
      BY <2>1, <2>2, <2>4 DEF EmptyQueue, StatsType
    <2> QED
      BY <2>3, <2>4
  <1>4. TimesType'
    <2>1. job_queue' \in Seq(JobType) /\ Len(job_queue') <= QueueCapacity
      <3>1. CASE job_queue' = job_queue
        BY <3>1 DEF Inv, TimesType
      <3>2. CASE job_queue' = <<>>
        BY <3>2, CapacityAssumption
      <3> QED
        BY <1>1, <3>1, <3>2
    <2> QED
      BY <1>1, <1>3, <2>1 DEF Inv, TimesType
  <1>5. TimesOrdered'
    <2>1. \A i \in 1..Len(job_queue') : InOrder(job_queue[i])'
      BY <1>1 DEF Inv, TimesOrdered, InOrder
    <2> QED
      BY <1>1, <2>1, Numbers DEF Inv, TimesOrdered, InOrder
  <1>6. \A p \in Printers : PrinterTimes(p)'
    BY <1>1, <1>3, PrintersKept
  <1>7. Totals'
    <2> DEFINE before == last_interaction_time_us
               after == last_interaction_time_us'
    <2>1. before \in Nat /\ after \in Nat /\ before <= after
      BY <1>1, Numbers DEF Inv, TimesOrdered
    <2> HIDE DEF before, after
    <2>2. QueueCapacity * before <= QueueCapacity * after
      BY <2>1, CapacityAssumption
    <2>3. /\ QueueCapacity * before \in Nat /\ QueueCapacity * after \in Nat
          /\ stats.area_num_in_job_queue_us \in Nat
      BY <2>1, CapacityAssumption, Numbers DEF Inv
    <2>4. stats'.area_num_in_job_queue_us <= QueueCapacity * last_interaction_time_us'
      BY <1>3, <2>2, <2>3 DEF Inv, Totals, before, after
    <2> QED
      BY <1>1, <1>3, <2>4 DEF Inv, Totals
  <1>8. IntTotals'
    BY <1>1, <1>3 DEF Inv, IntTotals
  <1>9. AfterEnd'
    BY <1>1, <1>2, <1>3 DEF Inv, AfterEnd
  <1> QED
    BY <1>4, <1>5, <1>6, <1>7, <1>8, <1>9 DEF Inv

(* The area divided by the capacity is no more than the clock.             *)
LEMMA AreaByNow ==
  ASSUME Inv
  PROVE  stats.area_num_in_job_queue_us <= QueueCapacity * now
  <1> DEFINE last == last_interaction_time_us
  <1>1. /\ stats.area_num_in_job_queue_us \in Nat /\ last \in Nat /\ now \in Nat
        /\ last <= now /\ stats.area_num_in_job_queue_us <= QueueCapacity * last
    BY Numbers DEF Inv, Totals, TimesOrdered
  <1> HIDE DEF last
  <1>2. QueueCapacity * last <= QueueCapacity * now
    BY <1>1, CapacityAssumption
  <1>3. QueueCapacity * last \in Nat /\ QueueCapacity * now \in Nat
    BY <1>1, CapacityAssumption
  <1> QED
    BY <1>1, <1>2, <1>3

LEMMA InvReadEnd ==
  ASSUME Inv, ReadEnd
  PROVE  Inv'
  <1>1. /\ UNCHANGED <<now, stats, job_queue, last_interaction_time_us,
                       system_arrival_time_us, previous_job_arrival_time_us, receiver_pc,
                       printer, program, stop_reading, longest_system_time, ints_fit>>
        /\ end_reading' = now /\ now \in Nat /\ end_pc' = "reading"
        /\ receiver_pc = "done" /\ \A p \in Printers : printer[p].pc = "idle"
    BY DEF ReadEnd, queueVars, receiverVars, history, Inv, TimesType
  <1>2. TimesType' /\ TimesOrdered' /\ Totals' /\ IntTotals'
    BY <1>1 DEF Inv, TimesType, TimesOrdered, InOrder, Totals, IntTotals
  <1>3. \A p \in Printers : PrinterTimes(p)'
    BY <1>1, PrintersKept
  <1>4. ASSUME NEW p \in Printers
        PROVE  stats.total_service_time_us[p] + stats.paper_empty_time_us[p] <= now
    <2>1. /\ Busy(p) = 0 /\ PrinterTimes(p)
          /\ stats.total_service_time_us[p] \in Int /\ stats.paper_empty_time_us[p] \in Int
      BY <1>1, Numbers DEF Busy, Inv
    <2> QED
      BY <1>1, <2>1 DEF PrinterTimes
  <1>5. AfterEnd'
    BY <1>1, <1>4, AreaByNow DEF AfterEnd
  <1> QED
    BY <1>2, <1>3, <1>5 DEF Inv

LEMMA InvNext == Inv /\ [Next]_vars => Inv'
  <1> SUFFICES ASSUME Inv, [Next]_vars PROVE Inv'
    OBVIOUS
  <1>1. CASE CheckTermination \/ Arrive \/ DropJob \/ EnterQueue
    BY <1>1, InvCheckTermination, InvArrival, InvEnterQueue
  <1>2. ASSUME NEW p \in Printers,
               \/ LeaveQueue(p) \/ BeginService(p) \/ Depart(p)
               \/ RunShort(p) \/ NotePaperEmpty(p)
        PROVE  Inv'
    BY <1>2, InvLeaveQueue, InvBeginService, InvDepart, InvRunShort, InvNotePaperEmpty
  <1>3. CASE Tick \/ SetFlags \/ ReadStop
    BY <1>3, InvTick, InvSetFlags, InvReadStop
  <1>4. CASE LogStopped \/ EmptyQueue \/ ReadEnd \/ LogEnd
    BY <1>4, InvStop, InvReadEnd
  <1>5. CASE UNCHANGED vars
    BY <1>5, InvKept
    DEF vars, queueVars, receiverVars, stopVars, history, Inv, TimesType
  <1> QED
    BY <1>1, <1>2, <1>3, <1>4, <1>5 DEF Next

(* The quotients compare as their parts do.                                *)
LEMMA QuotientWithin ==
  ASSUME NEW a \in Nat, NEW d \in Nat, NEW k \in Nat, a <= k * d
  PROVE  Within(Quotient(a, d), k)
  BY DEF Within, AtMost, Quotient, Whole

(* The final statistics are in range: what does not pass through an int    *)
(* always, the rest while every duration fits one; and what is divided by  *)
(* the duration unless the stop of the server puts the duration back.      *)
THEOREM StatisticsInRange == Spec => []ReportInRange
  <1>1. Inv => ReportInRange
    <2> SUFFICES ASSUME Inv, end_pc = "ended" PROVE ReportInRange
      BY DEF ReportInRange
    <2> DEFINE duration == stats.simulation_duration_us
    <2>1. /\ end_reading \in Nat /\ duration \in Nat /\ longest_system_time \in Nat
          /\ ~DurationPutBack => end_reading <= duration
      <3>1. end_reading \in Nat /\ duration \in Nat /\ longest_system_time \in Nat
        BY Numbers DEF Inv
      <3>2. program = "cli" => duration = end_reading
        BY DEF Inv, AfterEnd
      <3>3. program \in {"cli", "server"}
        BY DEF Inv, TimesType
      <3> QED
        BY <3>1, <3>2, <3>3 DEF DurationPutBack
    <2>2. ASSUME NEW p \in Printers, ints_fit
          PROVE  /\ Within(AverageServiceTime(p), longest_system_time)
                 /\ ~DurationPutBack =>
                      /\ Within(SystemUtilization(p), 1)
                      /\ Within(Quotient(stats.total_service_time_us[p]
                                           + stats.paper_empty_time_us[p], duration), 1)
      <3> DEFINE service == stats.total_service_time_us[p]
                 empty == stats.paper_empty_time_us[p]
                 served == stats.jobs_served_by_printer[p]
      <3>1. service \in Nat /\ empty \in Nat /\ served \in Nat
        BY <2>2, Numbers DEF Inv, IntTotals
      <3>2. service + empty <= end_reading /\ service <= longest_system_time * served
        BY DEF Inv, PrinterTimes, AfterEnd
      <3> HIDE DEF service, empty, served, duration
      <3>3. ~DurationPutBack => /\ service + empty \in Nat /\ service + empty <= 1 * duration
                                /\ service <= 1 * duration
        BY <2>1, <3>1, <3>2
      <3>4. ~DurationPutBack => /\ Within(Quotient(service, duration), 1)
                                /\ Within(Quotient(service + empty, duration), 1)
        BY <2>1, <3>1, <3>3, QuotientWithin
      <3>5. Within(Quotient(service, served), longest_system_time)
        BY <2>1, <3>1, <3>2, QuotientWithin
      <3> QED
        BY <3>4, <3>5 DEF SystemUtilization, AverageServiceTime, service, empty, served, duration
    <2>3. Within(JobDropProbability, 1)
      <3>1. /\ stats.total_jobs_dropped \in Nat /\ stats.total_jobs_arrived \in Nat
            /\ stats.total_jobs_dropped <= 1 * stats.total_jobs_arrived
        BY Numbers DEF Inv, Totals
      <3> QED
        BY <3>1, QuotientWithin DEF JobDropProbability
    <2>4. ~DurationPutBack => Within(AverageQueueLength, QueueCapacity)
      <3> SUFFICES ASSUME ~DurationPutBack PROVE Within(AverageQueueLength, QueueCapacity)
        OBVIOUS
      <3>1. /\ stats.area_num_in_job_queue_us \in Nat
            /\ stats.area_num_in_job_queue_us <= QueueCapacity * end_reading
        BY Numbers DEF Inv, AfterEnd
      <3> HIDE DEF duration
      <3>2. QueueCapacity * end_reading <= QueueCapacity * duration
        BY <2>1, CapacityAssumption
      <3>3. QueueCapacity * end_reading \in Nat /\ QueueCapacity * duration \in Nat
        BY <2>1, CapacityAssumption
      <3>4. stats.area_num_in_job_queue_us <= QueueCapacity * duration
        BY <3>1, <3>2, <3>3
      <3> QED
        BY <2>1, <3>1, <3>4, CapacityAssumption, QuotientWithin DEF AverageQueueLength, duration
    <2>5. ints_fit => AtMost(AverageQueueWaitTime, AverageSystemTime)
      <3>1. /\ stats.total_queue_wait_time_us \in Nat /\ stats.total_system_time_us \in Int
            /\ stats.total_jobs_served \in Nat
            /\ ints_fit => stats.total_queue_wait_time_us <= stats.total_system_time_us
        BY Numbers DEF Inv, Totals
      <3> QED
        BY <3>1 DEF AtMost, Quotient, AverageQueueWaitTime, AverageSystemTime
    <2> QED
      BY <2>2, <2>3, <2>4, <2>5 DEF ReportInRange
  <1> QED
    BY InvInit, InvNext, <1>1, PTL DEF Spec

-----------------------------------------------------------------------------
(* The numbers range over their types.                                     *)
LEMMA ClockBounded ==
  /\ Init => now <= MaxTime
  /\ TimesType /\ now <= MaxTime /\ [Next]_vars => now' <= MaxTime
  <1>1. Init => now <= MaxTime
    BY CapacityAssumption DEF Init
  <1>2. Tick /\ TimesType => now' <= MaxTime
    BY CapacityAssumption DEF Tick, TimesType
  <1>3. [Next]_vars => Tick \/ now' = now
    BY DEF Next, vars, CheckTermination, Arrive, DropJob, EnterQueue, LeaveQueue,
       BeginService, Depart, RunShort, NotePaperEmpty, SetFlags, ReadStop, LogStopped,
       EmptyQueue, ReadEnd, LogEnd
  <1> QED
    BY <1>1, <1>2, <1>3

THEOREM StatisticsTypeCorrect == Spec => []TypeOK
  <1>1. Inv /\ now <= MaxTime => TypeOK
    <2> SUFFICES ASSUME Inv, now <= MaxTime PROVE TypeOK
      OBVIOUS
    <2>1. /\ now \in 0..MaxTime /\ last_interaction_time_us \in 0..now
          /\ previous_job_arrival_time_us \in 0..now
      BY Numbers, CapacityAssumption DEF Inv, TimesOrdered
    <2>2. \A i \in 1..Len(job_queue) :
            job_queue[i].sys <= job_queue[i].entered /\ job_queue[i].entered <= now
      BY DEF Inv, TimesOrdered, InOrder
    <2>3. Len(job_queue) <= QueueCapacity /\ stats \in StatsType
      BY DEF Inv, TimesType
    <2>4. \A f \in {"total_jobs_arrived", "total_jobs_served", "total_jobs_dropped",
                    "total_jobs_removed", "total_queue_wait_time_us",
                    "area_num_in_job_queue_us", "simulation_duration_us"} : stats[f] \in Nat
      BY <2>3 DEF StatsType
    <2> QED
      BY <2>1, <2>2, <2>3, <2>4 DEF TypeOK, Inv, IntTotals
  <1>2. Init => Inv /\ now <= MaxTime
    BY InvInit, ClockBounded
  <1>3. Inv /\ now <= MaxTime /\ [Next]_vars => (Inv /\ now <= MaxTime)'
    BY InvNext, ClockBounded, CapacityAssumption DEF Inv
  <1> QED
    BY <1>1, <1>2, <1>3, PTL DEF Spec

-----------------------------------------------------------------------------
(* The gaps between the arrivals.                                          *)

Gaps ==
  LET total == stats.total_inter_arrival_time_us
      last  == system_arrival_time_us
      prev  == previous_job_arrival_time_us
  IN  /\ job_id \in Nat
      /\ stats.total_jobs_arrived = job_id + stats.total_jobs_dropped
      /\ ints_fit /\ receiver_pc = "arrived" =>
           /\ last <= total /\ total <= last + prev
           /\ stats.total_jobs_dropped = 0 => total = last
      /\ ints_fit /\ receiver_pc # "arrived" =>
           /\ prev <= total /\ total <= 2 * prev
           /\ stats.total_jobs_dropped = 0 => total = prev

LEMMA GapsInit == Init => Gaps
  BY DEF Init, Gaps

LEMMA GapsKept ==
  ASSUME Gaps, UNCHANGED <<job_id, stats.total_jobs_arrived, stats.total_jobs_dropped,
                 stats.total_inter_arrival_time_us, system_arrival_time_us,
                 previous_job_arrival_time_us>>,
         ints_fit' => ints_fit,
         (receiver_pc' = "arrived") <=> (receiver_pc = "arrived")
  PROVE  Gaps'
  BY DEF Gaps

LEMMA GapsNext ==
  ASSUME Inv, Gaps, [Next]_vars
  PROVE  Gaps'
  <1> DEFINE total == stats.total_inter_arrival_time_us
             last == system_arrival_time_us
             prev == previous_job_arrival_time_us
             arrived == stats.total_jobs_arrived
             dropped == stats.total_jobs_dropped
  <1>1. stats \in StatsType
    BY DEF Inv, TimesType
  <1>2. /\ total \in Int /\ last \in Nat /\ prev \in Nat /\ now \in Nat /\ prev <= last
        /\ last <= now /\ arrived \in Nat /\ dropped \in Nat /\ job_id \in Nat
    BY <1>1 DEF Inv, TimesType, TimesOrdered, StatsType, Gaps
  <1>7. ints_fit \in BOOLEAN /\ \A d : Fits(d) \in BOOLEAN
    BY DEF Inv, TimesType, Fits
  <1>3. CASE Arrive
    <2>1. /\ receiver_pc # "arrived" /\ receiver_pc' = "arrived" /\ job_id' = job_id + 1
          /\ last' = now /\ prev' = prev /\ dropped' = dropped
          /\ total' = total + AsInt(now - prev) /\ arrived' = arrived + 1
      BY <1>1, <1>3 DEF Arrive, ArrivalStats, StatsType
    <2>2. /\ arrived = job_id + dropped
          /\ ints_fit => prev <= total /\ total <= 2 * prev /\ (dropped = 0 => total = prev)
      BY <2>1 DEF Gaps
    <2>4. ints_fit' => ints_fit /\ AsInt(now - prev) = now - prev
      <3>1. now - prev \in Nat /\ ints_fit' = (ints_fit /\ Fits(now - prev))
        BY <1>2, <1>3 DEF Arrive
      <3> QED
        BY <3>1, AsIntOfDuration, <1>7
    <2> HIDE DEF total, last, prev, arrived, dropped
    <2>3. /\ job_id' \in Nat /\ arrived' = job_id' + dropped'
          /\ ints_fit' => /\ last' <= total' /\ total' <= last' + prev'
                          /\ dropped' = 0 => total' = last'
      BY <1>2, <2>1, <2>2, <2>4
    <2> QED
      BY <2>1, <2>3 DEF Gaps, total, last, prev, arrived, dropped
  <1>4. CASE DropJob
    <2>1. /\ receiver_pc = "arrived" /\ receiver_pc' # "arrived" /\ job_id' = job_id
          /\ last' = last /\ prev' = last /\ dropped' = dropped + 1
          /\ total' = total + AsInt(last - prev) /\ arrived' = arrived + 1
      BY <1>1, <1>4 DEF DropJob, ArrivalStats, StatsType
    <2>2. /\ arrived = job_id + dropped
          /\ ints_fit => last <= total /\ total <= last + prev
      BY <2>1 DEF Gaps
    <2>4. ints_fit' => ints_fit /\ AsInt(last - prev) = last - prev
      <3>1. last - prev \in Nat /\ ints_fit' = (ints_fit /\ Fits(last - prev))
        BY <1>2, <1>4 DEF DropJob
      <3> QED
        BY <3>1, AsIntOfDuration, <1>7
    <2> HIDE DEF total, last, prev, arrived, dropped
    <2>3. /\ job_id' \in Nat /\ arrived' = job_id' + dropped' /\ dropped' # 0
          /\ ints_fit' => prev' <= total' /\ total' <= 2 * prev'
      BY <1>2, <2>1, <2>2, <2>4
    <2> QED
      BY <2>1, <2>3 DEF Gaps, total, last, prev, arrived, dropped
  <1>5. CASE EnterQueue
    <2>1. /\ receiver_pc = "arrived" /\ receiver_pc' # "arrived" /\ job_id' = job_id
          /\ last' = last /\ prev' = last /\ dropped' = dropped
          /\ total' = total /\ arrived' = arrived /\ ints_fit' = ints_fit
      BY <1>1, <1>5 DEF EnterQueue, StatsType, history
    <2>2. /\ arrived = job_id + dropped
          /\ ints_fit => /\ last <= total /\ total <= last + prev
                         /\ dropped = 0 => total = last
      BY <2>1 DEF Gaps
    <2> HIDE DEF total, last, prev, arrived, dropped
    <2>3. /\ job_id' \in Nat /\ arrived' = job_id' + dropped'
          /\ ints_fit' => /\ prev' <= total' /\ total' <= 2 * prev'
                          /\ dropped' = 0 => total' = prev'
      BY <1>2, <2>1, <2>2
    <2> QED
      BY <2>1, <2>3 DEF Gaps, total, last, prev, arrived, dropped
  <1>6. ASSUME ~Arrive, ~DropJob, ~EnterQueue
        PROVE  /\ UNCHANGED <<job_id, stats.total_jobs_arrived, stats.total_jobs_dropped,
                    stats.total_inter_arrival_time_us, system_arrival_time_us,
                    previous_job_arrival_time_us>>
               /\ ints_fit' => ints_fit
               /\ (receiver_pc' = "arrived") <=> (receiver_pc = "arrived")
    <2>1. CASE \E p \in Printers : BeginService(p) \/ RunShort(p)
      BY <2>1 DEF BeginService, RunShort, receiverVars, history
    <2>6. CASE \E p \in Printers : LeaveQueue(p)
      BY <1>1, <2>6 DEF LeaveQueue, receiverVars, history, StatsType
    <2>7. CASE \E p \in Printers : NotePaperEmpty(p)
      BY <1>1, <1>7, <2>7 DEF NotePaperEmpty, receiverVars, StatsType
    <2>2. CASE \E p \in Printers : Depart(p)
      BY <1>1, <1>7, <2>2 DEF Depart, receiverVars, StatsType
    <2>3. CASE Tick \/ SetFlags \/ ReadStop \/ LogStopped \/ EmptyQueue \/ ReadEnd \/ LogEnd
      BY <1>1, <2>3 DEF Tick, SetFlags, ReadStop, LogStopped, EmptyQueue, ReadEnd, LogEnd,
         receiverVars, history, StatsType
    <2>4. CASE CheckTermination
      BY <2>4 DEF CheckTermination, history
    <2>5. CASE UNCHANGED vars
      BY <2>5 DEF vars, receiverVars, history
    <2> QED
      BY <1>6, <2>1, <2>2, <2>3, <2>4, <2>5, <2>6, <2>7 DEF Next
  <1> QED
    BY <1>3, <1>4, <1>5, <1>6, GapsKept

(* total_inter_arrival_time_us is the time of the last arrival, but for the*)
(* gaps before dropped jobs, which are counted twice, and as long as every *)
(* gap fits an int.                                                        *)
THEOREM GapsTelescope == Spec => []InterArrivalsTelescope
  <1>1. Inv /\ Gaps => InterArrivalsTelescope
    <2> SUFFICES ASSUME Inv, Gaps PROVE InterArrivalsTelescope
      OBVIOUS
    <2>1. /\ stats.total_inter_arrival_time_us \in Int /\ system_arrival_time_us \in Nat
          /\ previous_job_arrival_time_us \in Nat
          /\ previous_job_arrival_time_us <= system_arrival_time_us
      BY DEF Inv, TimesType, TimesOrdered, StatsType
    <2> QED
      BY <2>1 DEF Gaps, InterArrivalsTelescope
  <1>2. Init => Inv /\ Gaps
    BY InvInit, GapsInit
  <1>3. Inv /\ Gaps /\ [Next]_vars => (Inv /\ Gaps)'
    BY InvNext, GapsNext
  <1> QED
    BY <1>1, <1>2, <1>3, PTL DEF Spec

-----------------------------------------------------------------------------
(* Sums over finite sets.  The sum of the community modules goes through a *)
(* set in an order nobody knows: it is shown that the order is of no       *)
(* importance, and what one change of the terms does to their sum.         *)

First(s) == CHOOSE x \in s : TRUE

LEMMA SmallestSet ==
  ASSUME NEW S, IsFiniteSet(S), NEW T \in SUBSET SUBSET S, T # {}
  PROVE  \E s \in T : \A r \in SUBSET s : r # s => r \notin T
  <1>1. T \subseteq FiniteSubsetsOf(S) /\ IsWellFoundedOn(StrictSubsetOrdering(S), FiniteSubsetsOf(S))
    BY FS_FiniteSubsetsOfFinite, FS_StrictSubsetOrderingWellFounded, FS_Subset DEF FiniteSubsetsOf
  <1>2. PICK s \in T : \A r \in T : ~(<<r, s>> \in StrictSubsetOrdering(S))
    BY <1>1, WFMin
  <1> QED
    BY <1>2 DEF StrictSubsetOrdering

LEMMA LeastMember ==
  ASSUME NEW T \in SUBSET Nat, T # {}
  PROVE  \E m \in T : \A k \in T : m <= k
  <1> DEFINE R == OpToRel(<, Nat)
  <1>1. IsWellFoundedOn(R, Nat)
    BY NatLessThanWellFounded
  <1>2. \A x, y \in Nat : <<x, y>> \in R <=> x < y
    BY DEF OpToRel
  <1> HIDE DEF R
  <1>3. PICK m \in T : \A y \in T : ~(<<y, m>> \in R)
    BY <1>1, WFMin
  <1>4. \A k \in T : ~(k < m)
    BY <1>2, <1>3
  <1> QED
    BY <1>4

LEMMA AllNumbers ==
  ASSUME NEW T \in SUBSET Nat, 0 \in T, \A n \in T : n + 1 \in T
  PROVE  T = Nat
  <1> SUFFICES ASSUME Nat \ T # {} PROVE FALSE
    OBVIOUS
  <1>1. PICK m \in Nat \ T : \A k \in Nat \ T : m <= k
    BY LeastMember
  <1>2. m - 1 \in T
    BY <1>1
  <1> QED
    BY <1>1, <1>2

Level(S, m) == {s \in SUBSET S : Cardinality(s) <= m}

Recursion(w, D, f) ==
  f = [s \in D |-> IF s = {} THEN 0 ELSE w[First(s)] + f[s \ {First(s)}]]

(* The function that the sum is a value of exists.                         *)
LEMMA RecursionExists ==
  ASSUME NEW S, IsFiniteSet(S), NEW w
  PROVE  \E f : Recursion(w, SUBSET S, f)
  <1> DEFINE T == {m \in Nat : \E f : Recursion(w, Level(S, m), f)}
  <1>0. \A s \in SUBSET S : IsFiniteSet(s) /\ Cardinality(s) \in Nat
    BY FS_Subset, FS_CardinalityType
  <1>1. 0 \in T
    <2> DEFINE f == [s \in Level(S, 0) |-> 0]
    <2>1. \A s \in Level(S, 0) : s = {}
      BY <1>0, FS_EmptySet DEF Level
    <2>2. Recursion(w, Level(S, 0), f)
      BY <2>1 DEF Recursion
    <2> QED
      BY <2>2
  <1>2. ASSUME NEW m \in T
        PROVE  m + 1 \in T
    <2>1. PICK f : Recursion(w, Level(S, m), f)
      OBVIOUS
    <2> DEFINE g == [s \in Level(S, m + 1) |->
                       IF s = {} THEN 0 ELSE w[First(s)] + f[s \ {First(s)}]]
    <2>2. ASSUME NEW s \in Level(S, m + 1)
          PROVE  g[s] = IF s = {} THEN 0 ELSE w[First(s)] + g[s \ {First(s)}]
      <3> DEFINE r == s \ {First(s)}
      <3>1. CASE s = {}
        BY <3>1
      <3>2. CASE s # {}
        <4>1. First(s) \in s
          BY <3>2 DEF First
        <4>2. Cardinality(r) = Cardinality(s) - 1 /\ r \in SUBSET S
          BY <1>0, <4>1, FS_RemoveElement DEF Level
        <4>3. r \in Level(S, m) /\ r \in Level(S, m + 1)
          BY <1>0, <4>2 DEF Level
        <4>4. f[r] = IF r = {} THEN 0 ELSE w[First(r)] + f[r \ {First(r)}]
          BY <2>1, <4>3 DEF Recursion
        <4>5. g[r] = f[r]
          BY <4>3, <4>4
        <4> QED
          BY <3>2, <4>5
      <3> QED
        BY <3>1, <3>2
    <2>3. g = [s \in Level(S, m + 1) |-> g[s]]
      OBVIOUS
    <2> HIDE DEF g
    <2>4. Recursion(w, Level(S, m + 1), g)
      BY <2>2, <2>3 DEF Recursion
    <2> QED
      BY <2>4
  <1>3. T = Nat
    <2> HIDE DEF T
    <2>1. T \in SUBSET Nat
      BY DEF T
    <2> QED
      BY <1>1, <1>2, <2>1, AllNumbers
  <1>4. Cardinality(S) \in Nat /\ Level(S, Cardinality(S)) = SUBSET S
    BY <1>0, FS_Subset DEF Level
  <1> QED
    BY <1>3, <1>4

(* g is the sum of the terms w over each subset of S.                      *)
Adds(w, S, g) ==
  /\ g \in [SUBSET S -> Int]
  /\ g[{}] = 0
  /\ \A s \in SUBSET S : \A y \in s : g[s] = w[y] + g[s \ {y}]

LEMMA SumAdds ==
  ASSUME NEW S, IsFiniteSet(S), NEW w \in [S -> Int]
  PROVE  \E g : Adds(w, S, g) /\ Sum(w) = g[S]
  <1> DEFINE g == CHOOSE f : Recursion(w, SUBSET S, f)
  <1>1. Sum(w) = g[S]
    BY DEF Sum, FoldFunction, FoldFunctionOnSet, MapThenFoldSet, First, Recursion
  <1>2. Recursion(w, SUBSET S, g)
    BY RecursionExists
  <1> HIDE DEF g
  <1>3. /\ g[{}] = 0
        /\ \A s \in SUBSET S : s # {} => /\ First(s) \in s
                                        /\ g[s] = w[First(s)] + g[s \ {First(s)}]
    BY <1>2 DEF Recursion, First
  <1>4. \A s \in SUBSET S : g[s] \in Int
    <2> DEFINE T == {s \in SUBSET S : g[s] \notin Int}
    <2> SUFFICES ASSUME T # {} PROVE FALSE
      OBVIOUS
    <2>0. T \in SUBSET SUBSET S
      OBVIOUS
    <2> HIDE DEF T
    <2>1. PICK s \in T : \A r \in SUBSET s : r # s => r \notin T
      BY <2>0, SmallestSet
    <2>a. s \in SUBSET S /\ g[s] \notin Int
      BY <2>1 DEF T
    <2>b. s # {}
      <3>1. g[{}] \in Int
        BY <1>3
      <3> QED
        BY <2>a, <3>1
    <2>2. s \in SUBSET S /\ s # {} /\ First(s) \in s
      BY <1>3, <2>a, <2>b
    <2>3. g[s \ {First(s)}] \in Int
      BY <2>1, <2>2 DEF T
    <2>4. w[First(s)] \in Int /\ g[s] = w[First(s)] + g[s \ {First(s)}]
      BY <1>3, <2>2
    <2> QED
      BY <2>1, <2>3, <2>4 DEF T
  <1>5. g \in [SUBSET S -> Int]
    <2>1. g = [s \in SUBSET S |-> g[s]]
      BY <1>2 DEF Recursion
    <2> QED
      BY <1>4, <2>1
  <1>6. \A s \in SUBSET S : \A y \in s : g[s] = w[y] + g[s \ {y}]
    <2> DEFINE T == {s \in SUBSET S : \E y \in s : g[s] # w[y] + g[s \ {y}]}
    <2> SUFFICES ASSUME T # {} PROVE FALSE
      OBVIOUS
    <2>0. T \in SUBSET SUBSET S
      OBVIOUS
    <2> HIDE DEF T
    <2>1. PICK s \in T : \A r \in SUBSET s : r # s => r \notin T
      BY <2>0, SmallestSet
    <2>2. PICK y \in s : s \in SUBSET S /\ g[s] # w[y] + g[s \ {y}]
      BY <2>1 DEF T
    <2> DEFINE x == First(s)
    <2>3. x \in s /\ g[s] = w[x] + g[s \ {x}] /\ x # y
      BY <1>3, <2>2
    <2> HIDE DEF x
    <2>4. s \ {x} \notin T /\ s \ {y} \notin T
      BY <2>1, <2>2, <2>3
    <2> DEFINE r == s \ {x, y}
    <2>5. (s \ {x}) \ {y} = r /\ (s \ {y}) \ {x} = r /\ r \in SUBSET S
      BY <2>2
    <2>6. g[s \ {x}] = w[y] + g[r] /\ g[s \ {y}] = w[x] + g[r]
      BY <2>2, <2>3, <2>4, <2>5 DEF T
    <2>7. w[x] \in Int /\ w[y] \in Int /\ g[r] \in Int
      BY <1>4, <2>2, <2>3, <2>5
    <2> HIDE DEF r
    <2> QED
      BY <2>2, <2>3, <2>6, <2>7
  <1> QED
    BY <1>1, <1>3, <1>5, <1>6 DEF Adds

(* Equal terms have equal sums.                                            *)
LEMMA EqualTerms ==
  ASSUME NEW S, IsFiniteSet(S), NEW w, NEW g, Adds(w, S, g),
         NEW R, NEW v, NEW h, Adds(v, R, h),
         NEW Q \in SUBSET S, Q \subseteq R, \A x \in Q : w[x] = v[x]
  PROVE  g[Q] = h[Q]
  <1> DEFINE T == {s \in SUBSET Q : g[s] # h[s]}
  <1> SUFFICES ASSUME T # {} PROVE FALSE
    OBVIOUS
  <1>1. T \in SUBSET SUBSET S
    OBVIOUS
  <1> HIDE DEF T
  <1>2. PICK s \in T : \A r \in SUBSET s : r # s => r \notin T
    BY <1>1, SmallestSet
  <1>3. s \in SUBSET Q /\ g[s] # h[s]
    BY <1>2 DEF T
  <1>4. PICK y \in s : TRUE
    BY <1>3 DEF Adds
  <1>5. s \ {y} \in SUBSET Q /\ s \ {y} \notin T
    BY <1>2, <1>3, <1>4
  <1>6. g[s \ {y}] = h[s \ {y}]
    BY <1>5 DEF T
  <1>7. g[s] = w[y] + g[s \ {y}] /\ h[s] = v[y] + h[s \ {y}]
    BY <1>3, <1>4 DEF Adds
  <1> QED
    BY <1>3, <1>4, <1>6, <1>7

LEMMA SumOfNone == ASSUME NEW w \in [{} -> Int] PROVE Sum(w) = 0
  BY SumAdds, FS_EmptySet DEF Adds

LEMMA SumIsInt == ASSUME NEW S, IsFiniteSet(S), NEW w \in [S -> Int] PROVE Sum(w) \in Int
  <1>1. PICK g : Adds(w, S, g) /\ Sum(w) = g[S]
    BY SumAdds
  <1> QED
    BY <1>1 DEF Adds

LEMMA SumOfZeros ==
  ASSUME NEW S, IsFiniteSet(S), NEW w \in [S -> Int], \A x \in S : w[x] = 0
  PROVE  Sum(w) = 0
  <1>1. PICK g : Adds(w, S, g) /\ Sum(w) = g[S]
    BY SumAdds
  <1> DEFINE T == {s \in SUBSET S : g[s] # 0}
  <1> SUFFICES ASSUME T # {} PROVE FALSE
    BY <1>1
  <1>2. T \in SUBSET SUBSET S
    OBVIOUS
  <1> HIDE DEF T
  <1>3. PICK s \in T : \A r \in SUBSET s : r # s => r \notin T
    BY <1>2, SmallestSet
  <1>4. s \in SUBSET S /\ g[s] # 0
    BY <1>3 DEF T
  <1>5. PICK y \in s : TRUE
    BY <1>1, <1>4 DEF Adds
  <1>6. s \ {y} \in SUBSET S /\ s \ {y} \notin T
    BY <1>3, <1>4, <1>5
  <1>7. g[s \ {y}] = 0
    BY <1>6 DEF T
  <1>8. g[s] = w[y] + g[s \ {y}] /\ w[y] = 0
    BY <1>1, <1>4, <1>5 DEF Adds
  <1> QED
    BY <1>4, <1>7, <1>8

(* One term changes.                                                       *)
LEMMA SumChanged ==
  ASSUME NEW S, IsFiniteSet(S), NEW w \in [S -> Int], NEW v \in [S -> Int],
         NEW p \in S, \A x \in S \ {p} : v[x] = w[x]
  PROVE  Sum(w) \in Int /\ Sum(v) = Sum(w) + (v[p] - w[p])
  <1>1. PICK g : Adds(w, S, g) /\ Sum(w) = g[S]
    BY SumAdds
  <1>2. PICK h : Adds(v, S, h) /\ Sum(v) = h[S]
    BY SumAdds
  <1>3. g[S \ {p}] = h[S \ {p}]
    BY <1>1, <1>2, EqualTerms
  <1>4. /\ g[S] \in Int /\ g[S \ {p}] \in Int
        /\ g[S] = w[p] + g[S \ {p}] /\ h[S] = v[p] + h[S \ {p}]
    BY <1>1, <1>2 DEF Adds
  <1> QED
    BY <1>1, <1>2, <1>3, <1>4

(* A term is added.                                                        *)
LEMMA SumAppended ==
  ASSUME NEW n \in Nat, NEW w \in [1..n -> Int], NEW v \in [1..n + 1 -> Int],
         \A i \in 1..n : v[i] = w[i]
  PROVE  Sum(w) \in Int /\ Sum(v) = Sum(w) + v[n + 1]
  <1> DEFINE S == 1..n
             R == 1..n + 1
  <1>1. IsFiniteSet(S) /\ IsFiniteSet(R)
    BY FS_Interval
  <1>2. /\ S \subseteq R /\ R \ {n + 1} = S /\ n + 1 \in R
        /\ w \in [S -> Int] /\ v \in [R -> Int] /\ \A i \in S : w[i] = v[i]
    OBVIOUS
  <1> HIDE DEF S, R
  <1>3. PICK g : Adds(w, S, g) /\ Sum(w) = g[S]
    BY <1>1, <1>2, SumAdds
  <1>4. PICK h : Adds(v, R, h) /\ Sum(v) = h[R]
    BY <1>1, <1>2, SumAdds
  <1>5. g[S] = h[S]
    BY <1>1, <1>2, <1>3, <1>4, EqualTerms
  <1>6. h[R] = v[n + 1] + h[S] /\ g[S] \in Int
    BY <1>2, <1>3, <1>4, ZenonT(60) DEF Adds
  <1>7. v[n + 1] \in Int
    BY <1>2
  <1> QED
    BY <1>3, <1>4, <1>5, <1>6, <1>7

(* The first term is taken away, and the others move up.                   *)
LEMMA SumOfTail ==
  ASSUME NEW n \in Nat, NEW w \in [1..n + 1 -> Int], NEW v \in [1..n -> Int],
         \A i \in 1..n : v[i] = w[i + 1]
  PROVE  Sum(w) \in Int /\ Sum(v) \in Int /\ Sum(w) = w[1] + Sum(v)
  <1>1. IsFiniteSet(1..n) /\ IsFiniteSet(1..n + 1)
    BY FS_Interval
  <1>2. PICK g : Adds(w, 1..n + 1, g) /\ Sum(w) = g[1..n + 1]
    BY <1>1, SumAdds
  <1>3. PICK h : Adds(v, 1..n, h) /\ Sum(v) = h[1..n]
    BY <1>1, SumAdds
  <1>a. /\ \A s \in SUBSET (1..n + 1) : g[s] \in Int
        /\ \A s \in SUBSET (1..n + 1) : \A x \in s : g[s] = w[x] + g[s \ {x}]
        /\ \A s \in SUBSET (1..n) : h[s] \in Int
    BY <1>2, <1>3 DEF Adds
  <1> DEFINE Moved(s) == {i \in 2..n + 1 : i - 1 \in s}
  <1>4. \A s \in SUBSET (1..n) : h[s] = g[Moved(s)]
    <2> DEFINE T == {s \in SUBSET (1..n) : h[s] # g[Moved(s)]}
    <2> SUFFICES ASSUME T # {} PROVE FALSE
      OBVIOUS
    <2>1. T \in SUBSET SUBSET (1..n)
      OBVIOUS
    <2> HIDE DEF T
    <2>2. PICK s \in T : \A r \in SUBSET s : r # s => r \notin T
      BY <1>1, <2>1, SmallestSet
    <2>3. s \in SUBSET (1..n) /\ h[s] # g[Moved(s)]
      BY <2>2 DEF T
    <2>4. Moved({}) = {}
      OBVIOUS
    <2>5. PICK y \in s : TRUE
      BY <1>2, <1>3, <2>3, <2>4 DEF Adds
    <2>6. s \ {y} \in SUBSET (1..n) /\ s \ {y} \notin T
      BY <2>2, <2>3, <2>5
    <2>7. h[s \ {y}] = g[Moved(s \ {y})]
      BY <2>6 DEF T
    <2>8. y \in 1..n /\ y + 1 \in 2..n + 1 /\ (y + 1) - 1 = y
      BY <2>3, <2>5
    <2>9. y + 1 \in Moved(s)
      BY <2>5, <2>8
    <2>10. Moved(s) \ {y + 1} = Moved(s \ {y})
      BY <2>8
    <2>11. Moved(s) \in SUBSET (1..n + 1)
      OBVIOUS
    <2> HIDE DEF Moved
    <2>12. g[Moved(s)] = w[y + 1] + g[Moved(s \ {y})]
      BY <1>a, <2>9, <2>10, <2>11
    <2>13. h[s] = v[y] + h[s \ {y}]
      BY <1>3, <2>3, <2>5 DEF Adds
    <2> QED
      BY <2>3, <2>7, <2>8, <2>12, <2>13
  <1>5. Moved(1..n) = 2..n + 1 /\ (1..n + 1) \ {1} = 2..n + 1 /\ 1 \in 1..n + 1
    <2>1. \A i \in 2..n + 1 : i - 1 \in 1..n
      OBVIOUS
    <2> QED
      BY <2>1
  <1>6. h[1..n] = g[2..n + 1]
    BY <1>4, <1>5
  <1> HIDE DEF Moved
  <1>7. /\ g[1..n + 1] = w[1] + g[2..n + 1]
        /\ g[1..n + 1] \in Int /\ h[1..n] \in Int
    <2>1. 1..n + 1 \in SUBSET (1..n + 1) /\ 1..n \in SUBSET (1..n)
      OBVIOUS
    <2>2. g[1..n + 1] = w[1] + g[(1..n + 1) \ {1}]
      BY <1>a, <1>5, <2>1
    <2> QED
      BY <1>a, <1>5, <2>1, <2>2
  <1>8. w[1] \in Int
    BY <1>5
  <1> QED
    BY <1>2, <1>3, <1>6, <1>7, <1>8

(* Every term grows by the same.                                           *)
LEMMA SumRaised ==
  ASSUME NEW n \in Nat, NEW w \in [1..n -> Int], NEW v \in [1..n -> Int], NEW d \in Int,
         \A i \in 1..n : v[i] = w[i] + d
  PROVE  Sum(w) \in Int /\ Sum(v) = Sum(w) + d * n
  <1> DEFINE S == 1..n
  <1>1. IsFiniteSet(S) /\ Cardinality(S) = n
    BY FS_Interval
  <1>2. w \in [S -> Int] /\ v \in [S -> Int]
    OBVIOUS
  <1>3. \A i \in S : v[i] = w[i] + d
    OBVIOUS
  <1> HIDE DEF S
  <1>4. PICK g : Adds(w, S, g) /\ Sum(w) = g[S]
    BY <1>1, <1>2, SumAdds
  <1>5. PICK h : Adds(v, S, h) /\ Sum(v) = h[S]
    BY <1>1, <1>2, SumAdds
  <1>6. \A s \in SUBSET S : IsFiniteSet(s) /\ Cardinality(s) \in Nat
    BY <1>1, FS_Subset, FS_CardinalityType
  <1>7. \A s \in SUBSET S : h[s] = g[s] + d * Cardinality(s)
    <2> DEFINE T == {s \in SUBSET S : h[s] # g[s] + d * Cardinality(s)}
    <2> SUFFICES ASSUME T # {} PROVE FALSE
      OBVIOUS
    <2>1. T \in SUBSET SUBSET S
      OBVIOUS
    <2> HIDE DEF T
    <2>2. PICK s \in T : \A r \in SUBSET s : r # s => r \notin T
      BY <1>1, <2>1, SmallestSet
    <2>3. s \in SUBSET S /\ h[s] # g[s] + d * Cardinality(s)
      BY <2>2 DEF T
    <2>4. s # {}
      <3>1. g[{}] = 0 /\ h[{}] = 0 /\ Cardinality({}) = 0 /\ d * 0 = 0
        BY <1>4, <1>5, FS_EmptySet DEF Adds
      <3>2. h[{}] = g[{}] + d * Cardinality({})
        BY <3>1
      <3> QED
        BY <2>3, <3>2
    <2>5. PICK y \in s : TRUE
      BY <2>4
    <2>6. s \ {y} \in SUBSET S /\ s \ {y} \notin T
      BY <2>2, <2>3, <2>5
    <2> DEFINE c == Cardinality(s \ {y})
    <2>7. h[s \ {y}] = g[s \ {y}] + d * c
      BY <2>6 DEF T
    <2>8. c \in Nat /\ Cardinality(s) = c + 1
      <3>1. c = Cardinality(s) - 1
        BY <1>6, <2>3, <2>5, FS_RemoveElement DEF c
      <3>2. c \in Nat /\ Cardinality(s) \in Nat
        BY <1>6, <2>3, <2>6
      <3> HIDE DEF c
      <3> QED
        BY <3>1, <3>2
    <2> HIDE DEF c
    <2>9. d * Cardinality(s) = d * c + d /\ d * c \in Int
      BY <2>8
    <2>10. /\ g[s] = w[y] + g[s \ {y}] /\ h[s] = v[y] + h[s \ {y}]
           /\ g[s \ {y}] \in Int /\ w[y] \in Int /\ v[y] = w[y] + d
      BY <1>2, <1>3, <1>4, <1>5, <2>3, <2>5, <2>6 DEF Adds
    <2> QED
      BY <2>3, <2>7, <2>9, <2>10
  <1>8. g[S] \in Int
    BY <1>4 DEF Adds
  <1> QED
    BY <1>1, <1>4, <1>5, <1>7, <1>8

-----------------------------------------------------------------------------
(* The waits of the jobs.                                                  *)

Held  == [p \in Printers |-> printer[p].job.left - printer[p].job.entered]
Waits == [i \in DOMAIN job_queue |-> last_interaction_time_us - job_queue[i].entered]

HeldIsServed ==
  \A p \in Printers :
    printer[p].pc \in {"idle", "short"} => printer[p].job.left = printer[p].job.entered

WaitsInv == wait_of_removed \in Int /\ HeldIsServed /\ WaitsAddUp

LEMMA WaitTypes ==
  ASSUME TimesType
  PROVE  /\ Held \in [Printers -> Int] /\ Sum(Held) \in Int
         /\ Waits \in [1..Len(job_queue) -> Int] /\ Sum(Waits) \in Int
  <1>1. Held \in [Printers -> Int]
    <2>1. \A p \in Printers : printer[p].job.left - printer[p].job.entered \in Int
      BY PrinterNumbers
    <2> QED
      BY <2>1 DEF Held
  <1>2. Waits \in [1..Len(job_queue) -> Int]
    <2>1. DOMAIN job_queue = 1..Len(job_queue)
      BY DEF TimesType
    <2>2. \A i \in 1..Len(job_queue) : last_interaction_time_us - job_queue[i].entered \in Int
      BY ClockNumbers, QueueNumbers
    <2> QED
      BY <2>1, <2>2 DEF Waits
  <1>3. IsFiniteSet(Printers) /\ IsFiniteSet(1..Len(job_queue))
    BY CapacityAssumption, QueueNumbers, FS_Interval
  <1>4. Sum(Held) \in Int
    BY <1>1, <1>3, SumIsInt
  <1>5. Sum(Waits) \in Int
    BY <1>2, <1>3, SumIsInt
  <1> QED
    BY <1>1, <1>2, <1>4, <1>5

LEMMA WaitsAre ==
  WaitsAddUp <=> stats.area_num_in_job_queue_us =
                   stats.total_queue_wait_time_us + Sum(Held) + Sum(Waits) + wait_of_removed
  BY DEF WaitsAddUp, WaitSoFar, Held, Waits

LEMMA WaitsInit == Init => WaitsInv
  <1> SUFFICES ASSUME Init PROVE WaitsInv
    OBVIOUS
  <1>1. HeldIsServed /\ wait_of_removed = 0
    BY DEF Init, Idle, NoJob, HeldIsServed
  <1>2. Held = [p \in Printers |-> 0] /\ Waits \in [{} -> Int]
    BY DEF Init, Idle, NoJob, Held, Waits
  <1>3. Sum(Waits) = 0
    BY <1>2, SumOfNone
  <1>4. Sum(Held) = 0
    <2>1. Held \in [Printers -> Int] /\ \A p \in Printers : Held[p] = 0
      BY <1>2
    <2>2. IsFiniteSet(Printers)
      BY CapacityAssumption
    <2> QED
      BY <2>1, <2>2, SumOfZeros
  <1> QED
    BY <1>1, <1>3, <1>4, WaitsAre DEF WaitsInv, Init

(* A step that moves no job into the queue or out of it, nor prints one.   *)
LEMMA WaitsKept ==
  ASSUME WaitsInv,
         UNCHANGED <<job_queue, last_interaction_time_us, wait_of_removed,
                     stats.area_num_in_job_queue_us, stats.total_queue_wait_time_us>>,
         Held' = Held, HeldIsServed'
  PROVE  WaitsInv'
  <1>1. Waits' = Waits
    BY DEF Waits
  <1>2. /\ stats'.area_num_in_job_queue_us =
             stats'.total_queue_wait_time_us + Sum(Held') + Sum(Waits') + wait_of_removed'
    BY <1>1, WaitsAre DEF WaitsInv
  <1>3. WaitsAddUp'
    BY <1>2 DEF WaitsAddUp, WaitSoFar, Held, Waits
  <1> QED
    BY <1>3 DEF WaitsInv

(* A printer goes on with another job, or with none.                       *)
LEMMA HeldChanged ==
  ASSUME TimesType, TimesType', NEW p \in Printers, NEW new,
         printer' = [printer EXCEPT ![p] = new]
  PROVE  Sum(Held') = Sum(Held) + ((new.job.left - new.job.entered)
                                     - (printer[p].job.left - printer[p].job.entered))
  <1>1. /\ Held \in [Printers -> Int] /\ Sum(Held) \in Int /\ IsFiniteSet(Printers)
    BY WaitTypes, CapacityAssumption
  <1>2. Held' \in [Printers -> Int]
    <2> SUFFICES ASSUME NEW q \in Printers
                 PROVE  printer'[q].job.left - printer'[q].job.entered \in Int
      BY DEF Held
    <2>1. printer'[q].job \in JobType
      BY DEF TimesType
    <2> QED
      BY <2>1 DEF JobType
  <1>3. printer'[p] = new /\ \A q \in Printers \ {p} : printer'[q] = printer[q]
    BY DEF TimesType
  <1>4. /\ \A q \in Printers \ {p} : Held'[q] = Held[q]
        /\ Held[p] = printer[p].job.left - printer[p].job.entered
        /\ Held'[p] = new.job.left - new.job.entered
    BY <1>3 DEF Held
  <1>5. Sum(Held') = Sum(Held) + (Held'[p] - Held[p])
    BY <1>1, <1>2, <1>4, SumChanged
  <1> QED
    BY <1>4, <1>5

LEMMA WaitsEnterQueue ==
  ASSUME Inv, Inv', WaitsInv, EnterQueue
  PROVE  WaitsInv'
  <1> DEFINE n == Len(job_queue)
             d == now - last_interaction_time_us
             raised == [i \in 1..n |-> Waits[i] + d]
  <1>1. /\ stats' = [stats EXCEPT !.area_num_in_job_queue_us = @ + Area(Len(job_queue') - 1)]
        /\ job_queue' = Append(job_queue, [NoJob EXCEPT !.sys = system_arrival_time_us,
                                                        !.entered = now])
        /\ last_interaction_time_us' = now
        /\ UNCHANGED <<now, printer, wait_of_removed>>
    BY DEF EnterQueue, history
  <1>2. TimesType /\ TimesType'
    BY DEF Inv
  <1>3. /\ n \in Nat /\ d \in Int /\ job_queue \in Seq(JobType)
        /\ \A i \in 1..n : job_queue[i].entered \in Nat
        /\ now \in Nat /\ last_interaction_time_us \in Nat
    BY <1>2, ClockNumbers, QueueNumbers
  <1>4. /\ job_queue' \in Seq(JobType) /\ Len(job_queue') = n + 1
        /\ \A i \in 1..n : job_queue'[i] = job_queue[i]
        /\ job_queue'[n + 1].entered = now
    <2> DEFINE job == [NoJob EXCEPT !.sys = system_arrival_time_us, !.entered = now]
    <2>1. job.entered = now
      BY DEF NoJob
    <2>2. job_queue' = Append(job_queue, job)
      BY <1>1
    <2> HIDE DEF job
    <2>3. job_queue' \in Seq(JobType)
      BY <1>2 DEF TimesType
    <2> QED
      BY <1>3, <2>1, <2>2, <2>3
  <1>5. /\ Waits \in [1..n -> Int] /\ raised \in [1..n -> Int]
        /\ \A i \in 1..n : raised[i] = Waits[i] + d
    BY <1>2, <1>3, WaitTypes
  <1>6. /\ Waits' \in [1..n + 1 -> Int] /\ Waits'[n + 1] = 0
        /\ \A i \in 1..n : Waits'[i] = raised[i]
    <2>1. /\ DOMAIN job_queue = 1..n /\ DOMAIN job_queue' = 1..n + 1
          /\ n + 1 \in 1..n + 1
          /\ \A i \in 1..n + 1 : i = n + 1 \/ i \in 1..n
      BY <1>3, <1>4
    <2>2. Waits' = [i \in 1..n + 1 |-> now - job_queue'[i].entered]
      BY <1>1, <2>1 DEF Waits
    <2>3. Waits'[n + 1] = 0
      BY <1>3, <1>4, <2>1, <2>2
    <2>4. ASSUME NEW i \in 1..n
          PROVE  Waits'[i] = raised[i] /\ Waits'[i] \in Int
      <3>1. Waits[i] = last_interaction_time_us - job_queue[i].entered
        BY <2>1 DEF Waits
      <3>2. Waits'[i] = now - job_queue[i].entered
        BY <1>3, <1>4, <2>2
      <3> QED
        BY <1>3, <3>1, <3>2
    <2>5. \A i \in 1..n + 1 : Waits'[i] \in Int
      BY <2>1, <2>3, <2>4
    <2>6. Waits' \in [1..n + 1 -> Int]
      BY <2>2, <2>5
    <2> QED
      BY <2>3, <2>4, <2>6
  <1> HIDE DEF raised
  <1>7. Sum(Waits) \in Int /\ Sum(raised) = Sum(Waits) + d * n
    BY <1>3, <1>5, SumRaised
  <1>8. Sum(Waits') = Sum(raised) + 0
    BY <1>3, <1>5, <1>6, SumAppended
  <1>9. Held' = Held /\ Sum(Held) \in Int
    BY <1>1, <1>2, WaitTypes DEF Held
  <1>10. /\ stats'.area_num_in_job_queue_us = stats.area_num_in_job_queue_us + d * n
         /\ stats'.total_queue_wait_time_us = stats.total_queue_wait_time_us
    <2>1. Area(Len(job_queue') - 1) = d * n
      BY <1>3, <1>4 DEF Area
    <2> QED
      BY <1>1, <1>2, <2>1 DEF TimesType, StatsType
  <1>11. d * n \in Int
    BY <1>3
  <1> HIDE DEF n, d
  <1>12. stats'.area_num_in_job_queue_us =
           stats'.total_queue_wait_time_us + Sum(Held') + Sum(Waits') + wait_of_removed'
    <2>1. /\ stats.area_num_in_job_queue_us \in Nat
          /\ stats.total_queue_wait_time_us \in Nat /\ wait_of_removed \in Int
      BY <1>2, Numbers DEF WaitsInv
    <2> QED
      BY <1>1, <1>7, <1>8, <1>9, <1>10, <1>11, <2>1, WaitsAre DEF WaitsInv
  <1>13. WaitsAddUp'
    BY <1>12 DEF WaitsAddUp, WaitSoFar, Held, Waits
  <1> QED
    BY <1>1, <1>13 DEF WaitsInv, HeldIsServed

LEMMA WaitsLeaveQueue ==
  ASSUME Inv, Inv', WaitsInv, NEW p \in Printers, LeaveQueue(p)
  PROVE  WaitsInv'
  <1> DEFINE n == Len(job_queue)
             m == n - 1
             d == now - last_interaction_time_us
             raised == [i \in 1..n |-> Waits[i] + d]
             new == [pc |-> "taken", since |-> now,
                     job |-> [Head(job_queue) EXCEPT !.left = now]]
  <1>1. /\ stats' = [stats EXCEPT !.area_num_in_job_queue_us = @ + Area(Len(job_queue') + 1)]
        /\ job_queue # <<>> /\ job_queue' = Tail(job_queue)
        /\ last_interaction_time_us' = now
        /\ printer[p].pc = "idle" /\ printer' = [printer EXCEPT ![p] = new]
        /\ UNCHANGED <<now, wait_of_removed>>
    BY DEF LeaveQueue, history
  <1>2. TimesType /\ TimesType'
    BY DEF Inv
  <1>3. /\ n \in Nat /\ n # 0 /\ d \in Int /\ job_queue \in Seq(JobType)
        /\ \A i \in 1..n : job_queue[i].entered \in Nat
        /\ now \in Nat /\ last_interaction_time_us \in Nat
    <2>1. now \in Nat /\ last_interaction_time_us \in Nat
      BY <1>2, ClockNumbers
    <2> QED
      BY <1>1, <1>2, <2>1, QueueNumbers
  <1>4. /\ job_queue' \in Seq(JobType) /\ Len(job_queue') = m
        /\ \A i \in 1..m : job_queue'[i] = job_queue[i + 1]
        /\ Head(job_queue) = job_queue[1]
    BY <1>1, <1>3
  <1>5. new.pc = "taken" /\ new.job.left = now /\ new.job.entered = job_queue[1].entered
    <2>1. Head(job_queue) \in JobType
      BY <1>3, <1>4
    <2> QED
      BY <1>4, <2>1 DEF JobType
  <1>6. /\ Waits \in [1..n -> Int] /\ raised \in [1..n -> Int]
        /\ \A i \in 1..n : raised[i] = Waits[i] + d
    BY <1>2, <1>3, WaitTypes
  <1>7. m \in Nat /\ m + 1 = n
    BY <1>3
  <1>8. /\ Waits' \in [1..m -> Int] /\ raised[1] = now - job_queue[1].entered
        /\ \A i \in 1..m : Waits'[i] = raised[i + 1]
    <2>1. /\ DOMAIN job_queue = 1..n /\ DOMAIN job_queue' = 1..m /\ 1 \in 1..n
          /\ \A i \in 1..m : i + 1 \in 1..n
      BY <1>3, <1>4, <1>7
    <2>2. Waits' = [i \in 1..m |-> now - job_queue'[i].entered]
      BY <1>1, <2>1 DEF Waits
    <2>3. \A i \in 1..n : Waits[i] = last_interaction_time_us - job_queue[i].entered
      BY <2>1 DEF Waits
    <2>4. \A i \in 1..n : raised[i] = now - job_queue[i].entered
      BY <1>3, <2>3
    <2> HIDE DEF raised
    <2>5. \A i \in 1..m : Waits'[i] = raised[i + 1] /\ Waits'[i] \in Int
      BY <1>3, <1>4, <2>1, <2>2, <2>4
    <2>6. Waits' \in [1..m -> Int]
      BY <2>2, <2>5
    <2> QED
      BY <2>1, <2>4, <2>5, <2>6
  <1> HIDE DEF raised, new, m
  <1>9. Sum(Waits) \in Int /\ Sum(raised) = Sum(Waits) + d * n
    BY <1>3, <1>6, SumRaised
  <1>10. Sum(Waits') \in Int /\ Sum(raised) = (now - job_queue[1].entered) + Sum(Waits')
    <2>1. raised \in [1..m + 1 -> Int]
      BY <1>6, <1>7
    <2> QED
      BY <1>7, <1>8, <2>1, SumOfTail
  <1>11. Sum(Held') = Sum(Held) + (now - job_queue[1].entered) /\ Sum(Held) \in Int
    <2>1. Sum(Held') = Sum(Held) + ((now - job_queue[1].entered)
                                      - (printer[p].job.left - printer[p].job.entered))
      BY <1>1, <1>2, <1>5, HeldChanged
    <2>2. printer[p].job.left - printer[p].job.entered = 0
      BY <1>1, <1>2, PrinterNumbers DEF WaitsInv, HeldIsServed
    <2>3. 1 \in 1..n
      BY <1>3
    <2> QED
      BY <1>2, <1>3, <2>1, <2>2, <2>3, WaitTypes
  <1>12. /\ stats'.area_num_in_job_queue_us = stats.area_num_in_job_queue_us + d * n
         /\ stats'.total_queue_wait_time_us = stats.total_queue_wait_time_us
    <2>1. Area(Len(job_queue') + 1) = d * n
      BY <1>4, <1>7 DEF Area
    <2> QED
      BY <1>1, <1>2, <2>1 DEF TimesType, StatsType
  <1>13. d * n \in Int /\ now - job_queue[1].entered \in Int
    <2>1. 1 \in 1..n
      BY <1>3
    <2> QED
      BY <1>3, <2>1
  <1>14. HeldIsServed'
    BY <1>1, <1>2, <1>5 DEF WaitsInv, HeldIsServed, TimesType
  <1> HIDE DEF n, d
  <1>15. stats'.area_num_in_job_queue_us =
           stats'.total_queue_wait_time_us + Sum(Held') + Sum(Waits') + wait_of_removed'
    <2>1. /\ stats.area_num_in_job_queue_us \in Nat
          /\ stats.total_queue_wait_time_us \in Nat /\ wait_of_removed \in Int
      BY <1>2, Numbers DEF WaitsInv
    <2> QED
      <3> DEFINE area == d * n
                 wait == now - job_queue[1].entered
      <3>1. area \in Int /\ wait \in Int
        BY <1>13
      <3>2. /\ Sum(raised) = Sum(Waits) + area /\ Sum(raised) = wait + Sum(Waits')
            /\ Sum(Held') = Sum(Held) + wait
            /\ stats'.area_num_in_job_queue_us = stats.area_num_in_job_queue_us + area
        BY <1>9, <1>10, <1>11, <1>12
      <3> HIDE DEF area, wait
      <3>3. Sum(Held') + Sum(Waits') = Sum(Held) + Sum(Waits) + area
        BY <1>9, <1>10, <1>11, <3>1, <3>2
      <3>4. stats.area_num_in_job_queue_us =
              stats.total_queue_wait_time_us + Sum(Held) + Sum(Waits) + wait_of_removed
        BY WaitsAre DEF WaitsInv
      <3>5. Sum(Held') \in Int
        BY <1>11, <3>1, <3>2
      <3>6. /\ Sum(Waits) \in Int /\ Sum(Waits') \in Int /\ Sum(Held) \in Int
            /\ stats'.total_queue_wait_time_us = stats.total_queue_wait_time_us
            /\ wait_of_removed' = wait_of_removed
        BY <1>1, <1>9, <1>10, <1>11, <1>12
      <3> QED
        BY <2>1, <3>1, <3>2, <3>3, <3>4, <3>5, <3>6
  <1>16. WaitsAddUp'
    BY <1>15 DEF WaitsAddUp, WaitSoFar, Held, Waits
  <1> QED
    BY <1>1, <1>14, <1>16 DEF WaitsInv

LEMMA WaitsDepart ==
  ASSUME Inv, Inv', WaitsInv, NEW p \in Printers, Depart(p)
  PROVE  WaitsInv'
  <1> DEFINE waited == printer[p].job.left - printer[p].job.entered
  <1>1. /\ UNCHANGED <<job_queue, last_interaction_time_us, wait_of_removed>>
        /\ printer' = [printer EXCEPT ![p] = Idle]
    BY DEF Depart, queueVars
  <1>2. TimesType /\ TimesType'
    BY DEF Inv
  <1>3. /\ stats'.area_num_in_job_queue_us = stats.area_num_in_job_queue_us
        /\ stats'.total_queue_wait_time_us = stats.total_queue_wait_time_us + waited
    <2>1. stats \in StatsType
      BY <1>2 DEF TimesType
    <2> QED
      BY <2>1, DepartStats
  <1>4. Idle.job.left = 0 /\ Idle.job.entered = 0
    BY DEF Idle, NoJob
  <1>5. waited \in Int /\ Sum(Held) \in Int /\ Sum(Waits) \in Int
    <2>1. printer[p].job.left \in Nat /\ printer[p].job.entered \in Nat
      BY <1>2, Numbers
    <2> QED
      BY <1>2, <2>1, WaitTypes
  <1>6. Sum(Held') = Sum(Held) + ((0 - 0) - waited)
    BY <1>1, <1>2, <1>4, HeldChanged
  <1>7. Waits' = Waits
    BY <1>1 DEF Waits
  <1>8. HeldIsServed'
    BY <1>1, <1>2, <1>4 DEF WaitsInv, HeldIsServed, TimesType
  <1> HIDE DEF waited
  <1>9. stats'.area_num_in_job_queue_us =
          stats'.total_queue_wait_time_us + Sum(Held') + Sum(Waits') + wait_of_removed'
    <2>1. /\ stats.area_num_in_job_queue_us \in Nat
          /\ stats.total_queue_wait_time_us \in Nat /\ wait_of_removed \in Int
      BY <1>2, Numbers DEF WaitsInv
    <2> QED
      BY <1>1, <1>3, <1>5, <1>6, <1>7, <2>1, WaitsAre DEF WaitsInv
  <1>10. WaitsAddUp'
    BY <1>9 DEF WaitsAddUp, WaitSoFar, Held, Waits
  <1> QED
    BY <1>1, <1>8, <1>10 DEF WaitsInv

LEMMA WaitsEmptyQueue ==
  ASSUME Inv, WaitsInv, EmptyQueue
  PROVE  WaitsInv'
  <1>1. /\ job_queue' = <<>> /\ printer' = printer
        /\ wait_of_removed' = wait_of_removed + Sum(Waits)
        /\ UNCHANGED <<stats.area_num_in_job_queue_us, stats.total_queue_wait_time_us>>
    BY DEF EmptyQueue, WaitSoFar, Waits, Inv, TimesType, StatsType
  <1>2. Waits' \in [{} -> Int]
    BY <1>1 DEF Waits
  <1>3. Sum(Waits') = 0
    BY <1>2, SumOfNone
  <1>4. Held' = Held /\ HeldIsServed'
    BY <1>1 DEF Held, WaitsInv, HeldIsServed
  <1>5. Sum(Held) \in Int /\ Sum(Waits) \in Int
    BY WaitTypes DEF Inv
  <1>6. stats'.area_num_in_job_queue_us =
          stats'.total_queue_wait_time_us + Sum(Held') + Sum(Waits') + wait_of_removed'
    <2>1. stats.total_queue_wait_time_us \in Nat /\ wait_of_removed \in Int
      BY Numbers DEF Inv, WaitsInv
    <2> QED
      BY <1>1, <1>3, <1>4, <1>5, <2>1, WaitsAre DEF WaitsInv
  <1>7. WaitsAddUp'
    BY <1>6 DEF WaitsAddUp, WaitSoFar, Held, Waits
  <1>8. wait_of_removed' \in Int
    BY <1>1, <1>5 DEF WaitsInv
  <1> QED
    BY <1>4, <1>7, <1>8 DEF WaitsInv

(* The other steps of a printer leave what it holds as it is.              *)
LEMMA WaitsPrinter ==
  ASSUME Inv, Inv', WaitsInv, NEW p \in Printers,
         BeginService(p) \/ RunShort(p) \/ NotePaperEmpty(p)
  PROVE  WaitsInv'
  <1>1. /\ UNCHANGED <<job_queue, last_interaction_time_us, wait_of_removed>>
        /\ UNCHANGED <<stats.area_num_in_job_queue_us, stats.total_queue_wait_time_us>>
    BY DEF BeginService, RunShort, NotePaperEmpty, queueVars, history, Inv, TimesType,
       StatsType
  <1>2. TimesType
    BY DEF Inv
  <1>3. /\ \A q \in Printers : printer'[q].job.left - printer'[q].job.entered
                                  = printer[q].job.left - printer[q].job.entered
        /\ HeldIsServed'
    <2>1. CASE BeginService(p) \/ RunShort(p)
      <3>1. PICK pc \in {"serving", "short"} :
              /\ printer' = [printer EXCEPT ![p].pc = pc, ![p].since = now]
              /\ pc = "short" => printer[p].pc = "idle"
        BY <2>1 DEF BeginService, RunShort
      <3>2. printer \in [Printers -> [pc : Stages, since : Nat, job : JobType]]
        BY <1>2 DEF TimesType
      <3>3. /\ \A q \in Printers : printer'[q].job = printer[q].job
            /\ \A q \in Printers \ {p} : printer'[q].pc = printer[q].pc
            /\ printer'[p].pc = pc
        BY <3>1, <3>2
      <3> QED
        BY <3>1, <3>3 DEF WaitsInv, HeldIsServed
    <2>2. CASE NotePaperEmpty(p)
      <3>1. printer' = [printer EXCEPT ![p] = Idle] /\ printer[p].pc = "short"
        BY <2>2 DEF NotePaperEmpty
      <3>2. Idle.job.left = 0 /\ Idle.job.entered = 0
        BY DEF Idle, NoJob
      <3>3. printer'[p] = Idle /\ \A q \in Printers \ {p} : printer'[q] = printer[q]
        BY <1>2, <3>1 DEF TimesType
      <3>4. printer[p].job.left - printer[p].job.entered = 0
        BY <1>2, <3>1, PrinterNumbers DEF WaitsInv, HeldIsServed
      <3> QED
        BY <3>2, <3>3, <3>4 DEF WaitsInv, HeldIsServed
    <2> QED
      BY <2>1, <2>2
  <1>4. Held' = Held
    BY <1>3 DEF Held
  <1> QED
    BY <1>1, <1>3, <1>4, WaitsKept

(* The other threads and the clock.                                        *)
LEMMA WaitsOther ==
  ASSUME Inv, WaitsInv,
         \/ Tick \/ CheckTermination \/ Arrive \/ DropJob
         \/ SetFlags \/ ReadStop \/ LogStopped \/ ReadEnd \/ LogEnd \/ UNCHANGED vars
  PROVE  WaitsInv'
  <1>1. UNCHANGED <<job_queue, last_interaction_time_us, wait_of_removed, printer>>
    BY DEF Tick, CheckTermination, Arrive, DropJob, SetFlags, ReadStop, LogStopped,
       ReadEnd, LogEnd, vars,
       queueVars, history
  <1>2. UNCHANGED <<stats.area_num_in_job_queue_us, stats.total_queue_wait_time_us>>
    BY DEF Tick, CheckTermination, Arrive, DropJob, SetFlags, ReadStop, LogStopped,
       ReadEnd, LogEnd, vars,
       ArrivalStats, Inv, TimesType, StatsType
  <1>3. Held' = Held /\ HeldIsServed'
    BY <1>1 DEF Held, WaitsInv, HeldIsServed
  <1> QED
    BY <1>1, <1>2, <1>3, WaitsKept

LEMMA WaitsNext == Inv /\ Inv' /\ WaitsInv /\ [Next]_vars => WaitsInv'
  BY WaitsEnterQueue, WaitsLeaveQueue, WaitsDepart, WaitsEmptyQueue, WaitsPrinter,
     WaitsOther
  DEF Next

(* Little's law: the area under the queue length is the time that all jobs *)
(* together have waited.                                                   *)
THEOREM LittlesLaw == Spec => []WaitsAddUp
  <1>1. Init => Inv /\ WaitsInv
    BY InvInit, WaitsInit
  <1>2. Inv /\ WaitsInv /\ [Next]_vars => (Inv /\ WaitsInv)'
    BY InvNext, WaitsNext
  <1>3. WaitsInv => WaitsAddUp
    BY DEF WaitsInv
  <1> QED
    BY <1>1, <1>2, <1>3, PTL DEF Spec
=============================================================================
