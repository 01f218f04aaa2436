----------------------------- MODULE TimedQueue -----------------------------
(***************************************************************************)
(* The timed queue of src/timed_queue.c: a linked list and the time of its *)
(* last change, and the use the simulation makes of it.  The handlers of   *)
(* queue arrivals and departures (log_queue_arrival, log_queue_departure of*)
(* src/console_handler.c and their twins in src/websocket_handler.c)       *)
(* integrate the length of the queue over time.                            *)
(***************************************************************************)
EXTENDS LinkedList

CONSTANT MaxTime     \* a bound on the clock

ASSUME TimeAssumption == MaxTime \in Nat

VARIABLES
  now,                          \* get_time_in_us
  last_interaction_time_us,
  area_num_in_job_queue_us,
  length_integral,              \* what the area should be: the sum of the
                                \* lengths at every instant so far
  only_jobs                     \* whether all changes so far were arrivals
                                \* and departures of jobs

queueVars == <<last_interaction_time_us, area_num_in_job_queue_us, only_jobs>>
clockVars == <<now, length_integral>>

vars == <<listVars, queueVars, clockVars>>

Init ==
  /\ ListInit
  /\ now = 0
  /\ last_interaction_time_us = 0
  /\ area_num_in_job_queue_us = 0
  /\ length_integral = 0
  /\ only_jobs = TRUE

Tick ==
  /\ now < MaxTime
  /\ now' = now + 1
  /\ length_integral' = length_integral + list.members_count
  /\ UNCHANGED <<listVars, queueVars>>

-----------------------------------------------------------------------------
(* The calls of timed_queue.h.  A call that changes the list notes the     *)
(* time; clear notes it even when there is nothing to remove.              *)

Noted == last_interaction_time_us' = now

TimedQueueEnqueue ==
  /\ \E d \in Data : ListAppend(d)
  /\ Noted

TimedQueueEnqueueFront ==
  /\ \E d \in Data : ListAppendLeft(d)
  /\ Noted

TimedQueueDequeue      == ListPop /\ Noted
TimedQueueDequeueFront == ListPopLeft /\ Noted

TimedQueueRemove ==
  /\ \E n \in Members : ListRemove(n)
  /\ Noted

TimedQueueClear == ListClear /\ Noted

Changes ==
  /\ \/ TimedQueueEnqueue
     \/ TimedQueueEnqueueFront
     \/ TimedQueueDequeue
     \/ TimedQueueDequeueFront
     \/ TimedQueueRemove
     \/ TimedQueueClear
  /\ only_jobs' = FALSE
  /\ UNCHANGED <<area_num_in_job_queue_us, clockVars>>

Reads ==
  /\ \/ ListUnchanged
     \/ ListFirst
     \/ ListLast
     \/ \E d \in Data \union {NoData} : ListFind(d)
     \/ \E n \in held : Free(n)
  /\ UNCHANGED <<queueVars, clockVars>>

-----------------------------------------------------------------------------
(* A job enters and leaves the queue.  job_receiver_thread_func and        *)
(* printer_thread_func keep last_interaction_time_us before they change the*)
(* queue; the handlers weigh the length before the change with the time    *)
(* since then.                                                             *)

(* Mutant of AreaOfArrival: the job that has just entered is counted.      *)
AreaOfArrivalAfter(length) == (now - last_interaction_time_us) * length

(* Mutant of AreaOfDeparture: the correction of an arrival.                *)
AreaOfDepartureBefore(length) == (now - last_interaction_time_us) * (length - 1)

AreaOfArrival(length)   == (now - last_interaction_time_us) * (length - 1)
AreaOfDeparture(length) == (now - last_interaction_time_us) * (length + 1)

JobEnters ==
  /\ TimedQueueEnqueue
  /\ area_num_in_job_queue_us' =
       area_num_in_job_queue_us + AreaOfArrival(list'.members_count)
  /\ UNCHANGED <<only_jobs, clockVars>>

JobLeaves ==
  /\ TimedQueueDequeueFront
  /\ area_num_in_job_queue_us' =
       area_num_in_job_queue_us + AreaOfDeparture(list'.members_count)
  /\ UNCHANGED <<only_jobs, clockVars>>

Next == Tick \/ Changes \/ Reads \/ JobEnters \/ JobLeaves

Spec == Init /\ [][Next]_vars

-----------------------------------------------------------------------------
(* Properties.                                                             *)

(* The variables range over their types; the area, which is unsigned in    *)
(* the code, never falls below 0.                                          *)
TypeOK ==
  /\ ListTypeOK
  /\ now \in 0..MaxTime
  /\ last_interaction_time_us \in 0..now
  /\ area_num_in_job_queue_us \in Nat
  /\ length_integral \in Nat
  /\ only_jobs \in BOOLEAN

(* The links of src/linked_list.c hold together: from head to tail they    *)
(* lead through every member exactly once, members_count of them, and back *)
(* the same way; popped and freed nodes are out of it.                     *)
WellFormed ==
  LET c == Chain(list, list.members_count)
      n == list.members_count
  IN  /\ {c[i] : i \in 1..n} = Members
      /\ Cardinality(Members) = n
      /\ c[n + 1] = TailNode
      /\ \A i \in 1..n+1 : list.prev[c[i]] = IF i = 1 THEN HeadNode ELSE c[i - 1]

(* What the list holds, in order, and the object of the node, member or    *)
(* sentinel, that the last call gave back.                                 *)
Items  == [i \in 1..list.members_count |-> data[Chain(list, list.members_count)[i]]]
Answer == IF ret = NULL THEN <<>> ELSE <<data[ret]>>

D == INSTANCE Deque WITH items <- Items, answer <- Answer

(* The pointers implement the sequence that include/linked_list.h promises,*)
(* but for list_find of a null pointer, which finds the tail sentinel      *)
(* (src/linked_list.c:99).                                                 *)
ImplementsDeque == D!Spec

(* area_num_in_job_queue_us is the "Integral of queue length over time"    *)
(* (include/simulation_stats.h:20) up to the last change of the queue, as  *)
(* long as jobs only enter and leave by way of the two handlers.  A stop   *)
(* removes jobs without them.                                              *)
AreaIsIntegral ==
  only_jobs =>
    area_num_in_job_queue_us
      + (now - last_interaction_time_us) * list.members_count = length_integral
=============================================================================
