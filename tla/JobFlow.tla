------------------------------- MODULE JobFlow ------------------------------
(***************************************************************************)
(* What a simulation promises about its jobs, whatever the threads do that *)
(* carry it out: the jobs arrive in order; one is dropped only when the    *)
(* queue is full; the others wait in a queue and are served from its front,*)
(* one at a time by each printer; every job is settled once; and jobs are  *)
(* removed from the queue only after a stop.  Cli implements this module.  *)
(***************************************************************************)
EXTENDS Integers, Sequences

CONSTANTS Printers, NumJobs, QueueCapacity

VARIABLES
  arrived,     \* how many jobs were let in or dropped: job i is the i-th
  waiting,     \* the jobs in the queue, oldest first
  serving,     \* the job at each printer, or NoId
  settled,     \* how many jobs were served, dropped and removed
  stopping

flowVars == <<arrived, waiting, serving, settled, stopping>>

NoId == 0

Init ==
  /\ arrived = 0
  /\ waiting = <<>>
  /\ serving = [p \in Printers |-> NoId]
  /\ settled = [served |-> 0, dropped |-> 0, removed |-> 0]
  /\ stopping = FALSE

Arrival == arrived < NumJobs /\ arrived' = arrived + 1

Admit ==
  /\ Arrival
  /\ Len(waiting) < QueueCapacity
  /\ waiting' = Append(waiting, arrived + 1)
  /\ UNCHANGED <<serving, settled, stopping>>

Drop ==
  /\ Arrival
  /\ Len(waiting) = QueueCapacity
  /\ settled' = [settled EXCEPT !.dropped = @ + 1]
  /\ UNCHANGED <<waiting, serving, stopping>>

Serve(p) ==
  /\ serving[p] = NoId
  /\ waiting # <<>>
  /\ serving' = [serving EXCEPT ![p] = Head(waiting)]
  /\ waiting' = Tail(waiting)
  /\ UNCHANGED <<arrived, settled, stopping>>

Finish(p) ==
  /\ serving[p] # NoId
  /\ serving' = [serving EXCEPT ![p] = NoId]
  /\ settled' = [settled EXCEPT !.served = @ + 1]
  /\ UNCHANGED <<arrived, waiting, stopping>>

Stop ==
  /\ stopping' = TRUE
  /\ UNCHANGED <<arrived, waiting, serving, settled>>

(* A job that is removed is counted, unless the remover dies over it.      *)
Remove ==
  /\ stopping
  /\ waiting # <<>>
  /\ waiting' = Tail(waiting)
  /\ \/ settled' = [settled EXCEPT !.removed = @ + 1]
     \/ UNCHANGED settled
  /\ UNCHANGED <<arrived, serving, stopping>>

Next ==
  \/ Admit \/ Drop
  \/ \E p \in Printers : Serve(p) \/ Finish(p)
  \/ Stop \/ Remove

Spec == Init /\ [][Next]_flowVars
=============================================================================
