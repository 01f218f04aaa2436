------------------------------- MODULE WsBridge -----------------------------
(***************************************************************************)
(* How the log of a simulation reaches a client of src/server.c: the       *)
(* connections that come and go, the id of the active one, the frames that *)
(* simulation threads hand to mg_wakeup, the pipe behind it, and the event *)
(* loop that takes them out again and answers messages in between.         *)
(*                                                                         *)
(* Of the simulation only the frames are left: the runner publishes the    *)
(* first and the last ones, and the threads it creates and joins publish   *)
(* those in between, each as many as it likes up to a bound.  What they do *)
(* meanwhile is in Server.                                                 *)
(***************************************************************************)
EXTENDS Integers, Sequences, FiniteSets

CONSTANTS
  Workers,          \* the threads of a simulation
  Runner, Loop,     \* simulation_runner and the event loop
  MaxConnections, MaxSimulations, MaxMessages, \* bounds
  MaxFrames,        \* a bound on the frames of one worker in one simulation
  PipeSize          \* the frames that the socket behind mg_wakeup holds

VARIABLES
  nextid,           \* the id of the newest connection
  connection,       \* the state of each connection
  g_ws_conn_id,     \* the active websocket, or None
  pipe,             \* frames on their way to the event loop, with an id each
  received,         \* the frames that an open connection was sent, in order
  hand,             \* a sender's frame and id, between its read of
                    \* g_ws_conn_id and mg_wakeup
  runner_pc,
  frames_left,      \* of each worker
  loop_pc,          \* how far the event loop is in a stop
  is_running,
  simulation,       \* the number of the simulation, current or last
  messages,         \* how many messages were handled
  newest,           \* history: the websocket that was opened last
  since_simulation, \* history: the first simulation a client can hear of
  audience,         \* history: who was active ever since this simulation began
  published, lost   \* history: frames of this simulation, and those of them
                    \* that a full pipe swallowed

ASSUME BridgeAssumption ==
  /\ MaxConnections \in Nat /\ MaxSimulations \in Nat /\ MaxMessages \in Nat
  /\ MaxFrames \in Nat /\ PipeSize \in Nat
  /\ IsFiniteSet(Workers)
  /\ Runner # Loop /\ Workers \intersect {Runner, Loop} = {}

None    == 0
Senders == Workers \union {Runner, Loop}
Ids     == 1..MaxConnections

Frames   == [sim : 0..MaxSimulations, from : Senders, rank : 0..5, n : Nat]
Messages == [frame : Frames, id : Ids]

clientVars  == <<nextid, connection, g_ws_conn_id, newest, since_simulation>>
threadVars  == <<runner_pc, frames_left, is_running, simulation>>
loopVars    == <<loop_pc, messages>>
history     == <<audience, published, lost>>
vars == <<clientVars, threadVars, loopVars, history, pipe, received, hand>>

EmptyHand == [frame |-> [sim |-> 0, from |-> Loop, rank |-> 0, n |-> 0], id |-> None]

Init ==
  /\ nextid = 0
  /\ connection = [c \in Ids |-> "none"]
  /\ g_ws_conn_id = None
  /\ pipe = <<>>
  /\ received = [c \in Ids |-> <<>>]
  /\ hand = [t \in Senders |-> EmptyHand]
  /\ runner_pc = "off"
  /\ frames_left = [w \in Workers |-> 0]
  /\ loop_pc = "poll"
  /\ is_running = FALSE
  /\ simulation = 0
  /\ messages = 0
  /\ newest = None
  /\ since_simulation = [c \in Ids |-> 0]
  /\ audience = None
  /\ published = 0
  /\ lost = 0

-----------------------------------------------------------------------------
(* ws_bridge_send_json_from_any_thread, in two steps: g_ws_conn_id is read *)
(* under g_ws_mutex and used after it.  Frames are told apart by their     *)
(* simulation, sender and number; rank orders those of the runner.         *)

Frame(t, rank, n) == [sim |-> simulation, from |-> t, rank |-> rank, n |-> n]

EmptyHanded(t) == hand[t].id = None

Publish(t, frame) ==
  /\ EmptyHanded(t)
  /\ hand' = [hand EXCEPT ![t] = IF g_ws_conn_id = None THEN EmptyHand
                                 ELSE [frame |-> frame, id |-> g_ws_conn_id]]
  /\ published' = IF t = Loop THEN published ELSE published + 1

(* Mutants of PipeTakes: mg_wakeup blocks while the pipe is full; there is *)
(* no limit; a frame that still waits gives way to the newer one.          *)
PipeTakesOrBlocks(m) == Len(pipe) < PipeSize /\ pipe' = Append(pipe, m)
PipeTakesAll(m) == pipe' = Append(pipe, m)
PipeKeepsNewest(m) == pipe' = <<m>>

(* mg_wakeup sends without waiting and ignores the outcome.                *)
PipeTakes(m) == pipe' = IF Len(pipe) < PipeSize THEN Append(pipe, m) ELSE pipe

Wakeup(t) ==
  /\ ~EmptyHanded(t)
  /\ PipeTakes(hand[t])
  /\ hand' = [hand EXCEPT ![t] = EmptyHand]
  /\ lost' = IF t # Loop /\ pipe' = pipe THEN lost + 1 ELSE lost
  /\ UNCHANGED <<clientVars, threadVars, loopVars, audience, published, received>>

-----------------------------------------------------------------------------
(* The runner and the threads it creates.                                  *)

RunnerPublishes(from, to, rank) ==
  /\ runner_pc = from
  /\ Publish(Runner, Frame(Runner, rank, 0))
  /\ runner_pc' = to
  /\ UNCHANGED <<clientVars, loopVars, frames_left, is_running, simulation, audience,
                 lost, pipe, received>>

CreateThreads ==
  /\ runner_pc = "create" /\ EmptyHanded(Runner)
  /\ runner_pc' = "join"
  /\ frames_left' = [w \in Workers |-> MaxFrames]
  /\ UNCHANGED <<clientVars, loopVars, history, is_running, simulation, pipe, received, hand>>

WorkerPublishes(w) ==
  /\ frames_left[w] > 0
  /\ Publish(w, Frame(w, 3, MaxFrames - frames_left[w]))
  /\ frames_left' = [frames_left EXCEPT ![w] = @ - 1]
  /\ UNCHANGED <<clientVars, loopVars, runner_pc, is_running, simulation, audience, lost,
                 pipe, received>>

WorkerEnds(w) ==
  /\ frames_left[w] > 0 /\ EmptyHanded(w)
  /\ frames_left' = [frames_left EXCEPT ![w] = 0]
  /\ UNCHANGED <<clientVars, loopVars, history, runner_pc, is_running, simulation, pipe,
                 received, hand>>

(* Mutant of HasEnded: the thread's last frame is not waited for.          *)
HasNoFramesLeft(w) == frames_left[w] = 0

HasEnded(w) == frames_left[w] = 0 /\ EmptyHanded(w)

JoinThreads ==
  /\ runner_pc = "join"
  /\ \A w \in Workers : HasEnded(w)
  /\ runner_pc' = "end"
  /\ UNCHANGED <<clientVars, loopVars, history, frames_left, is_running, simulation, pipe,
                 received, hand>>

ClearRunning ==
  /\ runner_pc = "clear" /\ EmptyHanded(Runner)
  /\ is_running' = FALSE
  /\ runner_pc' = "off"
  /\ UNCHANGED <<clientVars, loopVars, history, frames_left, simulation, pipe, received, hand>>

RunnerActs ==
  \/ RunnerPublishes("params", "start", 1)
  \/ RunnerPublishes("start", "create", 2)
  \/ CreateThreads
  \/ JoinThreads
  \/ RunnerPublishes("end", "statistics", 4)
  \/ RunnerPublishes("statistics", "clear", 5)
  \/ ClearRunning

-----------------------------------------------------------------------------
(* The event loop: fn, and the handler wufn of the pipe.  It does one thing*)
(* at a time, and publishes frames of its own while it stops a simulation. *)

Polling == loop_pc = "poll"

(* Mutant of NewId: the first id that is free.                             *)
NewIdReused ==
  CHOOSE c \in Ids : /\ connection[c] \in {"none", "closed"}
                     /\ \A d \in Ids : d < c => connection[d] \notin {"none", "closed"}

(* mg_alloc_conn counts connections and uses no number twice.  The numbers *)
(* of the listener and of the pipe itself are left out.                    *)
NewId == nextid + 1

Accept ==
  /\ Polling
  /\ nextid < MaxConnections
  /\ nextid' = nextid + 1
  /\ connection' = [connection EXCEPT ![NewId] = "http"]
  /\ UNCHANGED <<threadVars, loopVars, history, g_ws_conn_id, newest, since_simulation,
                 pipe, received, hand>>

(* The audience is whoever hears a simulation from its first frame on.     *)
AudienceAfter == audience' = IF g_ws_conn_id' = g_ws_conn_id THEN audience ELSE None

Open(c) ==
  /\ Polling
  /\ connection[c] = "http"
  /\ connection' = [connection EXCEPT ![c] = "websocket"]
  /\ g_ws_conn_id' = c
  /\ newest' = c
  /\ since_simulation' = [since_simulation EXCEPT ![c] =
                            IF runner_pc = "off" THEN simulation + 1 ELSE simulation]
  /\ AudienceAfter
  /\ UNCHANGED <<threadVars, loopVars, nextid, published, lost, pipe, received, hand>>

(* Mutant of ActiveAfterClose: any client that leaves clears the id.       *)
NoneActive(c) == None

ActiveAfterClose(c) == IF g_ws_conn_id = c THEN None ELSE g_ws_conn_id

Close(c) ==
  /\ Polling
  /\ connection[c] \in {"http", "websocket"}
  /\ connection' = [connection EXCEPT ![c] = "closed"]
  /\ received' = [received EXCEPT ![c] = <<>>]
  /\ g_ws_conn_id' = ActiveAfterClose(c)
  /\ AudienceAfter
  /\ UNCHANGED <<threadVars, loopVars, nextid, newest, since_simulation, published, lost,
                 pipe, hand>>

Deliver ==
  /\ Polling
  /\ pipe # <<>>
  /\ pipe' = Tail(pipe)
  /\ LET m == Head(pipe)
     IN  received' = IF connection[m.id] = "websocket"
                       THEN [received EXCEPT ![m.id] = Append(@, m.frame)]
                       ELSE received
  /\ UNCHANGED <<clientVars, threadVars, loopVars, history, hand>>

Message(c) ==
  /\ Polling
  /\ connection[c] = "websocket"
  /\ messages < MaxMessages
  /\ messages' = messages + 1

Start(c) ==
  /\ Message(c)
  /\ IF is_running
       THEN UNCHANGED <<threadVars, history>>
       ELSE /\ simulation < MaxSimulations
            /\ is_running' = TRUE
            /\ runner_pc' = "params"
            /\ simulation' = simulation + 1
            /\ audience' = g_ws_conn_id
            /\ published' = 0
            /\ lost' = 0
            /\ UNCHANGED frames_left
  /\ UNCHANGED <<clientVars, loop_pc, pipe, received, hand>>

(* "status", and any other text.                                           *)
Status(c) ==
  /\ Message(c)
  /\ UNCHANGED <<clientVars, threadVars, history, loop_pc, pipe, received, hand>>

Stop(c) ==
  /\ Message(c)
  /\ loop_pc' = "stopping"
  /\ UNCHANGED <<clientVars, threadVars, history, pipe, received, hand>>

LoopPublishes ==
  /\ loop_pc = "stopping"
  /\ Publish(Loop, Frame(Loop, 0, 0))
  /\ loop_pc' = "stopped"
  /\ UNCHANGED <<clientVars, threadVars, messages, audience, lost, pipe, received>>

(* A removed job, any number of times.                                     *)
LoopPublishesMore ==
  /\ loop_pc = "stopped"
  /\ Publish(Loop, Frame(Loop, 0, 1))
  /\ loop_pc' = "removed"
  /\ UNCHANGED <<clientVars, threadVars, messages, audience, lost, pipe, received>>

StopAnswered ==
  /\ loop_pc \in {"stopped", "removed"} /\ EmptyHanded(Loop)
  /\ loop_pc' = "poll"
  /\ UNCHANGED <<clientVars, threadVars, history, messages, pipe, received, hand>>

-----------------------------------------------------------------------------
Next ==
  \/ RunnerActs
  \/ \E w \in Workers : WorkerPublishes(w) \/ WorkerEnds(w)
  \/ \E t \in Senders : Wakeup(t)
  \/ Accept
  \/ \E c \in Ids : Open(c) \/ Close(c) \/ Start(c) \/ Status(c) \/ Stop(c)
  \/ Deliver
  \/ LoopPublishes \/ LoopPublishesMore \/ StopAnswered

Spec == Init /\ [][Next]_vars

(* The operating system runs every thread: the runner goes on, a call of   *)
(* mg_wakeup that can return does, and the event loop goes on with a stop. *)
(* Nothing is assumed of the workers, which may wait for paper for ever    *)
(* (see Server), nor that the loop ever takes a frame out of the pipe.     *)
FairSpec ==
  /\ Spec
  /\ WF_vars(RunnerActs)
  /\ \A t \in Senders : WF_vars(Wakeup(t))
  /\ WF_vars(LoopPublishes \/ LoopPublishesMore \/ StopAnswered)

-----------------------------------------------------------------------------
(* Properties.                                                             *)

RunningFlag == is_running \in BOOLEAN /\ (is_running <=> runner_pc # "off")

(* The variables range over their types, the pipe keeps its size, and      *)
(* is_running says whether there is a runner.                              *)
TypeOK ==
  /\ nextid \in 0..MaxConnections
  /\ connection \in [Ids -> {"none", "http", "websocket", "closed"}]
  /\ {g_ws_conn_id, newest, audience} \subseteq Ids \union {None}
  /\ pipe \in Seq(Messages) /\ Len(pipe) <= PipeSize
  /\ received \in [Ids -> Seq(Frames)]
  /\ hand \in [Senders -> [frame : Frames, id : Ids \union {None}]]
  /\ frames_left \in [Workers -> 0..MaxFrames]
  /\ runner_pc \in {"off", "params", "start", "create", "join", "end", "statistics", "clear"}
  /\ loop_pc \in {"poll", "stopping", "stopped", "removed"}
  /\ simulation \in 0..MaxSimulations /\ messages \in 0..MaxMessages
  /\ since_simulation \in [Ids -> Nat] /\ {published, lost} \subseteq Nat
  /\ RunningFlag

(* The active websocket is the one that was opened last, or none: a client *)
(* that leaves takes the log away from itself only.                        *)
NewestIsActive ==
  g_ws_conn_id = IF newest # None /\ connection[newest] = "websocket" THEN newest ELSE None

(* What a client is sent comes in the order of the simulation, and nothing *)
(* comes twice: no frame of a thread after the statistics, or before the   *)
(* start, although thread and runner hand their frames over on their own.  *)
FromSimulation(frame) == frame.from # Loop

Before(f, g) ==
  \/ f.sim < g.sim
  \/ /\ f.sim = g.sim
     /\ \/ f.rank < g.rank
        \/ f.rank = g.rank /\ (f.from = g.from => f.n < g.n)

InOrder(log) ==
  \A i, j \in 1..Len(log) :
    i < j /\ FromSimulation(log[i]) /\ FromSimulation(log[j]) => Before(log[i], log[j])

FramesInOrder == \A c \in Ids : InOrder(received[c])

(* A frame is sent to the id that was active when it was published, which  *)
(* may be gone by then; nobody else gets it.  A client hears nothing of a  *)
(* simulation that was over when it came.                                  *)
NoStaleFrames ==
  \A c \in Ids : \A i \in 1..Len(received[c]) :
    FromSimulation(received[c][i]) => received[c][i].sim >= since_simulation[c]

(* A client that is the active one from before the start of a simulation   *)
(* gets every frame of it, but for those that found the pipe full.         *)
OfSimulation == {f \in Frames : FromSimulation(f) /\ f.sim = simulation}
ToAudience   == {m \in Messages : m.frame \in OfSimulation /\ m.id = audience}

Count(s, S) == Cardinality({i \in 1..Len(s) : s[i] \in S})

WholeLog ==
  audience # None =>
    published = Count(received[audience], OfSimulation) + Count(pipe, ToAudience) + lost
                  + Cardinality({t \in Senders \ {Loop} : ~EmptyHanded(t)})

(* Publishing blocks nobody, however full the pipe is and whoever listens, *)
(* although the event loop publishes into the pipe that it alone empties:  *)
(* every frame of a worker is off its hands, every stop comes to its end,  *)
(* and the runner gets from the start to the join of its threads and from  *)
(* there to the end.  That the threads can be joined is not said here.     *)
NothingBlocks ==
  /\ \A w \in Workers : ~EmptyHanded(w) ~> EmptyHanded(w)
  /\ loop_pc # "poll" ~> loop_pc = "poll"
  /\ runner_pc \in {"params", "start", "create"} ~> runner_pc = "join"
  /\ runner_pc \in {"end", "statistics", "clear"} ~> runner_pc = "off"
=============================================================================
