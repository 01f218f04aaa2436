---------------------------- MODULE WsBridgeProofs --------------------------
(***************************************************************************)
(* Theorems about WsBridge, for any number of connections, threads, frames *)
(* and simulations and a pipe of any size: who is the active client, and   *)
(* what of the log reaches whom, in which order.                           *)
(***************************************************************************)
EXTENDS WsBridge, SequenceTheorems, FunctionTheorems, FiniteSetTheorems, TLAPS

USE BridgeAssumption
    DEF clientVars, threadVars, loopVars, history, Ids, None

-----------------------------------------------------------------------------
(* Types.                                                                  *)

LEMMA FrameType ==
  ASSUME TypeOK, NEW t \in Senders, NEW rank \in 0..5, NEW n \in Nat
  PROVE  Frame(t, rank, n) \in Frames
  BY DEF TypeOK, Frames, Frame

LEMMA PublishType ==
  ASSUME TypeOK, NEW t \in Senders, NEW frame \in Frames, Publish(t, frame)
  PROVE  /\ hand' \in [Senders -> [frame : Frames, id : Ids \union {None}]]
         /\ published' \in Nat
  <1>1. EmptyHand \in [frame : Frames, id : Ids \union {None}]
    BY DEF EmptyHand, Frames, Senders
  <1> QED
    BY <1>1 DEF Publish, TypeOK

LEMMA TypeInit == Init => TypeOK
  <1> SUFFICES ASSUME Init PROVE TypeOK
    OBVIOUS
  <1>1. EmptyHand \in [frame : Frames, id : Ids \union {None}]
    BY DEF EmptyHand, Frames, Senders
  <1>2. <<>> \in Seq(Frames) /\ <<>> \in Seq(Messages) /\ Len(<<>>) = 0
    OBVIOUS
  <1>3. RunningFlag
    BY DEF Init, RunningFlag
  <1> QED
    BY <1>1, <1>2, <1>3 DEF Init, TypeOK

LEMMA FlagStep == TypeOK /\ [Next]_vars => RunningFlag'
  <1> SUFFICES ASSUME TypeOK, [Next]_vars PROVE RunningFlag'
    OBVIOUS
  <1>1. ASSUME NEW from \in {"params", "start", "end", "statistics"},
               NEW to \in {"start", "create", "statistics", "clear"}, NEW rank,
               RunnerPublishes(from, to, rank)
        PROVE  RunningFlag'
    BY <1>1 DEF RunnerPublishes, TypeOK, RunningFlag
  <1>2. CASE CreateThreads \/ JoinThreads
    BY <1>2 DEF CreateThreads, JoinThreads, TypeOK, RunningFlag
  <1>3. CASE ClearRunning
    BY <1>3 DEF ClearRunning, RunningFlag
  <1>4. ASSUME NEW c \in Ids, Start(c)
        PROVE  RunningFlag'
    <2>1. CASE is_running
      BY <1>4, <2>1 DEF Start, TypeOK, RunningFlag
    <2>2. CASE ~is_running
      BY <1>4, <2>2 DEF Start, RunningFlag
    <2> QED
      BY <2>1, <2>2
  <1>5. CASE UNCHANGED <<is_running, runner_pc>>
    BY <1>5 DEF TypeOK, RunningFlag
  <1>6. ASSUME NEW w \in Workers, WorkerPublishes(w) \/ WorkerEnds(w)
        PROVE  RunningFlag'
    BY <1>5, <1>6 DEF WorkerPublishes, WorkerEnds
  <1>7. ASSUME NEW t \in Senders, Wakeup(t)
        PROVE  RunningFlag'
    BY <1>5, <1>7 DEF Wakeup
  <1>8. CASE Accept \/ Deliver \/ LoopPublishes \/ LoopPublishesMore \/ StopAnswered
    BY <1>5, <1>8 DEF Accept, Deliver, LoopPublishes, LoopPublishesMore, StopAnswered
  <1>9. ASSUME NEW c \in Ids, Open(c) \/ Close(c) \/ Status(c) \/ Stop(c)
        PROVE  RunningFlag'
    BY <1>5, <1>9 DEF Open, Close, Status, Stop
  <1>10. CASE UNCHANGED vars
    BY <1>5, <1>10 DEF vars
  <1> QED
    BY <1>1, <1>2, <1>3, <1>4, <1>6, <1>7, <1>8, <1>9, <1>10 DEF Next, RunnerActs

LEMMA TypeStep == TypeOK /\ [Next]_vars => TypeOK'
  <1> SUFFICES ASSUME TypeOK, [Next]_vars PROVE TypeOK'
    OBVIOUS
  <1> RunningFlag'
    BY FlagStep
  <1>0. EmptyHand \in [frame : Frames, id : Ids \union {None}]
    BY DEF EmptyHand, Frames, Senders
  <1>1. ASSUME NEW from, NEW to \in {"start", "create", "statistics", "clear"},
               NEW rank \in 0..5, from # "off", RunnerPublishes(from, to, rank)
        PROVE  TypeOK'
    <2>1. Frame(Runner, rank, 0) \in Frames
      BY FrameType DEF Senders
    <2>2. /\ hand' \in [Senders -> [frame : Frames, id : Ids \union {None}]]
          /\ published' \in Nat
      BY <1>1, <2>1, PublishType DEF RunnerPublishes, Senders
    <2> QED
      BY <1>1, <2>2 DEF RunnerPublishes, TypeOK
  <1>2. CASE CreateThreads \/ JoinThreads \/ ClearRunning
    <2>1. CASE CreateThreads
      BY <2>1 DEF CreateThreads, TypeOK
    <2>2. CASE JoinThreads
      BY <2>2 DEF JoinThreads, TypeOK
    <2>3. CASE ClearRunning
      BY <2>3 DEF ClearRunning, TypeOK
    <2> QED
      BY <1>2, <2>1, <2>2, <2>3
  <1>3. ASSUME NEW w \in Workers, WorkerPublishes(w)
        PROVE  TypeOK'
    <2>1. Frame(w, 3, MaxFrames - frames_left[w]) \in Frames
      <3>1. MaxFrames - frames_left[w] \in 0..MaxFrames
        BY DEF TypeOK
      <3> QED
        BY <3>1, FrameType DEF Senders
    <2>2. /\ hand' \in [Senders -> [frame : Frames, id : Ids \union {None}]]
          /\ published' \in Nat
      BY <1>3, <2>1, PublishType DEF WorkerPublishes, Senders
    <2>3. frames_left' \in [Workers -> 0..MaxFrames]
      BY <1>3 DEF WorkerPublishes, TypeOK
    <2>4. UNCHANGED <<clientVars, loopVars, runner_pc, is_running, simulation, audience, lost,
                      pipe, received>>
      BY <1>3 DEF WorkerPublishes
    <2> QED
      BY <1>0, <2>2, <2>3, <2>4 DEF TypeOK
  <1>4. ASSUME NEW w \in Workers, WorkerEnds(w)
        PROVE  TypeOK'
    <2>1. frames_left' \in [Workers -> 0..MaxFrames]
      BY <1>4 DEF WorkerEnds, TypeOK
    <2>2. UNCHANGED <<clientVars, loopVars, history, runner_pc, is_running, simulation, pipe,
                      received, hand>>
      BY <1>4 DEF WorkerEnds
    <2> QED
      BY <1>0, <2>1, <2>2 DEF TypeOK
  <1>5. ASSUME NEW t \in Senders, Wakeup(t)
        PROVE  TypeOK'
    <2>1. hand[t] \in Messages
      BY <1>5 DEF Wakeup, EmptyHanded, Messages, TypeOK
    <2>2. pipe' \in Seq(Messages) /\ Len(pipe') <= PipeSize
      BY <1>5, <2>1, AppendProperties DEF Wakeup, PipeTakes, TypeOK
    <2>3. hand' \in [Senders -> [frame : Frames, id : Ids \union {None}]]
      BY <1>0, <1>5 DEF Wakeup, TypeOK
    <2> QED
      BY <1>5, <2>2, <2>3 DEF Wakeup, TypeOK
  <1>6. CASE Accept
    <2>1. /\ nextid' \in 0..MaxConnections
          /\ connection' \in [Ids -> {"none", "http", "websocket", "closed"}]
      BY <1>6 DEF Accept, NewId, TypeOK
    <2>2. UNCHANGED <<threadVars, loopVars, history, g_ws_conn_id, newest, since_simulation,
                      pipe, received, hand>>
      BY <1>6 DEF Accept
    <2> QED
      BY <1>0, <2>1, <2>2 DEF TypeOK
  <1>7. ASSUME NEW c \in Ids, Open(c)
        PROVE  TypeOK'
    <2>1. since_simulation' \in [Ids -> Nat]
      BY <1>7 DEF Open, TypeOK
    <2>2. /\ connection' \in [Ids -> {"none", "http", "websocket", "closed"}]
          /\ {g_ws_conn_id, newest, audience}' \subseteq Ids \union {None}
      BY <1>7 DEF Open, AudienceAfter, TypeOK
    <2> QED
      BY <1>7, <2>1, <2>2 DEF Open, TypeOK
  <1>8. ASSUME NEW c \in Ids, Close(c)
        PROVE  TypeOK'
    <2>1. <<>> \in Seq(Frames)
      OBVIOUS
    <2> QED
      BY <1>8, <2>1 DEF Close, ActiveAfterClose, AudienceAfter, TypeOK
  <1>9. ASSUME NEW c \in Ids, Start(c) \/ Status(c) \/ Stop(c)
        PROVE  TypeOK'
    <2>1. CASE Start(c)
      <3>1. CASE is_running
        BY <2>1, <3>1 DEF Start, Message, TypeOK
      <3>2. CASE ~is_running
        <4>1. /\ simulation' \in 0..MaxSimulations /\ messages' \in 0..MaxMessages
              /\ runner_pc' = "params" /\ audience' = g_ws_conn_id
              /\ published' = 0 /\ lost' = 0
              /\ UNCHANGED <<clientVars, loop_pc, pipe, received, hand, frames_left>>
          BY <2>1, <3>2 DEF Start, Message, TypeOK
        <4> QED
          BY <1>0, <4>1 DEF TypeOK
      <3> QED
        BY <3>1, <3>2
    <2>2. CASE Status(c)
      BY <2>2 DEF Status, Message, TypeOK
    <2>3. CASE Stop(c)
      BY <2>3 DEF Stop, Message, TypeOK
    <2> QED
      BY <1>9, <2>1, <2>2, <2>3
  <1>10. CASE Deliver
    <2>1. Head(pipe) \in Messages /\ Tail(pipe) \in Seq(Messages) /\ Len(Tail(pipe)) <= PipeSize
      BY <1>10, HeadTailProperties DEF Deliver, TypeOK
    <2>2. received' \in [Ids -> Seq(Frames)]
      BY <1>10, <2>1, AppendProperties DEF Deliver, Messages, TypeOK
    <2> QED
      BY <1>10, <2>1, <2>2 DEF Deliver, TypeOK
  <1>11. CASE LoopPublishes \/ LoopPublishesMore
    <2>1. PICK frame \in Frames : Publish(Loop, frame)
      <3>1. CASE LoopPublishes
        <4>1. Frame(Loop, 0, 0) \in Frames
          BY FrameType DEF Senders
        <4> QED
          BY <3>1, <4>1 DEF LoopPublishes
      <3>2. CASE LoopPublishesMore
        <4>1. Frame(Loop, 0, 1) \in Frames
          BY FrameType DEF Senders
        <4> QED
          BY <3>2, <4>1 DEF LoopPublishesMore
      <3> QED
        BY <1>11, <3>1, <3>2
    <2>2. /\ hand' \in [Senders -> [frame : Frames, id : Ids \union {None}]]
          /\ published' \in Nat
      BY <2>1, PublishType DEF Senders
    <2> QED
      BY <1>11, <2>2 DEF LoopPublishes, LoopPublishesMore, TypeOK
  <1>12. CASE StopAnswered
    BY <1>12 DEF StopAnswered, TypeOK
  <1>13. CASE UNCHANGED vars
    BY <1>13 DEF vars, TypeOK
  <1> QED
    BY <1>1, <1>2, <1>3, <1>4, <1>5, <1>6, <1>7, <1>8, <1>9, <1>10, <1>11, <1>12, <1>13
    DEF Next, RunnerActs

(* Every variable of the bridge keeps its type, and no more frames wait in *)
(* the pipe than it holds.                                                 *)
THEOREM BridgeTypeCorrect == Spec => []TypeOK
  BY TypeInit, TypeStep, PTL DEF Spec

-----------------------------------------------------------------------------
(* Who changes what.                                                       *)

LEMMA ClientStep ==
  ASSUME [Next]_vars
  PROVE  Accept \/ (\E c \in Ids : Open(c) \/ Close(c)) \/ UNCHANGED clientVars
  BY DEF Next, vars, RunnerActs, RunnerPublishes, CreateThreads, JoinThreads, ClearRunning,
         WorkerPublishes, WorkerEnds, Wakeup, Start, Status, Stop, Deliver, LoopPublishes,
         LoopPublishesMore, StopAnswered

(* The threads publish while the runner waits for them, the runner before  *)
(* and after; and whoever has a frame in hand is not past that point.      *)
HoldsFrame(t) ==
  IF t = Runner THEN runner_pc \in {"start", "create", "statistics", "clear"}
  ELSE runner_pc = "join"

RunInv ==
  /\ \A w \in Workers : frames_left[w] > 0 => runner_pc = "join"
  /\ \A t \in Senders \ {Loop} : ~EmptyHanded(t) => HoldsFrame(t)

LEMMA RunInit == Init => RunInv
  BY DEF Init, RunInv, EmptyHand, EmptyHanded

LEMMA RunStep == TypeOK /\ RunInv /\ [Next]_vars => RunInv'
  <1> SUFFICES ASSUME TypeOK, RunInv, [Next]_vars PROVE RunInv'
    OBVIOUS
  <1> USE DEF RunInv, EmptyHanded, HoldsFrame, Senders
  <1>1. ASSUME NEW from \in {"params", "start", "end", "statistics"},
               NEW to \in {"start", "create", "statistics", "clear"}, NEW rank,
               RunnerPublishes(from, to, rank)
        PROVE  RunInv'
    BY <1>1 DEF RunnerPublishes, Publish, TypeOK
  <1>2. CASE CreateThreads
    BY <1>2 DEF CreateThreads, TypeOK
  <1>3. CASE JoinThreads
    BY <1>3 DEF JoinThreads, HasEnded, TypeOK
  <1>4. CASE ClearRunning
    BY <1>4 DEF ClearRunning, TypeOK
  <1>5. ASSUME NEW w \in Workers, WorkerPublishes(w)
        PROVE  RunInv'
    BY <1>5 DEF WorkerPublishes, Publish, TypeOK
  <1>6. ASSUME NEW w \in Workers, WorkerEnds(w)
        PROVE  RunInv'
    BY <1>6 DEF WorkerEnds, TypeOK
  <1>7. ASSUME NEW t \in Senders, Wakeup(t)
        PROVE  RunInv'
    BY <1>7 DEF Wakeup, EmptyHand, TypeOK
  <1>8. CASE LoopPublishes \/ LoopPublishesMore
    BY <1>8 DEF LoopPublishes, LoopPublishesMore, Publish, TypeOK
  <1>9. ASSUME NEW c \in Ids, Start(c)
        PROVE  RunInv'
    <2>1. CASE is_running
      BY <1>9, <2>1 DEF Start
    <2>2. CASE ~is_running
      <3>1. runner_pc = "off"
        BY <2>2 DEF TypeOK, RunningFlag
      <3>2. UNCHANGED <<frames_left, hand>>
        BY <1>9, <2>2 DEF Start
      <3> QED
        BY <3>1, <3>2 DEF TypeOK
    <2> QED
      BY <2>1, <2>2
  <1>10. CASE UNCHANGED <<runner_pc, frames_left, hand>>
    BY <1>10
  <1>11. CASE Accept \/ Deliver \/ StopAnswered \/ UNCHANGED vars
    BY <1>10, <1>11 DEF Accept, Deliver, StopAnswered, vars
  <1>12. ASSUME NEW c \in Ids, Open(c) \/ Close(c) \/ Status(c) \/ Stop(c)
        PROVE  RunInv'
    BY <1>10, <1>12 DEF Open, Close, Status, Stop
  <1> QED
    BY <1>1, <1>2, <1>3, <1>4, <1>5, <1>6, <1>7, <1>8, <1>9, <1>11, <1>12
    DEF Next, RunnerActs

(* Every step is one of these.                                             *)
Publishing(t) ==
  /\ \E rank \in 0..5, n \in Nat : Publish(t, Frame(t, rank, n))
  /\ t # Loop => runner_pc # "off"
  /\ UNCHANGED <<clientVars, received, pipe, simulation, audience, lost>>

Starting ==
  /\ runner_pc = "off" /\ runner_pc' = "params" /\ simulation' = simulation + 1
  /\ audience' = g_ws_conn_id /\ published' = 0 /\ lost' = 0
  /\ UNCHANGED <<clientVars, received, pipe, hand>>

Quiet == UNCHANGED <<clientVars, received, pipe, hand, simulation, history>>

LEMMA Steps ==
  ASSUME TypeOK, RunInv, [Next]_vars
  PROVE  \/ Accept \/ Deliver \/ Starting \/ Quiet
         \/ \E c \in Ids : Open(c) \/ Close(c)
         \/ \E t \in Senders : Wakeup(t) \/ Publishing(t)
  <1>1. CASE RunnerActs
    <2>1. ASSUME NEW from \in {"params", "start", "end", "statistics"}, NEW to,
                 NEW rank \in 0..5, RunnerPublishes(from, to, rank)
          PROVE  Publishing(Runner)
      BY <2>1 DEF RunnerPublishes, Publishing
    <2>2. CASE CreateThreads \/ JoinThreads \/ ClearRunning
      BY <2>2 DEF CreateThreads, JoinThreads, ClearRunning, Quiet
    <2> QED
      BY <1>1, <2>1, <2>2 DEF RunnerActs, Senders
  <1>2. ASSUME NEW w \in Workers, WorkerPublishes(w)
        PROVE  Publishing(w)
    <2>1. MaxFrames - frames_left[w] \in Nat
      BY DEF TypeOK
    <2>2. runner_pc # "off"
      BY <1>2 DEF WorkerPublishes, RunInv
    <2> QED
      BY <1>2, <2>1, <2>2 DEF WorkerPublishes, Publishing
  <1>3. CASE LoopPublishes \/ LoopPublishesMore
    BY <1>3 DEF LoopPublishes, LoopPublishesMore, Publishing, Senders
  <1>4. ASSUME NEW c \in Ids, Start(c)
        PROVE  Starting \/ Quiet
    <2>1. CASE is_running
      BY <1>4, <2>1 DEF Start, Quiet
    <2>2. CASE ~is_running
      BY <1>4, <2>2 DEF Start, Starting, TypeOK, RunningFlag
    <2> QED
      BY <2>1, <2>2
  <1>5. ASSUME NEW c \in Ids, Status(c) \/ Stop(c)
        PROVE  Quiet
    BY <1>5 DEF Status, Stop, Quiet
  <1>6. ASSUME NEW w \in Workers, WorkerEnds(w)
        PROVE  Quiet
    BY <1>6 DEF WorkerEnds, Quiet
  <1>7. CASE StopAnswered \/ UNCHANGED vars
    BY <1>7 DEF StopAnswered, vars, Quiet
  <1> QED
    BY <1>1, <1>2, <1>3, <1>4, <1>5, <1>6, <1>7 DEF Next, Senders

LEMMA HeadMessage ==
  ASSUME TypeOK, pipe # <<>>
  PROVE  1 \in 1..Len(pipe) /\ Head(pipe) = pipe[1] /\ Head(pipe) \in Messages
  <1>1. pipe \in Seq(Messages)
    BY DEF TypeOK
  <1>2. Len(pipe) \in Nat /\ Len(pipe) # 0
    BY <1>1, EmptySeq
  <1> QED
    BY <1>1, <1>2, HeadTailProperties

(* Where a message in the pipe, in a hand or at a client comes from.       *)
LEMMA PipeStep ==
  ASSUME TypeOK, RunInv, [Next]_vars
  PROVE  \/ pipe' = pipe
         \/ Deliver /\ pipe # <<>> /\ pipe' = Tail(pipe)
         \/ \E t \in Senders : Wakeup(t) /\ ~EmptyHanded(t) /\ pipe' = Append(pipe, hand[t])
  BY Steps DEF Accept, Open, Close, Starting, Quiet, Publishing, Deliver, Wakeup, PipeTakes

LEMMA PipeFrom ==
  ASSUME TypeOK, RunInv, [Next]_vars, NEW i \in 1..Len(pipe')
  PROVE  \/ \E j \in 1..Len(pipe) : pipe'[i] = pipe[j]
         \/ \E t \in Senders : Wakeup(t) /\ ~EmptyHanded(t) /\ pipe'[i] = hand[t]
  <1>0. pipe \in Seq(Messages)
    BY DEF TypeOK
  <1>1. CASE pipe # <<>> /\ pipe' = Tail(pipe)
    <2>1. i + 1 \in 1..Len(pipe) /\ pipe'[i] = pipe[i + 1]
      BY <1>0, <1>1
    <2> QED
      BY <2>1
  <1>2. ASSUME NEW t \in Senders, pipe' = Append(pipe, hand[t])
        PROVE  (\E j \in 1..Len(pipe) : pipe'[i] = pipe[j]) \/ pipe'[i] = hand[t]
    <2>1. i \in 1..Len(pipe) \/ i = Len(pipe) + 1
      BY <1>0, <1>2
    <2> QED
      BY <1>0, <1>2, <2>1
  <1>3. CASE UNCHANGED pipe
    BY <1>3
  <1> QED
    BY <1>1, <1>2, <1>3, PipeStep

Handed(t, rank, n) ==
  Publishing(t) /\ g_ws_conn_id # None
  /\ hand'[t] = [frame |-> Frame(t, rank, n), id |-> g_ws_conn_id]

LEMMA HandFrom ==
  ASSUME TypeOK, RunInv, [Next]_vars, NEW t \in Senders, ~EmptyHanded(t)'
  PROVE  \/ hand'[t] = hand[t] /\ ~EmptyHanded(t)
         \/ \E rank \in 0..5, n \in Nat : Handed(t, rank, n)
  <1>1. ASSUME NEW u \in Senders, Wakeup(u)
        PROVE  hand'[t] = hand[t] /\ ~EmptyHanded(t)
    BY <1>1 DEF Wakeup, EmptyHanded, EmptyHand, TypeOK
  <1>2. ASSUME NEW u \in Senders, Publishing(u)
        PROVE  \/ hand'[t] = hand[t] /\ ~EmptyHanded(t)
               \/ \E rank \in 0..5, n \in Nat : Handed(t, rank, n)
    <2>1. PICK rank \in 0..5, n \in Nat : Publish(u, Frame(u, rank, n))
      BY <1>2 DEF Publishing
    <2>2. CASE u = t
      <3>1. g_ws_conn_id # None
        BY <2>1, <2>2 DEF Publish, EmptyHanded, EmptyHand, TypeOK
      <3>2. Handed(t, rank, n)
        BY <1>2, <2>1, <2>2, <3>1 DEF Publish, Handed, TypeOK
      <3> QED
        BY <3>2
    <2>3. CASE u # t
      BY <2>1, <2>3 DEF Publish, EmptyHanded, TypeOK
    <2> QED
      BY <2>2, <2>3
  <1>3. CASE UNCHANGED hand
    BY <1>3 DEF EmptyHanded
  <1> QED
    BY <1>1, <1>2, <1>3, Steps DEF Accept, Open, Close, Starting, Quiet, Deliver

(* A client is delivered what heads the pipe, and only that.               *)
Delivered(c) ==
  /\ Deliver /\ pipe # <<>> /\ Head(pipe).id = c /\ connection[c] = "websocket"
  /\ received'[c] = Append(received[c], Head(pipe).frame)

LEMMA ReceivedFrom ==
  ASSUME TypeOK, RunInv, [Next]_vars, NEW c \in Ids
  PROVE  received'[c] = received[c] \/ received'[c] = <<>> \/ Delivered(c)
  <1>1. CASE Deliver
    <2>1. Head(pipe).id \in Ids
      BY <1>1, HeadMessage DEF Deliver, Messages
    <2> QED
      BY <1>1, <2>1 DEF Deliver, Delivered, TypeOK
  <1>2. ASSUME NEW d \in Ids, Close(d)
        PROVE  received'[c] = received[c] \/ received'[c] = <<>>
    BY <1>2 DEF Close, TypeOK
  <1>3. CASE UNCHANGED received
    BY <1>3
  <1> QED
    BY <1>1, <1>2, <1>3, Steps DEF Accept, Open, Wakeup, Starting, Quiet, Publishing

(* The latest simulation that a client which comes now can hear of.        *)
Latest == IF runner_pc = "off" THEN simulation + 1 ELSE simulation

LEMMA LatestGrows ==
  ASSUME TypeOK, [Next]_vars
  PROVE  Latest' \in Nat /\ Latest \in Nat /\ Latest <= Latest'
  <1> TypeOK'
    BY TypeStep
  <1>0. simulation \in Nat /\ simulation' \in Nat
    BY DEF TypeOK
  <1>1. ASSUME NEW c \in Ids, Start(c)
        PROVE  Latest <= Latest'
    <2>1. CASE is_running
      BY <1>1, <2>1 DEF Start, Latest, TypeOK
    <2>2. CASE ~is_running
      BY <1>1, <2>2 DEF Start, Latest, TypeOK
    <2> QED
      BY <2>1, <2>2
  <1>2. ASSUME NEW c \in Ids, Open(c) \/ Close(c) \/ Status(c) \/ Stop(c)
        PROVE  UNCHANGED <<runner_pc, simulation>>
    BY <1>2 DEF Open, Close, Status, Stop
  <1>3. ASSUME RunnerActs
        PROVE  Latest <= Latest'
    <2>1. CASE ClearRunning
      BY <1>0, <2>1 DEF ClearRunning, Latest
    <2>2. CASE ~ClearRunning
      <3>1. simulation' = simulation /\ runner_pc # "off" /\ runner_pc' # "off"
        BY <1>3, <2>2 DEF RunnerActs, RunnerPublishes, CreateThreads, JoinThreads
      <3> QED
        BY <1>0, <3>1 DEF Latest
    <2> QED
      BY <2>1, <2>2
  <1>4. ASSUME ~RunnerActs, \A c \in Ids : ~Start(c)
        PROVE  UNCHANGED <<runner_pc, simulation>>
    BY <1>2, <1>4 DEF Next, vars, WorkerPublishes, WorkerEnds, Wakeup, Accept, Deliver,
         LoopPublishes, LoopPublishesMore, StopAnswered
  <1>5. CASE UNCHANGED <<runner_pc, simulation>>
    BY <1>0, <1>5 DEF Latest
  <1>6. Latest = simulation \/ Latest = simulation + 1
    BY DEF Latest
  <1>7. Latest' = simulation' \/ Latest' = simulation' + 1
    BY DEF Latest
  <1> QED
    BY <1>0, <1>1, <1>3, <1>4, <1>5, <1>6, <1>7

-----------------------------------------------------------------------------
(* The active client.  A connection number is not used before it is given  *)
(* out, and the websocket that was opened last stays one until it closes.  *)

Opened(c) == connection[c] \in {"websocket", "closed"}

ConnInv ==
  /\ \A c \in Ids : nextid < c => connection[c] = "none"
  /\ newest # None => Opened(newest)
  /\ NewestIsActive

LEMMA ConnInit == Init => ConnInv
  BY DEF Init, ConnInv, NewestIsActive

LEMMA ConnStep == TypeOK /\ ConnInv /\ [Next]_vars => ConnInv'
  <1> SUFFICES ASSUME TypeOK, ConnInv, [Next]_vars PROVE ConnInv'
    OBVIOUS
  <1>1. CASE Accept
    <2>1. /\ nextid \in 0..MaxConnections /\ nextid' = nextid + 1
          /\ connection[nextid + 1] = "none" /\ nextid + 1 \in Ids
          /\ connection' = [connection EXCEPT ![nextid + 1] = "http"]
          /\ UNCHANGED <<g_ws_conn_id, newest>>
      BY <1>1 DEF Accept, NewId, ConnInv, TypeOK
    <2>2. \A c \in Ids \ {nextid + 1} : connection'[c] = connection[c]
      BY <2>1 DEF TypeOK
    <2>3. newest # None => newest \in Ids \ {nextid + 1}
      BY <2>1 DEF ConnInv, Opened, TypeOK
    <2>4. \A c \in Ids : nextid' < c => connection'[c] = "none"
      BY <2>1, <2>2 DEF ConnInv
    <2> QED
      BY <2>1, <2>2, <2>3, <2>4 DEF ConnInv, Opened, NewestIsActive
  <1>2. ASSUME NEW c \in Ids, Open(c)
        PROVE  ConnInv'
    BY <1>2 DEF Open, ConnInv, Opened, NewestIsActive, TypeOK
  <1>3. ASSUME NEW c \in Ids, Close(c)
        PROVE  ConnInv'
    BY <1>3 DEF Close, ActiveAfterClose, ConnInv, Opened, NewestIsActive, TypeOK
  <1>4. CASE UNCHANGED clientVars
    BY <1>4 DEF ConnInv, Opened, NewestIsActive
  <1> QED
    BY <1>1, <1>2, <1>3, <1>4, ClientStep

(* The log goes to the client that came last, until it leaves, and then to *)
(* nobody.                                                                 *)
THEOREM ActiveClient == Spec => []NewestIsActive
  <1>1. Init => TypeOK /\ ConnInv
    BY TypeInit, ConnInit
  <1>2. TypeOK /\ ConnInv /\ [Next]_vars => (TypeOK /\ ConnInv)'
    BY TypeStep, ConnStep
  <1>3. ConnInv => NewestIsActive
    BY DEF ConnInv
  <1> QED
    BY <1>1, <1>2, <1>3, PTL DEF Spec

-----------------------------------------------------------------------------
(* Who is sent what.  A frame is on its way only to a connection that was  *)
(* opened, and it is of a simulation that this client can hear of.         *)

MayHear(c, frame) == FromSimulation(frame) => frame.sim >= since_simulation[c]

Addressee(c, frame) == Opened(c) /\ MayHear(c, frame)

SinceBounded == \A c \in Ids : since_simulation[c] <= Latest

OnlyOpenHear == \A c \in Ids : received[c] # <<>> => connection[c] = "websocket"

PipeAddressed == \A i \in 1..Len(pipe) : Addressee(pipe[i].id, pipe[i].frame)

HandAddressed ==
  \A t \in Senders : ~EmptyHanded(t) =>
    Addressee(hand[t].id, hand[t].frame) /\ (FromSimulation(hand[t].frame) <=> t # Loop)

HeardInv == SinceBounded /\ OnlyOpenHear /\ PipeAddressed /\ HandAddressed /\ NoStaleFrames

LEMMA HeardInit == Init => HeardInv
  <1> SUFFICES ASSUME Init PROVE HeardInv
    OBVIOUS
  <1>1. SinceBounded
    BY DEF Init, SinceBounded, Latest
  <1>2. OnlyOpenHear /\ PipeAddressed /\ NoStaleFrames
    BY DEF Init, OnlyOpenHear, PipeAddressed, NoStaleFrames
  <1>3. HandAddressed
    BY DEF Init, HandAddressed, EmptyHanded, EmptyHand
  <1> QED
    BY <1>1, <1>2, <1>3 DEF HeardInv

(* An addressee stays one, whatever its connection does next.              *)
LEMMA OpenedStays ==
  ASSUME TypeOK, ConnInv, [Next]_vars, NEW c \in Ids, Opened(c)
  PROVE  Opened(c)' /\ since_simulation'[c] = since_simulation[c]
  <1>1. CASE Accept
    BY <1>1 DEF Accept, NewId, ConnInv, Opened, TypeOK
  <1>2. ASSUME NEW d \in Ids, Open(d)
        PROVE  Opened(c)' /\ since_simulation'[c] = since_simulation[c]
    BY <1>2 DEF Open, Opened, TypeOK
  <1>3. ASSUME NEW d \in Ids, Close(d)
        PROVE  Opened(c)' /\ since_simulation'[c] = since_simulation[c]
    BY <1>3 DEF Close, Opened, TypeOK
  <1> QED
    BY <1>1, <1>2, <1>3, ClientStep DEF Opened

LEMMA AddresseeStays ==
  ASSUME TypeOK, ConnInv, [Next]_vars, NEW c \in Ids, NEW frame, Addressee(c, frame)
  PROVE  Addressee(c, frame)'
  BY OpenedStays DEF Addressee, MayHear, FromSimulation, Opened

LEMMA HeardStep == TypeOK /\ RunInv /\ ConnInv /\ HeardInv /\ [Next]_vars => HeardInv'
  <1> SUFFICES ASSUME TypeOK, RunInv, ConnInv, HeardInv, [Next]_vars PROVE HeardInv'
    OBVIOUS
  <1>1. SinceBounded'
    <2>1. Latest' \in Nat /\ Latest \in Nat /\ Latest <= Latest'
      BY LatestGrows
    <2>2. since_simulation \in [Ids -> Nat]
      BY DEF TypeOK
    <2>3. ASSUME NEW c \in Ids, Open(c)
          PROVE  since_simulation' = [since_simulation EXCEPT ![c] = Latest]
      BY <2>3 DEF Open, Latest
    <2>4. ASSUME \A c \in Ids : ~Open(c)
          PROVE  UNCHANGED since_simulation
      BY <2>4, ClientStep DEF Accept, Close
    <2> QED
      BY <2>1, <2>2, <2>3, <2>4 DEF HeardInv, SinceBounded
  <1>2. OnlyOpenHear'
    <2>1. CASE Accept
      BY <2>1 DEF Accept, NewId, ConnInv, HeardInv, OnlyOpenHear, TypeOK
    <2>2. ASSUME NEW c \in Ids, Open(c)
          PROVE  OnlyOpenHear'
      BY <2>2 DEF Open, HeardInv, OnlyOpenHear, TypeOK
    <2>3. ASSUME NEW c \in Ids, Close(c)
          PROVE  OnlyOpenHear'
      BY <2>3 DEF Close, HeardInv, OnlyOpenHear, TypeOK
    <2>4. CASE Deliver
      <3>1. Head(pipe) \in Messages
        BY <2>4 DEF Deliver, TypeOK
      <3> QED
        BY <2>4, <3>1 DEF Deliver, HeardInv, OnlyOpenHear, TypeOK, Messages
    <2>5. CASE UNCHANGED <<connection, received>>
      BY <2>5 DEF HeardInv, OnlyOpenHear
    <2> QED
      BY <2>1, <2>2, <2>3, <2>4, <2>5, Steps DEF Starting, Quiet, Wakeup, Publishing
  <1>0. ASSUME NEW m \in Messages, Addressee(m.id, m.frame)
        PROVE  Addressee(m.id, m.frame)'
    BY <1>0, AddresseeStays DEF Messages
  <1>3. ASSUME NEW t \in Senders, ~EmptyHanded(t)
        PROVE  hand[t] \in Messages /\ Addressee(hand[t].id, hand[t].frame)
    BY <1>3 DEF EmptyHanded, Messages, TypeOK, HeardInv, HandAddressed
  <1>4. PipeAddressed'
    <2>1. \A i \in 1..Len(pipe) :
            pipe[i] \in Messages /\ Addressee(pipe[i].id, pipe[i].frame)
      BY DEF TypeOK, HeardInv, PipeAddressed
    <2>2. ASSUME NEW i \in 1..Len(pipe')
          PROVE  \E m \in Messages : pipe'[i] = m /\ Addressee(m.id, m.frame)
      BY <1>3, <2>1, PipeFrom
    <2> QED
      BY <1>0, <2>2 DEF PipeAddressed
  <1>5. HandAddressed'
    <2> SUFFICES ASSUME NEW t \in Senders, ~EmptyHanded(t)'
                 PROVE  /\ Addressee(hand[t].id, hand[t].frame)'
                        /\ FromSimulation(hand'[t].frame) <=> t # Loop
      BY DEF HandAddressed, FromSimulation
    <2>1. CASE hand'[t] = hand[t] /\ ~EmptyHanded(t)
      <3>1. \E m \in Messages : hand'[t] = m /\ Addressee(m.id, m.frame)
        BY <1>3, <2>1
      <3>2. FromSimulation(hand[t].frame) <=> t # Loop
        BY <2>1 DEF HeardInv, HandAddressed
      <3> QED
        BY <1>0, <2>1, <3>1, <3>2
    <2>2. ASSUME NEW rank \in 0..5, NEW n \in Nat, Handed(t, rank, n)
          PROVE  /\ Addressee(hand[t].id, hand[t].frame)'
                 /\ FromSimulation(hand'[t].frame) <=> t # Loop
      <3>1. g_ws_conn_id \in Ids /\ Opened(g_ws_conn_id)
        BY <2>2 DEF Handed, ConnInv, NewestIsActive, Opened, TypeOK
      <3>2. t # Loop => simulation >= since_simulation[g_ws_conn_id]
        BY <2>2, <3>1 DEF Handed, Publishing, HeardInv, SinceBounded, Latest, TypeOK
      <3>3. UNCHANGED <<connection, since_simulation>>
        BY <2>2 DEF Handed, Publishing
      <3>4. hand'[t].id = g_ws_conn_id /\ hand'[t].frame = Frame(t, rank, n)
        BY <2>2 DEF Handed
      <3>5. Frame(t, rank, n).sim = simulation /\ Frame(t, rank, n).from = t
        BY DEF Frame
      <3> QED
        BY <3>1, <3>2, <3>3, <3>4, <3>5 DEF Addressee, MayHear, FromSimulation, Opened
    <2> QED
      BY <2>1, <2>2, HandFrom
  <1>6. NoStaleFrames'
    <2> SUFFICES ASSUME NEW c \in Ids, NEW i \in 1..Len(received'[c]),
                        FromSimulation(received'[c][i])
                 PROVE  received'[c][i].sim >= since_simulation'[c]
      BY DEF NoStaleFrames, FromSimulation
    <2>1. CASE received'[c] = received[c]
      <3>1. received[c] # <<>>
        BY <2>1
      <3>2. Opened(c)
        BY <3>1 DEF HeardInv, OnlyOpenHear, Opened
      <3>3. since_simulation'[c] = since_simulation[c]
        BY <3>2, OpenedStays
      <3> QED
        BY <2>1, <3>3 DEF HeardInv, NoStaleFrames
    <2>2. CASE Delivered(c)
      <3>1. Opened(c)
        BY <2>2 DEF Delivered, Opened
      <3>2. since_simulation'[c] = since_simulation[c]
        BY <3>1, OpenedStays
      <3>3. Addressee(c, Head(pipe).frame)
        BY <2>2, HeadMessage DEF Delivered, HeardInv, PipeAddressed
      <3>4. received[c] \in Seq(Frames)
        BY DEF TypeOK
      <3>5. \/ i \in 1..Len(received[c]) /\ received'[c][i] = received[c][i]
            \/ received'[c][i] = Head(pipe).frame
        BY <2>2, <3>4 DEF Delivered
      <3> QED
        BY <3>2, <3>3, <3>5 DEF HeardInv, NoStaleFrames, Addressee, MayHear
    <2>3. CASE received'[c] = <<>>
      BY <2>3
    <2> QED
      BY <2>1, <2>2, <2>3, ReceivedFrom
  <1> QED
    BY <1>1, <1>2, <1>4, <1>5, <1>6 DEF HeardInv

(* A client gets what was published while it was the active one: nothing   *)
(* of a simulation that was over when it came.                             *)
THEOREM NothingStale == Spec => []NoStaleFrames
  <1>1. Init => TypeOK /\ RunInv /\ ConnInv /\ HeardInv
    BY TypeInit, RunInit, ConnInit, HeardInit
  <1>2. TypeOK /\ RunInv /\ ConnInv /\ HeardInv /\ [Next]_vars
     => (TypeOK /\ RunInv /\ ConnInv /\ HeardInv)'
    BY TypeStep, RunStep, ConnStep, HeardStep
  <1>3. HeardInv => NoStaleFrames
    BY DEF HeardInv
  <1> QED
    BY <1>1, <1>2, <1>3, PTL DEF Spec
-----------------------------------------------------------------------------
(* The order of the log.  RankSoFar is the rank of what was published last,*)
(* and a frame is past when its thread has gone on from it.                *)

RankSoFar ==
  CASE runner_pc = "params"            -> 0
    [] runner_pc = "start"             -> 1
    [] runner_pc = "create"            -> 2
    [] runner_pc \in {"join", "end"}   -> 3
    [] runner_pc = "statistics"        -> 4
    [] runner_pc \in {"clear", "off"}  -> 5

Past(f) ==
  \/ f.sim < simulation
  \/ /\ f.sim = simulation
     /\ f.rank <= RankSoFar
     /\ f.rank = 3 => f.from \in Workers /\ f.n < MaxFrames - frames_left[f.from]

(* The frames that are through with mg_wakeup.                             *)
Through(f) ==
  /\ FromSimulation(f)
  /\ \/ \E i \in 1..Len(pipe) : f = pipe[i].frame
     \/ \E c \in Ids : \E i \in 1..Len(received[c]) : f = received[c][i]

PipeInOrder ==
  \A i, j \in 1..Len(pipe) :
    i < j /\ FromSimulation(pipe[i].frame) /\ FromSimulation(pipe[j].frame)
      => Before(pipe[i].frame, pipe[j].frame)

ReceivedFirst ==
  \A c \in Ids : \A i \in 1..Len(received[c]), j \in 1..Len(pipe) :
    FromSimulation(received[c][i]) /\ FromSimulation(pipe[j].frame)
      => Before(received[c][i], pipe[j].frame)

HeldIsLast ==
  \A t \in Senders \ {Loop} : ~EmptyHanded(t) =>
    /\ hand[t].frame.from = t /\ hand[t].frame.sim = simulation /\ Past(hand[t].frame)
    /\ t \in Workers => hand[t].frame.rank = 3
    /\ \A f \in Frames : Through(f) => Before(f, hand[t].frame)

ThroughIsPast == \A f \in Frames : Through(f) => Past(f)

OrderInv == FramesInOrder /\ PipeInOrder /\ ReceivedFirst /\ HeldIsLast /\ ThroughIsPast

LEMMA OrderInit == Init => OrderInv
  <1> SUFFICES ASSUME Init PROVE OrderInv
    OBVIOUS
  <1>1. FramesInOrder /\ PipeInOrder /\ ReceivedFirst
    BY DEF Init, FramesInOrder, InOrder, PipeInOrder, ReceivedFirst
  <1>2. HeldIsLast
    BY DEF Init, HeldIsLast, EmptyHanded, EmptyHand
  <1>3. ThroughIsPast
    BY DEF Init, ThroughIsPast, Through
  <1> QED
    BY <1>1, <1>2, <1>3 DEF OrderInv

LEMMA PastStays ==
  ASSUME TypeOK, RunInv, [Next]_vars, NEW f \in Frames, Past(f)
  PROVE  Past(f)'
  <1>0. /\ f.sim \in Nat /\ f.rank \in Nat /\ f.n \in Nat /\ simulation \in Nat
        /\ \A w \in Workers : frames_left[w] \in 0..MaxFrames
    BY DEF Frames, TypeOK
  <1>1. ASSUME NEW from, NEW to, NEW rank,
               <<from, to>> \in {<<"params", "start">>, <<"start", "create">>,
                                 <<"end", "statistics">>, <<"statistics", "clear">>},
               RunnerPublishes(from, to, rank)
        PROVE  Past(f)'
    BY <1>0, <1>1 DEF RunnerPublishes, Past, RankSoFar
  <1>2. CASE CreateThreads
    BY <1>0, <1>2 DEF CreateThreads, Past, RankSoFar
  <1>3. CASE JoinThreads
    BY <1>0, <1>3 DEF JoinThreads, Past, RankSoFar
  <1>4. CASE ClearRunning
    BY <1>0, <1>4 DEF ClearRunning, Past, RankSoFar
  <1>5. ASSUME NEW w \in Workers, WorkerPublishes(w) \/ WorkerEnds(w)
        PROVE  Past(f)'
    <2>1. UNCHANGED <<runner_pc, simulation>>
      BY <1>5 DEF WorkerPublishes, WorkerEnds
    <2>2. frames_left \in [Workers -> 0..MaxFrames] /\ frames_left[w] \in Nat
      BY <1>0 DEF TypeOK
    <2>3. PICK k \in Nat : k < frames_left[w] /\ frames_left' = [frames_left EXCEPT ![w] = k]
      <3>1. CASE WorkerPublishes(w)
        <4>1. frames_left[w] - 1 \in Nat /\ frames_left[w] - 1 < frames_left[w]
          BY <2>2, <3>1 DEF WorkerPublishes
        <4>2. frames_left' = [frames_left EXCEPT ![w] = frames_left[w] - 1]
          BY <3>1 DEF WorkerPublishes
        <4> QED
          BY <4>1, <4>2
      <3>2. CASE WorkerEnds(w)
        BY <2>2, <3>2 DEF WorkerEnds
      <3> QED
        BY <1>5, <3>1, <3>2
    <2>4. \A v \in Workers : frames_left'[v] \in Int /\ frames_left'[v] <= frames_left[v]
      BY <1>0, <2>2, <2>3
    <2>5. RankSoFar' = RankSoFar
      BY <2>1 DEF RankSoFar
    <2> QED
      BY <1>0, <2>1, <2>4, <2>5 DEF Past
  <1>6. CASE Starting
    <2>1. simulation' = simulation + 1
      BY <1>6 DEF Starting
    <2> QED
      BY <1>0, <2>1 DEF Past
  <1>7. CASE UNCHANGED <<runner_pc, simulation, frames_left>>
    BY <1>7 DEF Past, RankSoFar
  <1>8. ASSUME NEW c \in Ids, Open(c) \/ Close(c) \/ Status(c) \/ Stop(c)
        PROVE  Past(f)'
    BY <1>7, <1>8 DEF Open, Close, Status, Stop
  <1>9. ASSUME NEW c \in Ids, Start(c)
        PROVE  Past(f)'
    <2>1. CASE is_running
      BY <1>7, <1>9, <2>1 DEF Start
    <2>2. CASE ~is_running
      BY <1>6, <1>9, <2>2 DEF Start, Starting, TypeOK, RunningFlag
    <2> QED
      BY <2>1, <2>2
  <1>10. ASSUME NEW t \in Senders, Wakeup(t)
         PROVE  Past(f)'
    BY <1>7, <1>10 DEF Wakeup
  <1>11. CASE \/ Accept \/ Deliver \/ LoopPublishes \/ LoopPublishesMore
              \/ StopAnswered \/ UNCHANGED vars
    BY <1>7, <1>11 DEF Accept, Deliver, LoopPublishes, LoopPublishesMore, StopAnswered, vars
  <1> QED
    BY <1>1, <1>2, <1>3, <1>4, <1>5, <1>8, <1>9, <1>10, <1>11 DEF Next, RunnerActs

(* What a thread takes in hand comes after all that is past, and is past   *)
(* from then on.                                                           *)
LEMMA NewlyHeld ==
  ASSUME TypeOK, RunInv, [Next]_vars, NEW t \in Senders \ {Loop},
         EmptyHanded(t), ~EmptyHanded(t)'
  PROVE  /\ hand'[t].frame.from = t /\ hand'[t].frame.sim = simulation
         /\ UNCHANGED <<simulation, pipe, received>>
         /\ Past(hand[t].frame)'
         /\ t \in Workers => hand'[t].frame.rank = 3
         /\ \A f \in Frames : FromSimulation(f) /\ Past(f) => Before(f, hand'[t].frame)
  <1>0. /\ simulation \in Nat /\ hand \in [Senders -> [frame : Frames, id : Ids \union {None}]]
        /\ \A w \in Workers : frames_left[w] \in 0..MaxFrames
    BY DEF TypeOK
  <1>1. ASSUME NEW u \in Senders, NEW frame, Publish(u, frame)
        PROVE  u = t /\ hand'[t].frame = frame
    BY <1>0, <1>1 DEF Publish, EmptyHanded, EmptyHand
  <1>2. ASSUME NEW from, NEW to, NEW rank \in {1, 2, 4, 5},
               <<from, to, rank>> \in {<<"params", "start", 1>>, <<"start", "create", 2>>,
                             <<"end", "statistics", 4>>, <<"statistics", "clear", 5>>},
               RunnerPublishes(from, to, rank)
        PROVE  /\ hand'[t].frame.from = t /\ hand'[t].frame.sim = simulation
               /\ UNCHANGED <<simulation, pipe, received>>
               /\ Past(hand[t].frame)'
               /\ t \in Workers => hand'[t].frame.rank = 3
               /\ \A f \in Frames : FromSimulation(f) /\ Past(f) => Before(f, hand'[t].frame)
    <2>1. t = Runner /\ hand'[t].frame = Frame(Runner, rank, 0)
      BY <1>1, <1>2 DEF RunnerPublishes, Senders
    <2>2. RankSoFar' = rank /\ RankSoFar \in Nat /\ RankSoFar < rank
      BY <1>2 DEF RunnerPublishes, RankSoFar
    <2>3. UNCHANGED <<simulation, pipe, received>>
      BY <1>2 DEF RunnerPublishes
    <2>4. \A f \in Frames : Past(f) => Before(f, hand'[t].frame)
      BY <1>0, <2>1, <2>2 DEF Past, Before, Frame, Frames
    <2>5. Past(hand[t].frame)'
      BY <2>1, <2>2, <2>3 DEF Past, Frame
    <2> QED
      BY <2>1, <2>3, <2>4, <2>5 DEF Frame
  <1>3. ASSUME NEW w \in Workers, WorkerPublishes(w)
        PROVE  /\ hand'[t].frame.from = t /\ hand'[t].frame.sim = simulation
               /\ UNCHANGED <<simulation, pipe, received>>
               /\ Past(hand[t].frame)'
               /\ t \in Workers => hand'[t].frame.rank = 3
               /\ \A f \in Frames : FromSimulation(f) /\ Past(f) => Before(f, hand'[t].frame)
    <2>1. w = t /\ hand'[t].frame = Frame(w, 3, MaxFrames - frames_left[w])
      BY <1>1, <1>3 DEF WorkerPublishes, Senders
    <2>2. RankSoFar = 3 /\ RankSoFar' = 3
      BY <1>3 DEF WorkerPublishes, RunInv, RankSoFar
    <2>3. UNCHANGED <<simulation, pipe, received>> /\ frames_left'[w] = frames_left[w] - 1
      BY <1>3 DEF WorkerPublishes, TypeOK
    <2>4. \A f \in Frames : Past(f) => Before(f, hand'[t].frame)
      BY <1>0, <2>1, <2>2 DEF Past, Before, Frame, Frames
    <2>5. Past(hand[t].frame)'
      BY <1>0, <2>1, <2>2, <2>3 DEF Past, Frame
    <2> QED
      BY <2>1, <2>3, <2>4, <2>5 DEF Frame
  <1>4. ASSUME LoopPublishes \/ LoopPublishesMore
        PROVE  FALSE
    BY <1>1, <1>4 DEF LoopPublishes, LoopPublishesMore, Senders
  <1>5. ASSUME NEW u \in Senders, Wakeup(u)
        PROVE  FALSE
    BY <1>0, <1>5 DEF Wakeup, EmptyHanded, EmptyHand
  <1>6. ~UNCHANGED hand
    BY DEF EmptyHanded
  <1>7. ASSUME NEW c \in Ids, Open(c) \/ Close(c) \/ Start(c) \/ Status(c) \/ Stop(c)
        PROVE  FALSE
    BY <1>6, <1>7 DEF Open, Close, Start, Status, Stop
  <1>8. ASSUME NEW w \in Workers, WorkerEnds(w)
        PROVE  FALSE
    BY <1>6, <1>8 DEF WorkerEnds
  <1>9. /\ ~Accept /\ ~Deliver /\ ~StopAnswered /\ ~CreateThreads /\ ~JoinThreads
        /\ ~ClearRunning /\ ~UNCHANGED vars
    BY <1>6 DEF Accept, Deliver, StopAnswered, CreateThreads, JoinThreads, ClearRunning, vars
  <1>10. CASE \E w \in Workers : WorkerPublishes(w)
    BY <1>3, <1>10
  <1>11. CASE RunnerActs
    BY <1>2, <1>9, <1>11 DEF RunnerActs
  <1> QED
    BY <1>4, <1>5, <1>7, <1>8, <1>9, <1>10, <1>11 DEF Next

LEMMA ThroughFrom ==
  ASSUME TypeOK, RunInv, HeardInv, [Next]_vars, NEW f, Through(f)'
  PROVE  \/ Through(f)
         \/ \E t \in Senders \ {Loop} : Wakeup(t) /\ ~EmptyHanded(t) /\ f = hand[t].frame
  <1>0. FromSimulation(f)
    BY DEF Through, FromSimulation
  <1>1. ASSUME NEW i \in 1..Len(pipe'), f = pipe'[i].frame
        PROVE  \/ Through(f)
               \/ \E t \in Senders \ {Loop} :
                    Wakeup(t) /\ ~EmptyHanded(t) /\ f = hand[t].frame
    <2>1. ASSUME NEW t \in Senders, ~EmptyHanded(t), f = hand[t].frame
          PROVE  t # Loop
      BY <1>0, <2>1 DEF HeardInv, HandAddressed
    <2> QED
      BY <1>0, <1>1, <2>1, PipeFrom DEF Through
  <1>2. ASSUME NEW c \in Ids, NEW i \in 1..Len(received'[c]), f = received'[c][i]
        PROVE  Through(f)
    <2>1. CASE received'[c] = received[c]
      BY <1>0, <1>2, <2>1 DEF Through
    <2>2. CASE received'[c] = <<>>
      BY <1>2, <2>2
    <2>3. CASE Delivered(c)
      <3>1. received[c] \in Seq(Frames)
        BY DEF TypeOK
      <3>2. \/ i \in 1..Len(received[c]) /\ received'[c][i] = received[c][i]
            \/ received'[c][i] = Head(pipe).frame
        BY <1>2, <2>3, <3>1 DEF Delivered
      <3>3. Head(pipe) = pipe[1] /\ 1 \in 1..Len(pipe)
        BY <2>3, HeadMessage DEF Delivered
      <3> QED
        BY <1>0, <1>2, <3>2, <3>3 DEF Through
    <2> QED
      BY <2>1, <2>2, <2>3, ReceivedFrom
  <1> QED
    BY <1>1, <1>2 DEF Through

LEMMA HeldStep ==
  ASSUME TypeOK, RunInv, HeardInv, OrderInv, [Next]_vars
  PROVE  HeldIsLast' /\ ThroughIsPast'
  <1>1. ASSUME NEW t \in Senders \ {Loop}, ~EmptyHanded(t)
        PROVE  hand[t].frame \in Frames /\ Past(hand[t].frame)
    BY <1>1 DEF OrderInv, HeldIsLast, TypeOK
  <1>2. ThroughIsPast'
    <2> SUFFICES ASSUME NEW f \in Frames, Through(f)' PROVE Past(f)'
      BY DEF ThroughIsPast
    <2>1. Past(f)
      BY <1>1, ThroughFrom DEF OrderInv, ThroughIsPast
    <2> QED
      BY <2>1, PastStays
  <1>3. HeldIsLast'
    <2> SUFFICES ASSUME NEW t \in Senders \ {Loop}, ~EmptyHanded(t)'
                 PROVE  /\ hand'[t].frame.from = t /\ hand'[t].frame.sim = simulation'
                        /\ Past(hand[t].frame)'
                        /\ t \in Workers => hand'[t].frame.rank = 3
                        /\ \A f \in Frames : Through(f)' => Before(f, hand'[t].frame)
      BY DEF HeldIsLast, Before
    <2>1. CASE EmptyHanded(t)
      <3>1. \A f \in Frames : Through(f)' => FromSimulation(f) /\ Past(f)
        BY <2>1, NewlyHeld DEF Through, FromSimulation, OrderInv, ThroughIsPast
      <3> QED
        BY <2>1, <3>1, NewlyHeld
    <2>2. CASE ~EmptyHanded(t)
      <3>1. hand'[t] = hand[t] /\ ~Wakeup(t)
        <4>1. \A rank, n : ~Handed(t, rank, n)
          BY <2>2 DEF Handed, Publishing, Publish
        <4>2. ~Wakeup(t)
          BY DEF Wakeup, EmptyHanded, EmptyHand, TypeOK
        <4> QED
          BY <4>1, <4>2, HandFrom
      <3>2. simulation' = simulation
        BY <2>2, Steps DEF RunInv, HoldsFrame, Starting, Accept, Deliver, Quiet, Open, Close,
                           Wakeup, Publishing
      <3>3. Past(hand[t].frame)'
        BY <1>1, <2>2, <3>1, PastStays
      <3>4. ASSUME NEW u \in Senders \ {Loop}, Wakeup(u), ~EmptyHanded(u)
            PROVE  Before(hand[u].frame, hand[t].frame)
        <4>1. u # t /\ HoldsFrame(u) /\ HoldsFrame(t)
          BY <2>2, <3>1, <3>4 DEF RunInv
        <4>2. u \in Workers /\ t \in Workers
          BY <4>1 DEF HoldsFrame, Senders
        <4> QED
          BY <2>2, <3>4, <4>1, <4>2 DEF OrderInv, HeldIsLast, Before
      <3>5. \A f \in Frames : Through(f)' => Before(f, hand[t].frame)
        BY <2>2, <3>4, ThroughFrom DEF OrderInv, HeldIsLast
      <3> QED
        BY <2>2, <3>1, <3>2, <3>3, <3>5 DEF OrderInv, HeldIsLast
    <2> QED
      BY <2>1, <2>2
  <1> QED
    BY <1>2, <1>3

LEMMA OrderStep ==
  TypeOK /\ RunInv /\ HeardInv /\ OrderInv /\ [Next]_vars => OrderInv'
  <1> SUFFICES ASSUME TypeOK, RunInv, HeardInv, OrderInv, [Next]_vars PROVE OrderInv'
    OBVIOUS
  <1>0. pipe \in Seq(Messages) /\ \A c \in Ids : received[c] \in Seq(Frames)
    BY DEF TypeOK
  <1>1. PipeInOrder'
    <2>1. CASE pipe' = pipe
      BY <2>1 DEF OrderInv, PipeInOrder, FromSimulation, Before
    <2>2. CASE pipe # <<>> /\ pipe' = Tail(pipe)
      <3>1. /\ Len(pipe') = Len(pipe) - 1
            /\ \A i \in 1..Len(pipe') : i + 1 \in 1..Len(pipe) /\ pipe'[i] = pipe[i + 1]
        BY <1>0, <2>2
      <3>2. \A i, j \in 1..Len(pipe') : i < j => i + 1 < j + 1
        OBVIOUS
      <3> QED
        BY <3>1, <3>2 DEF OrderInv, PipeInOrder, FromSimulation, Before
    <2>3. ASSUME NEW t \in Senders, Wakeup(t), ~EmptyHanded(t), pipe' = Append(pipe, hand[t])
          PROVE  PipeInOrder'
      <3>1. /\ Len(pipe') = Len(pipe) + 1 /\ Len(pipe) \in Nat
            /\ \A i \in 1..Len(pipe) : pipe'[i] = pipe[i]
            /\ pipe'[Len(pipe) + 1] = hand[t]
        BY <1>0, <2>3
      <3>2. ASSUME NEW i \in 1..Len(pipe), FromSimulation(pipe[i].frame),
                   FromSimulation(hand[t].frame)
            PROVE  Before(pipe[i].frame, hand[t].frame)
        <4>1. t # Loop
          BY <2>3, <3>2 DEF HeardInv, HandAddressed
        <4>2. pipe[i] \in Messages
          BY <1>0
        <4>3. pipe[i].frame \in Frames /\ Through(pipe[i].frame)
          BY <3>2, <4>2 DEF Through, Messages
        <4> QED
          BY <2>3, <4>1, <4>3 DEF OrderInv, HeldIsLast
      <3>3. \A i, j \in 1..Len(pipe') : i < j =>
              i \in 1..Len(pipe) /\ (j \in 1..Len(pipe) \/ j = Len(pipe) + 1)
        BY <3>1
      <3> QED
        BY <3>1, <3>2, <3>3 DEF OrderInv, PipeInOrder, FromSimulation, Before
    <2> QED
      BY <2>1, <2>2, <2>3, PipeStep
  <1>2. ASSUME NEW c \in Ids
        PROVE  InOrder(received'[c])
    <2>1. CASE received'[c] = received[c]
      BY <2>1 DEF OrderInv, FramesInOrder
    <2>2. CASE received'[c] = <<>>
      BY <2>2 DEF InOrder
    <2>3. CASE Delivered(c)
      <3>1. /\ Len(received'[c]) = Len(received[c]) + 1 /\ Len(received[c]) \in Nat
            /\ \A i \in 1..Len(received[c]) : received'[c][i] = received[c][i]
            /\ received'[c][Len(received[c]) + 1] = Head(pipe).frame
        BY <1>0, <2>3 DEF Delivered
      <3>2. 1 \in 1..Len(pipe) /\ Head(pipe) = pipe[1]
        BY <2>3, HeadMessage DEF Delivered
      <3>3. \A i, j \in 1..Len(received'[c]) : i < j =>
              i \in 1..Len(received[c]) /\ (j \in 1..Len(received[c]) \/ j = Len(received[c]) + 1)
        BY <3>1
      <3>4. InOrder(received[c])
        BY DEF OrderInv, FramesInOrder
      <3>5. \A i \in 1..Len(received[c]) :
              FromSimulation(received[c][i]) /\ FromSimulation(Head(pipe).frame)
                => Before(received[c][i], Head(pipe).frame)
        BY <3>2 DEF OrderInv, ReceivedFirst
      <3> QED
        BY <3>1, <3>3, <3>4, <3>5 DEF InOrder
    <2> QED
      BY <2>1, <2>2, <2>3, ReceivedFrom
  <1>3. ReceivedFirst'
    <2> SUFFICES ASSUME NEW c \in Ids, NEW i \in 1..Len(received'[c]), NEW j \in 1..Len(pipe'),
                        FromSimulation(received'[c][i]), FromSimulation(pipe'[j].frame)
                 PROVE  Before(received'[c][i], pipe'[j].frame)
      BY DEF ReceivedFirst, FromSimulation, Before
    <2>1. \/ i \in 1..Len(received[c]) /\ received'[c][i] = received[c][i]
          \/ Delivered(c) /\ received'[c][i] = pipe[1].frame /\ 1 \in 1..Len(pipe)
      <3>1. CASE received'[c] = received[c]
        BY <3>1
      <3>2. CASE received'[c] = <<>>
        BY <3>2
      <3>3. CASE Delivered(c)
        <4>1. 1 \in 1..Len(pipe) /\ Head(pipe) = pipe[1]
          BY <3>3, HeadMessage DEF Delivered
        <4> QED
          BY <1>0, <3>3, <4>1 DEF Delivered
      <3> QED
        BY <3>1, <3>2, <3>3, ReceivedFrom
    <2>2. CASE pipe' = pipe
      <3>1. ~Deliver
        <4> SUFFICES ASSUME Deliver PROVE FALSE
          OBVIOUS
        <4>1. Len(Tail(pipe)) = Len(pipe) - 1 /\ Len(pipe) \in Nat /\ pipe' = Tail(pipe)
          BY <1>0 DEF Deliver
        <4>2. Len(Tail(pipe)) = Len(pipe)
          BY <2>2, <4>1
        <4> QED
          BY <4>1, <4>2
      <3> QED
        BY <2>1, <2>2, <3>1 DEF OrderInv, ReceivedFirst, Delivered
    <2>3. CASE pipe # <<>> /\ pipe' = Tail(pipe)
      <3>1. j + 1 \in 1..Len(pipe) /\ 1 < j + 1 /\ pipe'[j] = pipe[j + 1]
        BY <1>0, <2>3
      <3>2. CASE i \in 1..Len(received[c]) /\ received'[c][i] = received[c][i]
        BY <3>1, <3>2 DEF OrderInv, ReceivedFirst
      <3>3. CASE received'[c][i] = pipe[1].frame /\ 1 \in 1..Len(pipe)
        BY <3>1, <3>3 DEF OrderInv, PipeInOrder
      <3> QED
        BY <2>1, <3>2, <3>3
    <2>4. ASSUME NEW t \in Senders, Wakeup(t), ~EmptyHanded(t), pipe' = Append(pipe, hand[t])
          PROVE  Before(received'[c][i], pipe'[j].frame)
      <3>1. received' = received
        BY <2>4 DEF Wakeup
      <3>2. CASE j \in 1..Len(pipe) /\ pipe'[j] = pipe[j]
        BY <3>1, <3>2 DEF OrderInv, ReceivedFirst
      <3>3. CASE pipe'[j] = hand[t]
        <4>1. t # Loop
          BY <2>4, <3>3 DEF HeardInv, HandAddressed
        <4>2. received[c][i] \in Frames /\ Through(received[c][i])
          BY <1>0, <3>1 DEF Through
        <4> QED
          BY <2>4, <3>1, <3>3, <4>1, <4>2 DEF OrderInv, HeldIsLast
      <3>4. j \in 1..Len(pipe) \/ j = Len(pipe) + 1
        BY <1>0, <2>4
      <3> QED
        BY <1>0, <2>4, <3>2, <3>3, <3>4
    <2> QED
      BY <2>2, <2>3, <2>4, PipeStep
  <1>4. HeldIsLast' /\ ThroughIsPast'
    BY HeldStep
  <1> QED
    BY <1>1, <1>2, <1>3, <1>4 DEF OrderInv, FramesInOrder

(* Every client is sent the frames of a simulation in their order and none *)
(* twice, although the runner, its threads and the event loop each hand    *)
(* their frames over on their own.                                         *)
THEOREM SentInOrder == Spec => []FramesInOrder
  <1>1. Init => TypeOK /\ RunInv /\ ConnInv /\ HeardInv /\ OrderInv
    BY TypeInit, RunInit, ConnInit, HeardInit, OrderInit
  <1>2. TypeOK /\ RunInv /\ ConnInv /\ HeardInv /\ OrderInv /\ [Next]_vars
     => (TypeOK /\ RunInv /\ ConnInv /\ HeardInv /\ OrderInv)'
    BY TypeStep, RunStep, ConnStep, HeardStep, OrderStep
  <1>3. OrderInv => FramesInOrder
    BY DEF OrderInv
  <1> QED
    BY <1>1, <1>2, <1>3, PTL DEF Spec

-----------------------------------------------------------------------------
(* Counting in a sequence.                                                 *)

Places(s, S) == {i \in 1..Len(s) : s[i] \in S}

LEMMA CountType ==
  ASSUME NEW T, NEW s \in Seq(T), NEW S
  PROVE  /\ IsFiniteSet(Places(s, S))
         /\ Count(s, S) = Cardinality(Places(s, S)) /\ Count(s, S) \in Nat
  <1>1. IsFiniteSet(1..Len(s))
    BY FS_Interval
  <1>2. Places(s, S) \in SUBSET (1..Len(s))
    BY DEF Places
  <1>3. IsFiniteSet(Places(s, S))
    BY <1>1, <1>2, FS_Subset
  <1> QED
    BY <1>3, FS_CardinalityType DEF Count, Places

LEMMA CountNone ==
  ASSUME NEW s, NEW S, \A i \in 1..Len(s) : s[i] \notin S
  PROVE  Count(s, S) = 0
  <1>1. {i \in 1..Len(s) : s[i] \in S} = {}
    OBVIOUS
  <1> QED
    BY <1>1, FS_EmptySet DEF Count

LEMMA CountAppend ==
  ASSUME NEW T, NEW s \in Seq(T), NEW e \in T, NEW S
  PROVE  Count(Append(s, e), S) = Count(s, S) + (IF e \in S THEN 1 ELSE 0)
  <1> DEFINE n == Len(s) + 1
  <1>1. /\ Append(s, e) \in Seq(T) /\ Len(Append(s, e)) = n /\ n \in Nat
        /\ Append(s, e)[n] = e /\ n \notin 1..Len(s)
        /\ \A i \in 1..Len(s) : Append(s, e)[i] = s[i]
        /\ 1..n = 1..Len(s) \union {n}
    OBVIOUS
  <1>2. IsFiniteSet(Places(s, S)) /\ Count(s, S) = Cardinality(Places(s, S)) /\ Count(s, S) \in Nat
    BY CountType
  <1>3. Count(Append(s, e), S) = Cardinality(Places(Append(s, e), S))
    BY <1>1, CountType
  <1>4. CASE e \in S
    <2>1. Places(Append(s, e), S) = Places(s, S) \union {n}
      BY <1>1, <1>4 DEF Places
    <2>2. n \notin Places(s, S)
      BY <1>1 DEF Places
    <2>3. Cardinality(Places(s, S) \union {n}) = Cardinality(Places(s, S)) + 1
      BY <1>2, <2>2, FS_AddElement
    <2> QED
      BY <1>2, <1>3, <1>4, <2>1, <2>3
  <1>5. CASE e \notin S
    <2>1. Places(Append(s, e), S) = Places(s, S)
      BY <1>1, <1>5 DEF Places
    <2> QED
      BY <1>2, <1>3, <1>5, <2>1
  <1> QED
    BY <1>4, <1>5

LEMMA CountTail ==
  ASSUME NEW T, NEW s \in Seq(T), s # <<>>, NEW S
  PROVE  Count(s, S) = Count(Tail(s), S) + (IF Head(s) \in S THEN 1 ELSE 0)
  <1> DEFINE later == {i \in 2..Len(s) : s[i] \in S}
  <1>1. /\ Tail(s) \in Seq(T) /\ Len(Tail(s)) = Len(s) - 1 /\ Len(s) \in Nat /\ Len(s) >= 1
        /\ Head(s) = s[1] /\ \A i \in 1..Len(Tail(s)) : Tail(s)[i] = s[i + 1]
    OBVIOUS
  <1>2. /\ IsFiniteSet(Places(Tail(s), S)) /\ Count(Tail(s), S) = Cardinality(Places(Tail(s), S))
        /\ Count(Tail(s), S) \in Nat
    BY <1>1, CountType
  <1>3. Count(s, S) = Cardinality(Places(s, S))
    BY CountType
  <1>4. ExistsBijection(Places(Tail(s), S), later)
    <2> DEFINE next == [i \in Places(Tail(s), S) |-> i + 1]
    <2>1. \A i \in Places(Tail(s), S) : i \in Nat /\ i + 1 \in later
      BY <1>1 DEF Places
    <2>2. \A i, j \in Places(Tail(s), S) : next[i] = next[j] => i = j
      BY <2>1
    <2>3. \A j \in later : j - 1 \in Places(Tail(s), S) /\ (j - 1) + 1 = j
      BY <1>1 DEF Places
    <2>4. next \in [Places(Tail(s), S) -> later]
      BY <2>1
    <2>5. \A j \in later : \E i \in Places(Tail(s), S) : next[i] = j
      BY <2>3
    <2>6. next \in Bijection(Places(Tail(s), S), later)
      BY <2>2, <2>4, <2>5, Fun_IsBij
    <2> QED
      BY <2>6, Fun_ExistsBij
  <1>5. IsFiniteSet(later) /\ Cardinality(later) = Count(Tail(s), S)
    BY <1>2, <1>4, FS_Bijection
  <1>6. CASE Head(s) \in S
    <2>1. Places(s, S) = later \union {1} /\ 1 \notin later
      BY <1>1, <1>6 DEF Places
    <2> HIDE DEF later
    <2>2. Cardinality(later \union {1}) = Cardinality(later) + 1
      BY <1>5, <2>1, FS_AddElement
    <2> QED
      BY <1>2, <1>3, <1>5, <1>6, <2>1, <2>2
  <1>7. CASE Head(s) \notin S
    <2>1. Places(s, S) = later
      BY <1>1, <1>7 DEF Places
    <2> HIDE DEF later
    <2> QED
      BY <1>2, <1>3, <1>5, <1>7, <2>1
  <1> QED
    BY <1>6, <1>7

-----------------------------------------------------------------------------
(* The whole log.  As long as there is an audience it is the active client,*)
(* and what the threads have in hand is for it.                            *)

Holding == {t \in Senders \ {Loop} : ~EmptyHanded(t)}

LogInv ==
  /\ audience # None => audience = g_ws_conn_id
  /\ audience # None => \A t \in Holding : hand[t].id = audience
  /\ WholeLog

LEMMA HoldingType == IsFiniteSet(Holding) /\ Cardinality(Holding) \in Nat
  <1>1. IsFiniteSet(Workers \union {Runner})
    BY FS_AddElement
  <1>2. Holding \in SUBSET (Workers \union {Runner})
    BY DEF Holding, Senders
  <1>3. IsFiniteSet(Holding)
    BY <1>1, <1>2, FS_Subset
  <1> QED
    BY <1>3, FS_CardinalityType

LEMMA LogInit == Init => LogInv
  BY DEF Init, LogInv, WholeLog

LEMMA LogStep ==
  TypeOK /\ RunInv /\ ConnInv /\ HeardInv /\ OrderInv /\ LogInv /\ [Next]_vars => LogInv'
  <1> SUFFICES ASSUME TypeOK, RunInv, ConnInv, HeardInv, OrderInv, LogInv, [Next]_vars,
                      audience' # None
               PROVE  LogInv'
    BY DEF LogInv, WholeLog
  <1> DEFINE a == audience'
             Rec(log, sim) == Count(log, {f \in Frames : FromSimulation(f) /\ f.sim = sim})
             Pip(log, sim) ==
               Count(log, {m \in Messages :
                 m.frame \in {f \in Frames : FromSimulation(f) /\ f.sim = sim} /\ m.id = a})
  <1>0. /\ pipe \in Seq(Messages) /\ \A c \in Ids : received[c] \in Seq(Frames)
        /\ published \in Nat /\ lost \in Nat /\ simulation \in Nat
        /\ a \in Ids
        /\ hand \in [Senders -> [frame : Frames, id : Ids \union {None}]]
    <2>1. TypeOK'
      BY TypeStep
    <2>2. {audience'} \subseteq Ids \union {None}
      BY <2>1 DEF TypeOK
    <2> QED
      BY <2>2 DEF TypeOK
  (* What is to be shown, and what is known if there was an audience.      *)
  <1>a. ASSUME /\ a = g_ws_conn_id'
               /\ \A t \in Holding' : hand'[t].id = a
               /\ published' = Rec(received'[a], simulation') + Pip(pipe', simulation')
                                 + lost' + Cardinality(Holding')
        PROVE  LogInv'
    BY <1>a DEF LogInv, WholeLog, OfSimulation, ToAudience, Holding, FromSimulation
  <1>b. ASSUME audience' = audience
        PROVE  /\ a = g_ws_conn_id
               /\ \A t \in Holding : hand[t].id = a
               /\ published = Rec(received[a], simulation) + Pip(pipe, simulation)
                                + lost + Cardinality(Holding)
    BY <1>b DEF LogInv, WholeLog, OfSimulation, ToAudience, Holding
  <1>c. Rec(received[a], simulation) \in Nat /\ Pip(pipe, simulation) \in Nat
    BY <1>0, CountType
  <1> HIDE DEF a, Rec, Pip
  <1>1. CASE /\ UNCHANGED <<simulation, history, pipe, hand, g_ws_conn_id>>
             /\ received'[a] = received[a]
    BY <1>a, <1>b, <1>1 DEF Holding, EmptyHanded
  <1>2. CASE Accept \/ Quiet
    BY <1>1, <1>2 DEF Accept, Quiet
  <1>3. ASSUME NEW c \in Ids, Open(c)
        PROVE  LogInv'
    BY <1>1, <1>3 DEF Open, AudienceAfter, LogInv
  <1>4. ASSUME NEW c \in Ids, Close(c)
        PROVE  LogInv'
    <2>1. g_ws_conn_id' = g_ws_conn_id /\ audience' = audience
      BY <1>4 DEF Close, AudienceAfter
    <2>2. c # a
      BY <1>0, <1>4, <1>b, <2>1 DEF Close, ActiveAfterClose
    <2> QED
      BY <1>0, <1>1, <1>4, <2>1, <2>2 DEF Close, TypeOK
  <1>5. CASE Starting
    <2>1. /\ a = g_ws_conn_id' /\ simulation' = simulation + 1 /\ published' = 0 /\ lost' = 0
          /\ UNCHANGED <<received, pipe, hand>>
      BY <1>5 DEF Starting, a
    <2>2. Holding' = {} /\ Cardinality({}) = 0
      BY <1>5, FS_EmptySet DEF Starting, Holding, RunInv, HoldsFrame, EmptyHanded
    <2>3. \A f \in Frames : Through(f) => f.sim # simulation + 1
      BY <1>0 DEF OrderInv, ThroughIsPast, Past, Frames
    <2>4. Rec(received[a], simulation + 1) = 0
      BY <1>0, <2>3, CountNone DEF Rec, Through
    <2>5. Pip(pipe, simulation + 1) = 0
      BY <1>0, <2>3, CountNone DEF Pip, Through
    <2> QED
      BY <1>a, <2>1, <2>2, <2>4, <2>5
  <1>6. ASSUME NEW t \in Senders, Publishing(t)
        PROVE  LogInv'
    <2>1. /\ UNCHANGED <<simulation, pipe, received, g_ws_conn_id, audience, lost>>
          /\ published' = IF t = Loop THEN published ELSE published + 1
          /\ EmptyHanded(t)
      BY <1>6 DEF Publishing, Publish
    <2>2. hand'[t].id = a /\ \A u \in Senders \ {t} : hand'[u] = hand[u]
      BY <1>0, <1>6, <1>b, <2>1 DEF Publishing, Publish
    <2>3. CASE t = Loop
      <3>1. Holding' = Holding
        BY <2>2, <2>3 DEF Holding, EmptyHanded
      <3> QED
        BY <1>a, <1>b, <2>1, <2>2, <2>3, <3>1 DEF Holding
    <2>4. CASE t # Loop
      <3>1. Holding' = Holding \union {t} /\ t \notin Holding
        BY <1>0, <2>1, <2>2, <2>4 DEF Holding, EmptyHanded
      <3>2. Cardinality(Holding') = Cardinality(Holding) + 1 /\ Cardinality(Holding) \in Nat
        BY <3>1, HoldingType, FS_AddElement
      <3>3. published' = published + 1
        BY <2>1, <2>4
      <3>4. \A u \in Holding' : hand'[u].id = a
        BY <1>b, <2>1, <2>2, <3>1 DEF Holding
      <3>5. published' = Rec(received[a], simulation) + Pip(pipe, simulation) + lost
                          + Cardinality(Holding')
        BY <1>0, <1>b, <1>c, <2>1, <3>2, <3>3
      <3> QED
        BY <1>a, <1>b, <2>1, <3>4, <3>5
    <2> QED
      BY <2>3, <2>4
  <1>7. ASSUME NEW t \in Senders, Wakeup(t)
        PROVE  LogInv'
    <2>1. /\ UNCHANGED <<simulation, published, received, g_ws_conn_id, audience>>
          /\ ~EmptyHanded(t) /\ hand' = [hand EXCEPT ![t] = EmptyHand]
          /\ pipe' = pipe \/ pipe' = Append(pipe, hand[t])
          /\ lost' = IF t # Loop /\ pipe' = pipe THEN lost + 1 ELSE lost
      BY <1>7 DEF Wakeup, PipeTakes
    <2>2. hand[t] \in Messages
      BY <1>0, <2>1 DEF EmptyHanded, Messages
    <2>3. CASE t = Loop
      <3>1. Holding' = Holding /\ \A u \in Holding : hand'[u] = hand[u]
        BY <1>0, <2>1, <2>3 DEF Holding, EmptyHanded
      <3>2. ~FromSimulation(hand[t].frame)
        BY <2>1, <2>3 DEF HeardInv, HandAddressed
      <3>3. Pip(pipe', simulation) = Pip(pipe, simulation)
        <4> DEFINE Fs == {f \in Frames : FromSimulation(f) /\ f.sim = simulation}
                   Ms == {m \in Messages : m.frame \in Fs /\ m.id = a}
        <4>1. Pip(pipe, simulation) = Count(pipe, Ms) /\ Pip(pipe', simulation) = Count(pipe', Ms)
          BY DEF Pip
        <4>2. hand[t] \notin Ms
          BY <3>2
        <4> HIDE DEF Ms
        <4>3. Count(Append(pipe, hand[t]), Ms)
                = Count(pipe, Ms) + (IF hand[t] \in Ms THEN 1 ELSE 0)
          BY <1>0, <2>2, CountAppend
        <4>4. Count(pipe, Ms) \in Nat
          BY <1>0, CountType
        <4>5. Count(Append(pipe, hand[t]), Ms) = Count(pipe, Ms)
          BY <4>2, <4>3, <4>4
        <4>6. pipe' = pipe \/ pipe' = Append(pipe, hand[t])
          BY <2>1
        <4> QED
          BY <4>1, <4>5, <4>6
      <3> QED
        BY <1>a, <1>b, <2>1, <2>3, <3>1, <3>3
    <2>4. CASE t # Loop
      <3>1. /\ Holding' = Holding \ {t} /\ t \in Holding
            /\ \A u \in Holding' : hand'[u] = hand[u]
        BY <1>0, <2>1, <2>4 DEF Holding, EmptyHanded, EmptyHand
      <3>2. /\ Cardinality(Holding') = Cardinality(Holding) - 1
            /\ Cardinality(Holding) \in Nat /\ Cardinality(Holding') \in Int
        <4>1. IsFiniteSet(Holding) /\ Cardinality(Holding) \in Nat
          BY HoldingType
        <4>2. Cardinality(Holding \ {t}) = Cardinality(Holding) - 1
          BY <3>1, <4>1, FS_RemoveElement
        <4> QED
          BY <3>1, <4>1, <4>2
      <3>3. /\ FromSimulation(hand[t].frame) /\ hand[t].frame.sim = simulation
            /\ hand[t].frame \in Frames /\ hand[t].id = a
        <4>1. hand[t].id = a
          BY <1>b, <2>1, <3>1
        <4>2. FromSimulation(hand[t].frame) /\ hand[t].frame.sim = simulation
          BY <2>1, <2>4 DEF OrderInv, HeldIsLast, FromSimulation
        <4> QED
          BY <2>2, <4>1, <4>2 DEF Messages
      <3>4. CASE pipe' = pipe
        BY <1>0, <1>a, <1>b, <1>c, <2>1, <2>4, <3>1, <3>2, <3>4
      <3>5. CASE pipe' = Append(pipe, hand[t])
        <4>1. Pip(pipe', simulation) = Pip(pipe, simulation) + 1
          BY <1>0, <2>2, <3>3, <3>5, CountAppend DEF Pip
        <4>2. lost' = lost
          <5>1. Len(pipe') = Len(pipe) + 1 /\ Len(pipe) \in Nat
            BY <1>0, <3>5
          <5> QED
            BY <2>1, <5>1
        <4>3. Cardinality(Holding') = Cardinality(Holding) - 1 /\ Cardinality(Holding) \in Int
          BY <3>2
        <4>4. published' = Rec(received'[a], simulation') + Pip(pipe', simulation')
                             + lost' + Cardinality(Holding')
          BY <1>0, <1>b, <1>c, <2>1, <4>1, <4>2, <4>3
        <4> QED
          BY <1>a, <1>b, <2>1, <3>1, <4>4
      <3> QED
        BY <2>1, <3>4, <3>5
    <2> QED
      BY <2>3, <2>4
  <1>8. CASE Deliver
    <2>1. /\ UNCHANGED <<simulation, hand, g_ws_conn_id, history>>
          /\ pipe # <<>> /\ pipe' = Tail(pipe)
      BY <1>8 DEF Deliver
    <2>2. Head(pipe) \in Messages /\ Holding' = Holding /\ audience' = audience
      BY <2>1, HeadMessage DEF Holding, EmptyHanded
    <2>3. connection[a] = "websocket"
      BY <1>0, <1>b, <2>2 DEF ConnInv, NewestIsActive
    <2>4. received'[a] = IF Head(pipe).id = a THEN Append(received[a], Head(pipe).frame)
                         ELSE received[a]
      BY <1>0, <1>8, <2>2, <2>3 DEF Deliver, TypeOK, Messages
    <2>5. Rec(received'[a], simulation) + Pip(pipe', simulation)
            = Rec(received[a], simulation) + Pip(pipe, simulation)
      <3> DEFINE Fs == {f \in Frames : FromSimulation(f) /\ f.sim = simulation}
                 Ms == {m \in Messages : m.frame \in Fs /\ m.id = a}
      <3>1. Pip(pipe, simulation) = Count(pipe, Ms) /\ Pip(pipe', simulation) = Count(pipe', Ms)
        BY DEF Pip
      <3>2. /\ Count(pipe, Ms) = Count(pipe', Ms) + (IF Head(pipe) \in Ms THEN 1 ELSE 0)
            /\ Count(pipe', Ms) \in Nat
        <4> HIDE DEF Ms
        <4>1. Tail(pipe) \in Seq(Messages)
          BY <1>0, <2>1
        <4> QED
          BY <1>0, <2>1, <4>1, CountTail, CountType
      <3>3. Rec(received[a], simulation) = Count(received[a], Fs)
        BY DEF Rec
      <3>4. Rec(received'[a], simulation) = Count(received'[a], Fs)
        BY DEF Rec
      <3>5. Head(pipe) \in Ms <=> Head(pipe).frame \in Fs /\ Head(pipe).id = a
        BY <2>2
      <3>6. received[a] \in Seq(Frames) /\ Head(pipe).frame \in Frames
        BY <1>0, <2>2 DEF Messages
      <3> HIDE DEF Fs, Ms
      <3>7. CASE Head(pipe).id = a
        <4>1. Count(received'[a], Fs) = Count(received[a], Fs)
                                         + (IF Head(pipe).frame \in Fs THEN 1 ELSE 0)
          BY <2>4, <3>6, <3>7, CountAppend
        <4> QED
          BY <1>c, <3>1, <3>2, <3>3, <3>4, <3>5, <3>7, <4>1
      <3>8. CASE Head(pipe).id # a
        BY <1>c, <2>4, <3>1, <3>2, <3>5, <3>8
      <3> QED
        BY <3>7, <3>8
    <2> QED
      BY <1>a, <1>b, <2>1, <2>2, <2>5 DEF Holding
  <1> QED
    BY <1>2, <1>3, <1>4, <1>5, <1>6, <1>7, <1>8, Steps

(* Whoever is the active client from before the start of a simulation is   *)
(* sent all of its log: every frame that the simulation's threads publish  *)
(* is with the client, in the pipe or in a hand, and what is lost was      *)
(* thrown away by a full pipe and nothing else.                            *)
THEOREM NothingElseLost == Spec => []WholeLog
  <1>1. Init => TypeOK /\ RunInv /\ ConnInv /\ HeardInv /\ OrderInv /\ LogInv
    BY TypeInit, RunInit, ConnInit, HeardInit, OrderInit, LogInit
  <1>2. TypeOK /\ RunInv /\ ConnInv /\ HeardInv /\ OrderInv /\ LogInv /\ [Next]_vars
     => (TypeOK /\ RunInv /\ ConnInv /\ HeardInv /\ OrderInv /\ LogInv)'
    BY TypeStep, RunStep, ConnStep, HeardStep, OrderStep, LogStep
  <1>3. LogInv => WholeLog
    BY DEF LogInv
  <1> QED
    BY <1>1, <1>2, <1>3, PTL DEF Spec
=============================================================================
