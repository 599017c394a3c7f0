---------------------------- MODULE GatewayProofs ----------------------------
(* The gateway follows the locking protocol, so the turns of a session are   *)
(* atomic, for every set of requests and sessions and every configuration;   *)
(* and what it promises of duplicates, prevalidated messages and shutdown.   *)
EXTENDS Gateway, DataLemmas, SequenceTheorems, TLAPS

LP == INSTANCE ChatLocksProofs WITH Tasks <- Requests, phase <- LockPhase

TaskType == task \in [Requests -> Phases]

\* A step of one request moves the task of the protocol that it stands for.
LEMMA MoveMaps ==
  ASSUME TaskType, NEW r \in Requests, NEW from, NEW to, Move(r, from, to)
  PROVE  /\ LockPhase[r] = LockPhaseOf(from)
         /\ LockPhase' = [LockPhase EXCEPT ![r] = LockPhaseOf(to)]
BY DEF TaskType, Move, LockPhase

\* A step between two phases that the protocol does not tell apart is invisible.
LEMMA MoveStutters ==
  ASSUME TaskType, NEW r \in Requests, NEW from, NEW to, Move(r, from, to),
         LockPhaseOf(from) = LockPhaseOf(to)
  PROVE  LockPhase' = LockPhase
<1>1. LockPhase[r] = LockPhaseOf(from) /\ LockPhase' = [LockPhase EXCEPT ![r] = LockPhaseOf(to)]
  BY MoveMaps
<1> QED BY <1>1 DEF LockPhase

\* Looking the lock up is the protocol's Clone.
LEMMA CloneMaps == ASSUME TaskType, NEW r \in Requests, CloneArc(r) PROVE LP!Clone(r)
<1>1. Move(r, "admitted", "cloned") /\ Locks!CloneArc(r)
  BY DEF CloneArc
<1>2. LockPhase[r] = "start" /\ LockPhase' = [LockPhase EXCEPT ![r] = "cloned"]
  BY <1>1, MoveMaps DEF LockPhaseOf
<1> QED BY <1>1, <1>2 DEF LP!Clone, LP!Move, LP!CloneArc, Locks!CloneArc, Locks!LockFor, LP!LockFor

\* The first poll of lock() is the protocol's Join.
LEMMA JoinMaps == ASSUME TaskType, NEW r \in Requests, JoinQueue(r) PROVE LP!Join(r)
<1>1. Move(r, "cloned", "joined") /\ Locks!JoinQueue(r)
  BY DEF JoinQueue
<1>2. LockPhase[r] = "cloned" /\ LockPhase' = [LockPhase EXCEPT ![r] = "joined"]
  BY <1>1, MoveMaps DEF LockPhaseOf
<1> QED BY <1>1, <1>2 DEF LP!Join, LP!Move, LP!JoinQueue, Locks!JoinQueue

\* The guard is obtained by the protocol's Acquire.
LEMMA AcquireMaps == ASSUME TaskType, NEW r \in Requests, Acquire(r) PROVE LP!Acquire(r)
<1>1. Move(r, "joined", "locked") /\ Locks!IsHolder(r) /\ UNCHANGED locks
  BY DEF Acquire
<1>2. LockPhase[r] = "joined" /\ LockPhase' = [LockPhase EXCEPT ![r] = "held"]
  BY <1>1, MoveMaps DEF LockPhaseOf
<1> QED BY <1>1, <1>2 DEF LP!Acquire, LP!Move, LP!IsHolder, Locks!IsHolder, LP!lockVars, locks

\* The end of a task, the panic too, is the protocol's Release.
LEMMA FinishMaps ==
  ASSUME TaskType, NEW r \in Requests, Finish(r) \/ PanicInReply(r) PROVE LP!Release(r)
<1>1. /\ \E from \in {"replied", "saved"}, to \in {"finished", "panicked"} : Move(r, from, to)
      /\ Locks!Unlock(r)
  BY DEF Finish, PanicInReply
<1>2. LockPhase[r] = "held" /\ LockPhase' = [LockPhase EXCEPT ![r] = "finished"]
  BY <1>1, MoveMaps DEF LockPhaseOf
<1> QED BY <1>1, <1>2 DEF LP!Release, LP!Move, LP!Unlock, Locks!Unlock

\* A wake-up of the collector is the protocol's Collect.
LEMMA CollectMaps == ASSUME TaskType, Collect PROVE LP!Collect
<1>1. Locks!CollectLocks /\ UNCHANGED task
  BY DEF Collect
<1> QED BY <1>1 DEF LP!Collect, LP!CollectLocks, Locks!CollectLocks, LP!Referenced,
                    Locks!Referenced, LockPhase

LockStutter == UNCHANGED <<lockOf, arc, waiters, LockPhase>>

\* What a channel does to a request is invisible to the protocol.
LEMMA ChannelStutters == ASSUME TaskType, NEW r \in Requests, ChannelStep(r) PROVE LockStutter
<1> USE DEF locks, LockStutter
<1>1. CASE Prevalidate(r)
  <2>1. UNCHANGED locks /\ (Move(r, "idle", "prevalidated") \/ Move(r, "idle", "turned_away"))
    BY <1>1 DEF Prevalidate
  <2> QED BY <2>1, MoveStutters DEF LockPhaseOf
<1>2. CASE Enqueue(r)
  <2>1. UNCHANGED locks /\ \E from \in {"prevalidated", "idle"} : Move(r, from, "queued")
    BY <1>2 DEF Enqueue, MaySend, Move
  <2> QED BY <2>1, MoveStutters DEF LockPhaseOf
<1>3. CASE SendFails(r)
  <2>1. UNCHANGED locks /\ \E from \in {"prevalidated", "idle"} : Move(r, from, "unsent")
    BY <1>3 DEF SendFails, MaySend, Move
  <2> QED BY <2>1, MoveStutters DEF LockPhaseOf
<1>4. CASE Abandon(r)
  <2>1. UNCHANGED locks /\ Move(r, "prevalidated", "abandoned")
    BY <1>4 DEF Abandon
  <2> QED BY <2>1, MoveStutters DEF LockPhaseOf
<1>5. CASE StreamArrives(r)
  <2>1. UNCHANGED locks /\ \E to \in {"duplicate", "spawned"} : Move(r, "idle", to)
    BY <1>5 DEF StreamArrives, Accept, Move
  <2> QED BY <2>1, MoveStutters DEF LockPhaseOf
<1> QED BY <1>1, <1>2, <1>3, <1>4, <1>5 DEF ChannelStep

\* The queue holds requests that are queued, each once.
QueueInv ==
  /\ queue \in Seq(Requests)
  /\ \A i \in DOMAIN queue : task[queue[i]] = "queued"
  /\ \A i, j \in DOMAIN queue : queue[i] = queue[j] => i = j

\* run() itself is invisible to the protocol.
LEMMA RunStutters == ASSUME TaskType, QueueInv, RunStep PROVE LockStutter
<1> USE DEF locks, LockStutter
<1>1. CASE Receive
  <2>1. Head(queue) \in Requests /\ task[Head(queue)] = "queued"
    BY <1>1 DEF Receive, QueueInv
  <2>2. UNCHANGED locks /\ \E to \in {"duplicate", "spawned"} : Move(Head(queue), "queued", to)
    BY <1>1, <2>1 DEF Receive, Accept, Move
  <2> QED BY <2>1, <2>2, MoveStutters DEF LockPhaseOf
<1>2. CASE LeaveLoop
  BY <1>2 DEF LeaveLoop, LockPhase
<1>3. CASE Return
  <2>1. \A r \in Requests : LockPhaseOf(task'[r]) = LockPhaseOf(task[r])
    BY <1>3 DEF Return, LockPhaseOf
  <2> QED BY <1>3, <2>1 DEF Return, LockPhase
<1> QED BY <1>1, <1>2, <1>3 DEF RunStep

\* A step of a message task is a step of the protocol or invisible to it.
LEMMA TaskMaps ==
  ASSUME TaskType, NEW r \in Requests, TaskStep(r)
  PROVE  LP!TaskStep(r) \/ LockStutter
<1> USE DEF locks, LockStutter
<1>1. CASE Validate(r)
  <2>1. UNCHANGED locks /\ \E to \in {"admitted", "refused", "rejected"} : Move(r, "spawned", to)
    BY <1>1 DEF Validate
  <2> QED BY <2>1, MoveStutters DEF LockPhaseOf
<1>2. CASE SendRefusal(r)
  <2>1. UNCHANGED locks /\ Move(r, "refused", "rejected")
    BY <1>2 DEF SendRefusal
  <2> QED BY <2>1, MoveStutters DEF LockPhaseOf
<1>3. CASE LoadHistory(r)
  <2>1. UNCHANGED locks /\ Move(r, "locked", "loaded")
    BY <1>3 DEF LoadHistory
  <2> QED BY <2>1, MoveStutters DEF LockPhaseOf
<1>4. CASE SaveTurn(r) \/ LoseTurn(r)
  <2>1. UNCHANGED locks /\ Move(r, "loaded", "saved")
    BY <1>4 DEF SaveTurn, LoseTurn
  <2> QED BY <2>1, MoveStutters DEF LockPhaseOf
<1>5. CASE Reply(r)
  <2>1. UNCHANGED locks /\ Move(r, "saved", "replied")
    BY <1>5 DEF Reply
  <2> QED BY <2>1, MoveStutters DEF LockPhaseOf
<1> QED BY <1>1, <1>2, <1>3, <1>4, <1>5, CloneMaps, JoinMaps, AcquireMaps, FinishMaps
        DEF TaskStep, OwnStep, TurnEnds, LP!TaskStep

\* Every step of the gateway is a step of the protocol or invisible to it.
LEMMA StepMaps ==
  ASSUME TaskType, QueueInv, [Next]_vars
  PROVE  LP!Next \/ LockStutter
<1>1. CASE Collect
  BY <1>1, CollectMaps DEF LP!Next
<1>2. ASSUME NEW r \in Requests, TaskStep(r) PROVE LP!Next \/ LockStutter
  BY <1>2, TaskMaps DEF LP!Next
<1>3. ASSUME NEW s \in Sessions, Evict(s) PROVE LockStutter
  BY <1>3 DEF Evict, LockStutter, locks, LockPhase
<1>4. CASE Tick \/ CliExits \/ MonitorStops \/ Interrupt \/ CloseDb \/ CutOff
  BY <1>4 DEF Tick, CliExits, MonitorStops, Interrupt, CloseDb, CutOff, LockStutter, locks,
              LockPhase
<1>5. CASE UNCHANGED vars
  BY <1>5 DEF vars, locks, LockStutter, LockPhase
<1> QED BY <1>1, <1>2, <1>3, <1>4, <1>5, ChannelStutters, RunStutters DEF Next, Quiescent

-----------------------------------------------------------------------------
(* The phases of requests and the queue.                                     *)

Shape == TaskType /\ QueueInv

\* A request that is not in the queue moves on: the queue is not concerned.
LEMMA MoveKeepsShape ==
  ASSUME Shape, NEW r \in Requests, NEW from, NEW to \in Phases,
         Move(r, from, to), from # "queued", UNCHANGED queue
  PROVE  Shape'
BY DEF Shape, TaskType, QueueInv, Move

\* A channel puts a request at the end of the queue, where it was not before.
LEMMA ChannelKeepsShape ==
  ASSUME Shape, NEW r \in Requests, ChannelStep(r) PROVE Shape'
<1>1. CASE Enqueue(r)
  <2>1. /\ task[r] # "queued" /\ queue' = Append(queue, r)
        /\ task' = [task EXCEPT ![r] = "queued"]
    BY <1>1 DEF Enqueue, MaySend
  <2>2. \A i \in DOMAIN queue : queue[i] # r
    BY <2>1 DEF Shape, QueueInv
  <2>3. queue' \in Seq(Requests) /\ Len(queue') = Len(queue) + 1
    BY <2>1 DEF Shape, QueueInv
  <2>4. \A i \in DOMAIN queue' : IF i = Len(queue) + 1 THEN queue'[i] = r
                                ELSE i \in DOMAIN queue /\ queue'[i] = queue[i]
    BY <2>1, <2>3 DEF Shape, QueueInv
  <2>5. TaskType'
    BY <2>1 DEF Shape, TaskType, Phases
  <2> QED BY <2>1, <2>2, <2>3, <2>4, <2>5 DEF Shape, TaskType, QueueInv
<1>2. CASE Prevalidate(r) \/ SendFails(r) \/ Abandon(r) \/ StreamArrives(r)
  <2>1. UNCHANGED queue
    BY <1>2 DEF Prevalidate, SendFails, Abandon, StreamArrives
  <2>2. \E from \in {"idle", "prevalidated"}, to \in Phases : Move(r, from, to)
    BY <1>2 DEF Prevalidate, SendFails, Abandon, StreamArrives, MaySend, Accept, Move,
                Phases, Ended, InTask
  <2> QED BY <2>1, <2>2, MoveKeepsShape
<1> QED BY <1>1, <1>2 DEF ChannelStep

\* A message task is past the queue.
LEMMA TaskKeepsShape ==
  ASSUME Shape, NEW r \in Requests, TaskStep(r) PROVE Shape'
<1>1. UNCHANGED queue
  BY DEF TaskStep, OwnStep, TurnEnds, Validate, SendRefusal, CloneArc, JoinQueue, Acquire,
         LoadHistory, SaveTurn, LoseTurn, Reply, Finish, PanicInReply
<1>2. \E from \in InTask, to \in Phases : Move(r, from, to)
  BY DEF TaskStep, OwnStep, TurnEnds, Validate, SendRefusal, CloneArc, JoinQueue, Acquire,
         LoadHistory, SaveTurn, LoseTurn, Reply, Finish, PanicInReply, InTask, Phases, Ended
<1> QED BY <1>1, <1>2, MoveKeepsShape DEF InTask

\* run() takes the head off the queue, or drops the queue.
LEMMA RunKeepsShape == ASSUME Shape, RunStep PROVE Shape'
<1>1. CASE Receive
  <2> DEFINE h == Head(queue)
  <2>1. /\ h = queue[1] /\ h \in Requests /\ queue' = Tail(queue)
        /\ queue' \in Seq(Requests) /\ Len(queue') = Len(queue) - 1 /\ Len(queue) > 0
    BY <1>1 DEF Receive, Shape, QueueInv
  <2>2. \A i \in DOMAIN queue' : i+1 \in DOMAIN queue /\ queue'[i] = queue[i+1]
    BY <2>1 DEF Shape, QueueInv
  <2>3. \E to \in {"duplicate", "spawned"} : task' = [task EXCEPT ![h] = to]
    BY <1>1 DEF Receive, Accept
  <2>4. TaskType'
    BY <2>1, <2>3 DEF Shape, TaskType, Phases, Ended, InTask
  <2>5. \A i \in DOMAIN queue' : queue'[i] # h
    BY <2>1, <2>2 DEF Shape, QueueInv
  <2>6. \A i \in DOMAIN queue' : task'[queue'[i]] = "queued"
    BY <2>2, <2>3, <2>5 DEF Shape, QueueInv, TaskType
  <2>7. \A i, j \in DOMAIN queue' : queue'[i] = queue'[j] => i = j
    <3>1. DOMAIN queue' \subseteq Nat
      BY <2>1
    <3> QED BY <2>2, <3>1 DEF Shape, QueueInv
  <2> QED BY <2>1, <2>4, <2>6, <2>7 DEF Shape, QueueInv
<1>2. CASE LeaveLoop
  BY <1>2 DEF LeaveLoop, Shape, TaskType, QueueInv
<1>3. CASE Return
  BY <1>3 DEF Return, Shape, TaskType, QueueInv, Phases, Ended
<1> QED BY <1>1, <1>2, <1>3 DEF RunStep

\* Shape is an invariant of the gateway.
LEMMA ShapeInvariant == Spec => []Shape
<1>1. Init => Shape
  BY DEF Init, Shape, TaskType, QueueInv, Phases
<1>2. Shape /\ [Next]_vars => Shape'
  <2> SUFFICES ASSUME Shape, [Next]_vars PROVE Shape'
    OBVIOUS
  <2>1. CASE UNCHANGED <<task, queue>>
    BY <2>1 DEF Shape, TaskType, QueueInv
  <2>2. CASE Collect \/ Tick \/ CliExits \/ MonitorStops \/ Interrupt \/ CloseDb \/ CutOff
    BY <2>1, <2>2 DEF Collect, Tick, CliExits, MonitorStops, Interrupt, CloseDb, CutOff
  <2>3. ASSUME NEW s \in Sessions, Evict(s) PROVE Shape'
    BY <2>1, <2>3 DEF Evict
  <2>4. CASE UNCHANGED vars
    BY <2>1, <2>4 DEF vars
  <2> QED BY <2>2, <2>3, <2>4, ChannelKeepsShape, TaskKeepsShape, RunKeepsShape
          DEF Next, Quiescent
<1> QED BY <1>1, <1>2, PTL DEF Spec

-----------------------------------------------------------------------------
(* The locking protocol and the atomicity of turns.                          *)

\* The protocol that the gateway instantiates is the one the lemmas are about.
LEMMA SameProtocol == LP!Next <=> Locks!Next
BY DEF LP!Next, LP!TaskStep, LP!Clone, LP!Join, LP!Acquire, LP!Release, LP!Collect,
       LP!AllFinished, LP!Move, LP!CloneArc, LP!LockFor, LP!JoinQueue, LP!IsHolder,
       LP!Unlock, LP!CollectLocks, LP!Referenced, LP!vars, LP!lockVars,
       Locks!Next, Locks!TaskStep, Locks!Clone, Locks!Join, Locks!Acquire, Locks!Release,
       Locks!Collect, Locks!AllFinished, Locks!Move, Locks!CloneArc, Locks!LockFor,
       Locks!JoinQueue, Locks!IsHolder, Locks!Unlock, Locks!CollectLocks,
       Locks!Referenced, Locks!vars, Locks!lockVars

(* The gateway implements the locking protocol of ChatLocks: whatever else   *)
(* happens, what it does to the locks are steps of that protocol.            *)
THEOREM GatewayFollowsLocks == Spec => FollowsLocks
<1>1. Init => Locks!Init
  BY DEF Init, Locks!LocksInit, Locks!Init, LockPhase, LockPhaseOf
<1>2. Shape /\ [Next]_vars => [Locks!Next]_(Locks!vars)
  BY StepMaps, SameProtocol DEF Shape, LockStutter, Locks!vars
<1> QED BY <1>1, <1>2, ShapeInvariant, PTL DEF Spec, FollowsLocks, Locks!Spec

\* Past the lock of the protocol and past the lock of the gateway is the same.
LEMMA ExclusionMaps == LP!SessionExclusive => SessionExclusive
BY DEF LP!SessionExclusive, SessionExclusive, LockPhase, LockPhaseOf, Held

(* Two tasks are never both past the lock of one session (lines 383, 503).   *)
THEOREM GatewayExclusion == Spec => []SessionExclusive
<1>1. Init => LP!Init
  BY DEF Init, Locks!LocksInit, LP!Init, LP!LocksInit, LockPhase, LockPhaseOf
<1>2. Shape /\ [Next]_vars => [LP!Next]_(LP!vars)
  BY StepMaps DEF Shape, LockStutter, LP!vars
<1>3. LP!Spec => []LP!SessionExclusive
  BY LP!MutualExclusion, GatewayAssumption
<1> QED BY <1>1, <1>2, <1>3, ShapeInvariant, ExclusionMaps, PTL DEF Spec, LP!Spec

\* What a task loaded is what the session's history still is when it is used.
HistoryFresh ==
  \A r \in Requests :
    task[r] = "loaded" =>
      \/ hist[r] = Conv!Seen(store[SessionOf[r]])
      \/ hist[r] = Unread /\ (DbFaults \/ Closed)

\* A closed database stays closed.
LEMMA StaysClosed == ASSUME [Next]_vars, Closed PROVE Closed'
BY DEF Next, ChannelStep, TaskStep, OwnStep, TurnEnds, RunStep, Prevalidate, Enqueue, SendFails,
       Abandon, StreamArrives, Validate, SendRefusal, CloneArc, JoinQueue, Acquire, LoadHistory,
       SaveTurn, LoseTurn, Reply, Finish, PanicInReply, Receive, LeaveLoop, Return, Collect, Evict,
       Tick, CliExits, MonitorStops, Interrupt, CloseDb, CutOff, Quiescent, Closed, control, vars

\* Only a save changes the history of a session.
LEMMA OnlySaveStores ==
  ASSUME [Next]_vars, ~ \E r \in Requests : SaveTurn(r)
  PROVE  UNCHANGED store
BY DEF Next, ChannelStep, TaskStep, OwnStep, TurnEnds, RunStep, Prevalidate, Enqueue, SendFails,
       Abandon, StreamArrives, Validate, SendRefusal, CloneArc, JoinQueue, Acquire, LoadHistory,
       LoseTurn, Reply, Finish, PanicInReply, Receive, LeaveLoop, Return, Collect, Evict, Tick,
       CliExits, MonitorStops, Interrupt, CloseDb, CutOff, Quiescent, turns, vars

HistShape == DOMAIN hist = Requests

\* Every request has its place for a history.
LEMMA HistKeepsShape == ASSUME HistShape, [Next]_vars PROVE HistShape'
BY DEF HistShape, Next, ChannelStep, TaskStep, OwnStep, TurnEnds, RunStep, Prevalidate, Enqueue,
       SendFails, Abandon, StreamArrives, Validate, SendRefusal, CloneArc, JoinQueue, Acquire,
       LoadHistory, SaveTurn, LoseTurn, Reply, Finish, PanicInReply, Receive, LeaveLoop, Return,
       Collect, Evict, Tick, CliExits, MonitorStops, Interrupt, CloseDb, CutOff, Quiescent, turns,
       vars

\* Only loading brings a request to "loaded" or changes what it loaded.
LEMMA OnlyLoadLoads ==
  ASSUME Shape, HistShape, [Next]_vars, NEW r \in Requests, task'[r] = "loaded"
  PROVE  LoadHistory(r) \/ (task[r] = "loaded" /\ hist'[r] = hist[r])
<1>1. ASSUME NEW q \in Requests, ChannelStep(q)
      PROVE  task[r] = "loaded" /\ hist'[r] = hist[r]
  BY <1>1 DEF ChannelStep, Prevalidate, Enqueue, SendFails, Abandon, StreamArrives, Accept,
              Move, turns, Shape, TaskType
<1>2. ASSUME NEW q \in Requests, TaskStep(q), ~LoadHistory(r)
      PROVE  task[r] = "loaded" /\ hist'[r] = hist[r]
  <2>1. CASE SaveTurn(q) \/ LoseTurn(q)
    <3>1. Move(q, "loaded", "saved") /\ \E h : hist' = [hist EXCEPT ![q] = h]
      BY <2>1 DEF SaveTurn, LoseTurn
    <3>2. q # r /\ task[r] = "loaded"
      BY <3>1 DEF Move, Shape, TaskType
    <3> QED BY <3>1, <3>2 DEF HistShape
  <2>2. CASE LoadHistory(q)
    <3>1. q # r
      BY <1>2, <2>2
    <3>2. Move(q, "locked", "loaded") /\ \E h : hist' = [hist EXCEPT ![q] = h]
      BY <2>2 DEF LoadHistory
    <3>3. task[r] = "loaded"
      BY <3>1, <3>2 DEF Move, Shape, TaskType
    <3> QED BY <3>1, <3>2, <3>3 DEF HistShape
  <2>3. CASE \/ Validate(q) \/ SendRefusal(q) \/ CloneArc(q) \/ JoinQueue(q) \/ Acquire(q)
             \/ Reply(q) \/ PanicInReply(q) \/ Finish(q)
    BY <2>3 DEF Validate, SendRefusal, CloneArc, JoinQueue, Acquire, Reply, Finish, PanicInReply,
                Move, turns, Shape, TaskType
  <2> QED BY <1>2, <2>1, <2>2, <2>3 DEF TaskStep, OwnStep, TurnEnds
<1>3. CASE RunStep
  BY <1>3 DEF RunStep, Receive, LeaveLoop, Return, Accept, turns, Shape, TaskType, QueueInv
<1>4. CASE UNCHANGED <<task, hist>>
  BY <1>4
<1>5. CASE Collect \/ Tick \/ CliExits \/ MonitorStops \/ Interrupt \/ CloseDb \/ CutOff
  BY <1>4, <1>5 DEF Collect, Tick, CliExits, MonitorStops, Interrupt, CloseDb, CutOff, turns
<1>6. ASSUME NEW s \in Sessions, Evict(s) PROVE UNCHANGED <<task, hist>>
  BY <1>6 DEF Evict, turns
<1>7. CASE UNCHANGED vars
  BY <1>4, <1>7 DEF vars, turns
<1> QED BY <1>1, <1>2, <1>3, <1>4, <1>5, <1>6, <1>7 DEF Next, Quiescent

\* A history once loaded stays fresh: whoever saves a turn of the session is past
\* the lock, so no other request of the session is.
LEMMA FreshStep ==
  ASSUME Shape, HistShape, SessionExclusive, HistoryFresh, [Next]_vars
  PROVE  HistoryFresh'
<1> SUFFICES ASSUME NEW r \in Requests, task'[r] = "loaded"
             PROVE  \/ hist'[r] = Conv!Seen(store'[SessionOf[r]])
                    \/ hist'[r] = Unread /\ (DbFaults \/ Closed')
  BY DEF HistoryFresh, Conv!Seen
<1>1. CASE LoadHistory(r)
  <2>1. UNCHANGED <<store, main>>
    BY <1>1 DEF LoadHistory, control
  <2>2. CASE hist' = [hist EXCEPT ![r] = Conv!Seen(store[SessionOf[r]])]
    <3>1. hist'[r] = Conv!Seen(store[SessionOf[r]])
      BY <2>2 DEF HistShape
    <3> QED BY <2>1, <3>1 DEF Conv!Seen
  <2>3. CASE (Closed \/ DbFaults) /\ hist' = [hist EXCEPT ![r] = Unread]
    BY <2>1, <2>3 DEF HistShape, Closed
  <2> QED BY <1>1, <2>2, <2>3 DEF LoadHistory
<1>2. CASE task[r] = "loaded" /\ hist'[r] = hist[r]
  <2>1. CASE UNCHANGED store
    BY <1>2, <2>1, StaysClosed DEF HistoryFresh
  <2>2. ASSUME NEW q \in Requests, SaveTurn(q) PROVE store'[SessionOf[r]] = store[SessionOf[r]]
    <3>1. task[q] = "loaded" /\ q # r
      BY <1>2, <2>2 DEF SaveTurn, Move, Shape, TaskType
    <3>2. SessionOf[q] # SessionOf[r]
      BY <1>2, <3>1 DEF SessionExclusive, Held
    <3> QED BY <2>2, <3>2 DEF SaveTurn, Conv!TakeTurn
  <2> QED BY <1>2, <2>1, <2>2, OnlySaveStores, StaysClosed DEF HistoryFresh
<1> QED BY <1>1, <1>2, OnlyLoadLoads

\* Saving a turn with a fresh history is the next turn of the conversation.
LEMMA SaveMaps ==
  ASSUME HistoryFresh, NEW r \in Requests, SaveTurn(r)
  PROVE  Conv!Next
<1>1. task[r] = "loaded" /\ ~Closed /\ Conv!TakeTurn(r, hist[r])
  BY DEF SaveTurn, Move
<1>2. hist[r] = Conv!Seen(store[SessionOf[r]]) \/ (hist[r] = Unread /\ DbFaults)
  BY <1>1 DEF HistoryFresh
<1> QED BY <1>1, <1>2 DEF Conv!Next

(* The turns of a session are atomic, for any number of queued and streaming *)
(* requests, collections, database errors and shutdowns: each turn saved was *)
(* computed from the turns saved before it (lines 383-424, 502-533).         *)
THEOREM AtomicTurns == Spec => TurnsAreAtomic
<1>1. Init => Conv!Init /\ HistShape /\ HistoryFresh
  BY DEF Init, Conv!Init, HistShape, HistoryFresh
<1>2. HistShape /\ [Next]_vars => HistShape'
  BY HistKeepsShape
<1>3. Shape /\ HistShape /\ SessionExclusive /\ HistoryFresh /\ [Next]_vars => HistoryFresh'
  BY FreshStep
<1>4. HistoryFresh /\ [Next]_vars => [Conv!Next]_store
  BY SaveMaps, OnlySaveStores
<1> QED BY <1>1, <1>2, <1>3, <1>4, ShapeInvariant, GatewayExclusion, PTL
        DEF Spec, TurnsAreAtomic, Conv!Spec

-----------------------------------------------------------------------------
(* The types of the variables, group by group.                               *)

LimiterTypes ==
  /\ clock \in 0..MaxClock
  /\ stamps \in [Sessions -> Seq(0..MaxClock)] /\ victims \in SUBSET Sessions
  /\ charges \in [Requests -> Seq(0..MaxClock)]

\* The limiter counts as the gateway does.
LEMMA SameCardinality == ASSUME NEW S PROVE RL!Cardinality(S) = Cardinality(S)
BY DEF RL!Cardinality, Cardinality

\* What acquiring a slot keeps of an entry.
LEMMA LiveType ==
  ASSUME LimiterTypes, NEW s \in Sessions
  PROVE  RL!Live(s) \in Seq(0..MaxClock)
<1> DEFINE old == {i \in DOMAIN stamps[s] : clock - stamps[s][i] >= Window}
<1>1. stamps[s] \in Seq(0..MaxClock) /\ old \subseteq DOMAIN stamps[s]
  BY DEF LimiterTypes
<1>2. SubSeq(stamps[s], Cardinality(old) + 1, Len(stamps[s])) \in Seq(0..MaxClock)
  BY <1>1, SuffixAfter
<1>3. RL!Cardinality(old) = Cardinality(old)
  BY SameCardinality
<1>4. RL!Live(s) = SubSeq(stamps[s], RL!Cardinality(old) + 1, Len(stamps[s]))
  BY DEF RL!Live, RL!DropFirst
<1> QED BY <1>2, <1>3, <1>4

\* The two outcomes of acquiring a slot.
LEMMA SlotTypes ==
  ASSUME LimiterTypes, NEW r \in Requests, TakeSlot(r) \/ NoSlot(r), UNCHANGED clock
  PROVE  LimiterTypes'
<1>1. SessionOf[r] \in Sessions
  BY GatewayAssumption
<1>2. RL!Live(SessionOf[r]) \in Seq(0..MaxClock)
  BY <1>1, LiveType
<1>3. Append(RL!Live(SessionOf[r]), clock) \in Seq(0..MaxClock)
  BY <1>2 DEF LimiterTypes
<1>4. Append(charges[r], clock) \in Seq(0..MaxClock)
  BY DEF LimiterTypes
<1> QED BY <1>1, <1>2, <1>3, <1>4
        DEF TakeSlot, NoSlot, RL!Grant, RL!Refuse, LimiterTypes

\* What a step may do to the clock, the limiter and the charges.
LEMMA LimiterChanges ==
  ASSUME [Next]_vars
  PROVE  \/ UNCHANGED <<clock, limiter>>
         \/ \E r \in Requests : (TakeSlot(r) \/ NoSlot(r)) /\ UNCHANGED clock
         \/ RL!ChooseVictims /\ UNCHANGED <<clock, charges>>
         \/ \E s \in Sessions : RL!Evict(s) /\ UNCHANGED <<clock, charges>>
         \/ RL!Tick /\ UNCHANGED limiter
BY DEF Next, ChannelStep, TaskStep, OwnStep, TurnEnds, RunStep, Prevalidate, Enqueue, SendFails,
       Abandon, StreamArrives, Validate, Passes, Fails, SendRefusal, CloneArc, JoinQueue, Acquire,
       LoadHistory, SaveTurn, LoseTurn, Reply, Finish, PanicInReply, Receive, LeaveLoop, Return,
       Collect, Evict, Tick, CliExits, MonitorStops, Interrupt, CloseDb, CutOff, Quiescent, vars

\* Every step keeps the types of the limiter and of the slots paid.
LEMMA LimiterKeepsTypes == ASSUME LimiterTypes, [Next]_vars PROVE LimiterTypes'
<1>1. CASE UNCHANGED <<clock, limiter>>
  BY <1>1 DEF limiter, LimiterTypes
<1>2. CASE RL!ChooseVictims /\ UNCHANGED <<clock, charges>>
  BY <1>2 DEF RL!ChooseVictims, RL!EvictionChoices, RL!Present, LimiterTypes
<1>3. ASSUME NEW s \in Sessions, RL!Evict(s), UNCHANGED <<clock, charges>>
      PROVE  LimiterTypes'
  BY <1>3 DEF RL!Evict, LimiterTypes
<1>4. CASE RL!Tick /\ UNCHANGED limiter
  BY <1>4, GatewayAssumption DEF RL!Tick, limiter, LimiterTypes
<1> QED BY <1>1, <1>2, <1>3, <1>4, LimiterChanges, SlotTypes

\* What a step may do to the conversation.
LEMMA TurnChanges ==
  ASSUME [Next]_vars
  PROVE  \/ UNCHANGED <<hist, result, store>>
         \/ \E r \in Requests : LoadHistory(r) \/ SaveTurn(r) \/ LoseTurn(r)
BY DEF Next, ChannelStep, TaskStep, OwnStep, TurnEnds, RunStep, Prevalidate, Enqueue, SendFails,
       Abandon, StreamArrives, Validate, SendRefusal, CloneArc, JoinQueue, Acquire, Reply, Finish,
       PanicInReply, Receive, LeaveLoop, Return, Collect, Evict, Tick, CliExits, MonitorStops,
       Interrupt, CloseDb, CutOff, Quiescent, turns, vars

TurnTypes ==
  /\ hist \in [Requests -> Seq(Requests) \cup {Unread}]
  /\ result \in [Requests -> {"none", "turn", "llm_error", "db_error", "closed"}]
  /\ store \in [Sessions -> Seq([req : Requests, saw : Seq(Requests) \cup {Unread}])]

\* The requests of the latest turns.
LEMMA SeenType ==
  ASSUME NEW log \in Seq([req : Requests, saw : Seq(Requests) \cup {Unread}])
  PROVE  Conv!Seen(log) \in Seq(Requests)
<1> DEFINE skip == IF Len(log) > HistoryLimit THEN Len(log) - HistoryLimit ELSE 0
<1>1. skip \in 0 .. Len(log)
  BY GatewayAssumption
<1> HIDE DEF skip
<1>2. ASSUME NEW i \in 1 .. Len(log) - skip PROVE log[i + skip].req \in Requests
  <2>1. i + skip \in 1 .. Len(log)
    BY <1>1
  <2>2. log[i + skip] \in [req : Requests, saw : Seq(Requests) \cup {Unread}]
    BY <2>1, ElementOfSeq
  <2> QED BY <2>2
<1>3. [i \in 1 .. Len(log) - skip |-> log[i + skip].req] \in Seq(Requests)
  BY <1>1, <1>2
<1> QED BY <1>3 DEF Conv!Seen, skip

\* Every step keeps the types of the store and of what the tasks loaded.
LEMMA TurnsKeepTypes == ASSUME TurnTypes, [Next]_vars PROVE TurnTypes'
<1>1. CASE UNCHANGED <<hist, result, store>>
  BY <1>1 DEF TurnTypes
<1>2. ASSUME NEW r \in Requests, LoadHistory(r) PROVE TurnTypes'
  <2>1. Conv!Seen(store[SessionOf[r]]) \in Seq(Requests)
    BY SeenType, GatewayAssumption DEF TurnTypes
  <2> QED BY <1>2, <2>1 DEF LoadHistory, TurnTypes
<1>3. ASSUME NEW r \in Requests, SaveTurn(r) PROVE TurnTypes'
  <2> DEFINE turn == [req |-> r, saw |-> hist[r]]
             s == SessionOf[r]
  <2>1. /\ s \in Sessions /\ turn \in [req : Requests, saw : Seq(Requests) \cup {Unread}]
    BY GatewayAssumption DEF TurnTypes
  <2>2. Append(store[s], turn) \in Seq([req : Requests, saw : Seq(Requests) \cup {Unread}])
    <3>1. store[s] \in Seq([req : Requests, saw : Seq(Requests) \cup {Unread}])
      BY <2>1 DEF TurnTypes
    <3> HIDE DEF turn
    <3> QED BY <2>1, <3>1, AppendProperties
  <2>3. store' = [store EXCEPT ![s] = Append(store[s], turn)]
    BY <1>3 DEF SaveTurn, Conv!TakeTurn
  <2> HIDE DEF s, turn
  <2>4. <<>> \in Seq(Requests)
    OBVIOUS
  <2> QED BY <1>3, <2>1, <2>2, <2>3, <2>4 DEF SaveTurn, TurnTypes
<1>4. ASSUME NEW r \in Requests, LoseTurn(r) PROVE TurnTypes'
  <2>1. <<>> \in Seq(Requests)
    OBVIOUS
  <2> QED BY <1>4, <2>1 DEF LoseTurn, TurnTypes
<1> QED BY <1>1, <1>2, <1>3, <1>4, TurnChanges

ControlTypes ==
  /\ loop \in {"receiving", "draining", "returned"}
  /\ mode \in {"serve", "chat"}
  /\ open \subseteq {"cli", "feishu", "http"}
  /\ monitor \in BOOLEAN /\ shutdown \in BOOLEAN
  /\ main \in {"running", "stopping", "closed", "cut"}

\* What a step may do to the start and the end of the program.
LEMMA ControlChanges ==
  ASSUME [Next]_vars
  PROVE  \/ UNCHANGED control
         \/ LeaveLoop \/ Return \/ CliExits \/ MonitorStops \/ Interrupt \/ CloseDb \/ CutOff
BY DEF Next, ChannelStep, TaskStep, OwnStep, TurnEnds, RunStep, Prevalidate, Enqueue, SendFails,
       Abandon, StreamArrives, Validate, SendRefusal, CloneArc, JoinQueue, Acquire, LoadHistory,
       SaveTurn, LoseTurn, Reply, Finish, PanicInReply, Receive, Collect, Evict, Tick, Quiescent,
       vars

\* Every step keeps the types of the run loop, the monitor and main.
LEMMA ControlKeepsTypes == ASSUME ControlTypes, [Next]_vars PROVE ControlTypes'
BY ControlChanges
   DEF ControlTypes, control, LeaveLoop, Return, CliExits, MonitorStops, Interrupt, CloseDb,
       CutOff

-----------------------------------------------------------------------------
(* Deduplication and prevalidation.                                          *)

\* The cache of message ids: bounded, each id once.
CacheInv == recent \in Seq(Ids) /\ Len(recent) <= DedupCapacity /\ Distinct(recent)

\* What a step may do to the cache.
LEMMA CacheChanges ==
  ASSUME Shape, [Next]_vars
  PROVE  \/ UNCHANGED recent /\ (\A r \in Requests : task'[r] = "spawned" => task[r] = "spawned")
         \/ \E r \in Requests : Accept(r)
<1>1. CASE Receive
  BY <1>1 DEF Receive, Shape, QueueInv
<1>2. ASSUME NEW r \in Requests, StreamArrives(r) PROVE Accept(r)
  BY <1>2 DEF StreamArrives
<1>3. ASSUME NEW r \in Requests, ChannelStep(r), ~StreamArrives(r)
      PROVE  UNCHANGED recent /\ (\A q \in Requests : task'[q] = "spawned" => task[q] = "spawned")
  BY <1>3 DEF ChannelStep, Prevalidate, Enqueue, SendFails, Abandon, Move, Shape, TaskType
<1>4. ASSUME NEW r \in Requests, TaskStep(r)
      PROVE  UNCHANGED recent /\ (\A q \in Requests : task'[q] = "spawned" => task[q] = "spawned")
  BY <1>4 DEF TaskStep, OwnStep, TurnEnds, Validate, SendRefusal, CloneArc, JoinQueue, Acquire,
              LoadHistory, SaveTurn, LoseTurn, Reply, Finish, PanicInReply, Move, Shape, TaskType
<1>5. CASE Return
  BY <1>5 DEF Return, Shape, TaskType
<1>6. CASE \/ UNCHANGED vars \/ LeaveLoop \/ Collect \/ (\E s \in Sessions : Evict(s)) \/ Tick
           \/ CliExits \/ MonitorStops \/ Interrupt \/ CloseDb \/ CutOff
  BY <1>6 DEF vars, LeaveLoop, Collect, Evict, Tick, CliExits, MonitorStops, Interrupt,
              CloseDb, CutOff
<1> QED BY <1>1, <1>2, <1>3, <1>4, <1>5, <1>6 DEF Next, RunStep, Quiescent

\* A known id moves to the end of the cache.
LEMMA RefreshKeeps ==
  ASSUME CacheInv, NEW id \in Ids, Dedup!IsDuplicate(id), Dedup!Offer(id)
  PROVE  CacheInv' /\ Range(recent') = Range(recent)
<1> DEFINE i == CHOOSE j \in DOMAIN recent : recent[j] = id
<1>1. i \in DOMAIN recent /\ recent[i] = id
  BY DEF Dedup!IsDuplicate, Dedup!Elements
<1>2. recent' = ToEnd(recent, i)
  BY <1>1 DEF Dedup!Offer, Dedup!Refresh, Dedup!Without, Dedup!Place, ToEnd
<1> HIDE DEF i
<1> QED BY <1>1, <1>2, ToEndIs, ToEndKeeps DEF CacheInv

\* A new id is put at the end, the least recent one of a full cache goes.
LEMMA RememberKeeps ==
  ASSUME CacheInv, NEW id \in Ids, ~Dedup!IsDuplicate(id), Dedup!Offer(id)
  PROVE  /\ CacheInv' /\ id \in Range(recent')
         /\ Len(recent) < DedupCapacity => Range(recent') = Range(recent) \cup {id}
<1>1. recent' = Append(IF Len(recent) = DedupCapacity THEN Tail(recent) ELSE recent, id)
  BY DEF Dedup!Offer, Dedup!Remember
<1>2. recent \in Seq(Ids) /\ Len(recent) <= DedupCapacity /\ DedupCapacity \in Nat \ {0}
  BY GatewayAssumption DEF CacheInv
<1>3. \A j \in DOMAIN recent : recent[j] # id
  BY DEF Dedup!IsDuplicate, Dedup!Elements
<1>4. CASE Len(recent) = DedupCapacity
  <2>1. /\ recent' \in Seq(Ids) /\ Len(recent') = Len(recent)
        /\ \A j \in 1 .. Len(recent) - 1 : recent'[j] = recent[j + 1]
        /\ recent'[Len(recent)] = id
    BY <1>1, <1>2, <1>4
  <2>2. \A j \in 1 .. Len(recent) - 1 : j + 1 \in DOMAIN recent
    BY <1>2
  <2>3. DOMAIN recent' = 1 .. Len(recent) /\ DOMAIN recent = 1 .. Len(recent)
    BY <1>2, <2>1
  <2>4. ASSUME NEW j \in DOMAIN recent', NEW k \in DOMAIN recent', recent'[j] = recent'[k]
        PROVE  j = k
    <3>1. CASE j < Len(recent) /\ k < Len(recent)
      <4>1. recent[j + 1] = recent[k + 1] /\ j + 1 \in DOMAIN recent /\ k + 1 \in DOMAIN recent
        BY <1>2, <2>1, <2>2, <2>3, <2>4, <3>1
      <4>2. j + 1 = k + 1
        BY <4>1 DEF CacheInv, Distinct
      <4> QED BY <2>3, <4>2
    <3>2. CASE j < Len(recent) /\ k = Len(recent)
      BY <1>2, <1>3, <2>1, <2>2, <2>3, <2>4, <3>2
    <3>3. CASE k < Len(recent) /\ j = Len(recent)
      BY <1>2, <1>3, <2>1, <2>2, <2>3, <2>4, <3>3
    <3> QED BY <1>2, <2>3, <3>1, <3>2, <3>3
  <2>5. id \in Range(recent')
    BY <1>2, <1>4, <2>1, <2>3 DEF Range
  <2> QED BY <1>2, <1>4, <2>1, <2>4, <2>5 DEF CacheInv, Distinct
<1>5. CASE Len(recent) # DedupCapacity
  <2>1. /\ recent' \in Seq(Ids) /\ Len(recent') = Len(recent) + 1
        /\ \A j \in DOMAIN recent : recent'[j] = recent[j]
        /\ recent'[Len(recent) + 1] = id
    BY <1>1, <1>2, <1>5
  <2>2. DOMAIN recent' = DOMAIN recent \cup {Len(recent) + 1}
    BY <1>2, <2>1
  <2>3. Range(recent') = Range(recent) \cup {id}
    BY <2>1, <2>2 DEF Range
  <2>4. Distinct(recent')
    BY <1>3, <2>1, <2>2 DEF CacheInv, Distinct
  <2> QED BY <1>2, <1>5, <2>1, <2>3, <2>4 DEF CacheInv
<1> QED BY <1>4, <1>5

\* The ids let through are remembered, and each was let through once, while the
\* cache has room for every id.
OnceInv ==
  IsFiniteSet(Ids) /\ Cardinality(Ids) <= DedupCapacity =>
    \A r \in Requests :
      task[r] \in Accepted =>
        /\ IdOf[r] \in Range(recent)
        /\ \A q \in Requests : task[q] \in Accepted /\ IdOf[q] = IdOf[r] => q = r

\* What a step may do to the set of the requests let through.
LEMMA AcceptedChanges ==
  ASSUME Shape, [Next]_vars, NEW r \in Requests, task'[r] \in Accepted, task[r] \notin Accepted
  PROVE  task'[r] = "spawned" /\ task[r] # "spawned"
<1> USE DEF Accepted, InTask
<1>1. ASSUME NEW q \in Requests, ChannelStep(q) PROVE task'[r] = "spawned"
  BY <1>1 DEF ChannelStep, Prevalidate, Enqueue, SendFails, Abandon, StreamArrives, Accept,
              Move, Shape, TaskType
<1>2. ASSUME NEW q \in Requests, TaskStep(q) PROVE FALSE
  BY <1>2 DEF TaskStep, OwnStep, TurnEnds, Validate, SendRefusal, CloneArc, JoinQueue, Acquire,
              LoadHistory, SaveTurn, LoseTurn, Reply, Finish, PanicInReply, Move, Shape, TaskType
<1>3. CASE RunStep
  BY <1>3 DEF RunStep, Receive, LeaveLoop, Return, Accept, Shape, TaskType, QueueInv
<1>4. CASE \/ UNCHANGED vars \/ Collect \/ (\E s \in Sessions : Evict(s)) \/ Tick
           \/ CliExits \/ MonitorStops \/ Interrupt \/ CloseDb \/ CutOff
  BY <1>4 DEF vars, Collect, Evict, Tick, CliExits, MonitorStops, Interrupt, CloseDb, CutOff
<1> QED BY <1>1, <1>2, <1>3, <1>4 DEF Next, Quiescent

\* Only the dedup block lets a request through: an id that the cache lacks.
LEMMA AcceptStep ==
  ASSUME Shape, NEW r \in Requests, Accept(r)
  PROVE  /\ IdOf[r] \in Ids /\ Dedup!Offer(IdOf[r])
         /\ \E to \in {"duplicate", "spawned"} :
              /\ task' = [task EXCEPT ![r] = to]
              /\ to = "spawned" <=> ~Dedup!IsDuplicate(IdOf[r])
BY GatewayAssumption DEF Accept

\* No step lets an id in twice.
LEMMA OnceStep ==
  ASSUME Shape, CacheInv, OnceInv, [Next]_vars PROVE CacheInv' /\ OnceInv'
<1>1. CASE UNCHANGED recent /\ \A r \in Requests : task'[r] = "spawned" => task[r] = "spawned"
  <2>1. \A r \in Requests : task'[r] \in Accepted => task[r] \in Accepted
    BY <1>1, AcceptedChanges
  <2> QED BY <1>1, <2>1 DEF CacheInv, OnceInv, Distinct
<1>2. ASSUME NEW r \in Requests, Accept(r) PROVE CacheInv' /\ OnceInv'
  <2>1. PICK to \in {"duplicate", "spawned"} :
          /\ task' = [task EXCEPT ![r] = to]
          /\ to = "spawned" <=> ~Dedup!IsDuplicate(IdOf[r])
    BY <1>2, AcceptStep
  <2>2. IdOf[r] \in Ids /\ Dedup!Offer(IdOf[r])
    BY <1>2, AcceptStep
  <2>3. \A q \in Requests : q # r => task'[q] = task[q]
    BY <2>1 DEF Shape, TaskType
  <2>4. CASE Dedup!IsDuplicate(IdOf[r])
    <3>1. CacheInv' /\ Range(recent') = Range(recent)
      BY <2>2, <2>4, RefreshKeeps
    <3>2. task'[r] \notin Accepted
      BY <2>1, <2>4 DEF Shape, TaskType, Accepted, InTask
    <3> QED BY <2>3, <3>1, <3>2 DEF OnceInv
  <2>5. CASE ~Dedup!IsDuplicate(IdOf[r])
    <3>1. CacheInv' /\ IdOf[r] \in Range(recent')
      BY <2>2, <2>5, RememberKeeps
    <3>2. IdOf[r] \notin Range(recent)
      BY <2>5 DEF Dedup!IsDuplicate, Dedup!Elements, Range
    <3>3. ASSUME IsFiniteSet(Ids), Cardinality(Ids) <= DedupCapacity
          PROVE  Range(recent') = Range(recent) \cup {IdOf[r]}
      <4>1. Len(recent) < Cardinality(Ids)
        BY <2>2, <3>2, <3>3, DistinctRoom DEF CacheInv
      <4>2. Len(recent) < DedupCapacity
        BY <3>3, <4>1, GatewayAssumption, FS_CardinalityType DEF CacheInv
      <4> QED BY <2>2, <2>5, <4>2, RememberKeeps
    <3> QED BY <2>3, <3>1, <3>2, <3>3 DEF OnceInv
  <2> QED BY <2>4, <2>5
<1> QED BY <1>1, <1>2, CacheChanges

\* The cache holds every id that was let through, and each was let through once.
LEMMA OnceInvariant == Spec => [](CacheInv /\ OnceInv)
<1>1. Init => CacheInv /\ OnceInv
  BY GatewayAssumption DEF Init, CacheInv, OnceInv, Distinct, Accepted, InTask
<1>2. Shape /\ CacheInv /\ OnceInv /\ [Next]_vars => CacheInv' /\ OnceInv'
  BY OnceStep
<1> QED BY <1>1, <1>2, ShapeInvariant, PTL DEF Spec

(* A message id is processed once, however often and through whichever       *)
(* channel it is redelivered, for any number of ids that the cache can hold  *)
(* (lines 216-225, 462-471).                                                 *)
THEOREM ProcessedOnce == Spec => []AtMostOnce
<1>1. OnceInv => AtMostOnce
  BY DEF OnceInv, AtMostOnce
<1> QED BY <1>1, OnceInvariant, PTL

-----------------------------------------------------------------------------
(* The gauge of active sessions and the bounds.                              *)

HeldNow == {r \in Requests : task[r] \in Counted}

\* The gauge counts the tasks past the lock, of which there are finitely many.
GaugeInv == IsFiniteSet(HeldNow) /\ active = Cardinality(HeldNow)

\* A step between phases on the same side of the lock does not change who is past it.
LEMMA MoveKeepsHeld ==
  ASSUME TaskType, NEW r \in Requests, NEW from, NEW to, Move(r, from, to),
         from \in Counted <=> to \in Counted
  PROVE  HeldNow' = HeldNow
BY DEF TaskType, Move, HeldNow

\* Only the lock's acquisition and the end of a task move the gauge.
LEMMA GaugeChanges ==
  ASSUME Shape, [Next]_vars
  PROVE  \/ UNCHANGED <<active, HeldNow>>
         \/ \E r \in Requests : Acquire(r) \/ Finish(r)
<1> USE DEF Shape
<1>1. ASSUME NEW r \in Requests, ChannelStep(r) PROVE UNCHANGED <<active, HeldNow>>
  <2>1. UNCHANGED active
    BY <1>1 DEF ChannelStep, Prevalidate, Enqueue, SendFails, Abandon, StreamArrives, turns
  <2>2. \E from \in {"idle", "prevalidated"},
           to \in {"prevalidated", "turned_away", "queued", "unsent", "abandoned",
                   "duplicate", "spawned"} : Move(r, from, to)
    BY <1>1 DEF ChannelStep, Prevalidate, Enqueue, SendFails, Abandon, StreamArrives,
                MaySend, Accept, Move
  <2> QED BY <2>1, <2>2, MoveKeepsHeld DEF Counted, Held
<1>2. ASSUME NEW r \in Requests, TaskStep(r), ~Acquire(r), ~Finish(r)
      PROVE  UNCHANGED <<active, HeldNow>>
  <2>1. UNCHANGED active
    BY <1>2 DEF TaskStep, OwnStep, TurnEnds, Validate, SendRefusal, CloneArc, JoinQueue,
                LoadHistory, SaveTurn, LoseTurn, Reply, PanicInReply, turns
  <2>2. CASE LoadHistory(r) \/ SaveTurn(r) \/ LoseTurn(r) \/ Reply(r) \/ PanicInReply(r)
    <3>1. \E from \in Counted, to \in Counted : Move(r, from, to)
      BY <2>2 DEF LoadHistory, SaveTurn, LoseTurn, Reply, PanicInReply, Counted, Held
    <3> QED BY <2>1, <3>1, MoveKeepsHeld
  <2>3. CASE Validate(r) \/ SendRefusal(r) \/ CloneArc(r) \/ JoinQueue(r)
    <3>1. \E from \in {"spawned", "refused", "admitted", "cloned"},
             to \in {"admitted", "refused", "rejected", "cloned", "joined"} : Move(r, from, to)
      BY <2>3 DEF Validate, SendRefusal, CloneArc, JoinQueue
    <3> QED BY <2>1, <3>1, MoveKeepsHeld DEF Counted, Held
  <2> QED BY <1>2, <2>2, <2>3 DEF TaskStep, OwnStep, TurnEnds
<1>3. CASE RunStep
  BY <1>3 DEF RunStep, Receive, LeaveLoop, Return, Accept, QueueInv, TaskType, HeldNow, Counted,
              Held, turns
<1>4. CASE \/ UNCHANGED vars \/ Collect \/ (\E s \in Sessions : Evict(s)) \/ Tick
           \/ CliExits \/ MonitorStops \/ Interrupt \/ CloseDb \/ CutOff
  BY <1>4 DEF vars, turns, Collect, Evict, Tick, CliExits, MonitorStops, Interrupt, CloseDb,
              CutOff, HeldNow
<1> QED BY <1>1, <1>2, <1>3, <1>4 DEF Next, Quiescent

\* Every step moves the gauge with the tasks past a lock.
LEMMA GaugeStep == ASSUME Shape, GaugeInv, [Next]_vars PROVE GaugeInv'
<1>1. CASE UNCHANGED <<active, HeldNow>>
  BY <1>1 DEF GaugeInv
<1>2. ASSUME NEW r \in Requests, Acquire(r) PROVE GaugeInv'
  <2>1. active' = active + 1 /\ HeldNow' = HeldNow \cup {r} /\ r \notin HeldNow
    BY <1>2 DEF Acquire, Move, Shape, TaskType, HeldNow, Counted, Held
  <2> QED BY <2>1, FS_AddElement DEF GaugeInv
<1>3. ASSUME NEW r \in Requests, Finish(r) PROVE GaugeInv'
  <2>1. active' = active - 1 /\ HeldNow' = HeldNow \ {r} /\ r \in HeldNow
    BY <1>3 DEF Finish, Move, Shape, TaskType, HeldNow, Counted, Held
  <2> QED BY <2>1, FS_RemoveElement DEF GaugeInv
<1> QED BY <1>1, <1>2, <1>3, GaugeChanges

PrevalTypes == preval \in [Ids -> 0..MaxClock \cup {Absent}]

\* What a step may do to the prevalidations.
LEMMA PrevalChanges ==
  ASSUME [Next]_vars
  PROVE  \/ UNCHANGED preval
         \/ \E i : preval' = [preval EXCEPT ![i] = Absent]
         \/ \E r \in Requests : Prevalidate(r) /\ preval' = [preval EXCEPT ![IdOf[r]] = clock]
         \/ Collect
<1>1. CASE Receive
  <2>1. UNCHANGED preval \/ preval' = [preval EXCEPT ![IdOf[Head(queue)]] = Absent]
    BY <1>1 DEF Receive, Accept
  <2> QED BY <2>1
<1>2. ASSUME NEW r \in Requests, ChannelStep(r) \/ TaskStep(r)
      PROVE  \/ UNCHANGED preval
             \/ preval' = [preval EXCEPT ![IdOf[r]] = Absent]
             \/ Prevalidate(r) /\ preval' = [preval EXCEPT ![IdOf[r]] = clock]
  BY <1>2 DEF ChannelStep, TaskStep, OwnStep, TurnEnds, Prevalidate, Enqueue, SendFails, Abandon,
              StreamArrives, Accept, Validate, SendRefusal, CloneArc, JoinQueue, Acquire,
              LoadHistory, SaveTurn, LoseTurn, Reply, Finish, PanicInReply
<1>3. CASE \/ UNCHANGED vars \/ LeaveLoop \/ Return \/ (\E s \in Sessions : Evict(s)) \/ Tick
           \/ CliExits \/ MonitorStops \/ Interrupt \/ CloseDb \/ CutOff
  BY <1>3 DEF vars, LeaveLoop, Return, Evict, Tick, CliExits, MonitorStops, Interrupt,
              CloseDb, CutOff
<1> QED BY <1>1, <1>2, <1>3, GatewayAssumption DEF Next, RunStep, Quiescent

\* Every step keeps the prevalidations within their types.
LEMMA PrevalKeepsTypes ==
  ASSUME LimiterTypes, PrevalTypes, [Next]_vars PROVE PrevalTypes'
<1>1. CASE Collect
  BY <1>1 DEF Collect, PrevalTypes
<1>2. ASSUME NEW r \in Requests, preval' = [preval EXCEPT ![IdOf[r]] = clock] PROVE PrevalTypes'
  BY <1>2 DEF LimiterTypes, PrevalTypes
<1> QED BY <1>1, <1>2, PrevalChanges DEF PrevalTypes

QueueBound == Len(queue) <= QueueCapacity

\* The queue stays within its capacity.
LEMMA QueueStep == ASSUME Shape, QueueBound, [Next]_vars PROVE QueueBound'
<1>1. CASE UNCHANGED queue
  BY <1>1 DEF QueueBound
<1>2. ASSUME NEW r \in Requests, Enqueue(r) PROVE QueueBound'
  BY <1>2, GatewayAssumption DEF Enqueue, QueueBound, Shape, QueueInv
<1>3. CASE Receive
  BY <1>3, GatewayAssumption DEF Receive, QueueBound, Shape, QueueInv
<1>4. CASE Return
  BY <1>4, GatewayAssumption DEF Return, QueueBound
<1>5. ASSUME NEW r \in Requests, ChannelStep(r), ~Enqueue(r) PROVE UNCHANGED queue
  BY <1>5 DEF ChannelStep, Prevalidate, SendFails, Abandon, StreamArrives
<1>6. ASSUME NEW r \in Requests, TaskStep(r) PROVE UNCHANGED queue
  BY <1>6 DEF TaskStep, OwnStep, TurnEnds, Validate, SendRefusal, CloneArc, JoinQueue, Acquire,
              LoadHistory, SaveTurn, LoseTurn, Reply, Finish, PanicInReply
<1>7. CASE \/ UNCHANGED vars \/ LeaveLoop \/ Collect \/ (\E s \in Sessions : Evict(s)) \/ Tick
           \/ CliExits \/ MonitorStops \/ Interrupt \/ CloseDb \/ CutOff
  BY <1>1, <1>7 DEF vars, LeaveLoop, Collect, Evict, Tick, CliExits, MonitorStops, Interrupt,
                    CloseDb, CutOff
<1> QED BY <1>1, <1>2, <1>3, <1>4, <1>5, <1>6, <1>7 DEF Next, RunStep, Quiescent

\* Everything that GatewayInv says, beside the locks.
GatewayParts ==
  /\ LimiterTypes /\ TurnTypes /\ ControlTypes /\ PrevalTypes
  /\ QueueBound /\ GaugeInv

\* The parts together.
LEMMA PartsInvariant == Spec => []GatewayParts
<1>1. Init => GatewayParts
  <2> SUFFICES ASSUME Init PROVE GatewayParts
    OBVIOUS
  <2>1. LimiterTypes
    BY GatewayAssumption DEF Init, RL!LimiterInit, LimiterTypes
  <2>2. TurnTypes
    BY DEF Init, TurnTypes
  <2>3. ControlTypes
    <3>1. mode \in {"serve", "chat"} /\ open \subseteq {"cli", "feishu", "http"}
      BY GatewayAssumption DEF Init
    <3> QED BY <3>1 DEF Init, ControlTypes
  <2>4. PrevalTypes
    BY DEF Init, PrevalTypes
  <2>5. QueueBound
    BY GatewayAssumption DEF Init, QueueBound
  <2>6. HeldNow = {} /\ active = 0
    BY DEF Init, HeldNow, Counted, Held
  <2> QED BY <2>1, <2>2, <2>3, <2>4, <2>5, <2>6, FS_EmptySet DEF GatewayParts, GaugeInv
<1>2. Shape /\ GatewayParts /\ [Next]_vars => GatewayParts'
  BY LimiterKeepsTypes, TurnsKeepTypes, ControlKeepsTypes, PrevalKeepsTypes, QueueStep,
     GaugeStep DEF GatewayParts
<1> QED BY <1>1, <1>2, ShapeInvariant, PTL DEF Spec

\* The locks of the gateway have the types of the protocol's.
LEMMA LockTypes == Spec => []LP!TypeOK
<1>1. Init => LP!Init
  BY DEF Init, Locks!LocksInit, LP!Init, LP!LocksInit, LockPhase, LockPhaseOf
<1>2. Shape /\ [Next]_vars => [LP!Next]_(LP!vars)
  BY StepMaps DEF Shape, LockStutter, LP!vars
<1>3. LP!Spec => []LP!IInv
  BY LP!LocksInvariant, GatewayAssumption
<1>4. LP!IInv => LP!TypeOK
  BY DEF LP!IInv
<1> QED BY <1>1, <1>2, <1>3, <1>4, ShapeInvariant, PTL DEF Spec, LP!Spec

(* The gauge of active sessions is the number of tasks past a lock and of    *)
(* those whose reply panicked, which nothing lowers it for (feishu/types.rs  *)
(* 443): it never wraps, and it is exact as long as no reply has panicked.   *)
(* The queue, the cache and every map stay within their types and bounds     *)
(* (lines 391-394, 439-442).                                                 *)
THEOREM GaugeAndTypes == Spec => []GatewayInv
<1>1. Shape /\ CacheInv /\ GatewayParts /\ LP!TypeOK => GatewayInv
  <2> SUFFICES ASSUME Shape, CacheInv, GatewayParts, LP!TypeOK PROVE GatewayInv
    OBVIOUS
  <2>1. Locks!TypeOK
    BY DEF LP!TypeOK, Locks!TypeOK
  <2>2. ActiveGauge /\ active \in Nat
    BY FS_CardinalityType DEF GatewayParts, GaugeInv, ActiveGauge, HeldNow
  <2>3. TypeOK
    BY <2>1, <2>2 DEF TypeOK, Shape, TaskType, QueueInv, CacheInv, GatewayParts,
       LimiterTypes, TurnTypes, ControlTypes, PrevalTypes, QueueBound
  <2> QED BY <2>2, <2>3 DEF GatewayInv
<1> QED BY <1>1, ShapeInvariant, OnceInvariant, PartsInvariant, LockTypes, PTL

-----------------------------------------------------------------------------
(* The end of the program.                                                   *)

\* Once run() has returned no task of the JoinSet is left, and main closes the
\* database after that or cuts it off.
ShutdownInv ==
  /\ loop = "returned" => \A r \in Tracked : task[r] \notin InTask
  /\ main = "closed" => loop = "returned"
  /\ NoTurnCut

\* A request of the JoinSet enters its task only while run() receives.
LEMMA DrainedStays ==
  ASSUME Shape, [Next]_vars, loop = "returned", \A r \in Tracked : task[r] \notin InTask
  PROVE  loop' = "returned" /\ \A r \in Tracked : task'[r] \notin InTask
<1>1. ASSUME NEW q \in Requests, ChannelStep(q) PROVE \A r \in Tracked : task'[r] \notin InTask
  BY <1>1 DEF ChannelStep, Prevalidate, Enqueue, SendFails, Abandon, StreamArrives, Accept,
              Move, Shape, TaskType, Tracked, InTask
<1>2. ASSUME NEW q \in Requests, TaskStep(q) PROVE \A r \in Tracked : task'[r] \notin InTask
  <2>1. task[q] \in InTask /\ \A r \in Requests : r # q => task'[r] = task[r]
    BY <1>2 DEF TaskStep, OwnStep, TurnEnds, Validate, SendRefusal, CloneArc, JoinQueue, Acquire,
                LoadHistory, SaveTurn, LoseTurn, Reply, Finish, PanicInReply, Move, Shape, TaskType,
                InTask
  <2> QED BY <2>1 DEF Tracked
<1>3. UNCHANGED task => \A r \in Tracked : task'[r] \notin InTask
  OBVIOUS
<1>4. UNCHANGED loop
  BY ControlChanges DEF control, LeaveLoop, Return, CliExits, MonitorStops, Interrupt, CloseDb,
     CutOff
<1>5. ~RunStep
  BY DEF RunStep, Receive, LeaveLoop, Return
<1>6. ASSUME \/ UNCHANGED vars \/ Collect \/ (\E s \in Sessions : Evict(s)) \/ Tick
             \/ CliExits \/ MonitorStops \/ Interrupt \/ CloseDb \/ CutOff
      PROVE  UNCHANGED task
  BY <1>6 DEF vars, Collect, Evict, Tick, CliExits, MonitorStops, Interrupt, CloseDb, CutOff
<1> QED BY <1>1, <1>2, <1>3, <1>4, <1>5, <1>6 DEF Next, Quiescent

\* No step closes the database under a tracked task unless the drain is cut off.
LEMMA ShutdownStep ==
  ASSUME Shape, TurnTypes, ShutdownInv, [Next]_vars PROVE ShutdownInv'
<1>1. loop' = "returned" => \A r \in Tracked : task'[r] \notin InTask
  <2>1. CASE loop = "returned"
    BY <2>1, DrainedStays DEF ShutdownInv
  <2>2. CASE Return
    BY <2>2 DEF Return, Shape, TaskType, Tracked, InTask
  <2>3. loop' = "returned" => loop = "returned" \/ Return
    BY ControlChanges DEF control, LeaveLoop, CliExits, MonitorStops, Interrupt, CloseDb, CutOff
  <2> QED BY <2>1, <2>2, <2>3
<1>2. main' = "closed" => loop' = "returned"
  <2>1. CASE main = "closed"
    BY <2>1, DrainedStays DEF ShutdownInv
  <2>2. CASE main # "closed"
    BY <2>2, ControlChanges DEF control, LeaveLoop, Return, CliExits, MonitorStops, Interrupt,
       CloseDb, CutOff
  <2> QED BY <2>1, <2>2
<1>3. main = "cut" => main' = "cut"
  BY ControlChanges DEF control, LeaveLoop, Return, CliExits, MonitorStops, Interrupt,
     CloseDb, CutOff
<1>4. ASSUME NEW r \in Tracked, result'[r] = "closed" PROVE main' = "cut"
  <2>1. CASE result[r] = "closed"
    BY <1>3, <2>1 DEF ShutdownInv, NoTurnCut
  <2>2. CASE result[r] # "closed"
    <3>1. LoseTurn(r) /\ Closed
      BY <1>4, <2>2, TurnChanges DEF LoadHistory, SaveTurn, LoseTurn, TurnTypes, Tracked
    <3>2. task[r] \in InTask
      BY <3>1 DEF LoseTurn, Move, InTask
    <3>3. main = "cut"
      BY <3>1, <3>2 DEF ShutdownInv, Closed
    <3> QED BY <1>3, <3>3
  <2> QED BY <2>1, <2>2
<1> QED BY <1>1, <1>2, <1>4 DEF ShutdownInv, NoTurnCut

(* A shutdown that waited for run() costs no accepted message its turn: a    *)
(* message task finds the database closed only after main cut the drain off  *)
(* (lines 236-242).                                                          *)
THEOREM CleanShutdown == Spec => []NoTurnCut
<1>1. Init => ShutdownInv
  BY DEF Init, ShutdownInv, NoTurnCut, InTask, Tracked
<1>2. Shape /\ GatewayParts /\ ShutdownInv /\ [Next]_vars => ShutdownInv'
  BY ShutdownStep DEF GatewayParts
<1>3. ShutdownInv => NoTurnCut
  BY DEF ShutdownInv
<1> QED BY <1>1, <1>2, <1>3, ShapeInvariant, PartsInvariant, PTL DEF Spec

-----------------------------------------------------------------------------
(* The prevalidated messages of the HTTP channel.                            *)

Waiting == {"prevalidated", "queued", "spawned"}

\* A message that the handler prevalidated paid its slot then; until it is taken up
\* the map says so, or the time to live has passed.
PaidInv ==
  \A r \in Requests :
    ViaOf[r] = "http" =>
      /\ task[r] = "idle" => charges[r] = <<>>
      /\ MaxRpm = 0 => charges[r] = <<>>
      /\ task[r] \in Waiting /\ MaxRpm # 0 =>
           /\ Len(charges[r]) = 1
           /\ preval[IdOf[r]] = charges[r][1] \/ clock - charges[r][1] > PrevalTTL

\* An entry of the map is that of a message not taken up.
KeptInv ==
  \A i \in Ids :
    preval[i] # Absent =>
      \E r \in Requests :
        ViaOf[r] = "http" /\ IdOf[r] = i /\ task[r] \in Waiting \cup {"abandoned", "dropped"}

\* The steps of the gateway that are about one request.
Own(r) == ChannelStep(r) \/ TaskStep(r) \/ (Receive /\ r = Head(queue))

\* The others are about no request or about all of them.
Common ==
  \/ LeaveLoop \/ Return \/ Collect \/ (\E s \in Sessions : Evict(s)) \/ Tick \/ CliExits
  \/ MonitorStops \/ Interrupt \/ CloseDb \/ CutOff \/ UNCHANGED vars

\* Every step is about one request, or one of the others.
LEMMA OwnOrCommon ==
  ASSUME Shape, [Next]_vars PROVE Common \/ \E r \in Requests : Own(r)
<1>1. CASE Receive
  <2>1. Head(queue) \in Requests
    BY <1>1 DEF Receive, Shape, QueueInv
  <2> QED BY <1>1, <2>1 DEF Own
<1> QED BY <1>1 DEF Next, RunStep, Quiescent, Own, Common

\* The phases a step of a request leads through.
LEMMA OwnMoves ==
  ASSUME Shape, NEW r \in Requests, Own(r)
  PROVE  /\ UNCHANGED clock
         /\ \E to : task' = [task EXCEPT ![r] = to]
         /\ \/ UNCHANGED charges
            \/ charges' = [charges EXCEPT ![r] = Append(@, clock)] /\ (Prevalidate(r) \/ Validate(r))
         /\ \/ UNCHANGED preval
            \/ \E v : preval' = [preval EXCEPT ![IdOf[r]] = v]
<1>1. CASE ChannelStep(r)
  BY <1>1 DEF ChannelStep, Prevalidate, Passes, Fails, TakeSlot, NoSlot, Enqueue, SendFails,
              Abandon, StreamArrives, Accept, Move, limiter
<1>2. CASE TaskStep(r)
  BY <1>2 DEF TaskStep, OwnStep, TurnEnds, Validate, Passes, Fails, TakeSlot, NoSlot, SendRefusal,
              CloneArc, JoinQueue, Acquire, LoadHistory, SaveTurn, LoseTurn, Reply, Finish,
              PanicInReply, Move, limiter
<1>3. CASE Receive /\ r = Head(queue)
  BY <1>3 DEF Receive, Accept, limiter
<1> QED BY <1>1, <1>2, <1>3 DEF Own

\* A step that takes the message up, or gives it up, leaves no entry of its id.
LEMMA TakenUp ==
  ASSUME Shape, KeptInv, PrevalTypes, NEW r \in Requests, Own(r),
         task[r] \in Waiting, task'[r] \notin Waiting \cup {"abandoned", "dropped"}
  PROVE  preval'[IdOf[r]] = Absent
<1> USE DEF Waiting
<1>1. IdOf[r] \in Ids
  BY GatewayAssumption
<1>2. CASE SendFails(r)
  <2>1. CASE ViaOf[r] = "http"
    BY <1>1, <1>2, <2>1 DEF SendFails, PrevalTypes
  <2>2. CASE ViaOf[r] # "http"
    BY <1>2, <2>2 DEF SendFails, MaySend
  <2> QED BY <2>1, <2>2
<1>3. CASE Validate(r)
  BY <1>1, <1>3 DEF Validate, PrevalTypes
<1>4. CASE Receive /\ r = Head(queue)
  BY <1>1, <1>4 DEF Receive, Accept, PrevalTypes, Shape, TaskType
<1>5. CASE Prevalidate(r) \/ Enqueue(r) \/ Abandon(r) \/ StreamArrives(r)
  BY <1>5 DEF Prevalidate, Enqueue, Abandon, StreamArrives, Move, Shape, TaskType
<1>6. CASE \/ SendRefusal(r) \/ CloneArc(r) \/ JoinQueue(r) \/ Acquire(r) \/ LoadHistory(r)
           \/ SaveTurn(r) \/ LoseTurn(r) \/ Reply(r) \/ PanicInReply(r) \/ Finish(r)
  BY <1>6 DEF SendRefusal, CloneArc, JoinQueue, Acquire, LoadHistory, SaveTurn, LoseTurn, Reply,
              Finish, PanicInReply, Move
<1> QED BY <1>2, <1>3, <1>4, <1>5, <1>6 DEF Own, ChannelStep, TaskStep, OwnStep, TurnEnds

\* Only a handler that has just validated its message makes an entry.
LEMMA EntryMade ==
  ASSUME Shape, PrevalTypes, NEW r \in Requests, Own(r), NEW i \in Ids,
         preval'[i] # Absent, preval[i] = Absent
  PROVE  i = IdOf[r] /\ ViaOf[r] = "http" /\ task'[r] = "prevalidated"
<1>1. CASE Prevalidate(r)
  BY <1>1 DEF Prevalidate, Move, Shape, TaskType, PrevalTypes
<1>2. CASE ~Prevalidate(r)
  <2>1. UNCHANGED preval \/ preval' = [preval EXCEPT ![IdOf[r]] = Absent]
    BY <1>2 DEF Own, ChannelStep, TaskStep, OwnStep, TurnEnds, Enqueue, SendFails, Abandon,
                StreamArrives, Receive, Accept, Validate, SendRefusal, CloneArc, JoinQueue, Acquire,
                LoadHistory, SaveTurn, LoseTurn, Reply, Finish, PanicInReply
  <2> QED BY <2>1 DEF PrevalTypes
<1> QED BY <1>1, <1>2

\* Every step keeps what is known of a prevalidation and its message.
LEMMA KeptStep ==
  ASSUME Shape, PrevalTypes, KeptInv, [Next]_vars PROVE KeptInv'
<1> SUFFICES ASSUME NEW i \in Ids, preval'[i] # Absent
             PROVE  \E r \in Requests :
                      /\ ViaOf[r] = "http" /\ IdOf[r] = i
                      /\ task'[r] \in Waiting \cup {"abandoned", "dropped"}
  BY DEF KeptInv
<1>1. CASE Common
  <2>1. preval[i] # Absent
    BY <1>1 DEF Common, LeaveLoop, Return, Collect, Evict, Tick, CliExits, MonitorStops,
                Interrupt, CloseDb, CutOff, vars, PrevalTypes
  <2>2. PICK r \in Requests :
          ViaOf[r] = "http" /\ IdOf[r] = i /\ task[r] \in Waiting \cup {"abandoned", "dropped"}
    BY <2>1 DEF KeptInv
  <2>3. task'[r] \in Waiting \cup {"abandoned", "dropped"}
    BY <1>1, <2>2 DEF Common, LeaveLoop, Return, Collect, Evict, Tick, CliExits, MonitorStops,
                Interrupt, CloseDb, CutOff, vars, Waiting
  <2> QED BY <2>2, <2>3
<1>2. ASSUME NEW q \in Requests, Own(q)
      PROVE  \E r \in Requests :
                      /\ ViaOf[r] = "http" /\ IdOf[r] = i
                      /\ task'[r] \in Waiting \cup {"abandoned", "dropped"}
  <2>1. CASE preval[i] = Absent
    BY <1>2, <2>1, EntryMade DEF Waiting
  <2>2. CASE preval[i] # Absent
    <3>1. PICK r \in Requests :
            ViaOf[r] = "http" /\ IdOf[r] = i /\ task[r] \in Waiting \cup {"abandoned", "dropped"}
      BY <2>2 DEF KeptInv
    <3>2. CASE q # r
      BY <1>2, <3>1, <3>2, OwnMoves DEF Shape, TaskType
    <3>3. CASE q = r /\ task[r] \in Waiting
      BY <1>2, <3>1, <3>3, TakenUp
    <3>4. CASE q = r /\ task[r] \in {"abandoned", "dropped"}
      BY <1>2, <3>4 DEF Own, ChannelStep, TaskStep, OwnStep, TurnEnds, Prevalidate, Enqueue,
                        SendFails, Abandon, StreamArrives, MaySend, Receive, Validate, SendRefusal,
                        CloneArc, JoinQueue, Acquire, LoadHistory, SaveTurn, LoseTurn, Reply,
                        Finish, PanicInReply, Move, Shape, QueueInv
    <3> QED BY <3>1, <3>2, <3>3, <3>4
  <2> QED BY <2>1, <2>2
<1> QED BY <1>1, <1>2, OwnOrCommon

\* The steps of other requests and the common ones, seen from an HTTP request.
LEMMA FromAside ==
  ASSUME Shape, LimiterTypes, PrevalTypes, NEW r \in Requests, ViaOf[r] = "http", [Next]_vars,
         ~Own(r)
  PROVE  /\ charges'[r] = charges[r]
         /\ task'[r] = task[r] \/ (task[r] = "queued" /\ task'[r] = "dropped")
         /\ clock' >= clock
         /\ \/ preval'[IdOf[r]] = preval[IdOf[r]]
            \/ preval[IdOf[r]] # Absent /\ clock - preval[IdOf[r]] > PrevalTTL
<1>1. IdOf[r] \in Ids
  BY GatewayAssumption
<1>2. CASE Collect
  BY <1>1, <1>2 DEF Collect, Expired, LimiterTypes, PrevalTypes
<1>3. CASE Tick
  BY <1>3 DEF Tick, RL!Tick, limiter, LimiterTypes
<1>4. CASE Return
  BY <1>4 DEF Return, limiter, Shape, TaskType, LimiterTypes
<1>5. CASE Common /\ ~Collect /\ ~Tick /\ ~Return
  BY <1>5 DEF Common, LeaveLoop, Evict, CliExits, MonitorStops, Interrupt, CloseDb, CutOff,
              vars, limiter, LimiterTypes
<1>6. ASSUME NEW q \in Requests, Own(q)
      PROVE  /\ charges'[r] = charges[r] /\ task'[r] = task[r] /\ clock' >= clock
             /\ preval'[IdOf[r]] = preval[IdOf[r]]
  <2>1. q # r
    BY <1>6
  <2>2. IdOf[q] # IdOf[r]
    BY <2>1, GatewayAssumption
  <2>3. UNCHANGED clock /\ task'[r] = task[r]
    BY <1>6, <2>1, OwnMoves DEF Shape, TaskType
  <2>4. charges'[r] = charges[r]
    BY <1>6, <2>1, OwnMoves DEF LimiterTypes
  <2>5. preval'[IdOf[r]] = preval[IdOf[r]]
    BY <1>1, <1>6, <2>2, OwnMoves DEF PrevalTypes
  <2> QED BY <2>3, <2>4, <2>5 DEF LimiterTypes
<1> QED BY <1>2, <1>3, <1>4, <1>5, <1>6, OwnOrCommon

\* PrevalidationHonoured says of one request what PaidInv leads to.
Honoured(r) ==
  charges[r] # <<>> /\ (Len(charges[r]) > 1 \/ task[r] = "refused")
    => clock - charges[r][1] > PrevalTTL

HonouredInv == \A r \in Requests : ViaOf[r] = "http" => Honoured(r)

\* The step of the handler, which finds the message unpaid.
LEMMA HandlerPays ==
  ASSUME Shape, LimiterTypes, PrevalTypes, PaidInv, NEW r \in Requests, Prevalidate(r)
  PROVE  /\ task'[r] \in {"prevalidated", "turned_away"}
         /\ MaxRpm = 0 => charges'[r] = <<>>
         /\ Len(charges'[r]) <= 1
         /\ task'[r] = "prevalidated" /\ MaxRpm # 0 =>
              Len(charges'[r]) = 1 /\ preval'[IdOf[r]] = charges'[r][1]
<1>1. IdOf[r] \in Ids /\ ViaOf[r] = "http" /\ task[r] = "idle" /\ charges[r] = <<>>
  BY GatewayAssumption DEF Prevalidate, Move, PaidInv
<1>2. Append(charges[r], clock) = <<clock>>
  BY <1>1
<1>3. CASE Passes(r) /\ Move(r, "idle", "prevalidated")
           /\ preval' = [preval EXCEPT ![IdOf[r]] = clock]
  BY <1>1, <1>2, <1>3 DEF Passes, TakeSlot, Move, Shape, TaskType, LimiterTypes, PrevalTypes
<1>4. CASE Fails(r) /\ Move(r, "idle", "turned_away")
  <2>1. task'[r] = "turned_away"
    BY <1>4 DEF Move, Shape, TaskType
  <2>2. CASE UNCHANGED charges
    BY <1>1, <2>1, <2>2
  <2>3. CASE MaxRpm # 0 /\ charges' = [charges EXCEPT ![r] = Append(@, clock)]
    <3>1. charges'[r] = <<clock>>
      BY <1>2, <2>3 DEF LimiterTypes
    <3>2. Len(charges'[r]) = 1
      BY <3>1
    <3>3. Len(charges'[r]) <= 1
      BY <3>2
    <3> QED BY <2>1, <2>3, <3>2, <3>3
  <2> QED BY <1>4, <2>2, <2>3 DEF Fails, NoSlot, TakeSlot
<1> QED BY <1>3, <1>4 DEF Prevalidate

\* The step of the message task, which pays again only for an expired entry.
LEMMA TaskPaysAgain ==
  ASSUME Shape, LimiterTypes, PrevalTypes, PaidInv, NEW r \in Requests, ViaOf[r] = "http",
         Validate(r)
  PROVE  /\ task'[r] \notin {"idle"} \cup Waiting
         /\ MaxRpm = 0 => charges'[r] = <<>>
         /\ Honoured(r)'
<1>1. IdOf[r] \in Ids /\ charges[r] \in Seq(0..MaxClock) /\ task[r] = "spawned"
  BY GatewayAssumption DEF Validate, Move, LimiterTypes
<1>2. task'[r] \notin {"idle"} \cup Waiting
  BY DEF Validate, Move, Shape, TaskType, Waiting
<1>3. CASE MaxRpm = 0
  <2>1. charges[r] = <<>>
    BY <1>1, <1>3 DEF PaidInv
  <2>2. UNCHANGED charges
    BY <1>3 DEF Validate, Passes, Fails, TakeSlot, NoSlot, limiter
  <2> QED BY <1>2, <2>1, <2>2 DEF Honoured
<1>4. CASE MaxRpm # 0 /\ preval[IdOf[r]] # Absent
  <2>1. UNCHANGED charges /\ task'[r] = "admitted"
    BY <1>4 DEF Validate, Move, limiter, Shape, TaskType
  <2>2. Len(charges[r]) = 1
    BY <1>1, <1>4 DEF PaidInv, Waiting
  <2> QED BY <1>2, <1>4, <2>1, <2>2 DEF Honoured
<1>5. CASE MaxRpm # 0 /\ preval[IdOf[r]] = Absent
  <2>1. Len(charges[r]) = 1 /\ clock - charges[r][1] > PrevalTTL
    <3>1. Len(charges[r]) = 1
      BY <1>1, <1>5 DEF PaidInv, Waiting
    <3>2. charges[r][1] \in Nat
      <4>1. 1 \in 1 .. Len(charges[r])
        BY <3>1
      <4>2. charges[r][1] \in 0..MaxClock
        BY <1>1, <4>1, ElementOfSeq
      <4> QED BY <4>2, GatewayAssumption
    <3>3. charges[r][1] # Absent
      BY <3>2, GatewayAssumption
    <3> QED BY <1>1, <1>5, <3>1, <3>3 DEF PaidInv, Waiting
  <2>2. UNCHANGED clock /\ (UNCHANGED charges \/ charges' = [charges EXCEPT ![r] = Append(@, clock)])
    BY DEF Validate, Passes, Fails, TakeSlot, NoSlot, limiter
  <2>3. charges'[r][1] = charges[r][1]
    <3>1. charges'[r] = charges[r] \/ charges'[r] = Append(charges[r], clock)
      BY <2>2 DEF LimiterTypes
    <3>2. charges[r] \in Seq(0..MaxClock) /\ clock \in 0..MaxClock
      BY DEF LimiterTypes
    <3>3. 1 \in 1 .. Len(charges[r])
      BY <2>1
    <3>4. Append(charges[r], clock)[1] = charges[r][1]
      BY <3>2, <3>3
    <3> QED BY <3>1, <3>4
  <2> QED BY <1>2, <1>5, <2>1, <2>2, <2>3 DEF Honoured
<1> QED BY <1>3, <1>4, <1>5

\* Every step keeps what is known of the slots that a message paid.
LEMMA PaidStep ==
  ASSUME Shape, LimiterTypes, PrevalTypes, PaidInv, HonouredInv, [Next]_vars
  PROVE  PaidInv' /\ HonouredInv'
<1> DEFINE Paid(r) ==
      /\ task[r] = "idle" => charges[r] = <<>>
      /\ MaxRpm = 0 => charges[r] = <<>>
      /\ task[r] \in Waiting /\ MaxRpm # 0 =>
           /\ Len(charges[r]) = 1
           /\ preval[IdOf[r]] = charges[r][1] \/ clock - charges[r][1] > PrevalTTL
<1> SUFFICES ASSUME NEW r \in Requests, ViaOf[r] = "http" PROVE Paid(r)' /\ Honoured(r)'
  BY DEF PaidInv, HonouredInv, Honoured
<1>1. Paid(r) /\ Honoured(r)
  BY DEF PaidInv, HonouredInv
<1>2. charges[r] \in Seq(0..MaxClock) /\ clock \in Nat /\ MaxClock \in Nat
  BY GatewayAssumption DEF LimiterTypes
<1>3. CASE ~Own(r)
  <2>1. /\ charges'[r] = charges[r]
        /\ task'[r] = task[r] \/ (task[r] = "queued" /\ task'[r] = "dropped")
        /\ clock' >= clock
        /\ \/ preval'[IdOf[r]] = preval[IdOf[r]]
           \/ preval[IdOf[r]] # Absent /\ clock - preval[IdOf[r]] > PrevalTTL
    BY <1>3, FromAside
  <2>2. clock' \in Nat
    BY LimiterKeepsTypes DEF LimiterTypes
  <2>3. charges[r] # <<>> => charges[r][1] \in Nat
    <3>1. charges[r] # <<>> => 1 \in 1 .. Len(charges[r])
      BY <1>2
    <3> QED BY <1>2, <3>1, ElementOfSeq
  <2>4. PrevalTTL \in Nat
    BY GatewayAssumption
  <2>5. Honoured(r)'
    BY <1>1, <1>2, <2>1, <2>2, <2>3, <2>4 DEF Honoured
  <2>6. Paid(r)'
    BY <1>1, <1>2, <2>1, <2>2, <2>3, <2>4 DEF Waiting
  <2> QED BY <2>5, <2>6
<1>4. CASE Prevalidate(r)
  <2>1. /\ task'[r] \in {"prevalidated", "turned_away"}
        /\ MaxRpm = 0 => charges'[r] = <<>>
        /\ Len(charges'[r]) <= 1
        /\ task'[r] = "prevalidated" /\ MaxRpm # 0 =>
             Len(charges'[r]) = 1 /\ preval'[IdOf[r]] = charges'[r][1]
    BY <1>4, HandlerPays
  <2>2. Len(charges'[r]) \in Nat
    BY LimiterKeepsTypes DEF LimiterTypes
  <2> QED BY <2>1, <2>2 DEF Honoured, Waiting
<1>5. CASE Validate(r)
  BY <1>5, TaskPaysAgain DEF Honoured
<1>6. CASE Own(r) /\ ~Prevalidate(r) /\ ~Validate(r)
  <2>1. UNCHANGED clock /\ charges'[r] = charges[r]
    BY <1>6, OwnMoves
  <2>2. task'[r] # "idle" /\ task'[r] # "refused"
    BY <1>6 DEF Own, ChannelStep, TaskStep, OwnStep, TurnEnds, Enqueue, SendFails, Abandon,
                StreamArrives, Receive, Accept, SendRefusal, CloneArc, JoinQueue, Acquire,
                LoadHistory, SaveTurn, LoseTurn, Reply, Finish, PanicInReply, Move, Shape, TaskType
  <2>3. task'[r] \in Waiting => task[r] \in Waiting /\ UNCHANGED preval
    BY <1>6 DEF Own, ChannelStep, TaskStep, OwnStep, TurnEnds, Enqueue, SendFails, Abandon,
                StreamArrives, MaySend, Receive, Accept, SendRefusal, CloneArc, JoinQueue, Acquire,
                LoadHistory, SaveTurn, LoseTurn, Reply, Finish, PanicInReply, Move, Shape, TaskType,
                QueueInv, Waiting
  <2>4. Honoured(r)'
    BY <1>1, <2>1, <2>2 DEF Honoured
  <2>5. Paid(r)'
    BY <1>1, <2>1, <2>2, <2>3
  <2> QED BY <2>4, <2>5
<1> QED BY <1>3, <1>4, <1>5, <1>6

\* The prevalidations of the waiting messages, and what follows.
LEMMA PaidInvariant == Spec => [](PaidInv /\ HonouredInv /\ KeptInv)
<1>1. Init => PaidInv /\ HonouredInv /\ KeptInv
  BY DEF Init, PaidInv, HonouredInv, Honoured, KeptInv, Waiting
<1>2. Shape /\ GatewayParts /\ PaidInv /\ HonouredInv /\ KeptInv /\ [Next]_vars
        => PaidInv' /\ HonouredInv' /\ KeptInv'
  BY PaidStep, KeptStep DEF GatewayParts
<1> QED BY <1>1, <1>2, ShapeInvariant, PartsInvariant, PTL DEF Spec

(* A message that the HTTP handler prevalidated pays no second slot and is   *)
(* not refused in the queue, unless its prevalidation outlived its time,     *)
(* for any limits, sessions, evictions and traffic (lines 331-358, 372-381). *)
THEOREM PrevalidatedOnce == Spec => []PrevalidationHonoured
<1>1. GatewayParts /\ HonouredInv => PrevalidationHonoured
  BY DEF GatewayParts, LimiterTypes, HonouredInv, Honoured, PrevalidationHonoured
<1> QED BY <1>1, PartsInvariant, PaidInvariant, PTL

(* A message that was taken up, dropped as a duplicate, refused, or whose    *)
(* send failed has no prevalidation left (lines 341-358, 219-224).  Nothing  *)
(* is said of handlers dropped before the send and of messages dropped with  *)
(* the queue on shutdown: their entries wait for the collector.              *)
THEOREM PrevalidationSpent == Spec => []PrevalConsumed
<1>1. KeptInv => PrevalConsumed
  BY GatewayAssumption DEF KeptInv, PrevalConsumed, Waiting, InTask
<1> QED BY <1>1, PaidInvariant, PTL
=============================================================================
