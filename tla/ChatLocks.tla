------------------------------ MODULE ChatLocks ------------------------------
(***************************************************************************)
(* The per-session mutexes of the gateway (gateway.rs, `chat_locks`):      *)
(* a concurrent map from session key to Arc<tokio::Mutex>, entries created *)
(* on demand by message tasks and removed by the garbage collector when no *)
(* task holds a clone of the Arc.                                          *)
(*                                                                         *)
(* A removed entry may be created again, so two mutexes may exist for one  *)
(* session over time; a mutex is identified by the task that created it,   *)
(* which creates at most one.  The tokio mutex is fair: it is modelled by  *)
(* the queue of the tasks that have polled lock(), whose head holds it.    *)
(***************************************************************************)
EXTENDS Naturals, Sequences

CONSTANTS
  Tasks,      \* the message tasks
  Sessions,   \* the session keys
  SessionOf,  \* the session of a task's message
  NoLock      \* the absence of a mutex

ASSUME LocksAssumption ==
  /\ SessionOf \in [Tasks -> Sessions]
  /\ NoLock \notin Tasks

VARIABLES
  lockOf,     \* chat_locks: the mutex stored for a session, or NoLock
  arc,        \* the mutex a task holds a clone of, or NoLock
  waiters,    \* for each mutex, the tasks in its queue; the head holds it
  phase       \* where a task is between its first lookup and its unlock

lockVars == <<lockOf, arc, waiters>>
vars == <<lockOf, arc, waiters, phase>>

-----------------------------------------------------------------------------
(* What a task or the collector does to the map and to the mutexes.         *)

LocksInit ==
  /\ lockOf = [s \in Sessions |-> NoLock]
  /\ arc = [t \in Tasks |-> NoLock]
  /\ waiters = [l \in Tasks |-> <<>>]

\* The mutex that entry(key).or_insert_with(..) yields to task t.
LockFor(t) ==
  IF lockOf[SessionOf[t]] = NoLock THEN t ELSE lockOf[SessionOf[t]]

\* entry(key).or_insert_with(..).clone(), atomic under the map's shard lock.
CloneArc(t) ==
  /\ lockOf' = [lockOf EXCEPT ![SessionOf[t]] = LockFor(t)]
  /\ arc' = [arc EXCEPT ![t] = LockFor(t)]
  /\ UNCHANGED waiters

\* Mutation: a mutex that lets a newcomer barge in front of the queue.
JoinInFront(t) ==
  /\ waiters' = [waiters EXCEPT ![arc[t]] = <<t>> \o @]
  /\ UNCHANGED <<lockOf, arc>>

\* The first poll of lock(): take the free mutex or join its queue.
JoinQueue(t) ==
  /\ waiters' = [waiters EXCEPT ![arc[t]] = Append(@, t)]
  /\ UNCHANGED <<lockOf, arc>>

IsHolder(t) == waiters[arc[t]] # <<>> /\ Head(waiters[arc[t]]) = t

\* Mutation: the guard is leaked, only the Arc is dropped.
LeakGuard(t) ==
  /\ arc' = [arc EXCEPT ![t] = NoLock]
  /\ UNCHANGED <<lockOf, waiters>>

\* The guard and then the task's Arc are dropped.
Unlock(t) ==
  /\ waiters' = [waiters EXCEPT ![arc[t]] = Tail(@)]
  /\ arc' = [arc EXCEPT ![t] = NoLock]
  /\ UNCHANGED lockOf

\* Arc::strong_count(v) > 1: some task holds a clone beside the map's own.
Referenced(l) == \E t \in Tasks : arc[t] = l

\* Mutation: retain(|_, v| v.try_lock().is_err()), only the locked ones stay.
CollectUnlocked ==
  /\ lockOf' = [s \in Sessions |->
                  IF lockOf[s] # NoLock /\ waiters[lockOf[s]] # <<>>
                    THEN lockOf[s] ELSE NoLock]
  /\ UNCHANGED <<arc, waiters>>

\* chat_locks.retain(|_, v| Arc::strong_count(v) > 1)
CollectLocks ==
  /\ lockOf' = [s \in Sessions |->
                  IF lockOf[s] # NoLock /\ Referenced(lockOf[s])
                    THEN lockOf[s] ELSE NoLock]
  /\ UNCHANGED <<arc, waiters>>

-----------------------------------------------------------------------------
(* The locking protocol of a task, on its own.                              *)

Move(t, from, to) ==
  /\ phase[t] = from
  /\ phase' = [phase EXCEPT ![t] = to]

Clone(t)   == Move(t, "start", "cloned") /\ CloneArc(t)
Join(t)    == Move(t, "cloned", "joined") /\ JoinQueue(t)
Acquire(t) == Move(t, "joined", "held") /\ IsHolder(t) /\ UNCHANGED lockVars
Release(t) == Move(t, "held", "finished") /\ Unlock(t)
Collect    == CollectLocks /\ UNCHANGED phase

Init ==
  /\ LocksInit
  /\ phase = [t \in Tasks |-> "start"]

TaskStep(t) == Clone(t) \/ Join(t) \/ Acquire(t) \/ Release(t)

\* Nothing is left to do (so that a deadlock means a stuck task).
AllFinished == (\A t \in Tasks : phase[t] = "finished") /\ UNCHANGED vars

Next ==
  \/ \E t \in Tasks : TaskStep(t)
  \/ Collect
  \/ AllFinished

Spec == Init /\ [][Next]_vars

\* Every task is polled by the runtime as long as it can make progress.
Fairness == \A t \in Tasks : WF_vars(TaskStep(t))

FairSpec == Spec /\ Fairness

-----------------------------------------------------------------------------
TypeOK ==
  /\ lockOf \in [Sessions -> Tasks \cup {NoLock}]
  /\ arc \in [Tasks -> Tasks \cup {NoLock}]
  /\ waiters \in [Tasks -> Seq(Tasks)]
  /\ phase \in [Tasks -> {"start", "cloned", "joined", "held", "finished"}]

(* Two tasks never hold the mutexes of one session at the same time, even   *)
(* when the collector removed the session's mutex between their lookups:    *)
(* the promise of "per-session serialization" (gateway.rs, lines 383-389).  *)
SessionExclusive ==
  \A t, u \in Tasks :
    /\ phase[t] = "held" /\ phase[u] = "held"
    /\ SessionOf[t] = SessionOf[u]
    => t = u

(* A clone of the Arc is always a clone of the mutex in the map: the        *)
(* collector's strong_count test never removes a mutex in use (line 165).   *)
ArcIsCurrent ==
  \A t \in Tasks : arc[t] # NoLock => arc[t] = lockOf[SessionOf[t]]

\* A task has its clone exactly from the lookup to the unlock.
ArcHeld ==
  \A t \in Tasks : (arc[t] # NoLock) <=> (phase[t] \in {"cloned", "joined", "held"})

\* Sessions share no mutex.
LocksSeparate ==
  \A s \in Sessions : lockOf[s] # NoLock => SessionOf[lockOf[s]] = s

\* A task past the lock is at the head of its mutex's queue.
HolderIsHead == \A t \in Tasks : phase[t] = "held" => IsHolder(t)

\* The inductive invariant of the protocol.
IInv == TypeOK /\ ArcIsCurrent /\ ArcHeld /\ LocksSeparate /\ HolderIsHead

(* Every task that looked its mutex up gets it and gives it back.           *)
NoStarvation == \A t \in Tasks : phase[t] = "cloned" ~> phase[t] = "finished"
=============================================================================
