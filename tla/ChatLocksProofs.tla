--------------------------- MODULE ChatLocksProofs ---------------------------
(* Mutual exclusion of the per-session mutexes, for every set of tasks and   *)
(* sessions and however the collector is scheduled.                          *)
EXTENDS ChatLocks, TLAPS, SequenceTheorems

\* The initial state satisfies the inductive invariant.
LEMMA InitIInv == Init => IInv
BY LocksAssumption
   DEF Init, LocksInit, IInv, TypeOK, ArcIsCurrent, ArcHeld, LocksSeparate, HolderIsHead

\* Looking the mutex up preserves the invariant: the clone is the map's entry.
LEMMA CloneIInv == ASSUME IInv, NEW t \in Tasks, Clone(t) PROVE IInv'
BY LocksAssumption
   DEF IInv, TypeOK, ArcIsCurrent, ArcHeld, LocksSeparate, HolderIsHead, IsHolder,
       Clone, Move, CloneArc, LockFor

\* Joining a queue at its end leaves the holder at its head.
LEMMA JoinIInv == ASSUME IInv, NEW t \in Tasks, Join(t) PROVE IInv'
<1> USE LocksAssumption DEF IInv
<1>1. arc[t] \in Tasks
  BY DEF TypeOK, ArcHeld, Join, Move
<1>2. TypeOK'
  BY <1>1 DEF TypeOK, Join, Move, JoinQueue
<1>3. ArcIsCurrent' /\ ArcHeld' /\ LocksSeparate'
  BY <1>1 DEF TypeOK, ArcIsCurrent, ArcHeld, LocksSeparate, Join, Move, JoinQueue
<1>4. HolderIsHead'
  <2> SUFFICES ASSUME NEW u \in Tasks, phase'[u] = "held" PROVE IsHolder(u)'
    BY DEF HolderIsHead
  <2>1. phase[u] = "held" /\ IsHolder(u) /\ arc[u] \in Tasks /\ arc'[u] = arc[u]
    BY DEF TypeOK, ArcHeld, HolderIsHead, Join, Move, JoinQueue
  <2>2. CASE arc[u] = arc[t]
    <3>1. waiters[arc[t]] \in Seq(Tasks) /\ waiters[arc[t]] # <<>>
      BY <1>1, <2>1, <2>2 DEF TypeOK, IsHolder
    <3>2. Head(Append(waiters[arc[t]], t)) = Head(waiters[arc[t]])
          /\ Append(waiters[arc[t]], t) # <<>>
      BY <3>1
    <3> QED BY <1>1, <2>1, <2>2, <3>2 DEF IsHolder, Join, JoinQueue, TypeOK
  <2>3. CASE arc[u] # arc[t]
    BY <1>1, <2>1, <2>3 DEF IsHolder, Join, JoinQueue, TypeOK
  <2> QED BY <2>2, <2>3
<1> QED BY <1>2, <1>3, <1>4

\* A mutex is acquired only by the head of its queue.
LEMMA AcquireIInv == ASSUME IInv, NEW t \in Tasks, Acquire(t) PROVE IInv'
BY LocksAssumption
   DEF IInv, TypeOK, ArcIsCurrent, ArcHeld, LocksSeparate, HolderIsHead, IsHolder,
       Acquire, Move, lockVars

\* Only the head leaves a queue, so no other task of that mutex was past it.
LEMMA ReleaseIInv == ASSUME IInv, NEW t \in Tasks, Release(t) PROVE IInv'
<1> USE LocksAssumption DEF IInv
<1>1. arc[t] \in Tasks /\ IsHolder(t) /\ waiters[arc[t]] \in Seq(Tasks)
  BY DEF TypeOK, ArcHeld, HolderIsHead, Release, Move
<1>2. Tail(waiters[arc[t]]) \in Seq(Tasks)
  BY <1>1 DEF IsHolder
<1>3. TypeOK'
  BY <1>1, <1>2 DEF TypeOK, Release, Move, Unlock
<1>4. ArcIsCurrent' /\ ArcHeld' /\ LocksSeparate'
  BY <1>1 DEF TypeOK, ArcIsCurrent, ArcHeld, LocksSeparate, Release, Move, Unlock
<1>5. HolderIsHead'
  <2> SUFFICES ASSUME NEW u \in Tasks, phase'[u] = "held" PROVE IsHolder(u)'
    BY DEF HolderIsHead
  <2>1. u # t /\ phase[u] = "held" /\ IsHolder(u) /\ arc[u] \in Tasks /\ arc'[u] = arc[u]
    BY DEF TypeOK, ArcHeld, HolderIsHead, Release, Move, Unlock
  <2>2. arc[u] # arc[t]
    BY <1>1, <2>1 DEF IsHolder
  <2> QED BY <1>1, <2>1, <2>2 DEF IsHolder, Release, Unlock, TypeOK
<1> QED BY <1>3, <1>4, <1>5

\* The collector removes only mutexes that no task holds a clone of.
LEMMA CollectIInv == ASSUME IInv, Collect PROVE IInv'
<1> USE LocksAssumption DEF IInv
<1>1. \A u \in Tasks : arc[u] # NoLock => lockOf'[SessionOf[u]] = lockOf[SessionOf[u]]
  BY DEF TypeOK, ArcIsCurrent, Collect, CollectLocks, Referenced
<1>2. TypeOK'
  BY DEF TypeOK, Collect, CollectLocks
<1>3. ArcIsCurrent' /\ ArcHeld' /\ LocksSeparate'
  BY <1>1 DEF TypeOK, ArcIsCurrent, ArcHeld, LocksSeparate, Collect, CollectLocks
<1>4. HolderIsHead'
  BY DEF HolderIsHead, IsHolder, Collect, CollectLocks
<1> QED BY <1>2, <1>3, <1>4

\* One step per action of a task, one for the collector.
LEMMA LocksStep == ASSUME IInv, [Next]_vars PROVE IInv'
<1>1. CASE Collect
  BY <1>1, CollectIInv
<1>2. ASSUME NEW t \in Tasks, TaskStep(t) PROVE IInv'
  BY <1>2, CloneIInv, JoinIInv, AcquireIInv, ReleaseIInv DEF TaskStep
<1>3. CASE UNCHANGED vars
  BY <1>3 DEF vars, IInv, TypeOK, ArcIsCurrent, ArcHeld, LocksSeparate, HolderIsHead, IsHolder
<1> QED BY <1>1, <1>2, <1>3 DEF Next, AllFinished

\* IInv is an invariant of the protocol.
THEOREM LocksInvariant == Spec => []IInv
BY InitIInv, LocksStep, PTL DEF Spec

\* Two tasks past the lock of one session head the same queue.
LEMMA Exclusion == IInv => SessionExclusive
<1> SUFFICES ASSUME IInv, NEW t \in Tasks, NEW u \in Tasks,
                    phase[t] = "held", phase[u] = "held",
                    SessionOf[t] = SessionOf[u]
             PROVE  t = u
  BY DEF SessionExclusive
<1>1. arc[t] = lockOf[SessionOf[t]] /\ arc[u] = lockOf[SessionOf[u]]
  BY DEF IInv, ArcIsCurrent, ArcHeld
<1>2. IsHolder(t) /\ IsHolder(u)
  BY DEF IInv, HolderIsHead
<1> QED BY <1>1, <1>2 DEF IsHolder

(* At most one task per session is past the lock, however often the          *)
(* collector removes the session's mutex and a task creates it again.        *)
THEOREM MutualExclusion == Spec => []SessionExclusive
BY LocksInvariant, Exclusion, PTL
=============================================================================
