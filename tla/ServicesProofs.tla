---------------------------- MODULE ServicesProofs ----------------------------
(* What the scheduler, the audit log, the store and the shell tool promise:  *)
(* for every schedule, however long its tasks run, every size of lines and   *)
(* buffer and every failure of the disk, every set of sessions and memories, *)
(* and whatever a command writes; what a start makes of a configuration, and *)
(* which skills a turn is told about.                                        *)
EXTENDS Scheduler, AuditLog, Store, ShellRun, Skills, Startup, SkillSelection, DataLemmas, SequenceTheorems

-----------------------------------------------------------------------------
(* The scheduler: the next instant of a task, and the delays.                *)

Run == [due : Nat, began : Nat]

\* What a registered task consists of.
LEMMA TaskIs ==
  ASSUME NEW i \in Indices
  PROVE  i \in Nat /\ Registered[i].every \in Nat /\ Registered[i].occurrences \in SUBSET Nat
<1>1. Registered \in Seq(Tasks)
  BY TasksAssumption
<1>2. i \in 1 .. Len(Registered) /\ Registered[i] \in Tasks
  BY <1>1, ElementOfSeq DEF Indices
<1> QED BY <1>2 DEF Tasks

\* The least element of a nonempty set of instants.
LEMMA MinIs ==
  ASSUME NEW T \in SUBSET Nat, T # {}
  PROVE  Min(T) \in T /\ \A m \in T : Min(T) <= m
<1>1. \E n \in T : \A m \in T : n <= m
  BY LeastElement
<1> QED BY <1>1 DEF Min

\* The next instant is not before the given one, is past it as long as the
\* schedule goes on, and is a gap away from any instant up to the given one.
LEMMA NextRunIs ==
  ASSUME NEW i \in Indices, NEW after \in Nat
  PROVE  /\ NextRunAfter(i, after) \in Nat /\ NextRunAfter(i, after) >= after
         /\ \A due \in Nat : due <= after => NextRunAfter(i, after) - due >= Gap(i, due)
         /\ \A due \in Nat : Gap(i, due) \in Nat
<1>1. PICK e \in Nat, occ \in SUBSET Nat : e = Registered[i].every /\ occ = Registered[i].occurrences
  BY TaskIs
<1>2. \A due \in Nat : Gap(i, due) = IF e # 0 THEN e ELSE IF \E o \in occ : o > due THEN 1 ELSE 0
  BY <1>1 DEF Gap
<1>3. CASE e # 0
  <2>1. NextRunAfter(i, after) = after + e
    BY <1>1, <1>3 DEF NextRunAfter
  <2> QED BY <1>2, <1>3, <2>1
<1>4. CASE e = 0
  <2> DEFINE later == {o \in occ : o > after}
  <2>1. NextRunAfter(i, after) = IF later = {} THEN after ELSE Min(later)
    BY <1>1, <1>4 DEF NextRunAfter
  <2>2. CASE later = {}
    BY <1>2, <1>4, <2>1, <2>2
  <2>3. CASE later # {}
    <3>1. Min(later) \in later
      BY <2>3, MinIs
    <3>2. Min(later) \in Nat /\ Min(later) > after
      BY <3>1
    <3>3. NextRunAfter(i, after) = Min(later)
      BY <2>1, <2>3
    <3> HIDE DEF later
    <3> QED BY <1>2, <1>4, <3>2, <3>3
  <2> QED BY <2>2, <2>3
<1> QED BY <1>3, <1>4

\* A power of two is at least one.
LEMMA PowerIs == \A k \in Nat : 2 ^ k \in Nat /\ 2 ^ k >= 1
<1> SUFFICES ASSUME NEW k \in Nat PROVE 2 ^ k \in Nat /\ 2 ^ k >= 1
  OBVIOUS
<1>1. IsFiniteSet(1 .. k) /\ Cardinality(1 .. k) = k
  BY FS_Interval
<1>2. IsFiniteSet(SUBSET (1 .. k)) /\ Cardinality(SUBSET (1 .. k)) = 2 ^ k
  BY <1>1, FS_SUBSET
<1>3. Cardinality(SUBSET (1 .. k)) \in Nat /\ Cardinality(SUBSET (1 .. k)) # 0
  <2>1. SUBSET (1 .. k) # {}
    OBVIOUS
  <2> QED BY <1>2, <2>1, FS_EmptySet, FS_CardinalityType
<1> QED BY <1>2, <1>3

\* The back-off is a positive delay of at most BackoffMax.
LEMMA BackoffIs ==
  ASSUME NEW n \in Nat
  PROVE  /\ Backoff(n) \in Nat /\ Backoff(n) <= BackoffMax
         /\ Backoff(n) >= Lesser(BackoffMin, BackoffMax)
<1>1. PICK p \in Nat : p = 2 ^ Lesser(Greater(n - 1, 0), MaxExponent) /\ p >= 1
  <2>1. Lesser(Greater(n - 1, 0), MaxExponent) \in Nat
    BY SchedulerAssumption DEF Lesser, Greater
  <2> QED BY <2>1, PowerIs
<1>2. Backoff(n) = Lesser(BackoffMin * p, BackoffMax)
  BY <1>1 DEF Backoff
<1>3. \A a \in Nat : a * p \in Nat /\ a * p >= a
  BY <1>1
<1>4. BackoffMin * p \in Nat /\ BackoffMin * p >= BackoffMin
  BY <1>3, SchedulerAssumption
<1> QED BY <1>2, <1>4, SchedulerAssumption DEF Lesser

-----------------------------------------------------------------------------
(* The runs of one task, and what the next instant is to them.               *)

Follows(s, next, i, now) ==
  /\ s \in Seq(Run) /\ next \in Nat
  /\ \A k \in 1 .. Len(s) : s[k].due <= s[k].began /\ s[k].began <= now
  /\ \A k \in 1 .. Len(s) - 1 : s[k + 1].due - s[k].due >= Gap(i, s[k].due)
  /\ \A k \in 1 .. Len(s), j \in 1 .. Len(s) : j > k + 1 => s[j].due > s[k].began
  /\ Len(s) # 0 => next - s[Len(s)].due >= Gap(i, s[Len(s)].due)
  /\ \A k \in 1 .. Len(s) - 1 : next > s[k].began

AllBefore(s, instant) == \A k \in 1 .. Len(s) : s[k].began < instant

\* A run that begins when it is due, later than all others.
LEMMA RunFollows ==
  ASSUME NEW i \in Indices, NEW next, NEW s, NEW now \in Nat, NEW begun \in Nat,
         Follows(s, next, i, now), AllBefore(s, begun), begun <= now, next <= begun
  PROVE  Follows(Append(s, [due |-> next, began |-> now]), NextRunAfter(i, begun), i, now)
<1>1. PICK n \in Nat : n = Len(s) /\ s \in Seq(Run) /\ DOMAIN s = 1 .. n /\ next \in Nat
  BY DEF Follows
<1>2. PICK r \in Run : r = [due |-> next, began |-> now] /\ r.due = next /\ r.began = now
  <2>1. [due |-> next, began |-> now] \in Run
    BY <1>1 DEF Run
  <2> QED BY <2>1
<1>3. PICK c \in Seq(Run) :
        /\ c = Append(s, r) /\ Len(c) = n + 1 /\ c[n + 1] = r
        /\ \A k \in 1 .. n : c[k] = s[k]
  <2>1. /\ Append(s, r) \in Seq(Run) /\ Len(Append(s, r)) = Len(s) + 1
        /\ Append(s, r)[Len(s) + 1] = r
        /\ \A k \in 1 .. Len(s) : Append(s, r)[k] = s[k]
    BY <1>1, AppendProperties
  <2> QED BY <1>1, <2>1, Zenon
<1>4. PICK later \in Nat :
        /\ later = NextRunAfter(i, begun) /\ later >= begun
        /\ \A due \in Nat : due <= begun => later - due >= Gap(i, due)
  BY NextRunIs
<1>5. \A k \in 1 .. n : s[k] \in Run /\ s[k].due \in Nat /\ s[k].began \in Nat
  <2>1. \A k \in 1 .. n : s[k] \in Run
    BY <1>1, ElementOfSeq
  <2> QED BY <2>1 DEF Run
<1>6. \A k \in 1 .. n + 1 : k \in 1 .. n \/ k = n + 1
  BY <1>1
<1>7. \A k \in 1 .. n + 1 : c[k].due <= c[k].began /\ c[k].began <= now
  <2>1. \A k \in 1 .. n : s[k].due <= s[k].began /\ s[k].began <= now
    BY <1>1 DEF Follows
  <2> QED BY <1>1, <1>2, <1>3, <1>6, <2>1
<1>8. ASSUME NEW k \in 1 .. (n + 1) - 1 PROVE c[k + 1].due - c[k].due >= Gap(i, c[k].due)
  <2>1. CASE k = n
    <3>1. next - s[n].due >= Gap(i, s[n].due)
      BY <1>1, <2>1 DEF Follows
    <3> QED BY <1>2, <1>3, <2>1, <3>1
  <2>2. CASE k # n
    <3>1. k \in 1 .. n - 1 /\ k \in 1 .. n /\ k + 1 \in 1 .. n
      BY <2>2
    <3>2. s[k + 1].due - s[k].due >= Gap(i, s[k].due)
      BY <1>1, <3>1 DEF Follows
    <3> QED BY <1>3, <3>1, <3>2
  <2> QED BY <2>1, <2>2
<1>9. ASSUME NEW k \in 1 .. n + 1, NEW j \in 1 .. n + 1, j > k + 1 PROVE c[j].due > c[k].began
  <2>1. k \in 1 .. n /\ c[k] = s[k]
    BY <1>3, <1>9
  <2>2. CASE j \in 1 .. n
    <3>1. s[j].due > s[k].began
      BY <1>1, <1>9, <2>1, <2>2 DEF Follows
    <3> QED BY <1>3, <2>1, <2>2, <3>1
  <2>3. CASE j = n + 1
    <3>1. k \in 1 .. n - 1
      BY <1>9, <2>3
    <3>2. next > s[k].began
      BY <1>1, <3>1 DEF Follows
    <3> QED BY <1>2, <1>3, <2>1, <2>3, <3>2
  <2> QED BY <1>6, <2>2, <2>3
<1>10. later - c[n + 1].due >= Gap(i, c[n + 1].due)
  BY <1>1, <1>2, <1>3, <1>4
<1>11. ASSUME NEW k \in 1 .. (n + 1) - 1 PROVE later > c[k].began
  <2>1. k \in 1 .. n
    OBVIOUS
  <2>2. s[k].began < begun
    BY <1>1, <2>1 DEF AllBefore
  <2> QED BY <1>3, <1>4, <1>5, <2>1, <2>2
<1>12. Follows(c, later, i, now)
  BY <1>3, <1>4, <1>7, <1>8, <1>9, <1>10, <1>11 DEF Follows
<1> QED BY <1>2, <1>3, <1>4, <1>12

\* The runs stay as they are while time passes, and come before any later pass.
LEMMA RunsAge ==
  ASSUME NEW s, NEW next, NEW i, NEW now \in Nat, Follows(s, next, i, now), NEW later \in Nat, later >= now
  PROVE  Follows(s, next, i, later) /\ (later > now => AllBefore(s, later))
<1>1. PICK n \in Nat : n = Len(s) /\ s \in Seq(Run)
  BY DEF Follows
<1>2. \A k \in 1 .. n : s[k].began \in Nat
  <2>1. \A k \in 1 .. n : s[k] \in Run
    BY <1>1, ElementOfSeq
  <2> QED BY <2>1 DEF Run
<1>3. \A k \in 1 .. n : s[k].due <= s[k].began /\ s[k].began <= now
  BY <1>1 DEF Follows
<1>4. \A k \in 1 .. n : s[k].began <= later /\ (later > now => s[k].began < later)
  BY <1>2, <1>3
<1>5. Follows(s, next, i, later)
  BY <1>1, <1>3, <1>4 DEF Follows
<1> QED BY <1>1, <1>4, <1>5 DEF AllBefore

-----------------------------------------------------------------------------
(* The loop of the scheduler.                                                *)

\* The task has run in the pass at hand.
Ran(i) == i < turn \/ (i = turn /\ loop = "task")

\* What is known of a task: its runs follow its schedule, and those of earlier
\* passes began before this pass, or before the loop lay down.
TaskInv(i) ==
  /\ nextRuns[i] \in Nat /\ overdue[i] \in Nat
  /\ Follows(runs[i], nextRuns[i], i, IF loop = "asleep" THEN sleptAt ELSE time)
  /\ loop \in {"pass", "task"} /\ ~Ran(i) => AllBefore(runs[i], started)

\* How long the loop may sleep for a task.
SleepsFor(i) ==
  wakeAt <= IF nextRuns[i] >= sleptAt THEN Greater(nextRuns[i], sleptAt + MinSleep)
            ELSE sleptAt + BackoffMax

SchedulerInv ==
  /\ time \in Nat /\ started \in Nat /\ started <= time
  /\ loop \in {"pass", "task", "asleep", "stopped"}
  /\ turn \in Nat \ {0} /\ (loop = "task" => turn \in Indices)
  /\ nextRuns \in [Indices -> Nat] /\ overdue \in [Indices -> Nat]
  /\ runs \in [Indices -> Seq(Run)]
  /\ loop # "stopped" => Indices # {}
  /\ sleptAt \in Nat /\ wakeAt \in Nat
  /\ loop = "asleep" =>
       /\ sleptAt <= time
       /\ wakeAt >= sleptAt + Lesser(MinSleep, Lesser(BackoffMin, BackoffMax))
       /\ \A i \in Indices : SleepsFor(i)
  /\ \A i \in Indices : TaskInv(i)

\* A task that a step leaves alone.
LEMMA TaskStays ==
  ASSUME SchedulerInv, NEW i \in Indices,
         loop' \in {"pass", "task", "stopped"}, loop \in {"pass", "task", "asleep"},
         time' \in Nat, time' >= time, nextRuns'[i] = nextRuns[i], overdue'[i] \in Nat, runs'[i] = runs[i],
         \/ loop' = "stopped"
         \/ loop # "asleep" /\ started' = started /\ (Ran(i) => Ran(i)')
         \/ loop = "asleep" /\ started' \in Nat /\ started' <= time' /\ started' > sleptAt
  PROVE  TaskInv(i)'
<1>1. PICK now \in Nat : now = (IF loop = "asleep" THEN sleptAt ELSE time) /\ time' >= now
  BY DEF SchedulerInv
<1>2. TaskInv(i)
  BY DEF SchedulerInv
<1>3. Follows(runs[i], nextRuns[i], i, now)
  BY <1>1, <1>2 DEF TaskInv
<1>4. Follows(runs[i], nextRuns[i], i, time')
  BY <1>1, <1>3, RunsAge
<1>5. loop' # "asleep" /\ nextRuns'[i] \in Nat /\ overdue'[i] \in Nat
  BY <1>2 DEF TaskInv
<1>6. Follows(runs'[i], nextRuns'[i], i, IF loop' = "asleep" THEN sleptAt' ELSE time')
  BY <1>4, <1>5
<1>7. loop' \in {"pass", "task"} /\ ~Ran(i)' => AllBefore(runs'[i], started')
  <2>1. CASE loop # "asleep" /\ started' = started /\ (Ran(i) => Ran(i)')
    BY <1>2, <2>1 DEF TaskInv
  <2>2. CASE loop = "asleep" /\ started' \in Nat /\ started' <= time' /\ started' > sleptAt
    <3>1. now = sleptAt
      BY <1>1, <2>2
    <3>2. AllBefore(runs[i], started')
      BY <1>3, <2>2, <3>1, RunsAge
    <3> QED BY <3>2
  <2> QED BY <2>1, <2>2
<1> QED BY <1>5, <1>6, <1>7 DEF TaskInv

\* The delays that the tasks ask for, of which the loop takes the shortest.
LEMMA SleepIs ==
  ASSUME SchedulerInv, Indices # {}
  PROVE  LET d == Min({SleepFor(i) : i \in Indices})
         IN  /\ d \in Nat /\ d >= Lesser(MinSleep, Lesser(BackoffMin, BackoffMax))
             /\ \A i \in Indices :
                  time + d <= IF nextRuns[i] >= time THEN Greater(nextRuns[i], time + MinSleep)
                              ELSE time + BackoffMax
<1>1. ASSUME NEW i \in Indices
      PROVE  /\ SleepFor(i) \in Nat /\ SleepFor(i) >= Lesser(MinSleep, Lesser(BackoffMin, BackoffMax))
             /\ time + SleepFor(i) <= IF nextRuns[i] >= time THEN Greater(nextRuns[i], time + MinSleep)
                                      ELSE time + BackoffMax
  <2>1. PICK m \in Nat, next \in Nat, now \in Nat :
          m = MinSleep /\ next = nextRuns[i] /\ now = time
    BY SchedulerAssumption DEF SchedulerInv
  <2>2. PICK b \in Nat : b = Backoff(overdue[i]) /\ b <= BackoffMax /\ b >= Lesser(BackoffMin, BackoffMax)
    <3>1. overdue[i] \in Nat
      BY DEF SchedulerInv
    <3> QED BY <3>1, BackoffIs
  <2>3. PICK l \in Nat : l = Lesser(BackoffMin, BackoffMax)
    BY SchedulerAssumption DEF Lesser
  <2>4. SleepFor(i) = IF next >= now THEN Greater(next - now, m) ELSE b
    BY <2>1, <2>2 DEF SleepFor
  <2>5. CASE next >= now
    <3>1. SleepFor(i) = IF next - now > m THEN next - now ELSE m
      BY <2>4, <2>5 DEF Greater
    <3>2. SleepFor(i) \in Nat /\ SleepFor(i) >= m
      BY <2>5, <3>1
    <3>3. SleepFor(i) >= Lesser(m, l)
      BY <3>2 DEF Lesser
    <3>4. now + SleepFor(i) <= Greater(next, now + m)
      BY <2>5, <3>1 DEF Greater
    <3> QED BY <2>1, <2>3, <2>5, <3>2, <3>3, <3>4
  <2>6. CASE ~(next >= now)
    <3>1. SleepFor(i) = b /\ Lesser(m, l) <= l
      BY <2>4, <2>6 DEF Lesser
    <3>2. SleepFor(i) >= Lesser(m, l)
      <4>1. Lesser(m, l) \in Nat
        BY DEF Lesser
      <4> QED BY <2>2, <2>3, <3>1, <4>1
    <3>3. now + b <= now + BackoffMax
      BY <2>2, SchedulerAssumption
    <3> QED BY <2>1, <2>2, <2>3, <2>6, <3>1, <3>2, <3>3
  <2> QED BY <2>5, <2>6
<1> DEFINE T == {SleepFor(i) : i \in Indices}
<1>2. T \in SUBSET Nat /\ T # {}
  BY <1>1
<1>3. Min(T) \in T /\ \A m \in T : Min(T) <= m
  BY <1>2, MinIs
<1>4. PICK j \in Indices : Min(T) = SleepFor(j)
  BY <1>3
<1>5. Min(T) \in Nat /\ Min(T) >= Lesser(MinSleep, Lesser(BackoffMin, BackoffMax))
  BY <1>1, <1>4
<1>6. ASSUME NEW i \in Indices
      PROVE  time + Min(T) <= IF nextRuns[i] >= time THEN Greater(nextRuns[i], time + MinSleep)
                              ELSE time + BackoffMax
  <2>1. SleepFor(i) \in Nat /\ Min(T) <= SleepFor(i)
    BY <1>1, <1>3
  <2>2. PICK bound \in Nat :
          bound = IF nextRuns[i] >= time THEN Greater(nextRuns[i], time + MinSleep) ELSE time + BackoffMax
    <3>1. nextRuns[i] \in Nat /\ time \in Nat /\ MinSleep \in Nat /\ BackoffMax \in Nat
      BY SchedulerAssumption DEF SchedulerInv
    <3>2. Greater(nextRuns[i], time + MinSleep) \in Nat /\ time + BackoffMax \in Nat
      BY <3>1 DEF Greater
    <3> QED BY <3>2
  <2>3. time + SleepFor(i) <= bound
    BY <1>1, <2>2
  <2>4. time + Min(T) <= time + SleepFor(i)
    BY <1>5, <2>1 DEF SchedulerInv
  <2>5. time \in Nat
    BY DEF SchedulerInv
  <2> HIDE DEF T
  <2>6. time + Min(T) <= bound
    BY <1>5, <2>1, <2>3, <2>4, <2>5
  <2> QED BY <2>2, <2>6
<1> QED BY <1>5, <1>6

\* The first pass begins with nothing run.
LEMMA SchedulerBegins == SchedulerInit => SchedulerInv
<1> SUFFICES ASSUME SchedulerInit PROVE SchedulerInv
  OBVIOUS
<1> USE DEF SchedulerInit
<1>1. ASSUME NEW i \in Indices PROVE nextRuns[i] \in Nat
  <2>1. nextRuns[i] = IF Registered[i].every # 0 THEN Registered[i].every
                      ELSE LET later == {o \in Registered[i].occurrences : o > 0}
                           IN  IF later = {} THEN 0 ELSE Min(later)
    OBVIOUS
  <2>2. Registered[i].every \in Nat /\ Registered[i].occurrences \in SUBSET Nat
    BY TaskIs
  <2> DEFINE later == {o \in Registered[i].occurrences : o > 0}
  <2>3. later # {} => Min(later) \in later
    <3>1. later \in SUBSET Nat
      BY <2>2
    <3> HIDE DEF later
    <3> QED BY <3>1, MinIs
  <2> QED BY <2>1, <2>2, <2>3
<1>2. nextRuns \in [Indices -> Nat] /\ overdue \in [Indices -> Nat] /\ runs \in [Indices -> Seq(Run)]
  <2> DEFINE first(i) == IF Registered[i].every # 0 THEN Registered[i].every
                         ELSE LET later == {o \in Registered[i].occurrences : o > 0}
                              IN  IF later = {} THEN 0 ELSE Min(later)
  <2>1. nextRuns = [i \in Indices |-> first(i)]
    OBVIOUS
  <2> HIDE DEF first
  <2>2. nextRuns \in [Indices -> Nat]
    BY <1>1, <2>1
  <2>3. overdue \in [Indices -> Nat]
    OBVIOUS
  <2>4. <<>> \in Seq(Run)
    OBVIOUS
  <2>5. runs \in [Indices -> Seq(Run)]
    BY <2>4
  <2> QED BY <2>2, <2>3, <2>5
<1>3. loop # "stopped" => Indices # {}
  <2>1. Registered # <<>> => Indices # {}
    <3>1. Registered \in Seq(Tasks)
      BY TasksAssumption
    <3> QED BY <3>1 DEF Indices
  <2> QED BY <2>1
<1>4. ASSUME NEW i \in Indices PROVE TaskInv(i)
  <2>1. runs[i] = <<>> /\ overdue[i] \in Nat /\ Len(<<>>) = 0 /\ <<>> \in Seq(Run)
    BY <1>2
  <2>2. Follows(<<>>, nextRuns[i], i, time) /\ AllBefore(<<>>, started)
    <3>1. Len(<<>>) = 0 /\ <<>> \in Seq(Run) /\ 1 .. 0 = {} /\ 1 .. 0 - 1 = {}
      OBVIOUS
    <3> HIDE DEF SchedulerInit
    <3> QED BY <1>1, <3>1 DEF Follows, AllBefore
  <2> QED BY <1>1, <2>1, <2>2 DEF TaskInv
<1>5. /\ time = 0 /\ started = 0 /\ turn = 1 /\ sleptAt = 0 /\ wakeAt = 0
      /\ loop \in {"pass", "stopped"}
  OBVIOUS
<1> HIDE DEF SchedulerInit
<1> QED BY <1>2, <1>3, <1>4, <1>5 DEF SchedulerInv

\* What SchedulerInv says apart from the single tasks and the sleep.
LoopTyped ==
  /\ time \in Nat /\ started \in Nat /\ started <= time
  /\ loop \in {"pass", "task", "asleep", "stopped"}
  /\ turn \in Nat \ {0} /\ (loop = "task" => turn \in Indices)
  /\ nextRuns \in [Indices -> Nat] /\ overdue \in [Indices -> Nat]
  /\ runs \in [Indices -> Seq(Run)]
  /\ loop # "stopped" => Indices # {}
  /\ sleptAt \in Nat /\ wakeAt \in Nat

\* Every step keeps the runs on their schedules and the sleep computed.
LEMMA SchedulerStep == ASSUME SchedulerInv, [SchedulerNext]_schedulerVars PROVE SchedulerInv'
<1>1. CASE SkipTask
  <2>1. LoopTyped' /\ loop' # "asleep"
    BY <1>1 DEF SkipTask, sleepVars, SchedulerInv, LoopTyped
  <2>2. ASSUME NEW i \in Indices PROVE TaskInv(i)'
    <3>1. Ran(i) => Ran(i)'
      <4>1. i \in Nat /\ turn \in Nat /\ turn' = turn + 1 /\ loop = "pass"
        BY <1>1, TaskIs DEF SkipTask, SchedulerInv
      <4> QED BY <4>1 DEF Ran
    <3>2. /\ loop' = "pass" /\ loop = "pass" /\ time' = time /\ time' \in Nat /\ started' = started
          /\ nextRuns' = nextRuns /\ runs' = runs /\ overdue'[i] \in Nat
      BY <1>1, <2>1 DEF SkipTask, SchedulerInv, LoopTyped
    <3> QED BY <3>1, <3>2, TaskStays
  <2> QED BY <2>1, <2>2 DEF SchedulerInv, LoopTyped
<1>2. CASE StartTask
  <2>1. PICK r \in Run : r = [due |-> nextRuns[turn], began |-> time]
    <3>1. [due |-> nextRuns[turn], began |-> time] \in Run
      BY <1>2 DEF StartTask, SchedulerInv, Run
    <3> QED BY <3>1
  <2>2. NextRunAfter(turn, started) \in Nat
    BY <1>2, NextRunIs DEF StartTask, SchedulerInv
  <2>3. /\ loop = "pass" /\ loop' = "task" /\ turn \in Indices /\ nextRuns[turn] <= started
        /\ nextRuns' = [nextRuns EXCEPT ![turn] = NextRunAfter(turn, started)]
        /\ runs' = [runs EXCEPT ![turn] = Append(runs[turn], r)]
        /\ UNCHANGED <<time, turn, started, overdue, sleepVars>>
    BY <1>2, <2>1 DEF StartTask
  <2>4. Append(runs[turn], r) \in Seq(Run)
    <3>1. runs[turn] \in Seq(Run)
      BY <2>3 DEF SchedulerInv
    <3> QED BY <2>1, <3>1, AppendProperties
  <2>5. LoopTyped'
    BY <2>2, <2>3, <2>4 DEF sleepVars, SchedulerInv, LoopTyped
  <2>6. ASSUME NEW i \in Indices PROVE TaskInv(i)'
    <3>1. CASE i = turn
      <4>1. Follows(runs[i], nextRuns[i], i, time) /\ AllBefore(runs[i], started)
        <5>1. TaskInv(i) /\ ~Ran(i)
          BY <2>3, <3>1 DEF SchedulerInv, Ran
        <5> QED BY <2>3, <5>1 DEF TaskInv
      <4>2. time \in Nat /\ started \in Nat /\ started <= time /\ nextRuns[i] <= started
        BY <2>3, <3>1 DEF SchedulerInv
      <4>3. Follows(Append(runs[i], [due |-> nextRuns[i], began |-> time]), NextRunAfter(i, started), i, time)
        BY <4>1, <4>2, RunFollows
      <4>4. /\ runs'[i] = Append(runs[i], [due |-> nextRuns[i], began |-> time])
            /\ nextRuns'[i] = NextRunAfter(i, started) /\ overdue'[i] \in Nat
        BY <2>1, <2>3, <3>1 DEF SchedulerInv
      <4>5. Follows(runs'[i], nextRuns'[i], i, time')
        BY <2>3, <4>3, <4>4
      <4>6. Ran(i)' /\ nextRuns'[i] \in Nat
        BY <2>2, <2>3, <3>1, <4>4 DEF Ran
      <4> QED BY <2>3, <4>4, <4>5, <4>6 DEF TaskInv
    <3>2. CASE i # turn
      <4>1. nextRuns'[i] = nextRuns[i] /\ runs'[i] = runs[i] /\ overdue'[i] \in Nat
        BY <2>3, <3>2 DEF SchedulerInv
      <4>2. time' = time /\ time' \in Nat /\ started' = started /\ (Ran(i) => Ran(i)')
        BY <2>3 DEF SchedulerInv, Ran
      <4> QED BY <2>3, <4>1, <4>2, TaskStays
    <3> QED BY <3>1, <3>2
  <2> QED BY <2>3, <2>5, <2>6 DEF SchedulerInv, LoopTyped
<1>3. CASE RunTask
  <2>1. CASE UNCHANGED <<loop, turn, overdue>>
    <3>1. UNCHANGED <<time, loop, turn, overdue, started, nextRuns, sleptAt, wakeAt, runs>> /\ loop = "task"
      BY <1>3, <2>1 DEF RunTask, sleepVars
    <3> QED BY <3>1 DEF SchedulerInv, TaskInv, Ran
  <2>2. CASE EndTask
    <3>1. /\ loop = "task" /\ loop' = "pass" /\ turn' = turn + 1
          /\ UNCHANGED <<time, started, nextRuns, sleptAt, wakeAt, runs>>
          /\ overdue' = [overdue EXCEPT ![turn] =
                           IF nextRuns[turn] <= time THEN Lesser(overdue[turn] + 1, MaxExponent + 1) ELSE 0]
      BY <1>3, <2>2 DEF RunTask, EndTask, sleepVars
    <3>2. turn \in Indices /\ overdue \in [Indices -> Nat]
      BY <3>1 DEF SchedulerInv
    <3>3. Lesser(overdue[turn] + 1, MaxExponent + 1) \in Nat
      BY <3>2, SchedulerAssumption DEF Lesser
    <3>4. overdue' \in [Indices -> Nat]
      BY <3>1, <3>2, <3>3
    <3>5. LoopTyped'
      BY <3>1, <3>4 DEF SchedulerInv, LoopTyped
    <3>6. ASSUME NEW i \in Indices PROVE TaskInv(i)'
      <4>1. Ran(i) => Ran(i)'
        BY <3>1, TaskIs DEF Ran, SchedulerInv
      <4>2. /\ time' = time /\ time' \in Nat /\ started' = started
            /\ nextRuns' = nextRuns /\ runs' = runs /\ overdue'[i] \in Nat
        BY <3>1, <3>4 DEF SchedulerInv
      <4> QED BY <3>1, <4>1, <4>2, TaskStays
    <3> QED BY <3>1, <3>5, <3>6 DEF SchedulerInv, LoopTyped
  <2> QED BY <1>3, <2>1, <2>2 DEF RunTask
<1>4. CASE GoToSleep
  <2>1. /\ loop = "pass" /\ loop' = "asleep" /\ sleptAt' = time
        /\ wakeAt' = time + Min({SleepFor(i) : i \in Indices})
        /\ UNCHANGED <<time, turn, started, nextRuns, overdue, runs>>
    BY <1>4 DEF GoToSleep, passVars
  <2>2. PICK d \in Nat :
          /\ d = Min({SleepFor(i) : i \in Indices})
          /\ d >= Lesser(MinSleep, Lesser(BackoffMin, BackoffMax))
          /\ \A i \in Indices :
               time + d <= IF nextRuns[i] >= time THEN Greater(nextRuns[i], time + MinSleep)
                           ELSE time + BackoffMax
    <3>1. Indices # {}
      BY <2>1 DEF SchedulerInv
    <3> QED BY <3>1, SleepIs
  <2>3. wakeAt' = time + d /\ time \in Nat
    BY <2>1, <2>2 DEF SchedulerInv
  <2>4. LoopTyped'
    BY <2>1, <2>3 DEF SchedulerInv, LoopTyped
  <2>5. wakeAt' >= sleptAt' + Lesser(MinSleep, Lesser(BackoffMin, BackoffMax))
    <3>1. Lesser(MinSleep, Lesser(BackoffMin, BackoffMax)) \in Nat
      BY SchedulerAssumption DEF Lesser
    <3> QED BY <2>1, <2>2, <2>3, <3>1
  <2>6. ASSUME NEW i \in Indices PROVE SleepsFor(i)'
    BY <2>1, <2>2, <2>3 DEF SleepsFor
  <2>7. ASSUME NEW i \in Indices PROVE TaskInv(i)'
    <3>1. TaskInv(i)
      BY DEF SchedulerInv
    <3> QED BY <2>1, <3>1 DEF TaskInv
  <2>8. sleptAt' <= time'
    BY <2>1, <2>3
  <2> QED BY <2>4, <2>5, <2>6, <2>7, <2>8 DEF SchedulerInv, LoopTyped
<1>5. CASE WakeUp
  <2>1. /\ loop = "asleep" /\ loop' = "pass" /\ time >= wakeAt /\ turn' = 1 /\ started' = time
        /\ UNCHANGED <<time, nextRuns, overdue, sleptAt, wakeAt, runs>>
    BY <1>5 DEF WakeUp, sleepVars
  <2>2. LoopTyped'
    BY <2>1 DEF SchedulerInv, LoopTyped
  <2>3. started' > sleptAt
    <3>1. PICK l \in Nat : l = Lesser(MinSleep, Lesser(BackoffMin, BackoffMax)) /\ l > 0
      BY SchedulerAssumption DEF Lesser
    <3>2. wakeAt >= sleptAt + l /\ sleptAt \in Nat /\ wakeAt \in Nat /\ time \in Nat
      BY <2>1, <3>1 DEF SchedulerInv
    <3> QED BY <2>1, <3>1, <3>2
  <2>4. ASSUME NEW i \in Indices PROVE TaskInv(i)'
    <3>1. time' = time /\ time' \in Nat /\ started' \in Nat /\ started' <= time' /\ overdue'[i] \in Nat
      BY <2>1 DEF SchedulerInv
    <3> QED BY <2>1, <2>3, <3>1, TaskStays
  <2> QED BY <2>1, <2>2, <2>4 DEF SchedulerInv, LoopTyped
<1>6. CASE Stop
  <2>1. /\ loop = "asleep" /\ loop' = "stopped"
        /\ UNCHANGED <<time, turn, started, nextRuns, overdue, sleptAt, wakeAt, runs>>
    BY <1>6 DEF Stop, passVars, sleepVars
  <2>2. LoopTyped'
    BY <2>1 DEF SchedulerInv, LoopTyped
  <2>3. ASSUME NEW i \in Indices PROVE TaskInv(i)'
    <3>1. time' = time /\ time' \in Nat /\ overdue'[i] \in Nat
      BY <2>1 DEF SchedulerInv
    <3> QED BY <2>1, <3>1, TaskStays
  <2> QED BY <2>1, <2>2, <2>3 DEF SchedulerInv, LoopTyped
<1>7. CASE TimePasses
  <2>1. /\ loop \in {"task", "asleep"} /\ time' = time + 1
        /\ UNCHANGED <<loop, turn, started, nextRuns, overdue, sleptAt, wakeAt, runs>>
    BY <1>7 DEF TimePasses, passVars, sleepVars
  <2>2. LoopTyped' /\ time' >= time
    BY <2>1 DEF SchedulerInv, LoopTyped
  <2>3. ASSUME NEW i \in Indices PROVE TaskInv(i)'
    <3>1. CASE loop = "asleep"
      <4>1. TaskInv(i)
        BY DEF SchedulerInv
      <4> QED BY <2>1, <3>1, <4>1 DEF TaskInv
    <3>2. CASE loop = "task"
      <4>1. time' \in Nat /\ overdue'[i] \in Nat /\ (Ran(i) => Ran(i)')
        BY <2>1, <2>2 DEF SchedulerInv, LoopTyped, Ran
      <4> QED BY <2>1, <2>2, <3>2, <4>1, TaskStays
    <3> QED BY <2>1, <3>1, <3>2
  <2>4. loop' = "asleep" => sleptAt' <= time'
    BY <2>1 DEF SchedulerInv
  <2>5. \A i \in Indices : SleepsFor(i) => SleepsFor(i)'
    BY <2>1 DEF SleepsFor
  <2> QED BY <2>1, <2>2, <2>3, <2>4, <2>5 DEF SchedulerInv, LoopTyped
<1>8. CASE CancelScheduler \/ UNCHANGED schedulerVars
  <2>1. UNCHANGED <<time, loop, turn, started, nextRuns, overdue, sleptAt, wakeAt, runs>>
    BY <1>8 DEF CancelScheduler, schedulerVars, passVars, sleepVars
  <2> QED BY <2>1 DEF SchedulerInv, TaskInv, Ran, SleepsFor
<1> QED BY <1>1, <1>2, <1>3, <1>4, <1>5, <1>6, <1>7, <1>8 DEF SchedulerNext, SchedulerIdle

(* What the loop keeps: each task's runs follow its schedule up to the next  *)
(* one, and a sleep was computed from what was due then (scheduler.rs 145-173). *)
THEOREM SchedulerInvariant == SchedulerSpec => []SchedulerInv
<1>1. SchedulerInit => SchedulerInv
  BY SchedulerBegins
<1>2. SchedulerInv /\ [SchedulerNext]_schedulerVars => SchedulerInv'
  BY SchedulerStep
<1> QED BY <1>1, <1>2, PTL DEF SchedulerSpec

(* Whatever the schedules are and however long the tasks run, no run begins  *)
(* before it is due, missed occurrences are made up for by one run, and the  *)
(* instants of a fixed interval stay an interval apart (lines 145-158).      *)
THEOREM ScheduleIsFollowed == SchedulerSpec => []RunsFollowSchedule
<1>1. SchedulerInv => RunsFollowSchedule
  <2> SUFFICES ASSUME SchedulerInv, NEW i \in Indices
               PROVE  /\ \A k \in DOMAIN runs[i] : runs[i][k].due <= runs[i][k].began
                      /\ \A k \in DOMAIN runs[i] : k + 1 \in DOMAIN runs[i] =>
                           /\ runs[i][k + 1].due - runs[i][k].due >= Gap(i, runs[i][k].due)
                           /\ \A j \in DOMAIN runs[i] : j > k + 1 => runs[i][j].due > runs[i][k].began
    BY DEF RunsFollowSchedule
  <2>1. PICK now : Follows(runs[i], nextRuns[i], i, now)
    BY DEF SchedulerInv, TaskInv
  <2>2. PICK s \in Seq(Run), n \in Nat : s = runs[i] /\ n = Len(s) /\ DOMAIN s = 1 .. n
    <3>1. runs[i] \in Seq(Run)
      BY DEF SchedulerInv
    <3> QED BY <3>1
  <2>3. /\ \A k \in 1 .. n : s[k].due <= s[k].began
        /\ \A k \in 1 .. n - 1 : s[k + 1].due - s[k].due >= Gap(i, s[k].due)
        /\ \A k \in 1 .. n, j \in 1 .. n : j > k + 1 => s[j].due > s[k].began
    BY <2>1, <2>2 DEF Follows
  <2>4. \A k \in 1 .. n : k + 1 \in 1 .. n => k \in 1 .. n - 1
    OBVIOUS
  <2> QED BY <2>2, <2>3, <2>4
<1> QED BY <1>1, SchedulerInvariant, PTL

(* The loop never sleeps past a task that is not overdue, nor longer than    *)
(* the longest back-off past one that is, and it never spins, for every      *)
(* delay and every exponent of the back-off (lines 161-173, 326-341).        *)
THEOREM SleepsAsLongAsItMay == SchedulerSpec => []NeverOversleeps
<1>1. SchedulerInv => NeverOversleeps
  BY DEF SchedulerInv, SleepsFor, NeverOversleeps
<1> QED BY <1>1, SchedulerInvariant, PTL

-----------------------------------------------------------------------------
(* The memories and their full-text index (Store).  That the index mirrors  *)
(* the table is inductive once it is known that no two memories share the    *)
(* id by which the search joins them: an id that an upsert keeps is the      *)
(* row's own, and a new one is above all that were given out.                *)
MemoryRow == [id : Nat, text : Texts]

Known == {k \in Keys : memories[k] # Unset}

MemoryInv ==
  /\ nextMem \in Nat
  /\ memories \in [Keys -> MemoryRow \cup {Unset}]
  /\ \A k \in Known : memories[k].id < nextMem
  /\ \A k, l \in Known : memories[k].id = memories[l].id => k = l
  /\ index = {Indexed(k, memories[k]) : k \in Known}

\* The empty tables.
LEMMA MemoryBegins == StoreInit => MemoryInv
<1> SUFFICES ASSUME StoreInit PROVE MemoryInv
  OBVIOUS
<1>1. memories = [k \in Keys |-> Unset] /\ nextMem = 1 /\ index = {}
  BY DEF StoreInit
<1>2. Known = {}
  BY <1>1 DEF Known
<1> QED BY <1>1, <1>2 DEF MemoryInv

\* An upsert changes one row, and takes the old row's entry out of the index
\* without taking another's.
LEMMA MemoryUpsert ==
  ASSUME MemoryInv, NEW k \in Keys, NEW t \in Texts, SaveMemory(k, t)
  PROVE  MemoryInv'
<1> DEFINE fresh == memories[k] = Unset
           new == [id |-> IF fresh THEN nextMem ELSE memories[k].id, text |-> t]
           old == IF fresh THEN {} ELSE {Indexed(k, memories[k])}
<1>1. /\ memories' = [memories EXCEPT ![k] = new]
      /\ nextMem' = IF fresh THEN nextMem + 1 ELSE nextMem
      /\ index' = (index \ old) \cup {Indexed(k, new)}
  BY DEF SaveMemory, AfterUpsert
<1>2. /\ nextMem \in Nat
      /\ memories \in [Keys -> MemoryRow \cup {Unset}]
      /\ \A j \in Known : memories[j] \in MemoryRow /\ memories[j].id < nextMem
      /\ \A j, l \in Known : memories[j].id = memories[l].id => j = l
      /\ index = {Indexed(j, memories[j]) : j \in Known}
  BY DEF MemoryInv, Known
<1>3. new \in MemoryRow /\ new # Unset /\ new.id = IF fresh THEN nextMem ELSE memories[k].id
  <2>1. fresh \/ memories[k].id \in Nat
    BY <1>2 DEF MemoryRow
  <2> QED BY <1>2, <2>1, StoreAssumption DEF MemoryRow
<1>4. ~fresh => k \in Known
  BY DEF Known
<1> HIDE DEF new
<1>5. /\ memories' \in [Keys -> MemoryRow \cup {Unset}]
      /\ memories'[k] = new
      /\ \A j \in Keys : j # k => memories'[j] = memories[j]
  BY <1>1, <1>2, <1>3
<1>6. Known' = Known \cup {k}
  BY <1>3, <1>5 DEF Known
<1>7. nextMem' \in Nat /\ \A j \in Known' : memories'[j].id < nextMem'
  <2> SUFFICES ASSUME NEW j \in Known' PROVE memories'[j].id < nextMem'
    BY <1>1, <1>2
  <2>1. CASE j = k
    BY <1>1, <1>2, <1>3, <1>4, <1>5, <2>1
  <2>2. CASE j # k
    <3>1. j \in Known /\ memories'[j] = memories[j]
      BY <1>5, <1>6, <2>2 DEF Known
    <3>2. memories[j].id < nextMem /\ memories[j].id \in Nat
      BY <1>2, <3>1 DEF MemoryRow
    <3> QED BY <1>1, <1>2, <3>1, <3>2
  <2> QED BY <2>1, <2>2
<1>8. ASSUME NEW j \in Known, j # k PROVE memories[j].id # new.id
  BY <1>2, <1>3, <1>4, <1>8 DEF MemoryRow
<1>9. \A j, l \in Known' : memories'[j].id = memories'[l].id => j = l
  <2> SUFFICES ASSUME NEW j \in Known', NEW l \in Known', memories'[j].id = memories'[l].id
               PROVE  j = l
    OBVIOUS
  <2>1. CASE j = k /\ l # k
    <3>1. l \in Known /\ memories'[l] = memories[l]
      BY <1>5, <1>6, <2>1 DEF Known
    <3> QED BY <1>5, <1>8, <2>1, <3>1
  <2>2. CASE j # k /\ l = k
    <3>1. j \in Known /\ memories'[j] = memories[j]
      BY <1>5, <1>6, <2>2 DEF Known
    <3> QED BY <1>5, <1>8, <2>2, <3>1
  <2>3. CASE j # k /\ l # k
    <3>1. j \in Known /\ memories'[j] = memories[j] /\ l \in Known /\ memories'[l] = memories[l]
      BY <1>5, <1>6, <2>3 DEF Known
    <3> QED BY <1>2, <3>1
  <2> QED BY <2>1, <2>2, <2>3
<1>10. index' = {Indexed(j, memories'[j]) : j \in Known'}
  <2>1. ASSUME NEW e \in index' PROVE \E j \in Known' : e = Indexed(j, memories'[j])
    <3>1. CASE e = Indexed(k, new)
      BY <1>5, <1>6, <3>1
    <3>2. CASE e \in index \ old
      <4>1. PICK j \in Known : e = Indexed(j, memories[j])
        BY <1>2, <3>2
      <4>2. j # k
        BY <3>2, <4>1 DEF Known
      <4>3. memories'[j] = memories[j]
        BY <1>5, <4>2 DEF Known
      <4> QED BY <1>6, <4>1, <4>3
    <3> QED BY <1>1, <2>1, <3>1, <3>2
  <2>2. ASSUME NEW j \in Known' PROVE Indexed(j, memories'[j]) \in index'
    <3>1. CASE j = k
      BY <1>1, <1>5, <3>1
    <3>2. CASE j # k
      <4>1. j \in Known /\ memories'[j] = memories[j]
        BY <1>5, <1>6, <3>2 DEF Known
      <4>2. Indexed(j, memories[j]) \in index
        BY <1>2, <4>1
      <4>3. Indexed(j, memories[j]) \notin old
        BY <3>2 DEF Indexed
      <4> QED BY <1>1, <4>1, <4>2, <4>3
    <3> QED BY <3>1, <3>2
  <2> QED BY <2>1, <2>2
<1>11. MemoryInv' = (/\ nextMem' \in Nat
                     /\ memories' \in [Keys -> MemoryRow \cup {Unset}]
                     /\ \A j \in Known' : memories'[j].id < nextMem'
                     /\ \A j, l \in Known' : memories'[j].id = memories'[l].id => j = l
                     /\ index' = {Indexed(j, memories'[j]) : j \in Known'})
  BY DEF MemoryInv, MemoryRow, Indexed
<1> QED BY <1>5, <1>7, <1>9, <1>10, <1>11

\* Messages, exports and the clock leave the memories alone.
LEMMA MemoryStep == MemoryInv /\ [StoreNext]_storeVars => MemoryInv'
<1> SUFFICES ASSUME MemoryInv, [StoreNext]_storeVars PROVE MemoryInv'
  OBVIOUS
<1>1. CASE MemoriesNext
  BY <1>1, MemoryUpsert DEF MemoriesNext
<1>2. CASE UNCHANGED memoryVars
  BY <1>2 DEF memoryVars, MemoryInv, Known
<1>3. MessagesNext => UNCHANGED memoryVars
  BY DEF MessagesNext, SaveConversation, DeleteSession, ExportSession,
         DeleteSessionsBefore, ImportSession, SetClock
<1> QED BY <1>1, <1>2, <1>3 DEF StoreNext, storeVars

\* The index mirrors the table, for every set of keys and of texts: a search
\* finds a memory by what it says now and by nothing else (lines 292-325,
\* schema.sql).
THEOREM SearchFindsWhatIsThere == StoreSpec => []IndexMirrors
<1>1. MemoryInv => IndexMirrors
  <2> SUFFICES ASSUME MemoryInv, NEW t \in Texts
               PROVE  SearchMemory(t) = {k \in Keys : memories[k] # Unset /\ memories[k].text = t}
    BY DEF MemoryInv, IndexMirrors, Known
  <2>1. ASSUME NEW k \in Keys, memories[k] # Unset, NEW e \in index,
               e.text = t, memories[k].id = e.id
        PROVE  memories[k].text = t
    <3>1. PICK l \in Known : e = Indexed(l, memories[l])
      BY DEF MemoryInv
    <3>2. e.id = memories[l].id /\ e.text = memories[l].text
      BY <3>1 DEF Indexed
    <3>3. k = l
      BY <2>1, <3>2 DEF MemoryInv, Known
    <3> QED BY <2>1, <3>2, <3>3
  <2>2. ASSUME NEW k \in Keys, memories[k] # Unset, memories[k].text = t
        PROVE  \E e \in index : e.text = t /\ memories[k].id = e.id
    <3>1. Indexed(k, memories[k]) \in index
      BY <2>2 DEF MemoryInv, Known
    <3>2. Indexed(k, memories[k]).text = t /\ Indexed(k, memories[k]).id = memories[k].id
      BY <2>2 DEF Indexed
    <3> QED BY <3>1, <3>2
  <2> QED BY <2>1, <2>2 DEF SearchMemory
<1>2. StoreInit => MemoryInv
  BY MemoryBegins
<1>3. MemoryInv /\ [StoreNext]_storeVars => MemoryInv'
  BY MemoryStep
<1> QED BY <1>1, <1>2, <1>3, PTL DEF StoreSpec

-----------------------------------------------------------------------------
(* The audit log (AuditLog).  What has reached the writer, on disk or not,   *)
(* is a log in the order of the events; a write appends to it or stops, and  *)
(* a flush moves the border between the two parts without changing it.       *)
Piece == [event : Nat, size : Nat \ {0}, last : BOOLEAN]

SmallPiece == {p \in Piece : p.size < Capacity}

Writers == [buf : Seq(SmallPiece), out : Seq(Piece), ok : BOOLEAN]

Logged(w) == w.out \o w.buf

Tails(b) == {i \in DOMAIN b : b[i].last}

InOrder(s, n) ==
  /\ \A i, j \in DOMAIN s : i < j => s[i].event <= s[j].event
  /\ \A i \in DOMAIN s : s[i].event <= n

Accounted(whole, done, refused, lost) ==
  \A e \in 1 .. done : e \in whole \/ e \in refused \/ e \in lost

AuditInv ==
  /\ events \in Nat /\ unflushed \in Nat
  /\ disk \in Seq(Piece) /\ buffered \in Seq(SmallPiece)
  /\ Cardinality(Tails(buffered)) <= unflushed
  /\ InOrder(disk \o buffered, events)
  /\ Accounted(WholeIn(disk \o buffered), events, rejected, UNION missing)

\* Buffered pieces are pieces.
LEMMA SmallArePieces == ASSUME NEW b \in Seq(SmallPiece) PROVE b \in Seq(Piece)
<1>1. SmallPiece \subseteq Piece
  BY DEF SmallPiece
<1> QED BY <1>1

\* A buffer that holds no byte holds no piece.
LEMMA HeldIs ==
  ASSUME NEW w \in Writers
  PROVE  Held(w) \in Nat /\ (Held(w) = 0 => w.buf = <<>>)
<1> DEFINE P == {p \in (DOMAIN w.buf) \X (1 .. Capacity) : p[2] <= w.buf[p[1]].size}
<1>1. PICK n \in Nat : n = Len(w.buf) /\ DOMAIN w.buf = 1 .. n /\ w.buf \in Seq(SmallPiece)
  BY DEF Writers
<1>2. IsFiniteSet(1 .. n) /\ IsFiniteSet(1 .. Capacity)
  BY AuditAssumption, FS_Interval
<1>3. IsFiniteSet((1 .. n) \X (1 .. Capacity))
  BY <1>2, FS_Product
<1>4. P \subseteq (1 .. n) \X (1 .. Capacity)
  BY <1>1
<1>5. IsFiniteSet(P) /\ Cardinality(P) \in Nat
  BY <1>3, <1>4, FS_Subset, FS_CardinalityType
<1>6. ASSUME w.buf # <<>> PROVE P # {}
  <2>1. 1 \in 1 .. n
    BY <1>1, <1>6
  <2>2. w.buf[1] \in SmallPiece
    BY <1>1, <2>1
  <2>3. w.buf[1].size \in Nat \ {0} /\ w.buf[1].size < Capacity
    BY <2>2 DEF SmallPiece, Piece
  <2>4. <<1, 1>> \in (DOMAIN w.buf) \X (1 .. Capacity) /\ 1 <= w.buf[1].size
    BY <1>1, <2>1, <2>3, AuditAssumption
  <2>5. <<1, 1>> \in P
    BY <2>4
  <2> QED BY <2>5
<1>7. Held(w) = Cardinality(P)
  BY DEF Held
<1> QED BY <1>5, <1>6, <1>7, FS_EmptySet

\* A flush leaves the log as it was, and empties the buffer if it succeeds.
LEMMA FlushIs ==
  ASSUME NEW w \in Writers, NEW h \in BOOLEAN
  PROVE  /\ FlushBuf(w, h) \in Writers
         /\ Logged(FlushBuf(w, h)) = Logged(w)
         /\ FlushBuf(w, h).buf = <<>> \/ FlushBuf(w, h).buf = w.buf
         /\ FlushBuf(w, h).ok => FlushBuf(w, h).buf = <<>>
<1> DEFINE r == FlushBuf(w, h)
<1>1. w.buf \in Seq(SmallPiece) /\ w.out \in Seq(Piece) /\ w.ok \in BOOLEAN
      /\ w = [buf |-> w.buf, out |-> w.out, ok |-> w.ok]
  BY DEF Writers
<1>2. w.buf \in Seq(Piece) /\ <<>> \in Seq(SmallPiece)
  BY <1>1, SmallArePieces
<1>3. CASE w.buf = <<>>
  BY <1>3 DEF FlushBuf
<1>4. CASE w.buf # <<>> /\ h
  <2>1. r = [buf |-> <<>>, out |-> w.out \o w.buf, ok |-> w.ok]
    BY <1>4 DEF FlushBuf
  <2>2. w.out \o w.buf \in Seq(Piece) /\ (w.out \o w.buf) \o <<>> = w.out \o w.buf
    BY <1>1, <1>2, ConcatEmptySeq
  <2> HIDE DEF r
  <2>3. r.buf = <<>> /\ r.out = w.out \o w.buf
    BY <2>1
  <2>4. r \in Writers
    BY <1>1, <1>2, <2>1, <2>2 DEF Writers
  <2>5. Logged(r) = Logged(w)
    BY <2>2, <2>3 DEF Logged
  <2> QED BY <2>3, <2>4, <2>5 DEF r
<1>5. CASE w.buf # <<>> /\ ~h
  <2>1. r = [w EXCEPT !.ok = FALSE]
    BY <1>5 DEF FlushBuf
  <2> HIDE DEF r
  <2>2. r \in Writers /\ r.buf = w.buf /\ r.out = w.out /\ ~r.ok
    BY <1>1, <2>1 DEF Writers
  <2> QED BY <2>2 DEF r, Logged
<1> QED BY <1>3, <1>4, <1>5

\* A piece is appended to the log, or the log stays and the writer has failed.
LEMMA PutIs ==
  ASSUME NEW w \in Writers, w.ok, NEW p \in Piece, NEW h \in BOOLEAN
  PROVE  /\ Put(w, p, h) \in Writers
         /\ Put(w, p, h).ok =>
              /\ Logged(Put(w, p, h)) = Append(Logged(w), p)
              /\ \/ Put(w, p, h).buf = <<>> \/ Put(w, p, h).buf = <<p>>
                 \/ Put(w, p, h).buf = Append(w.buf, p)
         /\ ~Put(w, p, h).ok =>
              /\ Logged(Put(w, p, h)) = Logged(w)
              /\ Put(w, p, h).buf = <<>> \/ Put(w, p, h).buf = w.buf
<1> DEFINE room == IF p.size > Capacity - Held(w) THEN FlushBuf(w, h) ELSE w
           r == Put(w, p, h)
<1>1. /\ room \in Writers
      /\ Logged(room) = Logged(w)
      /\ room.buf = <<>> \/ room.buf = w.buf
  BY FlushIs
<1>2. p.size >= Capacity /\ room.ok => room.buf = <<>>
  <2> SUFFICES ASSUME p.size >= Capacity, room.ok PROVE room.buf = <<>>
    OBVIOUS
  <2>1. CASE p.size > Capacity - Held(w)
    <3>1. room = FlushBuf(w, h)
      BY <2>1
    <3> QED BY <3>1, FlushIs
  <2>2. CASE ~(p.size > Capacity - Held(w))
    <3>1. Held(w) \in Nat /\ p.size \in Nat /\ Capacity \in Nat
      BY HeldIs, AuditAssumption DEF Piece
    <3>2. Held(w) = 0
      BY <2>2, <3>1
    <3>3. room = w
      BY <2>2
    <3> QED BY <3>2, <3>3, HeldIs
  <2> QED BY <2>1, <2>2
<1>3. r = IF ~room.ok THEN room
          ELSE IF p.size < Capacity THEN [room EXCEPT !.buf = Append(@, p)]
          ELSE IF h THEN [room EXCEPT !.out = Append(@, p)]
          ELSE [room EXCEPT !.ok = FALSE]
  BY DEF Put
<1> HIDE DEF room, r
<1>4. /\ room.buf \in Seq(SmallPiece) /\ room.buf \in Seq(Piece)
      /\ room.out \in Seq(Piece) /\ room.ok \in BOOLEAN
      /\ room = [buf |-> room.buf, out |-> room.out, ok |-> room.ok]
  BY <1>1, SmallArePieces DEF Writers
<1>5. CASE ~room.ok
  BY <1>1, <1>3, <1>5 DEF r
<1>6. CASE room.ok /\ p.size < Capacity
  <2>1. r = [buf |-> Append(room.buf, p), out |-> room.out, ok |-> room.ok]
    BY <1>3, <1>4, <1>6
  <2>2. p \in SmallPiece /\ Append(room.buf, p) \in Seq(SmallPiece)
    BY <1>4, <1>6 DEF SmallPiece
  <2>3. r \in Writers /\ r.buf = Append(room.buf, p) /\ r.out = room.out /\ r.ok
    BY <1>4, <1>6, <2>1, <2>2 DEF Writers
  <2>4. room.out \o Append(room.buf, p) = Append(room.out \o room.buf, p)
    <3>1. Append(room.buf, p) = room.buf \o <<p>> /\ <<p>> \in Seq(Piece)
      BY <1>4, AppendIsConcat
    <3>2. (room.out \o room.buf) \o <<p>> = room.out \o (room.buf \o <<p>>)
      BY <1>4, <3>1, ConcatAssociative
    <3>3. room.out \o room.buf \in Seq(Piece)
      BY <1>4
    <3>4. Append(room.out \o room.buf, p) = (room.out \o room.buf) \o <<p>>
      BY <3>3, AppendIsConcat
    <3> QED BY <3>1, <3>2, <3>4
  <2>5. Logged(r) = Append(Logged(w), p)
    BY <1>1, <2>3, <2>4 DEF Logged
  <2>6. Append(<<>>, p) = <<p>>
    OBVIOUS
  <2> QED BY <1>1, <2>3, <2>5, <2>6 DEF r
<1>7. CASE room.ok /\ ~(p.size < Capacity) /\ h
  <2>1. r = [buf |-> room.buf, out |-> Append(room.out, p), ok |-> room.ok] /\ room.buf = <<>>
    <3>1. p.size >= Capacity
      BY <1>7, AuditAssumption DEF Piece
    <3> QED BY <1>2, <1>3, <1>4, <1>7, <3>1
  <2>2. Append(room.out, p) \in Seq(Piece)
    BY <1>4
  <2>3. r \in Writers /\ r.buf = <<>> /\ r.out = Append(room.out, p) /\ r.ok
    BY <1>4, <1>7, <2>1, <2>2 DEF Writers
  <2>4. Append(room.out, p) \o <<>> = Append(room.out, p) /\ room.out \o <<>> = room.out
    BY <1>4, <2>2, ConcatEmptySeq
  <2>5. Logged(r) = Append(Logged(w), p)
    BY <1>1, <2>1, <2>3, <2>4 DEF Logged
  <2> QED BY <2>3, <2>5 DEF r
<1>8. CASE room.ok /\ ~(p.size < Capacity) /\ ~h
  <2>1. r = [buf |-> room.buf, out |-> room.out, ok |-> FALSE]
    BY <1>3, <1>4, <1>8
  <2>2. r \in Writers /\ r.buf = room.buf /\ r.out = room.out /\ ~r.ok
    BY <1>4, <2>1 DEF Writers
  <2>3. Logged(r) = Logged(w)
    BY <1>1, <2>2 DEF Logged
  <2> QED BY <1>1, <2>2, <2>3 DEF r
<1> QED BY <1>4, <1>5, <1>6, <1>7, <1>8

\* How many events end in a buffer.
TailCount(b) == Cardinality(Tails(b))

\* An appended piece ends at most one more event, and none if it is a text.
LEMMA TailCountIs ==
  ASSUME NEW b \in Seq(Piece), NEW p \in Piece
  PROVE  /\ TailCount(b) \in Nat /\ TailCount(<<>>) = 0
         /\ TailCount(Append(b, p)) <= TailCount(b) + 1
         /\ ~p.last => TailCount(Append(b, p)) = TailCount(b)
<1>1. PICK n \in Nat : n = Len(b) /\ DOMAIN b = 1 .. n
  OBVIOUS
<1>2. PICK c \in Seq(Piece) : c = Append(b, p)
  <2>1. Append(b, p) \in Seq(Piece)
    BY AppendProperties
  <2> QED BY <2>1, Zenon
<1>3. Len(c) = n + 1 /\ DOMAIN c = 1 .. n + 1 /\ c[n + 1] = p /\ \A i \in 1 .. n : c[i] = b[i]
  BY <1>1, <1>2
<1>4. IsFiniteSet(Tails(b)) /\ TailCount(b) \in Nat
  <2>1. IsFiniteSet(1 .. n) /\ Tails(b) \subseteq 1 .. n
    BY <1>1, FS_Interval DEF Tails
  <2> QED BY <2>1, FS_Subset, FS_CardinalityType DEF TailCount
<1>5. TailCount(<<>>) = 0
  <2>1. Tails(<<>>) = {}
    BY DEF Tails
  <2> QED BY <2>1, FS_EmptySet DEF TailCount
<1>6. \A i \in 1 .. n : i \in Tails(c) <=> i \in Tails(b)
  BY <1>1, <1>3 DEF Tails
<1>7. Tails(b) \subseteq 1 .. n /\ Tails(c) \subseteq 1 .. n + 1
  BY <1>1, <1>3 DEF Tails
<1>8. n + 1 \in Tails(c) => c[n + 1].last
  BY DEF Tails
<1>9. CASE n + 1 \in Tails(c)
  <2>1. Tails(c) = Tails(b) \cup {n + 1}
    <3>1. \A i \in 1 .. n + 1 : i \in 1 .. n \/ i = n + 1
      OBVIOUS
    <3>2. \A i \in 1 .. n : i \in 1 .. n + 1
      OBVIOUS
    <3> QED BY <1>6, <1>7, <1>9, <3>1, <3>2
  <2>2. n + 1 \notin Tails(b)
    BY <1>7
  <2>3. Cardinality(Tails(b) \cup {n + 1}) = Cardinality(Tails(b)) + 1
    BY <1>4, <2>2, FS_AddElement
  <2> QED BY <1>2, <1>3, <1>4, <1>5, <1>8, <1>9, <2>1, <2>3 DEF TailCount
<1>10. CASE n + 1 \notin Tails(c)
  <2>1. Tails(c) = Tails(b)
    <3>1. \A i \in 1 .. n + 1 : i \in 1 .. n \/ i = n + 1
      OBVIOUS
    <3> QED BY <1>6, <1>7, <1>10, <3>1
  <2> QED BY <1>2, <1>4, <1>5, <2>1 DEF TailCount
<1> QED BY <1>9, <1>10

\* An appended piece leaves what is whole, adds its event if it is a newline,
\* and keeps the order if its event is the latest.
LEMMA AppendedIs ==
  ASSUME NEW s \in Seq(Piece), NEW p \in Piece, NEW n \in Nat
  PROVE  /\ \A e \in WholeIn(s) : e \in WholeIn(Append(s, p))
         /\ p.last => p.event \in WholeIn(Append(s, p))
         /\ InOrder(s, n) /\ (p.event = n \/ p.event = n + 1) => InOrder(Append(s, p), p.event)
<1>1. PICK l \in Nat : l = Len(s) /\ DOMAIN s = 1 .. l
  OBVIOUS
<1>2. PICK c \in Seq(Piece) : c = Append(s, p)
  <2>1. Append(s, p) \in Seq(Piece)
    BY AppendProperties
  <2> QED BY <2>1, Zenon
<1>3. DOMAIN c = 1 .. l + 1 /\ c[l + 1] = p /\ \A i \in 1 .. l : c[i] = s[i]
  BY <1>1, <1>2
<1>4. \A i \in 1 .. l : s[i].event \in Nat
  <2> TAKE i \in 1 .. l
  <2>1. s[i] \in Piece
    BY <1>1
  <2> QED BY <2>1 DEF Piece
<1>5. ASSUME NEW e \in WholeIn(s) PROVE e \in WholeIn(c)
  <2>1. PICK i \in DOMAIN s : s[i].last /\ e = s[i].event
    BY DEF WholeIn
  <2>2. i \in 1 .. l + 1 /\ c[i] = s[i]
    BY <1>1, <1>3
  <2> QED BY <1>3, <2>1, <2>2 DEF WholeIn
<1>6. p.last => p.event \in WholeIn(c)
  <2>1. l + 1 \in DOMAIN c /\ c[l + 1] = p
    BY <1>3
  <2> QED BY <2>1, Zenon DEF WholeIn
<1>7. ASSUME InOrder(s, n), p.event = n \/ p.event = n + 1 PROVE InOrder(c, p.event)
  <2>1. \A i \in 1 .. l : s[i].event <= n
    BY <1>1, <1>7 DEF InOrder
  <2>2. \A i, j \in 1 .. l : i < j => s[i].event <= s[j].event
    BY <1>1, <1>7 DEF InOrder
  <2>3. ASSUME NEW i \in 1 .. l + 1 PROVE c[i].event <= p.event
    <3>1. p.event \in Nat
      BY DEF Piece
    <3>2. CASE i = l + 1
      BY <1>3, <3>1, <3>2
    <3>3. CASE i # l + 1
      <4>1. i \in 1 .. l
        BY <3>3
      <4> QED BY <1>3, <1>4, <1>7, <2>1, <3>1, <4>1
    <3> QED BY <3>2, <3>3
  <2>4. ASSUME NEW i \in 1 .. l + 1, NEW j \in 1 .. l + 1, i < j
        PROVE  c[i].event <= c[j].event
    <3>1. CASE j = l + 1
      <4>1. c[j].event = p.event
        BY <1>3, <3>1
      <4> QED BY <2>3, <4>1
    <3>2. CASE j # l + 1
      <4>1. i \in 1 .. l /\ j \in 1 .. l
        BY <2>4, <3>2
      <4>2. c[i] = s[i] /\ c[j] = s[j]
        BY <1>3, <4>1
      <4> QED BY <2>2, <2>4, <4>1, <4>2
    <3> QED BY <3>1, <3>2
  <2> QED BY <1>3, <2>3, <2>4 DEF InOrder
<1> QED BY <1>2, <1>5, <1>6, <1>7

\* The parts of a log that is in order are in order, and account for it.
LEMMA SplitLog ==
  ASSUME NEW a \in Seq(Piece), NEW b \in Seq(Piece), NEW n \in Nat
  PROVE  /\ InOrder(a \o b, n) => InOrder(a, n)
         /\ \A e \in WholeIn(a \o b) : e \in WholeIn(a) \/ e \in WholeIn(b)
<1>1. PICK k \in Nat : k = Len(a) /\ DOMAIN a = 1 .. k
  OBVIOUS
<1>2. PICK l \in Nat : l = Len(b) /\ DOMAIN b = 1 .. l
  OBVIOUS
<1>3. /\ a \o b \in Seq(Piece) /\ Len(a \o b) = Len(a) + Len(b)
      /\ \A i \in 1 .. Len(a) : (a \o b)[i] = a[i]
      /\ \A i \in 1 .. Len(b) : (a \o b)[Len(a) + i] = b[i]
  BY ConcatIs
<1>4. PICK c \in Seq(Piece) : c = a \o b
  BY <1>3
<1>5. /\ DOMAIN c = 1 .. k + l
      /\ \A i \in 1 .. k : c[i] = a[i]
      /\ \A i \in 1 .. l : c[k + i] = b[i]
  BY <1>1, <1>2, <1>3, <1>4
<1>6. InOrder(c, n) => InOrder(a, n)
  <2>1. \A i \in 1 .. k : i \in 1 .. k + l
    OBVIOUS
  <2> QED BY <1>1, <1>5, <2>1 DEF InOrder
<1>7. ASSUME NEW e \in WholeIn(c) PROVE e \in WholeIn(a) \/ e \in WholeIn(b)
  <2>1. PICK i \in 1 .. k + l : c[i].last /\ e = c[i].event
    BY <1>5 DEF WholeIn
  <2>2. CASE i \in 1 .. k
    BY <1>1, <1>5, <2>1, <2>2 DEF WholeIn
  <2>3. CASE i \notin 1 .. k
    <3>1. PICK j \in 1 .. l : i = k + j
      <4>1. i - k \in 1 .. l /\ i = k + (i - k)
        BY <2>3
      <4> QED BY <4>1
    <3>2. b[j].last /\ e = b[j].event
      BY <1>5, <2>1, <3>1
    <3> QED BY <1>2, <3>2 DEF WholeIn
  <2> QED BY <2>2, <2>3
<1> QED BY <1>4, <1>6, <1>7

\* The count of a writer's buffer grows by the newline of the piece put, and
\* only if the writer took it.
LEMMA PutCounts ==
  ASSUME NEW w \in Writers, w.ok, NEW p \in Piece, NEW h \in BOOLEAN
  PROVE  /\ TailCount(Put(w, p, h).buf) \in Nat /\ TailCount(w.buf) \in Nat
         /\ TailCount(Put(w, p, h).buf) <= TailCount(w.buf) + 1
         /\ ~Put(w, p, h).ok => TailCount(Put(w, p, h).buf) <= TailCount(w.buf)
         /\ ~p.last => TailCount(Put(w, p, h).buf) <= TailCount(w.buf)
<1>1. w.buf \in Seq(Piece) /\ Put(w, p, h).buf \in Seq(Piece) /\ <<>> \in Seq(Piece)
  <2>1. w.buf \in Seq(SmallPiece) /\ Put(w, p, h).buf \in Seq(SmallPiece)
    BY PutIs DEF Writers
  <2> QED BY <2>1, SmallArePieces
<1>2. PICK b \in Seq(Piece) : b = Put(w, p, h).buf
  BY <1>1
<1>3. PICK c \in Seq(Piece) : c = w.buf
  BY <1>1
<1>4. /\ TailCount(b) \in Nat /\ TailCount(c) \in Nat /\ TailCount(<<>>) = 0
      /\ TailCount(Append(c, p)) <= TailCount(c) + 1
      /\ ~p.last => TailCount(Append(c, p)) = TailCount(c)
  BY TailCountIs
<1>5. /\ TailCount(Append(<<>>, p)) <= 1
      /\ ~p.last => TailCount(Append(<<>>, p)) = 0
  <2>1. /\ TailCount(Append(<<>>, p)) <= TailCount(<<>>) + 1
        /\ ~p.last => TailCount(Append(<<>>, p)) = TailCount(<<>>)
    BY <1>1, TailCountIs
  <2> QED BY <1>4, <2>1
<1>6. Append(<<>>, p) = <<p>>
  OBVIOUS
<1>7. b = <<>> \/ b = c \/ b = <<p>> \/ b = Append(c, p)
  BY <1>2, <1>3, PutIs DEF Writers
<1>8. ~Put(w, p, h).ok => b = <<>> \/ b = c
  BY <1>2, <1>3, PutIs
<1>9. TailCount(b) <= TailCount(c) + 1 /\ (~p.last => TailCount(b) <= TailCount(c))
  <2>1. CASE b = <<>>
    BY <1>4, <2>1
  <2>2. CASE b = c
    BY <1>4, <2>2
  <2>3. CASE b = <<p>>
    BY <1>4, <1>5, <1>6, <2>3
  <2>4. CASE b = Append(c, p)
    BY <1>4, <2>4
  <2> QED BY <1>7, <2>1, <2>2, <2>3, <2>4
<1>10. ~Put(w, p, h).ok => TailCount(b) <= TailCount(c)
  <2>1. CASE b = <<>>
    BY <1>4, <2>1
  <2>2. CASE b = c
    BY <1>4, <2>2
  <2> QED BY <1>8, <2>1, <2>2
<1> QED BY <1>2, <1>3, <1>4, <1>9, <1>10

\* A log in order up to one event is in order up to a later one.
LEMMA OrderedFurther ==
  ASSUME NEW s \in Seq(Piece), NEW n \in Nat, InOrder(s, n)
  PROVE  InOrder(s, n + 1)
<1>1. PICK l \in Nat : l = Len(s) /\ DOMAIN s = 1 .. l
  OBVIOUS
<1>2. ASSUME NEW i \in 1 .. l PROVE s[i].event <= n + 1
  <2>1. s[i] \in Piece /\ s[i].event <= n
    BY <1>1 DEF InOrder
  <2> QED BY <2>1 DEF Piece
<1> QED BY <1>1, <1>2 DEF InOrder

\* A line written is the last event of the log; one refused is not counted.
LEMMA LineIs ==
  ASSUME AuditInv, NEW size \in LineSizes, NEW h \in BOOLEAN,
         NEW r, r = WriteLine(events + 1, size, h)
  PROVE  /\ r \in Writers
         /\ InOrder(Logged(r), events + 1)
         /\ \A e \in WholeIn(disk \o buffered) : e \in WholeIn(Logged(r))
         /\ r.ok => events + 1 \in WholeIn(Logged(r))
         /\ TailCount(r.buf) <= unflushed + 1
         /\ ~r.ok => TailCount(r.buf) <= unflushed
<1> DEFINE m == events + 1
           text == [event |-> m, size |-> size, last |-> FALSE]
           end  == [event |-> m, size |-> 1, last |-> TRUE]
           w == Writer
           u == Put(w, text, h)
<1>1. /\ m \in Nat /\ size \in Nat \ {0}
      /\ text \in Piece /\ text.event = m /\ ~text.last
      /\ end \in Piece /\ end.event = m /\ end.last
  BY AuditAssumption DEF AuditInv, Piece
<1>2. w \in Writers /\ w.ok /\ w.buf = buffered /\ Logged(w) = disk \o buffered
  BY DEF AuditInv, Writer, Writers, Logged
<1>3. disk \o buffered \in Seq(Piece)
  <2>1. buffered \in Seq(Piece) /\ disk \in Seq(Piece)
    BY SmallArePieces DEF AuditInv
  <2> QED BY <2>1, ConcatIs
<1>4. r = Put(u, end, h)
  BY DEF WriteLine
<1>5. TailCount(buffered) \in Nat /\ TailCount(buffered) <= unflushed /\ unflushed \in Nat
  <2>1. TailCount(buffered) \in Nat
    BY SmallArePieces, TailCountIs, <1>1 DEF AuditInv
  <2> QED BY <2>1 DEF AuditInv, TailCount
<1>6. events \in Nat /\ InOrder(disk \o buffered, events)
  BY DEF AuditInv
<1> HIDE DEF text, end, w
<1>7. /\ u \in Writers
      /\ u.ok => Logged(u) = Append(disk \o buffered, text)
      /\ ~u.ok => Logged(u) = disk \o buffered
      /\ TailCount(u.buf) \in Nat /\ TailCount(u.buf) <= unflushed
  <2>1. TailCount(u.buf) \in Nat /\ TailCount(u.buf) <= TailCount(w.buf)
    BY <1>1, <1>2, PutCounts
  <2>2. TailCount(u.buf) <= unflushed
    <3>1. w.buf = buffered
      BY <1>2
    <3>2. PICK x, y, z \in Nat : x = TailCount(u.buf) /\ y = TailCount(buffered) /\ z = unflushed
      BY <1>5, <2>1
    <3>3. x <= y /\ y <= z
      BY <1>5, <2>1, <3>1, <3>2
    <3> QED BY <3>2, <3>3
  <2>3. /\ u \in Writers
        /\ u.ok => Logged(u) = Append(Logged(w), text)
        /\ ~u.ok => Logged(u) = Logged(w)
    BY <1>1, <1>2, PutIs
  <2> HIDE DEF u, text
  <2> QED BY <1>2, <2>1, <2>2, <2>3
<1>8. Append(disk \o buffered, text) \in Seq(Piece)
  BY <1>1, <1>3, AppendProperties
<1>9. /\ InOrder(Append(disk \o buffered, text), m)
      /\ \A e \in WholeIn(disk \o buffered) : e \in WholeIn(Append(disk \o buffered, text))
  BY <1>1, <1>3, <1>6, AppendedIs
<1>10. InOrder(disk \o buffered, m)
  BY <1>3, <1>6, OrderedFurther
<1> HIDE DEF m, u
<1>11. CASE ~u.ok
  <2>1. r = u
    BY <1>4, <1>11 DEF Put
  <2>2. ~r.ok /\ Logged(r) = disk \o buffered /\ r \in Writers
    BY <1>7, <1>11, <2>1
  <2>3. TailCount(r.buf) <= unflushed /\ TailCount(r.buf) <= unflushed + 1
    BY <1>5, <1>7, <2>1
  <2>4. InOrder(Logged(r), events + 1)
    BY <1>10, <2>2 DEF m
  <2> QED BY <2>2, <2>3, <2>4
<1>12. CASE u.ok
  <2>1. /\ r \in Writers
        /\ r.ok => Logged(r) = Append(Logged(u), end)
        /\ ~r.ok => Logged(r) = Logged(u)
    BY <1>1, <1>4, <1>7, <1>12, PutIs
  <2>2. /\ TailCount(r.buf) \in Nat
        /\ TailCount(r.buf) <= TailCount(u.buf) + 1
        /\ ~r.ok => TailCount(r.buf) <= TailCount(u.buf)
    BY <1>1, <1>4, <1>7, <1>12, PutCounts
  <2>3. TailCount(r.buf) <= unflushed + 1 /\ (~r.ok => TailCount(r.buf) <= unflushed)
    BY <1>5, <1>7, <2>2
  <2>4. Logged(u) \in Seq(Piece) /\ InOrder(Logged(u), m)
        /\ \A e \in WholeIn(disk \o buffered) : e \in WholeIn(Logged(u))
    BY <1>7, <1>8, <1>9, <1>12
  <2>5. /\ InOrder(Append(Logged(u), end), m)
        /\ \A e \in WholeIn(Logged(u)) : e \in WholeIn(Append(Logged(u), end))
        /\ m \in WholeIn(Append(Logged(u), end))
    BY <1>1, <2>4, AppendedIs
  <2>6. CASE r.ok
    <3>1. \A e \in WholeIn(disk \o buffered) : e \in WholeIn(Append(Logged(u), end))
      BY <2>4, <2>5, Zenon
    <3>2. Logged(r) = Append(Logged(u), end)
      BY <2>1, <2>6
    <3> QED BY <2>1, <2>3, <2>5, <2>6, <3>1, <3>2 DEF m
  <2>7. CASE ~r.ok
    <3>1. Logged(r) = Logged(u)
      BY <2>1, <2>7
    <3> QED BY <2>1, <2>3, <2>4, <2>7, <3>1 DEF m
  <2> QED BY <2>6, <2>7
<1> QED BY <1>11, <1>12

\* A new file and an empty buffer.
LEMMA AuditBegins == AuditInit => AuditInv
<1> SUFFICES ASSUME AuditInit PROVE AuditInv
  OBVIOUS
<1>1. disk = <<>> /\ buffered = <<>> /\ events = 0 /\ unflushed = 0
  BY DEF AuditInit
<1>2. <<>> \in Seq(Piece) /\ <<>> \in Seq(SmallPiece) /\ <<>> \o <<>> = <<>>
  OBVIOUS
<1>3. Cardinality(Tails(<<>>)) = 0
  <2>1. Tails(<<>>) = {}
    BY DEF Tails
  <2> QED BY <2>1, FS_EmptySet
<1>4. InOrder(<<>>, 0)
  BY DEF InOrder
<1>5. Accounted(WholeIn(disk \o buffered), events, rejected, UNION missing)
  BY <1>1 DEF Accounted
<1> QED BY <1>1, <1>2, <1>3, <1>4, <1>5 DEF AuditInv

\* An event written: counted when the writer took it, rejected otherwise.
LEMMA AuditWrite ==
  ASSUME AuditInv, NEW size \in LineSizes, NEW h \in BOOLEAN, WriteEvent(size, h)
  PROVE  AuditInv'
<1>1. PICK r : r = WriteLine(events + 1, size, h)
  OBVIOUS
<1>2. PICK f : f = IF r.ok /\ unflushed + 1 >= FlushEvery THEN FlushBuf(r, h) ELSE r
  OBVIOUS
<1>3. /\ events' = events + 1 /\ buffered' = f.buf /\ disk' = f.out
      /\ unflushed' = IF ~r.ok THEN unflushed
                      ELSE IF (r.ok /\ unflushed + 1 >= FlushEvery) /\ f.ok THEN 0
                      ELSE unflushed + 1
      /\ rejected' = IF r.ok THEN rejected ELSE rejected \cup {events + 1}
      /\ missing' = missing
  BY <1>1, <1>2 DEF WriteEvent
<1>4. /\ r \in Writers
      /\ InOrder(Logged(r), events + 1)
      /\ \A e \in WholeIn(disk \o buffered) : e \in WholeIn(Logged(r))
      /\ r.ok => events + 1 \in WholeIn(Logged(r))
      /\ TailCount(r.buf) <= unflushed + 1
      /\ ~r.ok => TailCount(r.buf) <= unflushed
  BY <1>1, LineIs
<1>5. /\ f \in Writers /\ Logged(f) = Logged(r)
      /\ f.buf = <<>> \/ f.buf = r.buf
      /\ r.ok /\ unflushed + 1 >= FlushEvery /\ f.ok => f.buf = <<>>
      /\ ~r.ok => f.buf = r.buf
  BY <1>2, <1>4, FlushIs
<1>6. /\ events \in Nat /\ unflushed \in Nat
      /\ Accounted(WholeIn(disk \o buffered), events, rejected, UNION missing)
  BY DEF AuditInv
<1>7. events' \in Nat /\ unflushed' \in Nat
  BY <1>3, <1>6
<1>8. disk' \in Seq(Piece) /\ buffered' \in Seq(SmallPiece)
  BY <1>3, <1>5 DEF Writers
<1>9. disk' \o buffered' = Logged(r)
  BY <1>3, <1>5 DEF Logged
<1>10. TailCount(buffered') <= unflushed'
  <2>1. TailCount(<<>>) = 0
    <3>1. Tails(<<>>) = {}
      BY DEF Tails
    <3> QED BY <3>1, FS_EmptySet DEF TailCount
  <2>2. CASE f.buf = <<>>
    BY <1>3, <1>7, <2>1, <2>2
  <2>3. CASE f.buf # <<>>
    <3>1. f.buf = r.buf /\ (~r.ok \/ ~(unflushed + 1 >= FlushEvery) \/ ~f.ok)
      BY <1>5, <2>3
    <3>2. unflushed' = IF r.ok THEN unflushed + 1 ELSE unflushed
      BY <1>3, <3>1
    <3> QED BY <1>3, <1>4, <3>1, <3>2
  <2> QED BY <2>2, <2>3
<1>11. ASSUME NEW e \in 1 .. events + 1
       PROVE  e \in WholeIn(Logged(r)) \/ e \in rejected' \/ e \in UNION missing
  <2>1. CASE e = events + 1
    BY <1>3, <1>4, <2>1
  <2>2. CASE e # events + 1
    <3>1. e \in 1 .. events
      BY <1>6, <2>2
    <3>2. e \in WholeIn(disk \o buffered) \/ e \in rejected \/ e \in UNION missing
      BY <1>6, <3>1 DEF Accounted
    <3> QED BY <1>3, <1>4, <3>2
  <2> QED BY <2>1, <2>2
<1>12. Accounted(WholeIn(disk' \o buffered'), events', rejected', UNION missing')
  BY <1>3, <1>9, <1>11 DEF Accounted
<1>13. InOrder(disk' \o buffered', events')
  BY <1>3, <1>4, <1>9
<1>14. Cardinality(Tails(buffered')) <= unflushed'
  BY <1>10 DEF TailCount
<1> QED BY <1>7, <1>8, <1>12, <1>13, <1>14 DEF AuditInv, InOrder, Accounted, Tails, WholeIn,
                                             Piece, SmallPiece

\* A crash loses what is whole in the buffer and nothing else.
LEMMA AuditCrash ==
  ASSUME AuditInv, CrashAudit
  PROVE  AuditInv'
<1>1. /\ missing' = missing \cup {WholeIn(buffered)} /\ buffered' = <<>> /\ unflushed' = 0
      /\ disk' = disk /\ events' = events /\ rejected' = rejected
  BY DEF CrashAudit
<1>2. PICK b \in Seq(Piece) : b = buffered
  BY SmallArePieces DEF AuditInv
<1>3. /\ events \in Nat /\ disk \in Seq(Piece) /\ InOrder(disk \o b, events)
      /\ Accounted(WholeIn(disk \o b), events, rejected, UNION missing)
  BY <1>2 DEF AuditInv
<1>4. InOrder(disk, events) /\ \A e \in WholeIn(disk \o b) : e \in WholeIn(disk) \/ e \in WholeIn(b)
  BY <1>3, SplitLog
<1>5. disk \o <<>> = disk /\ <<>> \in Seq(SmallPiece)
  BY <1>3, ConcatEmptySeq
<1>6. \A e \in WholeIn(b) : e \in UNION missing'
  BY <1>1, <1>2
<1>7. \A e \in UNION missing : e \in UNION missing'
  BY <1>1
<1>8. Accounted(WholeIn(disk), events, rejected, UNION missing')
  BY <1>3, <1>4, <1>6, <1>7 DEF Accounted
<1>9. Cardinality(Tails(<<>>)) = 0
  <2>1. Tails(<<>>) = {}
    BY DEF Tails
  <2> QED BY <2>1, FS_EmptySet
<1>10. /\ events' \in Nat /\ unflushed' \in Nat
       /\ disk' \in Seq(Piece) /\ buffered' \in Seq(SmallPiece)
       /\ Cardinality(Tails(buffered')) <= unflushed'
       /\ InOrder(disk' \o buffered', events')
       /\ Accounted(WholeIn(disk' \o buffered'), events', rejected', UNION missing')
  BY <1>1, <1>3, <1>4, <1>5, <1>8, <1>9
<1> QED BY <1>10 DEF AuditInv, InOrder, Accounted, Tails, WholeIn, Piece, SmallPiece

\* A regular end puts what is buffered on disk, or loses what is whole in it.
LEMMA AuditClose ==
  ASSUME AuditInv, NEW h \in BOOLEAN, CloseAudit(h)
  PROVE  AuditInv'
<1>1. PICK f : f = FlushBuf(Writer, h)
  OBVIOUS
<1>2. /\ disk' = f.out /\ missing' = missing \cup {IF f.ok THEN {} ELSE WholeIn(buffered)}
      /\ buffered' = <<>> /\ unflushed' = 0 /\ events' = events /\ rejected' = rejected
  BY <1>1 DEF CloseAudit
<1>3. Writer \in Writers /\ Logged(Writer) = disk \o buffered /\ Writer.ok
      /\ Writer.buf = buffered /\ Writer.out = disk
  BY DEF AuditInv, Writer, Writers, Logged
<1>4. /\ f \in Writers /\ Logged(f) = disk \o buffered
      /\ f.ok => f.buf = <<>>
      /\ ~f.ok => f.out = disk
  <2>1. ~f.ok => f.out = disk
    BY <1>1, <1>3 DEF FlushBuf
  <2> QED BY <1>1, <1>3, <2>1, FlushIs
<1>5. CASE f.ok
  <2>1. PICK d \in Seq(Piece) : d = f.out
    BY <1>4 DEF Writers
  <2>2. d \o <<>> = d /\ <<>> \in Seq(SmallPiece)
    BY ConcatEmptySeq
  <2>3. d = disk \o buffered
    BY <1>4, <1>5, <2>1, <2>2 DEF Logged
  <2>4. UNION missing' = UNION missing
    BY <1>2, <1>5
  <2>5. Cardinality(Tails(<<>>)) = 0
    <3>1. Tails(<<>>) = {}
      BY DEF Tails
    <3> QED BY <3>1, FS_EmptySet
  <2>6. /\ events \in Nat /\ InOrder(d, events)
        /\ Accounted(WholeIn(d), events, rejected, UNION missing)
    BY <2>3 DEF AuditInv
  <2>7. /\ events' \in Nat /\ unflushed' \in Nat
        /\ disk' \in Seq(Piece) /\ buffered' \in Seq(SmallPiece)
        /\ Cardinality(Tails(buffered')) <= unflushed'
        /\ InOrder(disk' \o buffered', events')
        /\ Accounted(WholeIn(disk' \o buffered'), events', rejected', UNION missing')
    <3>1. disk' \o buffered' = d /\ disk' \in Seq(Piece) /\ buffered' \in Seq(SmallPiece)
      BY <1>2, <2>1, <2>2
    <3>2. Cardinality(Tails(buffered')) <= unflushed' /\ unflushed' \in Nat
      BY <1>2, <2>5
    <3>3. Accounted(WholeIn(disk' \o buffered'), events', rejected', UNION missing')
      BY <1>2, <2>4, <2>6, <3>1
    <3> QED BY <1>2, <2>6, <3>1, <3>2, <3>3
  <2> QED BY <2>7 DEF AuditInv, InOrder, Accounted, Tails, WholeIn, Piece, SmallPiece
<1>6. CASE ~f.ok
  <2>1. CrashAudit
    BY <1>2, <1>4, <1>6 DEF CrashAudit
  <2> QED BY <2>1, AuditCrash
<1> QED BY <1>5, <1>6

\* All steps of the audit log.
LEMMA AuditStep == AuditInv /\ [AuditNext]_auditVars => AuditInv'
<1> SUFFICES ASSUME AuditInv, [AuditNext]_auditVars PROVE AuditInv'
  OBVIOUS
<1>1. CASE UNCHANGED auditVars
  BY <1>1 DEF auditVars, AuditInv, InOrder, Accounted, Tails, WholeIn, Piece, SmallPiece
<1> QED BY <1>1, AuditWrite, AuditCrash, AuditClose DEF AuditNext

\* For every size of line, buffer and flush interval, and wherever the disk
\* refuses a write: what a crash takes is what the count stands for, and every
\* other event is logged, in order, or was rejected (lines 141-169).
THEOREM CrashCostsTheTail == AuditSpec => []TailIsShort
<1>1. AuditInv => TailIsShort
  <2> SUFFICES ASSUME AuditInv PROVE TailIsShort
    OBVIOUS
  <2>1. Cardinality({i \in DOMAIN buffered : buffered[i].last}) <= unflushed
    BY DEF AuditInv, Tails
  <2>2. \A i, j \in DOMAIN (disk \o buffered) :
          i < j => (disk \o buffered)[i].event <= (disk \o buffered)[j].event
    BY DEF AuditInv, InOrder
  <2>3. \A e \in 1 .. events :
          e \notin WholeIn(disk \o buffered) => e \in rejected \cup UNION missing
    BY DEF AuditInv, Accounted
  <2> QED BY <2>1, <2>2, <2>3 DEF TailIsShort
<1> QED BY <1>1, AuditBegins, AuditStep, PTL DEF AuditSpec

-----------------------------------------------------------------------------
(* The messages (Store).  The rows of a session are put in order by counting *)
(* for each how many come before it; the counts are the numbers below the    *)
(* size of the table, each once, so the order is a list of all rows.         *)
StoredRow == [id : Nat, chat : Chats, turn : Nat, pos : Nat, at : Nat]

RowSet(R) ==
  /\ R \in SUBSET StoredRow /\ IsFiniteSet(R)
  /\ \A r, s \in R : r.id = s.id => r = s

Rank(R, r) == Cardinality({s \in R : Before(s, r)})

Listed(R) == [i \in 1 .. Cardinality(R) |-> CHOOSE r \in R : Rank(R, r) = i - 1]

Tell(l) == [i \in DOMAIN l |-> Told(l[i])]

\* A list that holds every row of a set in its order.
Lists(l, R) ==
  /\ l \in Seq(R)
  /\ \A i, j \in DOMAIN l : i < j => Before(l[i], l[j])
  /\ \A r \in R : \E i \in DOMAIN l : l[i] = r

\* Rows are ordered totally by their second and their id.
LEMMA BeforeOrders ==
  ASSUME NEW R, RowSet(R)
  PROVE  /\ \A a \in R : ~Before(a, a)
         /\ \A a, b \in R : a = b \/ Before(a, b) \/ Before(b, a)
         /\ \A a, b, c \in R : Before(a, b) /\ Before(b, c) => Before(a, c)
<1>1. \A a \in R : a.at \in Nat /\ a.id \in Nat
  BY DEF RowSet, StoredRow
<1>2. \A a \in R : ~Before(a, a)
  BY <1>1 DEF Before
<1>3. \A a, b \in R : a = b \/ Before(a, b) \/ Before(b, a)
  BY <1>1 DEF RowSet, Before
<1>4. \A a, b, c \in R : Before(a, b) /\ Before(b, c) => Before(a, c)
  BY <1>1 DEF Before
<1> QED BY <1>2, <1>3, <1>4

\* The rows before a row are fewer than all, and fewer than those before a
\* later row.
LEMMA RankIs ==
  ASSUME NEW R, RowSet(R), NEW n \in Nat, n = Cardinality(R)
  PROVE  /\ \A r \in R : Rank(R, r) \in 0 .. n - 1
         /\ \A r, s \in R : Before(r, s) => Rank(R, r) < Rank(R, s)
         /\ \A r, s \in R : Rank(R, r) = Rank(R, s) => r = s
<1> DEFINE Earlier(r) == {s \in R : Before(s, r)}
<1>1. IsFiniteSet(R)
  BY DEF RowSet
<1>2. ASSUME NEW r \in R PROVE Rank(R, r) \in 0 .. n - 1
  <2>1. Earlier(r) \subseteq R \ {r}
    BY BeforeOrders
  <2>2. IsFiniteSet(R \ {r}) /\ Cardinality(R \ {r}) = n - 1
    BY <1>1, FS_RemoveElement
  <2>3. IsFiniteSet(Earlier(r)) /\ Cardinality(Earlier(r)) \in Nat /\ Cardinality(Earlier(r)) <= n - 1
    BY <2>1, <2>2, FS_Subset, FS_CardinalityType
  <2> QED BY <2>3 DEF Rank
<1>3. ASSUME NEW r \in R, NEW s \in R, Before(r, s) PROVE Rank(R, r) < Rank(R, s)
  <2>1. r \notin Earlier(r) /\ IsFiniteSet(Earlier(r)) /\ Cardinality(Earlier(r)) \in Nat
    BY <1>1, BeforeOrders, FS_Subset, FS_CardinalityType
  <2>2. /\ IsFiniteSet(Earlier(r) \cup {r})
        /\ Cardinality(Earlier(r) \cup {r}) = Cardinality(Earlier(r)) + 1
    BY <2>1, FS_AddElement
  <2>3. Earlier(r) \cup {r} \subseteq Earlier(s)
    BY <1>3, BeforeOrders
  <2>4. IsFiniteSet(Earlier(s)) /\ Cardinality(Earlier(s)) \in Nat
    BY <1>1, FS_Subset, FS_CardinalityType
  <2>5. Cardinality(Earlier(r) \cup {r}) <= Cardinality(Earlier(s))
    BY <2>3, <2>4, FS_Subset
  <2>6. Cardinality(Earlier(r)) < Cardinality(Earlier(s))
    BY <2>1, <2>2, <2>4, <2>5
  <2> QED BY <2>6 DEF Rank
<1>4. ASSUME NEW r \in R, NEW s \in R, Rank(R, r) = Rank(R, s) PROVE r = s
  <2>1. Rank(R, r) \in 0 .. n - 1 /\ Rank(R, s) \in 0 .. n - 1
    BY <1>2
  <2>2. ~(Rank(R, r) < Rank(R, s)) /\ ~(Rank(R, s) < Rank(R, r))
    BY <1>4, <2>1
  <2> QED BY <1>3, <2>2, BeforeOrders
<1> QED BY <1>2, <1>3, <1>4

\* Every number below the size of the table is the count of a row.
LEMMA ListedIs ==
  ASSUME NEW R, RowSet(R)
  PROVE  /\ Lists(Listed(R), R)
         /\ Len(Listed(R)) = Cardinality(R) /\ Cardinality(R) \in Nat
         /\ \A i \in DOMAIN Listed(R) : Rank(R, Listed(R)[i]) = i - 1
<1>1. IsFiniteSet(R)
  BY DEF RowSet
<1>2. PICK n \in Nat : n = Cardinality(R)
  BY <1>1, FS_CardinalityType
<1>3. /\ \A r \in R : Rank(R, r) \in 0 .. n - 1
      /\ \A r, s \in R : Before(r, s) => Rank(R, r) < Rank(R, s)
      /\ \A r, s \in R : Rank(R, r) = Rank(R, s) => r = s
  BY <1>2, RankIs
<1> DEFINE f == [r \in R |-> Rank(R, r)]
<1>4. IsFiniteSet(0 .. n - 1) /\ Cardinality(0 .. n - 1) = n
  <2>1. IsFiniteSet(0 .. n - 1) /\ Cardinality(0 .. n - 1) = IF 0 > n - 1 THEN 0 ELSE n - 1 - 0 + 1
    BY FS_Interval
  <2> QED BY <2>1
<1>5. f \in Injection(R, 0 .. n - 1)
  BY <1>3 DEF Injection, IsInjective
<1>6. f \in Surjection(R, 0 .. n - 1)
  BY <1>2, <1>4, <1>5, FS_Injection
<1>7. \A k \in 0 .. n - 1 : \E r \in R : Rank(R, r) = k
  BY <1>6 DEF Surjection
<1>8. PICK l : l = Listed(R)
  OBVIOUS
<1>9. l = [i \in 1 .. n |-> CHOOSE r \in R : Rank(R, r) = i - 1]
  BY <1>2, <1>8 DEF Listed
<1>10. ASSUME NEW i \in 1 .. n PROVE l[i] \in R /\ Rank(R, l[i]) = i - 1
  <2>1. i - 1 \in 0 .. n - 1
    OBVIOUS
  <2>2. \E r \in R : Rank(R, r) = i - 1
    BY <1>7, <2>1
  <2>3. l[i] = CHOOSE r \in R : Rank(R, r) = i - 1
    BY <1>9
  <2> QED BY <2>2, <2>3
<1>11. l \in Seq(R) /\ DOMAIN l = 1 .. n /\ Len(l) = n
  <2>1. l \in [1 .. n -> R]
    BY <1>9, <1>10
  <2> QED BY <2>1
<1>12. ASSUME NEW i \in 1 .. n, NEW j \in 1 .. n, i < j PROVE Before(l[i], l[j])
  <2>1. /\ l[i] \in R /\ Rank(R, l[i]) = i - 1
        /\ l[j] \in R /\ Rank(R, l[j]) = j - 1
    BY <1>10
  <2>2. ~(Rank(R, l[j]) < Rank(R, l[i])) /\ l[i] # l[j]
    BY <1>12, <2>1
  <2> QED BY <1>3, <2>1, <2>2, BeforeOrders
<1>13. ASSUME NEW r \in R PROVE \E i \in 1 .. n : l[i] = r
  <2>1. Rank(R, r) + 1 \in 1 .. n /\ (Rank(R, r) + 1) - 1 = Rank(R, r)
    BY <1>3
  <2>2. Rank(R, l[Rank(R, r) + 1]) = Rank(R, r) /\ l[Rank(R, r) + 1] \in R
    BY <1>10, <2>1
  <2> QED BY <1>3, <2>1, <2>2
<1>14. Lists(l, R)
  BY <1>11, <1>12, <1>13 DEF Lists
<1> QED BY <1>2, <1>8, <1>10, <1>11, <1>14

\* There is only one such list.
LEMMA ListsIsListed ==
  ASSUME NEW R, RowSet(R), NEW m, Lists(m, R)
  PROVE  m = Listed(R)
<1>1. PICK k \in Nat : k = Len(m) /\ DOMAIN m = 1 .. k /\ m \in [1 .. k -> R]
  BY DEF Lists
<1>2. ASSUME NEW i \in 1 .. k, NEW j \in 1 .. k, m[i] = m[j] PROVE i = j
  <2>1. ~(i < j) /\ ~(j < i)
    BY <1>1, <1>2, BeforeOrders DEF Lists
  <2> QED BY <2>1
<1>3. m \in Bijection(1 .. k, R)
  BY <1>1, <1>2 DEF Lists, Bijection, Injection, Surjection, IsInjective
<1>4. Cardinality(R) = k
  BY <1>3, FS_CountingElements DEF ExistsBijection
<1>5. ASSUME NEW i \in 1 .. k PROVE Rank(R, m[i]) = i - 1
  <2> DEFINE E == {s \in R : Before(s, m[i])}
             g == [j \in 1 .. i - 1 |-> m[j]]
  <2>1. ASSUME NEW j \in 1 .. i - 1 PROVE j \in 1 .. k /\ m[j] \in E
    BY <1>1, <2>1 DEF Lists
  <2>2. ASSUME NEW s \in E PROVE \E j \in 1 .. i - 1 : m[j] = s
    <3>1. PICK j \in 1 .. k : m[j] = s
      BY <1>1 DEF Lists
    <3>2. ~(i < j) /\ i # j
      BY <1>1, <2>2, <3>1, BeforeOrders DEF Lists
    <3>3. j \in 1 .. i - 1
      BY <3>2
    <3> QED BY <3>1, <3>3
  <2>3. g \in Bijection(1 .. i - 1, E)
    <3>1. g \in [1 .. i - 1 -> E]
      BY <2>1
    <3>2. \A a, b \in 1 .. i - 1 : g[a] = g[b] => a = b
      BY <1>2, <2>1
    <3>3. \A s \in E : \E j \in 1 .. i - 1 : g[j] = s
      BY <2>2
    <3> HIDE DEF g, E
    <3> QED BY <3>1, <3>2, <3>3 DEF Bijection, Injection, Surjection, IsInjective
  <2>4. i - 1 \in Nat
    OBVIOUS
  <2> HIDE DEF g
  <2>5. Cardinality(E) = i - 1
    BY <2>3, <2>4, FS_CountingElements DEF ExistsBijection
  <2> QED BY <2>5 DEF Rank
<1>6. PICK l : l = Listed(R)
  OBVIOUS
<1>7. l \in Seq(R) /\ Len(l) = k /\ \A i \in 1 .. k : Rank(R, l[i]) = i - 1
  <2>1. l \in Seq(R) /\ Len(l) = k
    BY <1>4, <1>6, ListedIs DEF Lists
  <2>2. DOMAIN l = 1 .. k
    BY <2>1
  <2> QED BY <1>6, <2>1, <2>2, ListedIs
<1>8. ASSUME NEW i \in 1 .. k PROVE m[i] = l[i]
  <2>1. m[i] \in R /\ l[i] \in R
    BY <1>1, <1>7
  <2> QED BY <1>4, <1>5, <1>7, <2>1, RankIs, SMTT(30)
<1>9. l \in [1 .. k -> R]
  BY <1>7
<1> QED BY <1>1, <1>6, <1>8, <1>9

\* Rows of one second whose ids are neighbours are neighbours in the list.
LEMMA Neighbours ==
  ASSUME NEW R, RowSet(R), NEW l, Lists(l, R), NEW a \in R, NEW b \in R,
         a.at = b.at, b.id = a.id + 1, NEW i \in DOMAIN l, NEW j \in DOMAIN l,
         l[i] = a, l[j] = b
  PROVE  j = i + 1
<1>1. PICK k \in Nat : k = Len(l) /\ DOMAIN l = 1 .. k /\ l \in [1 .. k -> R]
  BY DEF Lists
<1>2. a.id \in Nat /\ b.id \in Nat /\ a.at \in Nat /\ i \in 1 .. k /\ j \in 1 .. k
  BY <1>1 DEF RowSet, StoredRow
<1>3. Before(a, b)
  BY <1>2 DEF Before
<1>4. i < j
  <2>1. ~(j < i) /\ i # j
    BY <1>1, <1>3, BeforeOrders DEF Lists
  <2> QED BY <1>2, <2>1
<1>5. ~(i + 1 < j)
  <2> SUFFICES ASSUME i + 1 < j PROVE FALSE
    OBVIOUS
  <2>1. i + 1 \in 1 .. k /\ i < i + 1 /\ l[i + 1] \in R
    BY <1>1, <1>2
  <2>2. Before(a, l[i + 1]) /\ Before(l[i + 1], b)
    BY <1>1, <2>1 DEF Lists
  <2>3. l[i + 1].id \in Nat /\ l[i + 1].at \in Nat
    BY <2>1 DEF RowSet, StoredRow
  <2> QED BY <1>2, <2>2, <2>3 DEF Before
<1> QED BY <1>2, <1>4, <1>5

(* A session is made of whole turns when every message but a turn's first    *)
(* follows its predecessor at once, and every message but a turn's last is   *)
(* followed at once; of rows, "at once" is a matter of second and id.        *)
Line == [turn : Nat, pos : Nat, at : Nat]

Continues(a, b) == a.turn = b.turn /\ a.at = b.at /\ b.pos = a.pos + 1

WholeList(h, sizes) ==
  /\ h \in Seq(Line)
  /\ \A i \in DOMAIN h :
       /\ h[i].turn \in DOMAIN sizes
       /\ h[i].pos > 1 => i - 1 \in DOMAIN h /\ Continues(h[i - 1], h[i])
       /\ h[i].pos < sizes[h[i].turn] => i + 1 \in DOMAIN h /\ Continues(h[i], h[i + 1])
  /\ \A i, j \in DOMAIN h : i < j => h[i].at <= h[j].at

ComesNext(a, b) == Continues(a, b) /\ a.chat = b.chat /\ b.id = a.id + 1

WholeRows(R, sizes) ==
  \A r \in R :
    /\ r.turn \in DOMAIN sizes
    /\ r.pos > 1 => \E q \in R : ComesNext(q, r)
    /\ r.pos < sizes[r.turn] => \E q \in R : ComesNext(r, q)

\* The list of a session's rows is whole when the rows are.
LEMMA ListIsWhole ==
  ASSUME NEW R, RowSet(R), NEW sizes, WholeRows(R, sizes)
  PROVE  WholeList(Tell(Listed(R)), sizes)
<1>1. PICK l : l = Listed(R) /\ Lists(l, R)
  BY ListedIs
<1>2. PICK k \in Nat : k = Len(l) /\ DOMAIN l = 1 .. k /\ l \in [1 .. k -> R]
  BY <1>1 DEF Lists
<1>3. PICK h : h = [i \in 1 .. k |-> Told(l[i])]
  OBVIOUS
<1>4. h = Tell(Listed(R)) /\ DOMAIN h = 1 .. k
  BY <1>1, <1>2, <1>3 DEF Tell
<1>5. ASSUME NEW i \in 1 .. k
      PROVE  /\ l[i] \in R /\ h[i] \in Line /\ l[i].at \in Nat
             /\ h[i].turn = l[i].turn /\ h[i].pos = l[i].pos /\ h[i].at = l[i].at
  <2>1. l[i] \in R
    BY <1>2
  <2>2. l[i] \in StoredRow
    BY <2>1 DEF RowSet
  <2>3. h[i] = Told(l[i])
    BY <1>3
  <2> QED BY <2>1, <2>2, <2>3 DEF Told, Line, StoredRow
<1>6. h \in Seq(Line)
  <2>1. h \in [1 .. k -> Line]
    BY <1>3, <1>5
  <2> QED BY <2>1
<1>7. ASSUME NEW i \in 1 .. k, NEW j \in 1 .. k, i < j PROVE h[i].at <= h[j].at
  <2>1. Before(l[i], l[j])
    BY <1>1, <1>2, <1>7 DEF Lists
  <2>2. l[i].at <= l[j].at
    BY <1>5, <2>1 DEF Before
  <2> QED BY <1>5, <2>2
<1>8. ASSUME NEW i \in 1 .. k, h[i].pos > 1
      PROVE  i - 1 \in 1 .. k /\ Continues(h[i - 1], h[i])
  <2>1. PICK q \in R : ComesNext(q, l[i])
    BY <1>5, <1>8 DEF WholeRows
  <2>2. PICK j \in 1 .. k : l[j] = q
    BY <1>1, <1>2 DEF Lists
  <2>3. i = j + 1
    BY <1>1, <1>2, <1>5, <2>1, <2>2, Neighbours DEF ComesNext, Continues
  <2>4. j = i - 1
    BY <2>3
  <2> QED BY <1>5, <2>1, <2>2, <2>4 DEF ComesNext, Continues
<1>9. ASSUME NEW i \in 1 .. k, h[i].pos < sizes[h[i].turn]
      PROVE  i + 1 \in 1 .. k /\ Continues(h[i], h[i + 1])
  <2>1. PICK q \in R : ComesNext(l[i], q)
    BY <1>5, <1>9 DEF WholeRows
  <2>2. PICK j \in 1 .. k : l[j] = q
    BY <1>1, <1>2 DEF Lists
  <2>3. j = i + 1
    BY <1>1, <1>2, <1>5, <2>1, <2>2, Neighbours DEF ComesNext, Continues
  <2> QED BY <1>5, <2>1, <2>2, <2>3 DEF ComesNext, Continues
<1>10. \A i \in 1 .. k : h[i].turn \in DOMAIN sizes
  BY <1>5 DEF WholeRows
<1>11. WholeList(h, sizes)
  BY <1>4, <1>6, <1>7, <1>8, <1>9, <1>10 DEF WholeList
<1> QED BY <1>4, <1>11

\* The rows that a transaction enters, in the order of their messages.
Entered(first, chat, h) ==
  [i \in DOMAIN h |->
     [id |-> first + i - 1, chat |-> chat, turn |-> h[i].turn, pos |-> h[i].pos, at |-> h[i].at]]

RowsEntered(first, chat, h) ==
  {[id |-> first + i - 1, chat |-> chat, turn |-> h[i].turn, pos |-> h[i].pos, at |-> h[i].at] :
     i \in DOMAIN h}

\* They are new rows in the order of the list, whole if the list is, and tell
\* the list again.
LEMMA EnteredIs ==
  ASSUME NEW first \in Nat, NEW chat \in Chats, NEW sizes, NEW h, WholeList(h, sizes)
  PROVE  LET R == RowsEntered(first, chat, h)
         IN  /\ RowSet(R) /\ WholeRows(R, sizes)
             /\ \A r \in R : r.chat = chat /\ r.id >= first /\ r.id < first + Len(h)
             /\ Tell(Listed(R)) = h
<1> DEFINE R == RowsEntered(first, chat, h)
<1>1. PICK k \in Nat : k = Len(h) /\ DOMAIN h = 1 .. k /\ h \in [1 .. k -> Line]
  BY DEF WholeList
<1>2. PICK m : m = Entered(first, chat, h)
  OBVIOUS
<1>3. ASSUME NEW i \in 1 .. k
      PROVE  /\ m[i] = [id |-> first + i - 1, chat |-> chat, turn |-> h[i].turn,
                        pos |-> h[i].pos, at |-> h[i].at]
             /\ m[i] \in StoredRow /\ m[i].id = first + i - 1 /\ m[i].chat = chat
             /\ m[i].turn = h[i].turn /\ m[i].pos = h[i].pos /\ m[i].at = h[i].at
             /\ h[i] \in Line
  <2>1. m[i] = [id |-> first + i - 1, chat |-> chat, turn |-> h[i].turn,
                pos |-> h[i].pos, at |-> h[i].at]
    BY <1>1, <1>2 DEF Entered
  <2>2. h[i] \in Line
    BY <1>1
  <2>3. first + i - 1 \in Nat
    OBVIOUS
  <2> QED BY <2>1, <2>2, <2>3 DEF Line, StoredRow
<1>4. R = {m[i] : i \in 1 .. k}
  BY <1>1, <1>3, ZenonT(30) DEF RowsEntered
<1> HIDE DEF R
<1>5. RowSet(R)
  <2>1. R \in SUBSET StoredRow
    BY <1>3, <1>4
  <2>2. IsFiniteSet(R)
    <3>1. [i \in 1 .. k |-> m[i]] \in Surjection(1 .. k, R)
      BY <1>4 DEF Surjection
    <3> QED BY <3>1, FS_Surjection, FS_Interval
  <2>3. ASSUME NEW r \in R, NEW s \in R, r.id = s.id PROVE r = s
    <3>1. PICK i \in 1 .. k, j \in 1 .. k : r = m[i] /\ s = m[j]
      BY <1>4
    <3>2. first + i - 1 = first + j - 1
      BY <1>3, <2>3, <3>1, Zenon
    <3>3. i = j
      BY <3>2
    <3> QED BY <3>1, <3>3
  <2> QED BY <2>1, <2>2, <2>3 DEF RowSet
<1>6. ASSUME NEW i \in 1 .. k, NEW j \in 1 .. k, j = i + 1, Continues(h[i], h[j])
      PROVE  ComesNext(m[i], m[j])
  <2>1. m[j].id = m[i].id + 1
    <3>1. m[j].id = first + j - 1 /\ m[i].id = first + i - 1
      BY <1>3
    <3>2. first + j - 1 = (first + i - 1) + 1
      BY <1>6
    <3> QED BY <3>1, <3>2
  <2> QED BY <1>3, <1>6, <2>1 DEF ComesNext, Continues
<1>7. WholeRows(R, sizes)
  <2> SUFFICES ASSUME NEW i \in 1 .. k
               PROVE  /\ m[i].turn \in DOMAIN sizes
                      /\ m[i].pos > 1 => \E q \in R : ComesNext(q, m[i])
                      /\ m[i].pos < sizes[m[i].turn] => \E q \in R : ComesNext(m[i], q)
    BY <1>4 DEF WholeRows
  <2>1. /\ h[i].turn \in DOMAIN sizes
        /\ h[i].pos > 1 => i - 1 \in 1 .. k /\ Continues(h[i - 1], h[i])
        /\ h[i].pos < sizes[h[i].turn] => i + 1 \in 1 .. k /\ Continues(h[i], h[i + 1])
    BY <1>1 DEF WholeList
  <2>2. ASSUME h[i].pos > 1 PROVE \E q \in R : ComesNext(q, m[i])
    <3>1. i - 1 \in 1 .. k /\ i = (i - 1) + 1 /\ Continues(h[i - 1], h[i])
      BY <2>1, <2>2
    <3>2. ComesNext(m[i - 1], m[i]) /\ m[i - 1] \in R
      BY <1>4, <1>6, <3>1
    <3> QED BY <3>2
  <2>3. ASSUME h[i].pos < sizes[h[i].turn] PROVE \E q \in R : ComesNext(m[i], q)
    <3>1. i + 1 \in 1 .. k /\ Continues(h[i], h[i + 1])
      BY <2>1, <2>3
    <3>2. ComesNext(m[i], m[i + 1]) /\ m[i + 1] \in R
      BY <1>4, <1>6, <3>1
    <3> QED BY <3>2
  <2> QED BY <1>3, <2>1, <2>2, <2>3
<1>8. \A r \in R : r.chat = chat /\ r.id >= first /\ r.id < first + Len(h)
  <2> SUFFICES ASSUME NEW i \in 1 .. k
               PROVE  m[i].chat = chat /\ m[i].id >= first /\ m[i].id < first + k
    BY <1>1, <1>4
  <2>1. first + i - 1 >= first /\ first + i - 1 < first + k
    OBVIOUS
  <2> QED BY <1>3, <2>1
<1>9. Lists(m, R)
  <2>1. DOMAIN m = 1 .. k /\ m \in [1 .. k -> R]
    BY <1>1, <1>2, <1>4 DEF Entered
  <2>2. m \in Seq(R)
    BY <2>1
  <2>3. ASSUME NEW i \in 1 .. k, NEW j \in 1 .. k, i < j PROVE Before(m[i], m[j])
    <3>1. h[i].at <= h[j].at /\ h[i].at \in Nat /\ h[j].at \in Nat
      BY <1>1, <1>3, <2>3 DEF WholeList, Line
    <3>2. m[i].at = h[i].at /\ m[j].at = h[j].at /\ m[i].id = first + i - 1 /\ m[j].id = first + j - 1
      BY <1>3
    <3> QED BY <2>3, <3>1, <3>2 DEF Before
  <2> QED BY <1>4, <2>1, <2>2, <2>3 DEF Lists
<1>10. m = Listed(R)
  BY <1>5, <1>9, ListsIsListed
<1>11. Tell(m) = h
  <2>1. DOMAIN m = 1 .. k
    BY <1>1, <1>2 DEF Entered
  <2>2. ASSUME NEW i \in 1 .. k PROVE Told(m[i]) = h[i]
    BY <1>3 DEF Told, Line
  <2> QED BY <1>1, <2>1, <2>2 DEF Tell
<1> QED BY <1>5, <1>7, <1>8, <1>10, <1>11 DEF R

\* A history is the end of what is told, for the reverse order counts from
\* the other end.
LEMMA NewestFirst ==
  ASSUME NEW R, RowSet(R), NEW n \in Nat, n = Cardinality(R), NEW i \in 1 .. n
  PROVE  (CHOOSE r \in R : Cardinality({s \in R : Before(r, s)}) = i - 1) = Listed(R)[n - i + 1]
<1>1. IsFiniteSet(R)
  BY DEF RowSet
<1>2. PICK l : l = Listed(R)
  OBVIOUS
<1>3. /\ DOMAIN l = 1 .. n /\ l \in [1 .. n -> R]
      /\ \A j \in 1 .. n : Rank(R, l[j]) = j - 1
  <2>1. l \in Seq(R) /\ Len(l) = n
    BY <1>2, ListedIs DEF Lists
  <2>2. DOMAIN l = 1 .. n
    BY <2>1
  <2> QED BY <1>2, <2>1, <2>2, ListedIs
<1>4. ASSUME NEW r \in R PROVE Cardinality({s \in R : Before(r, s)}) = n - 1 - Rank(R, r)
  <2> DEFINE E == {s \in R : Before(s, r)}
             L == {s \in R : Before(r, s)}
  <2>1. IsFiniteSet(E) /\ IsFiniteSet(L)
    BY <1>1, FS_Subset
  <2>2. E \cap L = {} /\ E \cup L = R \ {r}
    BY BeforeOrders
  <2>3. Cardinality(R \ {r}) = n - 1
    BY <1>1, FS_RemoveElement
  <2>4. Cardinality(E \cup L) = Cardinality(E) + Cardinality(L) - Cardinality(E \cap L)
    BY <2>1, FS_Union
  <2>5. Cardinality(E \cap L) = 0 /\ Cardinality(E) \in Nat /\ Cardinality(L) \in Nat
    BY <2>1, <2>2, FS_EmptySet, FS_CardinalityType
  <2> HIDE DEF E, L
  <2>6. \A c, d, e \in Nat : n - 1 = c + d - e /\ e = 0 => d = n - 1 - c
    OBVIOUS
  <2>7. Cardinality(L) = n - 1 - Cardinality(E)
    <3>1. n - 1 = Cardinality(E) + Cardinality(L) - Cardinality(E \cap L)
      BY <2>2, <2>3, <2>4
    <3>2. PICK c \in Nat, d \in Nat, e \in Nat :
            c = Cardinality(E) /\ d = Cardinality(L) /\ e = Cardinality(E \cap L)
      BY <2>5
    <3>3. n - 1 = c + d - e /\ e = 0
      BY <2>5, <3>1, <3>2
    <3>4. d = n - 1 - c
      BY <2>6, <3>3
    <3> QED BY <3>2, <3>4
  <2> QED BY <2>7 DEF Rank, E, L
<1>5. n - i + 1 \in 1 .. n /\ (n - i + 1) - 1 = n - i /\ n - 1 - (n - i) = i - 1
  OBVIOUS
<1>6. l[n - i + 1] \in R /\ Rank(R, l[n - i + 1]) = n - i
  BY <1>3, <1>5
<1>7. Cardinality({s \in R : Before(l[n - i + 1], s)}) = i - 1
  BY <1>4, <1>5, <1>6
<1>8. ASSUME NEW r \in R, Cardinality({s \in R : Before(r, s)}) = i - 1 PROVE r = l[n - i + 1]
  <2>1. n - 1 - Rank(R, r) = i - 1 /\ Rank(R, r) \in 0 .. n - 1
    BY <1>4, <1>8, RankIs
  <2>2. Rank(R, r) = n - i
    BY <2>1
  <2> QED BY <1>6, <2>2, RankIs
<1> QED BY <1>2, <1>6, <1>7, <1>8

(* The invariant of the table: its rows are a set of whole turns below the   *)
(* next id, and the file of the last export is a list of whole turns, also   *)
(* after the session it was taken from has changed or gone.                  *)
MessagesInv ==
  /\ second \in Nat /\ nextId \in Nat /\ turns \in Seq(Nat)
  /\ RowSet(rows) /\ \A r \in rows : r.id < nextId
  /\ WholeRows(rows, turns)
  /\ file # Unset => file.chat \in Chats /\ WholeList(file.rows, turns)

\* The rows of some chats are as good as all.
LEMMA RowsOfChats ==
  ASSUME NEW R, RowSet(R), NEW sizes, WholeRows(R, sizes), NEW K
  PROVE  LET S == {r \in R : r.chat \in K} IN RowSet(S) /\ WholeRows(S, sizes)
<1> DEFINE S == {r \in R : r.chat \in K}
<1>1. RowSet(S)
  <2>1. IsFiniteSet(S)
    BY FS_Subset DEF RowSet
  <2> QED BY <2>1 DEF RowSet
<1>2. ASSUME NEW r \in R, NEW q \in R, ComesNext(q, r) \/ ComesNext(r, q), r \in S PROVE q \in S
  BY <1>2 DEF ComesNext
<1>3. WholeRows(S, sizes)
  BY <1>2 DEF WholeRows
<1> QED BY <1>1, <1>3

\* Rows entered above the old ids are as good as the old ones.
LEMMA RowsTogether ==
  ASSUME NEW R, NEW S, RowSet(R), RowSet(S), NEW n \in Nat,
         \A r \in R : r.id < n, \A s \in S : s.id >= n,
         NEW sizes, WholeRows(R, sizes), WholeRows(S, sizes)
  PROVE  RowSet(R \cup S) /\ WholeRows(R \cup S, sizes)
<1>1. IsFiniteSet(R \cup S)
  BY FS_Union DEF RowSet
<1>2. ASSUME NEW r \in R, NEW s \in S PROVE r.id # s.id
  <2>1. r.id \in Nat /\ s.id \in Nat /\ r.id < n /\ s.id >= n
    BY DEF RowSet, StoredRow
  <2> QED BY <2>1
<1>3. RowSet(R \cup S)
  BY <1>1, <1>2 DEF RowSet
<1>4. WholeRows(R \cup S, sizes)
  BY DEF WholeRows
<1> QED BY <1>3, <1>4

\* A further turn leaves the sizes of the others.
LEMMA FurtherTurn ==
  ASSUME NEW t \in Seq(Nat), NEW size \in Nat
  PROVE  /\ Append(t, size) \in Seq(Nat)
         /\ \A R : WholeRows(R, t) => WholeRows(R, Append(t, size))
         /\ \A h : WholeList(h, t) => WholeList(h, Append(t, size))
<1>1. PICK n \in Nat : n = Len(t) /\ DOMAIN t = 1 .. n
  OBVIOUS
<1>2. PICK u : u = Append(t, size)
  OBVIOUS
<1>3. u \in Seq(Nat) /\ DOMAIN u = 1 .. n + 1 /\ \A i \in 1 .. n : u[i] = t[i]
  BY <1>1, <1>2, AppendProperties
<1>4. \A i \in DOMAIN t : i \in DOMAIN u /\ u[i] = t[i]
  BY <1>1, <1>3
<1>5. ASSUME NEW R, WholeRows(R, t) PROVE WholeRows(R, u)
  BY <1>4, <1>5 DEF WholeRows
<1>6. ASSUME NEW h, WholeList(h, t) PROVE WholeList(h, u)
  BY <1>4, <1>6 DEF WholeList
<1> QED BY <1>2, <1>3, <1>5, <1>6

\* The messages of a turn with one second are a whole list.
LEMMA TurnIsWhole ==
  ASSUME NEW t \in Seq(Nat), NEW size \in Nat, NEW at \in Nat
  PROVE  WholeList([i \in 1 .. size |-> [turn |-> Len(t) + 1, pos |-> i, at |-> at]], Append(t, size))
<1>1. PICK n \in Nat : n = Len(t)
  OBVIOUS
<1>2. PICK u : u = Append(t, size)
  OBVIOUS
<1>3. u[n + 1] = size /\ n + 1 \in DOMAIN u
  BY <1>1, <1>2, AppendProperties
<1>4. PICK h : h = [i \in 1 .. size |-> [turn |-> n + 1, pos |-> i, at |-> at]]
  OBVIOUS
<1>5. DOMAIN h = 1 .. size /\ \A i \in 1 .. size : h[i] = [turn |-> n + 1, pos |-> i, at |-> at]
  BY <1>4
<1>6. \A i \in 1 .. size : h[i] \in Line /\ h[i].turn = n + 1 /\ h[i].pos = i /\ h[i].at = at
  BY <1>5 DEF Line
<1>7. h \in Seq(Line)
  <2>1. h \in [1 .. size -> Line]
    BY <1>4, <1>6
  <2> QED BY <2>1
<1>8. ASSUME NEW i \in 1 .. size, h[i].pos > 1 PROVE i - 1 \in 1 .. size /\ Continues(h[i - 1], h[i])
  <2>1. i - 1 \in 1 .. size /\ i = (i - 1) + 1
    BY <1>6, <1>8
  <2> QED BY <1>6, <2>1 DEF Continues
<1>9. ASSUME NEW i \in 1 .. size, h[i].pos < u[h[i].turn]
      PROVE  i + 1 \in 1 .. size /\ Continues(h[i], h[i + 1])
  <2>1. i + 1 \in 1 .. size
    BY <1>3, <1>6, <1>9
  <2> QED BY <1>6, <2>1 DEF Continues
<1>10. WholeList(h, u)
  BY <1>3, <1>5, <1>6, <1>7, <1>8, <1>9 DEF WholeList
<1> QED BY <1>1, <1>2, <1>4, <1>10

\* Entering a whole list keeps the table.
LEMMA EnteringKeeps ==
  ASSUME MessagesInv, NEW chat \in Chats, NEW h, WholeList(h, turns')
  PROVE  LET S == RowsEntered(nextId, chat, h)
         IN  WholeRows(rows, turns') =>
               /\ RowSet(rows \cup S) /\ WholeRows(rows \cup S, turns')
               /\ nextId + Len(h) \in Nat
               /\ \A r \in rows \cup S : r.id < nextId + Len(h)
<1> DEFINE S == RowsEntered(nextId, chat, h)
<1> SUFFICES ASSUME WholeRows(rows, turns')
             PROVE  /\ RowSet(rows \cup S) /\ WholeRows(rows \cup S, turns')
                    /\ nextId + Len(h) \in Nat
                    /\ \A r \in rows \cup S : r.id < nextId + Len(h)
  OBVIOUS
<1>1. nextId \in Nat /\ RowSet(rows) /\ \A r \in rows : r.id < nextId
  BY DEF MessagesInv
<1>2. PICK k \in Nat : k = Len(h)
  BY DEF WholeList
<1>3. RowSet(S) /\ WholeRows(S, turns') /\ \A r \in S : r.id >= nextId /\ r.id < nextId + k
  BY <1>1, <1>2, EnteredIs
<1> HIDE DEF S
<1>4. RowSet(rows \cup S) /\ WholeRows(rows \cup S, turns')
  BY <1>1, <1>3, RowsTogether
<1>5. ASSUME NEW r \in rows PROVE r.id < nextId + k
  <2>1. r.id \in Nat /\ r.id < nextId
    BY <1>1 DEF RowSet, StoredRow
  <2> QED BY <1>1, <2>1
<1> QED BY <1>1, <1>2, <1>3, <1>4, <1>5

\* Every operation on the messages keeps the table and the file.
LEMMA MessagesStep == ASSUME MessagesInv, [StoreNext]_storeVars PROVE MessagesInv'
<1>1. /\ second \in Nat /\ nextId \in Nat /\ turns \in Seq(Nat)
      /\ RowSet(rows) /\ \A r \in rows : r.id < nextId
      /\ WholeRows(rows, turns)
      /\ file # Unset => file.chat \in Chats /\ WholeList(file.rows, turns)
  BY DEF MessagesInv
<1>2. ASSUME second' \in Nat, nextId' \in Nat, turns' \in Seq(Nat),
             RowSet(rows'), \A r \in rows' : r.id < nextId', WholeRows(rows', turns'),
             file' # Unset => file'.chat \in Chats /\ WholeList(file'.rows, turns')
      PROVE  MessagesInv'
  BY <1>2 DEF MessagesInv, RowSet, StoredRow, WholeRows, WholeList, Line, Continues, ComesNext
<1>3. ASSUME NEW K, rows' = {r \in rows : r.chat \in K}, UNCHANGED <<second, nextId, turns, file>>
      PROVE  MessagesInv'
  <2>1. RowSet(rows') /\ WholeRows(rows', turns)
    BY <1>1, <1>3, RowsOfChats
  <2> QED BY <1>1, <1>2, <1>3, <2>1
<1>4. ASSUME NEW chat \in Chats, NEW size \in TurnSizes, SaveConversation(chat, size)
      PROVE  MessagesInv'
  <2> DEFINE h == [i \in 1 .. size |-> [turn |-> Len(turns) + 1, pos |-> i, at |-> second]]
  <2>1. /\ turns' = Append(turns, size) /\ rows' = rows \cup RowsEntered(nextId, chat, h)
        /\ nextId' = nextId + size /\ second' = second /\ file' = file
    BY <1>4 DEF SaveConversation, Inserted, RowsEntered, memoryVars
  <2>2. size \in Nat
    BY StoreAssumption
  <2>3. turns' \in Seq(Nat) /\ WholeRows(rows, turns') /\ WholeList(h, turns')
    BY <1>1, <2>1, <2>2, FurtherTurn, TurnIsWhole
  <2>4. file # Unset => WholeList(file.rows, turns')
    BY <1>1, <2>1, <2>2, FurtherTurn
  <2>5. Len(h) = size
    BY <2>2
  <2> HIDE DEF h
  <2>6. /\ RowSet(rows') /\ WholeRows(rows', turns') /\ nextId' \in Nat
        /\ \A r \in rows' : r.id < nextId'
    BY <2>1, <2>3, <2>5, EnteringKeeps
  <2> QED BY <1>1, <1>2, <2>1, <2>3, <2>4, <2>6
<1>5. ASSUME NEW chat \in Chats, DeleteSession(chat) PROVE MessagesInv'
  <2>1. rows' = {r \in rows : r.chat \in Chats \ {chat}}
    BY <1>1, <1>5 DEF DeleteSession, RowsOf, RowSet, StoredRow
  <2> QED BY <1>3, <1>5, <2>1 DEF DeleteSession
<1>6. ASSUME NEW cutoff, DeleteSessionsBefore(cutoff) PROVE MessagesInv'
  <2>1. rows' = {r \in rows : r.chat \in {c \in Chats : LastActive(c) >= cutoff}}
    BY <1>1, <1>6 DEF DeleteSessionsBefore, RowSet, StoredRow
  <2> QED BY <1>3, <1>6, <2>1 DEF DeleteSessionsBefore
<1>7. ASSUME NEW chat \in Chats, ExportSession(chat) PROVE MessagesInv'
  <2>1. /\ file' = [chat |-> chat, rows |-> Export(chat)]
        /\ UNCHANGED <<second, rows, nextId, turns>>
    BY <1>7 DEF ExportSession
  <2>2. Export(chat) = Tell(Listed({r \in rows : r.chat \in {chat}}))
    <3>1. RowsOf(chat) = {r \in rows : r.chat \in {chat}}
      BY DEF RowsOf
    <3> QED BY <3>1 DEF Export, Ordered, Listed, Rank, Tell
  <2>3. WholeList(Export(chat), turns)
    <3>1. PICK S : S = {r \in rows : r.chat \in {chat}}
      OBVIOUS
    <3>2. RowSet(S) /\ WholeRows(S, turns)
      BY <1>1, <3>1, RowsOfChats
    <3> QED BY <2>2, <3>1, <3>2, ListIsWhole
  <2> QED BY <1>1, <1>2, <2>1, <2>3
<1>8. CASE ImportSession
  <2>1. /\ file # Unset /\ rows' = rows \cup RowsEntered(nextId, file.chat, file.rows)
        /\ nextId' = nextId + Len(file.rows) /\ UNCHANGED <<second, turns, file>>
    BY <1>8 DEF ImportSession, Inserted, RowsEntered
  <2>2. /\ RowSet(rows') /\ WholeRows(rows', turns') /\ nextId' \in Nat
        /\ \A r \in rows' : r.id < nextId'
    BY <1>1, <2>1, EnteringKeeps
  <2> QED BY <1>1, <1>2, <2>1, <2>2
<1>9. CASE SetClock
  <2>1. second' \in Nat /\ UNCHANGED messageVars
    BY <1>9, StoreAssumption DEF SetClock
  <2> QED BY <1>1, <1>2, <2>1 DEF messageVars
<1>10. CASE MemoriesNext \/ UNCHANGED storeVars
  <2>1. UNCHANGED <<second, rows, nextId, turns, file>>
    BY <1>10 DEF MemoriesNext, SaveMemory, storeVars, messageVars
  <2> QED BY <1>1, <1>2, <2>1
<1> QED BY <1>4, <1>5, <1>6, <1>7, <1>8, <1>9, <1>10 DEF StoreNext, MessagesNext

\* The empty table.
LEMMA MessagesBegin == StoreInit => MessagesInv
<1> SUFFICES ASSUME StoreInit PROVE MessagesInv
  OBVIOUS
<1>1. second = 0 /\ rows = {} /\ nextId = 1 /\ turns = <<>> /\ file = Unset
  BY DEF StoreInit
<1>2. RowSet({})
  BY FS_EmptySet DEF RowSet
<1> QED BY <1>1, <1>2 DEF MessagesInv, WholeRows

\* The inductive invariant of the table of messages.
LEMMA MessagesInvariant == StoreSpec => []MessagesInv
BY MessagesBegin, MessagesStep, PTL DEF StoreSpec

\* What a session tells is its rows in their order.
LEMMA ExportIs ==
  ASSUME MessagesInv, NEW chat
  PROVE  /\ RowSet(RowsOf(chat)) /\ WholeRows(RowsOf(chat), turns)
         /\ Export(chat) = Tell(Listed(RowsOf(chat)))
         /\ WholeList(Export(chat), turns)
<1>1. PICK S : S = RowsOf(chat)
  OBVIOUS
<1>2. S = {r \in rows : r.chat \in {chat}}
  BY <1>1 DEF RowsOf
<1>3. RowSet(S) /\ WholeRows(S, turns)
  BY <1>2, RowsOfChats DEF MessagesInv
<1>4. Export(chat) = Tell(Listed(S))
  BY <1>1 DEF Export, Ordered, Listed, Rank, Tell
<1>5. WholeList(Tell(Listed(S)), turns)
  BY <1>3, ListIsWhole
<1> QED BY <1>1, <1>3, <1>4, <1>5

\* A limited history is the end of what the session tells.
LEMMA HistoryIsEnd ==
  ASSUME MessagesInv, NEW chat, NEW limit \in 0 .. Cardinality(RowsOf(chat))
  PROVE  GetHistory(chat, limit) =
           SubSeq(Export(chat), Len(Export(chat)) - limit + 1, Len(Export(chat)))
<1>1. PICK S : S = RowsOf(chat) /\ RowSet(S)
  BY ExportIs
<1>2. PICK n \in Nat : n = Cardinality(S)
  BY <1>1, ListedIs
<1>3. PICK l : l = Listed(S) /\ l \in [1 .. n -> S] /\ DOMAIN l = 1 .. n
  <2>1. Listed(S) \in Seq(S) /\ Len(Listed(S)) = n
    BY <1>1, <1>2, ListedIs DEF Lists
  <2> QED BY <2>1
<1>4. PICK newest : newest = Ordered(chat, LAMBDA a, b : Before(b, a))
  OBVIOUS
<1>5. newest = [i \in 1 .. n |-> CHOOSE r \in S : Cardinality({s \in S : Before(r, s)}) = i - 1]
  BY <1>1, <1>2, <1>4 DEF Ordered
<1>6. ASSUME NEW i \in 1 .. n PROVE newest[i] = l[n - i + 1]
  BY <1>1, <1>2, <1>3, <1>5, NewestFirst, ZenonT(30)
<1>7. newest \in [1 .. n -> S] /\ newest \in Seq(S) /\ Len(newest) = n
  <2>1. ASSUME NEW i \in 1 .. n PROVE newest[i] \in S
    <3>1. n - i + 1 \in 1 .. n
      OBVIOUS
    <3> QED BY <1>3, <1>6, <3>1
  <2>2. newest \in [1 .. n -> S]
    BY <1>5, <2>1
  <2> QED BY <2>2
<1>8. PICK m \in Nat : m = limit /\ m <= n
  BY <1>1, <1>2
<1>9. PICK last : last = SubSeq(newest, 1, m)
  OBVIOUS
<1>10. Len(last) = m /\ DOMAIN last = 1 .. m /\ \A i \in 1 .. m : last[i] = newest[i]
  BY <1>7, <1>8, <1>9
<1>11. GetHistory(chat, limit) = [i \in 1 .. m |-> Told(last[m - i + 1])]
  <2>1. SubSeq(newest, 1, IF limit < Len(newest) THEN limit ELSE Len(newest)) = last
    BY <1>7, <1>8, <1>9
  <2>2. GetHistory(chat, limit) = [i \in DOMAIN last |-> Told(Reverse(last)[i])]
    BY <1>4, <2>1 DEF GetHistory
  <2>3. \A i \in 1 .. m : Reverse(last)[i] = last[m - i + 1]
    BY <1>10 DEF Reverse
  <2> QED BY <1>10, <2>2, <2>3
<1>12. ASSUME NEW i \in 1 .. m PROVE last[m - i + 1] = l[n - m + i]
  <2>1. m - i + 1 \in 1 .. m /\ m - i + 1 \in 1 .. n /\ n - (m - i + 1) + 1 = n - m + i
    BY <1>8
  <2> QED BY <1>6, <1>10, <2>1
<1>13. PICK h : h = Export(chat) /\ h = [i \in 1 .. n |-> Told(l[i])]
  BY <1>1, <1>3, ExportIs DEF Tell
<1>14. h \in Seq(Line) /\ Len(h) = n
  <2>1. h \in Seq(Line)
    BY <1>13, ExportIs DEF WholeList
  <2>2. DOMAIN h = 1 .. n
    BY <1>13
  <2> QED BY <2>1, <2>2
<1>15. PICK e : e = SubSeq(h, n - m + 1, n)
  OBVIOUS
<1>16. e \in [1 .. m -> Line] /\ \A i \in 1 .. m : e[i] = h[n - m + i]
  <2>1. e \in Seq(Line) /\ Len(e) = m
    BY <1>8, <1>14, <1>15
  <2>2. \A i \in 1 .. m : e[i] = h[n - m + i]
    BY <1>8, <1>14, <1>15
  <2> QED BY <2>1, <2>2
<1>17. ASSUME NEW i \in 1 .. m PROVE Told(last[m - i + 1]) = e[i]
  <2>1. n - m + i \in 1 .. n
    BY <1>8
  <2> QED BY <1>12, <1>13, <1>16, <2>1
<1>18. e = [i \in 1 .. m |-> Told(last[m - i + 1])]
  BY <1>16, <1>17
<1>19. n - m + 1 = Len(Export(chat)) - limit + 1 /\ n = Len(Export(chat))
  BY <1>8, <1>13, <1>14
<1> QED BY <1>11, <1>13, <1>15, <1>18, <1>19

(* Whatever is saved, deleted, pruned and imported, for any number of chats, *)
(* turns and messages, and however the clock is set: a history is made of    *)
(* whole turns, each with its messages together and in their order, and a    *)
(* prompt's history is its end.  Which turn comes first is left open: that   *)
(* is the order of their seconds (lines 205-288, 448-476).                   *)
THEOREM HistoriesStayWhole == StoreSpec => []HistoriesWhole
<1>1. MessagesInv => TurnsWhole
  <2> SUFFICES ASSUME MessagesInv, NEW chat \in Chats, NEW h, h = Export(chat), NEW i \in DOMAIN h
               PROVE  /\ h[i].pos > 1 => /\ i > 1
                                         /\ h[i - 1].turn = h[i].turn
                                         /\ h[i - 1].pos = h[i].pos - 1
                      /\ h[i].pos < turns[h[i].turn] => /\ i < Len(h)
                                                        /\ h[i + 1].turn = h[i].turn
    BY DEF TurnsWhole
  <2>1. WholeList(h, turns)
    BY ExportIs
  <2>2. PICK n \in Nat : n = Len(h) /\ DOMAIN h = 1 .. n /\ h \in [1 .. n -> Line]
    BY <2>1 DEF WholeList
  <2>3. ASSUME h[i].pos > 1
        PROVE  i > 1 /\ h[i - 1].turn = h[i].turn /\ h[i - 1].pos = h[i].pos - 1
    <3>1. i - 1 \in 1 .. n /\ Continues(h[i - 1], h[i])
      BY <2>1, <2>2, <2>3 DEF WholeList
    <3>2. h[i - 1].pos \in Nat
      BY <2>2, <3>1 DEF Line
    <3> QED BY <2>2, <3>1, <3>2 DEF Continues
  <2>4. ASSUME h[i].pos < turns[h[i].turn]
        PROVE  i < Len(h) /\ h[i + 1].turn = h[i].turn
    <3>1. i + 1 \in 1 .. n /\ Continues(h[i], h[i + 1])
      BY <2>1, <2>2, <2>4 DEF WholeList
    <3> QED BY <2>2, <3>1 DEF Continues
  <2> QED BY <2>3, <2>4
<1>2. MessagesInv => HistoryIsSuffix
  BY HistoryIsEnd DEF HistoryIsSuffix
<1> QED BY <1>1, <1>2, MessagesInvariant, PTL DEF HistoriesWhole

(* Sessions go and come back whole, for any contents: no command removes a   *)
(* part of one, and an import into a session that is gone restores what was  *)
(* exported, in its order (lines 381-408, 448-476).                          *)
THEOREM SessionsStayWhole == StoreSpec => SessionsWhole
<1>1. ASSUME MessagesInv, [StoreNext]_storeVars, NEW chat \in Chats
      PROVE  RowsOf(chat) \subseteq rows' \/ RowsOf(chat)' = {}
  <2>1. CASE rows \subseteq rows'
    BY <2>1 DEF RowsOf
  <2>2. ASSUME NEW c \in Chats, DeleteSession(c)
        PROVE  RowsOf(chat) \subseteq rows' \/ RowsOf(chat)' = {}
    BY <2>2 DEF DeleteSession, RowsOf
  <2>3. ASSUME NEW cutoff, DeleteSessionsBefore(cutoff)
        PROVE  RowsOf(chat) \subseteq rows' \/ RowsOf(chat)' = {}
    <3>1. rows' = {r \in rows : LastActive(r.chat) >= cutoff}
      BY <2>3 DEF DeleteSessionsBefore
    <3>2. CASE LastActive(chat) >= cutoff
      BY <3>1, <3>2 DEF RowsOf
    <3>3. CASE ~(LastActive(chat) >= cutoff)
      BY <3>1, <3>3 DEF RowsOf
    <3> QED BY <3>2, <3>3
  <2>4. rows \subseteq rows' \/ (\E c \in Chats : DeleteSession(c))
        \/ (\E d \in 0 .. LastSecond : DeleteSessionsBefore(second - d))
    BY <1>1 DEF StoreNext, MessagesNext, MemoriesNext, SaveConversation, ExportSession,
                ImportSession, SetClock, SaveMemory, storeVars, messageVars
  <2> QED BY <2>1, <2>2, <2>3, <2>4
<1>2. ASSUME MessagesInv, file # Unset, ImportSession, RowsOf(file.chat) = {}
      PROVE  Export(file.chat)' = file.rows
  <2>1. PICK S : S = RowsEntered(nextId, file.chat, file.rows)
    OBVIOUS
  <2>2. rows' = rows \cup S /\ file' = file
    BY <1>2, <2>1 DEF ImportSession, Inserted, RowsEntered
  <2>3. /\ RowSet(S) /\ \A r \in S : r.chat = file.chat
        /\ Tell(Listed(S)) = file.rows
    BY <1>2, <2>1, EnteredIs DEF MessagesInv
  <2>4. RowsOf(file.chat)' = S
    BY <1>2, <2>2, <2>3 DEF RowsOf
  <2>5. Export(file.chat)' = Tell(Listed(RowsOf(file.chat)'))
    BY DEF Export, Ordered, Listed, Rank, Tell
  <2> QED BY <2>3, <2>4, <2>5
<1>3. MessagesInv /\ [StoreNext]_storeVars =>
        [ /\ \A chat \in Chats : RowsOf(chat) \subseteq rows' \/ RowsOf(chat)' = {}
          /\ file # Unset /\ ImportSession /\ RowsOf(file.chat) = {}
               => Export(file.chat)' = file.rows ]_storeVars
  BY <1>1, <1>2
<1> QED BY <1>3, MessagesInvariant, PTL DEF StoreSpec, SessionsWhole

-----------------------------------------------------------------------------
(* The output of a command.                                                  *)

Places == {"new", "runtime", "venv", "plan", "running", "collect", "done"}
Verdicts == {"none", "refused", "error", "exit", "timeout"}
Counters == [ShellCalls -> [Streams -> Nat]]

\* What a process has written to a stream is in its pipe or was read, and of what
\* was read the beginning is kept.  A stream whose end was seen is empty for good.
Accounts(c, s) ==
  /\ left[c][s] + pipe[c][s] <= ProcessOf[c].writes[s]
  /\ kept[c][s] = Lower(ProcessOf[c].writes[s] - (left[c][s] + pipe[c][s]), KeepBytes)
  /\ s \in ended[c] => child[c] = "gone" /\ pipe[c][s] = 0

\* A process is started once, and a result waits for both streams.
Lives(c) ==
  /\ step[c] \in {"new", "runtime", "venv", "plan"} => child[c] = "none"
  /\ step[c] \notin {"collect", "done"} => verdict[c] = "none"
  /\ step[c] = "done" /\ verdict[c] \in {"exit", "timeout"} => ended[c] = Streams

ShellInv ==
  /\ step \in [ShellCalls -> Places] /\ verdict \in [ShellCalls -> Verdicts]
  /\ child \in [ShellCalls -> {"none", "alive", "gone"}]
  /\ ended \in [ShellCalls -> SUBSET Streams]
  /\ left \in Counters /\ pipe \in Counters /\ kept \in Counters
  /\ \A c \in ShellCalls : Lives(c) /\ \A s \in Streams : Accounts(c, s)

\* A new call has written nothing.
LEMMA ShellBegins == ShellInit => ShellInv
<1> SUFFICES ASSUME ShellInit PROVE ShellInv
  OBVIOUS
<1> USE DEF ShellInit
<1>1. ASSUME NEW c \in ShellCalls PROVE ProcessOf[c].writes \in [Streams -> Nat]
  BY ShellAssumption
<1>2. left \in Counters /\ pipe \in Counters /\ kept \in Counters
  BY <1>1 DEF Counters
<1>3. ASSUME NEW c \in ShellCalls, NEW s \in Streams PROVE Accounts(c, s)
  <2>1. PICK n \in Nat : n = ProcessOf[c].writes[s]
    BY <1>1
  <2>2. left[c][s] = n /\ pipe[c][s] = 0 /\ kept[c][s] = 0 /\ s \notin ended[c]
    BY <2>1
  <2>3. Lower(0, KeepBytes) = 0
    BY ShellAssumption DEF Lower
  <2>4. n - (n + 0) = 0 /\ n + 0 <= n
    OBVIOUS
  <2> QED BY <2>1, <2>2, <2>3, <2>4 DEF Accounts
<1>4. \A c \in ShellCalls : Lives(c)
  BY DEF Lives
<1>5. /\ step \in [ShellCalls -> Places] /\ verdict \in [ShellCalls -> Verdicts]
      /\ child \in [ShellCalls -> {"none", "alive", "gone"}]
      /\ ended \in [ShellCalls -> SUBSET Streams]
  BY DEF Places, Verdicts
<1> QED BY <1>2, <1>3, <1>4, <1>5 DEF ShellInv

\* The steps of a call itself touch neither pipes nor captures.
LEMMA CallKeeps ==
  ASSUME ShellInv, NEW c \in ShellCalls, ShellStep(c) \/ TimeIsUp(c) \/ Exit(c)
  PROVE  ShellInv'
<1> USE DEF ShellInv, processVars, streamVars, Advance, Return
<1>1. UNCHANGED <<left, pipe, kept, ended>>
  BY DEF ShellStep, CheckCommand, FindRuntime, CreateVenv, Start, Reap, Finish, TimeIsUp, Exit
<1>2. /\ step' \in [ShellCalls -> Places] /\ verdict' \in [ShellCalls -> Verdicts]
      /\ child' \in [ShellCalls -> {"none", "alive", "gone"}]
  BY DEF ShellStep, CheckCommand, FindRuntime, CreateVenv, Start, Reap, Finish, TimeIsUp, Exit,
         Places, Verdicts
<1>3. ASSUME NEW d \in ShellCalls PROVE Lives(d)'
  <2>1. Lives(d)
    OBVIOUS
  <2>2. CASE CheckCommand(c)
    BY <1>1, <2>1, <2>2 DEF Lives, CheckCommand
  <2>3. CASE FindRuntime(c)
    BY <1>1, <2>1, <2>3 DEF Lives, FindRuntime
  <2>4. CASE CreateVenv(c)
    BY <1>1, <2>1, <2>4 DEF Lives, CreateVenv
  <2>5. CASE Start(c)
    BY <1>1, <2>1, <2>5 DEF Lives, Start
  <2>6. CASE Reap(c)
    BY <1>1, <2>1, <2>6 DEF Lives, Reap
  <2>7. CASE Finish(c)
    BY <1>1, <2>1, <2>7 DEF Lives, Finish
  <2>8. CASE TimeIsUp(c)
    BY <1>1, <2>1, <2>8 DEF Lives, TimeIsUp, Alive
  <2>10. CASE Exit(c)
    BY <1>1, <2>1, <2>10 DEF Lives, Exit, Alive
  <2> QED BY <2>2, <2>3, <2>4, <2>5, <2>6, <2>7, <2>8, <2>10 DEF ShellStep
<1>4. \A d \in ShellCalls : child[d] = "gone" => child'[d] = "gone"
  BY DEF ShellStep, CheckCommand, FindRuntime, CreateVenv, Start, Reap, Finish, TimeIsUp,
         Exit, Lives
<1>5. ASSUME NEW d \in ShellCalls, NEW s \in Streams PROVE Accounts(d, s)'
  BY <1>1, <1>4 DEF Accounts
<1> QED BY <1>1, <1>2, <1>3, <1>5

\* What counts as one more byte written, and as all bytes read.
LEMMA BytesCount ==
  \A w, l, p, k \in Nat :
    /\ l + p <= w /\ l > 0 => (l - 1) + (p + 1) <= w /\ (l - 1) + (p + 1) = l + p
    /\ l + p <= w => /\ l + 0 <= w
                     /\ Lower(Lower(w - (l + p), k) + p, k) = Lower(w - (l + 0), k)
BY DEF Lower

\* Writing and reading move bytes on, in one stream.
LEMMA BytesMove ==
  ASSUME ShellInv, NEW c \in ShellCalls, NEW s \in Streams,
         Write(c, s) \/ Read(c, s) \/ ReadEnd(c, s)
  PROVE  ShellInv'
<1> DEFINE w == ProcessOf[c].writes[s]
           l == left[c][s]
           p == pipe[c][s]
           k == kept[c][s]
<1>1. w \in Nat /\ l \in Nat /\ p \in Nat /\ k \in Nat /\ KeepBytes \in Nat
  BY ShellAssumption DEF ShellInv, Counters
<1>2. Accounts(c, s) /\ Lives(c)
  BY DEF ShellInv
<1>3. UNCHANGED <<step, child, verdict>>
  BY DEF Write, Read, ReadEnd, processVars
<1>4. ASSUME NEW d \in ShellCalls, NEW t \in Streams, d # c \/ t # s
      PROVE  /\ left'[d][t] = left[d][t] /\ pipe'[d][t] = pipe[d][t] /\ kept'[d][t] = kept[d][t]
             /\ t \in ended'[d] <=> t \in ended[d]
  BY <1>4 DEF Write, Read, ReadEnd, processVars, ShellInv, Counters
<1>5. CASE Write(c, s)
  <2>1. /\ left'[c][s] = l - 1 /\ pipe'[c][s] = p + 1 /\ UNCHANGED <<kept, ended>>
        /\ l > 0 /\ child[c] = "alive"
        /\ left' = [left EXCEPT ![c][s] = l - 1] /\ pipe' = [pipe EXCEPT ![c][s] = p + 1]
    BY <1>5 DEF Write, ShellInv, Counters, Alive
  <2>2. left' \in Counters /\ pipe' \in Counters
    <3>1. l - 1 \in Nat /\ p + 1 \in Nat
      BY <1>1, <2>1
    <3> QED BY <2>1, <3>1 DEF Counters, ShellInv
  <2>3. Accounts(c, s)'
    <3>1. (l - 1) + (p + 1) <= w /\ (l - 1) + (p + 1) = l + p
      BY <1>1, <1>2, <2>1, BytesCount DEF Accounts
    <3> QED BY <1>2, <1>3, <2>1, <3>1 DEF Accounts
  <2>4. \A d \in ShellCalls, t \in Streams : Accounts(d, t)'
    BY <1>3, <1>4, <2>3 DEF Accounts, ShellInv
  <2> QED BY <1>3, <2>1, <2>2, <2>4 DEF ShellInv, Lives
<1>6. CASE Read(c, s)
  <2>1. /\ pipe'[c][s] = 0 /\ kept'[c][s] = Lower(k + p, KeepBytes) /\ UNCHANGED <<left, ended>>
        /\ pipe' = [pipe EXCEPT ![c][s] = 0]
        /\ kept' = [kept EXCEPT ![c][s] = Lower(k + p, KeepBytes)]
    BY <1>6 DEF Read, ShellInv, Counters, processVars
  <2>2. pipe' \in Counters /\ kept' \in Counters
    <3>1. Lower(k + p, KeepBytes) \in Nat
      BY <1>1 DEF Lower
    <3> QED BY <2>1, <3>1 DEF Counters, ShellInv
  <2>3. Accounts(c, s)'
    <3>1. l + 0 <= w /\ Lower(k + p, KeepBytes) = Lower(w - (l + 0), KeepBytes)
      BY <1>1, <1>2, BytesCount DEF Accounts
    <3> QED BY <1>2, <1>3, <2>1, <3>1 DEF Accounts
  <2>4. \A d \in ShellCalls, t \in Streams : Accounts(d, t)'
    BY <1>3, <1>4, <2>3 DEF Accounts, ShellInv
  <2> QED BY <1>3, <2>1, <2>2, <2>4 DEF ShellInv, Lives
<1>7. CASE ReadEnd(c, s)
  <2>1. /\ ended' = [ended EXCEPT ![c] = @ \cup {s}] /\ UNCHANGED <<left, pipe, kept>>
        /\ child[c] = "gone" /\ p = 0
    BY <1>7 DEF ReadEnd, processVars
  <2>2. Accounts(c, s)'
    BY <1>2, <1>3, <2>1 DEF Accounts
  <2>3. \A d \in ShellCalls, t \in Streams : Accounts(d, t)'
    BY <1>3, <1>4, <2>2 DEF Accounts, ShellInv
  <2>4. ended' \in [ShellCalls -> SUBSET Streams]
    BY <2>1 DEF ShellInv
  <2>5. ASSUME NEW d \in ShellCalls PROVE Lives(d)'
    BY <1>3, <2>1, <2>4 DEF ShellInv, Lives
  <2> QED BY <1>3, <2>1, <2>3, <2>4, <2>5 DEF ShellInv
<1> QED BY <1>5, <1>6, <1>7

\* The inductive invariant of the calls.
LEMMA ShellInvariant == ShellSpec => []ShellInv
<1>1. ShellInv /\ [ShellNext]_shellVars => ShellInv'
  <2> SUFFICES ASSUME ShellInv, [ShellNext]_shellVars PROVE ShellInv'
    OBVIOUS
  <2>1. ASSUME NEW c \in ShellCalls, HeirExits(c) PROVE ShellInv'
    BY <2>1 DEF HeirExits, ShellInv, Lives, Accounts, streamVars
  <2>2. CASE UNCHANGED shellVars
    BY <2>2 DEF shellVars, processVars, streamVars, ShellInv, Lives, Accounts
  <2> QED BY <2>1, <2>2, CallKeeps, BytesMove DEF ShellNext, AllReturned, ReadStep
<1> QED BY <1>1, ShellBegins, PTL DEF ShellSpec

\* What a command's result shows of an output is its beginning, as long as it may
\* be, for any processes, pipes and limits (tool/shell.rs, 1036-1047, 1062-1098).
THEOREM OutputBeginsAtItsBeginning == ShellSpec => []CapturedIsPrefix
<1>1. ShellInv => CapturedIsPrefix
  <2> SUFFICES ASSUME ShellInv, NEW c \in ShellCalls, step[c] = "done",
                      verdict[c] \in {"exit", "timeout"}, NEW s \in Streams
               PROVE  kept[c][s] = Lower(ProcessOf[c].writes[s] - left[c][s], KeepBytes)
    BY DEF CapturedIsPrefix
  <2>1. s \in ended[c] /\ Accounts(c, s)
    BY DEF ShellInv, Lives
  <2>2. left[c][s] + 0 = left[c][s]
    BY DEF ShellInv, Counters
  <2> QED BY <2>1, <2>2 DEF Accounts
<1> QED BY <1>1, ShellInvariant, PTL

-----------------------------------------------------------------------------
(* The skills: what the scan has found, and the registry.                    *)

\* The files among some that hold a skill of a name.
HoldingOf(name, some) == {f \in some : ParsedName(f, onDisk[f]) = name}

\* Skills show some of the files as they are, later sources before earlier ones.
ShowsOf(skills, name, some) ==
  IF HoldingOf(name, some) = {} THEN skills[name] = NoFile
  ELSE \E f \in HoldingOf(name, some) :
         /\ \A g \in HoldingOf(name, some) : SourceOf[g] <= SourceOf[f]
         /\ skills[name] = Entry(f, onDisk[f])

Shows(skills, some) == \A name \in Names : ShowsOf(skills, name, some)

\* No change is on its way to the task.
AllReported == notices = 0 /\ channel = 0

\* The scan goes from source to source; unless a change is on its way or was made
\* outside the watch behind the scan's back, what it has found shows the files it
\* has read, and the registry of a task at rest shows them all.
SkillsInv ==
  /\ notices \in Nat /\ channel \in Nat
  /\ toRead \subseteq Files /\ DOMAIN onDisk = Files
  /\ found = [n \in Names |-> found[n]]
  /\ reloader = "scan" =>
       \A f \in Files \ toRead, g \in toRead : SourceOf[f] <= SourceOf[g]
  /\ reloader = "start" => found = Nothing
  /\ AllReported /\ reloader = "scan" /\ unseen \cap (Files \ toRead) = {} =>
       Shows(found, Files \ toRead)
  /\ AllReported /\ reloader = "idle" /\ unseen \cap Files = {} => Shows(registry, Files)

\* Nothing shows no files, and files that are not there.
LEMMA NothingShows ==
  ASSUME NEW some, \A f \in some : onDisk[f] = NoFile
  PROVE  Shows(Nothing, some)
<1> SUFFICES ASSUME NEW name \in Names PROVE ShowsOf(Nothing, name, some)
  BY DEF Shows
<1>1. \A f \in some : ParsedName(f, onDisk[f]) = NoName
  BY DEF ParsedName
<1>2. HoldingOf(name, some) = {}
  BY <1>1, SkillsAssumption DEF HoldingOf
<1> QED BY <1>2 DEF ShowsOf, Nothing

\* A file of a source not before those read takes the place of a skill of its name.
LEMMA MergeShows ==
  ASSUME NEW skills, skills = [n \in Names |-> skills[n]],
         NEW some \in SUBSET Files, NEW f \in Files,
         \A g \in some : SourceOf[g] <= SourceOf[f],
         Shows(skills, some)
  PROVE  Shows(Merge(skills, f, onDisk[f]), some \cup {f})
<1> DEFINE named == ParsedName(f, onDisk[f])
           merged == Merge(skills, f, onDisk[f])
<1> SUFFICES ASSUME NEW name \in Names PROVE ShowsOf(merged, name, some \cup {f})
  BY DEF Shows
<1>1. ShowsOf(skills, name, some)
  BY DEF Shows
<1>2. NoName \notin Names /\ SourceOf[f] \in Nat
  BY SkillsAssumption
<1>3. CASE named = name
  <2>1. merged[name] = Entry(f, onDisk[f])
    BY <1>2, <1>3 DEF Merge
  <2>2. HoldingOf(name, some \cup {f}) = HoldingOf(name, some) \cup {f}
    BY <1>3 DEF HoldingOf
  <2>3. \A g \in HoldingOf(name, some) : SourceOf[g] <= SourceOf[f]
    BY DEF HoldingOf
  <2> HIDE DEF merged
  <2> QED BY <1>2, <2>1, <2>2, <2>3 DEF ShowsOf
<1>4. CASE named # name
  <2>1. merged[name] = skills[name]
    BY <1>4 DEF Merge
  <2>2. HoldingOf(name, some \cup {f}) = HoldingOf(name, some)
    BY <1>4 DEF HoldingOf
  <2> HIDE DEF merged
  <2> QED BY <1>1, <2>1, <2>2 DEF ShowsOf
<1> QED BY <1>3, <1>4

\* A step that changes no file changes nothing about what shows them.
LEMMA ShowsStay ==
  ASSUME onDisk' = onDisk
  PROVE  \A skills, some : Shows(skills, some) => Shows(skills, some)'
BY DEF Shows, ShowsOf, HoldingOf

\* A change of one file changes nothing about what shows the others.
LEMMA OthersShow ==
  ASSUME NEW f, NEW some, f \notin some, \A g \in some : onDisk'[g] = onDisk[g]
  PROVE  \A skills : Shows(skills, some) => Shows(skills, some)'
<1> SUFFICES ASSUME NEW skills, Shows(skills, some), NEW name \in Names
             PROVE  ShowsOf(skills, name, some)'
  BY DEF Shows
<1>1. \A g \in some : ParsedName(g, onDisk[g])' = ParsedName(g, onDisk[g])
  BY DEF ParsedName
<1>2. HoldingOf(name, some)' = HoldingOf(name, some)
  BY <1>1 DEF HoldingOf
<1>3. \A g \in HoldingOf(name, some) : Entry(g, onDisk[g])' = Entry(g, onDisk[g])
  BY DEF HoldingOf, Entry
<1> QED BY <1>2, <1>3 DEF Shows, ShowsOf

LEMMA SkillsStep == SkillsInv /\ [SkillsNext]_skillVars => SkillsInv'
<1> SUFFICES ASSUME SkillsInv, [SkillsNext]_skillVars PROVE SkillsInv'
  OBVIOUS
<1>1. ASSUME NEW f \in Files, Edit(f) PROVE SkillsInv'
  <2>0. /\ DOMAIN onDisk' = Files
        /\ \A g \in Files \ {f} : onDisk'[g] = onDisk[g]
    <3>1. DOMAIN onDisk = Files
      BY DEF SkillsInv
    <3>2. PICK now : onDisk' = [onDisk EXCEPT ![f] = now]
      BY <1>1 DEF Edit
    <3> QED BY <3>1, <3>2
  <2>1. CASE SourceOf[f] \in watched
    <3>1. notices' \in Nat /\ notices' # 0
      BY <1>1, <2>1 DEF Edit, SkillsInv
    <3>2. UNCHANGED <<channel, reloader, toRead, found, registry>>
      BY <1>1, <2>1 DEF Edit
    <3> QED BY <2>0, <3>1, <3>2 DEF SkillsInv, AllReported
  <2>2. CASE SourceOf[f] \notin watched
    <3>1. /\ unseen' = unseen \cup {f}
          /\ UNCHANGED <<notices, channel, reloader, toRead, found, registry>>
      BY <1>1, <2>2 DEF Edit
    <3>2. \A g \in Files \ {f} : onDisk'[g] = onDisk[g]
      BY <2>0
    <3>3. CASE f \notin Files \ toRead
      <4>1. Shows(found, Files \ toRead) => Shows(found, Files \ toRead)'
        <5>1. \A g \in Files \ toRead : onDisk'[g] = onDisk[g]
          BY <3>2, <3>3
        <5>2. Shows(found, Files \ toRead) => Shows(found, Files \ toRead)'
          BY <3>1, <3>3, <5>1, OthersShow
        <5> QED BY <3>1, <5>2
      <4>2. unseen' \cap (Files \ toRead') = unseen \cap (Files \ toRead)
        BY <3>1, <3>3
      <4> QED BY <2>0, <3>1, <4>1, <4>2 DEF SkillsInv, AllReported
    <3>4. CASE f \in Files \ toRead
      BY <2>0, <3>1, <3>4 DEF SkillsInv, AllReported
    <3> QED BY <3>3, <3>4
  <2> QED BY <2>1, <2>2
<1>2. CASE Notify
  <2>1. notices' \in Nat /\ channel' \in Nat /\ channel' # 0
    BY <1>2, SkillsAssumption DEF Notify, SkillsInv
  <2> QED BY <1>2, <2>1 DEF Notify, SkillsInv, AllReported
<1>3. CASE Awake
  <2>1. channel' \in Nat
    BY <1>3 DEF Awake, SkillsInv
  <2> QED BY <1>3, <2>1 DEF Awake, SkillsInv
<1>4. CASE Drain
  <2>1. onDisk' = onDisk /\ found' = Nothing /\ Files \ toRead' = {}
    BY <1>4 DEF Drain
  <2>2. Shows(Nothing, {})'
    BY <2>1, NothingShows, ShowsStay
  <2>3. found' = [n \in Names |-> found'[n]]
    BY <2>1 DEF Nothing
  <2>4. Shows(found, Files \ toRead)'
    BY <2>1, <2>2
  <2> QED BY <1>4, <2>1, <2>3, <2>4 DEF Drain, SkillsInv
<1>8. CASE StartScan
  <2>1. onDisk' = onDisk /\ found' = found /\ found = Nothing /\ Files \ toRead' = {}
    BY <1>8 DEF StartScan, SkillsInv
  <2>2. Shows(Nothing, {})'
    BY <2>1, NothingShows, ShowsStay
  <2>3. Shows(found, Files \ toRead)'
    BY <2>1, <2>2
  <2> QED BY <1>8, <2>1, <2>3 DEF StartScan, SkillsInv
<1>9. CASE Watch
  <2>1. onDisk' = onDisk /\ UNCHANGED <<notices, channel, reloader, toRead, found, registry, unseen>>
    BY <1>9 DEF Watch
  <2>2. Shows(registry, Files) => Shows(registry, Files)'
    BY <2>1, ShowsStay
  <2>3. reloader = "idle"
    BY <1>9 DEF Watch
  <2> QED BY <2>1, <2>2, <2>3 DEF SkillsInv, AllReported
<1>5. ASSUME NEW f \in Files, ReadSkill(f) PROVE SkillsInv'
  <2>1. onDisk' = onDisk /\ Files \ toRead' = (Files \ toRead) \cup {f}
    BY <1>5 DEF ReadSkill, SkillsInv
  <2>2. \A g \in Files \ toRead : SourceOf[g] <= SourceOf[f]
    BY <1>5 DEF ReadSkill, SkillsInv
  <2>3. AllReported /\ unseen \cap (Files \ toRead) = {} => Shows(found, Files \ toRead)
    BY <1>5 DEF ReadSkill, SkillsInv
  <2>7. unseen' \cap (Files \ toRead') = unseen \cap (Files \ toRead)
    BY <1>5, <2>1 DEF ReadSkill
  <2>4. AllReported /\ unseen' \cap (Files \ toRead') = {} => Shows(found, Files \ toRead)'
    BY <1>5, <2>1, <2>2, <2>3, <2>7, MergeShows, ShowsStay DEF ReadSkill, SkillsInv
  <2>5. found' = [n \in Names |-> found'[n]]
    BY <1>5 DEF ReadSkill, SkillsInv, Merge
  <2>6. \A g \in Files \ toRead', h \in toRead' : SourceOf[g] <= SourceOf[h]
    BY <1>5, <2>1 DEF ReadSkill, SkillsInv
  <2> QED BY <1>5, <2>4, <2>5, <2>6 DEF ReadSkill, SkillsInv, AllReported
<1>6. CASE Replace
  <2>1. onDisk' = onDisk /\ Files \ toRead = Files
    BY <1>6 DEF Replace
  <2>2. AllReported /\ unseen \cap Files = {} => Shows(found, Files)
    BY <1>6, <2>1 DEF Replace, SkillsInv
  <2>3. AllReported /\ unseen \cap Files = {} => Shows(registry, Files)'
    BY <1>6, <2>1, <2>2, ShowsStay DEF Replace
  <2>4. found' = [n \in Names |-> found'[n]]
    BY <1>6 DEF Replace, Nothing
  <2> QED BY <1>6, <2>3, <2>4 DEF Replace, SkillsInv, AllReported
<1>7. CASE UNCHANGED skillVars
  <2>1. onDisk' = onDisk
    BY <1>7 DEF skillVars
  <2>2. Shows(found, Files \ toRead) => Shows(found, Files \ toRead)'
    BY <1>7, <2>1, ShowsStay DEF skillVars
  <2>3. Shows(registry, Files) => Shows(registry, Files)'
    BY <1>7, <2>1, ShowsStay DEF skillVars
  <2> QED BY <1>7, <2>2, <2>3 DEF skillVars, SkillsInv, AllReported
<1> QED BY <1>1, <1>2, <1>3, <1>4, <1>5, <1>6, <1>7, <1>8, <1>9 DEF SkillsNext, SkillsAtRest

\* With no change on its way, none made outside the watch and left unread, and the
\* task at rest, the registry shows the files as they are, for any files, sources,
\* names and capacity of the watcher's channel, whatever changes were dropped or
\* overtook a scan (skill.rs, 361-461; main.rs, 326-333 and 420-433).
THEOREM RegistryIsCurrent == SkillsSpec => []QuietIsCurrent
<1>1. SkillsInit => SkillsInv
  <2> SUFFICES ASSUME SkillsInit PROVE SkillsInv
    OBVIOUS
  <2>1. found = [n \in Names |-> found[n]]
    BY DEF SkillsInit, Nothing
  <2> QED BY <2>1 DEF SkillsInit, SkillsInv
<1>2. SkillsInv => QuietIsCurrent
  BY DEF SkillsInv, QuietIsCurrent, AllReported, Shows, ShowsOf, HoldingOf, UpToDate, Holding
<1> QED BY <1>1, <1>2, SkillsStep, PTL DEF SkillsSpec

-----------------------------------------------------------------------------
(* The start.                                                                *)

\* What AppConfig may hold.
ConfigOf(Profiles, Tables, Labels, Secrets, Paths) ==
  [llm : [flat : SUBSET Profiles, tables : Tables], active : Labels, fallback : Labels,
   channelFeishu : SUBSET Secrets, feishu : SUBSET Secrets, dbPath : Paths,
   audited : BOOLEAN, auditFile : Paths]

\* A path that is resolved against an absolute home is absolute, and stays as it is.
LEMMA ResolvedOnce ==
  ASSUME NEW Parts, NEW home \in [root : {TRUE}, parts : Parts], NEW path
  PROVE  ResolvePath(home, ResolvePath(home, path)) = ResolvePath(home, path)
<1>1. ASSUME NEW v PROVE [home EXCEPT !.parts = v].root
  OBVIOUS
<1>2. CASE path.root
  BY <1>2 DEF ResolvePath
<1>3. CASE ~path.root
  <2>1. PICK v : ResolvePath(home, path) = [home EXCEPT !.parts = v]
    BY <1>3 DEF ResolvePath
  <2>2. ResolvePath(home, path).root
    BY <1>1, <2>1
  <2>3. PICK resolved : resolved = ResolvePath(home, path)
    OBVIOUS
  <2>4. resolved.root => ResolvePath(home, resolved) = resolved
    BY DEF ResolvePath
  <2> QED BY <2>2, <2>3, <2>4
<1> QED BY <1>2, <1>3

\* The start reads of a configuration what these parts of it are.
LEMMA StartReads ==
  ASSUME NEW config, NEW other, NEW env, NEW home, NEW faults,
         ParseLlmProfiles(other.llm) = ParseLlmProfiles(config.llm),
         other.active = config.active, other.fallback = config.fallback,
         other.channelFeishu = config.channelFeishu, other.feishu = config.feishu,
         other.dbPath = config.dbPath, other.auditFile = config.auditFile
  PROVE  /\ LoadFromStr(other, env) = LoadFromStr(config, env)
         /\ other.audited = config.audited =>
              Bootstrap(other, env, home, faults) = Bootstrap(config, env, home, faults)
<1>1. LoadFromStr(other, env) = LoadFromStr(config, env)
  BY DEF LoadFromStr
<1>2. \A profiles : Fallback(other, profiles) = Fallback(config, profiles)
  BY DEF Fallback
<1>3. ASSUME other.audited = config.audited
      PROVE  Bootstrap(other, env, home, faults) = Bootstrap(config, env, home, faults)
  BY <1>1, <1>2, <1>3 DEF Bootstrap
<1> QED BY <1>1, <1>3

(* Whatever the configuration, the environment, the faults, and an absolute  *)
(* home: a session command works on the database of the server, a flat       *)
(* profile is one called "default", the audit log alone decides nothing, and *)
(* the model falls back only to a profile that is there (bootstrap,          *)
(* run_session_cmd, parse_llm_profiles).                                     *)
THEOREM StartsAreAlike ==
  \A Profiles, Tables, Labels, Secrets, Paths, Parts :
    \A env, faults : \A config \in ConfigOf(Profiles, Tables, Labels, Secrets, Paths),
       home \in [root : {TRUE}, parts : Parts] :
      StartsAlike(config, env, home, faults)
<1> SUFFICES ASSUME NEW Profiles, NEW Tables, NEW Labels, NEW Secrets, NEW Paths, NEW Parts,
                    NEW env, NEW faults,
                    NEW config \in ConfigOf(Profiles, Tables, Labels, Secrets, Paths),
                    NEW home \in [root : {TRUE}, parts : Parts]
             PROVE  StartsAlike(config, env, home, faults)
  OBVIOUS
<1> DEFINE result == Bootstrap(config, env, home, faults)
           flatOnly == [n \in {"default"} |-> TheOne(config.llm.flat)]
           named == [config EXCEPT !.llm = [flat |-> {}, tables |-> flatOnly]]
           silent == [config EXCEPT !.audited = FALSE]
           loaded == LoadFromStr(config, env)
           its == TheOne(loaded)
           fallback == Fallback(config, its.profiles)
           audit == ResolvePath(home, config.auditFile)
           Result(log) == [llm |-> CreateLlmClient(its.llm), fallback |-> fallback.client,
                           models |-> DOMAIN its.profiles, feishu |-> its.feishu,
                           database |-> ResolvePath(home, config.dbPath), audit |-> log]
           fails == \/ loaded = {} \/ faults \cap {"dirs", "database"} # {}
                    \/ CreateLlmClient(its.llm) = {}
                    \/ fallback.wanted /\ fallback.client = {}
           log == IF config.audited /\ "audit" \notin faults THEN {audit} ELSE {}
<1>1. result = IF fails THEN {} ELSE {Result(log)}
  BY ResolvedOnce, Zenon DEF Bootstrap
<1>2. ~fails => SessionStore(config, env, home, faults) = {ResolvePath(home, config.dbPath)}
  BY DEF SessionStore
<1>3. ASSUME config.llm.flat # {} PROVE result = Bootstrap(named, env, home, faults)
  <2>1. /\ named.llm = [flat |-> {}, tables |-> flatOnly]
        /\ named.active = config.active /\ named.fallback = config.fallback
        /\ named.channelFeishu = config.channelFeishu /\ named.feishu = config.feishu
        /\ named.dbPath = config.dbPath /\ named.auditFile = config.auditFile
        /\ named.audited = config.audited
    <3> HIDE DEF flatOnly
    <3> QED BY DEF ConfigOf
  <2>2. ParseLlmProfiles(named.llm) = ParseLlmProfiles(config.llm)
    <3>1. named.llm.flat = {} /\ named.llm.tables = flatOnly
      BY <2>1
    <3> HIDE DEF named
    <3> QED BY <1>3, <3>1 DEF ParseLlmProfiles
  <2> HIDE DEF named
  <2> QED BY <2>1, <2>2, StartReads
<1>4. Bootstrap(silent, env, home, faults) = IF fails THEN {} ELSE {Result({})}
  <2>1. /\ silent.llm = config.llm /\ ~silent.audited
        /\ silent.active = config.active /\ silent.fallback = config.fallback
        /\ silent.channelFeishu = config.channelFeishu /\ silent.feishu = config.feishu
        /\ silent.dbPath = config.dbPath /\ silent.auditFile = config.auditFile
    BY DEF ConfigOf
  <2> HIDE DEF silent
  <2>2. LoadFromStr(silent, env) = loaded
    BY <2>1, StartReads
  <2>3. \A profiles : Fallback(silent, profiles) = Fallback(config, profiles)
    BY <2>1 DEF Fallback
  <2> QED BY <2>1, <2>2, <2>3, Zenon DEF Bootstrap
<1>5. ASSUME ~fails
      PROVE  /\ config.active \in DOMAIN its.profiles
             /\ fallback.client # {} <=> config.fallback \in DOMAIN its.profiles
  <2>1. config.active \in DOMAIN its.profiles
    <3> DEFINE raw == TheOne(ParseLlmProfiles(config.llm))
               profiles == [n \in DOMAIN raw |-> [key |-> ResolveEnvOptional(raw[n].key, env),
                                                  known |-> raw[n].known]]
    <3>1. \/ loaded = {}
          \/ /\ config.active \in DOMAIN profiles
             /\ \E llm, feishu :
                  loaded = {[profiles |-> profiles, llm |-> llm, feishu |-> feishu]}
      BY Zenon DEF LoadFromStr
    <3> HIDE DEF profiles
    <3>2. PICK llm, feishu :
            /\ config.active \in DOMAIN profiles
            /\ loaded = {[profiles |-> profiles, llm |-> llm, feishu |-> feishu]}
      BY <1>5, <3>1
    <3>3. PICK l : l = [profiles |-> profiles, llm |-> llm, feishu |-> feishu]
      OBVIOUS
    <3>4. loaded = {l} /\ l.profiles = profiles
      BY <3>2, <3>3
    <3>5. its = l
      BY <3>4 DEF TheOne
    <3> QED BY <3>2, <3>4, <3>5
  <2>2. fallback.client # {} <=> config.fallback \in DOMAIN its.profiles
    <3> HIDE DEF its
    <3> QED BY <1>5 DEF Fallback
  <2> QED BY <2>1, <2>2
<1> HIDE DEF its, fallback, loaded
<1>6. \A l : [Result(l) EXCEPT !.audit = {}] = Result({})
  OBVIOUS
<1>7. log \subseteq {audit}
  OBVIOUS
<1> HIDE DEF fails, log, audit, named, silent
<1>8. {s.database : s \in result} \subseteq SessionStore(config, env, home, faults)
  BY <1>1, <1>2
<1>9. Bootstrap(silent, env, home, faults) = {[s EXCEPT !.audit = {}] : s \in result}
  <2>1. CASE fails
    BY <1>1, <1>4, <2>1
  <2>2. CASE ~fails
    <3>1. PICK r : r = Result(log)
      OBVIOUS
    <3>2. result = {r} /\ [r EXCEPT !.audit = {}] = Result({})
      BY <1>1, <1>6, <2>2, <3>1
    <3>3. Bootstrap(silent, env, home, faults) = {Result({})}
      BY <1>4, <2>2
    <3> HIDE DEF result, Result
    <3> QED BY <3>2, <3>3
  <2> QED BY <2>1, <2>2
<1>10. ASSUME NEW s \in result
       PROVE  /\ s.audit \subseteq {audit} /\ config.active \in s.models
              /\ s.fallback # {} <=> config.fallback \in s.models
  BY <1>1, <1>5, <1>7
<1> QED BY <1>3, <1>8, <1>9, <1>10 DEF StartsAlike, named, silent, audit

-----------------------------------------------------------------------------
(* The candidates for a turn.                                                *)

\* Those who come before x in the order R of A.
Precede(A, R, x) == {y \in A : <<y, x>> \in R}

Orders(A, R) ==
  /\ \A x \in A : <<x, x>> \notin R
  /\ \A x, y, z \in A : <<x, y>> \in R /\ <<y, z>> \in R => <<x, z>> \in R
  /\ \A x, y \in A : x = y \/ <<x, y>> \in R \/ <<y, x>> \in R

\* Each element of an ordered finite set has a place of its own, and no place is empty.
LEMMA PlacesInOrder ==
  ASSUME NEW A, IsFiniteSet(A), NEW R, Orders(A, R), NEW n \in Nat, n = Cardinality(A)
  PROVE  /\ \A x \in A : Cardinality(Precede(A, R, x)) \in 0 .. n - 1
         /\ \A x, y \in A :
              Cardinality(Precede(A, R, x)) = Cardinality(Precede(A, R, y)) => x = y
         /\ \A i \in 0 .. n - 1 : \E x \in A : Cardinality(Precede(A, R, x)) = i
<1>1. \A x \in A : IsFiniteSet(Precede(A, R, x)) /\ Cardinality(Precede(A, R, x)) \in Nat
  <2> TAKE x \in A
  <2>1. Precede(A, R, x) \in SUBSET A
    BY DEF Precede
  <2>2. IsFiniteSet(Precede(A, R, x))
    BY <2>1, FS_Subset
  <2> QED BY <2>2, FS_CardinalityType
<1>2. ASSUME NEW x \in A, NEW B \in SUBSET A, Precede(A, R, x) \subseteq B, x \in B
      PROVE  Cardinality(Precede(A, R, x)) < Cardinality(B)
  <2>1. x \notin Precede(A, R, x)
    BY DEF Precede, Orders
  <2>2. IsFiniteSet(B) /\ Cardinality(B) \in Nat
    BY FS_Subset, FS_CardinalityType
  <2>3. Cardinality(Precede(A, R, x)) <= Cardinality(B)
    BY <1>2, <2>2, FS_Subset
  <2>4. Cardinality(Precede(A, R, x)) # Cardinality(B)
    <3>1. Precede(A, R, x) \in SUBSET B /\ Precede(A, R, x) # B
      BY <1>2, <2>1
    <3> QED BY <2>2, <3>1, FS_Subset
  <2> QED BY <1>1, <2>2, <2>3, <2>4
<1>3. \A x \in A : Cardinality(Precede(A, R, x)) \in 0 .. n - 1
  <2> TAKE x \in A
  <2>1. Precede(A, R, x) \subseteq A /\ A \in SUBSET A
    BY DEF Precede
  <2>2. Cardinality(Precede(A, R, x)) < n
    BY <1>2, <2>1
  <2> QED BY <1>1, <2>2
<1>4. ASSUME NEW x \in A, NEW y \in A, <<x, y>> \in R
      PROVE  Cardinality(Precede(A, R, x)) < Cardinality(Precede(A, R, y))
  <2>1. Precede(A, R, y) \in SUBSET A /\ x \in Precede(A, R, y)
    BY <1>4 DEF Precede
  <2>2. Precede(A, R, x) \subseteq Precede(A, R, y)
    BY <1>4 DEF Precede, Orders
  <2> QED BY <1>2, <2>1, <2>2
<1>5. ASSUME NEW x \in A, NEW y \in A,
             Cardinality(Precede(A, R, x)) = Cardinality(Precede(A, R, y))
      PROVE  x = y
  <2>1. Cardinality(Precede(A, R, x)) \in Nat
    BY <1>1
  <2>2. <<x, y>> \notin R /\ <<y, x>> \notin R
    BY <1>4, <1>5, <2>1
  <2> QED BY <2>2 DEF Orders
<1>6. \A i \in 0 .. n - 1 : \E x \in A : Cardinality(Precede(A, R, x)) = i
  <2> DEFINE place == [x \in A |-> Cardinality(Precede(A, R, x))]
  <2>1. place \in [A -> 0 .. n - 1] /\ \A x, y \in A : place[x] = place[y] => x = y
    BY <1>3, <1>5
  <2>2. IsFiniteSet(0 .. n - 1) /\ Cardinality(0 .. n - 1) = n
    BY BelowCounts
  <2> HIDE DEF place
  <2>3. place \in Injection(A, 0 .. n - 1)
    BY <2>1 DEF Injection, IsInjective
  <2>4. place \in Surjection(A, 0 .. n - 1)
    BY <2>2, <2>3, FS_Injection
  <2>5. \A i \in 0 .. n - 1 : \E x \in A : place[x] = i
    BY <2>4 DEF Surjection
  <2> QED BY <2>5 DEF place
<1> QED BY <1>3, <1>5, <1>6

\* Skills as the registry lists them: their names, and so their ranks, are distinct.
InRegistry(skills) ==
  /\ IsFiniteSet(skills)
  /\ \A s \in skills : /\ s.priority \in Int /\ s.rank \in Nat
                       /\ IsFiniteSet(s.keywords) /\ IsFiniteSet(s.triggers)
  /\ \A r, s \in skills : r.rank = s.rank => r = s

Terms(s) == {s.name} \cup s.keywords \cup s.triggers \cup s.extensions
Described(s) == {s.description} \cup s.words

\* What is counted of a skill's terms.
Counted(T, U, term) ==
  LET some == Cardinality(T \cap U)
      more == Cardinality(T \cap (U \cup {term}))
  IN  /\ some \in Nat /\ more \in Nat /\ some <= more
      /\ term \notin T => more = some
      /\ term \in T => more > 0

LEMMA CountGrows ==
  ASSUME NEW T, IsFiniteSet(T), NEW U, NEW term
  PROVE  Counted(T, U, term)
<1> DEFINE some == T \cap U
           more == T \cap (U \cup {term})
<1>1. IsFiniteSet(some) /\ IsFiniteSet(more) /\ some \in SUBSET more
  <2>1. some \in SUBSET T /\ more \in SUBSET T /\ some \in SUBSET more
    OBVIOUS
  <2> HIDE DEF some, more
  <2> QED BY <2>1, FS_Subset
<1>2. term \notin T => more = some
  OBVIOUS
<1>3. term \in T => more # {}
  OBVIOUS
<1> HIDE DEF some, more
<1>4. Cardinality(some) \in Nat /\ Cardinality(more) \in Nat /\ Cardinality(some) <= Cardinality(more)
  BY <1>1, FS_CardinalityType, FS_Subset
<1>5. more # {} => Cardinality(more) # 0
  BY <1>1, FS_EmptySet
<1> QED BY <1>2, <1>3, <1>4, <1>5 DEF some, more, Counted

\* A number that a word more leaves or raises: raises above 0, if it is about the word.
Raised(low, high, said) ==
  /\ low \in Nat /\ high \in Nat /\ low <= high
  /\ ~said => high = low
  /\ said => high > 0

\* The points for the terms of a set, with one word more of the user.
LEMMA PointsRaised ==
  ASSUME NEW T, IsFiniteSet(T), NEW term, NEW context,
         NEW more, more.user = context.user \cup {term}, more.history = context.history
  PROVE  /\ Raised(Points(T, context, 120, 60), Points(T, more, 120, 60), term \in T)
         /\ Raised(Points(T, context, 80, 40), Points(T, more, 80, 40), term \in T)
         /\ Raised(Points(T, context, 40, 20), Points(T, more, 40, 20), term \in T)
<1>1. PICK a, b, c :
        /\ a = Cardinality(T \cap context.user) /\ b = Cardinality(T \cap more.user)
        /\ c = Cardinality(T \cap context.history) /\ c = Cardinality(T \cap more.history)
  OBVIOUS
<1>2. /\ a \in Nat /\ b \in Nat /\ c \in Nat /\ a <= b
      /\ (term \notin T => b = a) /\ (term \in T => b > 0)
  <2>1. Counted(T, context.user, term) /\ Counted(T, context.history, term)
    BY CountGrows
  <2> QED BY <1>1, <2>1, Zenon DEF Counted
<1>3. /\ Points(T, context, 120, 60) = 120 * a + 60 * c /\ Points(T, more, 120, 60) = 120 * b + 60 * c
      /\ Points(T, context, 80, 40) = 80 * a + 40 * c /\ Points(T, more, 80, 40) = 80 * b + 40 * c
      /\ Points(T, context, 40, 20) = 40 * a + 20 * c /\ Points(T, more, 40, 20) = 40 * b + 20 * c
  BY <1>1, Zenon DEF Points
<1>4. /\ Raised(120 * a + 60 * c, 120 * b + 60 * c, term \in T)
      /\ Raised(80 * a + 40 * c, 80 * b + 40 * c, term \in T)
      /\ Raised(40 * a + 20 * c, 40 * b + 20 * c, term \in T)
  BY <1>2 DEF Raised
<1> QED BY <1>3, <1>4

\* One word more of the user speaks for the skills that have it, and changes
\* nothing for the others.
LEMMA WordSpeaksFor ==
  ASSUME NEW s, IsFiniteSet(s.keywords), IsFiniteSet(s.triggers), NEW term, term \notin Described(s),
         NEW context, NEW more, more.user = context.user \cup {term},
         more.history = context.history, more.workspace = context.workspace
  PROVE  Raised(Signals(s, context), Signals(s, more), term \in Terms(s))
<1>1. IsFiniteSet({s.name})
  BY FS_Singleton
<1>2. PICK d \in Nat : DescriptionScore(s, context) = d /\ DescriptionScore(s, more) = d
  <2>1. DescriptionScore(s, context) \in Nat
    <3>1. /\ When(s.description \in context.history, 25) \in Nat
          /\ When(s.words \cap context.user # {}, 50) \in Nat
          /\ When(s.words \cap context.history # {}, 25) \in Nat
      BY DEF When
    <3>2. PICK a \in Nat : a = When(s.description \in context.history, 25)
      BY <3>1
    <3>3. PICK b \in Nat : b = When(s.words \cap context.user # {}, 50)
      BY <3>1
    <3>4. PICK e \in Nat : e = When(s.words \cap context.history # {}, 25)
      BY <3>1
    <3>5. DescriptionScore(s, context) \in {0, 50 + a, b + e}
      BY <3>2, <3>3, <3>4 DEF DescriptionScore
    <3> QED BY <3>5
  <2>2. DescriptionScore(s, more) = DescriptionScore(s, context)
    <3>1. s.description \in more.user <=> s.description \in context.user
      BY DEF Described
    <3>2. s.words \cap more.user = s.words \cap context.user
      BY DEF Described
    <3> QED BY <3>1, <3>2 DEF DescriptionScore
  <2> QED BY <2>1, <2>2
<1>3. PICK x \in Nat, y \in Nat :
        /\ ExtensionScore(s, context) = x /\ ExtensionScore(s, more) = y /\ x <= y
        /\ term \notin s.extensions => x = y
        /\ term \in s.extensions => y > 0
  <2>1. ExtensionScore(s, context) \in Nat /\ ExtensionScore(s, more) \in Nat
    BY DEF ExtensionScore, When
  <2>2. s.extensions \cap (context.user \cup context.history)
          \subseteq s.extensions \cap (more.user \cup more.history)
    OBVIOUS
  <2>3. ExtensionScore(s, context) <= ExtensionScore(s, more)
    BY <2>2 DEF ExtensionScore, When
  <2>4. ASSUME term \notin s.extensions PROVE ExtensionScore(s, context) = ExtensionScore(s, more)
    <3>1. s.extensions \cap (context.user \cup context.history)
            = s.extensions \cap (more.user \cup more.history)
      BY <2>4
    <3> QED BY <3>1 DEF ExtensionScore
  <2>5. ASSUME term \in s.extensions PROVE ExtensionScore(s, more) > 0
    <3>1. s.extensions \cap (more.user \cup more.history) # {}
      BY <2>5
    <3> QED BY <3>1 DEF ExtensionScore, When
  <2> QED BY <2>1, <2>3, <2>4, <2>5
<1>4. PICK n, m :
        /\ n = Points({s.name}, context, 120, 60) /\ m = Points({s.name}, more, 120, 60)
        /\ Raised(n, m, term \in {s.name})
  BY <1>1, PointsRaised
<1>5. PICK k, l :
        /\ k = Points(s.keywords, context, 80, 40) /\ l = Points(s.keywords, more, 80, 40)
        /\ Raised(k, l, term \in s.keywords)
  BY PointsRaised
<1>6. PICK t, u :
        /\ t = Points(s.triggers, context, 40, 20) /\ u = Points(s.triggers, more, 40, 20)
        /\ Raised(t, u, term \in s.triggers)
  BY PointsRaised
<1>7. Signals(s, context) = n + d + k + t + x /\ Signals(s, more) = m + d + l + u + y
  <2>1. Signals(s, context) = Points({s.name}, context, 120, 60) + DescriptionScore(s, context)
                                + Points(s.keywords, context, 80, 40)
                                + Points(s.triggers, context, 40, 20) + ExtensionScore(s, context)
    BY Zenon DEF Signals
  <2>2. Signals(s, more) = Points({s.name}, more, 120, 60) + DescriptionScore(s, more)
                             + Points(s.keywords, more, 80, 40)
                             + Points(s.triggers, more, 40, 20) + ExtensionScore(s, more)
    BY Zenon DEF Signals
  <2>3. Signals(s, context) = n + d + k + t + x
    BY <1>2, <1>3, <1>4, <1>5, <1>6, <2>1
  <2>4. Signals(s, more) = m + d + l + u + y
    BY <1>2, <1>3, <1>4, <1>5, <1>6, <2>2
  <2> QED BY <2>3, <2>4
<1>8. Raised(n + d + k + t + x, m + d + l + u + y, term \in Terms(s))
  <2>1. n \in Nat /\ m \in Nat /\ k \in Nat /\ l \in Nat /\ t \in Nat /\ u \in Nat
    BY <1>4, <1>5, <1>6 DEF Raised
  <2>2. n <= m /\ k <= l /\ t <= u /\ x <= y
    BY <1>3, <1>4, <1>5, <1>6 DEF Raised
  <2>3. CASE term \in Terms(s)
    <3>1. m > 0 \/ l > 0 \/ u > 0 \/ y > 0
      BY <1>3, <1>4, <1>5, <1>6, <2>3 DEF Raised, Terms
    <3> QED BY <2>1, <2>2, <2>3, <3>1 DEF Raised
  <2>4. CASE term \notin Terms(s)
    <3>1. n = m /\ k = l /\ t = u /\ x = y
      BY <1>3, <1>4, <1>5, <1>6, <2>4 DEF Raised, Terms
    <3> QED BY <2>1, <2>4, <3>1 DEF Raised
  <2> QED BY <2>3, <2>4
<1> QED BY <1>7, <1>8

\* Where a skill is in the ranking.
CandidatesOf(skills, context) == {s \in skills : IsCandidate(s, context)}
Ahead(skills, context, s) ==
  {r \in CandidatesOf(skills, context) : RanksBefore(r, s, context)}

LEMMA RankedIs ==
  ASSUME NEW skills, InRegistry(skills), NEW context, \A s \in skills : Signals(s, context) \in Nat
  PROVE  \A s \in skills :
           /\ IsFiniteSet(Ahead(skills, context, s))
           /\ {i \in DOMAIN Ranked(skills, context) : Ranked(skills, context)[i] = s} =
                IF IsCandidate(s, context) THEN {Cardinality(Ahead(skills, context, s)) + 1} ELSE {}
<1> DEFINE A == CandidatesOf(skills, context)
           R == {p \in A \X A : RanksBefore(p[1], p[2], context)}
           ranked == Ranked(skills, context)
<1>1. A \in SUBSET skills /\ IsFiniteSet(A)
  <2>1. A \in SUBSET skills
    BY DEF CandidatesOf
  <2> QED BY <2>1, FS_Subset DEF InRegistry
<1>2. PICK n \in Nat : n = Cardinality(A)
  BY <1>1, FS_CardinalityType
<1>3. \A s \in A : s.priority \in Int /\ s.rank \in Nat /\ Score(s, context) \in Int
  BY <1>1 DEF InRegistry, Score
<1>4. Orders(A, R)
  <2>1. \A x, y \in A : <<x, y>> \in R <=> RanksBefore(x, y, context)
    OBVIOUS
  <2>2. \A x, y \in A : x.rank = y.rank => x = y
    BY <1>1 DEF InRegistry
  <2> HIDE DEF A, R
  <2>3. \A x \in A : ~RanksBefore(x, x, context)
    BY <1>3 DEF RanksBefore
  <2>4. \A x, y, z \in A : RanksBefore(x, y, context) /\ RanksBefore(y, z, context)
                             => RanksBefore(x, z, context)
    BY <1>3 DEF RanksBefore
  <2>5. \A x, y \in A : x = y \/ RanksBefore(x, y, context) \/ RanksBefore(y, x, context)
    BY <1>3, <2>2 DEF RanksBefore
  <2> QED BY <2>1, <2>3, <2>4, <2>5 DEF Orders
<1>5. \A s \in A : Precede(A, R, s) = Ahead(skills, context, s)
  BY DEF Precede, Ahead
<1>6. /\ \A x \in A : Cardinality(Ahead(skills, context, x)) \in 0 .. n - 1
      /\ \A x, y \in A :
           Cardinality(Ahead(skills, context, x)) = Cardinality(Ahead(skills, context, y)) => x = y
      /\ \A i \in 0 .. n - 1 : \E x \in A : Cardinality(Ahead(skills, context, x)) = i
  <2> HIDE DEF A, R
  <2>1. /\ \A x \in A : Cardinality(Precede(A, R, x)) \in 0 .. n - 1
        /\ \A x, y \in A :
             Cardinality(Precede(A, R, x)) = Cardinality(Precede(A, R, y)) => x = y
        /\ \A i \in 0 .. n - 1 : \E x \in A : Cardinality(Precede(A, R, x)) = i
    BY <1>1, <1>2, <1>4, PlacesInOrder
  <2> QED BY <1>5, <2>1
<1>7. /\ DOMAIN ranked = 1 .. n
      /\ \A i \in 1 .. n :
           ranked[i] = CHOOSE s \in A : Cardinality(Ahead(skills, context, s)) = i - 1
  BY <1>2 DEF Ranked, CandidatesOf, Ahead
<1> HIDE DEF A, R, ranked
<1>8. \A i \in 1 .. n : ranked[i] \in A /\ Cardinality(Ahead(skills, context, ranked[i])) = i - 1
  <2> TAKE i \in 1 .. n
  <2>1. i - 1 \in 0 .. n - 1
    OBVIOUS
  <2>2. \E x \in A : Cardinality(Ahead(skills, context, x)) = i - 1
    BY <1>6, <2>1
  <2> QED BY <1>7, <2>2
<1>9. ASSUME NEW s \in A
      PROVE  {i \in DOMAIN ranked : ranked[i] = s} = {Cardinality(Ahead(skills, context, s)) + 1}
  <2>1. PICK c \in 0 .. n - 1 : c = Cardinality(Ahead(skills, context, s))
    BY <1>6
  <2>2. c + 1 \in 1 .. n /\ (c + 1) - 1 = c
    OBVIOUS
  <2>3. ranked[c + 1] = s
    BY <1>6, <1>8, <2>1, <2>2
  <2>4. \A i \in 1 .. n : ranked[i] = s => i - 1 = c
    BY <1>8, <2>1
  <2>5. \A i \in 1 .. n : ranked[i] = s => i = c + 1
    BY <2>4
  <2> QED BY <1>7, <2>1, <2>2, <2>3, <2>5
<1>10. ASSUME NEW s \in skills, s \notin A PROVE {i \in DOMAIN ranked : ranked[i] = s} = {}
  BY <1>7, <1>8, <1>10
<1>11. \A s \in skills : IsFiniteSet(Ahead(skills, context, s))
  <2> TAKE s \in skills
  <2>1. Ahead(skills, context, s) \in SUBSET A
    BY DEF Ahead, A
  <2> QED BY <1>1, <2>1, FS_Subset
<1>12. \A s \in skills : s \in A <=> IsCandidate(s, context)
  BY DEF A, CandidatesOf
<1> QED BY <1>9, <1>10, <1>11, <1>12 DEF ranked

(* Whatever the skills, the user's text, the history and the workspace: a    *)
(* skill of which the user says one word more is a candidate and does not    *)
(* fall behind the others (score_skill_candidate and                         *)
(* select_skill_candidate_matches).                                          *)
THEOREM MentionsRaise ==
  \A skills, term, Words : \A context \in [user : Words, history : Words, workspace : Words] :
    InRegistry(skills) => MentionHelps(skills, context, term)
<1> SUFFICES ASSUME NEW skills, NEW term, NEW Words,
                    NEW context \in [user : Words, history : Words, workspace : Words],
                    InRegistry(skills)
             PROVE  MentionHelps(skills, context, term)
  OBVIOUS
<1> DEFINE more == [context EXCEPT !.user = @ \cup {term}]
           says == {r \in skills : term \in Terms(r)}
           describes == {r \in skills : term \in Described(r)}
           Place(s, c) == {i \in DOMAIN Ranked(skills, c) : Ranked(skills, c)[i] = s}
<1>1. SUFFICES ASSUME NEW s \in says, says = {s}, describes = {}, ~s.hidden
               PROVE  /\ Cardinality(Place(s, more)) = 1
                      /\ \A i \in Place(s, context), j \in Place(s, more) : j <= i
  BY Zenon DEF MentionHelps, Terms, Described
<1>2. /\ more.user = context.user \cup {term}
      /\ more.history = context.history /\ more.workspace = context.workspace
  OBVIOUS
<1> HIDE DEF more
<1>3. \A r \in skills :
        /\ Signals(r, context) \in Nat /\ Signals(r, more) \in Nat
        /\ Signals(r, context) <= Signals(r, more)
        /\ term \notin Terms(r) => Signals(r, more) = Signals(r, context)
        /\ term \in Terms(r) => Signals(r, more) > 0
  <2> TAKE r \in skills
  <2>1. IsFiniteSet(r.keywords) /\ IsFiniteSet(r.triggers) /\ term \notin Described(r)
    BY <1>1 DEF InRegistry
  <2>2. Raised(Signals(r, context), Signals(r, more), term \in Terms(r))
    BY <1>2, <2>1, WordSpeaksFor
  <2> QED BY <2>2 DEF Raised
<1>4. IsCandidate(s, more)
  BY <1>1, <1>3 DEF IsCandidate
<1>5. /\ IsFiniteSet(Ahead(skills, more, s)) /\ Place(s, more) = {Cardinality(Ahead(skills, more, s)) + 1}
      /\ IsFiniteSet(Ahead(skills, context, s))
      /\ Place(s, context) = IF IsCandidate(s, context)
                            THEN {Cardinality(Ahead(skills, context, s)) + 1} ELSE {}
  <2>1. /\ \A r \in skills : Signals(r, context) \in Nat
        /\ \A r \in skills : Signals(r, more) \in Nat
    BY <1>3
  <2>2. s \in skills
    OBVIOUS
  <2>3. /\ IsFiniteSet(Ahead(skills, context, s))
        /\ {i \in DOMAIN Ranked(skills, context) : Ranked(skills, context)[i] = s} =
             IF IsCandidate(s, context) THEN {Cardinality(Ahead(skills, context, s)) + 1} ELSE {}
    BY <2>1, <2>2, RankedIs, Zenon
  <2>4. /\ IsFiniteSet(Ahead(skills, more, s))
        /\ {i \in DOMAIN Ranked(skills, more) : Ranked(skills, more)[i] = s} =
             IF IsCandidate(s, more) THEN {Cardinality(Ahead(skills, more, s)) + 1} ELSE {}
    BY <2>1, <2>2, RankedIs, Zenon
  <2>5. Place(s, more) = {Cardinality(Ahead(skills, more, s)) + 1}
    BY <1>4, <2>4, Zenon
  <2> QED BY <2>3, <2>4, <2>5, Zenon
<1>6. Ahead(skills, more, s) \subseteq Ahead(skills, context, s)
  <2> SUFFICES ASSUME NEW r \in Ahead(skills, more, s) PROVE r \in Ahead(skills, context, s)
    OBVIOUS
  <2>1. r \in skills /\ IsCandidate(r, more) /\ RanksBefore(r, s, more)
    BY DEF Ahead, CandidatesOf
  <2>2. /\ s.priority \in Int /\ s.rank \in Nat /\ r.priority \in Int /\ r.rank \in Nat
    BY <2>1 DEF InRegistry
  <2>3. r # s
    BY <1>3, <2>1, <2>2 DEF RanksBefore, Score
  <2>4. Signals(r, more) = Signals(r, context)
    BY <1>1, <1>3, <2>1, <2>3
  <2>5. IsCandidate(r, context)
    BY <2>1, <2>4 DEF IsCandidate
  <2>6. PICK a \in Int, b \in Int, b1 \in Int :
          /\ a = Score(r, context) /\ a = Score(r, more)
          /\ b = Score(s, context) /\ b1 = Score(s, more) /\ b <= b1
    BY <1>3, <2>1, <2>2, <2>4 DEF Score
  <2>7. RanksBefore(r, s, context)
    BY <2>1, <2>2, <2>6 DEF RanksBefore
  <2> QED BY <2>1, <2>5, <2>7 DEF Ahead, CandidatesOf
<1>7. PICK a \in Nat, b \in Nat : /\ a = Cardinality(Ahead(skills, more, s))
                                  /\ b = Cardinality(Ahead(skills, context, s)) /\ a <= b
  <2>1. Ahead(skills, more, s) \in SUBSET Ahead(skills, context, s)
    BY <1>6
  <2> QED BY <1>5, <2>1, FS_CardinalityType, FS_Subset
<1> HIDE DEF Place
<1>8. Cardinality(Place(s, more)) = 1
  BY <1>5, FS_Singleton
<1>9. \A i \in Place(s, context), j \in Place(s, more) : j <= i
  BY <1>5, <1>7
<1> QED BY <1>8, <1>9
==============================================================================
