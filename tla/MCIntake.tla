------------------------------ MODULE MCIntake ------------------------------
(* The parts that an inbound message passes one after the other, each by     *)
(* itself over all of its own inputs: `side` says which one runs.            *)
EXTENDS ChatLocks, RateLimiter, RecentIds, FeishuSocket

VARIABLE side

\* Three tasks of one session and one of another.
MCSessionOf == [t \in Tasks |-> IF t = "t4" THEN "s2" ELSE "s1"]

\* One message that comes in two or three frames, the others in one.
MCSplits == [e \in Events |-> IF e = "e1" THEN {2, 3} ELSE {1}]

IntakeInit ==
  /\ side \in {"locks", "limiter", "dedup", "socket"}
  /\ Init /\ LimiterStart /\ RecentInit /\ SocketInit

IntakeVars == <<side, vars, limiterAllVars, recentVars, socketVars>>

IntakeNext ==
  /\ UNCHANGED side
  /\ \/ /\ side = "locks" /\ Next
        /\ UNCHANGED <<limiterAllVars, recentVars, socketVars>>
     \/ /\ side = "limiter" /\ LimiterNext
        /\ UNCHANGED <<vars, recentVars, socketVars>>
     \/ /\ side = "dedup" /\ RecentNext
        /\ UNCHANGED <<vars, limiterAllVars, socketVars>>
     \/ /\ side = "socket" /\ SocketNext
        /\ UNCHANGED <<vars, limiterAllVars, recentVars>>

\* The fairness of each side, for the behaviours in which it runs.
IntakeFairness ==
  /\ \A t \in Tasks : WF_vars(side = "locks" /\ TaskStep(t))
  /\ WF_limiterAllVars(side = "limiter" /\ Choose)
  /\ \A s \in Callers : WF_limiterAllVars(side = "limiter" /\ Remove(s))
  /\ WF_socketVars(side = "socket" /\ SocketTick)
  /\ WF_socketVars(side = "socket" /\ Wake)
  /\ WF_socketVars(side = "socket" /\ HeartbeatTimeout)
  /\ WF_socketVars(side = "socket" /\ Ping)
  /\ WF_socketVars(side = "socket" /\ Send)
  /\ WF_socketVars(side = "socket" /\ SendFails)
  /\ SF_socketVars(side = "socket" /\ Connect)

IntakeSpec == IntakeInit /\ [][IntakeNext]_IntakeVars /\ IntakeFairness

-----------------------------------------------------------------------------
(* The invariant of the locking protocol (a mutex in use is the one in the  *)
(* map, its holder heads its queue: gateway.rs, lines 165 and 383-389) with *)
(* the types and bounds of the other parts.                                 *)
PartsInv == IInv /\ LimiterTypeOK /\ RecentTypeOK /\ SocketTypeOK
=============================================================================
