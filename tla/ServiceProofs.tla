--------------------------- MODULE ServiceProofs ---------------------------
(***************************************************************************)
(* Proofs about Service, for every policy, limit, set of callers and       *)
(* length of behaviour.                                                    *)
(***************************************************************************)
EXTENDS Service, TLAPS

\* The instance the loop is responsible for.
Current == IF pc = "assign" THEN attempt ELSE cmd

\* Where in start() or stop() the loop is says what it holds.
LoopInv ==
    /\ pc = "unstarted" => cmd = 0 /\ ~backoff /\ onExits = 0
    /\ pc \in {"start", "prestart", "assign"} =>
         desired /\ cmd = 0 /\ ~backoff /\ why \in {"init", "backoff", "start", "restart"}
    /\ pc \in {"prestart", "assign"} => attempt > 0
    /\ pc \in {"kill", "reap", "drain"} => cmd # 0
    /\ pc \in {"stopped", "done"} => cmd = 0
    /\ pc \in {"kill", "reap", "stopped"} => why \in {"cancel", "stop", "restart"}
    /\ pc = "drain" => why \in {"cancel", "stop", "restart", "exit"}
    /\ pc \in {"kill", "reap", "drain", "stopped"} /\ why = "restart" => desired /\ ~backoff
    /\ pc \in {"kill", "reap", "drain", "stopped"} /\ why = "stop" => ~desired
    /\ pc = "reply" /\ why = "stop" => ~desired /\ cmd = 0
    /\ backoff => desired /\ cmd = 0
    /\ cmd \in {0, attempt}

\* At most one process instance, and it is the current one.
ProcessInv ==
    /\ alive \cup exited \cup reported \subseteq {Current}
    /\ alive \cap exited = {} /\ alive \cap reported = {} /\ exited \cap reported = {}
    /\ pc = "drain" => alive = {} /\ exited = {} /\ reported = {}

\* OnExit has been called at most once for the latest start, only for a final end,
\* and whenever a wanted service is left without process and timer.
ReportInv ==
    /\ onExits \in {0, 1}
    /\ pc \in {"prestart", "assign"} \/ cmd # 0 \/ backoff => onExits = 0
    /\ onExits = 1 => outcome \in {"pipeFailed", "notFound", "startError",
                                   "crashed", "finished"}
    /\ pc \in {"idle", "reply"} /\ desired /\ cmd = 0 /\ ~backoff => onExits = 1

\* The policy restarts a service whose latest start ended so.
Restartable ==
    \/ attempt = 0
    \/ Policy # "never" /\ outcome \in {"startError", "crashed"}
    \/ Policy = "always" /\ outcome = "finished"

\* A timer that is armed, or has just fired, is one the policy armed.
TimerInv ==
    /\ pc = "unstarted" => attempt = 0
    /\ backoff \/ (pc = "start" /\ why = "backoff") => Restartable

\* The message being handled and the call of its sender belong together.
CallInv ==
    /\ AcceptedIsServed
    /\ pc \notin {"unstarted", "idle", "done"} /\ why \in Kinds =>
         serving \in Clients /\ req[serving].st = "accepted"
    /\ pc = "reply" => why \in Kinds

\* A restart is answered with an instance younger than the request.
FreshInv ==
    /\ RestartIsFresh
    /\ \A c \in Clients : req[c].seen <= attempt
    /\ pc \in {"prestart", "assign", "reply"} /\ why = "restart" =>
         attempt > req[serving].seen

IInv == /\ TypeOK /\ LoopInv /\ ProcessInv /\ ReportInv /\ RestartBudget
        /\ TimerInv /\ CallInv /\ FreshInv

-----------------------------------------------------------------------------
(* Type correctness. *)

\* A step of the loop, a caller, a process or a wait goroutine keeps the types.
LEMMA TypeStep ==
    ASSUME TypeOK, [Next]_vars
    PROVE  LoopOK' /\ FlagsOK' /\ ProcessesOK' /\ CallsOK'
PROOF
<1>1. CASE BeginStart
  BY <1>1, ServiceAssumption DEF TypeOK, LoopOK, PCs, Cases, Kinds, Outcomes, FlagsOK,
     ProcessesOK, CallsOK, Call, NoCall, BeginStart, NewInstance, loopVars, attemptVars,
     osVars
<1>2. CASE PipeFails
  BY <1>2, ServiceAssumption DEF TypeOK, LoopOK, PCs, Cases, Kinds, Outcomes, FlagsOK,
     ProcessesOK, CallsOK, Call, NoCall, PipeFails, Fault, ReturnFromStart, loopVars,
     attemptVars, osVars
<1>3. CASE ProgramNotFound
  <2>1. LoopOK'
    BY <1>3, ServiceAssumption DEF TypeOK, LoopOK, PCs, Cases, Kinds, Outcomes,
       ProgramNotFound, Fault, GiveUp, ReturnFromStart, loopVars, attemptVars, osVars
  <2>2. FlagsOK'
    BY <1>3, ServiceAssumption DEF TypeOK, FlagsOK, ProgramNotFound, Fault, GiveUp,
       ReturnFromStart, loopVars, attemptVars, osVars
  <2>3. ProcessesOK'
    BY <1>3, ServiceAssumption DEF TypeOK, LoopOK, ProcessesOK, ProgramNotFound, Fault,
       GiveUp, ReturnFromStart, loopVars, attemptVars, osVars
  <2>4. CallsOK'
    BY <1>3, ServiceAssumption DEF TypeOK, CallsOK, Call, Kinds, NoCall, LoopOK,
       ProcessesOK, ProgramNotFound, Fault, GiveUp, ReturnFromStart, loopVars,
       attemptVars, osVars
  <2>5. QED
    BY <2>1, <2>2, <2>3, <2>4
<1>4. CASE StartFails
  <2>1. LoopOK'
    <3>1. restarts' \in Nat /\ onExits' \in Nat
      <4>1. CASE desired /\ ShouldRestart(FALSE)
        BY <1>4, <4>1 DEF TypeOK, LoopOK, StartFails, RetryOrReport
      <4>2. CASE ~(desired /\ ShouldRestart(FALSE))
        BY <1>4, <4>2 DEF TypeOK, LoopOK, StartFails, RetryOrReport, ShouldRestart
      <4>3. QED
        BY <4>1, <4>2
    <3>2. QED
      BY <1>4, <3>1 DEF TypeOK, LoopOK, PCs, Cases, Outcomes, StartFails, Fault, ReturnFromStart
  <2>2. FlagsOK'
    BY <1>4, ServiceAssumption DEF TypeOK, FlagsOK, StartFails, Fault, RetryOrReport,
       ReturnFromStart, loopVars, attemptVars, osVars
  <2>3. ProcessesOK'
    BY <1>4, ServiceAssumption DEF TypeOK, LoopOK, ProcessesOK, StartFails, Fault,
       RetryOrReport, ReturnFromStart, loopVars, attemptVars, osVars
  <2>4. CallsOK'
    BY <1>4, ServiceAssumption DEF TypeOK, CallsOK, Call, Kinds, NoCall, LoopOK,
       ProcessesOK, StartFails, Fault, RetryOrReport, ReturnFromStart, loopVars,
       attemptVars, osVars
  <2>5. QED
    BY <2>1, <2>2, <2>3, <2>4
<1>5. CASE Spawn
  BY <1>5, ServiceAssumption DEF TypeOK, LoopOK, PCs, Cases, Kinds, Outcomes, FlagsOK,
     ProcessesOK, CallsOK, Call, NoCall, Spawn, loopVars, attemptVars, osVars
<1>6. CASE Assign
  BY <1>6, ServiceAssumption DEF TypeOK, LoopOK, PCs, Cases, Kinds, Outcomes, FlagsOK,
     ProcessesOK, CallsOK, Call, NoCall, Assign, ReturnFromStart, loopVars, attemptVars,
     osVars
<1>7. CASE Kill
  BY <1>7, ServiceAssumption DEF TypeOK, LoopOK, PCs, Cases, Kinds, Outcomes, FlagsOK,
     ProcessesOK, CallsOK, Call, NoCall, Kill, loopVars, attemptVars, osVars
<1>8. CASE Reap
  BY <1>8, ServiceAssumption DEF TypeOK, LoopOK, PCs, Cases, Kinds, Outcomes, FlagsOK,
     ProcessesOK, CallsOK, Call, NoCall, Reap, Waited, loopVars, attemptVars, osVars
<1>9. CASE DrainStopped
  BY <1>9, ServiceAssumption DEF TypeOK, LoopOK, PCs, Cases, Kinds, Outcomes, FlagsOK,
     ProcessesOK, CallsOK, Call, NoCall, DrainStopped, loopVars, attemptVars, osVars
<1>10. CASE AfterStop
  BY <1>10, ServiceAssumption DEF TypeOK, LoopOK, PCs, Cases, Kinds, Outcomes, FlagsOK,
     ProcessesOK, CallsOK, Call, NoCall, AfterStop, NextAfterStop, loopVars, attemptVars,
     osVars
<1>11. CASE HandleExit
  <2>1. LoopOK'
    BY <1>11, ServiceAssumption DEF TypeOK, LoopOK, PCs, Cases, Kinds, Outcomes,
       HandleExit, RetryOrReport, loopVars, attemptVars, osVars
  <2>2. FlagsOK'
    BY <1>11, ServiceAssumption DEF TypeOK, FlagsOK, HandleExit, RetryOrReport, loopVars,
       attemptVars, osVars
  <2>3. ProcessesOK'
    BY <1>11, ServiceAssumption DEF TypeOK, LoopOK, ProcessesOK, HandleExit,
       RetryOrReport, loopVars, attemptVars, osVars
  <2>4. CallsOK'
    BY <1>11, ServiceAssumption DEF TypeOK, CallsOK, Call, Kinds, NoCall, LoopOK,
       ProcessesOK, HandleExit, RetryOrReport, loopVars, attemptVars, osVars
  <2>5. QED
    BY <2>1, <2>2, <2>3, <2>4
<1>12. CASE Reply
  <2>1. LoopOK'
    BY <1>12, ServiceAssumption DEF TypeOK, LoopOK, PCs, Cases, Kinds, Outcomes, Reply,
       loopVars, attemptVars, osVars
  <2>2. FlagsOK'
    BY <1>12, ServiceAssumption DEF TypeOK, FlagsOK, Reply, loopVars, attemptVars, osVars
  <2>3. ProcessesOK'
    BY <1>12, ServiceAssumption DEF TypeOK, LoopOK, ProcessesOK, Reply, loopVars,
       attemptVars, osVars
  <2>4. CallsOK'
    <3> DEFINE new == [req[serving] EXCEPT !.st = "answered", !.pid = cmd, !.desired = desired]
    <3>1. cmd \in Nat /\ desired \in BOOLEAN
      BY DEF TypeOK, ProcessesOK, FlagsOK
    <3>2. ASSUME serving \in Clients
          PROVE  new \in Call
      BY <3>1, <3>2 DEF TypeOK, CallsOK, Call
    <3>3. req' = [req EXCEPT ![serving] = new]
      BY <1>12 DEF Reply
    <3>4. QED
      BY <3>2, <3>3 DEF TypeOK, CallsOK
  <2>5. QED
    BY <2>1, <2>2, <2>3, <2>4
<1>13. CASE Launch
  BY <1>13, ServiceAssumption DEF TypeOK, LoopOK, PCs, Cases, Kinds, Outcomes, FlagsOK,
     ProcessesOK, CallsOK, Call, NoCall, Launch, loopVars, attemptVars, osVars
<1>14. CASE TakeCancel
  BY <1>14, ServiceAssumption DEF TypeOK, LoopOK, PCs, Cases, Kinds, Outcomes, FlagsOK,
     ProcessesOK, CallsOK, Call, NoCall, TakeCancel, EnterStop, loopVars, attemptVars,
     osVars
<1>15. CASE TakeBackoff
  BY <1>15, ServiceAssumption DEF TypeOK, LoopOK, PCs, Cases, Kinds, Outcomes, FlagsOK,
     ProcessesOK, CallsOK, Call, NoCall, TakeBackoff, loopVars, attemptVars, osVars
<1>16. CASE TakeExit
  BY <1>16, ServiceAssumption DEF TypeOK, LoopOK, PCs, Cases, Kinds, Outcomes, FlagsOK,
     ProcessesOK, CallsOK, Call, NoCall, TakeExit, loopVars, attemptVars, osVars
<1>17. CASE Cancel
  BY <1>17, ServiceAssumption DEF TypeOK, LoopOK, PCs, Cases, Kinds, Outcomes, FlagsOK,
     ProcessesOK, CallsOK, Call, NoCall, Cancel, loopVars, attemptVars, osVars
<1>18. ASSUME NEW c \in Clients, TakeStart(c)
      PROVE  LoopOK' /\ FlagsOK' /\ ProcessesOK' /\ CallsOK'
  BY <1>18, ServiceAssumption DEF TypeOK, LoopOK, PCs, Cases, Kinds, Outcomes, FlagsOK,
     ProcessesOK, CallsOK, Call, NoCall, TakeStart, Receive, Want, Disarm,
     StartUnlessHeld, loopVars, attemptVars, osVars
<1>19. ASSUME NEW c \in Clients, TakeStop(c)
      PROVE  LoopOK' /\ FlagsOK' /\ ProcessesOK' /\ CallsOK'
  BY <1>19, ServiceAssumption DEF TypeOK, LoopOK, PCs, Cases, Kinds, Outcomes, FlagsOK,
     ProcessesOK, CallsOK, Call, NoCall, TakeStop, Receive, Disarm, EnterStop, loopVars,
     attemptVars, osVars
<1>20. ASSUME NEW c \in Clients, TakeRestart(c)
      PROVE  LoopOK' /\ FlagsOK' /\ ProcessesOK' /\ CallsOK'
  BY <1>20, ServiceAssumption DEF TypeOK, LoopOK, PCs, Cases, Kinds, Outcomes, FlagsOK,
     ProcessesOK, CallsOK, Call, NoCall, TakeRestart, Receive, Want, Disarm, EnterStop,
     loopVars, attemptVars, osVars
<1>21. ASSUME NEW c \in Clients, TakeStatus(c)
      PROVE  LoopOK' /\ FlagsOK' /\ ProcessesOK' /\ CallsOK'
  BY <1>21, ServiceAssumption DEF TypeOK, LoopOK, PCs, Cases, Kinds, Outcomes, FlagsOK,
     ProcessesOK, CallsOK, Call, NoCall, TakeStatus, Receive, loopVars, attemptVars,
     osVars
<1>22. ASSUME NEW c \in Clients, TimeOut(c)
      PROVE  LoopOK' /\ FlagsOK' /\ ProcessesOK' /\ CallsOK'
  BY <1>22, ServiceAssumption DEF TypeOK, LoopOK, PCs, Cases, Kinds, Outcomes, FlagsOK,
     ProcessesOK, CallsOK, Call, NoCall, TimeOut, Offered, loopVars, attemptVars, osVars
<1>23. ASSUME NEW c \in Clients, Return(c)
      PROVE  LoopOK' /\ FlagsOK' /\ ProcessesOK' /\ CallsOK'
  BY <1>23, ServiceAssumption DEF TypeOK, LoopOK, PCs, Cases, Kinds, Outcomes, FlagsOK,
     ProcessesOK, CallsOK, Call, NoCall, Return, loopVars, attemptVars, osVars
<1>24. ASSUME NEW c \in Clients, NEW k \in Kinds, Ask(c, k)
      PROVE  LoopOK' /\ FlagsOK' /\ ProcessesOK' /\ CallsOK'
  <2>1. LoopOK'
    BY <1>24, ServiceAssumption DEF TypeOK, LoopOK, PCs, Cases, Kinds, Outcomes, Ask,
       loopVars, attemptVars, osVars
  <2>2. FlagsOK'
    BY <1>24, ServiceAssumption DEF TypeOK, FlagsOK, Ask, loopVars, attemptVars, osVars
  <2>3. ProcessesOK'
    BY <1>24, ServiceAssumption DEF TypeOK, LoopOK, ProcessesOK, Ask, loopVars,
       attemptVars, osVars
  <2>4. CallsOK'
    BY <1>24, ServiceAssumption DEF TypeOK, CallsOK, Call, Kinds, NoCall, LoopOK,
       ProcessesOK, Ask, loopVars, attemptVars, osVars
  <2>5. QED
    BY <2>1, <2>2, <2>3, <2>4
<1>25. ASSUME NEW p \in alive, NEW success \in BOOLEAN, ProcessExits(p, success)
      PROVE  LoopOK' /\ FlagsOK' /\ ProcessesOK' /\ CallsOK'
  BY <1>25, ServiceAssumption DEF TypeOK, LoopOK, PCs, Cases, Kinds, Outcomes, FlagsOK,
     ProcessesOK, CallsOK, Call, NoCall, ProcessExits, Fault, loopVars, attemptVars,
     osVars
<1>26. ASSUME NEW p \in alive, ProcessDies(p)
      PROVE  LoopOK' /\ FlagsOK' /\ ProcessesOK' /\ CallsOK'
  BY <1>26, ServiceAssumption DEF TypeOK, LoopOK, PCs, Cases, Kinds, Outcomes, FlagsOK,
     ProcessesOK, CallsOK, Call, NoCall, ProcessDies, loopVars, attemptVars, osVars
<1>27. ASSUME NEW p \in exited, Report(p)
      PROVE  LoopOK' /\ FlagsOK' /\ ProcessesOK' /\ CallsOK'
  BY <1>27, ServiceAssumption DEF TypeOK, LoopOK, PCs, Cases, Kinds, Outcomes, FlagsOK,
     ProcessesOK, CallsOK, Call, NoCall, Report, loopVars, attemptVars, osVars
<1>28. CASE UNCHANGED vars
  BY <1>28, ServiceAssumption DEF TypeOK, LoopOK, PCs, Cases, Kinds, Outcomes, FlagsOK,
     ProcessesOK, CallsOK, Call, NoCall, vars, loopVars, attemptVars, osVars
<1>29. QED
  BY <1>1, <1>2, <1>3, <1>4, <1>5, <1>6, <1>7, <1>8, <1>9, <1>10, <1>11, <1>12,
   <1>13, <1>14, <1>15, <1>16, <1>17, <1>18, <1>19, <1>20, <1>21, <1>22, <1>23, <1>24,
   <1>25, <1>26, <1>27, <1>28 DEF Next, Work, Take, Caller

-----------------------------------------------------------------------------
(* The inductive invariant. *)

\* A step keeps what start(), stop(), the exit path and the restart decision rely on.
LEMMA InvariantStep ==
    ASSUME IInv, [Next]_vars
    PROVE  LoopInv' /\ ProcessInv' /\ ReportInv' /\ RestartBudget'
PROOF
<1>1. CASE BeginStart
  BY <1>1, ServiceAssumption DEF IInv, TypeOK, LoopOK, FlagsOK, ProcessesOK, LoopInv,
     ProcessInv, Current, ReportInv, RestartBudget, BeginStart, NewInstance, loopVars,
     attemptVars, osVars
<1>2. CASE PipeFails
  BY <1>2, ServiceAssumption DEF IInv, TypeOK, LoopOK, FlagsOK, ProcessesOK, LoopInv,
     ProcessInv, Current, ReportInv, RestartBudget, PipeFails, Fault, ReturnFromStart,
     loopVars, attemptVars, osVars
<1>3. CASE ProgramNotFound
  BY <1>3, ServiceAssumption DEF IInv, TypeOK, LoopOK, FlagsOK, ProcessesOK, LoopInv,
     ProcessInv, Current, ReportInv, RestartBudget, ProgramNotFound, Fault, GiveUp,
     ReturnFromStart, loopVars, attemptVars, osVars
<1>4. CASE StartFails
  <2>1. LoopInv'
    BY <1>4, ServiceAssumption DEF IInv, TypeOK, LoopOK, FlagsOK, ProcessesOK, LoopInv,
       StartFails, Fault, RetryOrReport, ReturnFromStart, loopVars, attemptVars, osVars
  <2>2. ProcessInv'
    BY <1>4, ServiceAssumption DEF IInv, TypeOK, ProcessesOK, LoopInv, ProcessInv,
       Current, StartFails, Fault, RetryOrReport, ReturnFromStart, loopVars, attemptVars,
       osVars
  <2>3. ReportInv'
    BY <1>4, ServiceAssumption DEF IInv, TypeOK, LoopOK, FlagsOK, ProcessesOK, LoopInv,
       ReportInv, StartFails, Fault, RetryOrReport, ReturnFromStart, ShouldRestart,
       loopVars, attemptVars, osVars
  <2>4. RestartBudget'
    BY <1>4, ServiceAssumption DEF IInv, TypeOK, LoopOK, RestartBudget, StartFails, Fault,
       RetryOrReport, ReturnFromStart, ShouldRestart, loopVars, attemptVars, osVars
  <2>5. QED
    BY <2>1, <2>2, <2>3, <2>4
<1>5. CASE Spawn
  BY <1>5, ServiceAssumption DEF IInv, TypeOK, LoopOK, FlagsOK, ProcessesOK, LoopInv,
     ProcessInv, Current, ReportInv, RestartBudget, Spawn, loopVars, attemptVars, osVars
<1>6. CASE Assign
  BY <1>6, ServiceAssumption DEF IInv, TypeOK, LoopOK, FlagsOK, ProcessesOK, LoopInv,
     ProcessInv, Current, ReportInv, RestartBudget, Assign, ReturnFromStart, loopVars,
     attemptVars, osVars
<1>7. CASE Kill
  BY <1>7, ServiceAssumption DEF IInv, TypeOK, LoopOK, FlagsOK, ProcessesOK, LoopInv,
     ProcessInv, Current, ReportInv, RestartBudget, Kill, loopVars, attemptVars, osVars
<1>8. CASE Reap
  BY <1>8, ServiceAssumption DEF IInv, TypeOK, LoopOK, FlagsOK, ProcessesOK, LoopInv,
     ProcessInv, Current, ReportInv, RestartBudget, Reap, Waited, loopVars, attemptVars,
     osVars
<1>9. CASE DrainStopped
  BY <1>9, ServiceAssumption DEF IInv, TypeOK, LoopOK, FlagsOK, ProcessesOK, LoopInv,
     ProcessInv, Current, ReportInv, RestartBudget, DrainStopped, loopVars, attemptVars,
     osVars
<1>10. CASE AfterStop
  BY <1>10, ServiceAssumption DEF IInv, TypeOK, LoopOK, FlagsOK, ProcessesOK, LoopInv,
     ProcessInv, Current, ReportInv, RestartBudget, AfterStop, NextAfterStop, loopVars,
     attemptVars, osVars
<1>11. CASE HandleExit
  <2>1. LoopInv'
    BY <1>11, ServiceAssumption DEF IInv, TypeOK, LoopOK, FlagsOK, ProcessesOK, LoopInv,
       HandleExit, RetryOrReport, loopVars, attemptVars, osVars
  <2>2. ProcessInv'
    BY <1>11, ServiceAssumption DEF IInv, TypeOK, ProcessesOK, LoopInv, ProcessInv,
       Current, HandleExit, RetryOrReport, loopVars, attemptVars, osVars
  <2>3. ReportInv'
    BY <1>11, ServiceAssumption DEF IInv, TypeOK, LoopOK, FlagsOK, ProcessesOK, LoopInv,
       ReportInv, HandleExit, RetryOrReport, loopVars, attemptVars, osVars
  <2>4. RestartBudget'
    BY <1>11, ServiceAssumption DEF IInv, TypeOK, LoopOK, RestartBudget, HandleExit,
       RetryOrReport, ShouldRestart, loopVars, attemptVars, osVars
  <2>5. QED
    BY <2>1, <2>2, <2>3, <2>4
<1>12. CASE Reply
  BY <1>12, ServiceAssumption DEF IInv, TypeOK, LoopOK, FlagsOK, ProcessesOK, LoopInv,
     ProcessInv, Current, ReportInv, RestartBudget, Reply, loopVars, attemptVars, osVars
<1>13. CASE Launch
  BY <1>13, ServiceAssumption DEF IInv, TypeOK, LoopOK, FlagsOK, ProcessesOK, LoopInv,
     ProcessInv, Current, ReportInv, RestartBudget, Launch, loopVars, attemptVars, osVars
<1>14. CASE TakeCancel
  BY <1>14, ServiceAssumption DEF IInv, TypeOK, LoopOK, FlagsOK, ProcessesOK, LoopInv,
     ProcessInv, Current, ReportInv, RestartBudget, TakeCancel, EnterStop, loopVars,
     attemptVars, osVars
<1>15. CASE TakeBackoff
  BY <1>15, ServiceAssumption DEF IInv, TypeOK, LoopOK, FlagsOK, ProcessesOK, LoopInv,
     ProcessInv, Current, ReportInv, RestartBudget, TakeBackoff, loopVars, attemptVars,
     osVars
<1>16. CASE TakeExit
  BY <1>16, ServiceAssumption DEF IInv, TypeOK, LoopOK, FlagsOK, ProcessesOK, LoopInv,
     ProcessInv, Current, ReportInv, RestartBudget, TakeExit, loopVars, attemptVars,
     osVars
<1>17. CASE Cancel
  BY <1>17, ServiceAssumption DEF IInv, TypeOK, LoopOK, FlagsOK, ProcessesOK, LoopInv,
     ProcessInv, Current, ReportInv, RestartBudget, Cancel, loopVars, attemptVars, osVars
<1>18. ASSUME NEW c \in Clients, TakeStart(c)
      PROVE  LoopInv' /\ ProcessInv' /\ ReportInv' /\ RestartBudget'
  BY <1>18, ServiceAssumption DEF IInv, TypeOK, LoopOK, FlagsOK, ProcessesOK, LoopInv,
     ProcessInv, Current, ReportInv, RestartBudget, TakeStart, Receive, Want, Disarm,
     StartUnlessHeld, loopVars, attemptVars, osVars
<1>19. ASSUME NEW c \in Clients, TakeStop(c)
      PROVE  LoopInv' /\ ProcessInv' /\ ReportInv' /\ RestartBudget'
  BY <1>19, ServiceAssumption DEF IInv, TypeOK, LoopOK, FlagsOK, ProcessesOK, LoopInv,
     ProcessInv, Current, ReportInv, RestartBudget, TakeStop, Receive, Disarm, EnterStop,
     loopVars, attemptVars, osVars
<1>20. ASSUME NEW c \in Clients, TakeRestart(c)
      PROVE  LoopInv' /\ ProcessInv' /\ ReportInv' /\ RestartBudget'
  BY <1>20, ServiceAssumption DEF IInv, TypeOK, LoopOK, FlagsOK, ProcessesOK, LoopInv,
     ProcessInv, Current, ReportInv, RestartBudget, TakeRestart, Receive, Want, Disarm,
     EnterStop, loopVars, attemptVars, osVars
<1>21. ASSUME NEW c \in Clients, TakeStatus(c)
      PROVE  LoopInv' /\ ProcessInv' /\ ReportInv' /\ RestartBudget'
  BY <1>21, ServiceAssumption DEF IInv, TypeOK, LoopOK, FlagsOK, ProcessesOK, LoopInv,
     ProcessInv, Current, ReportInv, RestartBudget, TakeStatus, Receive, loopVars,
     attemptVars, osVars
<1>22. ASSUME NEW c \in Clients, TimeOut(c)
      PROVE  LoopInv' /\ ProcessInv' /\ ReportInv' /\ RestartBudget'
  BY <1>22, ServiceAssumption DEF IInv, TypeOK, LoopOK, FlagsOK, ProcessesOK, LoopInv,
     ProcessInv, Current, ReportInv, RestartBudget, TimeOut, Offered, loopVars,
     attemptVars, osVars
<1>23. ASSUME NEW c \in Clients, Return(c)
      PROVE  LoopInv' /\ ProcessInv' /\ ReportInv' /\ RestartBudget'
  BY <1>23, ServiceAssumption DEF IInv, TypeOK, LoopOK, FlagsOK, ProcessesOK, LoopInv,
     ProcessInv, Current, ReportInv, RestartBudget, Return, loopVars, attemptVars, osVars
<1>24. ASSUME NEW c \in Clients, NEW k \in Kinds, Ask(c, k)
      PROVE  LoopInv' /\ ProcessInv' /\ ReportInv' /\ RestartBudget'
  BY <1>24, ServiceAssumption DEF IInv, TypeOK, LoopOK, FlagsOK, ProcessesOK, LoopInv,
     ProcessInv, Current, ReportInv, RestartBudget, Ask, loopVars, attemptVars, osVars
<1>25. ASSUME NEW p \in alive, NEW success \in BOOLEAN, ProcessExits(p, success)
      PROVE  LoopInv' /\ ProcessInv' /\ ReportInv' /\ RestartBudget'
  BY <1>25, ServiceAssumption DEF IInv, TypeOK, LoopOK, FlagsOK, ProcessesOK, LoopInv,
     ProcessInv, Current, ReportInv, RestartBudget, ProcessExits, Fault, loopVars,
     attemptVars, osVars
<1>26. ASSUME NEW p \in alive, ProcessDies(p)
      PROVE  LoopInv' /\ ProcessInv' /\ ReportInv' /\ RestartBudget'
  BY <1>26, ServiceAssumption DEF IInv, TypeOK, LoopOK, FlagsOK, ProcessesOK, LoopInv,
     ProcessInv, Current, ReportInv, RestartBudget, ProcessDies, loopVars, attemptVars,
     osVars
<1>27. ASSUME NEW p \in exited, Report(p)
      PROVE  LoopInv' /\ ProcessInv' /\ ReportInv' /\ RestartBudget'
  BY <1>27, ServiceAssumption DEF IInv, TypeOK, LoopOK, FlagsOK, ProcessesOK, LoopInv,
     ProcessInv, Current, ReportInv, RestartBudget, Report, loopVars, attemptVars, osVars
<1>28. CASE UNCHANGED vars
  BY <1>28, ServiceAssumption DEF IInv, TypeOK, LoopOK, FlagsOK, ProcessesOK, LoopInv,
     ProcessInv, Current, ReportInv, RestartBudget, vars, loopVars, attemptVars, osVars
<1>29. QED
  BY <1>1, <1>2, <1>3, <1>4, <1>5, <1>6, <1>7, <1>8, <1>9, <1>10, <1>11, <1>12,
   <1>13, <1>14, <1>15, <1>16, <1>17, <1>18, <1>19, <1>20, <1>21, <1>22, <1>23, <1>24,
   <1>25, <1>26, <1>27, <1>28 DEF Next, Work, Take, Caller

\* A step keeps the backoff timer the policy's: only a restartable end arms it.
LEMMA TimerStep ==
    ASSUME IInv, [Next]_vars
    PROVE  TimerInv'
PROOF
<1>1. CASE BeginStart
  BY <1>1, ServiceAssumption DEF IInv, TypeOK, LoopOK, FlagsOK, ProcessesOK, LoopInv,
     TimerInv, Restartable, ShouldRestart, BeginStart, NewInstance, loopVars, attemptVars,
     osVars
<1>2. CASE PipeFails
  BY <1>2, ServiceAssumption DEF IInv, TypeOK, LoopOK, FlagsOK, ProcessesOK, LoopInv,
     TimerInv, Restartable, ShouldRestart, PipeFails, Fault, ReturnFromStart, loopVars,
     attemptVars, osVars
<1>3. CASE ProgramNotFound
  BY <1>3, ServiceAssumption DEF IInv, TypeOK, LoopOK, FlagsOK, ProcessesOK, LoopInv,
     TimerInv, Restartable, ShouldRestart, ProgramNotFound, Fault, GiveUp,
     ReturnFromStart, loopVars, attemptVars, osVars
<1>4. CASE StartFails
  BY <1>4, ServiceAssumption DEF IInv, TypeOK, LoopOK, FlagsOK, ProcessesOK, LoopInv,
     TimerInv, Restartable, ShouldRestart, StartFails, Fault, RetryOrReport,
     ReturnFromStart, loopVars, attemptVars, osVars
<1>5. CASE Spawn
  BY <1>5, ServiceAssumption DEF IInv, TypeOK, LoopOK, FlagsOK, ProcessesOK, LoopInv,
     TimerInv, Restartable, ShouldRestart, Spawn, loopVars, attemptVars, osVars
<1>6. CASE Assign
  BY <1>6, ServiceAssumption DEF IInv, TypeOK, LoopOK, FlagsOK, ProcessesOK, LoopInv,
     TimerInv, Restartable, ShouldRestart, Assign, ReturnFromStart, loopVars, attemptVars,
     osVars
<1>7. CASE Kill
  BY <1>7, ServiceAssumption DEF IInv, TypeOK, LoopOK, FlagsOK, ProcessesOK, LoopInv,
     TimerInv, Restartable, ShouldRestart, Kill, loopVars, attemptVars, osVars
<1>8. CASE Reap
  BY <1>8, ServiceAssumption DEF IInv, TypeOK, LoopOK, FlagsOK, ProcessesOK, LoopInv,
     TimerInv, Restartable, ShouldRestart, Reap, Waited, loopVars, attemptVars, osVars
<1>9. CASE DrainStopped
  BY <1>9, ServiceAssumption DEF IInv, TypeOK, LoopOK, FlagsOK, ProcessesOK, LoopInv,
     TimerInv, Restartable, ShouldRestart, DrainStopped, loopVars, attemptVars, osVars
<1>10. CASE AfterStop
  BY <1>10, ServiceAssumption DEF IInv, TypeOK, LoopOK, FlagsOK, ProcessesOK, LoopInv,
     TimerInv, Restartable, ShouldRestart, AfterStop, NextAfterStop, loopVars,
     attemptVars, osVars
<1>11. CASE HandleExit
  BY <1>11, ServiceAssumption DEF IInv, TypeOK, LoopOK, FlagsOK, ProcessesOK, LoopInv,
     TimerInv, Restartable, ShouldRestart, HandleExit, RetryOrReport, loopVars,
     attemptVars, osVars
<1>12. CASE Reply
  BY <1>12, ServiceAssumption DEF IInv, TypeOK, LoopOK, FlagsOK, ProcessesOK, LoopInv,
     TimerInv, Restartable, ShouldRestart, Reply, loopVars, attemptVars, osVars
<1>13. CASE Launch
  BY <1>13, ServiceAssumption DEF IInv, TypeOK, LoopOK, FlagsOK, ProcessesOK, LoopInv,
     TimerInv, Restartable, ShouldRestart, Launch, loopVars, attemptVars, osVars
<1>14. CASE TakeCancel
  BY <1>14, ServiceAssumption DEF IInv, TypeOK, LoopOK, FlagsOK, ProcessesOK, LoopInv,
     TimerInv, Restartable, ShouldRestart, TakeCancel, EnterStop, loopVars, attemptVars,
     osVars
<1>15. CASE TakeBackoff
  BY <1>15, ServiceAssumption DEF IInv, TypeOK, LoopOK, FlagsOK, ProcessesOK, LoopInv,
     TimerInv, Restartable, ShouldRestart, TakeBackoff, loopVars, attemptVars, osVars
<1>16. CASE TakeExit
  BY <1>16, ServiceAssumption DEF IInv, TypeOK, LoopOK, FlagsOK, ProcessesOK, LoopInv,
     TimerInv, Restartable, ShouldRestart, TakeExit, loopVars, attemptVars, osVars
<1>17. CASE Cancel
  BY <1>17, ServiceAssumption DEF IInv, TypeOK, LoopOK, FlagsOK, ProcessesOK, LoopInv,
     TimerInv, Restartable, ShouldRestart, Cancel, loopVars, attemptVars, osVars
<1>18. ASSUME NEW c \in Clients, TakeStart(c)
      PROVE  TimerInv'
  BY <1>18, ServiceAssumption DEF IInv, TypeOK, LoopOK, FlagsOK, ProcessesOK, LoopInv,
     TimerInv, Restartable, ShouldRestart, TakeStart, Receive, Want, Disarm,
     StartUnlessHeld, loopVars, attemptVars, osVars
<1>19. ASSUME NEW c \in Clients, TakeStop(c)
      PROVE  TimerInv'
  BY <1>19, ServiceAssumption DEF IInv, TypeOK, LoopOK, FlagsOK, ProcessesOK, LoopInv,
     TimerInv, Restartable, ShouldRestart, TakeStop, Receive, Disarm, EnterStop, loopVars,
     attemptVars, osVars
<1>20. ASSUME NEW c \in Clients, TakeRestart(c)
      PROVE  TimerInv'
  BY <1>20, ServiceAssumption DEF IInv, TypeOK, LoopOK, FlagsOK, ProcessesOK, LoopInv,
     TimerInv, Restartable, ShouldRestart, TakeRestart, Receive, Want, Disarm, EnterStop,
     loopVars, attemptVars, osVars
<1>21. ASSUME NEW c \in Clients, TakeStatus(c)
      PROVE  TimerInv'
  BY <1>21, ServiceAssumption DEF IInv, TypeOK, LoopOK, FlagsOK, ProcessesOK, LoopInv,
     TimerInv, Restartable, ShouldRestart, TakeStatus, Receive, loopVars, attemptVars,
     osVars
<1>22. ASSUME NEW c \in Clients, TimeOut(c)
      PROVE  TimerInv'
  BY <1>22, ServiceAssumption DEF IInv, TypeOK, LoopOK, FlagsOK, ProcessesOK, LoopInv,
     TimerInv, Restartable, ShouldRestart, TimeOut, Offered, loopVars, attemptVars, osVars
<1>23. ASSUME NEW c \in Clients, Return(c)
      PROVE  TimerInv'
  BY <1>23, ServiceAssumption DEF IInv, TypeOK, LoopOK, FlagsOK, ProcessesOK, LoopInv,
     TimerInv, Restartable, ShouldRestart, Return, loopVars, attemptVars, osVars
<1>24. ASSUME NEW c \in Clients, NEW k \in Kinds, Ask(c, k)
      PROVE  TimerInv'
  BY <1>24, ServiceAssumption DEF IInv, TypeOK, LoopOK, FlagsOK, ProcessesOK, LoopInv,
     TimerInv, Restartable, ShouldRestart, Ask, loopVars, attemptVars, osVars
<1>25. ASSUME NEW p \in alive, NEW success \in BOOLEAN, ProcessExits(p, success)
      PROVE  TimerInv'
  BY <1>25, ServiceAssumption DEF IInv, TypeOK, LoopOK, FlagsOK, ProcessesOK, LoopInv,
     TimerInv, Restartable, ShouldRestart, ProcessExits, Fault, loopVars, attemptVars,
     osVars
<1>26. ASSUME NEW p \in alive, ProcessDies(p)
      PROVE  TimerInv'
  BY <1>26, ServiceAssumption DEF IInv, TypeOK, LoopOK, FlagsOK, ProcessesOK, LoopInv,
     TimerInv, Restartable, ShouldRestart, ProcessDies, loopVars, attemptVars, osVars
<1>27. ASSUME NEW p \in exited, Report(p)
      PROVE  TimerInv'
  BY <1>27, ServiceAssumption DEF IInv, TypeOK, LoopOK, FlagsOK, ProcessesOK, LoopInv,
     TimerInv, Restartable, ShouldRestart, Report, loopVars, attemptVars, osVars
<1>28. CASE UNCHANGED vars
  BY <1>28, ServiceAssumption DEF IInv, TypeOK, LoopOK, FlagsOK, ProcessesOK, LoopInv,
     TimerInv, Restartable, ShouldRestart, vars, loopVars, attemptVars, osVars
<1>29. QED
  BY <1>1, <1>2, <1>3, <1>4, <1>5, <1>6, <1>7, <1>8, <1>9, <1>10, <1>11, <1>12,
   <1>13, <1>14, <1>15, <1>16, <1>17, <1>18, <1>19, <1>20, <1>21, <1>22, <1>23, <1>24,
   <1>25, <1>26, <1>27, <1>28 DEF Next, Work, Take, Caller

\* A step keeps the message being handled and the call of its sender together.
LEMMA CallStep ==
    ASSUME IInv, [Next]_vars
    PROVE  CallInv'
PROOF
<1>1. CASE BeginStart
  BY <1>1, ServiceAssumption DEF IInv, TypeOK, LoopOK, CallsOK, Call, Kinds, LoopInv,
     CallInv, AcceptedIsServed, NoCall, BeginStart, NewInstance, loopVars, attemptVars,
     osVars
<1>2. CASE PipeFails
  BY <1>2, ServiceAssumption DEF IInv, TypeOK, LoopOK, CallsOK, Call, Kinds, LoopInv,
     CallInv, AcceptedIsServed, NoCall, PipeFails, Fault, ReturnFromStart, loopVars,
     attemptVars, osVars
<1>3. CASE ProgramNotFound
  BY <1>3, ServiceAssumption DEF IInv, TypeOK, LoopOK, CallsOK, Call, Kinds, LoopInv,
     CallInv, AcceptedIsServed, NoCall, ProgramNotFound, Fault, GiveUp, ReturnFromStart,
     loopVars, attemptVars, osVars
<1>4. CASE StartFails
  BY <1>4, ServiceAssumption DEF IInv, TypeOK, LoopOK, CallsOK, Call, Kinds, LoopInv,
     CallInv, AcceptedIsServed, NoCall, StartFails, Fault, RetryOrReport, ReturnFromStart,
     loopVars, attemptVars, osVars
<1>5. CASE Spawn
  BY <1>5, ServiceAssumption DEF IInv, TypeOK, LoopOK, CallsOK, Call, Kinds, LoopInv,
     CallInv, AcceptedIsServed, NoCall, Spawn, loopVars, attemptVars, osVars
<1>6. CASE Assign
  BY <1>6, ServiceAssumption DEF IInv, TypeOK, LoopOK, CallsOK, Call, Kinds, LoopInv,
     CallInv, AcceptedIsServed, NoCall, Assign, ReturnFromStart, loopVars, attemptVars,
     osVars
<1>7. CASE Kill
  BY <1>7, ServiceAssumption DEF IInv, TypeOK, LoopOK, CallsOK, Call, Kinds, LoopInv,
     CallInv, AcceptedIsServed, NoCall, Kill, loopVars, attemptVars, osVars
<1>8. CASE Reap
  BY <1>8, ServiceAssumption DEF IInv, TypeOK, LoopOK, CallsOK, Call, Kinds, LoopInv,
     CallInv, AcceptedIsServed, NoCall, Reap, Waited, loopVars, attemptVars, osVars
<1>9. CASE DrainStopped
  BY <1>9, ServiceAssumption DEF IInv, TypeOK, LoopOK, CallsOK, Call, Kinds, LoopInv,
     CallInv, AcceptedIsServed, NoCall, DrainStopped, loopVars, attemptVars, osVars
<1>10. CASE AfterStop
  BY <1>10, ServiceAssumption DEF IInv, TypeOK, LoopOK, CallsOK, Call, Kinds, LoopInv,
     CallInv, AcceptedIsServed, NoCall, AfterStop, NextAfterStop, loopVars, attemptVars,
     osVars
<1>11. CASE HandleExit
  BY <1>11, ServiceAssumption DEF IInv, TypeOK, LoopOK, CallsOK, Call, Kinds, LoopInv,
     CallInv, AcceptedIsServed, NoCall, HandleExit, RetryOrReport, loopVars, attemptVars,
     osVars
<1>12. CASE Reply
  BY <1>12, ServiceAssumption DEF IInv, TypeOK, LoopOK, CallsOK, Call, Kinds, LoopInv,
     CallInv, AcceptedIsServed, NoCall, Reply, loopVars, attemptVars, osVars
<1>13. CASE Launch
  BY <1>13, ServiceAssumption DEF IInv, TypeOK, LoopOK, CallsOK, Call, Kinds, LoopInv,
     CallInv, AcceptedIsServed, NoCall, Launch, loopVars, attemptVars, osVars
<1>14. CASE TakeCancel
  BY <1>14, ServiceAssumption DEF IInv, TypeOK, LoopOK, CallsOK, Call, Kinds, LoopInv,
     CallInv, AcceptedIsServed, NoCall, TakeCancel, EnterStop, loopVars, attemptVars,
     osVars
<1>15. CASE TakeBackoff
  BY <1>15, ServiceAssumption DEF IInv, TypeOK, LoopOK, CallsOK, Call, Kinds, LoopInv,
     CallInv, AcceptedIsServed, NoCall, TakeBackoff, loopVars, attemptVars, osVars
<1>16. CASE TakeExit
  BY <1>16, ServiceAssumption DEF IInv, TypeOK, LoopOK, CallsOK, Call, Kinds, LoopInv,
     CallInv, AcceptedIsServed, NoCall, TakeExit, loopVars, attemptVars, osVars
<1>17. CASE Cancel
  BY <1>17, ServiceAssumption DEF IInv, TypeOK, LoopOK, CallsOK, Call, Kinds, LoopInv,
     CallInv, AcceptedIsServed, NoCall, Cancel, loopVars, attemptVars, osVars
<1>18. ASSUME NEW c \in Clients, TakeStart(c)
      PROVE  CallInv'
  BY <1>18, ServiceAssumption DEF IInv, TypeOK, LoopOK, CallsOK, Call, Kinds, LoopInv,
     CallInv, AcceptedIsServed, NoCall, TakeStart, Receive, Want, Disarm, StartUnlessHeld,
     loopVars, attemptVars, osVars
<1>19. ASSUME NEW c \in Clients, TakeStop(c)
      PROVE  CallInv'
  BY <1>19, ServiceAssumption DEF IInv, TypeOK, LoopOK, CallsOK, Call, Kinds, LoopInv,
     CallInv, AcceptedIsServed, NoCall, TakeStop, Receive, Disarm, EnterStop, loopVars,
     attemptVars, osVars
<1>20. ASSUME NEW c \in Clients, TakeRestart(c)
      PROVE  CallInv'
  BY <1>20, ServiceAssumption DEF IInv, TypeOK, LoopOK, CallsOK, Call, Kinds, LoopInv,
     CallInv, AcceptedIsServed, NoCall, TakeRestart, Receive, Want, Disarm, EnterStop,
     loopVars, attemptVars, osVars
<1>21. ASSUME NEW c \in Clients, TakeStatus(c)
      PROVE  CallInv'
  BY <1>21, ServiceAssumption DEF IInv, TypeOK, LoopOK, CallsOK, Call, Kinds, LoopInv,
     CallInv, AcceptedIsServed, NoCall, TakeStatus, Receive, loopVars, attemptVars, osVars
<1>22. ASSUME NEW c \in Clients, TimeOut(c)
      PROVE  CallInv'
  BY <1>22, ServiceAssumption DEF IInv, TypeOK, LoopOK, CallsOK, Call, Kinds, LoopInv,
     CallInv, AcceptedIsServed, NoCall, TimeOut, Offered, loopVars, attemptVars, osVars
<1>23. ASSUME NEW c \in Clients, Return(c)
      PROVE  CallInv'
  BY <1>23, ServiceAssumption DEF IInv, TypeOK, LoopOK, CallsOK, Call, Kinds, LoopInv,
     CallInv, AcceptedIsServed, NoCall, Return, loopVars, attemptVars, osVars
<1>24. ASSUME NEW c \in Clients, NEW k \in Kinds, Ask(c, k)
      PROVE  CallInv'
  BY <1>24, ServiceAssumption DEF IInv, TypeOK, LoopOK, CallsOK, Call, Kinds, LoopInv,
     CallInv, AcceptedIsServed, NoCall, Ask, loopVars, attemptVars, osVars
<1>25. ASSUME NEW p \in alive, NEW success \in BOOLEAN, ProcessExits(p, success)
      PROVE  CallInv'
  BY <1>25, ServiceAssumption DEF IInv, TypeOK, LoopOK, CallsOK, Call, Kinds, LoopInv,
     CallInv, AcceptedIsServed, NoCall, ProcessExits, Fault, loopVars, attemptVars, osVars
<1>26. ASSUME NEW p \in alive, ProcessDies(p)
      PROVE  CallInv'
  BY <1>26, ServiceAssumption DEF IInv, TypeOK, LoopOK, CallsOK, Call, Kinds, LoopInv,
     CallInv, AcceptedIsServed, NoCall, ProcessDies, loopVars, attemptVars, osVars
<1>27. ASSUME NEW p \in exited, Report(p)
      PROVE  CallInv'
  BY <1>27, ServiceAssumption DEF IInv, TypeOK, LoopOK, CallsOK, Call, Kinds, LoopInv,
     CallInv, AcceptedIsServed, NoCall, Report, loopVars, attemptVars, osVars
<1>28. CASE UNCHANGED vars
  BY <1>28, ServiceAssumption DEF IInv, TypeOK, LoopOK, CallsOK, Call, Kinds, LoopInv,
     CallInv, AcceptedIsServed, NoCall, vars, loopVars, attemptVars, osVars
<1>29. QED
  BY <1>1, <1>2, <1>3, <1>4, <1>5, <1>6, <1>7, <1>8, <1>9, <1>10, <1>11, <1>12,
   <1>13, <1>14, <1>15, <1>16, <1>17, <1>18, <1>19, <1>20, <1>21, <1>22, <1>23, <1>24,
   <1>25, <1>26, <1>27, <1>28 DEF Next, Work, Take, Caller

\* A step keeps the promise of a restart: the instance answered is younger than the request.
LEMMA FreshStep ==
    ASSUME IInv, [Next]_vars
    PROVE  FreshInv'
PROOF
<1>1. CASE BeginStart
  BY <1>1, ServiceAssumption DEF IInv, TypeOK, LoopOK, ProcessesOK, CallsOK, Call, Kinds,
     LoopInv, CallInv, AcceptedIsServed, NoCall, FreshInv, RestartIsFresh, BeginStart,
     NewInstance, loopVars, attemptVars, osVars
<1>2. CASE PipeFails
  BY <1>2, ServiceAssumption DEF IInv, TypeOK, LoopOK, ProcessesOK, CallsOK, Call, Kinds,
     LoopInv, CallInv, AcceptedIsServed, NoCall, FreshInv, RestartIsFresh, PipeFails,
     Fault, ReturnFromStart, loopVars, attemptVars, osVars
<1>3. CASE ProgramNotFound
  BY <1>3, ServiceAssumption DEF IInv, TypeOK, LoopOK, ProcessesOK, CallsOK, Call, Kinds,
     LoopInv, CallInv, AcceptedIsServed, NoCall, FreshInv, RestartIsFresh,
     ProgramNotFound, Fault, GiveUp, ReturnFromStart, loopVars, attemptVars, osVars
<1>4. CASE StartFails
  BY <1>4, ServiceAssumption DEF IInv, TypeOK, LoopOK, ProcessesOK, CallsOK, Call, Kinds,
     LoopInv, CallInv, AcceptedIsServed, NoCall, FreshInv, RestartIsFresh, StartFails,
     Fault, RetryOrReport, ReturnFromStart, loopVars, attemptVars, osVars
<1>5. CASE Spawn
  BY <1>5, ServiceAssumption DEF IInv, TypeOK, LoopOK, ProcessesOK, CallsOK, Call, Kinds,
     LoopInv, CallInv, AcceptedIsServed, NoCall, FreshInv, RestartIsFresh, Spawn,
     loopVars, attemptVars, osVars
<1>6. CASE Assign
  BY <1>6, ServiceAssumption DEF IInv, TypeOK, LoopOK, ProcessesOK, CallsOK, Call, Kinds,
     LoopInv, CallInv, AcceptedIsServed, NoCall, FreshInv, RestartIsFresh, Assign,
     ReturnFromStart, loopVars, attemptVars, osVars
<1>7. CASE Kill
  BY <1>7, ServiceAssumption DEF IInv, TypeOK, LoopOK, ProcessesOK, CallsOK, Call, Kinds,
     LoopInv, CallInv, AcceptedIsServed, NoCall, FreshInv, RestartIsFresh, Kill, loopVars,
     attemptVars, osVars
<1>8. CASE Reap
  BY <1>8, ServiceAssumption DEF IInv, TypeOK, LoopOK, ProcessesOK, CallsOK, Call, Kinds,
     LoopInv, CallInv, AcceptedIsServed, NoCall, FreshInv, RestartIsFresh, Reap, Waited,
     loopVars, attemptVars, osVars
<1>9. CASE DrainStopped
  BY <1>9, ServiceAssumption DEF IInv, TypeOK, LoopOK, ProcessesOK, CallsOK, Call, Kinds,
     LoopInv, CallInv, AcceptedIsServed, NoCall, FreshInv, RestartIsFresh, DrainStopped,
     loopVars, attemptVars, osVars
<1>10. CASE AfterStop
  BY <1>10, ServiceAssumption DEF IInv, TypeOK, LoopOK, ProcessesOK, CallsOK, Call, Kinds,
     LoopInv, CallInv, AcceptedIsServed, NoCall, FreshInv, RestartIsFresh, AfterStop,
     NextAfterStop, loopVars, attemptVars, osVars
<1>11. CASE HandleExit
  BY <1>11, ServiceAssumption DEF IInv, TypeOK, LoopOK, ProcessesOK, CallsOK, Call, Kinds,
     LoopInv, CallInv, AcceptedIsServed, NoCall, FreshInv, RestartIsFresh, HandleExit,
     RetryOrReport, loopVars, attemptVars, osVars
<1>12. CASE Reply
  BY <1>12, ServiceAssumption DEF IInv, TypeOK, LoopOK, ProcessesOK, CallsOK, Call, Kinds,
     LoopInv, CallInv, AcceptedIsServed, NoCall, FreshInv, RestartIsFresh, Reply,
     loopVars, attemptVars, osVars
<1>13. CASE Launch
  BY <1>13, ServiceAssumption DEF IInv, TypeOK, LoopOK, ProcessesOK, CallsOK, Call, Kinds,
     LoopInv, CallInv, AcceptedIsServed, NoCall, FreshInv, RestartIsFresh, Launch,
     loopVars, attemptVars, osVars
<1>14. CASE TakeCancel
  BY <1>14, ServiceAssumption DEF IInv, TypeOK, LoopOK, ProcessesOK, CallsOK, Call, Kinds,
     LoopInv, CallInv, AcceptedIsServed, NoCall, FreshInv, RestartIsFresh, TakeCancel,
     EnterStop, loopVars, attemptVars, osVars
<1>15. CASE TakeBackoff
  BY <1>15, ServiceAssumption DEF IInv, TypeOK, LoopOK, ProcessesOK, CallsOK, Call, Kinds,
     LoopInv, CallInv, AcceptedIsServed, NoCall, FreshInv, RestartIsFresh, TakeBackoff,
     loopVars, attemptVars, osVars
<1>16. CASE TakeExit
  BY <1>16, ServiceAssumption DEF IInv, TypeOK, LoopOK, ProcessesOK, CallsOK, Call, Kinds,
     LoopInv, CallInv, AcceptedIsServed, NoCall, FreshInv, RestartIsFresh, TakeExit,
     loopVars, attemptVars, osVars
<1>17. CASE Cancel
  BY <1>17, ServiceAssumption DEF IInv, TypeOK, LoopOK, ProcessesOK, CallsOK, Call, Kinds,
     LoopInv, CallInv, AcceptedIsServed, NoCall, FreshInv, RestartIsFresh, Cancel,
     loopVars, attemptVars, osVars
<1>18. ASSUME NEW c \in Clients, TakeStart(c)
      PROVE  FreshInv'
  BY <1>18, ServiceAssumption DEF IInv, TypeOK, LoopOK, ProcessesOK, CallsOK, Call, Kinds,
     LoopInv, CallInv, AcceptedIsServed, NoCall, FreshInv, RestartIsFresh, TakeStart,
     Receive, Want, Disarm, StartUnlessHeld, loopVars, attemptVars, osVars
<1>19. ASSUME NEW c \in Clients, TakeStop(c)
      PROVE  FreshInv'
  BY <1>19, ServiceAssumption DEF IInv, TypeOK, LoopOK, ProcessesOK, CallsOK, Call, Kinds,
     LoopInv, CallInv, AcceptedIsServed, NoCall, FreshInv, RestartIsFresh, TakeStop,
     Receive, Disarm, EnterStop, loopVars, attemptVars, osVars
<1>20. ASSUME NEW c \in Clients, TakeRestart(c)
      PROVE  FreshInv'
  BY <1>20, ServiceAssumption DEF IInv, TypeOK, LoopOK, ProcessesOK, CallsOK, Call, Kinds,
     LoopInv, CallInv, AcceptedIsServed, NoCall, FreshInv, RestartIsFresh, TakeRestart,
     Receive, Want, Disarm, EnterStop, loopVars, attemptVars, osVars
<1>21. ASSUME NEW c \in Clients, TakeStatus(c)
      PROVE  FreshInv'
  BY <1>21, ServiceAssumption DEF IInv, TypeOK, LoopOK, ProcessesOK, CallsOK, Call, Kinds,
     LoopInv, CallInv, AcceptedIsServed, NoCall, FreshInv, RestartIsFresh, TakeStatus,
     Receive, loopVars, attemptVars, osVars
<1>22. ASSUME NEW c \in Clients, TimeOut(c)
      PROVE  FreshInv'
  BY <1>22, ServiceAssumption DEF IInv, TypeOK, LoopOK, ProcessesOK, CallsOK, Call, Kinds,
     LoopInv, CallInv, AcceptedIsServed, NoCall, FreshInv, RestartIsFresh, TimeOut,
     Offered, loopVars, attemptVars, osVars
<1>23. ASSUME NEW c \in Clients, Return(c)
      PROVE  FreshInv'
  BY <1>23, ServiceAssumption DEF IInv, TypeOK, LoopOK, ProcessesOK, CallsOK, Call, Kinds,
     LoopInv, CallInv, AcceptedIsServed, NoCall, FreshInv, RestartIsFresh, Return,
     loopVars, attemptVars, osVars
<1>24. ASSUME NEW c \in Clients, NEW k \in Kinds, Ask(c, k)
      PROVE  FreshInv'
  BY <1>24, ServiceAssumption DEF IInv, TypeOK, LoopOK, ProcessesOK, CallsOK, Call, Kinds,
     LoopInv, CallInv, AcceptedIsServed, NoCall, FreshInv, RestartIsFresh, Ask, loopVars,
     attemptVars, osVars
<1>25. ASSUME NEW p \in alive, NEW success \in BOOLEAN, ProcessExits(p, success)
      PROVE  FreshInv'
  BY <1>25, ServiceAssumption DEF IInv, TypeOK, LoopOK, ProcessesOK, CallsOK, Call, Kinds,
     LoopInv, CallInv, AcceptedIsServed, NoCall, FreshInv, RestartIsFresh, ProcessExits,
     Fault, loopVars, attemptVars, osVars
<1>26. ASSUME NEW p \in alive, ProcessDies(p)
      PROVE  FreshInv'
  BY <1>26, ServiceAssumption DEF IInv, TypeOK, LoopOK, ProcessesOK, CallsOK, Call, Kinds,
     LoopInv, CallInv, AcceptedIsServed, NoCall, FreshInv, RestartIsFresh, ProcessDies,
     loopVars, attemptVars, osVars
<1>27. ASSUME NEW p \in exited, Report(p)
      PROVE  FreshInv'
  BY <1>27, ServiceAssumption DEF IInv, TypeOK, LoopOK, ProcessesOK, CallsOK, Call, Kinds,
     LoopInv, CallInv, AcceptedIsServed, NoCall, FreshInv, RestartIsFresh, Report,
     loopVars, attemptVars, osVars
<1>28. CASE UNCHANGED vars
  BY <1>28, ServiceAssumption DEF IInv, TypeOK, LoopOK, ProcessesOK, CallsOK, Call, Kinds,
     LoopInv, CallInv, AcceptedIsServed, NoCall, FreshInv, RestartIsFresh, vars, loopVars,
     attemptVars, osVars
<1>29. QED
  BY <1>1, <1>2, <1>3, <1>4, <1>5, <1>6, <1>7, <1>8, <1>9, <1>10, <1>11, <1>12,
   <1>13, <1>14, <1>15, <1>16, <1>17, <1>18, <1>19, <1>20, <1>21, <1>22, <1>23, <1>24,
   <1>25, <1>26, <1>27, <1>28 DEF Next, Work, Take, Caller

-----------------------------------------------------------------------------
(* Theorems. *)

\* A service that has just been registered satisfies the invariant.
LEMMA InitInvariant == Init => IInv
PROOF
<1> SUFFICES ASSUME Init
             PROVE  IInv
  OBVIOUS
<1>1. LoopOK /\ FlagsOK
  BY ServiceAssumption DEF Init, LoopOK, FlagsOK, PCs, Cases, Outcomes
<1>2. ProcessesOK
  BY DEF Init, ProcessesOK
<1>3. CallsOK
  BY DEF Init, CallsOK, Call, NoCall, Kinds
<1>4. LoopInv /\ ProcessInv
  BY DEF Init, LoopInv, ProcessInv, Current
<1>5. ReportInv /\ RestartBudget
  BY ServiceAssumption DEF Init, ReportInv, RestartBudget
<1>6. TimerInv /\ CallInv
  BY DEF Init, NoCall, TimerInv, Restartable, CallInv, AcceptedIsServed
<1>7. FreshInv
  BY DEF Init, NoCall, FreshInv, RestartIsFresh
<1>8. QED
  BY <1>1, <1>2, <1>3, <1>4, <1>5, <1>6, <1>7 DEF IInv, TypeOK

\* The invariant holds in every reachable state.
THEOREM Invariance == Spec => []IInv
PROOF
<1>1. IInv /\ [Next]_vars => IInv'
  BY TypeStep, InvariantStep, TimerStep, CallStep, FreshStep DEF IInv, TypeOK
<1>2. QED
  BY InitInvariant, <1>1, PTL DEF Spec

\* The types of the loop's state, of the processes and of the calls in progress.
THEOREM TypeCorrect == Spec => []TypeOK
  BY Invariance, PTL DEF IInv

\* runService never runs two processes of its service at once.
THEOREM OneProcess == Spec => []AtMostOneProcess
PROOF
<1>1. IInv => AtMostOneProcess
  BY DEF IInv, ProcessInv, AtMostOneProcess
<1>2. QED
  BY Invariance, <1>1, PTL

\* Every process that runs is one the loop can still stop.
THEOREM ProcessesHeld == Spec => []NoProcessLost
PROOF
<1>1. IInv => NoProcessLost
  BY DEF IInv, ProcessInv, Current, NoProcessLost
<1>2. QED
  BY Invariance, <1>1, PTL

\* A wanted service is never left down without a retry and without OnExit.
THEOREM EndsReported == Spec => []NoSilentDeath
PROOF
<1>1. IInv => NoSilentDeath
  BY DEF IInv, ReportInv, NoSilentDeath
<1>2. QED
  BY Invariance, <1>1, PTL

\* OnExit is called once, for final ends nobody asked for.
THEOREM EndsReportedOnce == Spec => []OnExitOnce
PROOF
<1>1. IInv => OnExitOnce
  BY DEF IInv, TypeOK, FlagsOK, ReportInv, OnExitOnce
<1>2. QED
  BY Invariance, <1>1, PTL

\* MaxRestarts bounds the automatic restarts since the last manual command.
THEOREM RestartsBounded == Spec => []RestartBudget
  BY Invariance, PTL DEF IInv

\* Manual commands disarm the restart timer.
THEOREM TimerSafe == Spec => []TimerOnlyWhenWanted
PROOF
<1>1. IInv => TimerOnlyWhenWanted
  BY DEF IInv, LoopInv, TimerOnlyWhenWanted
<1>2. QED
  BY Invariance, <1>1, PTL

\* What the comment on start() claims of its callers.
THEOREM StartsAreWanted == Spec => []StartOnlyWhenDesired
PROOF
<1>1. IInv => StartOnlyWhenDesired
  BY DEF IInv, LoopInv, StartOnlyWhenDesired
<1>2. QED
  BY Invariance, <1>1, PTL

\* The loop leaves no process behind when it ends.
THEOREM CleanEnd == Spec => []NothingOutlivesLoop
PROOF
<1>1. IInv => NothingOutlivesLoop
  BY DEF IInv, TypeOK, ProcessesOK, LoopInv, ProcessInv, Current, NothingOutlivesLoop
<1>2. QED
  BY Invariance, <1>1, PTL

\* A message that was received is being handled, and its caller will be answered.
THEOREM MessagesServed == Spec => []AcceptedIsServed
  BY Invariance, PTL DEF IInv, CallInv

\* A restart is never answered with the process it was to replace.
THEOREM RestartsFresh == Spec => []RestartIsFresh
  BY Invariance, PTL DEF IInv, FreshInv

\* Stop is answered when the process is gone.
THEOREM StopsComplete == Spec => StopIsComplete
PROOF
<1> DEFINE Stopped(c) ==
      req[c].kind = "stop" /\ req[c].st = "accepted" /\ req'[c].st = "answered"
          => alive = {} /\ exited = {} /\ req'[c].pid = 0 /\ ~req'[c].desired
<1>1. ASSUME IInv, [Next]_vars, NEW c \in Clients
      PROVE  Stopped(c)
  <2> SUFFICES ASSUME req[c].kind = "stop", req[c].st = "accepted", req'[c].st = "answered"
               PROVE  alive = {} /\ exited = {} /\ req'[c].pid = 0 /\ ~req'[c].desired
    OBVIOUS
  <2>1. serving = c /\ why = "stop"
    BY <1>1 DEF IInv, CallInv, AcceptedIsServed
  <2>2. Reply
    <3>1. req' # req /\ req[c].st = "accepted"
      OBVIOUS
    <3>2. ASSUME NEW d \in Clients, Take(d) \/ Caller(d)
          PROVE  FALSE
      BY <1>1, <3>1, <3>2 DEF IInv, TypeOK, CallsOK, Call, Take, TakeStart, TakeStop, TakeRestart,
         TakeStatus, Receive, Caller, Ask, TimeOut, Offered, Return, NoCall
    <3>3. QED
      BY <1>1, <3>1, <3>2 DEF Next, vars, Work, BeginStart, PipeFails, ProgramNotFound,
         StartFails, Spawn, Assign, Kill, Reap, DrainStopped, AfterStop, HandleExit, Launch,
         TakeCancel, TakeBackoff, TakeExit, Cancel, ProcessExits, ProcessDies, Report
  <2>3. pc = "reply" /\ ~desired /\ cmd = 0
    BY <1>1, <2>1, <2>2 DEF IInv, LoopInv, Reply
  <2>4. alive = {} /\ exited = {}
    BY <1>1, <2>3 DEF IInv, TypeOK, ProcessesOK, ProcessInv, Current
  <2>5. req'[c].pid = 0 /\ ~req'[c].desired
    BY <1>1, <2>1, <2>2, <2>3 DEF Reply, IInv, TypeOK, CallsOK, Call
  <2>6. QED
    BY <2>4, <2>5
<1>2. IInv /\ [Next]_vars => [\A c \in Clients : Stopped(c)]_vars
  BY <1>1
<1>3. QED
  BY Invariance, <1>2, PTL DEF Spec, StopIsComplete

\* The restart timer starts only what the policy restarts.
THEOREM PolicyFollowed == Spec => AutoRestartFollowsPolicy
PROOF
<1> DEFINE Followed ==
      pc = "start" /\ pc' = "prestart" /\ why = "backoff" /\ attempt > 0 =>
        \/ Policy # "never" /\ outcome \in {"startError", "crashed"}
        \/ Policy = "always" /\ outcome = "finished"
<1>1. IInv => Followed
  BY DEF IInv, TimerInv, Restartable
<1>2. QED
  BY Invariance, <1>1, PTL DEF Spec, AutoRestartFollowsPolicy

-----------------------------------------------------------------------------
(* The loop implements ServiceContract. *)

\* It is also an initial state of the contract.
LEMMA InitRefines == Init => Contract!Init
  BY ServiceAssumption DEF Init, NoCall, Contract!Init, Contract!NoCall

\* Every step of the loop is a step of the contract or changes nothing it sees.
LEMMA StepRefines ==
    ASSUME IInv, [Next]_vars
    PROVE  [Contract!Next]_(Contract!vars)
PROOF
<1>1. CASE BeginStart
  <2>1. alive = {}
    BY <1>1 DEF BeginStart, IInv, TypeOK, ProcessesOK, LoopInv, ProcessInv, Current
  <2>2. Contract!Attempt
    BY <1>1, <2>1 DEF BeginStart, NewInstance, loopVars, osVars, IInv, LoopInv, Contract!Attempt
  <2>3. QED
    BY <2>2 DEF Contract!Next
<1>2. CASE Spawn
  <2>1. alive = {}
    BY <1>2 DEF Spawn, IInv, TypeOK, ProcessesOK, LoopInv, ProcessInv, Current
  <2>2. Contract!ComeUp
    BY <1>2, <2>1 DEF Spawn, loopVars, IInv, LoopInv, Contract!ComeUp
  <2>3. QED
    BY <2>2 DEF Contract!Next
<1>3. CASE ProgramNotFound
  <2>1. alive = {}
    BY <1>3 DEF ProgramNotFound, IInv, TypeOK, ProcessesOK, LoopInv, ProcessInv, Current
  <2>2. Contract!GiveUp
    BY <1>3, <2>1 DEF ProgramNotFound, GiveUp, osVars, IInv, LoopInv, Contract!GiveUp
  <2>3. QED
    BY <2>2 DEF Contract!Next
<1>4. ASSUME NEW p \in alive, ProcessDies(p) \/ \E success \in BOOLEAN : ProcessExits(p, success)
      PROVE  Contract!Next
  <2>1. alive' = {}
    BY <1>4 DEF ProcessDies, ProcessExits, IInv, ProcessInv
  <2>2. Contract!GoDown
    BY <1>4, <2>1 DEF ProcessDies, ProcessExits, loopVars, attemptVars, Contract!GoDown
  <2>3. QED
    BY <2>2 DEF Contract!Next
<1>5. ASSUME NEW c \in Clients, Take(c)
      PROVE  Contract!Next
  <2>1. \A d \in Clients : req[d].st # "accepted"
    BY <1>5 DEF Take, TakeStart, TakeStop, TakeRestart, TakeStatus, Receive, IInv, CallInv,
       AcceptedIsServed
  <2>2. Contract!Accept(c)
    BY <1>5, <2>1 DEF Take, TakeStart, TakeStop, TakeRestart, TakeStatus, Receive, Want, Disarm,
       attemptVars, osVars, Contract!Accept
  <2>3. QED
    BY <2>2 DEF Contract!Next
<1>6. CASE Reply
  <2>1. serving \in Clients /\ req[serving].st = "accepted" /\ req[serving].kind = why
    BY <1>6 DEF Reply, IInv, CallInv, AcceptedIsServed
  <2>2. cmd \in 0..attempt
    BY DEF IInv, TypeOK, ProcessesOK
  <2>3. why = "stop" => ~desired /\ alive = {} /\ cmd = 0
    BY <1>6 DEF Reply, IInv, TypeOK, ProcessesOK, LoopInv, ProcessInv, Current
  <2>4. why = "restart" => (cmd = 0 \/ cmd > req[serving].seen) /\ attempt > req[serving].seen
    BY <1>6 DEF Reply, IInv, LoopInv, FreshInv
  <2>5. Contract!Answer(serving)
    BY <1>6, <2>1, <2>2, <2>3, <2>4 DEF Reply, loopVars, attemptVars, osVars, Contract!Answer
  <2>6. QED
    BY <2>1, <2>5 DEF Contract!Next
<1>7. ASSUME NEW c \in Clients, Caller(c)
      PROVE  Contract!Next
  <2>1. CASE TimeOut(c)
    BY <2>1 DEF TimeOut, Offered, loopVars, attemptVars, osVars, Contract!Next, Contract!Refuse
  <2>2. CASE Return(c)
    BY <2>2 DEF Return, NoCall, loopVars, attemptVars, osVars, Contract!Next, Contract!Return,
       Contract!NoCall
  <2>3. ASSUME NEW k \in Kinds, Ask(c, k)
        PROVE  Contract!Next
    <3>1. Contract!Ask(c, k)
      BY <2>3 DEF Ask, NoCall, loopVars, attemptVars, osVars, Contract!Ask, Contract!NoCall
    <3>2. k \in Contract!Kinds
      BY <2>3 DEF Kinds, Contract!Kinds
    <3>3. QED
      BY <3>1, <3>2 DEF Contract!Next
  <2>4. QED
    BY <1>7, <2>1, <2>2, <2>3 DEF Caller
<1>8. CASE \/ PipeFails \/ StartFails \/ Assign \/ Kill \/ Reap \/ DrainStopped \/ AfterStop
           \/ HandleExit \/ Launch \/ TakeCancel \/ TakeBackoff \/ TakeExit \/ Cancel
           \/ (\E p \in exited : Report(p)) \/ UNCHANGED vars
  <2>1. UNCHANGED <<desired, alive, attempt, req>>
    BY <1>8 DEF PipeFails, StartFails, Assign, Kill, Reap, DrainStopped, AfterStop, HandleExit,
       Launch, TakeCancel, TakeBackoff, TakeExit, Cancel, Report, vars, loopVars, attemptVars, osVars
  <2>2. QED
    BY <2>1 DEF Contract!vars
<1>9. QED
  BY <1>1, <1>2, <1>3, <1>4, <1>5, <1>6, <1>7, <1>8 DEF Next, Work

\* Callers cannot tell runService from the contract.
THEOREM Implements == Spec => ImplementsContract
PROOF
<1>1. IInv /\ [Next]_vars => [Contract!Next]_(Contract!vars)
  BY StepRefines
<1>2. QED
  BY Invariance, InitRefines, <1>1, PTL DEF Spec, ImplementsContract, Contract!Spec
=============================================================================
