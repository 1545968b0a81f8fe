------------------------------- MODULE Service -------------------------------
(***************************************************************************)
(* One supervised service: the lifecycle loop runService, the callers of   *)
(* send, the operating-system processes the loop starts and the goroutines *)
(* that wait for them.                                                     *)
(*                                                                         *)
(* The loop owns its state (desired, restarts, backoff, cmd).  It blocks   *)
(* in one select (pc = "idle") and everything it does after that -- start, *)
(* stop, draining the output pipes -- runs to the end before it looks at   *)
(* its channels again, while processes die and callers give up around it.  *)
(***************************************************************************)
EXTENDS Integers, FiniteSets

CONSTANTS
    Clients,      \* goroutines that call StartService, StopService, ...
    NoClient,     \* "no message is being handled"
    Policy,       \* spec.Restart
    MaxRestarts,  \* spec.MaxRestarts, 0 = unlimited
    Autostart,    \* spec.Autostart
    StartDelay,   \* spec.StartDelay > 0
    Foreground,   \* spec.Foreground: no pipes of our own
    MaxRequests,  \* bound: calls of send in a behaviour
    MaxFaults     \* bound: failed starts and spontaneous exits in a behaviour

Kinds == {"start", "stop", "restart", "status"}

ASSUME ServiceAssumption ==
    /\ NoClient \notin Clients
    /\ Policy \in {"never", "on-failure", "always"}
    /\ MaxRestarts \in Nat
    /\ Autostart \in BOOLEAN /\ StartDelay \in BOOLEAN /\ Foreground \in BOOLEAN
    /\ MaxRequests \in Nat /\ MaxFaults \in Nat

VARIABLES
    pc,        \* where the loop goroutine is
    why,       \* the select case it is handling
    serving,   \* the caller whose message it is handling
    desired, restarts, backoff,   \* backoff: a timer is armed
    cmd,       \* the process instance the loop holds, 0 = nil
    attempt,   \* number of calls of start so far; an instance is named by its call
    outcome,   \* what became of the latest call
    onExits,   \* OnExit goroutines started on account of the latest call
    alive,     \* running processes
    killed,    \* running processes that were sent the kill
    exited,    \* dead processes whose Wait has not been posted to waitCh yet
    reported,  \* exits posted to a waitCh and not received
    clean,     \* exited or reported or being handled, with exit code 0
    ctxDone,   \* the launcher's context is cancelled
    req,       \* the call of send each client is in
    requests, faults   \* counters of MaxRequests, MaxFaults

loopVars == <<desired, restarts, backoff, cmd>>
attemptVars == <<attempt, outcome, onExits>>
osVars == <<alive, killed, exited, reported, clean>>
vars == <<pc, why, serving, loopVars, attemptVars, osVars, ctxDone, req, requests, faults>>

Outcomes == {"none", "pending", "up", "pipeFailed", "notFound", "startError",
             "crashed", "finished", "stopped"}
Cases == {"none", "init", "backoff", "exit", "cancel"} \cup Kinds
PCs == {"unstarted", "idle", "start", "prestart", "assign", "kill", "reap",
        "drain", "stopped", "reply", "done"}

\* No call in progress.
NoCall == [st |-> "none", kind |-> "status", seen |-> 0, pid |-> 0, desired |-> FALSE]

Init ==
    /\ pc = "unstarted" /\ why = "none" /\ serving = NoClient
    /\ desired = Autostart /\ restarts = 0 /\ backoff = FALSE /\ cmd = 0
    /\ attempt = 0 /\ outcome = "none" /\ onExits = 0
    /\ alive = {} /\ killed = {} /\ exited = {} /\ reported = {} /\ clean = {}
    /\ ctxDone = FALSE
    /\ req = [c \in Clients |-> NoCall]
    /\ requests = 0 /\ faults = 0

-----------------------------------------------------------------------------
(* The restart decision.  Definitions marked "mutant" are not part of the model:     *)
(* each is the definition after it with a plausible bug, and breaks a property.      *)

ShouldRestart(success) ==
    /\ Policy = "always" \/ (Policy = "on-failure" /\ ~success)
    /\ MaxRestarts > 0 => restarts < MaxRestarts

\* mutant: an end that will be retried is reported as well.
RetryAndReport(success, told) ==
    /\ onExits' = onExits + (IF told THEN 1 ELSE 0)
    /\ IF desired /\ ShouldRestart(success)
       THEN restarts' = restarts + 1 /\ backoff' = TRUE
       ELSE UNCHANGED <<restarts, backoff>>

\* mutant: only a successful end is reported.
RetryOrReportSuccess(success, told) ==
    IF desired /\ ShouldRestart(success)
    THEN restarts' = restarts + 1 /\ backoff' = TRUE /\ UNCHANGED onExits
    ELSE /\ onExits' = onExits + (IF told /\ success THEN 1 ELSE 0)
         /\ UNCHANGED <<restarts, backoff>>

\* mutant: the retry is counted and its timer is not armed.
RetryOrReportUnarmed(success, told) ==
    IF desired /\ ShouldRestart(success)
    THEN restarts' = restarts + 1 /\ UNCHANGED <<backoff, onExits>>
    ELSE /\ onExits' = onExits + (IF told THEN 1 ELSE 0)
         /\ UNCHANGED <<restarts, backoff>>

\* A start that failed or a process that ended unasked: another one after a
\* delay, or (told) the news that there will be none.
RetryOrReport(success, told) ==
    IF desired /\ ShouldRestart(success)
    THEN restarts' = restarts + 1 /\ backoff' = TRUE /\ UNCHANGED onExits
    ELSE /\ onExits' = onExits + (IF told THEN 1 ELSE 0)
         /\ UNCHANGED <<restarts, backoff>>

-----------------------------------------------------------------------------
(* start() *)

\* start() returns to the message that called it, or to the select.
ReturnFromStart == pc' = IF why \in {"start", "restart"} THEN "reply" ELSE "idle"

NewInstance == attempt' = attempt + 1

\* start() is entered and runs PreStart.
BeginStart ==
    /\ pc = "start" /\ pc' = "prestart"
    /\ NewInstance /\ outcome' = "pending" /\ onExits' = 0
    /\ UNCHANGED <<why, serving, loopVars, osVars, ctxDone, req, requests, faults>>

Fault == faults < MaxFaults /\ faults' = faults + 1

PipeFails ==
    /\ pc = "prestart" /\ ~Foreground /\ Fault
    /\ outcome' = "pipeFailed" /\ onExits' = onExits + 1
    /\ ReturnFromStart
    /\ UNCHANGED <<why, serving, loopVars, attempt, osVars, ctxDone, req, requests>>

\* mutant: isNotFound is not asked.
RetryMissing == RetryOrReport(FALSE, TRUE) /\ UNCHANGED desired

\* Retries would be pointless: report, and do not want the service any more.
GiveUp == onExits' = onExits + 1 /\ desired' = FALSE /\ UNCHANGED <<restarts, backoff>>

ProgramNotFound ==
    /\ pc = "prestart" /\ Fault
    /\ outcome' = "notFound" /\ GiveUp
    /\ ReturnFromStart
    /\ UNCHANGED <<why, serving, cmd, attempt, osVars, ctxDone, req, requests>>

StartFails ==
    /\ pc = "prestart" /\ Fault
    /\ outcome' = "startError" /\ RetryOrReport(FALSE, TRUE)
    /\ ReturnFromStart
    /\ UNCHANGED <<why, serving, desired, cmd, attempt, osVars, ctxDone, req, requests>>

Spawn ==
    /\ pc = "prestart" /\ pc' = "assign"
    /\ alive' = alive \cup {attempt} /\ outcome' = "up"
    /\ UNCHANGED <<why, serving, loopVars, attempt, onExits, killed, exited, reported, clean,
                   ctxDone, req, requests, faults>>

\* The job takes the process (or fails to, which is only logged), the drain and
\* wait goroutines start, and the loop holds the instance.
Assign ==
    /\ pc = "assign" /\ cmd' = attempt
    /\ ReturnFromStart
    /\ UNCHANGED <<why, serving, desired, restarts, backoff, attemptVars, osVars, ctxDone,
                   req, requests, faults>>

-----------------------------------------------------------------------------
(* stop() *)

\* stop() is called by select case w: nothing to do when no process is held.
EnterStop(w) == why' = w /\ pc' = IF cmd = 0 THEN "stopped" ELSE "kill"

\* Closing the job and killing the direct child.
Kill ==
    /\ pc = "kill" /\ pc' = "reap"
    /\ killed' = killed \cup ({cmd} \cap alive)
    /\ UNCHANGED <<why, serving, loopVars, attemptVars, alive, exited, reported, clean,
                   ctxDone, req, requests, faults>>

\* mutant: stop() does not wait for the exit.
NotWaited == TRUE

\* <-waitCh
Waited == cmd \in reported

Reap ==
    /\ pc = "reap" /\ Waited /\ pc' = "drain"
    /\ reported' = reported \ {cmd}
    /\ UNCHANGED <<why, serving, loopVars, attemptVars, alive, killed, exited, clean,
                   ctxDone, req, requests, faults>>

\* The pipes are drained (or the drain timed out) and the instance is dropped.
DrainStopped ==
    /\ pc = "drain" /\ why # "exit" /\ pc' = "stopped"
    /\ cmd' = 0 /\ outcome' = "stopped" /\ clean' = clean \ {cmd}
    /\ UNCHANGED <<why, serving, desired, restarts, backoff, attempt, onExits, alive, killed,
                   exited, reported, ctxDone, req, requests, faults>>

\* mutant: a stop is not answered.
NextUnanswered == CASE why = "cancel" -> "done" [] why = "restart" -> "start" [] OTHER -> "idle"

\* mutant: a break that leaves the select and not the loop.
NextBreak == CASE why = "cancel" -> "idle" [] why = "restart" -> "start" [] OTHER -> "reply"

NextAfterStop == CASE why = "cancel" -> "done" [] why = "restart" -> "start" [] OTHER -> "reply"

\* stop() returned to the select case that called it.
AfterStop ==
    /\ pc = "stopped" /\ pc' = NextAfterStop
    /\ UNCHANGED <<why, serving, loopVars, attemptVars, osVars, ctxDone, req, requests, faults>>

-----------------------------------------------------------------------------
(* The select. *)

\* Supervisor.Start: the goroutine begins with the initial, maybe delayed, start.
Launch ==
    /\ pc = "unstarted"
    /\ backoff' = (desired /\ StartDelay)
    /\ pc' = IF desired /\ ~StartDelay THEN "start" ELSE "idle"
    /\ why' = IF desired /\ ~StartDelay THEN "init" ELSE why
    /\ UNCHANGED <<serving, desired, restarts, cmd, attemptVars, osVars, ctxDone, req,
                   requests, faults>>

TakeCancel ==
    /\ pc = "idle" /\ ctxDone
    /\ EnterStop("cancel")
    /\ UNCHANGED <<serving, loopVars, attemptVars, osVars, ctxDone, req, requests, faults>>

TakeBackoff ==
    /\ pc = "idle" /\ backoff
    /\ backoff' = FALSE
    /\ pc' = IF desired /\ cmd = 0 THEN "start" ELSE "idle"
    /\ why' = "backoff"
    /\ UNCHANGED <<serving, desired, restarts, cmd, attemptVars, osVars, ctxDone, req,
                   requests, faults>>

\* The process exited on its own: close the job, then drain.
TakeExit ==
    /\ pc = "idle" /\ cmd \in reported
    /\ pc' = "drain" /\ why' = "exit"
    /\ reported' = reported \ {cmd}
    /\ UNCHANGED <<serving, loopVars, attemptVars, alive, killed, exited, clean, ctxDone,
                   req, requests, faults>>

\* ... and decide what comes of it.
HandleExit ==
    /\ pc = "drain" /\ why = "exit" /\ pc' = "idle"
    /\ cmd' = 0 /\ clean' = clean \ {cmd}
    /\ outcome' = IF cmd \in clean THEN "finished" ELSE "crashed"
    /\ RetryOrReport(cmd \in clean, desired)
    /\ UNCHANGED <<why, serving, desired, attempt, alive, killed, exited, reported, ctxDone,
                   req, requests, faults>>

\* A message of kind k from client c is received on svc.ctrl.
Receive(c, k) ==
    /\ pc = "idle" /\ req[c].st = "offered" /\ req[c].kind = k
    /\ req' = [req EXCEPT ![c].st = "accepted"]
    /\ serving' = c
    /\ UNCHANGED <<cmd, attemptVars, osVars, ctxDone, requests, faults>>

\* backoff = nil
Disarm == backoff' = FALSE

Want == desired' = TRUE

\* mutant: start does not look whether a process is there.
StartAnyway == pc' = "start"

StartUnlessHeld == pc' = IF cmd = 0 THEN "start" ELSE "reply"

TakeStart(c) ==
    /\ Receive(c, "start")
    /\ Want /\ restarts' = 0 /\ Disarm
    /\ why' = "start" /\ StartUnlessHeld

TakeStop(c) ==
    /\ Receive(c, "stop")
    /\ desired' = FALSE /\ Disarm /\ UNCHANGED restarts
    /\ EnterStop("stop")

TakeRestart(c) ==
    /\ Receive(c, "restart")
    /\ Want /\ restarts' = 0 /\ Disarm
    /\ EnterStop("restart")

TakeStatus(c) ==
    /\ Receive(c, "status")
    /\ why' = "status" /\ pc' = "reply"
    /\ UNCHANGED <<desired, restarts, backoff>>

\* msg.reply <- snapshot(): the channel holds one answer, so this never blocks.
Reply ==
    /\ pc = "reply" /\ pc' = "idle"
    /\ req' = [req EXCEPT ![serving] = [@ EXCEPT !.st = "answered", !.pid = cmd,
                                                 !.desired = desired]]
    /\ serving' = NoClient
    /\ UNCHANGED <<why, loopVars, attemptVars, osVars, ctxDone, requests, faults>>

-----------------------------------------------------------------------------
(* Processes and their wait goroutines. *)

\* A process ends by itself, with exit code 0 or not.
ProcessExits(p, success) ==
    /\ p \in alive \ killed /\ Fault
    /\ alive' = alive \ {p} /\ exited' = exited \cup {p}
    /\ clean' = IF success THEN clean \cup {p} ELSE clean
    /\ UNCHANGED <<pc, why, serving, loopVars, attemptVars, killed, reported, ctxDone, req,
                   requests>>

ProcessDies(p) ==
    /\ p \in alive \cap killed
    /\ alive' = alive \ {p} /\ killed' = killed \ {p} /\ exited' = exited \cup {p}
    /\ UNCHANGED <<pc, why, serving, loopVars, attemptVars, reported, clean, ctxDone, req,
                   requests, faults>>

\* go func() { wc <- c.Wait() }(): started once the process is in its job.
Report(p) ==
    /\ p \in exited /\ ~(pc = "assign" /\ p = attempt)
    /\ exited' = exited \ {p} /\ reported' = reported \cup {p}
    /\ UNCHANGED <<pc, why, serving, loopVars, attemptVars, alive, killed, clean, ctxDone, req,
                   requests, faults>>

-----------------------------------------------------------------------------
(* Callers of send, and the launcher's context. *)

Ask(c, k) ==
    /\ req[c].st = "none" /\ requests < MaxRequests
    /\ requests' = requests + 1
    /\ req' = [req EXCEPT ![c] = [NoCall EXCEPT !.st = "offered", !.kind = k,
                                                !.seen = attempt]]
    /\ UNCHANGED <<pc, why, serving, loopVars, attemptVars, osVars, ctxDone, faults>>

\* mutant: the timeout covers the answer too.
OfferedOrAccepted(c) == req[c].st \in {"offered", "accepted"}

Offered(c) == req[c].st = "offered"

\* ctrlTimeout passed before the loop received the message.
TimeOut(c) ==
    /\ Offered(c)
    /\ req' = [req EXCEPT ![c].st = "refused"]
    /\ UNCHANGED <<pc, why, serving, loopVars, attemptVars, osVars, ctxDone, requests, faults>>

\* send has returned.
Return(c) ==
    /\ req[c].st \in {"answered", "refused"}
    /\ req' = [req EXCEPT ![c] = NoCall]
    /\ UNCHANGED <<pc, why, serving, loopVars, attemptVars, osVars, ctxDone, requests, faults>>

Cancel ==
    /\ ~ctxDone /\ ctxDone' = TRUE
    /\ UNCHANGED <<pc, why, serving, loopVars, attemptVars, osVars, req, requests, faults>>

-----------------------------------------------------------------------------
\* What the loop does between two selects.
Work ==
    \/ BeginStart \/ PipeFails \/ ProgramNotFound \/ StartFails \/ Spawn \/ Assign
    \/ Kill \/ Reap \/ DrainStopped \/ AfterStop \/ HandleExit \/ Reply

Take(c) == TakeStart(c) \/ TakeStop(c) \/ TakeRestart(c) \/ TakeStatus(c)

Caller(c) == TimeOut(c) \/ Return(c) \/ \E k \in Kinds : Ask(c, k)

Next ==
    \/ Work \/ Launch \/ TakeCancel \/ TakeBackoff \/ TakeExit \/ Cancel
    \/ \E c \in Clients : Take(c) \/ Caller(c)
    \/ \E p \in alive, success \in BOOLEAN : ProcessExits(p, success)
    \/ \E p \in alive : ProcessDies(p)
    \/ \E p \in exited : Report(p)

Spec == Init /\ [][Next]_vars

\* The loop goroutine runs when it can; its select picks a ready case at random,
\* so a case that is ready again and again is picked; killed processes die; timers
\* fire.  Nothing makes a caller call, a process exit or the launcher stop.
Fairness ==
    /\ WF_vars(Work)
    /\ SF_vars(TakeCancel) /\ SF_vars(TakeBackoff) /\ SF_vars(TakeExit)
    /\ WF_vars(\E p \in alive : ProcessDies(p))
    /\ WF_vars(\E p \in exited : Report(p))
    /\ \A c \in Clients : WF_vars(TimeOut(c))

FairSpec == Spec /\ Fairness

-----------------------------------------------------------------------------
(* Correctness. *)

\* Type invariant.
Call == [st : {"none", "offered", "accepted", "answered", "refused"}, kind : Kinds,
         seen : Nat, pid : Nat, desired : BOOLEAN]

LoopOK ==
    /\ pc \in PCs /\ why \in Cases /\ serving \in Clients \cup {NoClient}
    /\ outcome \in Outcomes /\ onExits \in Nat /\ restarts \in Nat
    /\ requests \in Nat /\ faults \in Nat

FlagsOK == desired \in BOOLEAN /\ backoff \in BOOLEAN /\ ctxDone \in BOOLEAN

ProcessesOK ==
    /\ attempt \in Nat /\ cmd \in 0..attempt
    /\ pc \in {"prestart", "assign"} => attempt > 0
    /\ alive \in SUBSET (1..attempt) /\ killed \in SUBSET (1..attempt)
    /\ exited \in SUBSET (1..attempt) /\ reported \in SUBSET (1..attempt)
    /\ clean \in SUBSET (1..attempt)

CallsOK == req \in [Clients -> Call]

TypeOK == LoopOK /\ FlagsOK /\ ProcessesOK /\ CallsOK

\* Whatever callers, exits and failed starts do, there is never a second process
\* of the service (two editors on one project): start() is only reached when the
\* previous instance is gone.
AtMostOneProcess == \A p, q \in alive : p = q

\* A process that runs is one the loop can still stop: it holds it, or is about to
\* (the window between c.Start and the assignment of cmd).
NoProcessLost == \A p \in alive : p = cmd \/ (pc = "assign" /\ p = attempt)

\* No wanted service is down without anybody knowing: when the loop waits with no
\* process and no timer, OnExit has been called for the latest start.
NoSilentDeath ==
    pc = "idle" /\ desired /\ cmd = 0 /\ ~backoff => onExits = 1

\* An end is reported at most once, only when it is final (no retry is pending, no
\* process is held), and never when the user asked for it.
OnExitOnce ==
    /\ onExits <= 1
    /\ onExits = 1 => ~backoff /\ cmd = 0
                      /\ outcome \in {"pipeFailed", "notFound", "startError",
                                       "crashed", "finished"}

\* Automatic restarts never exceed MaxRestarts since the last manual (re)start.
RestartBudget == MaxRestarts > 0 => restarts <= MaxRestarts

\* An armed timer belongs to a wanted service without a process: every manual
\* command disarms it, so that it cannot revive a service that was stopped.
TimerOnlyWhenWanted == backoff => desired /\ cmd = 0

\* "start is only ever called while the service is desired" (supervisor.go:357).
StartOnlyWhenDesired == pc \in {"start", "prestart", "assign"} => desired /\ cmd = 0

\* A message that was received is the one being handled: it cannot be forgotten,
\* and its caller, who waits without a timeout, cannot be left waiting.
AcceptedIsServed ==
    \A c \in Clients : req[c].st = "accepted" =>
        serving = c /\ pc \notin {"unstarted", "idle", "done"} /\ why = req[c].kind

\* The process a restart reports is one that was started for it.
RestartIsFresh ==
    \A c \in Clients : req[c].st = "answered" /\ req[c].kind = "restart" =>
        req[c].pid = 0 \/ req[c].pid > req[c].seen

\* When the loop has ended, no process of it is left.
NothingOutlivesLoop == pc = "done" => alive = {} /\ cmd = 0

\* When stop returns to its caller the process is dead, not merely signalled.
StopIsComplete ==
    [][ \A c \in Clients :
          req[c].kind = "stop" /\ req[c].st = "accepted" /\ req'[c].st = "answered"
              => alive = {} /\ exited = {} /\ req'[c].pid = 0 /\ ~req'[c].desired ]_vars

\* A timer starts the first process, or replaces one that ended in a way the
\* policy restarts; never one that was stopped, was not found or had no pipes.
AutoRestartFollowsPolicy ==
    [][ pc = "start" /\ pc' = "prestart" /\ why = "backoff" /\ attempt > 0 =>
          \/ Policy # "never" /\ outcome \in {"startError", "crashed"}
          \/ Policy = "always" /\ outcome = "finished" ]_vars

\* Every call of send returns: with a timeout, or with the answer it waits for
\* without one.
EverySendReturns ==
    \A c \in Clients : req[c].st = "offered" ~> req[c].st \in {"answered", "refused"}

\* A cancelled context ends a loop that runs.
CancelEndsLoop == ctxDone /\ pc # "unstarted" ~> pc = "done"

\* A wanted service is brought up, or its end is reported: no retry is forgotten.
WantedIsServed ==
    desired /\ pc # "unstarted" ~> cmd # 0 \/ onExits = 1 \/ ~desired \/ pc = "done"

-----------------------------------------------------------------------------
(* The loop implements the contract of the service. *)
Contract == INSTANCE ServiceContract
    WITH wanted <- desired, up <- alive # {}, gen <- attempt, call <- req

\* Every step of the loop, its callers and its processes is a step the contract
\* allows: callers cannot tell the loop from an object that handles one request
\* at a time.
ImplementsContract == Contract!Spec
=============================================================================
