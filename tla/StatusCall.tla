------------------------------ MODULE StatusCall ------------------------------
(***************************************************************************)
(* Supervisor.Status: one goroutine per registered service asks that       *)
(* service's loop for a snapshot, each with the timeout of send, while     *)
(* other callers keep the loops busy -- or a loop has ended -- and the     *)
(* caller waits for all of them.                                           *)
(*                                                                         *)
(* Service.tla has the loop and send in detail; here a loop is idle in its *)
(* select, replying to a status message, busy with another one, or over.   *)
(* Time passes in ticks: what a goroutine of Status can do at once it does *)
(* before the next tick; a busy loop takes as long as it likes.            *)
(***************************************************************************)
EXTENDS Integers, Sequences

CONSTANTS
    Callers,      \* goroutines that call Status: MCP requests, the console
    Services,     \* names of services
    Orders,       \* in which order AddService was called
    CtrlTimeout,  \* ctrlTimeout, in ticks
    MaxCalls,     \* bound: calls of Status in a behaviour
    MaxChanges    \* bound: other control messages in a behaviour

ASSUME StatusAssumption ==
    /\ Orders \subseteq Seq(Services)
    /\ CtrlTimeout \in Nat \ {0} /\ MaxCalls \in Nat /\ MaxChanges \in Nat

VARIABLES
    order,    \* s.order, which never changes after Start
    loop,     \* each service's loop: "idle", "replies", "busy" or "over"
    version,  \* how often the state that its snapshot shows has changed
    changes,  \* counter of MaxChanges
    calls,    \* counter of MaxCalls
    elapsed,  \* ticks a caller is in Status for, -1 = it is not
    asker,    \* its goroutine for each position: "new", "offers", "accepted", "done"
    age,      \* ticks that goroutine has been offering its message for
    out,      \* out[i]
    began     \* the versions when its call began

loopVars == <<order, loop, version, changes>>
callVars == <<calls, elapsed, asker, age, out, began>>
vars == <<loopVars, callVars>>

Positions == 1..Len(order)
In(c) == elapsed[c] >= 0

\* A result: the service it names and the version it shows.
Answer(name, v) == [name |-> name, version |-> v, unresponsive |-> FALSE]
Unresponsive(name) == [name |-> name, version |-> 0, unresponsive |-> TRUE]
NoResult == Answer("", 0)
NoResults == [i \in Positions |-> NoResult]
NoVersions == [s \in Services |-> 0]

Init ==
    /\ order \in Orders
    /\ loop = [s \in Services |-> "idle"] /\ version = NoVersions
    /\ changes = 0 /\ calls = 0
    /\ elapsed = [c \in Callers |-> -1]
    /\ asker = [c \in Callers |-> [i \in Positions |-> "done"]]
    /\ age = [c \in Callers |-> [i \in Positions |-> 0]]
    /\ out = [c \in Callers |-> NoResults]
    /\ began = [c \in Callers |-> NoVersions]

-----------------------------------------------------------------------------
(* The loops and the messages of others. *)

\* A start, stop or restart is received, ...
GetsBusy(s) ==
    /\ loop[s] = "idle" /\ changes < MaxChanges
    /\ changes' = changes + 1
    /\ loop' = [loop EXCEPT ![s] = "busy"]
    /\ UNCHANGED <<order, version, callVars>>

\* ... carried out and answered.
GetsIdle(s) ==
    /\ loop[s] = "busy"
    /\ loop' = [loop EXCEPT ![s] = "idle"]
    /\ version' = [version EXCEPT ![s] = @ + 1]
    /\ UNCHANGED <<order, changes, callVars>>

\* The launcher's context was cancelled.
LoopEnds(s) ==
    /\ loop[s] = "idle"
    /\ loop' = [loop EXCEPT ![s] = "over"]
    /\ UNCHANGED <<order, version, changes, callVars>>

-----------------------------------------------------------------------------
(* Status. *)

\* The goroutines are started.
Call(c) ==
    /\ ~In(c) /\ calls < MaxCalls
    /\ calls' = calls + 1
    /\ elapsed' = [elapsed EXCEPT ![c] = 0]
    /\ asker' = [asker EXCEPT ![c] = [i \in Positions |-> "new"]]
    /\ began' = [began EXCEPT ![c] = version]
    /\ UNCHANGED <<loopVars, age, out>>

\* mutant: the services are asked one after the other.
OneByOne(c, i) == In(c) /\ \A j \in 1..(i - 1) : asker[c][j] = "done"

MayAsk(c, i) == In(c)

\* send looks up the service and offers its message.
Offer(c, i) ==
    /\ asker[c][i] = "new" /\ MayAsk(c, i)
    /\ asker' = [asker EXCEPT ![c][i] = "offers"]
    /\ UNCHANGED <<loopVars, calls, elapsed, age, out, began>>

\* The loop is in its select and receives it.
Accept(c, i) ==
    /\ asker[c][i] = "offers" /\ loop[order[i]] = "idle"
    /\ asker' = [asker EXCEPT ![c][i] = "accepted"]
    /\ loop' = [loop EXCEPT ![order[i]] = "replies"]
    /\ UNCHANGED <<order, version, changes, calls, elapsed, age, out, began>>

\* mutant: results are collected in the order they come in.
PutNext(c, i, r) ==
    LET free == CHOOSE j \in Positions : out[c][j] = NoResult
    IN out' = [out EXCEPT ![c][free] = r]

Put(c, i, r) == out' = [out EXCEPT ![c][i] = r]

\* The snapshot is sent, received and stored.
Reply(c, i) ==
    /\ asker[c][i] = "accepted"
    /\ asker' = [asker EXCEPT ![c][i] = "done"]
    /\ Put(c, i, Answer(order[i], version[order[i]]))
    /\ loop' = [loop EXCEPT ![order[i]] = "idle"]
    /\ UNCHANGED <<order, version, changes, calls, elapsed, age, began>>

Due(c, i) == age[c][i] = CtrlTimeout

\* time.After(s.ctrlTimeout): not dropped, but reported as unresponsive.
TimeOut(c, i) ==
    /\ asker[c][i] = "offers" /\ Due(c, i)
    /\ asker' = [asker EXCEPT ![c][i] = "done"]
    /\ Put(c, i, Unresponsive(order[i]))
    /\ UNCHANGED <<loopVars, calls, elapsed, age, began>>

AllDone(c) == \A i \in Positions : asker[c][i] = "done"

\* wg.Wait
Return(c) ==
    /\ In(c) /\ AllDone(c)
    /\ elapsed' = [elapsed EXCEPT ![c] = -1]
    /\ out' = [out EXCEPT ![c] = NoResults] /\ began' = [began EXCEPT ![c] = NoVersions]
    /\ age' = [age EXCEPT ![c] = [i \in Positions |-> 0]]
    /\ UNCHANGED <<loopVars, calls, asker>>

-----------------------------------------------------------------------------

Step(c, i) == Offer(c, i) \/ Accept(c, i) \/ Reply(c, i) \/ TimeOut(c, i)

\* A goroutine of Status that need not wait.
Prompt(c) ==
    \/ In(c) /\ AllDone(c)
    \/ \E i \in Positions :
          \/ asker[c][i] = "new" /\ MayAsk(c, i)
          \/ asker[c][i] = "accepted"
          \/ asker[c][i] = "offers" /\ (loop[order[i]] = "idle" \/ age[c][i] = CtrlTimeout)

\* Time passes while somebody waits.
Tick ==
    /\ \E c \in Callers : In(c)
    /\ \A c \in Callers : ~Prompt(c)
    /\ elapsed' = [c \in Callers |-> IF In(c) THEN elapsed[c] + 1 ELSE -1]
    /\ age' = [c \in Callers |-> [i \in Positions |->
                 IF asker[c][i] = "offers" THEN age[c][i] + 1 ELSE age[c][i]]]
    /\ UNCHANGED <<loopVars, calls, asker, out, began>>

Next ==
    \/ \E s \in Services : GetsBusy(s) \/ GetsIdle(s) \/ LoopEnds(s)
    \/ \E c \in Callers : Call(c) \/ Return(c) \/ \E i \in Positions : Step(c, i)
    \/ Tick

Spec == Init /\ [][Next]_vars

-----------------------------------------------------------------------------
(* Correctness. *)

\* "A service whose control loop does not answer is reported as unresponsive rather
\* than dropped" (supervisor.go:198), "in registration order": when Status returns,
\* position i names the i-th service, and shows a state that service was in during
\* the call or says that it is unresponsive.
StatusIsComplete ==
    [][\A c \in Callers : Return(c) =>
          \A i \in Positions :
             /\ out[c][i].name = order[i]
             /\ \/ out[c][i].unresponsive
                \/ out[c][i].version \in began[c][order[i]]..version[order[i]]]_vars

\* "one blocked loop does not add its timeout to every other one" (supervisor.go:200):
\* no call of Status takes longer than one timeout, however many loops are blocked.
OneTimeout == \A c \in Callers : elapsed[c] <= CtrlTimeout
=============================================================================
