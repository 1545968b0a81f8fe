------------------------------ MODULE AgentExit ------------------------------
(***************************************************************************)
(* What happens when the agent ends for good: the OnExit callback of the   *)
(* agent service (makeAgentExitHandler), its prompt on the console, the    *)
(* launcher's command loop and the end of run().                           *)
(*                                                                         *)
(* Service.tla says when OnExit is called; here an end that is not         *)
(* followed by an automatic restart is one step.  A callback runs in a     *)
(* goroutine of its own, named by the end it was called for, and every     *)
(* goroutine that scans os.Stdin may be the one that gets the next line.   *)
(***************************************************************************)
EXTENDS Integers, FiniteSets

CONSTANTS
    Policies,      \* values of agent.onExit
    Modes,         \* "foreground" (the agent inherits the console), "headless"
    StdinMayEnd,   \* a read of stdin may report end of file
    MaxEnds        \* bound: ends of the agent that are reported

ASSUME AgentExitAssumption ==
    /\ Policies \subseteq {"ask", "shutdown", "leave"}
    /\ Modes \subseteq {"foreground", "headless"}
    /\ StdinMayEnd \in BOOLEAN
    /\ MaxEnds \in Nat

Calls == 1..MaxEnds
\* A line from the console ("else": any other line), or the end of it.
Inputs == {"k", "r", "q", "start agent", "stop agent", "else"}
             \cup (IF StdinMayEnd THEN {"EOF"} ELSE {})

VARIABLES
    onExit, interactive,   \* the configuration, which never changes
    agent,     \* "up" (automatic restarts included), "ended" for good, "stopped" on request
    ends,      \* ends reported so far
    handler,   \* where the callback for each of them is
    scanner,   \* the goroutine reading the answer to its prompt
    answer,    \* ch: what that goroutine read
    cmdLoopRunning,
    loops,     \* command loops that read stdin
    ctxDone,   \* the launcher's context is cancelled
    main       \* run(): "waits" for the context, or is "over" with the process

conf == <<onExit, interactive>>
vars == <<conf, agent, ends, handler, scanner, answer, cmdLoopRunning, loops, ctxDone, main>>

\* mutant: the command loop is started whoever has the console.
LoopForAll == 1

\* The command loops that run() starts.
FirstLoops == IF interactive THEN 0 ELSE 1

Init ==
    /\ onExit \in Policies /\ interactive \in {m = "foreground" : m \in Modes}
    /\ agent = "up" /\ ends = 0
    /\ handler = [h \in Calls |-> "none"]
    /\ scanner = [h \in Calls |-> "none"]
    /\ answer = [h \in Calls |-> "none"]
    /\ cmdLoopRunning = FALSE
    /\ loops = FirstLoops
    /\ ctxDone = FALSE /\ main = "waits"

Running == main = "waits"

-----------------------------------------------------------------------------
(* The agent *)

\* The agent is not running and a goroutine is started to report it.
Ended ==
    /\ ends < MaxEnds /\ ends' = ends + 1
    /\ agent' = "ended"

AgentEnds ==
    /\ Running /\ agent = "up" /\ Ended
    /\ handler' = [handler EXCEPT ![ends + 1] = "begun"]
    /\ UNCHANGED <<conf, scanner, answer, cmdLoopRunning, loops, ctxDone, main>>

\* A restart, with the callbacks already changed to hs: a start that fails for
\* good is reported like an end.
BringUp(hs) ==
    \/ agent' = "up" /\ handler' = hs /\ UNCHANGED ends
    \/ Ended /\ handler' = [hs EXCEPT ![ends + 1] = "begun"]

\* StartService does nothing for an agent that runs.
StartAgent(hs) ==
    IF agent = "up" THEN handler' = hs /\ UNCHANGED <<agent, ends>> ELSE BringUp(hs)

-----------------------------------------------------------------------------
(* The callback *)

At(h, st) == Running /\ handler[h] = st
Over(h) == [handler EXCEPT ![h] = "over"]

\* mutant: a callback does not look whether the console runs already.
NeverBusy == FALSE

Busy == cmdLoopRunning

\* stop()
StopAll == ctxDone' = TRUE

\* The console runs already, or the configuration says to leave everything.
OnlyLog(h) ==
    /\ At(h, "begun")
    /\ Busy \/ onExit = "leave"
    /\ handler' = Over(h)
    /\ UNCHANGED <<conf, agent, ends, scanner, answer, cmdLoopRunning, loops, ctxDone, main>>

\* mutant: without a terminal the launcher just goes on.
SessionGoesOn(h) ==
    /\ At(h, "begun") /\ ~Busy
    /\ onExit = "shutdown" \/ (onExit = "ask" /\ ~interactive)
    /\ handler' = Over(h)
    /\ UNCHANGED <<conf, agent, ends, scanner, answer, cmdLoopRunning, loops, ctxDone, main>>

SessionOver(h) ==
    /\ At(h, "begun") /\ ~Busy
    /\ onExit = "shutdown" \/ (onExit = "ask" /\ ~interactive)
    /\ StopAll
    /\ handler' = Over(h)
    /\ UNCHANGED <<conf, agent, ends, scanner, answer, cmdLoopRunning, loops, main>>

\* mutant: it prompts without a terminal, too.
PromptAnyway(h) ==
    /\ At(h, "begun") /\ ~Busy /\ onExit = "ask"
    /\ handler' = [handler EXCEPT ![h] = "prompt"]
    /\ scanner' = [scanner EXCEPT ![h] = "reading"]
    /\ UNCHANGED <<conf, agent, ends, answer, cmdLoopRunning, loops, ctxDone, main>>

Prompt(h) ==
    /\ At(h, "begun") /\ ~Busy /\ onExit = "ask" /\ interactive
    /\ handler' = [handler EXCEPT ![h] = "prompt"]
    /\ scanner' = [scanner EXCEPT ![h] = "reading"]
    /\ UNCHANGED <<conf, agent, ends, answer, cmdLoopRunning, loops, ctxDone, main>>

\* The scanner goes on reading after its prompt timed out.
ScannerReads(h, in) ==
    /\ Running /\ scanner[h] = "reading"
    /\ scanner' = [scanner EXCEPT ![h] = "done"]
    /\ answer' = [answer EXCEPT ![h] = in]
    /\ UNCHANGED <<conf, agent, ends, handler, cmdLoopRunning, loops, ctxDone, main>>

\* The flag is set before the loop is started.
MarkConsole(h) ==
    /\ At(h, "prompt") /\ answer[h] = "k"
    /\ cmdLoopRunning' = TRUE
    /\ handler' = [handler EXCEPT ![h] = "console"]
    /\ UNCHANGED <<conf, agent, ends, scanner, answer, loops, ctxDone, main>>

OpenConsole(h) ==
    /\ At(h, "console")
    /\ loops' = loops + 1
    /\ handler' = Over(h)
    /\ UNCHANGED <<conf, agent, ends, scanner, answer, cmdLoopRunning, ctxDone, main>>

\* StartService fails when the agent's loop does not take the message in time.
RestartAgent(h) ==
    /\ At(h, "prompt") /\ answer[h] = "r"
    /\ \/ StartAgent(Over(h)) /\ UNCHANGED ctxDone
       \/ StopAll /\ handler' = Over(h) /\ UNCHANGED <<agent, ends>>
    /\ UNCHANGED <<conf, scanner, answer, cmdLoopRunning, loops, main>>

\* mutant: the prompt waits for an answer for ever.
PromptWaits(h) ==
    /\ At(h, "prompt") /\ answer[h] \notin {"none", "k", "r"}
    /\ StopAll
    /\ handler' = Over(h)
    /\ UNCHANGED <<conf, agent, ends, scanner, answer, cmdLoopRunning, loops, main>>

\* Any other answer, the end of stdin, or 30 seconds without an answer.
PromptStops(h) ==
    /\ At(h, "prompt") /\ answer[h] \notin {"k", "r"}
    /\ StopAll
    /\ handler' = Over(h)
    /\ UNCHANGED <<conf, agent, ends, scanner, answer, cmdLoopRunning, loops, main>>

\* The timer fires although an answer is there: the select may take either.
TimeOut(h) ==
    /\ At(h, "prompt") /\ answer[h] \in {"k", "r"}
    /\ StopAll
    /\ handler' = Over(h)
    /\ UNCHANGED <<conf, agent, ends, scanner, answer, cmdLoopRunning, loops, main>>

-----------------------------------------------------------------------------
(* The command loop *)

LoopReturns ==
    /\ loops' = loops - 1
    /\ UNCHANGED <<agent, ends, handler>>

LoopReads(in) ==
    /\ Running /\ loops > 0
    /\ \/ /\ ctxDone \/ in = "EOF"
          /\ LoopReturns /\ UNCHANGED ctxDone
       \/ ~ctxDone /\ in = "q" /\ StopAll /\ LoopReturns
       \/ ~ctxDone /\ in = "r" /\ BringUp(handler) /\ UNCHANGED <<loops, ctxDone>>
       \/ ~ctxDone /\ in = "start agent" /\ StartAgent(handler) /\ UNCHANGED <<loops, ctxDone>>
       \/ /\ ~ctxDone /\ in = "stop agent"
          /\ agent' = IF agent = "up" THEN "stopped" ELSE agent
          /\ UNCHANGED <<ends, handler, loops, ctxDone>>
       \* StartService and the like that time out, and every other command.
       \/ ~ctxDone /\ in \notin {"q", "EOF"} /\ UNCHANGED <<agent, ends, handler, loops, ctxDone>>
    /\ UNCHANGED <<conf, scanner, answer, cmdLoopRunning, main>>

-----------------------------------------------------------------------------
(* run() *)

Signal ==
    /\ Running /\ ~ctxDone /\ StopAll
    /\ UNCHANGED <<conf, agent, ends, handler, scanner, answer, cmdLoopRunning, loops, main>>

\* wg.Wait: every service's loop has ended and killed its process.
Exit ==
    /\ Running /\ ctxDone
    /\ main' = "over"
    /\ agent' = IF agent = "up" THEN "stopped" ELSE agent
    /\ UNCHANGED <<conf, ends, handler, scanner, answer, cmdLoopRunning, loops, ctxDone>>

-----------------------------------------------------------------------------

\* Everything that only scheduling and time make happen.
Callback(h) ==
    \/ OnlyLog(h) \/ SessionOver(h) \/ Prompt(h)
    \/ MarkConsole(h) \/ OpenConsole(h) \/ RestartAgent(h) \/ PromptStops(h)

User(in) == (\E h \in Calls : ScannerReads(h, in)) \/ LoopReads(in)

Next ==
    \/ AgentEnds \/ Signal \/ Exit
    \/ \E h \in Calls : Callback(h) \/ TimeOut(h)
    \/ \E in \in Inputs : User(in)

Spec == Init /\ [][Next]_vars

\* Goroutines are scheduled and the prompt's timer fires; nobody has to type,
\* and the agent need not end.
FairSpec ==
    /\ Spec
    /\ WF_vars(Exit)
    /\ \A h \in Calls : WF_vars(Callback(h))

-----------------------------------------------------------------------------

TypeOK ==
    /\ onExit \in Policies /\ interactive \in BOOLEAN
    /\ agent \in {"up", "ended", "stopped"}
    /\ ends \in 0..MaxEnds
    /\ handler \in [Calls -> {"none", "begun", "prompt", "console", "over"}]
    /\ scanner \in [Calls -> {"none", "reading", "done"}]
    /\ answer \in [Calls -> Inputs \cup {"none"}]
    /\ cmdLoopRunning \in BOOLEAN /\ ctxDone \in BOOLEAN
    /\ loops \in 0..(MaxEnds + 1)
    /\ main \in {"waits", "over"}

Scanners == {h \in Calls : scanner[h] = "reading"}

\* The launcher never reads stdin in two places: not two prompts, not a prompt next
\* to the command loop, not two loops, however often the agent is restarted and ends
\* (the reason for cmdLoopRunning and the mutex around it).
OneStdinReader == Cardinality(Scanners) + loops <= 1

\* Once the user chose to keep the editor running, the launcher stops only when told
\* to, by a signal or by the command loop: no callback of a later end and no prompt
\* that times out stops it.
KeptUntilAsked ==
    [][cmdLoopRunning /\ ctxDone' # ctxDone => Signal \/ LoopReads("q")]_vars

\* When the agent ends and the launcher is not told to leave everything running, it
\* does not hang around: it stops, the agent is started again, or there is a
\* console to command it from.
NoSilentHang ==
    onExit # "leave" /\ agent = "ended" ~> ctxDone \/ agent # "ended" \/ loops > 0

\* With onExit shutdown, or headless without a terminal to ask on, the end of the
\* agent is the end of the session, even when the agent is started again meanwhile.
JobDoneStops ==
    (onExit = "shutdown" \/ (onExit = "ask" /\ ~interactive)) /\ agent = "ended" ~> ctxDone

\* "In interactive mode stdin belongs to the agent" (run): while a foreground agent
\* runs the launcher does not read stdin, unless the user chose its console.
AgentOwnsStdin ==
    interactive /\ agent = "up" /\ ~cmdLoopRunning => Scanners = {} /\ loops = 0

\* A callback that leaves everything to the launcher console ("Launcher console
\* active") finds that console.
ConsoleIsActive ==
    [][\A h \in Calls : OnlyLog(h) /\ Busy => loops > 0 \/ ctxDone]_vars
==============================================================================
