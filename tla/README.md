# A verification project for unreagent

TLA+ modules, TLC configurations and TLAPS proofs about the launcher in this
repository. Paths like `supervisor.go:340` are relative to
`src/internal/supervisor`, `src/internal/mcp`, `src/internal/config` or
`src/cmd/launcher` (`main.go`).

unreagent is one Go process that supervises an AI agent and an Unreal editor
(and any further services), gives the agent an MCP server with tools to control
them, and decides for the agent which of its own tool calls are permitted.

## 1. Inventory

| Part | Source | State | Operations | Models |
|---|---|---|---|---|
| Service lifecycle loop | supervisor.go:320-513 | `desired`, `restarts`, `backoff`, `cmd`, `job`, `streams`, `waitCh` (owned by the loop goroutine) | the select: context, backoff timer, exit of the process, control message; `start`, `stop`, `releaseStreams`, `snapshot` | Service, ServiceContract |
| `send` and its callers | supervisor.go:130-200 | a call in progress per caller | Start/Stop/RestartService, `ctrlTimeout` | Service |
| `Status` | supervisor.go:196-220 | one goroutine per service, the results by position | the fan-out, its time-outs | StatusCall |
| Process tree and job object | job_windows.go, job_other.go, supervisor.go:267-312, 374-430 | the job handle, the running processes | `NewJob`, `Assign`, `Close`, `Kill`, `Wait`; forks and exits of the tree; death of the launcher | JobTree |
| Output pipes | supervisor.go:515-660 | pipes, reader goroutines, drain timer | `newStreamSet`, `startDrain`, `wait`, `close`, `stream` | JobTree (one instance), Output (the log of all instances) |
| Output buffers | ringbuffer.go | last lines of a service; head and tail of a command's output | `add`, `tail`, `Write`, `String` | Buffers, Output |
| MCP server | mcp.go | none beyond the POST being served and the tool table | `ServeHTTP`, `serveBatch`, `serveSingle`, `dispatch`, `handle`, `callTool` | McpServer |
| run_command | main.go:393-423 | - | `RunCommand`, waited for without a limit | Tools (the wait), JobTree and Output (the process) |
| File tools | main.go:577-731 | files of the project | `read_file`, `write_file`, `edit_file`, `list_dir` | Tools |
| Script tools | main.go:522-572, 755-812 | script files in the project | `scriptAction`, `sweepStaleScripts` | Tools |
| Permissions | permission.go | the policy, read once | `Decide` | Permissions |
| End of the agent | main.go:1013-1160, 287-331 | `cmdLoopRunning`, goroutines on stdin, the context | `makeAgentExitHandler`, `promptAgentExit`, `commandLoop`, end of `run` | AgentExit |
| Hermes set-up | main.go:1410-1656 | config.yaml, its .bak, the temporary file, unreagent.local.yaml | `runHermesSetup` and what it calls | HermesSetup |
| Configuration | config.go | the loaded configuration | `Load`, defaults, resolution, substitution, validation | Config, Launcher |
| Start-up and bridges | main.go:47-320, 852-987 | the configuration, what the agent is told, what the server serves, the bridge under test | `run` up to the start of the services, `prepareMCPBridges`, `smokeTestMCP` | Launcher |
| Runtimes, MCP config files, flags | main.go:63-96, 826-841, 1168-1237 | - | two one-off commands nobody waits for; files for external clients | not modelled |

How they interact. Callers (MCP handlers, the command loop, the exit handler)
reach a service only through `send`: a message with a reply channel on the
loop's unbuffered channel, given up after `ctrlTimeout` while nobody receives it
and waited for without a limit once it was received. The loop starts a process,
puts it into a job object, starts readers for its pipes and a goroutine that
posts the exit to `waitCh`. When a process ends for good the loop calls `OnExit`
in a goroutine of its own; for the agent that is the exit handler, which may
prompt on stdin, stop the launcher (cancel the context) or restart the agent
through `send` again. HTTP requests run concurrently and share the file system
without locks.

What is hard here: the four cases of the select racing each other and the
callers' time-outs; the windows between starting a process, having a job for it
and holding it; descendants that keep pipes open; several goroutines that want
stdin; kills between two steps on files; a batch whose elements fail
differently. `PROJECT.json` lists these hazards at their lines with the
properties aimed at each.

What makes each part correct, in one line each:

* lifecycle: one process at most, never lost; every end retried or reported, and
  reported once; stop and restart mean what they say when they answer; every call
  of `send` returns; a cancelled launcher leaves nothing behind;
* job and pipes: nothing in the job outlives its instance, the last output is
  logged before the end is reported, nobody hangs on a pipe;
* exit handler: one reader of stdin, and none while a foreground agent runs (before
  the user takes the console); an editor the user kept is kept, a session
  that is over ends the launcher;
* Hermes: nothing of the user's is lost, the backup and the token are stable, no
  half-written configuration;
* MCP and tools: each element answered once and alone, no POST unanswered, no
  script file left over, an edit that was reported holds;
* output: the log is the most recent lines in the order they were written, also
  with readers of two instances at once; both ends of a command's output are kept;
* Status: complete, in order, and no slower for several blocked loops than for one;
* start-up: an accepted configuration is one the later steps can rely on, the agent,
  the server and the permission layer agree, broken bridges are reported, and start-up
  ends;
* permissions: the verdict is a function of the sets of rules, and down to
  `maxShellDepth` no command of a line is overlooked.

## 2. Modules

`Service` (proofs: `ServiceProofs`). `pc` is the place of the loop goroutine:
`idle` is the select, the other values are the blocking points inside `start`,
`stop` and the exit path. `why` is the case being handled. `cmd` is the
process instance the loop holds, an instance being named by the number of the
call of `start` that made it. `alive`, `exited` and `reported` are where a
process is between running and the receive from `waitCh`. `req[c]` is the call of
`send` of caller `c`. One action is one uninterrupted stretch of the loop between
two points at which it waits: `TakeCancel`, `TakeBackoff`, `TakeExit`, `Take...`
for the messages, `BeginStart`, `PipeFails`, `ProgramNotFound`, `StartFails`,
`Spawn`, `Assign`, `EnterStop`, `Kill`, `Reap`, `DrainStopped`, `AfterStop`,
`Reply`; beside them processes that die, wait goroutines that post, callers that
ask and give up, and the user who cancels. The exit code is success or failure;
time is the order of events.

`ServiceContract` is what callers may rely on: requests are accepted one at a
time, a refused request changed nothing, a process comes up only while wanted
and while none is up, stop and restart answer only when the old process is gone.
`Service` refines it (`wanted` is `desired`, `up` is `alive # {}`, `gen` is
`attempt`, `call` is `req`).

`JobTree` (proofs: `JobTreeProofs`). One instance of a service, with or without
pipes, or one one-off command, on either build. The tree forks, writes and exits
at any moment; a child inherits job membership and pipe ends; job creation and
assignment may fail; the launcher may die, and the kernel then closes the job
handle. The two pipes are one, a line is short or longer than `maxLogLine`.

`Buffers` and `Output` (proofs: `OutputProofs`). `Buffers` has the two buffers of ringbuffer.go as operators. `Output` puts them to
use. For a service: instances one after the other, each with two pipes, two readers
(a reader takes a chunk of lines, as `bufio.Reader` does, and adds them to the log one
by one, also after the pipe was closed), the drain with its timer, and descendants
that go on holding pipes, here reduced to whether somebody holds them. For a command:
writes of every size into the head/tail buffer; a byte is its number. `added` is the
history of the log, which the ring buffer forgets.

`StatusCall` (proofs: `StatusCallProofs`, instance: `MCStatusCall`). The goroutines of `Status`, each with the select of `send`, over loops
that are idle, replying, busy or over (`Service` has the loop in detail). This is the
one module with a clock: a tick passes only when no goroutine of `Status` can run at
once, so that `ctrlTimeout` is long compared with scheduling, and a busy loop takes
as many ticks as it likes. `version` stands for the state a snapshot shows.

`Config` has `Load` as operators. A file is the function from the settings it holds to
their values; a text with placeholders is the set of the placeholders and pieces in it
(the order and the number of the pieces do not matter to the substitution's result
that is checked). The machine (UE_ROOT, a detected engine, a .uproject) is an argument.

`Launcher` (proofs: `LauncherProofs`, instance: `MCLauncher`) composes `Config` and `AgentExit`: it is `run()`
from the files to the end of the process. `stage` is the place in `run`; `promptTool`
and `told` are what the agent is told, `served` what the server serves. `ToldToken` is
"foreign" where an entry of `mcp.extraServers` named unreagent takes the place of the
launcher's own, which `buildMCPServers` lets it. The disk is
chosen when `prepareMCPBridges` comes to it. A bridge's process may answer, end, hang
or start another process that keeps its pipes and outlives it. From stage "run" on
the steps are those of `AgentExit`, with the policy and the mode that were loaded.
A signal before `NotifyContext` kills, after it cancels. What is not looked at again
(the files, the disk) is reset, to keep the number of states down.

`AgentExit`. The callbacks (one per reported end), their prompts and the
goroutine each prompt leaves behind on stdin, the command loop, `run`. A line
typed goes to any of the goroutines that scan. An automatic restart of the agent
is inside "up".

`HermesSetup` (proofs: `HermesSetupProofs`). Each file operation of one run is a step; a run may stop at each
(a kill, or a failing call, which returns the error), and be repeated; the user
edits Hermes' configuration in between.

`Tools` and `McpServer` (proofs: `McpServerProofs`, instance: `MCMcpServer`). `Tools` has the calls' steps on
one file and on the script directory, the wait of run_command for its program, and the
launcher's kills and starts; every access to a file may fail, the read before an edit
included;
`McpServer` composes it with the POSTs. A file's text is a set of marks: an edit
replaces one mark, a write restores all. The checks of `ServeHTTP` are reduced to
the first one that fails.

`Permissions` (proofs: `PermissionsProofs`, instance: `MCPermissions`). The loops
of `Decide` and `allowCommand` over the rules are steps with their early returns.
A pattern is the set of texts it matches. How the operators, substitutions and
nested shells of a command line nest is a constant (`Parts`, `Bodies`, `Scripts`,
`Aliases`); the descent into it with its limit is `SplitSegments`. The shell has no such
limit: `Runs` is what it runs from a line when it follows it `MaxNesting` deep, `Within`
the part of it down to `maxShellDepth`. Where the
scanner finds those pieces in a text (quotes, redirections, word boundaries) is
not modelled.

In the modules, definitions marked "mutant" are variants of the definition after
them with a bug; they are used by no specification, only to show that each
property notices such a bug.

## 3. Runs

| Run | Instance | Distinct states | Shows |
|---|---|---|---|
| service_onfailure | 2 callers, 3 requests, 3 faults, policy on-failure, one retry | 1.5 million | safety of the loop, refinement of ServiceContract |
| service_live | 1 caller, 3 requests, 3 faults, policy always, delay, foreground | 54 thousand | automatic starts follow policy; liveness |
| jobtree | child and 3 descendants, pipe of 2, 3 lines, all runners and builds | 177 thousand | who is gone, what is logged, nobody hangs |
| jobtree_orphans | the same, Windows, no job call fails | violated | finding below |
| output | 2 instances, 3 lines, log of 2; command of up to 9 bytes with limit 3 | 46 thousand | log, drain, both ends |
| status | 2 callers, 2 services or 1, time-out of 2 ticks, 2 calls, 2 other messages | 133 thousand | complete, one time-out |
| hermes_setup | 2 other servers, 3 runs | 2 thousand | nothing lost, backup, token |
| hermes_others | 2 runs | violated | finding below |
| launcher | 6 files, 8 local files, 3 machines, 3 names of bridges in 5 states each, 3 ends | 58 thousand | start-up, configuration, end of the agent |
| agentexit_eof | ask, stdin may end | violated | finding below |
| mcp_server | 2 callers, 3 POSTs, 9 bodies, 2 scripts, 1 fault, 1 kill | 205 thousand | answers, files, scripts, commands |
| permissions | 1209 policies, 25 calls, nesting limit 2, shell 3 deep | 140 thousand | verdicts |

Bounds, all of them guards on counters or sizes of constants. `MaxRequests` and
`MaxFaults` bound the calls of `send` and the failed starts and unasked ends: with
two callers and three requests, every pair of messages meets every state of the
loop and is followed by a third, and three faults exceed the one permitted retry
by two. Longer behaviours repeat these situations with higher numbers, and the
safety properties are proved without the bounds. `Procs` has room for a grandchild
outside the job beside one inside it; `PipeSize` and `MaxLines` let a pipe be empty,
partly full and full, with one more line to come. `MaxRuns` = 3 covers first run,
rerun after a crash and rerun after that. `MaxEnds` = 3 covers an end while a
prompt is open, and one after the console took over. `MaxPosts` and the two callers
let any two bodies overlap with a third before or after; the bodies cover every
kind of element and pairs of failing and succeeding neighbours, an element behind a
command that may not end among them. In Output, two
instances are what a late reader of the old one and a reader of the new one need, a
log of two lines with three written overflows, and nine bytes with a limit of three
fill the head, fill the tail and drop three, in pieces of one to six. In StatusCall,
two callers can keep one loop busy for each other, both loops can be blocked at once,
and a time-out of two ticks differs from its double. The files of MCLauncher hold, for
each thing `Load` completes, refuses or overlays, one that triggers it, and each is
combined with each local file and machine; two bridges let a broken one stand before
or after any other, and a third name is the launcher's own. For Permissions,
two rules per list are needed for a line covered by two rules and for order to
matter, and among the calls are a line nested as deep as the limit and one nested
deeper, which the shell follows.

Symmetry of callers is used in service_onfailure only; it checks safety, and the
contract it is compared with treats callers alike and states no fairness.
`CHECK_DEADLOCK FALSE` stands where the modelled system does end: a loop that is
done, an instance that is over, a launcher that has exited, exhausted runs or POSTs.
Permissions never stops and is checked for deadlock.

Fairness. Service: the loop goroutine runs when it can (weak fairness of its work);
Go's select picks among ready cases at random, so a case that is ready again and
again is taken (strong fairness of the select's cases); a killed process dies, wait
goroutines post, timers fire. `PreStart` is taken to return.
Callers need not call, processes need not exit, the launcher need not be stopped. JobTree: the launcher's goroutines, its readers, its
timer, and the death of a killed child; nothing obliges a process to exit, to write
or to close its pipe. AgentExit: callbacks and the end of `run`; nobody has to type.
Launcher adds that `run` goes on while it can, which includes that npm install ends
and that the timer of the smoke test fires, and nothing about a bridge's processes. Output: the readers, and the drain's timer.
McpServer: handlers are scheduled and file operations return; programs need not end,
neither a script's nor a command's, and PostIsAnswered then excepts the POST that waits
for one for ever, and no other.
StatusCall has no liveness: with the clock, OneTimeout bounds how long a call takes.

## 4. Findings

* **NoOrphans** (jobtree_orphans): the child is started before its job exists and
  is assigned to it (supervisor.go:394, 416, 421). A launcher crash in that window,
  or a fork of the child in it, leaves a process the job does not hold, against
  the package comment at supervisor.go:4.
* **OthersKept** (hermes_others): the first run renames config.yaml to .bak and then
  reads config.yaml, which is gone; the new file has unreagent's server alone
  (main.go:1477, 1486 against main.go:1607). The old file is in the backup, so
  nothing is lost for good (NothingLost).
* **ConsoleIsActive** (agentexit_eof): `cmdLoopRunning` outlives the loop it stands for
  when stdin ends (main.go:1058 against main.go:1037).

Further places where the code and its texts disagree. No run is spent on them: the
models have the behaviour, and the property named here states its exception.

* Commands nested deeper than `maxShellDepth` are not seen (permission.go:314), so in
  allowlist mode a line is allowed whose deeper commands no rule names; with
  `Bash(git *)` allowed and a limit of 2, `git $(git $(git $(rm)))` is. README.md:358
  says that "an **allow** rule requires *every* segment to be covered", and
  permission.go:279 that this mode "fails closed by construction". EveryCommandNamed
  excepts such commands: without its last disjunct TLC finds that line.
* An entry of `mcp.extraServers` named unreagent replaces the launcher's own URL and
  Authorization header (main.go:1178), and `validate` refuses no name; main.go:1165 says
  that the agent gets the matching header and "does not lock itself out".
  AgentFindsApprove speaks of the token only where there is no such entry.
* unreagent.local.yaml is truncated and written in place (main.go:1582), unlike Hermes'
  own file (main.go:1629); a kill in between loses its other settings, of which
  main.go:1551 says that they "are left alone". TokensAgree covers the token only.
* After "k" and "start agent" the command loop and the foreground agent both read the
  console (main.go:1060), each line going to one of them; main.go:317 says: "In
  interactive mode stdin belongs to the agent". AgentOwnsStdin holds until "k".
* edit_file reads, replaces and writes without a lock (main.go:714-724): of two edits
  that overlap one can be lost, though both report their replacements and the tool's
  description (main.go:687) promises them. EditsStick is for edits that do not overlap.
* agent.command, agent.args and agent.env are not substituted (config.go:364-384), though
  config.go:356 speaks of "all path/argument fields". ConfigIsSound leaves them out.

Behaviours that no text of the repository speaks against, as far as we found:

* The smoke test of a bridge waits for the pipes, not for the process (main.go:964): a
  wrapper that leaves a process behind holds up the start for as long as that
  process lives, and a signal does not end the wait. StartsUp excepts this case.
* run_command, run_python and run_node wait for their program without a limit
  (main.go:415); the server's write timeout does not end the wait.
* A signal during the check of the bridges still starts the services, which are then
  stopped at once (main.go:303, 314).
* `restarts` is reset by a manual command only, so a service that is long-lived and
  crashes now and then is given up after `maxRestarts` crashes (supervisor.go:474).

## 5. Proofs

All theorems hold for every value of the constants under the modules' named
assumptions, which say no more than the types of the constants, that `NoClient` is
no client, that no bridge is called "none", that the child is one of the processes and
that a pipe, the log and the head/tail buffer hold something. Every safety property of
a passing run is proved, the action properties and the refinement included. Each proof
has the same form: an inductive invariant `IInv` (itself checked by TLC before it was
proved), `Init => IInv`, one lemma for a step, split by action, and the property from
`IInv`. The invariants say what the properties leave out:

ServiceProofs. `IInv` is TypeOK with: `LoopInv` (what the loop holds at each `pc`: no
process and no timer inside `start`, a process inside `stop`, a timer only for a
wanted service without process), `ProcessInv` (all processes that run or whose exit
is on its way are the current instance: this is what makes one process at most
inductive, because a second could only come from a start that forgot an exit),
`ReportInv` (OnExit was called exactly when nothing else will happen),
`RestartBudget`, `TimerInv` (an armed timer goes back to an end the policy restarts),
`CallInv` (the message handled and the call of its sender agree) and `FreshInv`
(a restart is answered with an instance younger than the request). The state
predicates among the properties of Service follow from IInv (also those that no run
checks because the theorem says it better: NoProcessLost, AcceptedIsServed,
RestartIsFresh, StartOnlyWhenDesired); StopIsComplete and
AutoRestartFollowsPolicy are proved of every step from it; `Implements` maps every
step to a step of ServiceContract or to a stutter. RestartBudget,
TimerOnlyWhenWanted and NothingOutlivesLoop are stated and proved here, too.

JobTreeProofs. `IInv` adds to TypeOK that nothing runs in a job that is not open, that
the job is closed before an instance ends (`JobInv`), that the child was waited for
before the drain (`ChildInv`), and who may still write to the pipe when the reader
saw its end (`PipeInv`). It gives MembersAreGone, LastWordsLogged and that the child was reaped (ChildIsGone) for
any tree, any pipe and any output (DrainIsComplete of Output is the same promise with
both pipes and the log, see OutputProofs).

PermissionsProofs. `LoopInv` says what each loop knows of the rules behind it (none
matched, the covered commands are those the rules behind it cover). With it every
verdict equals `Permitted`, which mentions no order (VerdictsExact). RulesMonotone:
fewer deny rules and more allow rules, in whatever order, never refuse what was
permitted. DeniedNeverRuns and AllowedIsNamed (NoDeniedCommand, EveryCommandNamed)
compare the recursive descent of `splitSegments` with the chains of nested lines a
shell would follow, for any `MaxNesting`; what lies deeper than `maxShellDepth` they
except. They rest on inductions over the depth: that the recursion has
a value on every level (SplitSegmentsDef), that a command at the end of a chain
is found one level further up with each step back (WithinIsLookedAt), and that what a
level finds has a chain no longer than the level (LookedAtIsWithin). The last two make
LooksExactlyWithin: down to `maxShellDepth` every command is seen, and a line is not
judged by a command it does not run.
Induction itself is the lemma NumbersFrom, about a set of numbers with 0 and every successor, and comes
from the library's theorem that sets of numbers have least elements.

HermesSetupProofs. `TokenInv` has the step at which the run's token is in its document
and in unreagent.local.yaml, `DocInv` that what is about to replace config.yaml
holds what is in it. It gives NothingLost, ConfigWhole and TokensAgree for any servers,
any number of runs cut short at any step and edits by the user between them, and BackupKept and TokenStable of every
step.

OutputProofs. The log: `LineInv` places every line of a pipe in the log, in its
reader's hands or in the pipe, in this order; `AddedInv` says that the log has no
others; `DrainInv` when a reader may end and an instance be closed; `RingInv` that the
ring is the end of all that was added. LogsAreRecent follows by lemmas about ends of
sequences (the end of an end, of a longer sequence), LogInOrder is inductive with
LineInv, DrainIsComplete follows from DrainInv and LineInv. The head/tail buffer:
`Ends` says that the head counts from zero and the tail up to the total; WriteKeepsEnds
is the arithmetic of `Write` for a write of any size, smaller or larger than the
limit.

StatusCallProofs. `TimeInv`: every goroutine of a call that still offers its message
has offered it for as long as the call lasts, so all come to their time-outs together
and no tick passes then (StatusInTime). `AnswerInv`: a goroutine that is done wrote its
own position with what its loop showed since the call began (StatusAnswersForAll).

LauncherProofs. `ReaderInv`: as long as the console was not taken over, only the
latest end can be at a prompt, and only while the agent is down; after that nobody
asks, and there is the loop or the callback about to start it. So there is one reader
of stdin, by itself (AgentReadsOnce) and in the whole launcher (StdinHasOneReader),
none while a foreground agent runs and the console was not taken (StdinIsTheAgents),
and EditorIsKept holds of every step. ConfigIsSound is proved of `Load` for any files,
machine and flags by lemmas about each stage (overlay, defaults, placeholders,
validation): the result is well formed, what was substituted holds no placeholder,
and the flags keep both. `ToldInv` carries what the agent is told and what the server
serves back to the configuration, the override of the launcher's own entry included
(ApproveIsServed, with its exception); `BridgeInv` says that every bridge
that cannot work is still to come, under test, or was warned of (BrokenIsWarned).

McpServerProofs. `CallInv`: a tool call belongs to a POST that waits for it.
`ScriptInv`: a call that runs a script has a file of its own, which nobody has tried to
remove; ScriptsAreRemoved then also covers files of killed launchers, which the sweep
deals with before the server starts. `EditInv`: while no two calls were at the file at
once, one is there at most, and what it will write has every edit so far in it, which
also holds when it dies between truncation and write. `GoodPost`: a POST in progress
answers exactly the elements before its current one (AnswersGoOn adds one).

Only model-checked: all liveness properties (EverySendReturns, CancelEndsLoop,
WantedIsServed, EndReturns, CommandReturns, WriterGoesOn, NoReaderLeft, NoSilentHang,
JobDoneStops, StartsUp, PostIsAnswered), which are beyond the prover, and the three
violations.

## 6. Plan

Done, in this order: lifecycle loop and contract; job tree and pipes; Hermes set-up;
end of the agent; tools and MCP server; permissions; output and its buffers; Status;
configuration and start-up; then the proofs of all safety properties, in the order
HermesSetup, Launcher, Output, StatusCall, McpServer, Permissions.

What is left:

1. A contract for the log (`Logs` as a window on a sequence that only grows) and for
   the MCP server (a POST is answered at most once, by what it asked), with Output and
   McpServer as refinements.
2. Safety parts of the liveness properties that can be proved: a measure for StartsUp
   that no step of `run` increases.

## 7. Not modelled

The YAML library (third party), signing, CI and build files, skills and examples
(no logic); engine and project detection (look-ups in the file system and the
registry, an argument of `Load` here); the conversion of MCP configurations for other
clients (`writeMCPConfigs`, `toVSCode`); `prepareRuntimes` and `waitForEndpoint`, which
only start commands or probes nobody waits for; the flags -files and
-write-mcp-config; that the MCP port may be in use, which is logged and changes
nothing else (main.go:296); log texts and banners; the HTTP transport below
`ServeHTTP`; the text level of permission rules; exit-code conversion and working
directories of commands. `PROJECT.json` gives the reason for each part.

## 8. Running

`tlc -workers 2 -config X.cfg M` for the runs above (`PROJECT.json` has module and
configuration of each), `tlapm M.tla` for ServiceProofs, JobTreeProofs,
PermissionsProofs, HermesSetupProofs, LauncherProofs, OutputProofs, StatusCallProofs
and McpServerProofs.
