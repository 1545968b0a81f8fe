------------------------------ MODULE Launcher ------------------------------
(***************************************************************************)
(* run() from the command line to the end of the process: the              *)
(* configuration (Config), what the agent is told and the MCP server       *)
(* serves, the check of every stdio bridge before anything is started, the *)
(* start of the services, and from then on AgentExit with the onExit       *)
(* policy and the mode that were configured.                               *)
(***************************************************************************)
EXTENDS AgentExit, Config

CONSTANTS
    Yamls, Locals,  \* contents of unreagent.yaml and unreagent.local.yaml
    Machines,       \* what is found on the machine: see Config
    Bridges,        \* names that mcp.extraServers may hold
    Sites           \* states of a bridge's command and directory

\* What a file says of bridges is names and entries.
ASSUME LauncherAssumption ==
    /\ Sites \subseteq {"no command", "no script", "no modules", "partial modules", "ready"}
    /\ "none" \notin Bridges
    /\ \A file \in Yamls \cup Locals :
         "extra" \in DOMAIN file.sets =>
            /\ DOMAIN file.sets.extra \subseteq Bridges
            /\ \A b \in DOMAIN file.sets.extra : DOMAIN file.sets.extra[b] = {"kind", "script"}

VARIABLES
    stage,       \* "load", "register", "serve", "bridges", "start" or "run"
    yaml, local, machine, noAgent,  \* what Load and the flag -no-agent are given
    cfg,         \* the configuration
    promptTool,  \* the agent is told to ask mcp__unreagent__approve
    told,        \* the token that it is told to show to "unreagent", "absent" without a
                 \* server, "foreign" when another server has that name
    served,      \* the tools and the token of the MCP server
    left,        \* bridges that prepareMCPBridges has not come to
    bridge,      \* the one that it checks, "none"
    step,        \* what it does: "npm", "reading" the answer, or it is "answered"
    site,        \* each bridge on the disk
    warned,      \* bridges that a WARN line names
    child,       \* the smoke test's process runs
    holder       \* a process that it started has its stdout and stderr: "none",
                 \* "alive" or "over"

inputs == <<yaml, local, machine, noAgent>>
setup == <<cfg, promptTool, told, served>>
check == <<left, bridge, step, site, warned, child, holder>>
allVars == <<vars, stage, inputs, setup, check>>

NoFile == [ok |-> TRUE, sets |-> <<>>]
NoDamage == [b \in Bridges |-> "ready"]
NoServer == [approve |-> FALSE, token |-> "absent"]

LaunchInit ==
    /\ stage = "load"
    /\ yaml \in Yamls /\ local \in Locals /\ machine \in Machines /\ noAgent \in BOOLEAN
    /\ cfg = Zero /\ promptTool = FALSE /\ told = "absent" /\ served = NoServer
    /\ left = {} /\ bridge = "none" /\ step = "none" /\ warned = {}
    /\ site = NoDamage
    /\ child = FALSE /\ holder = "none"
    /\ onExit = "ask" /\ interactive = FALSE
    /\ agent = "stopped" /\ ends = 0
    /\ handler = [h \in Calls |-> "none"]
    /\ scanner = [h \in Calls |-> "none"]
    /\ answer = [h \in Calls |-> "none"]
    /\ cmdLoopRunning = FALSE /\ loops = 0
    /\ ctxDone = FALSE /\ main = "waits"

\* What Load returns, as a table that is computed once.
Loaded == [in \in Yamls \X Locals \X Machines |-> Load(in[1], in[2], in[3])]

Kind(b) == cfg.extra[b].kind
In(st) == Running /\ stage = st

-----------------------------------------------------------------------------
(* The configuration. *)

\* The agent gets the console, unless it is told its prompt with -p.
WindowMode(c) ==
    c.agent /\ IF c.window = "unset" THEN ~c.headless ELSE c.window = "yes"

\* The files are not looked at again: to forget them keeps the model small.
ReadConfig ==
    /\ In("load") /\ stage' = "register"
    /\ LET read == Loaded[<<yaml, local, machine>>]
           c == [read.config EXCEPT !.agent = @ /\ ~noAgent]
       IN /\ read.ok /\ cfg' = c
          /\ interactive' = WindowMode(c)
          /\ onExit' = IF c.agent THEN c.onExit ELSE onExit
    /\ yaml' = NoFile /\ local' = NoFile /\ machine' = machine /\ noAgent' = FALSE
    /\ UNCHANGED <<agent, ends, handler, scanner, answer, cmdLoopRunning, loops, ctxDone, main>>
    /\ UNCHANGED <<promptTool, told, served, check>>

\* run returns the error of Load.
Refuse ==
    /\ In("load") /\ ~Loaded[<<yaml, local, machine>>].ok
    /\ main' = "over"
    /\ UNCHANGED <<conf, agent, ends, handler, scanner, answer, cmdLoopRunning, loops, ctxDone>>
    /\ UNCHANGED <<stage, inputs, setup, check>>

\* config.MCPServerName, the launcher's own entry among the servers of the agent.
OwnName == "unreagent"

\* buildMCPServers: the entries of mcp.extraServers are laid over the launcher's own
\* one with its Authorization header, and one of the same name replaces it.
ToldToken == IF OwnName \in DOMAIN cfg.extra THEN "foreign" ELSE cfg.token

\* The agent's arguments.  A foreground agent is not told of the approve tool.
Register ==
    /\ In("register") /\ stage' = "serve"
    /\ IF cfg.agent /\ cfg.mcp /\ cfg.claude
       THEN promptTool' = (cfg.permissions /\ ~interactive) /\ told' = ToldToken
       ELSE UNCHANGED <<promptTool, told>>
    /\ UNCHANGED <<vars, inputs, cfg, served, check>>

\* registerTools, ListenAndServe, NotifyContext, and the bridges to be checked.  Only
\* now the disk matters: what is on it is chosen here.  A launcher that was killed
\* during npm install leaves partial modules.
Serve ==
    /\ In("serve") /\ stage' = "bridges"
    /\ served' = IF cfg.mcp THEN [approve |-> cfg.permissions, token |-> cfg.token] ELSE served
    /\ left' = IF cfg.mcp THEN DOMAIN cfg.extra ELSE {}
    /\ site' \in {disk \in [Bridges -> Sites] :
                     \A b \in Bridges : b \notin left' \/ Kind(b) = "http" => disk[b] = "ready"}
    /\ UNCHANGED <<vars, inputs, cfg, promptTool, told>>
    /\ UNCHANGED <<bridge, step, warned, child, holder>>

\* A signal before NotifyContext kills the process.
SignalKills ==
    /\ Running /\ stage \in {"load", "register", "serve"}
    /\ main' = "over"
    /\ UNCHANGED <<conf, agent, ends, handler, scanner, answer, cmdLoopRunning, loops, ctxDone>>
    /\ UNCHANGED <<stage, inputs, setup, check>>

-----------------------------------------------------------------------------
(* prepareMCPBridges *)

Around == UNCHANGED <<vars, stage, inputs, setup>>

Checks(b, st) == In("bridges") /\ bridge = b /\ step = st

\* The next one in the order of the map.
Takes(b) ==
    /\ In("bridges") /\ bridge = "none" /\ b \in left
    /\ left' = left \ {b}

\* An http server: there is nothing to check.
SkipServer(b) ==
    /\ Takes(b) /\ Kind(b) = "http"
    /\ UNCHANGED <<bridge, step, site, warned, child, holder>> /\ Around

\* The command is not on PATH, or a node bridge's script is not there.
Unusable(b) ==
    /\ Takes(b)
    /\ \/ Kind(b) # "http" /\ site[b] = "no command"
       \/ Kind(b) = "node" /\ site[b] = "no script"
    /\ warned' = warned \cup {b}
    /\ UNCHANGED <<bridge, step, site, child, holder>> /\ Around

Install(b) ==
    /\ Takes(b) /\ Kind(b) = "node" /\ site[b] = "no modules"
    /\ bridge' = b /\ step' = "npm"
    /\ UNCHANGED <<site, warned, child, holder>> /\ Around

\* The smoke test's process is started.
BeginTest(b) ==
    /\ bridge' = b /\ step' = "reading" /\ child' = TRUE /\ holder' = "none"

\* mutant: modules that are there are not tested.
TestUnlessThere(b) ==
    IF Kind(b) = "node" THEN UNCHANGED <<bridge, step, child, holder>> ELSE BeginTest(b)

TestBridge(b) == BeginTest(b)

\* node_modules is there, or nothing but the test can tell -- which may fail to start.
Usable(b) ==
    /\ Takes(b)
    /\ Kind(b) # "http" /\ site[b] # "no command"
    /\ Kind(b) = "node" => site[b] \notin {"no script", "no modules"}
    /\ \/ TestBridge(b) /\ UNCHANGED warned
       \/ warned' = warned \cup {b} /\ UNCHANGED <<bridge, step, child, holder>>
    /\ UNCHANGED site /\ Around

\* npm install succeeds, and the test starts or fails to, ...
Installed(b) ==
    /\ Checks(b, "npm")
    /\ site' = [site EXCEPT ![b] = "ready"]
    /\ \/ BeginTest(b) /\ UNCHANGED warned
       \/ /\ warned' = warned \cup {b} /\ bridge' = "none" /\ step' = "none"
          /\ UNCHANGED <<child, holder>>
    /\ UNCHANGED left /\ Around

\* ... or it does not start or fails.
InstallFails(b) ==
    /\ Checks(b, "npm") /\ warned' = warned \cup {b}
    /\ site' \in {site, [site EXCEPT ![b] = "partial modules"]}
    /\ bridge' = "none" /\ step' = "none"
    /\ UNCHANGED <<left, child, holder>> /\ Around

-----------------------------------------------------------------------------
(* smokeTestMCP *)

\* A bridge that is complete may answer initialize.
ChildAnswers(b) ==
    /\ Checks(b, "reading") /\ child /\ site[b] = "ready"
    /\ step' = "answered"
    /\ UNCHANGED <<left, bridge, site, warned, child, holder>> /\ Around

\* The bridge ends by itself.
ChildEnds(b) ==
    /\ Checks(b, "reading") /\ child /\ child' = FALSE
    /\ UNCHANGED <<left, bridge, step, site, warned, holder>> /\ Around

\* It is a wrapper and starts the server as a process of its own, which may outlive it.
ChildForks(b) ==
    /\ Checks(b, "reading") /\ child /\ holder = "none" /\ holder' = "alive"
    /\ UNCHANGED <<left, bridge, step, site, warned, child>> /\ Around

HolderEnds ==
    /\ Running /\ holder = "alive" /\ holder' = "over"
    /\ UNCHANGED <<left, bridge, step, site, warned, child>> /\ Around

\* mutant: the test has no timeout.
NoDeadline == FALSE

\* 20 seconds passed since the start.
Deadline == TRUE

\* CommandContext kills the process that it started, and that one only.
TestTimer(b) ==
    /\ Checks(b, "reading") /\ child /\ Deadline
    /\ child' = FALSE
    /\ UNCHANGED <<left, bridge, step, site, warned, holder>> /\ Around

\* Kill and Wait, after an answer or the end of stdout.  Both pipes have to be at
\* their end: Scan reads stdout, Wait waits for the copy of stderr.
TestOver(b) ==
    /\ bridge = b /\ In("bridges") /\ holder # "alive"
    /\ step = "answered" \/ (step = "reading" /\ ~child)
    /\ warned' = IF step = "answered" THEN warned ELSE warned \cup {b}
    /\ bridge' = "none" /\ step' = "none" /\ child' = FALSE /\ holder' = "none"
    /\ UNCHANGED <<left, site>> /\ Around

-----------------------------------------------------------------------------
(* The services. *)

BridgesChecked ==
    /\ In("bridges") /\ bridge = "none" /\ left = {}
    /\ stage' = "start"
    /\ UNCHANGED <<vars, inputs, setup, check>>

\* sup.Start and the command loop, also when the context is done already.  What the
\* check of the bridges found is not looked at again, and forgotten like the files.
StartServices ==
    /\ In("start") /\ stage' = "run"
    /\ agent' = IF cfg.agent THEN "up" ELSE "stopped"
    /\ loops' = FirstLoops
    /\ site' = NoDamage /\ warned' = {}
    /\ UNCHANGED <<conf, ends, handler, scanner, answer, cmdLoopRunning, ctxDone, main>>
    /\ UNCHANGED <<inputs, setup, left, bridge, step, child, holder>>

\* Without an agent, commands that name it fail.
Runs ==
    /\ stage = "run" /\ Next
    /\ ~cfg.agent => agent' = agent /\ ends' = ends
    /\ UNCHANGED <<stage, inputs, setup, check>>

\* The context exists while the bridges are checked, but nobody looks at it.
SignalWhileChecking ==
    /\ stage \in {"bridges", "start"} /\ Signal
    /\ UNCHANGED <<stage, inputs, setup, check>>

-----------------------------------------------------------------------------

\* What run() does by itself; npm install ends and the timer fires.
Boot ==
    \/ ReadConfig \/ Refuse \/ Register \/ Serve \/ BridgesChecked \/ StartServices
    \/ \E b \in Bridges :
          \/ SkipServer(b) \/ Unusable(b) \/ Install(b) \/ Usable(b)
          \/ Installed(b) \/ InstallFails(b) \/ TestTimer(b) \/ TestOver(b)

Child == HolderEnds \/ \E b \in Bridges : ChildAnswers(b) \/ ChildEnds(b) \/ ChildForks(b)

LaunchNext == Boot \/ Child \/ SignalKills \/ SignalWhileChecking \/ Runs

LaunchSpec == LaunchInit /\ [][LaunchNext]_allVars

\* run() goes on while it can; nobody sends a signal, and no process of a bridge has
\* to answer, or to end by itself.  The rest is AgentExit's fairness.
LaunchFairSpec ==
    /\ LaunchSpec
    /\ WF_allVars(Boot)
    /\ WF_allVars(Runs /\ Exit)
    /\ \A h \in Calls : WF_allVars(Runs /\ Callback(h))

-----------------------------------------------------------------------------
(* Correctness. *)

Settled == stage # "load"

\* A configuration that Load accepted, and that the flags changed, keeps what the
\* later steps rely on without looking: known policies, a server behind every
\* permission layer, a program behind every command, the built-in ones included, and
\* no placeholder in a substituted text, unless a path that was given as the engine's
\* or was found on the machine holds one.
ConfigIsSound ==
    Settled =>
        /\ ValidRestart(cfg.restart) /\ cfg.mode \in {"allow_all", "allowlist", "deny_all"}
        /\ cfg.agent => ValidRestart(cfg.agentRestart) /\ onExit = cfg.onExit
        /\ cfg.permissions => cfg.mcp
        /\ {"compile", "package"} \subseteq DOMAIN cfg.commands
        /\ \A n \in DOMAIN cfg.commands : cfg.commands[n] # {}
        /\ (cfg.engineRoot \cup machine.ueRoot \cup machine.detected \cup machine.uproject)
              \cap Placeholders = {} =>
              LET texts == {cfg.editor, cfg.project, cfg.workdir, cfg.files}
                              \cup {cfg.commands[n] : n \in DOMAIN cfg.commands}
                              \cup {cfg.extra[n].script : n \in DOMAIN cfg.extra}
              IN \A t \in texts : t \cap Placeholders = {}

\* "With permissions.enabled + agent.claudeIntegration the launcher starts the agent
\* with --permission-prompt-tool" (README.md:334) when it runs headless: it is given
\* the tool, the server has it, and takes the token that the agent shows -- no accepted
\* configuration runs it without the permission layer, unless it gives the name
\* "unreagent" to a server of its own.
AgentFindsApprove ==
    stage = "run" /\ cfg.agent /\ cfg.claude /\ cfg.permissions /\ ~interactive =>
        /\ promptTool /\ served.approve
        /\ told = served.token \/ OwnName \in DOMAIN cfg.extra

\* "Stdio bridges are fully checked before the agent starts, with each step logged
\* loudly" (README.md:55): when the services start, a bridge that cannot work was
\* warned of, also one that an interrupted npm install of an earlier run left behind.
BridgesAreReported ==
    stage = "start" =>
        \A b \in DOMAIN cfg.extra :
            cfg.mcp /\ Kind(b) # "http" /\ site[b] # "ready" => b \in warned

\* Whatever a bridge's process does, run() gets to the services or is over, unless a
\* process that the bridge started lives on for ever with its pipes.
StartsUp == stage = "load" ~> stage = "run" \/ main = "over" \/ [](holder = "alive")
=============================================================================
