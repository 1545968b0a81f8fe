---------------------------- MODULE LauncherProofs ----------------------------
(***************************************************************************)
(* The safety of the launcher, from its configuration files to the end of  *)
(* the agent, for any files, machines, bridges and number of ends; and of  *)
(* AgentExit by itself.                                                    *)
(***************************************************************************)
EXTENDS Launcher, FiniteSetTheorems, TLAPS

(* The end of the agent. *)

AgentTypeOK ==
    /\ agent \in {"up", "ended", "stopped"}
    /\ ends \in 0..MaxEnds
    /\ handler \in [Calls -> {"none", "begun", "prompt", "console", "over"}]
    /\ scanner \in [Calls -> {"none", "reading", "done"}]
    /\ answer \in [Calls -> Inputs \cup {"none"}]
    /\ interactive \in BOOLEAN /\ cmdLoopRunning \in BOOLEAN
    /\ loops \in {0, 1}

\* A prompt, or the scanner it left behind: it reads or may come to read stdin.
Asks(h) == handler[h] = "prompt" \/ scanner[h] = "reading"

\* Without the agent on the console there is only the command loop.  With it, as long
\* as the console was not taken over, the latest end is the only one not dealt with,
\* and only while the agent is down; once it was, nobody asks any more, and there is the
\* callback that is about to start the loop, or the loop.
ReaderInv ==
    /\ \A h \in Calls : answer[h] # "none" => scanner[h] = "done"
    /\ \A h \in Calls : handler[h] \in {"none", "begun"} => scanner[h] = "none"
    /\ \A h \in Calls : h > ends => handler[h] = "none"
    /\ ~interactive => ~cmdLoopRunning /\ \A h \in Calls : ~Asks(h) /\ handler[h] # "console"
    /\ interactive /\ ~cmdLoopRunning =>
          /\ loops = 0
          /\ \A h \in Calls : handler[h] # "console"
          /\ \A h \in Calls : Asks(h) \/ handler[h] = "begun" => h = ends /\ agent # "up"
    /\ cmdLoopRunning =>
          /\ \A h \in Calls : ~Asks(h)
          /\ \A h \in Calls : handler[h] = "console" => loops = 0
          /\ \A h, k \in Calls : handler[h] = "console" /\ handler[k] = "console" => h = k

AgentInv == AgentTypeOK /\ ReaderInv

\* Nothing has happened to the agent yet.
Quiet ==
    /\ agent \in {"up", "stopped"} /\ ends = 0 /\ cmdLoopRunning = FALSE
    /\ handler = [h \in Calls |-> "none"]
    /\ scanner = [h \in Calls |-> "none"]
    /\ answer = [h \in Calls |-> "none"]

LEMMA QuietAgent ==
    ASSUME Quiet, interactive \in BOOLEAN, loops \in {0, 1}, interactive => loops = 0
    PROVE  AgentInv
<1>1. ends \in 0..MaxEnds /\ agent \in {"up", "ended", "stopped"}
    BY AgentExitAssumption DEF Quiet
<1>2. cmdLoopRunning \in BOOLEAN
    BY DEF Quiet
<1>3. handler \in [Calls -> {"none", "begun", "prompt", "console", "over"}]
    BY DEF Quiet
<1>4. scanner \in [Calls -> {"none", "reading", "done"}]
    BY DEF Quiet
<1>5. answer \in [Calls -> Inputs \cup {"none"}]
    BY DEF Quiet
<1>6. AgentTypeOK
    BY <1>1, <1>2, <1>3, <1>4, <1>5 DEF AgentTypeOK
<1>7. ReaderInv
    BY DEF Quiet, ReaderInv, Asks
<1> QED BY <1>6, <1>7 DEF AgentInv

LEMMA InitAgentInv == Init => AgentInv
<1> SUFFICES ASSUME Init PROVE AgentInv
    OBVIOUS
<1>1. interactive \in BOOLEAN
    BY DEF Init
<1>2. loops \in {0, 1} /\ (interactive => loops = 0)
    BY DEF Init, FirstLoops
<1>3. Quiet
    BY DEF Init, Quiet
<1> QED BY <1>1, <1>2, <1>3, QuietAgent

\* Every step of the agent, its callbacks, the console and run() keeps it.
LEMMA StepAgentInv == AgentInv /\ [Next]_vars => AgentInv'
<1> SUFFICES ASSUME AgentInv, [Next]_vars PROVE AgentInv'
    OBVIOUS
<1> USE AgentExitAssumption DEF AgentInv, AgentTypeOK, ReaderInv, Asks, conf, Calls
<1>1. CASE AgentEnds
    BY <1>1 DEF AgentEnds, Ended
<1>2. CASE Signal
    BY <1>2 DEF Signal
<1>3. CASE Exit
    BY <1>3 DEF Exit
<1>4. ASSUME NEW h \in Calls, OnlyLog(h) PROVE AgentInv'
    BY <1>4 DEF OnlyLog, At, Over
<1>5. ASSUME NEW h \in Calls, SessionOver(h) PROVE AgentInv'
    BY <1>5 DEF SessionOver, At, Over
<1>6. ASSUME NEW h \in Calls, Prompt(h) PROVE AgentInv'
    <2>1. handler[h] = "begun" /\ ~cmdLoopRunning /\ interactive
        BY <1>6 DEF Prompt, Busy, At
    <2>2. h = ends /\ agent # "up" /\ loops = 0
        BY <2>1
    <2>3. AgentTypeOK'
        BY <1>6 DEF Prompt
    <2>4. ReaderInv'
        BY <1>6, <2>1, <2>2 DEF Prompt
    <2> QED BY <2>3, <2>4
<1>7. ASSUME NEW h \in Calls, MarkConsole(h) PROVE AgentInv'
    BY <1>7 DEF MarkConsole, At
<1>8. ASSUME NEW h \in Calls, OpenConsole(h) PROVE AgentInv'
    BY <1>8 DEF OpenConsole, At, Over
<1>9. ASSUME NEW h \in Calls, RestartAgent(h) PROVE AgentInv'
    BY <1>9 DEF RestartAgent, At, Over, StartAgent, BringUp, Ended
<1>10. ASSUME NEW h \in Calls, PromptStops(h) \/ TimeOut(h) PROVE AgentInv'
    BY <1>10 DEF PromptStops, TimeOut, At, Over
<1>11. ASSUME NEW in \in Inputs, NEW h \in Calls, ScannerReads(h, in) PROVE AgentInv'
    BY <1>11 DEF ScannerReads
<1>12. ASSUME NEW in \in Inputs, LoopReads(in) PROVE AgentInv'
    <2>1. UNCHANGED <<onExit, interactive, scanner, answer, cmdLoopRunning, main>> /\ loops > 0
        BY <1>12 DEF LoopReads
    <2>2. /\ loops = 1 /\ (cmdLoopRunning \/ ~interactive)
        BY <2>1
    <2>3. /\ \A h \in Calls : handler[h] # "console" /\ ~Asks(h)
        BY <2>2
    <2>4. CASE UNCHANGED <<ends, handler>> /\ agent' \in {agent, "up", "stopped"} /\ loops' \in {0, 1}
        BY <2>1, <2>2, <2>3, <2>4
    <2>5. CASE Ended /\ handler' = [handler EXCEPT ![ends + 1] = "begun"] /\ loops' = loops
        BY <2>1, <2>2, <2>3, <2>5 DEF Ended
    <2>6. ASSUME BringUp(handler) \/ StartAgent(handler), UNCHANGED loops PROVE AgentInv'
        BY <2>2, <2>4, <2>5, <2>6 DEF StartAgent, BringUp
    <2>7. ASSUME LoopReturns PROVE AgentInv'
        BY <2>2, <2>4, <2>7 DEF LoopReturns
    <2>8. CASE UNCHANGED <<ends, handler, loops>> /\ agent' \in {agent, "stopped"}
        BY <2>2, <2>4, <2>8
    <2> QED BY <1>12, <2>6, <2>7, <2>8 DEF LoopReads
<1>13. CASE UNCHANGED vars
    BY <1>13 DEF vars
<1> QED
    BY <1>1, <1>2, <1>3, <1>4, <1>5, <1>6, <1>7, <1>8, <1>9, <1>10, <1>11, <1>12, <1>13
    DEF Next, Callback, User

\* The configuration never changes.
LEMMA ConfUnchanged == [Next]_vars => UNCHANGED conf
BY DEF Next, vars, AgentEnds, Signal, Exit, Callback, User, OnlyLog, SessionOver, Prompt,
       MarkConsole, OpenConsole, RestartAgent, PromptStops, TimeOut, ScannerReads, LoopReads

\* Who may read stdin, counted.
LEMMA OneReader == AgentInv => OneStdinReader
<1> SUFFICES ASSUME AgentInv PROVE OneStdinReader
    OBVIOUS
<1>1. Scanners = {} \/ (Scanners = {ends} /\ loops = 0)
    BY DEF AgentInv, AgentTypeOK, ReaderInv, Asks, Scanners
<1>2. Cardinality({}) = 0 /\ Cardinality({ends}) = 1
    BY FS_EmptySet, FS_Singleton
<1> QED BY <1>1, <1>2 DEF OneStdinReader, AgentInv, AgentTypeOK

\* A foreground agent that runs has the console to itself, unless the user chose the
\* launcher's: a scanner is left only by the latest end, and the agent is down then.
LEMMA AgentReadsAlone == AgentInv => AgentOwnsStdin
BY DEF AgentInv, AgentTypeOK, ReaderInv, Asks, Scanners, AgentOwnsStdin

\* While the editor is kept, no callback of the agent stops the launcher.
LEMMA OnlyUserStops ==
    AgentInv /\ [Next]_vars =>
        (cmdLoopRunning /\ ctxDone' # ctxDone => Signal \/ LoopReads("q"))
<1> SUFFICES ASSUME AgentInv, Next, cmdLoopRunning, ctxDone' # ctxDone
             PROVE  Signal \/ LoopReads("q")
    BY DEF vars
<1>1. ~AgentEnds /\ ~Exit
    BY DEF AgentEnds, Exit
<1>2. ASSUME NEW h \in Calls PROVE ~Callback(h) /\ ~TimeOut(h)
    BY DEF AgentInv, ReaderInv, Asks, Callback, OnlyLog, SessionOver, Busy, Prompt, MarkConsole,
           OpenConsole, RestartAgent, PromptStops, TimeOut, At
<1>3. ASSUME NEW in \in Inputs, User(in) PROVE LoopReads("q")
    BY <1>3 DEF User, ScannerReads, LoopReads
<1> QED BY <1>1, <1>2, <1>3 DEF Next

\* The end of the agent by itself, also where stdin may end: the launcher reads stdin
\* in one place at most, whatever the policy and the mode.
THEOREM AgentReadsOnce == Spec => []OneStdinReader
<1>1. AgentInv => OneStdinReader
    BY OneReader
<1> QED BY <1>1, InitAgentInv, StepAgentInv, PTL DEF Spec

-----------------------------------------------------------------------------
(* The configuration. *)

Settings == DOMAIN Zero

\* A configuration whose bridges are entries with a name that may be one.
WellFormed(c) ==
    /\ DOMAIN c = Settings
    /\ DOMAIN c.extra \subseteq Bridges
    /\ \A b \in DOMAIN c.extra : DOMAIN c.extra[b] = {"kind", "script"}

Texts(c) ==
    {c.editor, c.project, c.workdir, c.files}
        \cup {c.commands[n] : n \in DOMAIN c.commands}
        \cup {c.extra[n].script : n \in DOMAIN c.extra}

Clean(text) == text \cap Placeholders = {}

\* The paths that the configuration and the machine give.
Given(c, m) == c.engineRoot \cup m.ueRoot \cup m.detected \cup m.uproject

LEMMA ZeroWellFormed == WellFormed(Zero)
BY DEF WellFormed, Settings, Zero

\* A file laid over a configuration leaves one.
LEMMA OverlayWellFormed ==
    ASSUME NEW c, WellFormed(c), NEW file \in Yamls \cup Locals
    PROVE  WellFormed(Overlay(c, file.sets))
<1> DEFINE o == Overlay(c, file.sets)
<1>1. "extra" \in Settings
    BY DEF Settings, Zero
<1>2. DOMAIN o = Settings
    BY DEF Overlay, WellFormed
<1>3. o.extra = IF "extra" \notin DOMAIN file.sets THEN c.extra ELSE LaidOver(file.sets.extra, c.extra)
    BY <1>1 DEF Overlay, WellFormed, Maps
<1>4. CASE "extra" \notin DOMAIN file.sets
    BY <1>2, <1>3, <1>4 DEF WellFormed
<1>5. CASE "extra" \in DOMAIN file.sets
    <2>1. /\ DOMAIN file.sets.extra \subseteq Bridges
          /\ \A b \in DOMAIN file.sets.extra : DOMAIN file.sets.extra[b] = {"kind", "script"}
        BY <1>5, LauncherAssumption
    <2>2. /\ DOMAIN o.extra = DOMAIN file.sets.extra \cup DOMAIN c.extra
          /\ \A b \in DOMAIN o.extra :
                o.extra[b] = IF b \in DOMAIN file.sets.extra THEN file.sets.extra[b] ELSE c.extra[b]
        BY <1>3, <1>5 DEF LaidOver
    <2> HIDE DEF o
    <2>3. WellFormed(o)
        BY <1>2, <2>1, <2>2 DEF WellFormed
    <2> QED BY <2>3 DEF o
<1> QED BY <1>4, <1>5

\* One pass over a text leaves no placeholder when nothing it puts in holds one.
LEMMA ReplacedClean ==
    ASSUME NEW value, \A p \in Placeholders : Clean(value[p]), NEW text
    PROVE  Clean(Replaced(text, value))
BY DEF Clean, Replaced

\* The substituted texts, one by one.
LEMMA SubstitutedTexts ==
    ASSUME NEW c, WellFormed(c), NEW value
    PROVE  LET d == Substituted(c, value)
           IN  /\ WellFormed(d)
               /\ DOMAIN d.commands = DOMAIN c.commands
               /\ d.engineRoot = c.engineRoot
               /\ \A t \in Texts(d) : \E text : t = Replaced(text, value)
<1> DEFINE d == Substituted(c, value)
<1>1. {"engineRoot", "editor", "project", "workdir", "files", "commands", "extra"} \subseteq Settings
    BY DEF Settings, Zero
<1>2. DOMAIN d = Settings
    BY DEF Substituted, WellFormed
<1>3. /\ d.editor = Replaced(c.editor, value) /\ d.project = Replaced(c.project, value)
      /\ d.workdir = Replaced(c.workdir, value) /\ d.files = Replaced(c.files, value)
    BY <1>1 DEF Substituted, WellFormed
<1>4. d.commands = [n \in DOMAIN c.commands |-> Replaced(c.commands[n], value)]
    BY <1>1 DEF Substituted, WellFormed
<1>5. d.extra = [n \in DOMAIN c.extra |-> EntrySubstituted(c.extra[n], value)]
    BY <1>1 DEF Substituted, WellFormed
<1>6. d.engineRoot = c.engineRoot
    BY <1>1 DEF Substituted, WellFormed
<1> HIDE DEF d
<1>7. WellFormed(d)
    BY <1>2, <1>5 DEF WellFormed, EntrySubstituted
<1>8. \A n \in DOMAIN d.extra : d.extra[n].script = Replaced(c.extra[n].script, value)
    BY <1>5 DEF WellFormed, EntrySubstituted
<1>9. \A t \in Texts(d) : \E text : t = Replaced(text, value)
    BY <1>3, <1>4, <1>8 DEF Texts
<1> QED BY <1>4, <1>7, <1>9, <1>6 DEF d

\* What Load makes of any files: the texts hold no placeholder when the given
\* paths hold none, and the built-in commands are there.
LEMMA CompletedSound ==
    ASSUME NEW c, WellFormed(c), NEW m
    PROVE  LET d == Completed(c, m)
           IN  /\ WellFormed(d)
               /\ {"compile", "package"} \subseteq DOMAIN d.commands
               /\ Clean(Given(d, m)) => \A t \in Texts(d) : Clean(t)
<1> DEFINE w == WithDefaults(c)
           project == ResolveProject(w, m)
           r == [w EXCEPT !.project = project]
           part(x) == IF project = {} THEN {} ELSE {x}
           value == [p \in Placeholders |->
                       CASE p = "${ENGINE}" -> ResolveEngine(w, m)
                         [] p = "${PROJECT}" -> project
                         [] p = "${PROJECT_DIR}" -> part("project directory")
                         [] p = "${PROJECT_NAME}" -> part("project name")]
           d == Completed(c, m)
<1>1. {"extra", "project", "engineRoot", "commands"} \subseteq Settings
    BY DEF Settings, Zero
<1>2. /\ DOMAIN w = Settings /\ w.extra = c.extra
      /\ w.commands = LaidOver(c.commands, BuiltIn)
    BY <1>1 DEF WithDefaults, WellFormed
<1>3. WellFormed(w) /\ {"compile", "package"} \subseteq DOMAIN w.commands
    <2>1. {"compile", "package"} \subseteq DOMAIN w.commands
        BY <1>2 DEF LaidOver, BuiltIn
    <2>2. WellFormed(w)
        <3> HIDE DEF w
        <3> QED BY <1>2 DEF WellFormed
    <2> QED BY <2>1, <2>2
<1>4. WellFormed(r) /\ r.commands = w.commands /\ r.engineRoot = w.engineRoot
    BY <1>1, <1>2, <1>3 DEF WellFormed
<1>5. Clean(Given(w, m)) => Clean(project) /\ Clean(ResolveEngine(w, m))
    BY DEF ResolveProject, ResolveEngine, Clean, Given
<1>6. d = Substituted(r, value)
    BY DEF Completed, Resolved
<1>7. Clean(Given(r, m)) => \A p \in Placeholders : Clean(value[p])
    BY <1>4, <1>5 DEF Placeholders, Clean, Given
<1> HIDE DEF d, r, value
<1>8. /\ WellFormed(d) /\ DOMAIN d.commands = DOMAIN r.commands /\ d.engineRoot = r.engineRoot
      /\ \A t \in Texts(d) : \E text : t = Replaced(text, value)
    BY <1>4, <1>6, SubstitutedTexts
<1>9. Clean(Given(r, m)) => \A t \in Texts(d) : Clean(t)
    BY <1>7, <1>8, ReplacedClean DEF Given
<1> QED BY <1>3, <1>4, <1>8, <1>9 DEF d, Given

-----------------------------------------------------------------------------
(* run() up to the start of the services, and after it. *)

StageInv ==
    /\ stage \in {"load", "register", "serve", "bridges", "start", "run"}
    \* Nothing of the agent happens before the services start.
    /\ stage # "run" => Quiet /\ loops = 0
    /\ stage = "load" => yaml \in Yamls /\ local \in Locals /\ machine \in Machines
    /\ stage \in {"load", "register", "serve"} => bridge = "none" /\ step = "none"
    /\ Settled => WellFormed(cfg)

\* What the agent is told and what the server serves goes back to the configuration.
ToldInv ==
    /\ stage \notin {"load", "register"} /\ cfg.agent /\ cfg.mcp /\ cfg.claude =>
          (promptTool <=> cfg.permissions /\ ~interactive) /\ told = ToldToken
    /\ stage \in {"bridges", "start", "run"} /\ cfg.mcp =>
          (served.approve <=> cfg.permissions) /\ served.token = cfg.token

\* A bridge that cannot work is still to come, being checked, or was warned of.
Unsound(b) == cfg.mcp /\ Kind(b) # "http" /\ site[b] # "ready"

BridgeInv ==
    stage \in {"bridges", "start"} =>
        /\ DOMAIN site = Bridges
        /\ left \subseteq DOMAIN cfg.extra
        /\ bridge # "none" => bridge \in DOMAIN cfg.extra /\ bridge \notin left
        /\ step = "answered" => site[bridge] = "ready"
        /\ \A b \in DOMAIN cfg.extra \ (left \cup {bridge}) : Unsound(b) => b \in warned
        /\ stage = "start" => left = {} /\ bridge = "none"

IInv == interactive \in BOOLEAN /\ AgentInv /\ StageInv /\ ConfigIsSound /\ ToldInv /\ BridgeInv

LEMMA InitLaunch == LaunchInit => IInv
<1> SUFFICES ASSUME LaunchInit PROVE IInv
    OBVIOUS
<1>1. Quiet /\ interactive = FALSE /\ loops = 0 /\ stage = "load" /\ bridge = "none" /\ step = "none"
    BY DEF LaunchInit, Quiet
<1>2. AgentInv
    BY <1>1, QuietAgent
<1>3. yaml \in Yamls /\ local \in Locals /\ machine \in Machines
    BY DEF LaunchInit
<1>4. StageInv /\ ConfigIsSound /\ ToldInv /\ BridgeInv
    BY <1>1, <1>3 DEF StageInv, ConfigIsSound, Settled, ToldInv, ToldToken, BridgeInv
<1> QED BY <1>1, <1>2, <1>4 DEF IInv

\* What Load accepted, with the flag -no-agent, is sound.
LEMMA StepReadConfig == IInv /\ ReadConfig => IInv'
<1> SUFFICES ASSUME IInv, ReadConfig PROVE IInv'
    OBVIOUS
<1> DEFINE overlaid == Overlay(Overlay(Zero, yaml.sets), local.sets)
           read == Completed(overlaid, machine)
<1>1. /\ stage = "load" /\ stage' = "register"
      /\ yaml \in Yamls /\ local \in Locals /\ machine \in Machines
    BY DEF ReadConfig, In, IInv, StageInv
<1>2. /\ Valid(read)
      /\ cfg' = [read EXCEPT !.agent = @ /\ ~noAgent]
      /\ cfg'.agent => onExit' = cfg'.onExit
      /\ interactive' = WindowMode(cfg')
    <2>1. Loaded[<<yaml, local, machine>>] = Load(yaml, local, machine)
        BY <1>1 DEF Loaded
    <2>2. Load(yaml, local, machine) = [ok |-> yaml.ok /\ local.ok /\ Valid(read), config |-> read]
        BY DEF Load
    <2> HIDE DEF read
    <2>3. Loaded[<<yaml, local, machine>>].ok => Valid(read)
        <3> DEFINE ok == yaml.ok /\ local.ok /\ Valid(read)
        <3>1. Load(yaml, local, machine).ok = ok
            BY <2>2
        <3> QED BY <2>1, <3>1
    <2>4. Loaded[<<yaml, local, machine>>].config = read
        BY <2>1, <2>2
    <2> QED BY <2>3, <2>4 DEF ReadConfig
<1>3. /\ WellFormed(read)
      /\ {"compile", "package"} \subseteq DOMAIN read.commands
      /\ Clean(Given(read, machine)) => \A t \in Texts(read) : Clean(t)
    BY <1>1, ZeroWellFormed, OverlayWellFormed, CompletedSound
<1> HIDE DEF read
<1>4. WellFormed(cfg') /\ Texts(cfg') = Texts(read) /\ (cfg'.agent => read.agent)
    BY <1>2, <1>3 DEF WellFormed, Texts, Settings, Zero
<1>5. ConfigIsSound'
    <2>1. machine' = machine /\ cfg'.engineRoot = read.engineRoot
        BY <1>2, <1>3 DEF ReadConfig, WellFormed, Settings, Zero
    <2>2. Clean(Given(cfg', machine')) => \A t \in Texts(cfg') : Clean(t)
        BY <1>3, <1>4, <2>1 DEF Given
    <2> HIDE DEF Clean
    <2>3. /\ ValidRestart(cfg'.restart) /\ cfg'.mode \in {"allow_all", "allowlist", "deny_all"}
          /\ cfg'.agent => ValidRestart(cfg'.agentRestart) /\ onExit' = cfg'.onExit
          /\ cfg'.permissions => cfg'.mcp
          /\ {"compile", "package"} \subseteq DOMAIN cfg'.commands
          /\ \A n \in DOMAIN cfg'.commands : cfg'.commands[n] # {}
        BY <1>2, <1>3, <1>4 DEF Valid, WellFormed, Settings, Zero
    <2> QED BY <2>2, <2>3 DEF ConfigIsSound, Texts, Clean, Given
<1>6. AgentInv'
    <2>1. /\ UNCHANGED <<agent, ends, handler, scanner, answer, cmdLoopRunning, loops>>
          /\ Quiet /\ loops = 0 /\ AgentTypeOK
        BY <1>1 DEF ReadConfig, IInv, StageInv, AgentInv
    <2>2. interactive' \in BOOLEAN
        BY <1>2 DEF WindowMode
    <2>3. AgentTypeOK'
        BY <2>1, <2>2 DEF AgentTypeOK
    <2>4. ReaderInv'
        BY <2>1 DEF ReaderInv, Asks, Quiet
    <2> QED BY <2>3, <2>4 DEF AgentInv
<1>7. StageInv' /\ ToldInv' /\ BridgeInv'
    BY <1>1, <1>4 DEF ReadConfig, IInv, StageInv, Quiet, Settled, ToldInv, ToldToken, BridgeInv, check
<1>8. (interactive \in BOOLEAN)'
    BY <1>2 DEF WindowMode
<1> QED BY <1>5, <1>6, <1>7, <1>8 DEF IInv

\* Registering, serving and the check of the bridges, each step of which leaves the
\* agent and the configuration alone.
LEMMA StepBridges ==
    ASSUME BridgeInv, DOMAIN cfg.extra \subseteq Bridges, NEW b \in Bridges,
           \/ SkipServer(b) \/ Unusable(b) \/ Install(b) \/ Usable(b)
           \/ Installed(b) \/ InstallFails(b) \/ TestTimer(b) \/ TestOver(b)
           \/ ChildAnswers(b) \/ ChildEnds(b) \/ ChildForks(b) \/ HolderEnds
    PROVE  BridgeInv'
<1>1. /\ "none" \notin Bridges /\ b # "none"
    BY LauncherAssumption
<1>2. UNCHANGED <<stage, cfg>>
    BY DEF SkipServer, Unusable, Install, Usable, Installed, InstallFails, TestTimer, TestOver,
           ChildAnswers, ChildEnds, ChildForks, HolderEnds, Around, setup
<1>3. CASE stage # "bridges"
    BY <1>2, <1>3 DEF HolderEnds, SkipServer, Unusable, Install, Usable, Installed, InstallFails,
           TestTimer, TestOver, ChildAnswers, ChildEnds, ChildForks, Takes, Checks, In, BridgeInv, Unsound, Kind
<1>4. ASSUME stage = "bridges", SkipServer(b) \/ Unusable(b) PROVE BridgeInv'
    BY <1>1, <1>2, <1>4 DEF SkipServer, Unusable, Takes, BridgeInv, Unsound, Kind
<1>5. ASSUME stage = "bridges", Install(b) \/ Usable(b) PROVE BridgeInv'
    <2>1. /\ bridge = "none" /\ b \in left /\ left' = left \ {b} /\ site' = site
          /\ step' # "answered" \/ step' = step
        BY <1>5 DEF Install, Usable, TestBridge, BeginTest, Takes
    <2>2. \/ bridge' = b /\ step' # "answered" /\ warned' = warned
          \/ bridge' = "none" /\ step' = step /\ warned' = warned \cup {b}
        BY <1>5, <2>1 DEF Install, Usable, TestBridge, BeginTest
    <2> QED BY <1>1, <1>2, <1>5, <2>1, <2>2 DEF BridgeInv, Unsound, Kind
<1>6. ASSUME stage = "bridges", Installed(b) \/ InstallFails(b) PROVE BridgeInv'
    <2>1. /\ bridge = b /\ left' = left /\ DOMAIN site' = DOMAIN site
          /\ \A c \in Bridges \ {b} : DOMAIN site = Bridges => site'[c] = site[c]
        BY <1>6 DEF Installed, InstallFails, Checks
    <2>2. \/ bridge' = b /\ step' = "reading" /\ warned' = warned
          \/ bridge' = "none" /\ step' = "none" /\ warned' = warned \cup {b}
        BY <1>6 DEF Installed, InstallFails, BeginTest
    <2> QED BY <1>1, <1>2, <1>6, <2>1, <2>2 DEF BridgeInv, Unsound, Kind
<1>7. ASSUME stage = "bridges", TestTimer(b) \/ TestOver(b) PROVE BridgeInv'
    BY <1>1, <1>2, <1>7 DEF TestTimer, TestOver, Checks, BridgeInv, Unsound, Kind
<1>8. ASSUME stage = "bridges", ChildAnswers(b) \/ ChildEnds(b) \/ ChildForks(b) \/ HolderEnds
      PROVE  BridgeInv'
    BY <1>1, <1>2, <1>8 DEF ChildAnswers, ChildEnds, ChildForks, HolderEnds, Checks, BridgeInv, Unsound, Kind
<1> QED BY <1>3, <1>4, <1>5, <1>6, <1>7, <1>8

\* Every step of run() keeps the invariant.
LEMMA StepLaunch == IInv /\ [LaunchNext]_allVars => IInv'
<1> SUFFICES ASSUME IInv, [LaunchNext]_allVars PROVE IInv'
    OBVIOUS
<1>1. CASE ReadConfig
    BY <1>1, StepReadConfig
<1>2. CASE UNCHANGED allVars
    BY <1>2 DEF IInv, AgentInv, AgentTypeOK, ReaderInv, Asks, StageInv, Quiet, ConfigIsSound, Settled,
       ToldInv, ToldToken, BridgeInv, Unsound, Kind, WellFormed, allVars, vars, conf, inputs, setup, check
<1>3. ASSUME UNCHANGED <<conf, agent, ends, handler, scanner, answer, cmdLoopRunning, loops, inputs, cfg>>,
             stage' \in {"load", "register", "serve", "bridges", "start"}, stage # "run",
             stage = "load" <=> stage' = "load", ToldInv', BridgeInv',
             \/ stage' \in {"bridges", "start"}
             \/ stage \in {"load", "register", "serve"} /\ UNCHANGED <<bridge, step>>
      PROVE  IInv'
    <2>1. AgentInv' /\ (interactive \in BOOLEAN)'
        BY <1>3 DEF IInv, conf, AgentInv, AgentTypeOK, ReaderInv, Asks
    <2>2. StageInv'
        BY <1>3 DEF IInv, StageInv, Quiet, inputs, Settled, WellFormed
    <2>3. ConfigIsSound'
        BY <1>3 DEF IInv, ConfigIsSound, Settled, conf, inputs
    <2> QED BY <1>3, <2>1, <2>2, <2>3 DEF IInv
<1>4. CASE Refuse \/ SignalKills
    <2>1. UNCHANGED <<conf, agent, ends, handler, scanner, answer, cmdLoopRunning, loops, stage, inputs, setup, check>>
        BY <1>4 DEF Refuse, SignalKills
    <2>2. stage \in {"load", "register", "serve"}
        BY <1>4 DEF Refuse, SignalKills, In
    <2>3. ToldInv' /\ BridgeInv'
        BY <2>1, <2>2 DEF IInv, ToldInv, ToldToken, BridgeInv, conf, setup, check
    <2> QED BY <1>3, <2>1, <2>2, <2>3 DEF setup, check
<1>5. CASE SignalWhileChecking
    <2>1. UNCHANGED <<conf, agent, ends, handler, scanner, answer, cmdLoopRunning, loops, stage, inputs, setup, check>>
        BY <1>5 DEF SignalWhileChecking, Signal
    <2>2. stage \in {"bridges", "start"}
        BY <1>5 DEF SignalWhileChecking
    <2>3. ToldInv' /\ BridgeInv'
        BY <2>1, <2>2 DEF IInv, ToldInv, ToldToken, BridgeInv, Unsound, Kind, conf, setup, check
    <2> QED BY <1>3, <2>1, <2>2, <2>3 DEF setup
<1>6. CASE Register
    <2>1. UNCHANGED <<vars, inputs, cfg>> /\ stage = "register" /\ stage' = "serve"
        BY <1>6 DEF Register, In
    <2>2. UNCHANGED <<served, check, interactive>>
        BY <1>6 DEF Register, vars, conf
    <2>3. ASSUME cfg.agent, cfg.mcp, cfg.claude
          PROVE  promptTool' = (cfg.permissions /\ ~interactive) /\ told' = ToldToken
        BY <1>6, <2>3 DEF Register
    <2>4. ToldInv'
        BY <2>1, <2>2, <2>3 DEF ToldInv, ToldToken
    <2>5. BridgeInv'
        BY <2>1 DEF BridgeInv
    <2> QED BY <1>3, <2>1, <2>2, <2>4, <2>5 DEF vars, check
<1>7. CASE Serve
    <2>1. UNCHANGED <<vars, inputs, cfg, promptTool, told, bridge, step, warned>> /\ stage = "serve" /\ stage' = "bridges"
        BY <1>7 DEF Serve, In
    <2>2. ToldInv'
        BY <1>7, <2>1 DEF Serve, IInv, ToldInv, ToldToken, vars, conf
    <2>3. bridge' = "none" /\ step' = "none"
        BY <2>1 DEF IInv, StageInv
    <2>4. DOMAIN site' = Bridges
        BY <1>7 DEF Serve
    <2>5. left' \subseteq DOMAIN cfg.extra /\ (cfg.mcp => left' = DOMAIN cfg.extra)
        BY <1>7 DEF Serve
    <2>6. BridgeInv'
        BY <2>1, <2>3, <2>4, <2>5 DEF BridgeInv, Unsound
    <2> QED BY <1>3, <2>1, <2>2, <2>6 DEF vars
<1>8. CASE BridgesChecked
    <2>1. UNCHANGED <<vars, inputs, setup, check>> /\ stage = "bridges" /\ stage' = "start"
        BY <1>8 DEF BridgesChecked, In
    <2>2. ToldInv'
        BY <2>1 DEF IInv, ToldInv, ToldToken, vars, conf, setup
    <2>3. BridgeInv'
        BY <1>8, <2>1 DEF BridgesChecked, IInv, BridgeInv, Unsound, Kind, setup, check
    <2> QED BY <1>3, <2>1, <2>2, <2>3 DEF vars, setup
<1>9. ASSUME NEW b \in Bridges,
             \/ SkipServer(b) \/ Unusable(b) \/ Install(b) \/ Usable(b)
             \/ Installed(b) \/ InstallFails(b) \/ TestTimer(b) \/ TestOver(b)
             \/ ChildAnswers(b) \/ ChildEnds(b) \/ ChildForks(b)
      PROVE  IInv'
    <2>1. stage = "bridges" /\ UNCHANGED <<vars, stage, inputs, setup>>
        BY <1>9 DEF SkipServer, Unusable, Install, Usable, Installed, InstallFails, TestTimer, TestOver,
           ChildAnswers, ChildEnds, ChildForks, Around, Takes, Checks, In
    <2>2. BridgeInv'
        BY <1>9, <2>1, StepBridges DEF IInv, StageInv, Settled, WellFormed
    <2>3. ToldInv'
        BY <2>1 DEF IInv, ToldInv, ToldToken, vars, conf, setup
    <2> QED BY <1>3, <2>1, <2>2, <2>3 DEF vars, setup
<1>10. CASE StartServices
    <2>1. /\ stage = "start" /\ stage' = "run" /\ UNCHANGED <<conf, ends, handler, scanner, answer, cmdLoopRunning>>
          /\ agent' \in {"up", "stopped"} /\ loops' = IF interactive THEN 0 ELSE 1
          /\ UNCHANGED <<inputs, setup>>
        BY <1>10 DEF StartServices, In, FirstLoops
    <2>2. Quiet /\ AgentTypeOK /\ interactive \in BOOLEAN
        BY <2>1 DEF IInv, StageInv, AgentInv
    <2>3. AgentTypeOK'
        BY <2>1, <2>2 DEF AgentTypeOK, conf
    <2>4. ReaderInv'
        BY <2>1, <2>2 DEF ReaderInv, Asks, Quiet, conf
    <2>5. StageInv' /\ ConfigIsSound'
        BY <2>1 DEF IInv, StageInv, ConfigIsSound, Settled, WellFormed, setup, conf, inputs
    <2>6. ToldInv' /\ BridgeInv'
        BY <2>1 DEF IInv, ToldInv, ToldToken, BridgeInv, setup, conf
    <2> QED BY <2>1, <2>2, <2>3, <2>4, <2>5, <2>6 DEF IInv, AgentInv, conf
<1>11. CASE Runs \/ HolderEnds
    <2>1. /\ [Next]_vars /\ UNCHANGED <<stage, inputs, setup>>
          /\ UNCHANGED <<left, bridge, step, site, warned>>
        BY <1>11 DEF Runs, HolderEnds, Around, check
    <2>2. AgentInv' /\ UNCHANGED conf
        BY <2>1, StepAgentInv, ConfUnchanged DEF IInv
    <2>3. stage = "run" \/ UNCHANGED vars
        BY <1>11 DEF Runs, HolderEnds, Around
    <2>4. StageInv'
        BY <2>1, <2>3 DEF IInv, StageInv, Settled, WellFormed, Quiet, vars, setup, inputs
    <2>5. ConfigIsSound' /\ ToldInv' /\ (interactive \in BOOLEAN)'
        BY <2>1, <2>2 DEF IInv, ConfigIsSound, Settled, ToldInv, ToldToken, setup, conf, inputs
    <2>6. BridgeInv'
        BY <2>1 DEF IInv, BridgeInv, Unsound, Kind, setup
    <2> QED BY <2>2, <2>4, <2>5, <2>6 DEF IInv
<1> QED BY <1>1, <1>2, <1>4, <1>5, <1>6, <1>7, <1>8, <1>9, <1>10, <1>11 DEF LaunchNext, Boot, Child

\* The invariant holds in every reachable state.
THEOREM Invariance == LaunchSpec => []IInv
BY InitLaunch, StepLaunch, PTL DEF LaunchSpec

\* Load accepts only configurations on which the later steps can rely, whatever is in
\* the files and on the machine.
THEOREM AcceptedIsSound == LaunchSpec => []ConfigIsSound
<1>1. IInv => ConfigIsSound
    BY DEF IInv
<1> QED BY <1>1, Invariance, PTL

\* No accepted configuration runs a headless agent without its permission layer: it is
\* told of a tool that the server has and, unless another server was given the name, of
\* the token that the server takes.
THEOREM ApproveIsServed == LaunchSpec => []AgentFindsApprove
<1>1. IInv => AgentFindsApprove
    BY DEF IInv, ConfigIsSound, Settled, ToldInv, ToldToken, AgentFindsApprove
<1> QED BY <1>1, Invariance, PTL

\* No bridge that cannot work is started with without a warning, whatever an earlier
\* npm install left on the disk.
THEOREM BrokenIsWarned == LaunchSpec => []BridgesAreReported
<1>1. IInv => BridgesAreReported
    BY LauncherAssumption DEF IInv, StageInv, Settled, WellFormed, BridgeInv, BridgesAreReported, Unsound
<1> QED BY <1>1, Invariance, PTL

\* The launcher reads stdin in one place at most, for any number of ends of the agent.
THEOREM StdinHasOneReader == LaunchSpec => []OneStdinReader
<1>1. IInv => OneStdinReader
    BY OneReader DEF IInv
<1> QED BY <1>1, Invariance, PTL

\* From the start of the services on, the launcher leaves stdin to a foreground agent
\* that runs, through all its ends, prompts and restarts, until the user takes the
\* launcher's console.
THEOREM StdinIsTheAgents == LaunchSpec => []AgentOwnsStdin
<1>1. IInv => AgentOwnsStdin
    BY AgentReadsAlone DEF IInv
<1> QED BY <1>1, Invariance, PTL

\* Once the user chose to keep the editor, only the user stops the launcher.
THEOREM EditorIsKept == LaunchSpec => KeptUntilAsked
<1>1. IInv /\ [LaunchNext]_allVars =>
        [cmdLoopRunning /\ ctxDone' # ctxDone => Signal \/ LoopReads("q")]_vars
    <2> SUFFICES ASSUME IInv, LaunchNext, cmdLoopRunning, ctxDone' # ctxDone
                 PROVE  Signal \/ LoopReads("q")
        BY DEF allVars, vars
    <2>1. CASE Runs
        BY <2>1, OnlyUserStops DEF Runs, IInv
    <2>2. CASE SignalWhileChecking
        BY <2>2 DEF SignalWhileChecking
    <2>3. ~Boot /\ ~Child /\ ~SignalKills
        BY DEF Boot, Child, SignalKills, ReadConfig, Refuse, Register, Serve, BridgesChecked,
           StartServices, SkipServer, Unusable, Install, Usable, Installed, InstallFails, TestTimer,
           TestOver, HolderEnds, ChildAnswers, ChildEnds, ChildForks, Around, vars
    <2> QED BY <2>1, <2>2, <2>3 DEF LaunchNext
<1> QED BY <1>1, Invariance, PTL DEF LaunchSpec, KeptUntilAsked
===============================================================================
