------------------------------- MODULE Config -------------------------------
(***************************************************************************)
(* config.Load: unreagent.yaml, overlaid by unreagent.local.yaml,          *)
(* completed with defaults and with what is found on the machine, its      *)
(* placeholders substituted, and validated.                                *)
(*                                                                         *)
(* A file is what decoding it gives: a function from the settings it holds *)
(* to their values, or not ok.  A path, or any text with placeholders, is  *)
(* the set of the placeholders and of the other pieces in it; {} is "".    *)
(* The settings are those that later steps of the launcher tell apart.     *)
(***************************************************************************)
Placeholders == {"${ENGINE}", "${PROJECT}", "${PROJECT_DIR}", "${PROJECT_NAME}"}

\* A Config as Go makes it.
Zero == [engineRoot |-> {}, editor |-> {}, project |-> {}, restart |-> "",
         agent |-> FALSE, agentRestart |-> "", onExit |-> "", headless |-> FALSE,
         window |-> "unset", claude |-> FALSE, workdir |-> {},
         mcp |-> FALSE, token |-> "", extra |-> <<>>,
         permissions |-> FALSE, mode |-> "", files |-> {}, commands |-> <<>>]

\* The settings that are a map from names.
Maps == {"extra", "commands"}

\* A map over another one: its own entries, and the other's for every other name.
LaidOver(new, old) ==
    [n \in DOMAIN new \cup DOMAIN old |-> IF n \in DOMAIN new THEN new[n] ELSE old[n]]

\* Decoding a file into what is there: an entry of a map replaces the whole entry
\* of that name, every other setting is replaced.
Overlay(c, file) ==
    [f \in DOMAIN c |-> IF f \notin DOMAIN file THEN c[f]
                        ELSE IF f \in Maps THEN LaidOver(file[f], c[f]) ELSE file[f]]

\* Built-in commands, for names that the user does not define.
BuiltIn == [n \in {"compile", "package"} |-> {"${ENGINE}", "${PROJECT}", "Build"}]

\* applyDefaults
WithDefaults(c) ==
    [c EXCEPT !.editor = IF @ = {} THEN {"${ENGINE}", "UnrealEditor"} ELSE @,
              !.restart = IF @ = "" THEN "on-failure" ELSE @,
              !.agentRestart = IF @ = "" THEN "on-failure" ELSE @,
              !.onExit = IF @ = "" THEN "ask" ELSE @,
              !.mode = IF @ = "" THEN "allowlist" ELSE @,
              !.files = IF @ = {} THEN {"${PROJECT_DIR}"} ELSE @,
              !.commands = LaidOver(@, BuiltIn)]

-----------------------------------------------------------------------------
(* The machine: env UE_ROOT, an engine that autodetectEngine finds, and a  *)
(* .uproject next to the configuration; {} where there is none.            *)

ResolveEngine(c, machine) ==
    IF machine.ueRoot # {} THEN machine.ueRoot
    ELSE IF c.engineRoot # {} THEN c.engineRoot ELSE machine.detected

\* A project with a placeholder in it counts as none.
ResolveProject(c, machine) ==
    IF c.project # {} /\ c.project \cap Placeholders = {} THEN c.project ELSE machine.uproject

\* One pass: what a placeholder is replaced by is not looked at again.
Replaced(path, value) ==
    UNION {IF x \in Placeholders THEN value[x] ELSE {x} : x \in path}

\* substituteAny: the texts of an entry of mcp.extraServers.
EntrySubstituted(entry, value) == [entry EXCEPT !.script = Replaced(@, value)]

\* substitute: agent.command, agent.args and agent.env are left as they are.
Substituted(c, value) ==
    [c EXCEPT !.editor = Replaced(@, value), !.project = Replaced(@, value),
              !.workdir = Replaced(@, value), !.files = Replaced(@, value),
              !.commands = [n \in DOMAIN @ |-> Replaced(@[n], value)],
              !.extra = [n \in DOMAIN @ |-> EntrySubstituted(@[n], value)]]

\* The project is resolved first and the resolved path written back.
Resolved(c, machine) ==
    LET project == ResolveProject(c, machine)
        part(x) == IF project = {} THEN {} ELSE {x}
    IN Substituted([c EXCEPT !.project = project],
                   [p \in Placeholders |->
                       CASE p = "${ENGINE}" -> ResolveEngine(c, machine)
                         [] p = "${PROJECT}" -> project
                         [] p = "${PROJECT_DIR}" -> part("project directory")
                         [] p = "${PROJECT_NAME}" -> part("project name")])

\* mutant: the defaults are filled in when everything else is done.
DefaultsLast(c, machine) == WithDefaults(Resolved(c, machine))

Completed(c, machine) == Resolved(WithDefaults(c), machine)

-----------------------------------------------------------------------------

ValidRestart(policy) == policy \in {"never", "on-failure", "always"}

\* mutant: permissions are not tied to the server of the approve tool.
ValidParts(c) ==
    /\ ValidRestart(c.restart)
    /\ c.agent => ValidRestart(c.agentRestart) /\ c.onExit \in {"ask", "shutdown", "leave"}
    /\ c.mode \in {"allow_all", "allowlist", "deny_all"}
    /\ \A n \in DOMAIN c.commands : c.commands[n] # {}

\* validate
Valid(c) ==
    /\ ValidRestart(c.restart)
    /\ c.agent => ValidRestart(c.agentRestart) /\ c.onExit \in {"ask", "shutdown", "leave"}
    /\ c.mode \in {"allow_all", "allowlist", "deny_all"}
    /\ c.permissions => c.mcp
    /\ \A n \in DOMAIN c.commands : c.commands[n] # {}

\* Load: the configuration, or Zero when it is refused.  A local file that does not
\* exist is one that sets nothing.
Load(yaml, local, machine) ==
    LET c == Completed(Overlay(Overlay(Zero, yaml.sets), local.sets), machine)
    IN [ok |-> yaml.ok /\ local.ok /\ Valid(c), config |-> c]
=============================================================================
