----------------------------- MODULE MCLauncher -----------------------------
(***************************************************************************)
(* Configurations for the launcher: those of the README's examples and     *)
(* those that Load refuses, every one with every local file.               *)
(***************************************************************************)
EXTENDS Launcher, TLC

Good(sets) == [ok |-> TRUE, sets |-> sets]
Bad == [ok |-> FALSE, sets |-> <<>>]  \* not readable, or with an unknown field

Bridge == [kind |-> "node", script |-> {"${PROJECT_DIR}", "index.js"}]
Tool == [kind |-> "stdio", script |-> {}]
Web == [kind |-> "http", script |-> {}]

Headless == [agent |-> TRUE, claude |-> TRUE, headless |-> TRUE, permissions |-> TRUE]

TheYamls ==
    {Bad, NoFile,
     Good(Headless),  \* sound only with a local file that enables mcp
     Good([mcp |-> TRUE, token |-> "t", extra |-> [ue |-> Bridge, web |-> Web]] @@ Headless),
     Good([agent |-> TRUE, mcp |-> TRUE, extra |-> [ue |-> Bridge, web |-> Tool]]),
     Good([onExit |-> "never", workdir |-> {"${PROJECT_DIR}"},
           commands |-> [deploy |-> {"${ENGINE}"}]])}

TheLocals ==
    {NoFile, Bad, Good([mcp |-> TRUE]),
     Good([mcp |-> TRUE, token |-> "t", extra |-> [unreagent |-> Web]]),  \* in place of the launcher's own
     Good([agent |-> TRUE, onExit |-> "leave", window |-> "no"]),
     Good([onExit |-> "shutdown", engineRoot |-> {"D:"}]),
     Good([engineRoot |-> {"${PROJECT_DIR}"}, token |-> "mine"]),
     \* An entry that names no program replaces the whole entry.
     Good([commands |-> [compile |-> {}], mode |-> "deny_all"])}

TheMachines ==
    {[ueRoot |-> {}, detected |-> {}, uproject |-> {}],
     [ueRoot |-> {}, detected |-> {"C:"}, uproject |-> {"Game.uproject"}],
     [ueRoot |-> {"E:"}, detected |-> {"C:"}, uproject |-> {}]}
=============================================================================
