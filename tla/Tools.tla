-------------------------------- MODULE Tools --------------------------------
(***************************************************************************)
(* The MCP tools that leave something in the file system: edit_file,       *)
(* write_file and read_file on one file of the project, run_python and     *)
(* run_node with the script files they create in the project, run_command, *)
(* and the sweep of script files at the start of the launcher.  Each call  *)
(* runs in the goroutine of the HTTP request it came with (its caller);    *)
(* nothing serializes the calls, and every access to the file system is a  *)
(* step.                                                                   *)
(*                                                                         *)
(* A text is a set of marks: edit_file replaces a mark by its opposite,    *)
(* write_file writes Text, os.WriteFile truncates and then fills.          *)
(***************************************************************************)
EXTENDS Integers, FiniteSets

CONSTANTS
    Callers,     \* requests served concurrently
    Marks,       \* the marks an edit can replace
    MaxScripts,  \* bound: script files created in a behaviour
    MaxFaults    \* bound: failing file operations in a behaviour

ASSUME ToolsAssumption == MaxScripts \in Nat /\ MaxFaults \in Nat

EditTools == [tool : {"edit"}, mark : Marks]
Call(t) == [tool |-> t, mark |-> "none"]
\* "other": a tool that waits for nothing without a limit of time (status, logs, start,
\* ...); "panic": its handler panics.
AllTools == EditTools \cup {Call(t) : t \in {"write", "read", "script", "command", "other", "panic"}}

VARIABLES
    launcher,  \* "down", "boot" (sweeping) or "serving"
    content,   \* the marks in the file
    call,      \* per caller: the tool call in progress
    scripts,   \* script files in the runtimes' directory, numbered
    named,     \* number of script files created so far
    stuck,     \* script files whose removal has failed
    faults,    \* counter of MaxFaults
    applied,   \* history: marks an edit reported replaced, since the last write
    overlapped \* history: two calls were at the file at the same time

toolVars == <<launcher, content, call, scripts, named, stuck, faults, applied, overlapped>>

NoTool == [what |-> Call("other"), at |-> "none", buf |-> {}, script |-> 0, result |-> "none"]

\* The initial text.
Text == Marks

ToolsInit ==
    /\ launcher = "boot" /\ content = Text
    /\ call = [c \in Callers |-> NoTool]
    /\ scripts = {} /\ named = 0 /\ stuck = {} /\ faults = 0
    /\ applied = {} /\ overlapped = FALSE

At(c, where) == launcher = "serving" /\ call[c].at = where
Is(c, tool) == call[c].what.tool = tool
Fault == faults < MaxFaults /\ faults' = faults + 1

\* The call is over, with a result or an error for its client.
Finish(c, result) == call' = [call EXCEPT ![c].at = "end", ![c].result = result]
Go(c, where) == call' = [call EXCEPT ![c].at = where]

\* A handler is called.
BeginCall(c, what) == call' = [call EXCEPT ![c] = [NoTool EXCEPT !.what = what, !.at = "begin"]]

-----------------------------------------------------------------------------
(* read_file, write_file, edit_file *)

\* Callers between their first and their last access to the file.
AtFile == {c \in Callers : call[c].at \in {"truncate", "fill"}}
Overlap(c) == overlapped' = (overlapped \/ AtFile \ {c} # {})

\* os.WriteFile is called with the text.
Open(c, text) == call' = [call EXCEPT ![c].at = "truncate", ![c].buf = text]

\* mutant: the edited text is not what is written back.
ReplaceNothing(text, mark) == text

\* strings.ReplaceAll
ReplaceMark(text, mark) == text \ {mark}

EditFinds(c) ==
    /\ At(c, "begin") /\ Is(c, "edit") /\ call[c].what.mark \in content
    /\ Open(c, ReplaceMark(content, call[c].what.mark))
    /\ Overlap(c)
    /\ UNCHANGED <<launcher, content, scripts, named, stuck, faults, applied>>

\* "'old_string' not found"
EditMisses(c) ==
    /\ At(c, "begin") /\ Is(c, "edit") /\ call[c].what.mark \notin content
    /\ Finish(c, "error")
    /\ UNCHANGED <<launcher, content, scripts, named, stuck, faults, applied, overlapped>>

BeginWrite(c) ==
    /\ At(c, "begin") /\ Is(c, "write")
    /\ Open(c, Text)
    /\ Overlap(c)
    /\ UNCHANGED <<launcher, content, scripts, named, stuck, faults, applied>>

\* An argument is missing or leads out of the root, or os.ReadFile fails.
ReadFails(c) ==
    /\ At(c, "begin") /\ (Is(c, "read") \/ Is(c, "edit"))
    /\ Fault /\ Finish(c, "error")
    /\ UNCHANGED <<launcher, content, scripts, named, stuck, applied, overlapped>>

ReadFile(c) ==
    /\ At(c, "begin") /\ Is(c, "read")
    /\ Finish(c, "ok")
    /\ UNCHANGED <<launcher, content, scripts, named, stuck, faults, applied, overlapped>>

\* os.WriteFile opens the file with O_TRUNC ...
Truncate(c) ==
    /\ At(c, "truncate")
    /\ content' = {} /\ Go(c, "fill")
    /\ UNCHANGED <<launcher, scripts, named, stuck, faults, applied, overlapped>>

\* ... and writes the text.
Fill(c) ==
    /\ At(c, "fill")
    /\ content' = call[c].buf
    /\ applied' = IF Is(c, "edit") THEN applied \cup {call[c].what.mark} ELSE {}
    /\ Finish(c, "ok")
    /\ UNCHANGED <<launcher, scripts, named, stuck, faults, overlapped>>

\* The file cannot be opened, or (truncated already) not be written.
WriteFails(c) ==
    /\ At(c, "truncate") \/ At(c, "fill")
    /\ Fault /\ Finish(c, "error")
    /\ UNCHANGED <<launcher, content, scripts, named, stuck, applied, overlapped>>

-----------------------------------------------------------------------------
(* run_python, run_node *)

\* os.CreateTemp gives the file a name of its own.
CreateScript(c) ==
    /\ At(c, "begin") /\ Is(c, "script") /\ named < MaxScripts
    /\ named' = named + 1 /\ scripts' = scripts \cup {named + 1}
    /\ call' = [call EXCEPT ![c].at = "run", ![c].script = named + 1]
    /\ UNCHANGED <<launcher, content, stuck, faults, applied, overlapped>>

CreateFails(c) ==
    /\ At(c, "begin") /\ Is(c, "script") /\ (Fault \/ (named = MaxScripts /\ UNCHANGED faults))
    /\ Finish(c, "error")
    /\ UNCHANGED <<launcher, content, scripts, named, stuck, applied, overlapped>>

\* mutant: a run that fails returns without removing the file.
LeaveOnError(c, result) ==
    call' = [call EXCEPT ![c].at = IF result = "ok" THEN "remove" ELSE "end", ![c].result = result]

\* The deferred os.Remove runs on every way out.
Cleanup(c, result) == call' = [call EXCEPT ![c].at = "remove", ![c].result = result]

\* The code is written and RunOnce returns with exit code 0; or with another one, or
\* the code cannot be written or the program not be started.
ScriptEnds(c) ==
    /\ At(c, "run")
    /\ \E result \in {"ok", "error"} : Cleanup(c, result)
    /\ UNCHANGED <<launcher, content, scripts, named, stuck, faults, applied, overlapped>>

\* os.Remove, which may fail; its error is ignored or logged.
RemoveFile(n) ==
    \/ scripts' = scripts \ {n} /\ UNCHANGED <<stuck, faults>>
    \/ Fault /\ stuck' = stuck \cup {n} /\ UNCHANGED scripts

RemoveScript(c) ==
    /\ At(c, "remove")
    /\ RemoveFile(call[c].script) /\ Go(c, "end")
    /\ UNCHANGED <<launcher, content, named, applied, overlapped>>

-----------------------------------------------------------------------------
(* run_command *)

\* RunCommand starts the program and waits for it, however long it takes.
StartCommand(c) ==
    /\ At(c, "begin") /\ Is(c, "command")
    /\ Go(c, "command")
    /\ UNCHANGED <<launcher, content, scripts, named, stuck, faults, applied, overlapped>>

\* No such command, or its program cannot be started.
CommandFails(c) ==
    /\ At(c, "begin") /\ Is(c, "command")
    /\ Finish(c, "error")
    /\ UNCHANGED <<launcher, content, scripts, named, stuck, faults, applied, overlapped>>

\* The program ends with exit code 0 or with another one.
CommandEnds(c) ==
    /\ At(c, "command")
    /\ \E result \in {"ok", "error"} : Finish(c, result)
    /\ UNCHANGED <<launcher, content, scripts, named, stuck, faults, applied, overlapped>>

-----------------------------------------------------------------------------
(* Tools that return at once or after a limit of time, and the launcher. *)

Other(c) ==
    /\ At(c, "begin") /\ Is(c, "other")
    /\ \E result \in {"ok", "error"} : Finish(c, result)
    /\ UNCHANGED <<launcher, content, scripts, named, stuck, faults, applied, overlapped>>

\* mutant: no recover in callTool, the panic takes the request's goroutine with it.
PanicEscapes(c) == UNCHANGED call

\* callTool recovers and makes it an error of the tool.
Recovered(c) == Finish(c, "error")

Panic(c) ==
    /\ At(c, "begin") /\ Is(c, "panic")
    /\ Recovered(c)
    /\ UNCHANGED <<launcher, content, scripts, named, stuck, faults, applied, overlapped>>

\* Script files found at the start that no attempt to remove has been made for yet.
Stale == scripts \ stuck

SweepOne(n) ==
    /\ launcher = "boot" /\ n \in Stale
    /\ RemoveFile(n)
    /\ UNCHANGED <<launcher, content, call, named, applied, overlapped>>

\* The server is started after the sweep.
Serve ==
    /\ launcher = "boot" /\ Stale = {}
    /\ launcher' = "serving"
    /\ UNCHANGED <<content, call, scripts, named, stuck, faults, applied, overlapped>>

\* The launcher is killed: its calls are gone, the file system stays as it is.
KillLauncher ==
    /\ launcher = "serving" /\ launcher' = "down"
    /\ call' = [c \in Callers |-> NoTool]
    /\ UNCHANGED <<content, scripts, named, stuck, faults, applied, overlapped>>

\* The next start tries every file again.
StartLauncher ==
    /\ launcher = "down" /\ launcher' = "boot"
    /\ stuck' = {}
    /\ UNCHANGED <<content, call, scripts, named, faults, applied, overlapped>>

ToolStep(c) ==
    \/ EditFinds(c) \/ EditMisses(c) \/ BeginWrite(c) \/ ReadFile(c) \/ ReadFails(c)
    \/ Truncate(c) \/ Fill(c) \/ WriteFails(c)
    \/ CreateScript(c) \/ CreateFails(c) \/ RemoveScript(c)
    \/ StartCommand(c) \/ CommandFails(c)
    \/ Other(c) \/ Panic(c)

Boot == Serve \/ \E n \in scripts : SweepOne(n)

-----------------------------------------------------------------------------

Calls == [what : AllTools,
          at : {"none", "begin", "truncate", "fill", "run", "remove", "command", "end"},
          buf : SUBSET Text, script : 0..MaxScripts, result : {"none", "ok", "error"}]

ToolsTypeOK ==
    /\ launcher \in {"down", "boot", "serving"}
    /\ content \subseteq Text /\ applied \subseteq Marks
    /\ call \in [Callers -> Calls]
    /\ named \in 0..MaxScripts /\ scripts \subseteq 1..named /\ stuck \subseteq scripts
    /\ faults \in 0..MaxFaults /\ overlapped \in BOOLEAN

\* While the launcher serves, every script file in the project belongs to a call in
\* progress or could not be removed, whatever earlier launchers left behind.
NoScriptLeft ==
    launcher = "serving" =>
        \A n \in scripts \ stuck :
            \E c \in Callers : call[c].at \in {"run", "remove"} /\ call[c].script = n

\* "Replaces all occurrences of old_string with new_string in a text file"
\* (description of edit_file): what edits reported replaced stays replaced until
\* somebody writes the file again.
NoLostEdit == AtFile = {} => applied \cap content = {}

\* Without two calls at the file at the same time, it is so.
EditsStick == ~overlapped => NoLostEdit
==============================================================================
