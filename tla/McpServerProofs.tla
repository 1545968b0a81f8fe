---------------------------- MODULE McpServerProofs ----------------------------
(***************************************************************************)
(* The safety of the MCP server and its tools, for any requests, callers,  *)
(* tool calls, failing file operations and kills.                          *)
(***************************************************************************)
EXTENDS McpServer, TLAPS

\* Only a POST whose tool runs has a call, and it dies with the launcher.
CallInv ==
    \A c \in Callers :
        launcher # "serving" \/ post[c].st # "tool" => call[c].at = "none"

\* Only edit_file and write_file write the file, only run_python and run_node create
\* script files, only run_command waits for a command; a call that is about to end has its result, a panic is an error.
ResultInv ==
    \A c \in Callers :
        /\ call[c].at \in {"truncate", "fill"} => Is(c, "edit") \/ Is(c, "write")
        /\ call[c].at \in {"run", "remove"} => Is(c, "script")
        /\ call[c].at = "command" => Is(c, "command")
        /\ call[c].at \in {"remove", "end"} => call[c].result # "none"
        /\ call[c].at = "end" /\ Is(c, "panic") => call[c].result = "error"

\* As long as no two calls were at the file at the same time, one call at most is there
\* now, and what it is about to write has every edit so far and its own in it.
EditInv ==
    ~overlapped =>
        /\ applied \cap content = {}
        /\ \A c, d \in AtFile : c = d
        /\ \A c \in AtFile : Is(c, "edit") =>
              applied \cap call[c].buf = {} /\ call[c].what.mark \notin call[c].buf

\* A call that runs a script has a file of its own, which nobody has tried to remove.
ScriptInv ==
    LET running == {c \in Callers : call[c].at \in {"run", "remove"}} IN
    /\ \A c \in running : call[c].script \in scripts \ stuck
    /\ \A c, d \in running : call[c].script = call[d].script => c = d

ToolsInv == ToolsTypeOK /\ ResultInv /\ EditInv /\ ScriptInv /\ NoScriptLeft

\* rs answers the elements of msgs before the n-th.
AnswersBefore(msgs, rs, n) ==
    /\ {rs[k].el : k \in DOMAIN rs} = {i \in Answerable(msgs) : i < n}
    /\ \A j, k \in DOMAIN rs : j < k => rs[j].el < rs[k].el
    /\ \A k \in DOMAIN rs : rs[k].what \in Meant(msgs[rs[k].el])

\* A POST p in progress has been admitted and answers the elements handled so far; the
\* tool that runs is the one of its current element. One that is over answers all.
GoodPost(p, tool) ==
    /\ p.st = "check" => p.responses = <<>>
    /\ p.st \in {"dispatch", "tool"} =>
          /\ p.body.refusal = 0 /\ p.i \in 1..(Len(p.body.msgs) + 1)
          /\ AnswersBefore(p.body.msgs, p.responses, p.i)
    /\ p.st = "tool" =>
          /\ p.i <= Len(p.body.msgs) /\ tool = p.body.msgs[p.i].what
          /\ p.body.msgs[p.i].form # "malformed" /\ p.body.msgs[p.i].method = "call"
    /\ p.st = "answered" /\ p.body.refusal = 0 =>
          /\ AnswersBefore(p.body.msgs, p.responses, Len(p.body.msgs) + 1)
          /\ p.status = 202 <=> p.responses = <<>>

PostInv == \A c \in Callers : GoodPost(post[c], call[c].what)

IInv == TypeOK /\ CallInv /\ ToolsInv /\ PostInv

-----------------------------------------------------------------------------
(* The tools. *)

\* An attempt to remove one script file.
LEMMA FileRemoved ==
    ASSUME ToolsTypeOK, NEW n \in scripts \ stuck, RemoveFile(n)
    PROVE  /\ scripts' \ stuck' = (scripts \ stuck) \ {n}
           /\ scripts' \subseteq 1..named /\ stuck' \subseteq scripts'
           /\ faults' \in 0..MaxFaults
<1>1. CASE scripts' = scripts \ {n} /\ UNCHANGED <<stuck, faults>>
    BY <1>1 DEF ToolsTypeOK
<1>2. CASE Fault /\ stuck' = stuck \cup {n} /\ UNCHANGED scripts
    BY <1>2, ToolsAssumption DEF ToolsTypeOK, Fault
<1> QED BY <1>1, <1>2 DEF RemoveFile

\* A call that goes on is still a call.
LEMMA CallGoesOn ==
    ASSUME call \in [Callers -> Calls], NEW c \in Callers,
           NEW at \in {"truncate", "fill", "run", "remove", "command", "end"}, NEW text \in SUBSET Text,
           NEW n \in 0..MaxScripts, NEW result \in {"ok", "error"}
    PROVE  /\ [call EXCEPT ![c].at = at] \in [Callers -> Calls]
           /\ [call EXCEPT ![c].at = at, ![c].buf = text] \in [Callers -> Calls]
           /\ [call EXCEPT ![c].at = at, ![c].script = n] \in [Callers -> Calls]
           /\ [call EXCEPT ![c].at = at, ![c].result = result] \in [Callers -> Calls]
<1>1. call[c] \in Calls
    OBVIOUS
<1>2. [call[c] EXCEPT !.at = at] \in Calls
    BY <1>1 DEF Calls
<1>3. [call[c] EXCEPT !.at = at, !.buf = text] \in Calls
    BY <1>1 DEF Calls
<1>4. [call[c] EXCEPT !.at = at, !.script = n] \in Calls
    BY <1>1 DEF Calls
<1>5. [call[c] EXCEPT !.at = at, !.result = result] \in Calls
    BY <1>1 DEF Calls
<1>6. ASSUME NEW k \in Calls PROVE [call EXCEPT ![c] = k] \in [Callers -> Calls]
    OBVIOUS
<1> QED BY <1>2, <1>3, <1>4, <1>5, <1>6

\* A call of c that ends without having created a script file.
LEMMA CallFinishes ==
    ASSUME ToolsInv, NEW c \in Callers, NEW result \in {"ok", "error"}, Finish(c, result),
           call[c].at \in {"begin", "truncate", "fill", "command"}, Is(c, "panic") => result = "error",
           UNCHANGED <<launcher, content, scripts, named, stuck, applied, overlapped>>,
           faults' \in 0..MaxFaults
    PROVE  ToolsInv'
<1>1. call' = [call EXCEPT ![c].at = "end", ![c].result = result]
    BY DEF Finish
<1>2. /\ call'[c].at = "end" /\ call'[c].result = result /\ call'[c].what = call[c].what
      /\ \A d \in Callers : d # c => call'[d] = call[d]
    BY <1>1 DEF ToolsInv, ToolsTypeOK
<1>3. ToolsTypeOK'
    <2>1. call' \in [Callers -> Calls]
        BY <1>1, CallGoesOn DEF ToolsInv, ToolsTypeOK
    <2> QED BY <2>1 DEF ToolsInv, ToolsTypeOK, Text
<1>4. ResultInv'
    BY <1>2 DEF ToolsInv, ResultInv, Is
<1>5. EditInv'
    BY <1>2 DEF ToolsInv, EditInv, AtFile, Is
<1>6. ScriptInv'
    BY <1>2 DEF ToolsInv, ScriptInv
<1>7. NoScriptLeft'
    BY <1>2 DEF ToolsInv, NoScriptLeft
<1> QED BY <1>3, <1>4, <1>5, <1>6, <1>7 DEF ToolsInv

\* A call of c that goes to the file, with what it will write.
LEMMA CallOpens ==
    ASSUME ToolsInv, NEW c \in Callers, NEW text \in SUBSET Text,
           Open(c, text),
           call[c].at = "begin", Is(c, "edit") \/ Is(c, "write"), Overlap(c),
           Is(c, "edit") => text = content \ {call[c].what.mark},
           UNCHANGED <<launcher, content, scripts, named, stuck, faults, applied>>
    PROVE  ToolsInv'
<1>1. /\ call'[c].at = "truncate" /\ call'[c].buf = text /\ call'[c].what = call[c].what
      /\ \A d \in Callers : d # c => call'[d] = call[d]
    BY DEF Open, ToolsInv, ToolsTypeOK, Calls
<1>2. ToolsTypeOK'
    <2>1. call' \in [Callers -> Calls]
        BY CallGoesOn DEF Open, ToolsInv, ToolsTypeOK
    <2>2. overlapped' \in BOOLEAN
        BY Zenon DEF Overlap, ToolsInv, ToolsTypeOK
    <2> QED BY <2>1, <2>2 DEF ToolsInv, ToolsTypeOK, Text
<1>3. ResultInv'
    BY <1>1 DEF ToolsInv, ResultInv, Is
<1>4. EditInv'
    <2> SUFFICES ASSUME ~overlapped' PROVE EditInv'
        BY DEF EditInv
    <2>1. ~overlapped /\ AtFile \ {c} = {}
        BY DEF Overlap, ToolsInv, ToolsTypeOK
    <2>2. \A d \in AtFile' : d = c
        BY <1>1, <2>1 DEF AtFile
    <2>3. applied \cap content = {}
        BY <2>1 DEF ToolsInv, EditInv
    <2>4. Is(c, "edit")' => applied' \cap call'[c].buf = {} /\ call'[c].what.mark \notin call'[c].buf
        BY <1>1, <2>3 DEF Is
    <2> QED BY <2>2, <2>3, <2>4 DEF EditInv
<1>5. ScriptInv'
    BY <1>1 DEF ToolsInv, ScriptInv
<1>6. NoScriptLeft'
    BY <1>1 DEF ToolsInv, NoScriptLeft
<1> QED BY <1>2, <1>3, <1>4, <1>5, <1>6 DEF ToolsInv

\* The tools that write the file.
LEMMA StepFile ==
    ASSUME ToolsInv, NEW c \in Callers, Truncate(c) \/ Fill(c)
    PROVE  ToolsInv'
<1>1. CASE Truncate(c)
    <2>1. /\ call[c].at = "truncate" /\ call' = [call EXCEPT ![c].at = "fill"] /\ content' = {}
          /\ UNCHANGED <<launcher, scripts, named, stuck, faults, applied, overlapped>>
        BY <1>1 DEF Truncate, At, Go
    <2>2. /\ call'[c].at = "fill" /\ call'[c].buf = call[c].buf /\ call'[c].what = call[c].what
          /\ \A d \in Callers : d # c => call'[d] = call[d]
        BY <2>1 DEF ToolsInv, ToolsTypeOK
    <2>3. ToolsTypeOK'
        <3>1. call' \in [Callers -> Calls]
            BY <2>1, CallGoesOn DEF ToolsInv, ToolsTypeOK
        <3> QED BY <2>1, <3>1 DEF ToolsInv, ToolsTypeOK, Text
    <2>4. ResultInv'
        BY <2>1, <2>2 DEF ToolsInv, ResultInv, Is
    <2>5. EditInv'
        <3>1. AtFile' = AtFile /\ c \in AtFile
            BY <2>1, <2>2 DEF AtFile
        <3>2. \A d \in Callers : call'[d].buf = call[d].buf /\ call'[d].what = call[d].what
            BY <2>2
        <3> QED BY <2>1, <3>1, <3>2 DEF ToolsInv, EditInv, AtFile, Is
    <2>6. ScriptInv'
        BY <2>1, <2>2 DEF ToolsInv, ScriptInv, ToolsTypeOK
    <2>7. NoScriptLeft'
        BY <2>1, <2>2 DEF ToolsInv, NoScriptLeft
    <2> QED BY <2>3, <2>4, <2>5, <2>6, <2>7 DEF ToolsInv
<1>2. CASE Fill(c)
    <2>1. /\ call[c].at = "fill" /\ call' = [call EXCEPT ![c].at = "end", ![c].result = "ok"]
          /\ content' = call[c].buf
          /\ applied' = IF Is(c, "edit") THEN applied \cup {call[c].what.mark} ELSE {}
          /\ UNCHANGED <<launcher, scripts, named, stuck, faults, overlapped>>
        BY <1>2 DEF Fill, At, Finish
    <2>2. /\ call'[c].at = "end" /\ call'[c].result = "ok" /\ call'[c].what = call[c].what
          /\ \A d \in Callers : d # c => call'[d] = call[d]
        BY <2>1 DEF ToolsInv, ToolsTypeOK
    <2>3. ToolsTypeOK'
        <3>1. call' \in [Callers -> Calls]
            BY <2>1, CallGoesOn DEF ToolsInv, ToolsTypeOK
        <3>2. content' \subseteq Text
            BY <2>1 DEF ToolsInv, ToolsTypeOK, Calls
        <3>3. Is(c, "edit") => call[c].what.mark \in Marks
            <4>1. call[c].what \in AllTools
                BY DEF ToolsInv, ToolsTypeOK, Calls
            <4> QED BY <4>1 DEF Is, AllTools, EditTools, Call
        <3> QED BY <2>1, <3>1, <3>2, <3>3 DEF ToolsInv, ToolsTypeOK, Text
    <2>4. ResultInv'
        <3>1. ~Is(c, "panic")
            BY <2>1 DEF ToolsInv, ResultInv, Is
        <3> QED BY <2>2, <3>1 DEF ToolsInv, ResultInv, Is
    <2>5. EditInv'
        <3> SUFFICES ASSUME ~overlapped PROVE EditInv'
            BY <2>1 DEF EditInv
        <3>1. c \in AtFile /\ AtFile' = AtFile \ {c}
            BY <2>1, <2>2 DEF AtFile
        <3>2. AtFile' = {}
            BY <3>1 DEF ToolsInv, EditInv
        <3>3. applied' \cap content' = {}
            BY <2>1, <3>1 DEF ToolsInv, EditInv
        <3> QED BY <3>2, <3>3 DEF EditInv
    <2>6. ScriptInv'
        BY <2>1, <2>2 DEF ToolsInv, ScriptInv, ToolsTypeOK
    <2>7. NoScriptLeft'
        <3>1. \A d \in Callers : call[d].at \in {"run", "remove"} => call'[d] = call[d]
            BY <2>1, <2>2
        <3>2. UNCHANGED <<launcher, scripts, stuck>>
            BY <2>1
        <3> QED BY <3>1, <3>2 DEF ToolsInv, NoScriptLeft
    <2> QED BY <2>3, <2>4, <2>5, <2>6, <2>7 DEF ToolsInv
<1> QED BY <1>1, <1>2

\* The tools that run a script.
LEMMA StepScript ==
    ASSUME ToolsInv, NEW c \in Callers, CreateScript(c) \/ ScriptEnds(c) \/ RemoveScript(c)
    PROVE  ToolsInv'
<1>1. CASE CreateScript(c)
    <2>1. /\ launcher = "serving" /\ call[c].at = "begin" /\ named < MaxScripts
          /\ named' = named + 1 /\ scripts' = scripts \cup {named + 1}
          /\ call' = [call EXCEPT ![c].at = "run", ![c].script = named + 1]
          /\ UNCHANGED <<launcher, content, stuck, faults, applied, overlapped>> /\ Is(c, "script")
        BY <1>1 DEF CreateScript, At
    <2>2. /\ call'[c].at = "run" /\ call'[c].script = named + 1 /\ call'[c].what = call[c].what
          /\ \A d \in Callers : d # c => call'[d] = call[d]
        <3>1. call \in [Callers -> Calls] /\ call[c] \in Calls
            BY DEF ToolsInv, ToolsTypeOK
        <3> QED BY <2>1, <3>1 DEF Calls
    <2>3. ToolsTypeOK'
        <3>1. named + 1 \in 0..MaxScripts /\ scripts' \subseteq 1..(named + 1)
            BY <2>1, ToolsAssumption DEF ToolsInv, ToolsTypeOK
        <3>2. call' \in [Callers -> Calls]
            BY <2>1, <3>1, CallGoesOn DEF ToolsInv, ToolsTypeOK
        <3> QED BY <2>1, <3>1, <3>2 DEF ToolsInv, ToolsTypeOK, Text
    <2>4. ResultInv'
        <3>1. \A d \in Callers : Is(d, "script")' = Is(d, "script") /\ Is(d, "edit")' = Is(d, "edit")
                               /\ Is(d, "write")' = Is(d, "write") /\ Is(d, "panic")' = Is(d, "panic")
                               /\ Is(d, "command")' = Is(d, "command")
            BY <2>2 DEF Is
        <3>2. ASSUME NEW d \in Callers, d # c PROVE call'[d].at = call[d].at /\ call'[d].result = call[d].result
            BY <2>2, <3>2
        <3> QED BY <2>1, <2>2, <3>1, <3>2 DEF ToolsInv, ResultInv
    <2>5. EditInv'
        <3>1. AtFile' = AtFile /\ c \notin AtFile
            BY <2>1, <2>2 DEF AtFile
        <3>2. \A d \in AtFile : call'[d] = call[d]
            BY <2>2, <3>1 DEF AtFile
        <3> QED BY <2>1, <3>1, <3>2 DEF ToolsInv, EditInv, Is
    <2>6. ScriptInv'
        BY <2>1, <2>2 DEF ToolsInv, ScriptInv, ToolsTypeOK
    <2>7. NoScriptLeft'
        <3>1. \A d \in Callers : call[d].at \in {"run", "remove"} => call'[d] = call[d]
            BY <2>1, <2>2
        <3>2. scripts' \ stuck' \subseteq (scripts \ stuck) \cup {named + 1} /\ launcher' = launcher
            BY <2>1
        <3>3. call'[c].at \in {"run", "remove"} /\ call'[c].script = named + 1
            BY <2>2
        <3> QED BY <3>1, <3>2, <3>3 DEF ToolsInv, NoScriptLeft
    <2> QED BY <2>3, <2>4, <2>5, <2>6, <2>7 DEF ToolsInv
<1>2. CASE ScriptEnds(c)
    <2>1. PICK result \in {"ok", "error"} : call' = [call EXCEPT ![c].at = "remove", ![c].result = result]
        BY <1>2 DEF ScriptEnds, Cleanup
    <2>2. /\ call[c].at = "run"
          /\ UNCHANGED <<launcher, content, scripts, named, stuck, faults, applied, overlapped>>
        BY <1>2 DEF ScriptEnds, At
    <2>3. /\ call'[c].at = "remove" /\ call'[c].script = call[c].script
          /\ call'[c].what = call[c].what /\ call'[c].result # "none"
          /\ \A d \in Callers : d # c => call'[d] = call[d]
        <3>1. call \in [Callers -> Calls] /\ call[c] \in Calls
            BY DEF ToolsInv, ToolsTypeOK
        <3> QED BY <2>1, <3>1 DEF Calls
    <2>4. ToolsTypeOK'
        <3>1. call' \in [Callers -> Calls]
            BY <2>1, CallGoesOn DEF ToolsInv, ToolsTypeOK
        <3> QED BY <2>2, <3>1 DEF ToolsInv, ToolsTypeOK, Text
    <2>5. ResultInv'
        BY <2>2, <2>3 DEF ToolsInv, ResultInv, Is
    <2>6. EditInv'
        BY <2>2, <2>3 DEF ToolsInv, EditInv, AtFile, Is
    <2>7. ScriptInv'
        BY <2>2, <2>3 DEF ToolsInv, ScriptInv
    <2>8. NoScriptLeft'
        BY <2>2, <2>3 DEF ToolsInv, NoScriptLeft
    <2> QED BY <2>4, <2>5, <2>6, <2>7, <2>8 DEF ToolsInv
<1>3. CASE RemoveScript(c)
    <2>1. /\ call[c].at = "remove" /\ call' = [call EXCEPT ![c].at = "end"]
          /\ UNCHANGED <<launcher, content, named, applied, overlapped>>
          /\ RemoveFile(call[c].script)
        BY <1>3 DEF RemoveScript, At, Go
    <2>2. /\ call'[c].at = "end" /\ call'[c].result = call[c].result /\ call'[c].what = call[c].what
          /\ \A d \in Callers : d # c => call'[d] = call[d]
        BY <2>1 DEF ToolsInv, ToolsTypeOK
    <2>3. ToolsTypeOK'
        <3>1. call[c].script \in scripts \ stuck
            BY <2>1 DEF ToolsInv, ScriptInv
        <3>2. /\ scripts' \subseteq 1..named /\ stuck' \subseteq scripts'
              /\ faults' \in 0..MaxFaults
            BY <2>1, <3>1, FileRemoved DEF ToolsInv
        <3>3. call' \in [Callers -> Calls]
            BY <2>1, CallGoesOn DEF ToolsInv, ToolsTypeOK
        <3> QED BY <2>1, <3>2, <3>3 DEF ToolsInv, ToolsTypeOK, Text
    <2>4. ResultInv'
        <3>1. \A d \in Callers : call[d].at = "remove" => call[d].result # "none" /\ Is(d, "script")
            BY DEF ToolsInv, ResultInv
        <3>2. ~Is(c, "panic")
            BY <2>1, <3>1 DEF Is
        <3> QED BY <2>1, <2>2, <3>1, <3>2 DEF ToolsInv, ResultInv, Is
    <2>5. EditInv'
        BY <2>1, <2>2 DEF ToolsInv, EditInv, AtFile, Is
    <2>6. ScriptInv'
        BY <2>1, <2>2 DEF RemoveFile, ToolsInv, ScriptInv
    <2>7. NoScriptLeft'
        BY <2>1, <2>2 DEF RemoveFile, ToolsInv, NoScriptLeft
    <2> QED BY <2>3, <2>4, <2>5, <2>6, <2>7 DEF ToolsInv
<1> QED BY <1>1, <1>2, <1>3

\* A step of a tool is one of the call of c, which goes on with the same tool.
LEMMA StepTool ==
    ASSUME ToolsInv, NEW c \in Callers, ToolStep(c) \/ ScriptEnds(c) \/ CommandEnds(c)
    PROVE  /\ ToolsInv' /\ launcher' = launcher /\ call[c].at # "none"
           /\ \A d \in Callers : call'[d].what = call[d].what
           /\ \A d \in Callers : d # c => call'[d] = call[d]
<1>1. ASSUME NEW result \in {"ok", "error"}, Finish(c, result),
             call[c].at \in {"begin", "truncate", "fill", "command"}, Is(c, "panic") => result = "error",
             UNCHANGED <<launcher, content, scripts, named, stuck, applied, overlapped>>,
             faults' = faults \/ Fault
      PROVE  ToolsInv'
    <2>1. faults' \in 0..MaxFaults
        BY <1>1, ToolsAssumption DEF Fault, ToolsInv, ToolsTypeOK
    <2> QED BY <1>1, <2>1, CallFinishes
<1>2. CASE \/ EditMisses(c) \/ ReadFile(c) \/ ReadFails(c) \/ WriteFails(c) \/ CreateFails(c)
           \/ CommandFails(c) \/ CommandEnds(c) \/ Other(c) \/ Panic(c)
    <2>1. PICK result \in {"ok", "error"} : Finish(c, result) /\ (Is(c, "panic") => result = "error")
        <3>1. CASE CommandEnds(c)
            <4>1. ~Is(c, "panic")
                BY <3>1 DEF CommandEnds, At, ToolsInv, ResultInv, Is
            <4> QED BY <3>1, <4>1 DEF CommandEnds
        <3> QED BY <1>2, <3>1 DEF EditMisses, ReadFile, ReadFails, WriteFails, CreateFails,
                                  CommandFails, Other, Panic, Recovered, Is
    <2>2. /\ call[c].at \in {"begin", "truncate", "fill", "command"}
          /\ UNCHANGED <<launcher, content, scripts, named, stuck, applied, overlapped>>
          /\ faults' = faults \/ Fault
        BY <1>2 DEF EditMisses, ReadFile, ReadFails, WriteFails, CreateFails, CommandFails,
                    CommandEnds, Other, Panic, At
    <2>3. ToolsInv'
        BY <1>1, <2>1, <2>2
    <2> QED BY <2>1, <2>2, <2>3 DEF Finish, ToolsInv, ToolsTypeOK, Calls
<1>3. CASE EditFinds(c) \/ BeginWrite(c)
    <2>1. PICK text \in SUBSET Text : Open(c, text) /\ (Is(c, "edit") => text = content \ {call[c].what.mark})
        BY <1>3 DEF EditFinds, BeginWrite, ReplaceMark, Is, ToolsInv, ToolsTypeOK
    <2>2. /\ call[c].at = "begin" /\ (Is(c, "edit") \/ Is(c, "write")) /\ Overlap(c)
          /\ UNCHANGED <<launcher, content, scripts, named, stuck, faults, applied>>
        BY <1>3 DEF EditFinds, BeginWrite, At
    <2>3. ToolsInv'
        BY <2>1, <2>2, CallOpens
    <2> QED BY <2>1, <2>2, <2>3 DEF Open, ToolsInv, ToolsTypeOK, Calls
<1>4. CASE Truncate(c) \/ Fill(c)
    <2>1. ToolsInv'
        BY <1>4, StepFile
    <2> QED BY <1>4, <2>1 DEF Truncate, Fill, At, Go, Finish, ToolsInv, ToolsTypeOK, Calls
<1>5. CASE CreateScript(c) \/ ScriptEnds(c) \/ RemoveScript(c)
    <2>1. ToolsInv'
        BY <1>5, StepScript
    <2> QED BY <1>5, <2>1
        DEF CreateScript, ScriptEnds, Cleanup, RemoveScript, At, Go, ToolsInv, ToolsTypeOK, Calls
<1>6. CASE StartCommand(c)
    <2>1. /\ call[c].at = "begin" /\ Is(c, "command")
          /\ call' = [call EXCEPT ![c].at = "command"]
          /\ UNCHANGED <<launcher, content, scripts, named, stuck, faults, applied, overlapped>>
        BY <1>6 DEF StartCommand, At, Go
    <2>2. /\ call'[c].at = "command" /\ call'[c].what = call[c].what
          /\ \A d \in Callers : d # c => call'[d] = call[d]
        BY <2>1 DEF ToolsInv, ToolsTypeOK, Calls
    <2>3. ToolsTypeOK'
        <3>1. call' \in [Callers -> Calls]
            BY <2>1, CallGoesOn DEF ToolsInv, ToolsTypeOK
        <3> QED BY <2>1, <3>1 DEF ToolsInv, ToolsTypeOK, Text
    <2>4. ResultInv' /\ EditInv'
        BY <2>1, <2>2 DEF ToolsInv, ResultInv, EditInv, AtFile, Is
    <2>5. ScriptInv' /\ NoScriptLeft'
        BY <2>1, <2>2 DEF ToolsInv, ScriptInv, NoScriptLeft
    <2> QED BY <2>1, <2>2, <2>3, <2>4, <2>5 DEF ToolsInv
<1> QED BY <1>2, <1>3, <1>4, <1>5, <1>6 DEF ToolStep

\* The launcher starts, sweeps and serves while there are no calls.
LEMMA StepLaunch ==
    ASSUME ToolsInv, CallInv, StartLauncher \/ Boot
    PROVE  ToolsInv' /\ call' = call /\ launcher' # "down" /\ launcher # "serving"
<1>1. launcher # "serving" /\ launcher' # "down" /\ call' = call
    BY DEF StartLauncher, Boot, Serve, SweepOne, ToolsInv, ToolsTypeOK
<1>2. \A c \in Callers : call[c].at = "none"
    BY <1>1 DEF CallInv
<1>3. ResultInv' /\ ScriptInv'
    BY <1>1, <1>2 DEF ResultInv, ScriptInv
<1>4. EditInv'
    <2>1. UNCHANGED <<content, applied, overlapped>> /\ AtFile' = AtFile
        BY <1>1 DEF StartLauncher, Boot, Serve, SweepOne, AtFile
    <2> QED BY <1>1, <2>1 DEF ToolsInv, EditInv, AtFile, Is
<1>5. ToolsTypeOK' /\ NoScriptLeft'
    <2>1. CASE StartLauncher
        BY <2>1 DEF StartLauncher, ToolsInv, ToolsTypeOK, NoScriptLeft, Text, Calls
    <2>2. CASE Serve
        BY <2>2 DEF Serve, Stale, ToolsInv, ToolsTypeOK, NoScriptLeft, Text, Calls
    <2>3. ASSUME NEW n \in scripts, SweepOne(n) PROVE ToolsTypeOK' /\ NoScriptLeft'
        <3>1. /\ launcher = "boot" /\ n \in scripts \ stuck /\ RemoveFile(n)
              /\ UNCHANGED <<launcher, content, call, named, applied, overlapped>>
            BY <2>3 DEF SweepOne, Stale
        <3>2. scripts' \subseteq 1..named /\ stuck' \subseteq scripts' /\ faults' \in 0..MaxFaults
            BY <3>1, FileRemoved DEF ToolsInv
        <3> QED BY <3>1, <3>2 DEF ToolsInv, ToolsTypeOK, NoScriptLeft, Text, Calls
    <2> QED BY <2>1, <2>2, <2>3 DEF Boot
<1> QED BY <1>1, <1>3, <1>4, <1>5 DEF ToolsInv

\* A call begins where there was none, or an ended one is forgotten: neither is at the
\* file nor runs a script.
LEMMA CallChanges ==
    ASSUME ToolsInv, NEW c \in Callers, NEW k \in Calls, k.at \in {"none", "begin"},
           call' = [call EXCEPT ![c] = k], call[c].at \in {"none", "end"},
           UNCHANGED <<launcher, content, scripts, named, stuck, faults, applied, overlapped>>
    PROVE  ToolsInv'
<1>1. call'[c] = k /\ \A d \in Callers : d # c => call'[d] = call[d]
    BY DEF ToolsInv, ToolsTypeOK
<1>2. ToolsTypeOK'
    BY DEF ToolsInv, ToolsTypeOK, Text, Calls
<1>3. ResultInv'
    BY <1>1 DEF ToolsInv, ResultInv, Is
<1>4. EditInv'
    <2>1. AtFile' = AtFile /\ c \notin AtFile
        BY <1>1 DEF AtFile
    <2>2. \A d \in AtFile : call'[d] = call[d]
        BY <1>1, <2>1 DEF AtFile
    <2> QED BY <2>1, <2>2 DEF ToolsInv, EditInv, Is
<1>5. ScriptInv'
    BY <1>1 DEF ToolsInv, ScriptInv
<1>6. NoScriptLeft'
    <2>1. \A d \in Callers : call[d].at \in {"run", "remove"} => call'[d] = call[d]
        BY <1>1
    <2> QED BY <2>1 DEF ToolsInv, NoScriptLeft
<1> QED BY <1>2, <1>3, <1>4, <1>5, <1>6 DEF ToolsInv

-----------------------------------------------------------------------------
(* The server. *)

\* The response to the n-th element goes behind those to the earlier ones.
LEMMA AnswersGoOn ==
    ASSUME NEW msgs \in Seq(Messages), NEW rs \in Seq(Answers), NEW n \in 1..Len(msgs),
           AnswersBefore(msgs, rs, n),
           NEW r \in Answers, r.el = n, r.what \in Meant(msgs[n])
    PROVE  /\ msgs[n].form = "notification" => AnswersBefore(msgs, rs, n + 1)
           /\ msgs[n].form # "notification" =>
                 Append(rs, r) \in Seq(Answers) /\ AnswersBefore(msgs, Append(rs, r), n + 1)
<1>1. n \in Answerable(msgs) <=> msgs[n].form # "notification"
    BY DEF Answerable
<1>2. {i \in Answerable(msgs) : i < n + 1}
         = {i \in Answerable(msgs) : i < n} \cup (Answerable(msgs) \cap {n})
    BY DEF Answerable
<1>3. CASE msgs[n].form = "notification"
    BY <1>1, <1>2, <1>3 DEF AnswersBefore
<1>4. CASE msgs[n].form # "notification"
    <2> DEFINE qs == Append(rs, r)
               m == Len(rs)
    <2>1. /\ qs \in Seq(Answers) /\ m \in Nat /\ DOMAIN rs = 1..m /\ DOMAIN qs = 1..m + 1
          /\ qs[m + 1] = r /\ \A k \in 1..m : qs[k] = rs[k]
        OBVIOUS
    <2>2. \A k \in 1..m : rs[k].el \in Answerable(msgs) /\ rs[k].el < n
        BY <2>1 DEF AnswersBefore
    <2> HIDE DEF qs, m
    <2>3. {qs[k].el : k \in DOMAIN qs} = {i \in Answerable(msgs) : i < n + 1}
        <3>1. {qs[k].el : k \in DOMAIN qs} = {rs[k].el : k \in DOMAIN rs} \cup {n}
            BY <2>1
        <3> QED BY <1>1, <1>2, <1>4, <3>1 DEF AnswersBefore
    <2>4. ASSUME NEW j \in DOMAIN qs, NEW k \in DOMAIN qs, j < k PROVE qs[j].el < qs[k].el
        <3>1. j \in 1..m
            BY <2>1, <2>4
        <3>2. CASE k = m + 1
            BY <2>1, <2>2, <3>1, <3>2
        <3>3. CASE k \in 1..m
            BY <2>1, <2>4, <3>1, <3>3 DEF AnswersBefore
        <3> QED BY <2>1, <3>2, <3>3
    <2>5. ASSUME NEW k \in DOMAIN qs PROVE qs[k].what \in Meant(msgs[qs[k].el])
        <3>1. CASE k = m + 1
            BY <2>1, <3>1
        <3>2. CASE k \in 1..m
            BY <2>1, <3>2 DEF AnswersBefore
        <3> QED BY <2>1, <3>1, <3>2
    <2>6. AnswersBefore(msgs, qs, n + 1)
        BY <2>3, <2>4, <2>5 DEF AnswersBefore
    <2> QED BY <1>4, <2>1, <2>6 DEF qs
<1> QED BY <1>3, <1>4

\* The POST of c goes on, and perhaps its call.
LEMMA PostGoesOn ==
    ASSUME IInv, NEW c \in Callers, launcher = "serving", launcher' = launcher, ToolsInv',
           post' \in [Callers -> Posts], \A d \in Callers : d # c => post'[d] = post[d],
           \A d \in Callers : d # c => call'[d] = call[d],
           GoodPost(post'[c], call'[c].what), post'[c].st # "tool" => call'[c].at = "none",
           posts' \in 0..MaxPosts, UNCHANGED kills
    PROVE  IInv'
<1>1. TypeOK'
    BY DEF IInv, TypeOK, ToolsInv
<1>2. CallInv'
    BY DEF IInv, CallInv
<1>3. PostInv'
    <2> SUFFICES ASSUME NEW d \in Callers PROVE GoodPost(post'[d], call'[d].what)
        BY DEF PostInv
    <2>1. CASE d = c
        BY <2>1
    <2>2. CASE d # c
        BY <2>2 DEF IInv, PostInv
    <2> QED BY <2>1, <2>2
<1> QED BY <1>1, <1>2, <1>3 DEF IInv

LEMMA PostChanges ==
    ASSUME TypeOK, NEW c \in Callers, NEW p \in Posts, post' = [post EXCEPT ![c] = p]
    PROVE  /\ post' \in [Callers -> Posts] /\ post'[c] = p
           /\ \A d \in Callers : d # c => post'[d] = post[d]
BY DEF TypeOK

\* A response, or none for a notification, and on to the next element.
LEMMA StepRespond ==
    ASSUME IInv, NEW c \in Callers, launcher = "serving", launcher' = launcher, ToolsInv',
           post[c].st \in {"dispatch", "tool"}, post[c].i <= Len(post[c].body.msgs),
           NEW w \in {"invalid", "result", "error", "toolError"}, w \in Meant(Current(c)),
           post' = Respond(c, w), \A d \in Callers : d # c => call'[d] = call[d],
           call'[c].at = "none", UNCHANGED <<posts, kills>>
    PROVE  IInv'
<1> DEFINE p == post[c]
           r == [el |-> p.i, what |-> w]
           qs == IF Current(c).form = "notification" THEN p.responses ELSE Append(p.responses, r)
<1>1. /\ p \in Posts /\ p.body \in AnyBody /\ p.body.msgs \in Seq(Messages)
      /\ p.responses \in Seq(Answers) /\ r \in Answers
      /\ p.body.refusal = 0 /\ p.i \in 1..Len(p.body.msgs)
      /\ AnswersBefore(p.body.msgs, p.responses, p.i)
    BY DEF IInv, TypeOK, PostInv, GoodPost, Posts, AnyBody, Answers
<1>2. Current(c) = p.body.msgs[p.i]
    BY DEF Current
<1>3. qs \in Seq(Answers) /\ AnswersBefore(p.body.msgs, qs, p.i + 1)
    BY <1>1, <1>2, AnswersGoOn
<1> DEFINE q == [p EXCEPT !.st = "dispatch", !.i = p.i + 1, !.responses = qs]
<1>4. post' = [post EXCEPT ![c] = q]
    BY DEF Respond, IInv, TypeOK, Posts
<1> HIDE DEF qs, p
<1>5. /\ q \in Posts /\ q.st = "dispatch" /\ q.i = p.i + 1 /\ q.responses = qs
      /\ q.body = p.body
    <2>1. p.i + 1 \in Nat
        BY <1>1 DEF Posts
    <2>2. p \in Posts /\ qs \in Seq(Answers)
        BY <1>1, <1>3
    <2> QED BY <2>1, <2>2 DEF Posts
<1> HIDE DEF q
<1>6. GoodPost(q, call'[c].what)
    BY <1>1, <1>3, <1>5 DEF GoodPost
<1>7. /\ post' \in [Callers -> Posts] /\ post'[c] = q
      /\ \A d \in Callers : d # c => post'[d] = post[d]
    BY <1>4, <1>5, PostChanges DEF IInv
<1> QED BY <1>5, <1>6, <1>7, PostGoesOn DEF IInv, TypeOK

\* The steps of the server for one POST.
LEMMA StepPost ==
    ASSUME IInv, NEW c \in Callers, ServeHTTP(c) \/ \E body \in Bodies : Receive(c, body)
    PROVE  IInv'
<1>1. ASSUME UNCHANGED toolVars PROVE ToolsInv' /\ call' = call
    BY <1>1 DEF toolVars, IInv, ToolsInv, ToolsTypeOK, ResultInv, EditInv, ScriptInv, NoScriptLeft, AtFile, Is
<1>2. post[c] \in Posts /\ post[c].body.msgs \in Seq(Messages) /\ Len(post[c].body.msgs) \in Nat
    BY DEF IInv, TypeOK, Posts, AnyBody
<1>3. ASSUME NEW body \in Bodies, Receive(c, body) PROVE IInv'
    <2>1. /\ launcher = "serving" /\ UNCHANGED <<toolVars, kills>> /\ call[c].at = "none"
          /\ posts < MaxPosts /\ posts' = posts + 1
          /\ post' = [post EXCEPT ![c] = [Idle EXCEPT !.st = "check", !.body = body]]
        BY <1>3 DEF Receive, IInv, CallInv
    <2>2. posts' \in 0..MaxPosts
        BY <2>1, McpAssumption DEF IInv, TypeOK
    <2> DEFINE q == [Idle EXCEPT !.st = "check", !.body = body]
    <2>3. q \in Posts /\ q.st = "check" /\ q.responses = <<>>
        <3>1. body \in AnyBody
            BY McpAssumption
        <3>2. Idle \in Posts /\ Idle.responses = <<>>
            BY DEF Idle, Posts, AnyBody, Refusals
        <3> QED BY <3>1, <3>2 DEF Posts
    <2> HIDE DEF q
    <2>4. /\ post' \in [Callers -> Posts] /\ post'[c] = q
          /\ \A d \in Callers : d # c => post'[d] = post[d]
        BY <2>1, <2>3, PostChanges DEF q, IInv
    <2>5. GoodPost(q, call'[c].what)
        BY <2>3 DEF GoodPost
    <2> QED BY <1>1, <2>1, <2>2, <2>3, <2>4, <2>5, PostGoesOn DEF toolVars
<1>4. CASE Refuse(c)
    <2>1. /\ launcher = "serving" /\ UNCHANGED <<toolVars, posts, kills>> /\ call[c].at = "none"
          /\ post[c].body.refusal # 0
          /\ post' = [post EXCEPT ![c].st = "answered", ![c].status = post[c].body.refusal]
        BY <1>4 DEF Refuse, Refused, Serving, IInv, CallInv
    <2> DEFINE q == [post[c] EXCEPT !.st = "answered", !.status = post[c].body.refusal]
    <2>2. /\ q \in Posts /\ q.st = "answered" /\ q.body = post[c].body
        BY <1>2 DEF Posts, AnyBody
    <2>3. post' = [post EXCEPT ![c] = q]
        BY <2>1 DEF IInv, TypeOK, Posts
    <2> HIDE DEF q
    <2>4. /\ post' \in [Callers -> Posts] /\ post'[c] = q
          /\ \A d \in Callers : d # c => post'[d] = post[d]
        BY <2>2, <2>3, PostChanges DEF IInv
    <2>5. GoodPost(q, call'[c].what)
        BY <2>1, <2>2 DEF GoodPost
    <2> QED BY <1>1, <2>1, <2>2, <2>4, <2>5, PostGoesOn DEF toolVars, IInv, TypeOK
<1>5. CASE Admit(c)
    <2>1. /\ launcher = "serving" /\ UNCHANGED <<toolVars, posts, kills>> /\ call[c].at = "none"
          /\ post[c].body.refusal = 0 /\ post[c].responses = <<>>
          /\ post' = [post EXCEPT ![c].st = "dispatch", ![c].i = 1]
        BY <1>5 DEF Admit, Refused, Serving, IInv, CallInv, PostInv, GoodPost
    <2> DEFINE q == [post[c] EXCEPT !.st = "dispatch", !.i = 1]
    <2>2. /\ q \in Posts /\ q.st = "dispatch" /\ q.body = post[c].body /\ q.i = 1
          /\ q.responses = <<>>
        <3>1. post[c].responses = <<>>
            BY <2>1
        <3> QED BY <1>2, <3>1 DEF Posts
    <2>3. post' = [post EXCEPT ![c] = q]
        BY <2>1 DEF IInv, TypeOK, Posts
    <2> HIDE DEF q
    <2>4. /\ post' \in [Callers -> Posts] /\ post'[c] = q
          /\ \A d \in Callers : d # c => post'[d] = post[d]
        BY <2>2, <2>3, PostChanges DEF IInv
    <2>5. AnswersBefore(post[c].body.msgs, <<>>, 1)
        BY <1>2 DEF AnswersBefore, Answerable
    <2>6. GoodPost(q, call'[c].what)
        BY <1>2, <2>1, <2>2, <2>5 DEF GoodPost
    <2> QED BY <1>1, <2>1, <2>2, <2>4, <2>6, PostGoesOn DEF toolVars, IInv, TypeOK
<1>6. CASE HandleLocally(c)
    <2> DEFINE w == IF Current(c).form = "malformed" THEN "invalid"
                    ELSE IF Current(c).method = "local" THEN "result" ELSE "error"
    <2>1. /\ launcher = "serving" /\ UNCHANGED <<toolVars, posts, kills>> /\ call[c].at = "none"
          /\ post[c].st = "dispatch" /\ post[c].i <= Len(post[c].body.msgs)
          /\ Current(c).form = "malformed" \/ Current(c).method # "call"
          /\ post' = Respond(c, w)
        BY <1>6 DEF HandleLocally, Pending, Serving, IInv, CallInv
    <2>2. w \in {"invalid", "result", "error", "toolError"} /\ w \in Meant(Current(c))
        BY <2>1 DEF Meant
    <2> HIDE DEF w
    <2> QED BY <1>1, <2>1, <2>2, StepRespond DEF toolVars
<1>7. CASE CallTool(c)
    <2>1. /\ launcher = "serving" /\ launcher' = launcher /\ UNCHANGED <<posts, kills>>
          /\ call[c].at = "none" /\ post[c].st = "dispatch" /\ post[c].i <= Len(post[c].body.msgs)
          /\ Current(c).form # "malformed" /\ Current(c).method = "call"
          /\ post' = [post EXCEPT ![c].st = "tool"] /\ BeginCall(c, Current(c).what)
          /\ UNCHANGED <<content, scripts, named, stuck, faults, applied, overlapped>>
        BY <1>7 DEF CallTool, Pending, Serving, IInv, CallInv
    <2>2. /\ post[c].body.refusal = 0 /\ post[c].i \in 1..Len(post[c].body.msgs)
          /\ AnswersBefore(post[c].body.msgs, post[c].responses, post[c].i)
        BY <1>2, <2>1 DEF IInv, PostInv, GoodPost
    <2> DEFINE k == [NoTool EXCEPT !.what = Current(c).what, !.at = "begin"]
    <2>3. Current(c).what \in AllTools
        <3>1. Current(c) \in Messages
            BY <1>2, <2>2 DEF Current
        <3> QED BY <3>1 DEF Messages
    <2>4. k \in Calls /\ k.at = "begin" /\ k.what = Current(c).what
        <3>1. NoTool \in Calls
            BY ToolsAssumption DEF NoTool, Calls, AllTools
        <3> QED BY <2>3, <3>1 DEF Calls
    <2>5. call' = [call EXCEPT ![c] = k]
        BY <2>1 DEF BeginCall
    <2> HIDE DEF k
    <2>6. ToolsInv'
        BY <2>1, <2>4, <2>5, CallChanges DEF IInv
    <2>7. call'[c] = k /\ \A d \in Callers : d # c => call'[d] = call[d]
        BY <2>5 DEF IInv, ToolsInv, ToolsTypeOK
    <2> DEFINE q == [post[c] EXCEPT !.st = "tool"]
    <2>8. /\ q \in Posts /\ q.st = "tool" /\ q.body = post[c].body /\ q.i = post[c].i
          /\ q.responses = post[c].responses
        BY <1>2 DEF Posts
    <2>9. post' = [post EXCEPT ![c] = q]
        BY <2>1 DEF IInv, TypeOK, Posts
    <2> HIDE DEF q
    <2>10. /\ post' \in [Callers -> Posts] /\ post'[c] = q
           /\ \A d \in Callers : d # c => post'[d] = post[d]
        BY <2>8, <2>9, PostChanges DEF IInv
    <2>11. GoodPost(q, call'[c].what)
        <3>1. /\ q.body.refusal = 0 /\ AnswersBefore(q.body.msgs, q.responses, q.i)
              /\ q.i \in 1..(Len(q.body.msgs) + 1) /\ q.i <= Len(q.body.msgs)
            BY <2>1, <2>2, <2>8
        <3>2. q.body.msgs[q.i] = Current(c) /\ call'[c].what = Current(c).what
            BY <2>4, <2>7, <2>8 DEF Current
        <3>3. /\ call'[c].what = q.body.msgs[q.i].what
              /\ q.body.msgs[q.i].form # "malformed" /\ q.body.msgs[q.i].method = "call"
            BY <2>1, <3>2
        <3>4. q.st = "tool"
            BY <2>8
        <3> QED BY Zenon, <3>1, <3>3, <3>4 DEF GoodPost
    <2> QED BY <2>1, <2>6, <2>7, <2>8, <2>10, <2>11, PostGoesOn DEF IInv, TypeOK
<1>8. CASE ToolReturns(c)
    <2> DEFINE w == IF call[c].result = "ok" THEN "result" ELSE "toolError"
    <2>1. /\ launcher = "serving" /\ launcher' = launcher /\ UNCHANGED <<posts, kills>>
          /\ post[c].st = "tool" /\ call[c].at = "end"
          /\ post' = Respond(c, w) /\ call' = [call EXCEPT ![c] = NoTool]
          /\ UNCHANGED <<content, scripts, named, stuck, faults, applied, overlapped>>
        BY <1>8 DEF ToolReturns, Serving
    <2>2. /\ post[c].i <= Len(post[c].body.msgs) /\ call[c].what = Current(c).what
          /\ Current(c).form # "malformed" /\ Current(c).method = "call"
        BY <1>2, <2>1 DEF IInv, PostInv, GoodPost, Current
    <2>3. call[c].what.tool = "panic" => call[c].result = "error"
        BY <2>1 DEF IInv, ToolsInv, ResultInv, Is
    <2>4. w \in {"invalid", "result", "error", "toolError"} /\ w \in Meant(Current(c))
        BY <2>2, <2>3 DEF Meant
    <2> HIDE DEF w
    <2>5. NoTool \in Calls /\ NoTool.at = "none"
        BY ToolsAssumption DEF NoTool, Calls, AllTools
    <2>6. ToolsInv'
        BY <2>1, <2>5, CallChanges DEF IInv
    <2>7. call'[c].at = "none" /\ \A d \in Callers : d # c => call'[d] = call[d]
        BY <2>1, <2>5 DEF IInv, ToolsInv, ToolsTypeOK
    <2> QED BY <2>1, <2>2, <2>4, <2>6, <2>7, StepRespond
<1>9. CASE Answer(c)
    <2>1. /\ launcher = "serving" /\ UNCHANGED <<toolVars, posts, kills>> /\ call[c].at = "none"
          /\ post[c].st = "dispatch" /\ post[c].i > Len(post[c].body.msgs)
          /\ post' = [post EXCEPT ![c].st = "answered", ![c].status = Status(c)]
        BY <1>9 DEF Answer, Serving, IInv, CallInv
    <2>2. Status(c) \in {200, 202, 400} /\ (Status(c) = 202 <=> post[c].responses = <<>>)
        BY DEF Status
    <2>3. /\ post[c].i = Len(post[c].body.msgs) + 1
          /\ AnswersBefore(post[c].body.msgs, post[c].responses, post[c].i)
        BY <1>2, <2>1 DEF IInv, PostInv, GoodPost
    <2> DEFINE q == [post[c] EXCEPT !.st = "answered", !.status = Status(c)]
    <2>4. /\ q \in Posts /\ q.st = "answered" /\ q.body = post[c].body
          /\ q.responses = post[c].responses /\ q.status = Status(c)
        <3>1. Status(c) \in Refusals \cup {200, 202}
            BY <2>2 DEF Refusals
        <3> QED BY <1>2, <3>1 DEF Posts
    <2>5. post' = [post EXCEPT ![c] = q]
        BY <2>1 DEF IInv, TypeOK, Posts
    <2> HIDE DEF q
    <2>6. /\ post' \in [Callers -> Posts] /\ post'[c] = q
          /\ \A d \in Callers : d # c => post'[d] = post[d]
        BY <2>4, <2>5, PostChanges DEF IInv
    <2>7. GoodPost(q, call'[c].what)
        BY <2>2, <2>3, <2>4 DEF GoodPost
    <2> QED BY <1>1, <2>1, <2>4, <2>6, <2>7, PostGoesOn DEF toolVars, IInv, TypeOK
<1> QED BY <1>3, <1>4, <1>5, <1>6, <1>7, <1>8, <1>9 DEF ServeHTTP

LEMMA InitServer == Init => IInv
<1> SUFFICES ASSUME Init PROVE IInv
    OBVIOUS
<1>1. NoTool \in Calls /\ NoTool.at = "none" /\ Idle \in Posts /\ Idle.st = "idle"
    BY ToolsAssumption
    DEF NoTool, Calls, AllTools, Idle, Posts, AnyBody, Refusals
<1>2. \A c \in Callers : call[c] = NoTool /\ post[c] = Idle
    BY DEF Init, ToolsInit
<1>3. TypeOK /\ ToolsTypeOK
    <2>1. call \in [Callers -> Calls] /\ post \in [Callers -> Posts]
        BY <1>1 DEF Init, ToolsInit
    <2>2. ToolsTypeOK
        <3>1. /\ launcher \in {"down", "boot", "serving"} /\ content \subseteq Text
              /\ applied \subseteq Marks /\ overlapped \in BOOLEAN
              /\ scripts \subseteq 1..named /\ stuck \subseteq scripts
            BY DEF Init, ToolsInit
        <3>2. named \in 0..MaxScripts /\ faults \in 0..MaxFaults
            BY ToolsAssumption DEF Init, ToolsInit
        <3> QED BY <2>1, <3>1, <3>2 DEF ToolsTypeOK
    <2> QED BY <2>1, <2>2, McpAssumption DEF Init, TypeOK
<1>4. CallInv /\ ResultInv /\ ScriptInv /\ NoScriptLeft
    BY <1>1, <1>2 DEF Init, ToolsInit, CallInv, ResultInv, ScriptInv, NoScriptLeft
<1>5. EditInv
    BY <1>1, <1>2 DEF Init, ToolsInit, EditInv, AtFile
<1>6. PostInv
    BY <1>1, <1>2 DEF PostInv, GoodPost
<1> QED BY <1>3, <1>4, <1>5, <1>6 DEF IInv, ToolsInv

LEMMA StepServer == IInv /\ [Next]_vars => IInv'
<1> SUFFICES ASSUME IInv, [Next]_vars PROVE IInv'
    OBVIOUS
<1>1. CASE Kill
    <2>1. NoTool \in Calls /\ NoTool.at = "none" /\ Idle \in Posts /\ Idle.st = "idle"
        BY ToolsAssumption
        DEF NoTool, Calls, AllTools, Idle, Posts, AnyBody, Refusals
    <2>2. \A c \in Callers : call'[c] = NoTool /\ post'[c] = Idle
        BY <1>1 DEF Kill, KillLauncher
    <2>3. /\ launcher' = "down" /\ kills' \in 0..MaxKills
          /\ UNCHANGED <<content, scripts, named, stuck, faults, applied, overlapped, posts>>
        BY <1>1, McpAssumption DEF Kill, KillLauncher, IInv, TypeOK
    <2>4. call' \in [Callers -> Calls] /\ post' \in [Callers -> Posts]
        BY <1>1, <2>1 DEF Kill, KillLauncher
    <2>5. TypeOK' /\ ToolsTypeOK'
        BY <2>3, <2>4 DEF IInv, TypeOK, ToolsTypeOK, Text
    <2>6. CallInv' /\ ResultInv' /\ ScriptInv' /\ NoScriptLeft'
        BY <2>1, <2>2, <2>3 DEF CallInv, ResultInv, ScriptInv, NoScriptLeft
    <2>7. EditInv'
        <3>1. AtFile' = {}
            BY <2>1, <2>2 DEF AtFile
        <3> QED BY <2>3, <3>1 DEF IInv, ToolsInv, EditInv
    <2>8. PostInv'
        BY <2>1, <2>2 DEF PostInv, GoodPost
    <2> QED BY <2>5, <2>6, <2>7, <2>8 DEF IInv, ToolsInv
<1>2. CASE Launch
    <2>1. /\ ToolsInv' /\ call' = call /\ launcher # "serving" /\ UNCHANGED <<post, posts, kills>>
        BY <1>2, StepLaunch DEF Launch, IInv
    <2> QED BY <2>1 DEF IInv, ToolsInv, TypeOK, CallInv, PostInv
<1>3. ASSUME NEW c \in Callers, Tool(c) \/ ProgramEnds(c) PROVE IInv'
    <2>1. /\ ToolsInv' /\ launcher' = launcher /\ call[c].at # "none"
          /\ \A d \in Callers : call'[d].what = call[d].what
          /\ \A d \in Callers : d # c => call'[d] = call[d]
          /\ UNCHANGED <<post, posts, kills>>
        BY <1>3, StepTool DEF Tool, ProgramEnds, IInv
    <2>2. TypeOK' /\ PostInv'
        BY <2>1 DEF IInv, ToolsInv, TypeOK, PostInv
    <2>3. CallInv'
        BY <2>1 DEF IInv, CallInv
    <2> QED BY <2>1, <2>2, <2>3 DEF IInv
<1>4. ASSUME NEW c \in Callers, ServeHTTP(c) \/ \E body \in Bodies : Receive(c, body) PROVE IInv'
    BY <1>4, StepPost
<1>5. CASE UNCHANGED vars
    BY <1>5 DEF vars, toolVars, IInv, TypeOK, CallInv, PostInv, ToolsInv, ToolsTypeOK, ResultInv,
                EditInv, ScriptInv, NoScriptLeft, AtFile, Is
<1> QED BY <1>1, <1>2, <1>3, <1>4, <1>5 DEF Next

\* The inductive invariant holds in every reachable state.
THEOREM Invariance == Spec => []IInv
BY InitServer, StepServer, PTL DEF Spec

\* While the launcher serves, every script file belongs to a running call or could not
\* be removed, for any number of kills, callers and failing removals.
THEOREM ScriptsAreRemoved == Spec => []NoScriptLeft
<1>1. IInv => NoScriptLeft
    BY DEF IInv, ToolsInv
<1> QED BY <1>1, Invariance, PTL

\* Edits that do not overlap stay, whichever writes fail halfway and whenever the
\* launcher is killed.
THEOREM EditsAreKept == Spec => []EditsStick
<1>1. IInv => EditsStick
    BY DEF IInv, ToolsInv, EditInv, EditsStick, NoLostEdit
<1> QED BY <1>1, Invariance, PTL

\* Every POST that is answered has one response for each element but the notifications,
\* of the right kind and in order, for bodies of any length.
THEOREM PostsAreAnsweredInFull == Spec => []EveryElementAnswered
<1>1. IInv => EveryElementAnswered
    <2> SUFFICES ASSUME IInv, NEW c \in Callers, post[c].st = "answered", post[c].body.refusal = 0
                 PROVE  LET p == post[c] IN
                        /\ {p.responses[k].el : k \in DOMAIN p.responses} = Answerable(p.body.msgs)
                        /\ \A j, k \in DOMAIN p.responses :
                             j < k => p.responses[j].el < p.responses[k].el
                        /\ \A k \in DOMAIN p.responses :
                             p.responses[k].what \in Meant(p.body.msgs[p.responses[k].el])
                        /\ p.status = 202 <=> p.responses = <<>>
        BY DEF EveryElementAnswered
    <2>1. post[c].body.msgs \in Seq(Messages)
        BY DEF IInv, TypeOK, Posts, AnyBody
    <2>2. {i \in Answerable(post[c].body.msgs) : i < Len(post[c].body.msgs) + 1}
             = Answerable(post[c].body.msgs)
        BY <2>1 DEF Answerable
    <2> QED BY <2>2 DEF IInv, PostInv, GoodPost, AnswersBefore
<1> QED BY <1>1, Invariance, PTL

================================================================================
