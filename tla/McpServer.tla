------------------------------ MODULE McpServer ------------------------------
(***************************************************************************)
(* The MCP server: concurrent POSTs, each admitted or refused, a single    *)
(* JSON-RPC message or a batch, whose elements are dispatched one after    *)
(* the other, and the tool calls they make (module Tools).                 *)
(***************************************************************************)
EXTENDS Tools, Sequences

CONSTANTS
    Bodies,     \* the POSTs a client may send
    MaxPosts,   \* bound: POSTs in a behaviour
    MaxKills    \* bound: kills of the launcher in a behaviour

(* A body is [refusal, batch, msgs]; refusal is the status of the first check the
   request fails, in the order of ServeHTTP, or 0. *)
Refusals == {0, 400, 401, 403, 405, 413, 415}

(* A message is [form, method, what]: its form says whether parseMessage accepts it
   and whether an id (an explicit null is one) is present. *)
Forms == {"malformed", "request", "notification"}
Methods == {"call", "unknownTool", "unknown", "local"}
Messages == [form : Forms, method : Methods, what : AllTools]
AnyBody == [refusal : Refusals, batch : BOOLEAN, msgs : Seq(Messages)]

ASSUME McpAssumption ==
    /\ MaxPosts \in Nat /\ MaxKills \in Nat
    /\ Bodies \subseteq AnyBody
    /\ \A b \in Bodies : ~b.batch => Len(b.msgs) = 1

VARIABLES
    post,    \* per caller: the POST it is serving
    posts,   \* counter of MaxPosts
    kills    \* counter of MaxKills

vars == <<toolVars, post, posts, kills>>

Idle == [st |-> "idle", body |-> [refusal |-> 0, batch |-> FALSE, msgs |-> <<>>],
         i |-> 0, responses |-> <<>>, status |-> 0]

Init ==
    /\ ToolsInit
    /\ post = [c \in Callers |-> Idle]
    /\ posts = 0 /\ kills = 0

Serving(c, st) == launcher = "serving" /\ post[c].st = st

-----------------------------------------------------------------------------
(* ServeHTTP up to the dispatch *)

Receive(c, body) ==
    /\ launcher = "serving" /\ post[c].st \in {"idle", "answered"}
    /\ posts < MaxPosts /\ posts' = posts + 1
    /\ post' = [post EXCEPT ![c] = [Idle EXCEPT !.st = "check", !.body = body]]
    /\ UNCHANGED <<toolVars, kills>>

\* Method, Origin, Content-Type, token, size, an empty body or batch.
Refused(c) == post[c].body.refusal # 0

Refuse(c) ==
    /\ Serving(c, "check") /\ Refused(c)
    /\ post' = [post EXCEPT ![c].st = "answered", ![c].status = post[c].body.refusal]
    /\ UNCHANGED <<toolVars, posts, kills>>

Admit(c) ==
    /\ Serving(c, "check") /\ ~Refused(c)
    /\ post' = [post EXCEPT ![c].st = "dispatch", ![c].i = 1]
    /\ UNCHANGED <<toolVars, posts, kills>>

-----------------------------------------------------------------------------
(* dispatch, handle *)

Current(c) == post[c].body.msgs[post[c].i]
Pending(c) == Serving(c, "dispatch") /\ post[c].i <= Len(post[c].body.msgs)

\* mutant: a notification that fails is answered.
RespondToErrors(c, what) ==
    [post EXCEPT ![c].st = "dispatch", ![c].i = @ + 1,
                 ![c].responses = IF Current(c).form = "notification" /\ what # "error" THEN @
                                  ELSE Append(@, [el |-> post[c].i, what |-> what])]

\* The response for the current element, unless it is a notification; the next one.
Respond(c, what) ==
    [post EXCEPT ![c].st = "dispatch", ![c].i = @ + 1,
                 ![c].responses = IF Current(c).form = "notification" THEN @
                                  ELSE Append(@, [el |-> post[c].i, what |-> what])]

\* parseMessage refuses it, or a method that runs no tool.
HandleLocally(c) ==
    /\ Pending(c)
    /\ Current(c).form = "malformed" \/ Current(c).method # "call"
    /\ post' = Respond(c, IF Current(c).form = "malformed" THEN "invalid"
                          ELSE IF Current(c).method = "local" THEN "result" ELSE "error")
    /\ UNCHANGED <<toolVars, posts, kills>>

\* A notification runs its tool like a request does.
CallTool(c) ==
    /\ Pending(c) /\ Current(c).form # "malformed" /\ Current(c).method = "call"
    /\ post' = [post EXCEPT ![c].st = "tool"]
    /\ BeginCall(c, Current(c).what)
    /\ UNCHANGED <<launcher, content, scripts, named, stuck, faults, applied, overlapped, posts, kills>>

ToolReturns(c) ==
    /\ Serving(c, "tool") /\ call[c].at = "end"
    /\ post' = Respond(c, IF call[c].result = "ok" THEN "result" ELSE "toolError")
    /\ call' = [call EXCEPT ![c] = NoTool]
    /\ UNCHANGED <<launcher, content, scripts, named, stuck, faults, applied, overlapped, posts, kills>>

\* 202 without a body for notifications; 400 for a single malformed message.
Status(c) ==
    IF post[c].responses = <<>> THEN 202
    ELSE IF ~post[c].body.batch /\ post[c].responses[1].what = "invalid" THEN 400 ELSE 200

Answer(c) ==
    /\ Serving(c, "dispatch") /\ post[c].i > Len(post[c].body.msgs)
    /\ post' = [post EXCEPT ![c].st = "answered", ![c].status = Status(c)]
    /\ UNCHANGED <<toolVars, posts, kills>>

\* The connections go with the launcher.
Kill ==
    /\ kills < MaxKills /\ kills' = kills + 1
    /\ KillLauncher
    /\ post' = [c \in Callers |-> Idle]
    /\ UNCHANGED posts

-----------------------------------------------------------------------------
ServeHTTP(c) == Refuse(c) \/ Admit(c) \/ HandleLocally(c) \/ CallTool(c) \/ ToolReturns(c) \/ Answer(c)
Tool(c) == ToolStep(c) /\ UNCHANGED <<post, posts, kills>>
ProgramEnds(c) == (ScriptEnds(c) \/ CommandEnds(c)) /\ UNCHANGED <<post, posts, kills>>
Launch == (StartLauncher \/ Boot) /\ UNCHANGED <<post, posts, kills>>

Next ==
    \/ Kill \/ Launch
    \/ \E c \in Callers :
          \/ ServeHTTP(c) \/ Tool(c) \/ ProgramEnds(c)
          \/ \E body \in Bodies : Receive(c, body)

Spec == Init /\ [][Next]_vars

\* Goroutines are scheduled and system calls return; the program of a script or of
\* run_command need not end (RunOnce and RunCommand wait for it without a limit), a
\* client need not post, and nobody has to start the launcher.
FairSpec ==
    /\ Spec
    /\ WF_vars(Boot /\ UNCHANGED <<post, posts, kills>>)
    /\ \A c \in Callers : WF_vars(ServeHTTP(c) \/ Tool(c))

-----------------------------------------------------------------------------

Answers == [el : Nat, what : {"invalid", "result", "error", "toolError"}]
Posts == [st : {"idle", "check", "dispatch", "tool", "answered"}, body : AnyBody,
          i : Nat, responses : Seq(Answers), status : Refusals \cup {200, 202}]

TypeOK ==
    /\ ToolsTypeOK
    /\ posts \in 0..MaxPosts /\ kills \in 0..MaxKills
    /\ post \in [Callers -> Posts]

\* What the client must get for a message, by JSON-RPC; a tool may succeed or not.
Meant(msg) ==
    CASE msg.form = "malformed" -> {"invalid"}
      [] msg.form # "malformed" /\ msg.method = "call" ->
            IF msg.what.tool = "panic" THEN {"toolError"} ELSE {"result", "toolError"}
      [] msg.form # "malformed" /\ msg.method = "local" -> {"result"}
      [] OTHER -> {"error"}

\* The elements of a body that must be answered.
Answerable(msgs) == {i \in DOMAIN msgs : msgs[i].form # "notification"}

\* "Elements are parsed and validated independently" (serveBatch) and a panic of a
\* tool is an error of that tool alone (callTool): an answered POST carries exactly one
\* response for every element but the notifications, in order, each of the right kind,
\* and 202 when there is none.
EveryElementAnswered ==
    \A c \in Callers : LET p == post[c] IN
        p.st = "answered" /\ p.body.refusal = 0 =>
            /\ {p.responses[k].el : k \in DOMAIN p.responses} = Answerable(p.body.msgs)
            /\ \A j, k \in DOMAIN p.responses :
                 j < k => p.responses[j].el < p.responses[k].el
            /\ \A k \in DOMAIN p.responses :
                 p.responses[k].what \in Meant(p.body.msgs[p.responses[k].el])
            /\ p.status = 202 <=> p.responses = <<>>

\* Every POST is answered while the launcher lives, unless a script or a command of its
\* own never ends: neither a panic, nor a failing tool, nor a script or a command that
\* did end, nor another client's endless one keeps it waiting.
PostIsAnswered ==
    \A c \in Callers :
        post[c].st = "check" ~>
            \/ post[c].st = "answered" \/ launcher # "serving"
            \/ [](call[c].at \in {"run", "command"})
==============================================================================
