---------------------------- MODULE HermesSetup ----------------------------
(***************************************************************************)
(* unreagent hermes-setup: repeated runs of runHermesSetup over the files  *)
(* it reads and writes -- Hermes' config.yaml, its backup, the temporary   *)
(* file of the atomic write and unreagent.local.yaml -- with a crash (or a *)
(* failing call, which ends the run at the same place) between any two     *)
(* steps, and a user who edits Hermes' configuration between runs.         *)
(***************************************************************************)
EXTENDS Naturals, FiniteSets

CONSTANTS
    Servers,   \* names under mcp_servers other than unreagent's own
    Fields,    \* settings of unreagent.local.yaml other than mcp.token
    MaxRuns    \* bound: runs of the command; run n generates token n

ASSUME HermesAssumption == MaxRuns \in Nat

VARIABLES
    pc,       \* next step of the run, "idle" between runs
    config,   \* ~/.hermes/config.yaml
    bak,      \* config.yaml.bak
    tmp,      \* the temporary file of writeYAMLAtomic
    local,    \* unreagent.local.yaml
    token,    \* the run's token, 0 = none
    doc,      \* the run's document in memory
    runs,
    had,      \* servers in config when the run began
    user      \* servers the user ever configured

vars == <<pc, config, bak, tmp, local, token, doc, runs, had, user>>

\* A file: what it holds besides unreagent's token, and the token (0 = none).
File(st, keys, tok) == [st |-> st, keys |-> keys, token |-> tok]
Absent == File("absent", {}, 0)
Empty == File("empty", {}, 0)
Torn == File("torn", {}, 0)

Init ==
    /\ pc = "idle" /\ runs = 0 /\ token = 0 /\ doc = Empty
    /\ bak = Absent /\ tmp = Absent
    /\ user \in SUBSET Servers /\ had = {}
    /\ config \in IF user = {} THEN {Absent, Empty} ELSE {File("text", user, 0)}
    /\ local \in {Absent} \cup {File("text", settings, 0) : settings \in SUBSET Fields \ {{}}}

NeedsToken == local.token = 0

\* config.Load: the token that unreagent.local.yaml already holds, if any.
Begin ==
    /\ pc \in {"idle", "done"} /\ runs < MaxRuns
    /\ runs' = runs + 1 /\ had' = config.keys /\ token' = local.token
    /\ pc' = IF NeedsToken THEN "generate" ELSE "backup"
    /\ UNCHANGED <<config, bak, tmp, local, doc, user>>

\* generateBearerToken; persistGeneratedToken up to os.WriteFile, which first
\* truncates the file it is to write ...
Generate ==
    /\ pc = "generate" /\ pc' = "persist"
    /\ token' = runs
    /\ doc' = File("text", local.keys, runs) /\ local' = Empty
    /\ UNCHANGED <<config, bak, tmp, runs, had, user>>

\* mutant: the token is not persisted.
PersistNothing == local' = File("text", doc.keys, 0)

\* ... and then writes it.
PersistToken == local' = doc

Persist ==
    /\ pc = "persist" /\ pc' = "backup"
    /\ PersistToken
    /\ UNCHANGED <<config, bak, tmp, token, doc, runs, had, user>>

\* mutant: an earlier backup is replaced.
BackupAgain == bak' = config /\ config' = Absent

\* The existing configuration is moved aside, unless a backup is there already.
BackupOnce ==
    IF bak = Absent THEN bak' = config /\ config' = Absent ELSE UNCHANGED <<bak, config>>

Backup ==
    /\ pc = "backup" /\ pc' = "merge"
    /\ IF config.st = "text" THEN BackupOnce ELSE UNCHANGED <<bak, config>>
    /\ UNCHANGED <<tmp, local, token, doc, runs, had, user>>

\* mutant: the document read is not the base of the one written.
MergeFresh == File("text", {}, token)

\* loadHermesYAML and mergeHermesServer: a missing or empty file is an empty document.
Merged == File("text", config.keys, token)

Merge ==
    /\ pc = "merge" /\ pc' = "create"
    /\ doc' = Merged
    /\ UNCHANGED <<config, bak, tmp, local, token, runs, had, user>>

\* writeYAMLAtomic: create the temporary file, fill it, rename it.
CreateTmp ==
    /\ pc = "create" /\ pc' = "fill"
    /\ tmp' = Torn
    /\ UNCHANGED <<config, bak, local, token, doc, runs, had, user>>

FillTmp ==
    /\ pc = "fill" /\ pc' = "rename"
    /\ tmp' = doc
    /\ UNCHANGED <<config, bak, local, token, doc, runs, had, user>>

\* mutant: the target is opened and then written.
ReplaceInPlace == IF tmp = doc THEN config' = Torn /\ tmp' = Absent /\ pc' = "rename"
                  ELSE config' = doc /\ UNCHANGED tmp /\ pc' = "done"

Replace == config' = tmp /\ tmp' = Absent /\ pc' = "done"

RenameTmp ==
    /\ pc = "rename"
    /\ Replace
    /\ UNCHANGED <<bak, local, token, doc, runs, had, user>>

\* The run is killed, or a call fails and it returns the error (which also removes
\* the temporary file; a later run never reads it).
Stop ==
    /\ pc \notin {"idle", "done"} /\ pc' = "idle"
    /\ tmp' = Absent
    /\ UNCHANGED <<config, bak, local, token, doc, runs, had, user>>

\* Between runs the user adds a server to Hermes' configuration.
UserEdits(s) ==
    /\ pc \in {"idle", "done"} /\ s \notin user
    /\ config' = File("text", config.keys \cup {s}, config.token)
    /\ user' = user \cup {s} /\ pc' = "idle"
    /\ UNCHANGED <<bak, tmp, local, token, doc, runs, had>>

Next ==
    \/ Begin \/ Generate \/ Persist \/ Backup \/ Merge \/ CreateTmp \/ FillTmp \/ RenameTmp
    \/ Stop \/ \E s \in Servers : UserEdits(s)

Spec == Init /\ [][Next]_vars

-----------------------------------------------------------------------------
(* Correctness. *)

\* No server the user configured is ever gone from both the configuration and its
\* backup, wherever a run was cut short and however often it is repeated.
NothingLost == user \subseteq config.keys \cup bak.keys

\* "Backs up an existing Hermes config to <path>.bak (once; never overwrites a
\* previous backup)" (README.md:413).
BackupKept == [][bak # Absent => bak' = bak]_vars

\* "a crash mid-write cannot leave a half-written config" (README.md:418).
ConfigWhole == config.st # "torn"

\* A run that finished leaves Hermes with the token the launcher will load.
TokensAgree == pc = "done" => config.token = local.token /\ config.token # 0

\* "so the token survives restarts" (README.md:412): once in unreagent.local.yaml, no
\* later run replaces it.
TokenStable == [][local.token # 0 => local'.token = local.token]_vars

\* "Other servers under mcp_servers are left alone" (main.go:1607).
OthersKept == pc = "done" => had \subseteq config.keys
=============================================================================
