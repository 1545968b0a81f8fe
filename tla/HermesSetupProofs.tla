-------------------------- MODULE HermesSetupProofs --------------------------
(***************************************************************************)
(* The safety of hermes-setup for any servers, any settings and any number *)
(* of runs, each of which may be cut short between any two steps.          *)
(***************************************************************************)
EXTENDS HermesSetup, TLAPS

Steps == {"generate", "persist", "backup", "merge", "create", "fill", "rename"}

\* A file, whatever is in it.
Files == [st : {"absent", "empty", "torn", "text"}, keys : SUBSET (Servers \cup Fields), token : Nat]

TypeOK ==
    /\ pc \in Steps \cup {"idle", "done"}
    /\ config \in Files /\ bak \in Files /\ tmp \in Files /\ local \in Files /\ doc \in Files
    /\ token \in Nat /\ runs \in Nat
    /\ user \subseteq Servers
    /\ pc # "idle" => runs > 0

\* Which token the run, its document and unreagent.local.yaml hold at each step.
TokenInv ==
    /\ pc \in {"generate", "persist"} => local.token = 0
    /\ pc = "persist" => doc.token = token
    /\ pc \in {"persist", "backup", "merge", "create", "fill", "rename"} => token # 0
    /\ pc \in {"backup", "merge", "create", "fill", "rename"} => local.token = token

\* What is about to replace Hermes' configuration holds what is in it.
DocInv ==
    /\ pc \in {"create", "fill"} => doc = File("text", config.keys, token)
    /\ pc = "rename" => tmp = File("text", config.keys, token)

IInv == TypeOK /\ TokenInv /\ DocInv /\ NothingLost /\ ConfigWhole /\ TokensAgree

\* The files the user starts with satisfy the invariant.
LEMMA InitIInv == Init => IInv
BY DEF Init, IInv, TypeOK, TokenInv, DocInv, NothingLost, ConfigWhole, TokensAgree,
       Files, File, Absent, Empty, Steps

\* Every step of a run, its end at any point and the user's edits keep it.
LEMMA StepIInv == IInv /\ [Next]_vars => IInv'
<1> SUFFICES ASSUME IInv, [Next]_vars PROVE IInv'
    OBVIOUS
<1> USE DEF IInv, TypeOK, TokenInv, DocInv, NothingLost, ConfigWhole, TokensAgree,
            Files, File, Absent, Empty, Torn, Steps
<1>1. CASE Begin
    BY <1>1 DEF Begin, NeedsToken
<1>2. CASE Generate
    BY <1>2 DEF Generate
<1>3. CASE Persist
    BY <1>3 DEF Persist, PersistToken
<1>4. CASE Backup
    BY <1>4 DEF Backup, BackupOnce
<1>5. CASE Merge
    BY <1>5 DEF Merge, Merged
<1>6. CASE CreateTmp
    BY <1>6 DEF CreateTmp
<1>7. CASE FillTmp
    BY <1>7 DEF FillTmp
<1>8. CASE RenameTmp
    BY <1>8 DEF RenameTmp, Replace
<1>9. CASE Stop
    BY <1>9 DEF Stop
<1>10. ASSUME NEW s \in Servers, UserEdits(s) PROVE IInv'
    BY <1>10 DEF UserEdits
<1>11. CASE UNCHANGED vars
    BY <1>11 DEF vars
<1> QED
    BY <1>1, <1>2, <1>3, <1>4, <1>5, <1>6, <1>7, <1>8, <1>9, <1>10, <1>11 DEF Next

\* The invariant holds in every reachable state.
THEOREM Invariance == Spec => []IInv
BY InitIInv, StepIInv, PTL DEF Spec

\* No server of the user's is ever gone from both config.yaml and its backup, whatever
\* step a run was cut short at and however often it was repeated.
THEOREM ServersSafe == Spec => []NothingLost
<1>1. IInv => NothingLost
    BY DEF IInv
<1> QED BY <1>1, Invariance, PTL

\* The atomic write never leaves a half-written config.yaml.
THEOREM NeverTorn == Spec => []ConfigWhole
<1>1. IInv => ConfigWhole
    BY DEF IInv
<1> QED BY <1>1, Invariance, PTL

\* A run that finished leaves the same token in both files.
THEOREM SameToken == Spec => []TokensAgree
<1>1. IInv => TokensAgree
    BY DEF IInv
<1> QED BY <1>1, Invariance, PTL

\* No step touches a backup that exists.
THEOREM BackupStays == Spec => BackupKept
<1>1. [Next]_vars => [bak # Absent => bak' = bak]_vars
    BY DEF Next, vars, Begin, Generate, Persist, Backup, BackupOnce, Merge, CreateTmp, FillTmp,
           RenameTmp, Stop, UserEdits
<1> QED BY <1>1, PTL DEF Spec, BackupKept

\* A token that the launcher can load is never replaced by a later run.
THEOREM TokenStays == Spec => TokenStable
<1>1. IInv /\ [Next]_vars => [local.token # 0 => local'.token = local.token]_vars
    BY DEF IInv, TokenInv, Next, vars, Begin, Generate, Persist, Backup, BackupOnce, Merge,
           CreateTmp, FillTmp, RenameTmp, Stop, UserEdits
<1> QED BY <1>1, Invariance, PTL DEF Spec, TokenStable
=============================================================================
