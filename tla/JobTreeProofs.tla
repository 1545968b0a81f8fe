---------------------------- MODULE JobTreeProofs ----------------------------
(***************************************************************************)
(* The safety of JobTree for any set of processes, any pipe and any number *)
(* of lines: an inductive invariant and what follows from it.              *)
(***************************************************************************)
EXTENDS JobTree, TLAPS

\* Before the wait, between a stop and the drain, after the child was waited for.
Starting == {"start", "newjob", "assign"}
Ending == {"kill", "reap", "drain", "over"}

\* Nothing is in a job that does not exist, and nothing in a closed one runs.
JobInv ==
    /\ job # "open" => alive \cap member = {}
    /\ job = "none" => member = {}
    /\ pc \in Ending \/ ~launcher => job # "open"
    /\ pc \in {"start", "newjob"} => job = "none"

ChildInv == pc \in {"drain", "over"} => Child \notin alive

\* Who can still write, and what the reader has seen.
PipeInv ==
    /\ runner = "foreground" => holders = {}
    /\ reader = "eof" => pipe = <<>> /\ holders = {}
    /\ reader = "off" => pc \in Starting \/ runner = "foreground"
    /\ reader = "off" /\ runner = "command" => pc = "start"
    /\ pc = "start" \/ (pc \in Starting /\ runner # "command") => reader = "off"
    /\ reader = "closed" => pc = "over"
    /\ pc = "over" /\ runner # "foreground" /\ ~late =>
          pipe = <<>> /\ reader \in {"eof", "closed"}

IInv == TypeOK /\ JobInv /\ ChildInv /\ PipeInv

\* The initial states satisfy the invariant.
LEMMA InitIInv == Init => IInv
<1> SUFFICES ASSUME Init PROVE IInv
    OBVIOUS
<1>1. pipe \in Seq({"line", "long"}) /\ Len(pipe) <= PipeSize /\ written \in 0..MaxLines
    BY JobTreeAssumption DEF Init
<1>2. TypeOK
    BY <1>1 DEF Init, TypeOK
<1>3. JobInv
    BY DEF Init, JobInv, Ending
<1>4. ChildInv /\ PipeInv
    BY DEF Init, ChildInv, PipeInv, Starting
<1> QED BY <1>2, <1>3, <1>4 DEF IInv

\* Every step of the launcher, of its readers and of the processes keeps it.
LEMMA StepIInv == IInv /\ [Next]_vars => IInv'
<1> SUFFICES ASSUME IInv, [Next]_vars PROVE IInv'
    OBVIOUS
<1> USE JobTreeAssumption DEF IInv, TypeOK, JobInv, ChildInv, PipeInv, Starting, Ending, conf, tree, stream
<1>1. CASE StartService
    <2>1. TypeOK'
        BY <1>1 DEF StartService, ChildStarts
    <2>2. JobInv'
        BY <1>1 DEF StartService, ChildStarts
    <2>3. ChildInv'
        BY <1>1 DEF StartService, ChildStarts
    <2>4. PipeInv'
        BY <1>1 DEF StartService, ChildStarts
    <2> QED BY <2>1, <2>2, <2>3, <2>4
<1>2. CASE StartCommand
    BY <1>2 DEF StartCommand, ChildStarts, JobMade
<1>3. CASE NewJob
    BY <1>3 DEF NewJob, JobMade
<1>4. CASE Assign
    <2>1. TypeOK'
        BY <1>4 DEF Assign
    <2>2. JobInv'
        BY <1>4 DEF Assign
    <2>3. ChildInv'
        BY <1>4 DEF Assign
    <2>4. PipeInv'
        BY <1>4 DEF Assign
    <2> QED BY <2>1, <2>2, <2>3, <2>4
<1>5. CASE Kill
    BY <1>5 DEF Kill, KillChild
<1>6. CASE Reap
    BY <1>6 DEF Reap, ChildReaped
<1>7. CASE Ended
    BY <1>7 DEF Ended, WaitReturns, CloseJob
<1>8. CASE Drain
    BY <1>8 DEF Drain, Drained
<1>9. CASE Stop
    BY <1>9 DEF Stop, CloseJob
<1>10. CASE DrainTimeout
    BY <1>10 DEF DrainTimeout, CloseReaders
<1>11. CASE ReadLine
    <2>1. pipe' = Tail(pipe) /\ pipe # <<>> /\ reader = "on"
        BY <1>11 DEF ReadLine, TakeLine
    <2>2. pipe' \in Seq({"line", "long"}) /\ Len(pipe') <= PipeSize
        BY <2>1
    <2> QED BY <1>11, <2>1, <2>2 DEF ReadLine, TakeLine
<1>12. CASE EndOfFile
    BY <1>12 DEF EndOfFile
<1>13. CASE LauncherDies
    <2>1. TypeOK'
        BY <1>13 DEF LauncherDies, CloseJob
    <2>2. JobInv'
        BY <1>13 DEF LauncherDies, CloseJob
    <2>3. ChildInv' /\ PipeInv'
        BY <1>13 DEF LauncherDies, CloseJob
    <2> QED BY <2>1, <2>2, <2>3
<1>14. ASSUME NEW p \in alive, Exit(p) PROVE IInv'
    BY <1>14 DEF Exit
<1>15. ASSUME NEW p \in alive, NEW q \in Procs, Fork(p, q) PROVE IInv'
    BY <1>15 DEF Fork
<1>16. ASSUME NEW p \in alive, NEW line \in {"line", "long"}, Write(p, line) PROVE IInv'
    <2>1. pipe' = Append(pipe, line) /\ p \in holders /\ reader # "closed" /\ Len(pipe) < PipeSize
        BY <1>16 DEF Write
    <2>2. pipe' \in Seq({"line", "long"}) /\ Len(pipe') <= PipeSize
        BY <2>1
    <2> QED BY <1>16, <2>1, <2>2 DEF Write
<1>17. CASE UNCHANGED vars
    BY <1>17 DEF vars
<1> QED
    BY <1>1, <1>2, <1>3, <1>4, <1>5, <1>6, <1>7, <1>8, <1>9, <1>10, <1>11, <1>12,
       <1>13, <1>14, <1>15, <1>16, <1>17 DEF Next, Run, Read

\* The invariant holds in every reachable state.
THEOREM Invariance == Spec => []IInv
BY InitIInv, StepIInv, PTL DEF Spec

\* The variables keep their types, for every set of processes and every pipe.
THEOREM TypeCorrect == Spec => []TypeOK
<1>1. IInv => TypeOK
    BY DEF IInv
<1> QED BY <1>1, Invariance, PTL

\* Closing the job (or dying) leaves no member of it running, whatever the tree was
\* forking, on which the package's promise about orphans rests.
THEOREM JobEndsMembers == Spec => []MembersAreGone
<1>1. IInv => MembersAreGone
    BY DEF IInv, TypeOK, JobInv, MembersAreGone, Over, Ending
<1> QED BY <1>1, Invariance, PTL

\* An instance is never over while its direct child runs, with or without a job.
THEOREM ChildReapedFirst == Spec => []ChildIsGone
<1>1. IInv => ChildIsGone
    BY DEF IInv, ChildInv, ChildIsGone
<1> QED BY <1>1, Invariance, PTL

\* The output of an instance is logged before its end is reported, unless the drain
\* timer gave up on it.
THEOREM OutputLoggedFirst == Spec => []LastWordsLogged
<1>1. IInv => LastWordsLogged
    BY DEF IInv, PipeInv, LastWordsLogged
<1> QED BY <1>1, Invariance, PTL
==============================================================================
