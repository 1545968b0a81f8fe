------------------------------- MODULE JobTree -------------------------------
(***************************************************************************)
(* The process tree of one instance, service or one-off command, the job   *)
(* object that is to end it and the pipe its output goes through: from     *)
(* exec.Cmd.Start through NewJob and Assign to the close of the job and    *)
(* the drain of the pipe, while the processes of the tree fork, write and  *)
(* exit and the launcher may die.                                          *)
(***************************************************************************)
EXTENDS Integers, Sequences, FiniteSets

CONSTANTS
    Procs,        \* the processes the tree can ever hold
    Child,        \* the direct child of the launcher
    Runners,      \* who runs it: "service" (runService), "foreground" (the same,
                  \* without pipes), "command" (runOnce)
    Builds,       \* "windows" (job_windows.go), "other" (job_other.go: jobs do nothing)
    JobMayFail,   \* CreateJobObject or AssignProcessToJobObject may fail
    PipeSize,     \* lines a pipe holds before its writer blocks
    MaxLines      \* bound: lines written in a behaviour

ASSUME JobTreeAssumption ==
    /\ Child \in Procs
    /\ Runners \subseteq {"service", "foreground", "command"}
    /\ Builds \subseteq {"windows", "other"}
    /\ JobMayFail \in BOOLEAN
    /\ PipeSize \in Nat \ {0} /\ MaxLines \in Nat

VARIABLES
    runner, build,   \* never change
    pc,         \* where the launcher's goroutine is
    launcher,   \* the launcher process runs
    born,       \* processes forked so far
    alive,      \* processes that run
    member,     \* processes in the job
    holders,    \* processes with a write end of the output pipes
    job,        \* "none", "open" or "closed"
    doomed,     \* the child was sent the kill
    pipe,       \* lines written and not read yet
    written,    \* number of lines written so far
    reader,     \* the goroutine reading the pipe: "off", "on", "eof" or "closed"
    late        \* the drain timer ended the drain

conf == <<runner, build>>
tree == <<born, alive, member, holders>>
stream == <<pipe, written, reader, late>>
vars == <<conf, pc, launcher, tree, job, doomed, stream>>

Init ==
    /\ runner \in Runners /\ build \in Builds
    /\ pc = "start" /\ launcher = TRUE
    /\ born = {} /\ alive = {} /\ member = {} /\ holders = {} /\ job = "none"
    /\ doomed = FALSE
    /\ pipe = <<>> /\ written = 0 /\ reader = "off" /\ late = FALSE

\* A job, unless it cannot be created or there is no such thing.
JobMade ==
    \/ job' = "open" /\ build = "windows"
    \/ job' = "none" /\ (JobMayFail \/ build = "other")

\* c.Start: the child runs, and a foreground service has the console, not the pipe.
ChildStarts ==
    /\ pc = "start" /\ launcher
    /\ born' = {Child} /\ alive' = {Child}
    /\ holders' = IF runner = "foreground" THEN {} ELSE {Child}
    /\ UNCHANGED <<conf, launcher, member, doomed, pipe, written, late>>

\* A service's child runs outside any job, and unread, before NewJob and Assign.
StartService ==
    /\ runner # "command" /\ ChildStarts
    /\ pc' = "newjob"
    /\ UNCHANGED <<job, reader>>

\* A command has its job made first; os/exec reads its pipe from the start.
StartCommand ==
    /\ runner = "command" /\ ChildStarts
    /\ pc' = "assign" /\ reader' = "on"
    /\ JobMade

NewJob ==
    /\ pc = "newjob" /\ launcher /\ pc' = "assign"
    /\ JobMade
    /\ UNCHANGED <<conf, launcher, tree, doomed, stream>>

\* A process that is gone cannot be assigned; a failure is logged and nothing else.
\* startDrain follows.
Assign ==
    /\ pc = "assign" /\ launcher /\ pc' = "wait"
    /\ reader' = IF runner = "service" THEN "on" ELSE reader
    /\ \/ job = "open" /\ member' = {Child} \cap alive
       \/ (job = "none" \/ JobMayFail) /\ UNCHANGED member
    /\ UNCHANGED <<conf, launcher, born, alive, holders, job, doomed, pipe, written, late>>

\* mutant: the job object survives its handle (no KILL_ON_JOB_CLOSE).
CloseKeepsTree ==
    /\ job' = IF job = "open" THEN "closed" ELSE job
    /\ UNCHANGED <<alive, holders>>

\* Job.Close: KILL_ON_JOB_CLOSE ends every process in the job.  A no-op without one.
CloseJob ==
    /\ job' = IF job = "open" THEN "closed" ELSE job
    /\ alive' = IF job = "open" THEN alive \ member ELSE alive
    /\ holders' = IF job = "open" THEN holders \ member ELSE holders

\* stop(): close the job, kill the child, wait for it.
Stop ==
    /\ runner # "command" /\ pc = "wait" /\ launcher /\ pc' = "kill"
    /\ CloseJob
    /\ UNCHANGED <<conf, launcher, born, member, doomed, stream>>

KillChild == doomed' = TRUE

Kill ==
    /\ pc = "kill" /\ launcher /\ pc' = "reap"
    /\ KillChild
    /\ UNCHANGED <<conf, launcher, tree, job, stream>>

\* <-waitCh: the child is gone.
ChildReaped == Child \notin alive

Reap ==
    /\ pc = "reap" /\ launcher /\ ChildReaped /\ pc' = "drain"
    /\ UNCHANGED <<conf, launcher, tree, job, doomed, stream>>

\* mutant: cmd.Wait of a command waits for every process of the tree.
WaitForTree == alive = {}

\* exec.Cmd.Wait: a service's pipe is the supervisor's own, a command's is os/exec's,
\* and Wait returns no earlier than its reader.
WaitReturns == Child \notin alive /\ (runner = "command" => reader = "eof")

\* The instance ended by itself: close the job, which ends what it left running.
Ended ==
    /\ pc = "wait" /\ launcher /\ WaitReturns
    /\ pc' = IF runner = "command" THEN "over" ELSE "drain"
    /\ CloseJob
    /\ UNCHANGED <<conf, launcher, born, member, doomed, stream>>

\* streams.wait: the readers are at end of file, or there are none.
Drained == reader \in {"eof", "off"}

\* releaseStreams; the exit is reported after it.
Drain ==
    /\ pc = "drain" /\ launcher /\ Drained /\ pc' = "over"
    /\ reader' = "closed"
    /\ UNCHANGED <<conf, launcher, tree, job, doomed, pipe, written, late>>

\* mutant: the drain has no timeout.
DrainForever == FALSE /\ UNCHANGED <<pc, reader, late>>

CloseReaders == pc' = "over" /\ reader' = "closed" /\ late' = TRUE

\* streamDrainTimeout: what is still in the pipe is lost.
DrainTimeout ==
    /\ pc = "drain" /\ launcher /\ reader = "on"
    /\ CloseReaders
    /\ UNCHANGED <<conf, launcher, tree, job, doomed, pipe, written>>

-----------------------------------------------------------------------------
(* The goroutine in stream(): line after line, an over-long one in pieces, until the
   end of file that follows the last write end's close. *)

\* mutant: a line that is too long ends the stream.
TakeShortLine ==
    \/ Head(pipe) = "line" /\ pipe' = Tail(pipe) /\ UNCHANGED reader
    \/ Head(pipe) = "long" /\ reader' = "eof" /\ UNCHANGED pipe

TakeLine == pipe' = Tail(pipe) /\ UNCHANGED reader

ReadLine ==
    /\ reader = "on" /\ launcher /\ pipe # <<>>
    /\ TakeLine
    /\ UNCHANGED <<conf, pc, launcher, tree, job, doomed, written, late>>

EndOfFile ==
    /\ reader = "on" /\ launcher /\ pipe = <<>> /\ holders = {}
    /\ reader' = "eof"
    /\ UNCHANGED <<conf, pc, launcher, tree, job, doomed, pipe, written, late>>

\* The launcher crashes or is killed: the kernel closes its handles.
LauncherDies ==
    /\ launcher /\ launcher' = FALSE
    /\ CloseJob
    /\ UNCHANGED <<conf, pc, born, member, doomed, stream>>

-----------------------------------------------------------------------------
(* Any process of the tree. *)

\* A child process inherits the job membership and, unless redirected, the pipe.
Fork(p, q) ==
    /\ p \in alive /\ q \in Procs \ (born \cup {Child})
    /\ born' = born \cup {q} /\ alive' = alive \cup {q}
    /\ member' = IF p \in member THEN member \cup {q} ELSE member
    /\ holders' \in {holders, IF p \in holders THEN holders \cup {q} ELSE holders}
    /\ UNCHANGED <<conf, pc, launcher, job, doomed, stream>>

\* A process blocks while the pipe is full.
Write(p, line) ==
    /\ p \in holders /\ Len(pipe) < PipeSize /\ reader # "closed" /\ launcher
    /\ written < MaxLines /\ written' = written + 1
    /\ pipe' = Append(pipe, line)
    /\ UNCHANGED <<conf, pc, launcher, tree, job, doomed, reader, late>>

Exit(p) ==
    /\ p \in alive
    /\ alive' = alive \ {p} /\ holders' = holders \ {p}
    /\ UNCHANGED <<conf, pc, launcher, born, member, job, doomed, stream>>

-----------------------------------------------------------------------------
Run == StartService \/ StartCommand \/ NewJob \/ Assign \/ Kill \/ Reap \/ Ended \/ Drain
Read == ReadLine \/ EndOfFile

Next ==
    \/ Run \/ Stop \/ DrainTimeout \/ Read \/ LauncherDies
    \/ \E p \in alive :
          \/ Exit(p)
          \/ \E q \in Procs : Fork(p, q)
          \/ \E line \in {"line", "long"} : Write(p, line)

Spec == Init /\ [][Next]_vars

\* The launcher's goroutines run while it does, its timer fires, and a killed child
\* dies; nothing else obliges a process to exit or to write, a caller to stop the
\* service, or the launcher to live.
FairSpec ==
    Spec /\ WF_vars(Run) /\ WF_vars(DrainTimeout) /\ WF_vars(Read) /\ WF_vars(doomed /\ Exit(Child))

-----------------------------------------------------------------------------
(* Correctness. *)

\* Type invariant.
TypeOK ==
    /\ pc \in {"start", "newjob", "assign", "wait", "kill", "reap", "drain", "over"}
    /\ runner \in Runners /\ build \in Builds
    /\ launcher \in BOOLEAN /\ job \in {"none", "open", "closed"}
    /\ doomed \in BOOLEAN
    /\ born \subseteq Procs /\ alive \subseteq born /\ holders \subseteq alive
    /\ member \subseteq born
    /\ pipe \in Seq({"line", "long"}) /\ Len(pipe) <= PipeSize
    /\ written \in 0..MaxLines /\ late \in BOOLEAN
    /\ reader \in {"off", "on", "eof", "closed"}

\* The instance is over, by stop or by itself, or nobody is left to end it.
Over == pc = "over" \/ ~launcher

\* No process that is in the job survives the instance, however it ends and
\* whatever the tree was forking at that moment.
MembersAreGone == Over => alive \cap member = {}

\* The direct child never survives a stop or its own end, with or without a job
\* (the Kill in stop is the fallback the comment in job_other.go relies on).
ChildIsGone == pc = "over" => Child \notin alive

\* "Every running process instance lives in a Windows job object, so stopping,
\* restarting or crashing the launcher leaves no orphan processes behind"
\* (supervisor.go:4).
NoOrphans == Over => alive = {}

\* "Flush the trailing output first: the lines a crashing process wrote last are the
\* ones the user needs" (releaseStreams): when the end of an instance is reported,
\* nothing it wrote is left in the pipe, unless the drain timer ended the drain.
LastWordsLogged == pc = "over" /\ runner # "foreground" /\ ~late => pipe = <<>>

\* Every end comes to an end: stop() and the exit path return although a surviving
\* descendant may hold the pipe for ever -- killing the child and the drain timer are
\* enough.
EndReturns == pc \in {"kill", "drain"} ~> pc = "over" \/ ~launcher

\* RunCommand returns once the child and the last process that can still write to
\* its output are gone -- and, a descendant being able to hold the pipe, no earlier.
CommandReturns ==
    (runner = "command" /\ pc = "wait" /\ Child \notin alive /\ holders = {})
        ~> (pc = "over" \/ ~launcher)

\* No process is stuck for ever on a full pipe while its instance lives, whatever
\* lines it writes (what maxLogLine is for).
WriterGoesOn ==
    Len(pipe) = PipeSize ~> Len(pipe) < PipeSize \/ pc = "over" \/ ~launcher
=============================================================================
