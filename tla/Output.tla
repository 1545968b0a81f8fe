------------------------------- MODULE Output -------------------------------
(***************************************************************************)
(* What becomes of the output of a service or a one-off command.  For a    *)
(* service: the two pipes of every process instance (streamSet), the       *)
(* goroutines that read them (stream), the drain at the end of an instance *)
(* (releaseStreams) and the ring buffer that all instances share.  For a   *)
(* command: the head/tail buffer that os/exec writes to.                   *)
(*                                                                         *)
(* The processes of an instance are abstracted to whether one of them      *)
(* still holds the write ends (JobTree has the tree).  A line is named by  *)
(* its instance, its pipe and its number, so that the history of the log   *)
(* can be compared with what was written.                                  *)
(***************************************************************************)
EXTENDS Buffers, FiniteSets, Functions

CONSTANTS
    MaxInstances,  \* bound: instances in a behaviour
    MaxLines,      \* bound: lines written in a behaviour
    MaxBytes       \* bound: bytes the command writes

ASSUME OutputAssumption ==
    MaxInstances \in Nat \ {0} /\ MaxLines \in Nat /\ MaxBytes \in Nat

Instances == 1..MaxInstances
Pipes == {"stdout", "stderr"}
Readers == Instances \X Pipes

VARIABLES
    source,   \* whose output: "service" or "command"; never changes
    inst,     \* the latest instance, 0 before the first
    phase,    \* it is "up", in its "drain", or there is none ("down")
    held,     \* instances with a process that holds the write ends
    closed,   \* instances whose read ends were closed
    late,     \* instances whose drain ended by its timer
    wrote,    \* lines written to each pipe so far
    pipe,     \* lines in each pipe
    chunk,    \* lines that its reader has in its bufio.Reader
    reader,   \* the goroutine: "off", "on" or "done"
    log,      \* svc.logbuf
    added,    \* history: every line ever added to it
    out       \* the command's headTailBuffer; the bytes written are 1, 2, ...

instanceVars == <<inst, phase, held, closed, late>>
streamVars == <<wrote, pipe, chunk, reader, log, added>>
vars == <<source, instanceVars, streamVars, out>>

Init ==
    /\ source \in {"service", "command"}
    /\ inst = 0 /\ phase = "down" /\ held = {} /\ closed = {} /\ late = {}
    /\ wrote = [r \in Readers |-> 0]
    /\ pipe = [r \in Readers |-> <<>>]
    /\ chunk = [r \in Readers |-> <<>>]
    /\ reader = [r \in Readers |-> "off"]
    /\ log = <<>> /\ added = <<>>
    /\ out = NewHeadTail

-----------------------------------------------------------------------------
(* The instance. *)

\* newStreamSet, closeWriteEnds and startDrain of one start.
Start ==
    /\ source = "service" /\ phase = "down" /\ inst < MaxInstances
    /\ inst' = inst + 1 /\ phase' = "up" /\ held' = held \cup {inst + 1}
    /\ reader' = [r \in Readers |-> IF r[1] = inst + 1 THEN "on" ELSE reader[r]]
    /\ UNCHANGED <<source, closed, late, wrote, pipe, chunk, log, added, out>>

\* The instance ended or was stopped; a descendant may go on holding its pipes.
End ==
    /\ phase = "up" /\ phase' = "drain"
    /\ held' \in {held, held \ {inst}}
    /\ UNCHANGED <<source, inst, closed, late, streamVars, out>>

\* The last such descendant ends, too.
LetGo(i) ==
    /\ i \in held /\ ~(i = inst /\ phase = "up")
    /\ held' = held \ {i}
    /\ UNCHANGED <<source, inst, phase, closed, late, streamVars, out>>

\* mutant: done is closed by the first reader that returns.
SomeReaderDone == \E p \in Pipes : reader[<<inst, p>>] = "done"

\* <-ss.done
ReadersDone == \A p \in Pipes : reader[<<inst, p>>] = "done"

\* mutant: the read ends stay open.
KeepOpen == UNCHANGED closed

\* streamSet.close
CloseReadEnds == closed' = closed \cup {inst}

Drained ==
    /\ phase = "drain" /\ ReadersDone
    /\ phase' = "down" /\ CloseReadEnds
    /\ UNCHANGED <<source, inst, held, late, streamVars, out>>

\* streamDrainTimeout passed.
DrainTimeout ==
    /\ phase = "drain" /\ ~ReadersDone
    /\ phase' = "down" /\ CloseReadEnds /\ late' = late \cup {inst}
    /\ UNCHANGED <<source, inst, held, streamVars, out>>

-----------------------------------------------------------------------------
(* Writers and readers of a pipe. *)

MoreLines == FoldFunction(+, 0, wrote) < MaxLines

WriteLine(r) ==
    /\ r[1] \in held \ closed /\ MoreLines
    /\ wrote' = [wrote EXCEPT ![r] = @ + 1]
    /\ pipe' = [pipe EXCEPT ![r] = Append(@, <<r[1], r[2], wrote[r] + 1>>)]
    /\ UNCHANGED <<source, instanceVars, chunk, reader, log, added, out>>

\* mutant: a chunk is read before the lines of the last one were used.
ChunkOverwritten(r) == TRUE

ChunkUsed(r) == chunk[r] = <<>>

\* One read from the pipe fills the bufio.Reader with some of the lines in it.
Fill(r) ==
    /\ reader[r] = "on" /\ r[1] \notin closed /\ ChunkUsed(r)
    /\ \E n \in 1..Len(pipe[r]) :
          /\ chunk' = [chunk EXCEPT ![r] = SubSeq(pipe[r], 1, n)]
          /\ pipe' = [pipe EXCEPT ![r] = SubSeq(@, n + 1, Len(@))]
    /\ UNCHANGED <<source, instanceVars, wrote, reader, log, added, out>>

\* emit: also after the read ends were closed.
Emit(r) ==
    /\ chunk[r] # <<>>
    /\ log' = Add(log, Head(chunk[r])) /\ added' = Append(added, Head(chunk[r]))
    /\ chunk' = [chunk EXCEPT ![r] = Tail(@)]
    /\ UNCHANGED <<source, instanceVars, wrote, pipe, reader, out>>

\* End of file, or os.ErrClosed.
StreamEnds(r) ==
    /\ reader[r] = "on" /\ chunk[r] = <<>>
    /\ r[1] \in closed \/ (pipe[r] = <<>> /\ r[1] \notin held)
    /\ reader' = [reader EXCEPT ![r] = "done"]
    /\ UNCHANGED <<source, instanceVars, wrote, pipe, chunk, log, added, out>>

\* The command writes n more bytes at once.
CommandWrites(n) ==
    /\ source = "command" /\ out.total + n <= MaxBytes
    /\ out' = Write(out, [k \in 1..n |-> out.total + k])
    /\ UNCHANGED <<source, instanceVars, streamVars>>

-----------------------------------------------------------------------------
Read(r) == Fill(r) \/ Emit(r) \/ StreamEnds(r)

Next ==
    \/ Start \/ End \/ Drained \/ DrainTimeout
    \/ \E i \in Instances : LetGo(i)
    \/ \E r \in Readers : WriteLine(r) \/ Read(r)
    \/ \E n \in 1..(2 * Limit) : CommandWrites(n)

Spec == Init /\ [][Next]_vars

\* Reader goroutines run, and the drain's timer fires; no process need write, end
\* or let go of a pipe.
FairSpec ==
    /\ Spec
    /\ WF_vars(Drained) /\ WF_vars(DrainTimeout)
    /\ \A r \in Readers : WF_vars(Read(r))

-----------------------------------------------------------------------------
(* Correctness. *)

Lesser(a, b) == IF a < b THEN a ELSE b

\* Whatever readers of whatever instances add, and however many lines are asked
\* for, Logs returns the most recent lines of everything that was ever added: all
\* of them, at most RingMax, when n is zero, negative or too large.
LogsAreRecent ==
    \A n \in -1..(RingMax + 1) :
        LET kept == Lesser(Len(added), RingMax)
        IN Recent(log, n) = LastOf(added, IF n <= 0 THEN kept ELSE Lesser(n, kept))

\* The lines of one pipe are logged in the order they were written, none twice and
\* none skipped, also when its reader goes on after the drain was given up.  Lines of
\* an earlier instance follow those of a later one only when the drain of the earlier
\* one timed out: a crash message stands before what the restarted process prints.
LogInOrder ==
    \A k \in 1..Len(added) :
        LET l == added[k]
        IN /\ \A j \in 1..(k - 1) : added[j][1] = l[1] /\ added[j][2] = l[2] => added[j][3] < l[3]
           /\ \A n \in 1..(l[3] - 1) : \E j \in 1..(k - 1) : added[j] = <<l[1], l[2], n>>
           /\ \A j \in 1..(k - 1) : added[j][1] > l[1] => l[1] \in late

\* When the end of an instance is reported and its drain was not cut short, all its
\* output is in the log: both pipes were read to their ends.
DrainIsComplete ==
    \A r \in Readers :
        closed # {} /\ r[1] \in closed \ late =>
            \A k \in 1..wrote[r] : \E j \in 1..Len(added) : added[j] = <<r[1], r[2], k>>

\* "A goroutine still stuck in Read is woken by" close (supervisor.go:617): no
\* restart leaves a reader behind, whoever holds the write end.
NoReaderLeft ==
    \A r \in Readers : phase = "down" /\ r[1] = inst ~> reader[r] = "done"

\* "keeps the first and the last limit bytes written to it and counts what fell out
\* in between" (ringbuffer.go:48), however the writes were cut.
BothEndsKept ==
    LET whole == [k \in 1..out.total |-> k]
    IN /\ out.head = SubSeq(whole, 1, Lesser(out.total, Limit))
       /\ out.tail = LastOf(whole, Lesser(out.total - Len(out.head), Limit))
       /\ Dropped(out) = IF out.total > 2 * Limit THEN out.total - 2 * Limit ELSE 0
=============================================================================
