------------------------------- MODULE Buffers -------------------------------
(***************************************************************************)
(* The two buffers for process output (ringbuffer.go).  The ring buffer    *)
(* keeps a service's last lines; the head/tail buffer keeps both ends of a *)
(* one-off command's output and counts what fell out in between.           *)
(***************************************************************************)
EXTENDS Integers, Sequences

CONSTANTS
    RingMax,  \* max of newRingBuffer; 500 for a service
    Limit     \* limit of newHeadTailBuffer; commandOutputLimit

ASSUME BuffersAssumption == RingMax \in Nat \ {0} /\ Limit \in Nat \ {0}

\* The last n elements of s.
LastOf(s, n) == SubSeq(s, Len(s) - n + 1, Len(s))

\* mutant: the buffer is cut at max.
AddAtMax(lines, line) ==
    LET all == Append(lines, line) IN IF Len(all) >= RingMax THEN LastOf(all, RingMax - 1) ELSE all

\* ringBuffer.add
Add(lines, line) ==
    LET all == Append(lines, line) IN IF Len(all) > RingMax THEN LastOf(all, RingMax) ELSE all

\* ringBuffer.tail
Recent(lines, n) ==
    LastOf(lines, IF n <= 0 \/ n > Len(lines) THEN Len(lines) ELSE n)

NewHeadTail == [head |-> <<>>, tail |-> <<>>, total |-> 0]

\* What Write takes from p for the head.
Take(b, p) == IF Limit - Len(b.head) < Len(p) THEN Limit - Len(b.head) ELSE Len(p)

\* mutant: what went into the head is written to the tail as well.
WriteTwice(b, p) ==
    [head |-> b.head \o SubSeq(p, 1, Take(b, p)),
     tail |-> LET all == b.tail \o p
              IN IF Len(all) > Limit THEN LastOf(all, Limit) ELSE all,
     total |-> b.total + Len(p)]

\* headTailBuffer.Write
Write(b, p) ==
    [head |-> b.head \o SubSeq(p, 1, Take(b, p)),
     tail |-> LET all == b.tail \o SubSeq(p, Take(b, p) + 1, Len(p))
              IN IF Len(all) > Limit THEN LastOf(all, Limit) ELSE all,
     total |-> b.total + Len(p)]

\* headTailBuffer.String: its two parts, and the number in the marker between
\* them, which is there when it is positive.
Dropped(b) == b.total - Len(b.head) - Len(b.tail)
==============================================================================
