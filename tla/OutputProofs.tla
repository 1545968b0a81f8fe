----------------------------- MODULE OutputProofs -----------------------------
(***************************************************************************)
(* The safety of the output path, for any sizes of the buffers, and any    *)
(* number of instances, lines and bytes.                                   *)
(***************************************************************************)
EXTENDS Output, SequenceTheorems, TLAPS

(* The buffers. *)

\* The end of a sequence, element by element.
LEMMA LastOfProperties ==
    ASSUME NEW S, NEW s \in Seq(S), NEW n \in 0..Len(s)
    PROVE  /\ LastOf(s, n) \in Seq(S)
           /\ Len(LastOf(s, n)) = n
           /\ \A i \in 1..n : LastOf(s, n)[i] = s[Len(s) - n + i]
<1> DEFINE m == Len(s) - n + 1
<1>1. Len(s) \in Nat /\ m \in Int /\ \A i \in m..Len(s) : s[i] \in S
    BY ElementOfSeq
<1>2. /\ SubSeq(s, m, Len(s)) \in Seq(S)
      /\ Len(SubSeq(s, m, Len(s))) = IF m <= Len(s) THEN Len(s) - m + 1 ELSE 0
      /\ \A i \in 1..Len(s) - m + 1 : SubSeq(s, m, Len(s))[i] = s[m + i - 1]
    BY <1>1, SubSeqProperties
<1> QED BY <1>1, <1>2 DEF LastOf

\* The end of an end is an end.
LEMMA LastOfLast ==
    ASSUME NEW S, NEW s \in Seq(S), NEW n \in 0..Len(s), NEW m \in 0..n
    PROVE  LastOf(LastOf(s, n), m) = LastOf(s, m)
<1> DEFINE e == LastOf(s, n)
<1>1. /\ e \in Seq(S) /\ Len(e) = n
      /\ \A i \in 1..n : e[i] = s[Len(s) - n + i]
    BY LastOfProperties
<1>2. Len(s) \in Nat /\ m \in 0..Len(s)
    OBVIOUS
<1>3. /\ LastOf(s, m) \in Seq(S) /\ Len(LastOf(s, m)) = m
      /\ \A i \in 1..m : LastOf(s, m)[i] = s[Len(s) - m + i]
    BY <1>2, LastOfProperties
<1> HIDE DEF e
<1>4. /\ LastOf(e, m) \in Seq(S) /\ Len(LastOf(e, m)) = m
      /\ \A i \in 1..m : LastOf(e, m)[i] = e[n - m + i]
    BY <1>1, LastOfProperties
<1>5. ASSUME NEW i \in 1..m PROVE LastOf(e, m)[i] = LastOf(s, m)[i]
    <2>1. n - m + i \in 1..n /\ Len(s) - n + (n - m + i) = Len(s) - m + i
        BY <1>2
    <2>2. e[n - m + i] = s[Len(s) - n + (n - m + i)]
        BY <1>1, <2>1
    <2> QED BY <1>3, <1>4, <2>1, <2>2
<1>6. LastOf(e, m) = LastOf(s, m)
    BY <1>3, <1>4, <1>5, SeqEqual
<1> QED BY <1>6 DEF e

\* The end of a longer sequence.
LEMMA LastOfAppend ==
    ASSUME NEW S, NEW s \in Seq(S), NEW e \in S, NEW n \in 0..Len(s)
    PROVE  LastOf(Append(s, e), n + 1) = Append(LastOf(s, n), e)
<1> DEFINE a == Append(s, e)
           b == LastOf(s, n)
<1>1. /\ a \in Seq(S) /\ Len(a) = Len(s) + 1 /\ a[Len(s) + 1] = e
      /\ \A i \in 1..Len(s) : a[i] = s[i]
    BY AppendProperties
<1>2. /\ b \in Seq(S) /\ Len(b) = n /\ Len(s) \in Nat
      /\ \A i \in 1..n : b[i] = s[Len(s) - n + i]
    BY LastOfProperties
<1> HIDE DEF a, b
<1>3. n + 1 \in 0..Len(a) /\ Len(a) - (n + 1) = Len(s) - n
    BY <1>1, <1>2
<1>4. /\ LastOf(a, n + 1) \in Seq(S) /\ Len(LastOf(a, n + 1)) = n + 1
      /\ \A i \in 1..n + 1 : LastOf(a, n + 1)[i] = a[Len(a) - (n + 1) + i]
    BY <1>1, <1>3, LastOfProperties
<1>5. /\ Append(b, e) \in Seq(S) /\ Len(Append(b, e)) = n + 1 /\ Append(b, e)[n + 1] = e
      /\ \A i \in 1..n : Append(b, e)[i] = b[i]
    BY <1>2, AppendProperties
<1>6. ASSUME NEW i \in 1..n + 1 PROVE LastOf(a, n + 1)[i] = Append(b, e)[i]
    <2>1. LastOf(a, n + 1)[i] = a[Len(s) - n + i]
        BY <1>4, <1>3
    <2>2. CASE i = n + 1
        BY <1>1, <1>2, <1>5, <2>1, <2>2
    <2>3. CASE i \in 1..n
        <3>1. Len(s) - n + i \in 1..Len(s)
            BY <1>2, <2>3
        <3> QED BY <1>1, <1>2, <1>5, <2>1, <2>3, <3>1
    <2> QED BY <1>2, <2>2, <2>3
<1>7. LastOf(a, n + 1) = Append(b, e)
    BY <1>4, <1>5, <1>6, SeqEqual
<1> QED BY <1>7 DEF a, b

\* What the ring buffer holds is the end of all that was ever added.
LEMMA AddKeepsLast ==
    ASSUME NEW S, NEW s \in Seq(S), NEW e \in S
    PROVE  Add(LastOf(s, Lesser(Len(s), RingMax)), e)
              = LastOf(Append(s, e), Lesser(Len(Append(s, e)), RingMax))
<1> DEFINE n == Lesser(Len(s), RingMax)
           b == LastOf(s, n)
           a == Append(s, e)
<1>1. Len(s) \in Nat /\ n \in 0..Len(s) /\ n <= RingMax /\ RingMax \in Nat \ {0}
    BY BuffersAssumption DEF Lesser
<1>2. a \in Seq(S) /\ Len(a) = Len(s) + 1
    BY AppendProperties
<1>3. b \in Seq(S) /\ Len(b) = n
    BY <1>1, LastOfProperties
<1>4. LastOf(a, n + 1) = Append(b, e)
    BY <1>1, LastOfAppend
<1>5. Len(Append(b, e)) = n + 1
    BY <1>3, AppendProperties
<1>6. Add(b, e) = IF n + 1 > RingMax THEN LastOf(Append(b, e), RingMax) ELSE Append(b, e)
    BY <1>5 DEF Add
<1> HIDE DEF a, b
<1>7. CASE Len(s) < RingMax
    <2>1. n = Len(s) /\ ~(n + 1 > RingMax) /\ Lesser(Len(a), RingMax) = n + 1
        BY <1>1, <1>2, <1>7 DEF Lesser
    <2>2. Add(b, e) = LastOf(a, Lesser(Len(a), RingMax))
        BY <1>4, <1>6, <2>1
    <2> QED BY <2>2 DEF a, b
<1>8. CASE Len(s) >= RingMax
    <2>1. n = RingMax /\ n + 1 > RingMax /\ Lesser(Len(a), RingMax) = RingMax
        BY <1>1, <1>2, <1>8 DEF Lesser
    <2>2. n + 1 \in 0..Len(a) /\ RingMax \in 0..n + 1
        BY <1>1, <1>2, <1>8, <2>1
    <2>3. LastOf(LastOf(a, n + 1), RingMax) = LastOf(a, RingMax)
        BY <1>2, <2>2, LastOfLast
    <2>4. Add(b, e) = LastOf(a, Lesser(Len(a), RingMax))
        BY <1>4, <1>6, <2>1, <2>3
    <2> QED BY <2>4 DEF a, b
<1> QED BY <1>1, <1>7, <1>8

\* Logs looks at the end of that end.
LEMMA RecentOfLast ==
    ASSUME NEW S, NEW s \in Seq(S), NEW k \in 0..Len(s), NEW n \in Int
    PROVE  Recent(LastOf(s, k), n) = LastOf(s, IF n <= 0 THEN k ELSE Lesser(n, k))
<1> DEFINE m == IF n <= 0 \/ n > k THEN k ELSE n
<1>1. Len(LastOf(s, k)) = k
    BY LastOfProperties
<1>2. m \in 0..k /\ m = IF n <= 0 THEN k ELSE Lesser(n, k)
    BY DEF Lesser
<1>3. Recent(LastOf(s, k), n) = LastOf(LastOf(s, k), m)
    BY <1>1 DEF Recent
<1> QED BY <1>2, <1>3, LastOfLast

\* A sequence cut in two.
LEMMA CutProperties ==
    ASSUME NEW S, NEW s \in Seq(S), NEW t \in 0..Len(s)
    PROVE  /\ SubSeq(s, 1, t) \in Seq(S) /\ Len(SubSeq(s, 1, t)) = t
           /\ \A i \in 1..t : SubSeq(s, 1, t)[i] = s[i]
           /\ SubSeq(s, t + 1, Len(s)) \in Seq(S) /\ Len(SubSeq(s, t + 1, Len(s))) = Len(s) - t
           /\ \A i \in 1..Len(s) - t : SubSeq(s, t + 1, Len(s))[i] = s[t + i]
<1>1. Len(s) \in Nat /\ \A i \in 1..Len(s) : s[i] \in S
    BY ElementOfSeq
<1>2. /\ SubSeq(s, 1, t) \in Seq(S)
      /\ Len(SubSeq(s, 1, t)) = IF 1 <= t THEN t - 1 + 1 ELSE 0
      /\ \A i \in 1..t - 1 + 1 : SubSeq(s, 1, t)[i] = s[1 + i - 1]
    BY <1>1, SubSeqProperties
<1>3. LastOf(s, Len(s) - t) = SubSeq(s, t + 1, Len(s)) /\ Len(s) - t \in 0..Len(s)
    BY <1>1 DEF LastOf
<1>4. /\ LastOf(s, Len(s) - t) \in Seq(S) /\ Len(LastOf(s, Len(s) - t)) = Len(s) - t
      /\ \A i \in 1..Len(s) - t : LastOf(s, Len(s) - t)[i] = s[Len(s) - (Len(s) - t) + i]
    BY <1>1, <1>3, LastOfProperties
<1>5. \A i \in 1..t : SubSeq(s, 1, t)[i] = s[i]
    BY <1>1, <1>2
<1>6. \A i \in 1..Len(s) - t : LastOf(s, Len(s) - t)[i] = s[t + i]
    <2>1. Len(s) - (Len(s) - t) = t
        BY <1>1
    <2> QED BY <1>4, <2>1
<1>7. Len(SubSeq(s, 1, t)) = t
    BY <1>1, <1>2
<1> QED BY <1>2, <1>3, <1>4, <1>5, <1>6, <1>7

\* The bytes of a command are numbered: s holds those that follow the first m.
Counts(s, m) == s \in Seq(Nat) /\ \A i \in 1..Len(s) : s[i] = m + i

\* A piece of the bytes, cut in two.
LEMMA CutCounts ==
    ASSUME NEW m \in Int, NEW p, Counts(p, m), NEW t \in 0..Len(p)
    PROVE  /\ Counts(SubSeq(p, 1, t), m) /\ Len(SubSeq(p, 1, t)) = t
           /\ Counts(SubSeq(p, t + 1, Len(p)), m + t) /\ Len(SubSeq(p, t + 1, Len(p))) = Len(p) - t
<1> DEFINE front == SubSeq(p, 1, t)
           rest == SubSeq(p, t + 1, Len(p))
           n == Len(p)
<1>1. p \in Seq(Nat) /\ n \in Nat /\ t \in 0..n
    BY DEF Counts
<1>2. /\ front \in Seq(Nat) /\ Len(front) = t /\ \A i \in 1..t : front[i] = p[i]
      /\ rest \in Seq(Nat) /\ Len(rest) = n - t /\ \A i \in 1..n - t : rest[i] = p[t + i]
    BY <1>1, CutProperties
<1>3. \A i \in 1..n : p[i] = m + i
    BY DEF Counts
<1> HIDE DEF front, rest, n
<1>4. \A i \in 1..t : front[i] = m + i
    <2> TAKE i \in 1..t
    <2>1. i \in 1..n
        BY <1>1
    <2> QED BY <1>2, <1>3, <2>1
<1>5. \A i \in 1..n - t : rest[i] = m + t + i
    <2> TAKE i \in 1..n - t
    <2>1. t + i \in 1..n /\ m + (t + i) = m + t + i
        BY <1>1
    <2> QED BY <1>2, <1>3, <2>1
<1>6. /\ Counts(front, m) /\ Len(front) = t
      /\ Counts(rest, m + t) /\ Len(rest) = n - t
    BY <1>2, <1>4, <1>5 DEF Counts
<1> QED BY <1>6 DEF front, rest, n

\* Two pieces, one after the other.
LEMMA ConcatCounts ==
    ASSUME NEW m \in Int, NEW a, Counts(a, m), NEW b, Counts(b, m + Len(a))
    PROVE  Counts(a \o b, m) /\ Len(a \o b) = Len(a) + Len(b)
<1>1. a \in Seq(Nat) /\ b \in Seq(Nat) /\ Len(a) \in Nat /\ Len(b) \in Nat
    BY DEF Counts
<1>2. /\ a \o b \in Seq(Nat) /\ Len(a \o b) = Len(a) + Len(b)
      /\ \A i \in 1..Len(a) + Len(b) : (a \o b)[i] = IF i <= Len(a) THEN a[i] ELSE b[i - Len(a)]
    BY <1>1, ConcatProperties
<1>3. ASSUME NEW i \in 1..Len(a) + Len(b) PROVE (a \o b)[i] = m + i
    <2>1. CASE i <= Len(a)
        BY <1>1, <1>2, <2>1 DEF Counts
    <2>2. CASE i > Len(a)
        <3>1. i - Len(a) \in 1..Len(b)
            BY <1>1, <2>2
        <3>2. b[i - Len(a)] = m + Len(a) + (i - Len(a))
            BY <3>1 DEF Counts
        <3> QED BY <1>1, <1>2, <2>2, <3>2
    <2> QED BY <1>1, <2>1, <2>2
<1> QED BY <1>2, <1>3 DEF Counts

\* The end of a piece.
LEMMA LastCounts ==
    ASSUME NEW m \in Int, NEW a, Counts(a, m), NEW n \in 0..Len(a)
    PROVE  Counts(LastOf(a, n), m + Len(a) - n) /\ Len(LastOf(a, n)) = n
<1>1. a \in Seq(Nat) /\ Len(a) \in Nat
    BY DEF Counts
<1>2. /\ LastOf(a, n) \in Seq(Nat) /\ Len(LastOf(a, n)) = n
      /\ \A i \in 1..n : LastOf(a, n)[i] = a[Len(a) - n + i]
    BY <1>1, LastOfProperties
<1>3. ASSUME NEW i \in 1..n PROVE LastOf(a, n)[i] = m + Len(a) - n + i
    <2>1. Len(a) - n + i \in 1..Len(a)
        BY <1>1
    <2>2. a[Len(a) - n + i] = m + (Len(a) - n + i)
        BY <2>1 DEF Counts
    <2> QED BY <1>1, <1>2, <2>2
<1> QED BY <1>2, <1>3 DEF Counts

\* There is one piece with a given beginning and length.
LEMMA SameCounts ==
    ASSUME NEW m, NEW a, Counts(a, m), NEW b, Counts(b, m), Len(a) = Len(b)
    PROVE  a = b
<1>1. a \in Seq(Nat) /\ b \in Seq(Nat) /\ \A i \in 1..Len(a) : a[i] = b[i]
    BY DEF Counts
<1> QED BY <1>1, SeqEqual

\* An empty one has none.
LEMMA NoCounts ==
    ASSUME NEW m, NEW k, NEW a, Counts(a, m), Len(a) = 0
    PROVE  Counts(a, k)
BY DEF Counts

\* A command's buffer holds the first and the last bytes of what was written.
Ends(b) ==
    /\ b.total \in Nat
    /\ Counts(b.head, 0) /\ Len(b.head) = Lesser(b.total, Limit)
    /\ Counts(b.tail, b.total - Len(b.tail)) /\ Len(b.tail) = Lesser(b.total - Len(b.head), Limit)

\* How much of n more bytes goes where, after total ones.
LEMMA Shares ==
    ASSUME NEW total \in Nat, NEW n \in Nat
    PROVE  LET h == Lesser(total, Limit)
               e == Lesser(total - h, Limit)
               t == Lesser(Limit - h, n)
           IN  /\ h \in 0..total /\ e \in 0..total /\ t \in 0..n
               /\ h + t = Lesser(total + n, Limit)
               /\ h + t \in Nat /\ e + (n - t) \in Nat
               /\ t = 0 \/ h = total
               /\ e = 0 \/ t = 0
               /\ Lesser(e + (n - t), Limit) = Lesser(total + n - (h + t), Limit)
BY BuffersAssumption DEF Lesser

\* Another write keeps the two ends, however long it is.
LEMMA WriteKeepsEnds ==
    ASSUME NEW b, Ends(b), NEW p, Counts(p, b.total)
    PROVE  Ends(Write(b, p))
<1> DEFINE total == b.total
           n == Len(p)
           h == Len(b.head)
           e == Len(b.tail)
           t == Take(b, p)
           front == SubSeq(p, 1, t)
           rest == SubSeq(p, t + 1, Len(p))
           all == b.tail \o rest
           head == b.head \o front
           tail == IF Len(all) > Limit THEN LastOf(all, Limit) ELSE all
<1>1. /\ total \in Nat /\ n \in Nat /\ t = Lesser(Limit - h, n)
      /\ h = Lesser(total, Limit) /\ e = Lesser(total - h, Limit)
      /\ Counts(b.head, 0) /\ Counts(b.tail, total - e)
    <2>1. /\ total \in Nat /\ h = Lesser(total, Limit) /\ e = Lesser(total - h, Limit)
          /\ Counts(b.head, 0) /\ Counts(b.tail, total - e)
        BY DEF Ends
    <2>2. n \in Nat
        BY LenProperties DEF Counts
    <2>3. t = Lesser(Limit - h, n)
        BY DEF Take, Lesser
    <2> QED BY <2>1, <2>2, <2>3
<1>2. Write(b, p) = [head |-> head, tail |-> tail, total |-> total + n]
    BY DEF Write
<1>3. Counts(p, total) /\ Len(b.head) = h /\ Len(b.tail) = e /\ Len(p) = n
    OBVIOUS
<1> HIDE DEF total, n, h, e, t
<1>4. /\ h \in 0..total /\ e \in 0..total /\ t \in 0..n
      /\ h + t = Lesser(total + n, Limit)
      /\ h + t \in Nat /\ e + (n - t) \in Nat
      /\ t = 0 \/ h = total
      /\ e = 0 \/ t = 0
      /\ Lesser(e + (n - t), Limit) = Lesser(total + n - (h + t), Limit)
    BY <1>1, Shares
<1>5. total \in Int /\ n \in Int /\ h \in Int /\ e \in Int /\ t \in Int
    BY <1>1, <1>4
<1>6. total + t - e \in Int /\ total + t - e + e = total + t
    BY <1>5
<1>7. /\ Counts(front, total) /\ Len(front) = t
      /\ Counts(rest, total + t) /\ Len(rest) = n - t
    <2>1. t \in 0..Len(p)
        BY <1>3, <1>4
    <2>2. /\ Counts(front, total) /\ Len(front) = t
          /\ Counts(rest, total + t) /\ Len(rest) = Len(p) - t
        BY <1>3, <1>5, <2>1, CutCounts
    <2> QED BY <1>3, <2>2
<1> HIDE DEF front, rest
<1>8. Counts(head, 0) /\ Len(head) = h + t
    <2>1. Counts(front, h)
        BY <1>4, <1>7, NoCounts
    <2>2. Counts(front, 0 + Len(b.head))
        BY <1>3, <1>5, <2>1
    <2>3. Counts(head, 0) /\ Len(head) = Len(b.head) + Len(front)
        BY <1>1, <2>2, ConcatCounts
    <2> QED BY <1>3, <1>7, <2>3
<1>9. Counts(all, total + t - e) /\ Len(all) = e + (n - t)
    <2> DEFINE m == total + t - e
    <2>1. m \in Int /\ m + e = total + t
        BY <1>6
    <2>2. Counts(b.tail, m)
        <3>1. CASE e = 0
            BY <1>1, <1>3, <3>1, NoCounts
        <3>2. CASE t = 0
            <4>1. m = total - e
                BY <1>1, <1>4, <3>2
            <4> QED BY <1>1, <4>1
        <3> QED BY <1>4, <3>1, <3>2
    <2> HIDE DEF m
    <2>3. Counts(all, m) /\ Len(all) = e + (n - t)
        BY <1>3, <1>7, <2>1, <2>2, ConcatCounts
    <2> QED BY <2>3 DEF m
<1> HIDE DEF head, all
<1>10. Len(tail) = Lesser(Len(all), Limit) /\ Counts(tail, total + n - Len(tail))
    <2> DEFINE m == total + t - e
    <2>1. m \in Int /\ m + Len(all) = total + n /\ Len(all) \in Nat /\ Limit \in Nat
        <3>1. Len(all) = e + (n - t) /\ Len(all) \in Nat
            BY <1>4, <1>9
        <3>2. m + (e + (n - t)) = total + n
            BY <1>5
        <3> QED BY <1>6, <3>1, <3>2, BuffersAssumption
    <2>2. Counts(all, m)
        BY <1>9
    <2> HIDE DEF m
    <2>3. CASE Len(all) > Limit
        <3>1. Limit \in 0..Len(all) /\ Lesser(Len(all), Limit) = Limit
            BY <2>1, <2>3 DEF Lesser
        <3>2. Counts(LastOf(all, Limit), m + Len(all) - Limit) /\ Len(LastOf(all, Limit)) = Limit
            BY <2>1, <2>2, <3>1, LastCounts
        <3>3. tail = LastOf(all, Limit)
            BY <2>3
        <3> HIDE DEF tail
        <3>4. Len(tail) = Limit
            BY <3>2, <3>3
        <3>5. total + n - Limit = m + Len(all) - Limit
            BY <1>5, <2>1
        <3>6. Counts(tail, total + n - Len(tail))
            BY <3>2, <3>3, <3>4, <3>5
        <3> QED BY <3>1, <3>4, <3>6
    <2>4. CASE ~(Len(all) > Limit)
        <3>1. Lesser(Len(all), Limit) = Len(all) /\ total + n - Len(all) = m
            BY <1>1, <2>1, <2>4 DEF Lesser
        <3> QED BY <2>2, <2>4, <3>1
    <2> QED BY <2>3, <2>4
<1> HIDE DEF tail
<1>11. total + n \in Nat
    BY <1>1
<1> DEFINE w == Write(b, p)
<1>12. w.head = head /\ w.tail = tail /\ w.total = total + n
    BY <1>2
<1> HIDE DEF w
<1>13. Len(w.head) = Lesser(w.total, Limit)
    BY <1>4, <1>8, <1>12
<1>14. Len(w.tail) = Lesser(w.total - Len(w.head), Limit)
    <2>1. Len(w.tail) = Lesser(e + (n - t), Limit)
        BY <1>9, <1>10, <1>12
    <2>2. w.total - Len(w.head) = total + n - (h + t)
        BY <1>8, <1>5, <1>12
    <2> QED BY <1>4, <2>1, <2>2
<1>15. Counts(w.head, 0) /\ Counts(w.tail, w.total - Len(w.tail))
    <2>1. w.total - Len(w.tail) = total + n - Len(tail)
        <3>1. Len(tail) \in Nat
            BY <1>10 DEF Counts
        <3> QED BY <1>5, <1>12, <3>1
    <2>2. Counts(w.tail, total + n - Len(tail)) /\ Counts(w.head, 0)
        BY <1>8, <1>10, <1>12
    <2> QED BY <2>1, <2>2
<1>16. Ends(w)
    BY <1>11, <1>12, <1>13, <1>14, <1>15 DEF Ends
<1> QED BY <1>16 DEF w

\* That is what the property says.
LEMMA EndsKept == Ends(out) => BothEndsKept
<1> SUFFICES ASSUME Ends(out) PROVE BothEndsKept
    OBVIOUS
<1> DEFINE total == out.total
           whole == [k \in 1..total |-> k]
           h == Lesser(total, Limit)
           m == Lesser(total - h, Limit)
<1>1. /\ total \in Nat /\ Len(out.head) = h /\ Len(out.tail) = m
      /\ Counts(out.head, 0) /\ Counts(out.tail, total - m)
    BY DEF Ends
<1>2. h \in 0..total /\ m \in 0..total
    BY <1>1, BuffersAssumption DEF Lesser
<1>3. Counts(whole, 0) /\ Len(whole) = total
    BY <1>1 DEF Counts
<1>4. BothEndsKept <=>
        /\ out.head = SubSeq(whole, 1, h) /\ out.tail = LastOf(whole, m)
        /\ total - h - m = IF total > 2 * Limit THEN total - 2 * Limit ELSE 0
    BY <1>1 DEF BothEndsKept, Dropped
<1>5. total - h - m = IF total > 2 * Limit THEN total - 2 * Limit ELSE 0
    BY <1>1, BuffersAssumption DEF Lesser
<1> HIDE DEF total, whole, h, m
<1>6. out.head = SubSeq(whole, 1, h)
    <2>1. Counts(SubSeq(whole, 1, h), 0) /\ Len(SubSeq(whole, 1, h)) = h
        BY <1>2, <1>3, CutCounts
    <2> QED BY <1>1, <2>1, SameCounts
<1>7. out.tail = LastOf(whole, m)
    <2>1. Counts(LastOf(whole, m), 0 + total - m) /\ Len(LastOf(whole, m)) = m
        BY <1>2, <1>3, LastCounts
    <2>2. 0 + total - m = total - m
        BY <1>1, <1>2
    <2> QED BY <1>1, <2>1, <2>2, SameCounts
<1> QED BY <1>4, <1>5, <1>6, <1>7

-----------------------------------------------------------------------------
(* The path of a line from its pipe to the log. *)

Lines == Instances \X Pipes \X Nat

TypeOK ==
    /\ inst \in 0..MaxInstances /\ phase \in {"up", "drain", "down"}
    /\ wrote \in [Readers -> Nat]
    /\ pipe \in [Readers -> Seq(Lines)] /\ chunk \in [Readers -> Seq(Lines)]
    /\ reader \in [Readers -> {"off", "on", "done"}]
    /\ added \in Seq(Lines)

\* An instance that is over was closed.
InstanceInv ==
    /\ held \subseteq 1..inst /\ closed \subseteq 1..inst /\ late \subseteq closed
    /\ phase # "down" => inst > 0
    /\ \A i \in 1..inst : i < inst \/ phase = "down" => i \in closed

\* A reader ends with nothing left in its hands and, unless the drain was cut short,
\* nothing left in its pipe and nobody to write; only then is the instance closed.
DrainInv ==
    \A r \in Readers :
        /\ chunk[r] # <<>> => reader[r] = "on"
        /\ reader[r] = "done" /\ r[1] \notin late => pipe[r] = <<>> /\ r[1] \notin held
        /\ r[1] \in closed \ late => reader[r] = "done"
        /\ wrote[r] > 0 => r[1] \in 1..inst

\* The lines of a pipe that were logged are the first ones that were written, ...
logged == [r \in Readers |-> wrote[r] - Len(pipe[r]) - Len(chunk[r])]
inLog == {added[j] : j \in 1..Len(added)}

\* ... those in its reader's hands come next, and the ones in the pipe after them.
LineInv ==
    \A r \in Readers :
        /\ logged[r] >= 0
        /\ \A k \in 1..Len(chunk[r]) : chunk[r][k] = <<r[1], r[2], logged[r] + k>>
        /\ \A k \in 1..Len(pipe[r]) : pipe[r][k] = <<r[1], r[2], logged[r] + Len(chunk[r]) + k>>
        /\ \A n \in 1..logged[r] : <<r[1], r[2], n>> \in inLog

\* A line in the log is one of those.
AddedInv == \A l \in inLog : l[3] \in 1..logged[<<l[1], l[2]>>]

\* The ring buffer is the end of all that was added.
RingInv == log = LastOf(added, Lesser(Len(added), RingMax))

IInv ==
    TypeOK /\ InstanceInv /\ DrainInv /\ LineInv /\ AddedInv /\ RingInv /\ LogInOrder /\ Ends(out)

LEMMA InitOutput == Init => IInv
<1> SUFFICES ASSUME Init PROVE IInv
    OBVIOUS
<1>1. <<>> \in Seq(Lines) /\ <<>> \in Seq(Nat)
    OBVIOUS
<1>2. TypeOK
    BY <1>1, OutputAssumption DEF Init, TypeOK
<1>3. InstanceInv /\ DrainInv
    BY DEF Init, InstanceInv, DrainInv
<1>4. LineInv /\ AddedInv /\ LogInOrder
    BY DEF Init, LineInv, logged, inLog, AddedInv, LogInOrder
<1>5. RingInv
    <2>1. Lesser(Len(added), RingMax) = 0 /\ added = <<>> /\ log = <<>>
        BY BuffersAssumption DEF Init, Lesser
    <2>2. Len(<<>>) = 0 /\ LastOf(<<>>, 0) = <<>>
        BY DEF LastOf
    <2> QED BY <2>1, <2>2 DEF RingInv
<1>6. Ends(out)
    BY <1>1, BuffersAssumption DEF Init, NewHeadTail, Ends, Counts, Lesser
<1> QED BY <1>2, <1>3, <1>4, <1>5, <1>6 DEF IInv

\* The next line from a reader's hands goes to the log.
LEMMA StepEmit ==
    ASSUME IInv, NEW r \in Readers, Emit(r)
    PROVE  TypeOK' /\ LineInv' /\ AddedInv' /\ RingInv'
<1> DEFINE l == Head(chunk[r])
           n == logged[r] + 1
<1>1. chunk[r] \in Seq(Lines) /\ chunk[r] # <<>> /\ added \in Seq(Lines)
    BY DEF Emit, IInv, TypeOK
<1>2. Len(chunk[r]) \in Nat \ {0} /\ l = chunk[r][1] /\ l \in Lines
    BY <1>1, EmptySeq, HeadTailProperties
<1>3. l = <<r[1], r[2], n>> /\ logged[r] >= 0
    BY <1>2 DEF IInv, LineInv
<1>4. /\ Tail(chunk[r]) \in Seq(Lines) /\ Len(Tail(chunk[r])) = Len(chunk[r]) - 1
      /\ \A i \in 1..Len(Tail(chunk[r])) : Tail(chunk[r])[i] = chunk[r][i + 1]
    BY <1>1, HeadTailProperties
<1>5. /\ added' \in Seq(Lines) /\ Len(added') = Len(added) + 1 /\ added'[Len(added) + 1] = l
      /\ \A i \in 1..Len(added) : added'[i] = added[i]
    BY <1>1, <1>2, AppendProperties DEF Emit
<1>6. chunk' = [chunk EXCEPT ![r] = Tail(chunk[r])] /\ UNCHANGED <<wrote, pipe, late>>
    BY DEF Emit, instanceVars
<1>7. TypeOK'
    <2>1. chunk' \in [Readers -> Seq(Lines)]
        BY <1>4, <1>6 DEF IInv, TypeOK
    <2> QED BY <1>5, <2>1 DEF IInv, TypeOK, Emit, instanceVars
<1>8. RingInv'
    BY <1>1, <1>2, AddKeepsLast DEF IInv, RingInv, Emit
<1>9. inLog' = inLog \cup {l}
    BY <1>1, <1>5 DEF inLog
<1> HIDE DEF l
<1>10. chunk'[r] = Tail(chunk[r])
    BY <1>6 DEF IInv, TypeOK
<1>11. logged' = [logged EXCEPT ![r] = n] /\ logged[r] \in Nat
    <2>1. wrote[r] \in Nat /\ Len(pipe[r]) \in Nat /\ Len(chunk[r]) \in Nat
        BY <1>2 DEF IInv, TypeOK
    <2>2. logged[r] = wrote[r] - Len(pipe[r]) - Len(chunk[r])
        BY DEF logged
    <2>3. logged[r] \in Nat /\ wrote[r] - Len(pipe[r]) - (Len(chunk[r]) - 1) = n
        <3>1. ASSUME NEW w \in Nat, NEW p \in Nat, NEW k \in Nat, NEW g, g = w - p - k, g >= 0
              PROVE  g \in Nat /\ w - p - (k - 1) = g + 1
            BY <3>1
        <3> QED BY <1>3, <2>1, <2>2, <3>1
    <2>4. \A q \in Readers \ {r} : logged'[q] = logged[q]
        BY <1>6 DEF IInv, TypeOK, logged
    <2>5. logged'[r] = n
        BY <1>4, <1>6, <1>10, <2>3 DEF logged
    <2>6. DOMAIN logged = Readers /\ logged' = [q \in Readers |-> logged'[q]]
        BY DEF logged
    <2> QED BY <2>3, <2>4, <2>5, <2>6
<1>12. DOMAIN logged = Readers
    BY DEF logged
<1>13. n \in Nat /\ n = logged[r] + 1 /\ logged'[r] = n
       /\ \A q \in Readers \ {r} : logged'[q] = logged[q] /\ chunk'[q] = chunk[q]
    BY <1>6, <1>11, <1>12 DEF IInv, TypeOK
<1> HIDE DEF n
<1>14. LineInv'
    <2>1. ASSUME NEW q \in Readers
          PROVE  /\ logged'[q] >= 0
                 /\ \A k \in 1..Len(chunk'[q]) : chunk'[q][k] = <<q[1], q[2], logged'[q] + k>>
                 /\ \A k \in 1..Len(pipe'[q]) : pipe'[q][k] = <<q[1], q[2], logged'[q] + Len(chunk'[q]) + k>>
                 /\ \A m \in 1..logged'[q] : <<q[1], q[2], m>> \in inLog'
        <3>1. CASE q # r
            BY <1>6, <1>9, <1>13, <3>1 DEF IInv, LineInv
        <3>2. CASE q = r
            <4>1. \A k \in 1..Len(chunk'[r]) : chunk'[r][k] = <<r[1], r[2], n + k>>
                <5> TAKE k \in 1..Len(chunk'[r])
                <5>1. chunk'[r][k] = chunk[r][k + 1] /\ k + 1 \in 1..Len(chunk[r])
                    BY <1>2, <1>4, <1>10
                <5>2. chunk[r][k + 1] = <<r[1], r[2], logged[r] + (k + 1)>>
                    BY <5>1 DEF IInv, LineInv
                <5>3. logged[r] + (k + 1) = n + k
                    BY <1>11, <1>13
                <5> QED BY <5>1, <5>2, <5>3
            <4>2. n + Len(chunk'[r]) = logged[r] + Len(chunk[r])
                BY <1>2, <1>4, <1>10, <1>11, <1>13
            <4>3. \A k \in 1..Len(pipe'[r]) : pipe'[r][k] = <<r[1], r[2], n + Len(chunk'[r]) + k>>
                BY <1>6, <4>2 DEF IInv, LineInv
            <4>4. ASSUME NEW m \in 1..n PROVE <<r[1], r[2], m>> \in inLog'
                <5>1. CASE m = n
                    BY <1>3, <1>9, <1>13, <5>1 DEF n
                <5>2. CASE m \in 1..logged[r]
                    BY <1>9, <5>2 DEF IInv, LineInv
                <5> QED BY <1>11, <1>13, <5>1, <5>2
            <4>5. n >= 0
                BY <1>13
            <4> QED BY <1>13, <3>2, <4>1, <4>3, <4>4, <4>5
        <3> QED BY <3>1, <3>2
    <2> QED BY <2>1 DEF LineInv
<1>15. AddedInv'
    <2>1. ASSUME NEW m \in inLog' PROVE m[3] \in 1..logged'[<<m[1], m[2]>>]
        <3>1. CASE m = l
            <4>1. m[3] = n /\ <<m[1], m[2]>> = r
                BY <1>3, <3>1 DEF Readers, n
            <4>2. n \in 1..logged'[r]
                BY <1>11, <1>13
            <4> QED BY <4>1, <4>2
        <3>2. CASE m \in inLog
            <4> DEFINE q == <<m[1], m[2]>>
            <4>1. m \in Lines
                BY <1>1, <3>2, ElementOfSeq DEF inLog
            <4>2. q \in Readers /\ m[3] \in 1..logged[q]
                BY <3>2, <4>1 DEF Lines, Readers, IInv, AddedInv
            <4> HIDE DEF q
            <4>3. m[3] \in 1..logged'[q]
                <5>1. CASE q = r
                    BY <1>11, <1>13, <4>2, <5>1
                <5>2. CASE q # r
                    BY <1>13, <4>2, <5>2
                <5> QED BY <5>1, <5>2
            <4> QED BY <4>3 DEF q
        <3> QED BY <1>9, <3>1, <3>2
    <2> QED BY <2>1 DEF AddedInv
<1> QED BY <1>7, <1>8, <1>14, <1>15

\* The line that is logged follows its predecessors, and comes after a later instance's
\* only when its own drain was cut short: then its instance is over, but not its reader.
LEMMA StepOrder ==
    ASSUME IInv, NEW r \in Readers, Emit(r)
    PROVE  LogInOrder'
<1> DEFINE l == Head(chunk[r])
           n == logged[r] + 1
           len == Len(added)
<1>1. chunk[r] \in Seq(Lines) /\ chunk[r] # <<>> /\ added \in Seq(Lines) /\ len \in Nat
    BY DEF Emit, IInv, TypeOK
<1>2. Len(chunk[r]) \in Nat \ {0} /\ l = chunk[r][1] /\ l \in Lines
    BY <1>1, EmptySeq, HeadTailProperties
<1>3. l = <<r[1], r[2], n>> /\ logged[r] >= 0
    BY <1>2 DEF IInv, LineInv
<1>4. /\ Len(added') = len + 1 /\ added'[len + 1] = l
      /\ \A i \in 1..len : added'[i] = added[i]
      /\ late' = late
    BY <1>1, <1>2, AppendProperties DEF Emit, instanceVars
<1>5. r[1] \in Instances /\ r[2] \in Pipes /\ r = <<r[1], r[2]>>
    BY DEF Readers
<1>6. wrote[r] \in Nat /\ Len(pipe[r]) \in Nat /\ logged[r] = wrote[r] - Len(pipe[r]) - Len(chunk[r])
    BY DEF IInv, TypeOK, logged
<1>7. r[1] \in 1..inst /\ reader[r] = "on"
    BY <1>1, <1>2, <1>3, <1>6 DEF IInv, DrainInv
<1>8. ASSUME NEW j \in 1..len
      PROVE  /\ added[j] \in inLog /\ added[j][1] <= inst
             /\ added[j][1] = r[1] /\ added[j][2] = r[2] => added[j][3] < n
    <2> DEFINE m == added[j]
               q == <<m[1], m[2]>>
    <2>1. m \in inLog /\ m \in Lines
        BY <1>1, ElementOfSeq DEF inLog
    <2>2. q \in Readers /\ m[3] \in 1..logged[q] /\ q[1] = m[1]
        BY <2>1 DEF Lines, Readers, IInv, AddedInv
    <2> HIDE DEF q
    <2>3. /\ wrote[q] \in Nat /\ Len(pipe[q]) \in Nat /\ Len(chunk[q]) \in Nat
          /\ logged[q] = wrote[q] - Len(pipe[q]) - Len(chunk[q])
        BY <2>2 DEF IInv, TypeOK, logged
    <2>4. wrote[q] > 0
        BY <2>2, <2>3
    <2>5. q[1] \in 1..inst
        BY <2>2, <2>4 DEF IInv, DrainInv
    <2>6. m[1] = r[1] /\ m[2] = r[2] => q = r
        BY <1>5 DEF q
    <2>7. q = r => m[3] < n
        <3>1. ASSUME q = r PROVE m[3] \in 1..logged[r] /\ logged[r] \in Int
            BY <1>2, <1>6, <2>2, <3>1
        <3> QED BY <3>1
    <2>8. inst \in Nat
        BY OutputAssumption DEF IInv, TypeOK
    <2> QED BY <2>1, <2>2, <2>5, <2>6, <2>7, <2>8
<1>9. ASSUME NEW m \in 1..logged[r] PROVE \E j \in 1..len : added[j] = <<r[1], r[2], m>>
    BY DEF IInv, LineInv, inLog
<1>10. ASSUME NEW j \in 1..len, added[j][1] > r[1] PROVE r[1] \in late
    <2>1. r[1] < inst
        <3>1. added[j] \in Lines /\ inst \in Nat
            BY <1>1, ElementOfSeq, OutputAssumption DEF IInv, TypeOK
        <3>2. added[j][1] \in Nat /\ r[1] \in Nat
            BY <1>7, <3>1, OutputAssumption DEF Lines, Instances
        <3> QED BY <1>8, <1>10, <3>1, <3>2
    <2>2. r[1] \in closed
        BY <1>7, <2>1 DEF IInv, InstanceInv
    <2> QED BY <1>7, <2>2 DEF IInv, DrainInv
<1> HIDE DEF l, n, len
<1>11. l[1] = r[1] /\ l[2] = r[2] /\ l[3] = n /\ n - 1 = logged[r] /\ len + 1 - 1 = len
    BY <1>1, <1>3, <1>6, <1>2 DEF n
<1>12. ASSUME NEW k \in 1..len + 1
       PROVE  /\ \A j \in 1..(k - 1) : added'[j][1] = added'[k][1] /\ added'[j][2] = added'[k][2]
                                            => added'[j][3] < added'[k][3]
              /\ \A m \in 1..(added'[k][3] - 1) :
                    \E j \in 1..(k - 1) : added'[j] = <<added'[k][1], added'[k][2], m>>
              /\ \A j \in 1..(k - 1) : added'[j][1] > added'[k][1] => added'[k][1] \in late
    <2>1. CASE k = len + 1
        <3>1. k - 1 = len /\ added'[k] = l
            BY <1>1, <1>4, <2>1
        <3> QED BY <1>4, <1>8, <1>9, <1>10, <1>11, <3>1
    <2>2. CASE k \in 1..len
        <3>1. added'[k] = added[k] /\ \A j \in 1..(k - 1) : j \in 1..len /\ added'[j] = added[j]
            BY <1>1, <1>4, <2>2
        <3> QED BY <3>1, <2>2 DEF IInv, LogInOrder, len
    <2>3. k = len + 1 \/ k \in 1..len
        BY <1>1
    <2> QED BY <2>1, <2>2, <2>3
<1> QED BY <1>4, <1>12 DEF LogInOrder

\* A process writes another line.
LEMMA StepWriteLine ==
    ASSUME IInv, NEW r \in Readers, WriteLine(r)
    PROVE  TypeOK' /\ LineInv' /\ UNCHANGED logged
<1> DEFINE l == <<r[1], r[2], wrote[r] + 1>>
<1>1. /\ pipe[r] \in Seq(Lines) /\ wrote[r] \in Nat /\ l \in Lines
      /\ Len(pipe[r]) \in Nat /\ Len(chunk[r]) \in Nat
    BY DEF IInv, TypeOK, Readers, Lines
<1>2. /\ wrote' = [wrote EXCEPT ![r] = wrote[r] + 1]
      /\ pipe' = [pipe EXCEPT ![r] = Append(pipe[r], l)]
      /\ UNCHANGED <<inst, phase, chunk, reader, added>>
    BY DEF WriteLine, instanceVars
<1>3. /\ Append(pipe[r], l) \in Seq(Lines) /\ Len(Append(pipe[r], l)) = Len(pipe[r]) + 1
      /\ \A i \in 1..Len(pipe[r]) : Append(pipe[r], l)[i] = pipe[r][i]
      /\ Append(pipe[r], l)[Len(pipe[r]) + 1] = l
    BY <1>1, AppendProperties
<1>4. /\ wrote'[r] = wrote[r] + 1 /\ pipe'[r] = Append(pipe[r], l)
      /\ \A q \in Readers \ {r} : wrote'[q] = wrote[q] /\ pipe'[q] = pipe[q]
    BY <1>2 DEF IInv, TypeOK
<1>5. TypeOK'
    <2>1. wrote' \in [Readers -> Nat]
        BY <1>1, <1>2 DEF IInv, TypeOK
    <2>2. pipe' \in [Readers -> Seq(Lines)]
        BY <1>2, <1>3 DEF IInv, TypeOK
    <2> QED BY <1>2, <2>1, <2>2 DEF IInv, TypeOK
<1>6. logged' = logged /\ logged[r] = wrote[r] - Len(pipe[r]) - Len(chunk[r])
    <2>1. \A q \in Readers : wrote'[q] - Len(pipe'[q]) - Len(chunk[q]) = wrote[q] - Len(pipe[q]) - Len(chunk[q])
        <3> TAKE q \in Readers
        <3>1. CASE q = r
            <4>1. wrote'[q] = wrote[r] + 1 /\ Len(pipe'[q]) = Len(pipe[r]) + 1
                BY <1>3, <1>4, <3>1
            <4>2. (wrote[r] + 1) - (Len(pipe[r]) + 1) - Len(chunk[r]) = wrote[r] - Len(pipe[r]) - Len(chunk[r])
                BY <1>1
            <4> QED BY <3>1, <4>1, <4>2
        <3>2. CASE q # r
            BY <1>4, <3>2
        <3> QED BY <3>1, <3>2
    <2> QED BY <1>2, <2>1 DEF logged
<1>7. LineInv'
    <2>1. \A k \in 1..Len(pipe'[r]) : pipe'[r][k] = <<r[1], r[2], logged[r] + Len(chunk[r]) + k>>
        <3> TAKE k \in 1..Len(pipe'[r])
        <3>1. CASE k = Len(pipe[r]) + 1
            <4>1. logged[r] + Len(chunk[r]) + k = wrote[r] + 1
                BY <1>1, <1>6, <3>1
            <4> QED BY <1>3, <1>4, <3>1, <4>1
        <3>2. CASE k \in 1..Len(pipe[r])
            BY <1>3, <1>4, <3>2 DEF IInv, LineInv
        <3>3. k = Len(pipe[r]) + 1 \/ k \in 1..Len(pipe[r])
            BY <1>1, <1>3, <1>4
        <3> QED BY <3>1, <3>2, <3>3
    <2>2. inLog' = inLog
        BY <1>2 DEF inLog
    <2>3. ASSUME NEW q \in Readers
          PROVE  \A k \in 1..Len(pipe'[q]) : pipe'[q][k] = <<q[1], q[2], logged[q] + Len(chunk[q]) + k>>
        <3>1. CASE q = r
            BY <2>1, <3>1
        <3>2. CASE q # r
            BY <1>4, <3>2 DEF IInv, LineInv
        <3> QED BY <3>1, <3>2
    <2> QED BY <1>2, <1>6, <2>2, <2>3 DEF IInv, LineInv
<1> QED BY <1>5, <1>6, <1>7

\* A reader takes some of the lines in its pipe.
LEMMA StepFill ==
    ASSUME IInv, NEW r \in Readers, Fill(r)
    PROVE  TypeOK' /\ LineInv' /\ UNCHANGED logged
<1>1. /\ pipe[r] \in Seq(Lines) /\ wrote[r] \in Nat /\ Len(pipe[r]) \in Nat
      /\ chunk[r] = <<>> /\ Len(chunk[r]) = 0
      /\ UNCHANGED <<inst, phase, wrote, reader, added>>
    BY DEF Fill, ChunkUsed, IInv, TypeOK, instanceVars
<1>2. PICK n \in 1..Len(pipe[r]) :
          /\ chunk' = [chunk EXCEPT ![r] = SubSeq(pipe[r], 1, n)]
          /\ pipe' = [pipe EXCEPT ![r] = SubSeq(pipe[r], n + 1, Len(pipe[r]))]
    BY DEF Fill
<1> DEFINE front == SubSeq(pipe[r], 1, n)
           rest == SubSeq(pipe[r], n + 1, Len(pipe[r]))
           len == Len(pipe[r])
<1>3. /\ front \in Seq(Lines) /\ Len(front) = n /\ \A i \in 1..n : front[i] = pipe[r][i]
      /\ rest \in Seq(Lines) /\ Len(rest) = len - n /\ \A i \in 1..len - n : rest[i] = pipe[r][n + i]
    <2>1. n \in 0..len
        BY <1>1
    <2> QED BY <1>1, <2>1, CutProperties
<1>4. /\ chunk'[r] = front /\ pipe'[r] = rest
      /\ \A q \in Readers \ {r} : chunk'[q] = chunk[q] /\ pipe'[q] = pipe[q]
    BY <1>2 DEF IInv, TypeOK
<1>5. TypeOK'
    <2>1. chunk' \in [Readers -> Seq(Lines)]
        BY <1>2, <1>3 DEF IInv, TypeOK
    <2>2. pipe' \in [Readers -> Seq(Lines)]
        BY <1>2, <1>3 DEF IInv, TypeOK
    <2> QED BY <1>1, <2>1, <2>2 DEF IInv, TypeOK
<1> HIDE DEF front, rest
<1>6. logged' = logged /\ logged[r] \in Int
    <2>1. \A q \in Readers : wrote[q] - Len(pipe'[q]) - Len(chunk'[q]) = wrote[q] - Len(pipe[q]) - Len(chunk[q])
        <3> TAKE q \in Readers
        <3>1. CASE q = r
            <4>1. Len(chunk'[q]) = n /\ Len(pipe'[q]) = len - n
                BY <1>3, <1>4, <3>1
            <4> QED BY <1>1, <3>1, <4>1
        <3>2. CASE q # r
            BY <1>4, <3>2
        <3> QED BY <3>1, <3>2
    <2>2. logged[r] \in Int
        BY <1>1 DEF logged
    <2> QED BY <1>1, <2>1, <2>2 DEF logged
<1>7. LineInv'
    <2>1. \A k \in 1..len : pipe[r][k] = <<r[1], r[2], logged[r] + k>>
        <3>1. \A k \in 1..len : logged[r] + Len(chunk[r]) + k = logged[r] + k
            BY <1>1, <1>6
        <3> QED BY <3>1 DEF IInv, LineInv
    <2>2. \A k \in 1..Len(front) : front[k] = <<r[1], r[2], logged[r] + k>>
        <3> TAKE k \in 1..Len(front)
        <3>1. k \in 1..n /\ k \in 1..len
            BY <1>1, <1>3
        <3> QED BY <1>3, <2>1, <3>1
    <2>3. \A k \in 1..Len(rest) : rest[k] = <<r[1], r[2], logged[r] + Len(front) + k>>
        <3> TAKE k \in 1..Len(rest)
        <3>1. k \in 1..len - n /\ n + k \in 1..len /\ logged[r] + (n + k) = logged[r] + Len(front) + k
            BY <1>1, <1>3, <1>6
        <3> QED BY <1>3, <2>1, <3>1
    <2>4. inLog' = inLog
        BY <1>1 DEF inLog
    <2>5. ASSUME NEW q \in Readers
          PROVE  /\ \A k \in 1..Len(chunk'[q]) : chunk'[q][k] = <<q[1], q[2], logged[q] + k>>
                 /\ \A k \in 1..Len(pipe'[q]) : pipe'[q][k] = <<q[1], q[2], logged[q] + Len(chunk'[q]) + k>>
        <3>1. CASE q = r
            BY <1>4, <2>2, <2>3, <3>1
        <3>2. CASE q # r
            BY <1>4, <3>2 DEF IInv, LineInv
        <3> QED BY <3>1, <3>2
    <2> QED BY <1>6, <2>4, <2>5 DEF IInv, LineInv
<1> QED BY <1>5, <1>6, <1>7

\* No step but the reader's own takes a line out of its hands, and what was reported to
\* be complete stays so.
LEMMA StepInstances == IInv /\ [Next]_vars => InstanceInv' /\ DrainInv'
<1> SUFFICES ASSUME IInv, [Next]_vars PROVE InstanceInv' /\ DrainInv'
    OBVIOUS
<1> USE OutputAssumption DEF IInv, TypeOK, InstanceInv, DrainInv
<1>1. CASE Start
    <2>1. inst' = inst + 1 /\ phase' = "up" /\ held' = held \cup {inst + 1} /\ inst \in Nat
          /\ phase = "down" /\ UNCHANGED <<closed, late, wrote, pipe, chunk>>
        BY <1>1 DEF Start
    <2>2. InstanceInv'
        BY <2>1
    <2>3. \A r \in Readers : reader'[r] = IF r[1] = inst + 1 THEN "on" ELSE reader[r]
        BY <1>1 DEF Start
    <2>4. DrainInv'
        BY <2>1, <2>3
    <2> QED BY <2>2, <2>4
<1>2. CASE End
    BY <1>2 DEF End, streamVars
<1>3. ASSUME NEW i \in Instances, LetGo(i) PROVE InstanceInv' /\ DrainInv'
    BY <1>3 DEF LetGo, streamVars
<1>4. CASE Drained
    <2>1. \A r \in Readers : r[1] = inst => reader[r] = "done"
        BY <1>4 DEF Drained, ReadersDone, Readers
    <2>2. InstanceInv'
        BY <1>4 DEF Drained, CloseReadEnds
    <2>3. DrainInv'
        BY <1>4, <2>1 DEF Drained, CloseReadEnds, streamVars
    <2> QED BY <2>2, <2>3
<1>5. CASE DrainTimeout
    BY <1>5 DEF DrainTimeout, CloseReadEnds, streamVars
<1>6. ASSUME NEW r \in Readers, WriteLine(r) PROVE InstanceInv' /\ DrainInv'
    BY <1>6 DEF WriteLine, instanceVars
<1>7. ASSUME NEW r \in Readers, Fill(r) PROVE InstanceInv' /\ DrainInv'
    BY <1>7 DEF Fill, instanceVars
<1>8. ASSUME NEW r \in Readers, Emit(r) PROVE InstanceInv' /\ DrainInv'
    BY <1>8 DEF Emit, instanceVars
<1>9. ASSUME NEW r \in Readers, StreamEnds(r) PROVE InstanceInv' /\ DrainInv'
    BY <1>9 DEF StreamEnds, instanceVars
<1>10. CASE UNCHANGED vars \/ \E n \in 1..(2 * Limit) : CommandWrites(n)
    BY <1>10 DEF vars, instanceVars, streamVars, CommandWrites
<1> QED BY <1>1, <1>2, <1>3, <1>4, <1>5, <1>6, <1>7, <1>8, <1>9, <1>10 DEF Next, Read

\* Every step keeps the invariant.
LEMMA StepOutput == IInv /\ [Next]_vars => IInv'
<1> SUFFICES ASSUME IInv, [Next]_vars PROVE IInv'
    OBVIOUS
<1>1. InstanceInv' /\ DrainInv'
    BY StepInstances
<1>2. ASSUME UNCHANGED <<log, added>>, late \subseteq late' PROVE RingInv' /\ LogInOrder'
    BY <1>2 DEF IInv, RingInv, LogInOrder
<1>3. ASSUME UNCHANGED <<wrote, pipe, chunk, added>> PROVE LineInv' /\ AddedInv'
    <2>1. logged' = logged /\ inLog' = inLog
        BY <1>3 DEF logged, inLog
    <2> QED BY <1>3, <2>1 DEF IInv, LineInv, AddedInv
<1>4. ASSUME UNCHANGED logged, UNCHANGED added PROVE AddedInv'
    BY <1>4 DEF IInv, AddedInv, inLog
<1>5. ASSUME UNCHANGED out PROVE Ends(out)'
    BY <1>5 DEF IInv, Ends
<1>6. CASE Start
    <2>1. inst' \in 0..MaxInstances
        BY <1>6, OutputAssumption DEF Start, IInv, TypeOK
    <2>2. TypeOK'
        BY <1>6, <2>1 DEF Start, IInv, TypeOK
    <2> QED BY <1>1, <1>2, <1>3, <1>5, <1>6, <2>2 DEF Start, IInv
<1>7. CASE End \/ Drained \/ DrainTimeout \/ \E i \in Instances : LetGo(i)
    <2>1. /\ UNCHANGED <<inst, streamVars, out>> /\ phase' \in {"up", "drain", "down"}
          /\ late \subseteq late'
        BY <1>7 DEF End, Drained, DrainTimeout, LetGo, IInv, TypeOK
    <2>2. TypeOK'
        BY <2>1 DEF IInv, TypeOK, streamVars
    <2> QED BY <1>1, <1>2, <1>3, <1>5, <2>1, <2>2 DEF IInv, streamVars
<1>8. ASSUME NEW r \in Readers, WriteLine(r) \/ Fill(r) PROVE IInv'
    <2>1. UNCHANGED <<log, added, late, out>>
        BY <1>8 DEF WriteLine, Fill, instanceVars
    <2>2. TypeOK' /\ LineInv' /\ UNCHANGED logged
        BY <1>8, StepWriteLine, StepFill
    <2> QED BY <1>1, <1>2, <1>4, <1>5, <2>1, <2>2 DEF IInv
<1>9. ASSUME NEW r \in Readers, Emit(r) PROVE IInv'
    <2>1. UNCHANGED out
        BY <1>9 DEF Emit
    <2> QED BY <1>1, <1>5, <1>9, <2>1, StepEmit, StepOrder DEF IInv
<1>10. ASSUME NEW r \in Readers, StreamEnds(r) PROVE IInv'
    <2>1. UNCHANGED <<inst, phase, late, wrote, pipe, chunk, log, added, out>>
        BY <1>10 DEF StreamEnds, instanceVars
    <2>2. reader' \in [Readers -> {"off", "on", "done"}]
        BY <1>10 DEF StreamEnds, IInv, TypeOK
    <2>3. TypeOK'
        BY <2>1, <2>2 DEF IInv, TypeOK
    <2> QED BY <1>1, <1>2, <1>3, <1>5, <2>1, <2>3 DEF IInv
<1>11. ASSUME NEW n \in 1..(2 * Limit), CommandWrites(n) PROVE IInv'
    <2> DEFINE p == [k \in 1..n |-> out.total + k]
    <2>1. n \in Nat /\ out.total \in Nat
        BY BuffersAssumption DEF IInv, Ends
    <2>2. Counts(p, out.total)
        BY <2>1 DEF Counts
    <2>3. out' = Write(out, p) /\ UNCHANGED <<instanceVars, streamVars>>
        BY <1>11 DEF CommandWrites
    <2> HIDE DEF p
    <2>4. Ends(out)'
        <3>1. Ends(Write(out, p))
            BY <2>2, WriteKeepsEnds DEF IInv
        <3> QED BY <2>3, <3>1 DEF Ends
    <2>5. TypeOK'
        BY <2>3 DEF IInv, TypeOK, instanceVars, streamVars
    <2> QED BY <1>1, <1>2, <1>3, <2>3, <2>4, <2>5 DEF IInv, instanceVars, streamVars
<1>12. CASE UNCHANGED vars
    <2>1. TypeOK'
        BY <1>12 DEF IInv, TypeOK, vars, instanceVars, streamVars
    <2> QED BY <1>1, <1>2, <1>3, <1>5, <1>12, <2>1 DEF IInv, vars, instanceVars, streamVars
<1> QED BY <1>6, <1>7, <1>8, <1>9, <1>10, <1>11, <1>12 DEF Next, Read

\* The invariant holds in every reachable state.
THEOREM Invariance == Spec => []IInv
BY InitOutput, StepOutput, PTL DEF Spec

\* Logs returns the last lines of all that was ever added, for every size of the ring
\* buffer and however many lines are asked for.
THEOREM RingKeepsTheLatest == Spec => []LogsAreRecent
<1>1. IInv => LogsAreRecent
    <2> SUFFICES ASSUME IInv, NEW n \in -1..(RingMax + 1)
                 PROVE  LET kept == Lesser(Len(added), RingMax)
                        IN Recent(log, n) = LastOf(added, IF n <= 0 THEN kept ELSE Lesser(n, kept))
        BY DEF LogsAreRecent
    <2>1. /\ added \in Seq(Lines) /\ n \in Int
          /\ Lesser(Len(added), RingMax) \in 0..Len(added)
        BY BuffersAssumption DEF IInv, TypeOK, Lesser
    <2> QED BY <2>1, RecentOfLast DEF IInv, RingInv
<1> QED BY <1>1, Invariance, PTL

\* A pipe's lines are logged in the order they were written, none twice and none
\* skipped, and after those of a later instance only when the drain was cut short.
THEOREM NoLineOutOfOrder == Spec => []LogInOrder
<1>1. IInv => LogInOrder
    BY DEF IInv
<1> QED BY <1>1, Invariance, PTL

\* All output of an instance is in the log when its end is reported, unless the drain
\* was cut short.
THEOREM DrainLosesNothing == Spec => []DrainIsComplete
<1>1. IInv => DrainIsComplete
    <2> SUFFICES ASSUME IInv, NEW r \in Readers, r[1] \in closed \ late, NEW k \in 1..wrote[r]
                 PROVE  \E j \in 1..Len(added) : added[j] = <<r[1], r[2], k>>
        BY DEF DrainIsComplete
    <2>1. pipe[r] = <<>> /\ chunk[r] = <<>>
        BY DEF IInv, DrainInv
    <2>2. logged[r] = wrote[r]
        BY <2>1 DEF IInv, TypeOK, logged
    <2> QED BY <2>2 DEF IInv, LineInv, inLog
<1> QED BY <1>1, Invariance, PTL

\* The buffer of a command keeps the first and the last bytes of what was written, and
\* the right count of those in between, for every limit and however the writes are cut.
THEOREM BufferKeepsBothEnds == Spec => []BothEndsKept
<1>1. IInv => BothEndsKept
    BY EndsKept DEF IInv
<1> QED BY <1>1, Invariance, PTL
===============================================================================
