-------------------------- MODULE PermissionsProofs --------------------------
(***************************************************************************)
(* Decide is proved to decide what the policy says (DecisionIsExact) for   *)
(* all policies, calls and shells, and what the policy says is shown to be *)
(* monotone in its two sets of rules.                                      *)
(***************************************************************************)
EXTENDS Permissions, WellFoundedInduction, TLAPS

\* What each loop knows of the rules it has left behind.
LoopInv ==
    /\ pc = "deny" => /\ covered = {}
                      /\ \A k \in 1..(i - 1) : ~MatchDeny(policy.deny[k], call)
    /\ pc \in {"rule", "command"} =>
           /\ policy.mode = "allowlist"
           /\ \A k \in DOMAIN policy.deny : ~MatchDeny(policy.deny[k], call)
    /\ pc = "rule" => /\ ~IsCommandLine(call)
                      /\ \A k \in 1..(i - 1) : ~MatchAllow(policy.allow[k], call)
    /\ pc = "command" =>
           /\ IsCommandLine(call)
           /\ \A k \in 1..(i - 1) : ~Blanket(policy.allow[k], call)
           /\ covered = UNION {Covers(policy.allow[k], call) : k \in 1..(i - 1)}

IInv == TypeOK /\ LoopInv /\ DecisionIsExact

\* What a glob covers of a line are commands of that line.
LEMMA CoversSegments ==
    ASSUME NEW rule, NEW c
    PROVE  Covers(rule, c) \subseteq Segments(c.input[CommandField])
BY DEF Covers

\* The policies are typed.
LEMMA PolicyType ==
    ASSUME NEW p \in Policies
    PROVE  /\ p.mode \in Modes
           /\ Len(p.deny) \in Nat /\ DOMAIN p.deny = 1..Len(p.deny)
           /\ Len(p.allow) \in Nat /\ DOMAIN p.allow = 1..Len(p.allow)
<1>1. p.mode \in Modes /\ p.deny \in Seq(Rule) /\ p.allow \in Seq(Rule)
  BY PermissionsAssumption
<1> QED  BY <1>1

\* A step keeps the loops inside the rule lists.
LEMMA TypeStep ==
    ASSUME TypeOK, LoopInv, [Next]_vars
    PROVE  TypeOK'
<1> USE DEF TypeOK, Verdicts
<1>p. /\ policy.mode \in Modes
      /\ Len(policy.deny) \in Nat /\ Len(policy.allow) \in Nat
  BY PolicyType
<1>1. ASSUME NEW c \in Calls, Decide(c) PROVE TypeOK'
  BY <1>1, <1>p DEF Decide, CoverNothing
<1>2. CASE DenyMatches
  BY <1>2, <1>p DEF DenyMatches, Return
<1>3. CASE DenyPasses
  BY <1>3, <1>p DEF DenyPasses, NextRule
<1>4. CASE ModeDecides
  BY <1>4, <1>p DEF ModeDecides, Return
<1>5. CASE BeginAllow
  BY <1>5, <1>p DEF BeginAllow, LoopInv
<1>6. CASE AllowMatches
  BY <1>6, <1>p DEF AllowMatches, Return
<1>7. CASE AllowPasses
  BY <1>7, <1>p DEF AllowPasses, NextRule
<1>8. CASE NothingAllows
  BY <1>8, <1>p DEF NothingAllows, Return
<1>9. CASE BlanketAllows
  BY <1>9, <1>p DEF BlanketAllows, Return
<1>10. CASE RuleCovers
  <2>1. Covers(policy.allow[i], call) \subseteq Segments(call.input[CommandField])
    BY CoversSegments
  <2> QED  BY <1>10, <1>p, <2>1 DEF RuleCovers, CoverMore, NextRule
<1>11. CASE CommandJudged
  BY <1>11, <1>p DEF CommandJudged, Return
<1>12. CASE UNCHANGED vars
  BY <1>12 DEF vars
<1> QED
  BY <1>1, <1>2, <1>3, <1>4, <1>5, <1>6, <1>7, <1>8, <1>9, <1>10, <1>11, <1>12 DEF Next, Step

\* A step keeps what the loops know of the rules behind them.
LEMMA LoopStep ==
    ASSUME TypeOK, LoopInv, [Next]_vars
    PROVE  LoopInv'
<1> USE DEF TypeOK
<1>p. /\ Len(policy.deny) \in Nat /\ DOMAIN policy.deny = 1..Len(policy.deny)
      /\ Len(policy.allow) \in Nat /\ DOMAIN policy.allow = 1..Len(policy.allow)
      /\ i \in Nat \ {0}
  BY PolicyType
<1>1. ASSUME NEW c \in Calls, Decide(c) PROVE LoopInv'
  BY <1>1 DEF Decide, CoverNothing, LoopInv
<1>2. CASE pc' = "idle"
  BY <1>2 DEF LoopInv
<1>3. CASE DenyPasses
  <2>1. \A k \in 1..(i' - 1) : k \in 1..(i - 1) \/ k = i
    BY <1>3, <1>p DEF DenyPasses, NextRule
  <2> QED  BY <1>3, <2>1 DEF DenyPasses, NextRule, LoopInv
<1>4. CASE BeginAllow
  <2>1. \A k \in DOMAIN policy.deny : k \in 1..(i - 1)
    BY <1>4, <1>p DEF BeginAllow
  <2> QED  BY <1>4, <2>1 DEF BeginAllow, LoopInv
<1>5. CASE AllowPasses
  <2>1. \A k \in 1..(i' - 1) : k \in 1..(i - 1) \/ k = i
    BY <1>5, <1>p DEF AllowPasses, NextRule
  <2> QED  BY <1>5, <2>1 DEF AllowPasses, NextRule, LoopInv
<1>6. CASE RuleCovers
  <2>1. 1..(i' - 1) = (1..(i - 1)) \cup {i}
    BY <1>6, <1>p DEF RuleCovers, NextRule
  <2>2. covered' = UNION {Covers(policy.allow[k], call) : k \in 1..(i' - 1)}
    BY <1>6, <2>1 DEF RuleCovers, CoverMore, NextRule, LoopInv
  <2> QED  BY <1>6, <2>1, <2>2 DEF RuleCovers, NextRule, LoopInv
<1>7. CASE UNCHANGED vars
  BY <1>7 DEF vars, LoopInv
<1> QED
  BY <1>1, <1>2, <1>3, <1>4, <1>5, <1>6, <1>7 DEF Next, Step, DenyMatches, ModeDecides,
     AllowMatches, NothingAllows, BlanketAllows, CommandJudged, Return

\* Every verdict is the one Permitted gives.
LEMMA VerdictStep ==
    ASSUME TypeOK, LoopInv, DecisionIsExact, [Next]_vars
    PROVE  DecisionIsExact'
<1> USE DEF TypeOK
<1>p. /\ policy.mode \in Modes
      /\ Len(policy.deny) \in Nat /\ DOMAIN policy.deny = 1..Len(policy.deny)
      /\ Len(policy.allow) \in Nat /\ DOMAIN policy.allow = 1..Len(policy.allow)
      /\ i \in Nat \ {0}
  BY PolicyType
<1>1. CASE pc' # "idle"
  BY <1>1 DEF DecisionIsExact
<1>2. CASE DenyMatches
  BY <1>2, <1>p DEF DenyMatches, Return, DecisionIsExact, Permitted
<1>3. CASE ModeDecides
  <2>1. \A k \in DOMAIN policy.deny : ~MatchDeny(policy.deny[k], call)
    <3>1. pc = "deny" /\ \A k \in 1..Len(policy.deny) : k \in 1..(i - 1)
      BY <1>3, <1>p DEF ModeDecides
    <3> QED  BY <3>1, <1>p DEF LoopInv
  <2> QED  BY <1>3, <1>p, <2>1 DEF ModeDecides, Return, DecisionIsExact, Permitted, Modes
<1>4. CASE AllowMatches
  BY <1>4, <1>p DEF AllowMatches, Return, DecisionIsExact, Permitted, LoopInv
<1>5. CASE NothingAllows
  <2>1. \A k \in DOMAIN policy.allow : ~MatchAllow(policy.allow[k], call)
    BY <1>5, <1>p DEF NothingAllows, LoopInv
  <2> QED  BY <1>5, <2>1 DEF NothingAllows, Return, DecisionIsExact, Permitted, LoopInv
<1>6. CASE BlanketAllows
  BY <1>6, <1>p DEF BlanketAllows, Return, DecisionIsExact, Permitted, LoopInv
<1>7. CASE CommandJudged
  <2>1. \A k \in DOMAIN policy.allow : ~Blanket(policy.allow[k], call)
    BY <1>7, <1>p DEF CommandJudged, LoopInv
  <2>2. covered = UNION {Covers(policy.allow[k], call) : k \in DOMAIN policy.allow}
    <3>1. 1..(i - 1) = DOMAIN policy.allow
      BY <1>7, <1>p DEF CommandJudged
    <3> QED  BY <1>7, <3>1 DEF CommandJudged, LoopInv
  <2>3. (Segments(call.input[CommandField]) \subseteq covered)
        <=> \A s \in Segments(call.input[CommandField]) :
                \E k \in DOMAIN policy.allow : s \in Covers(policy.allow[k], call)
    BY <2>2
  <2>4. Permitted(policy, call) <=> AllCovered
    BY <1>7, <2>1, <2>3 DEF CommandJudged, LoopInv, Permitted, AllCovered
  <2> QED  BY <1>7, <2>4 DEF CommandJudged, Return, DecisionIsExact
<1>8. CASE UNCHANGED vars
  BY <1>8 DEF vars, DecisionIsExact
<1> QED
  BY <1>1, <1>2, <1>3, <1>4, <1>5, <1>6, <1>7, <1>8 DEF Next, Step, Decide, DenyPasses,
     BeginAllow, AllowPasses, RuleCovers, NextRule

\* The inductive invariant of Decide.
THEOREM Invariance == Spec => []IInv
<1>1. Init => IInv
  <2> SUFFICES ASSUME Init PROVE IInv
    OBVIOUS
  <2>1. Len(policy.deny) \in Nat /\ Len(policy.allow) \in Nat
    BY PolicyType DEF Init
  <2> QED  BY <2>1 DEF Init, IInv, TypeOK, Verdicts, LoopInv, DecisionIsExact
<1>2. IInv /\ [Next]_vars => IInv'
  BY TypeStep, LoopStep, VerdictStep DEF IInv
<1> QED  BY <1>1, <1>2, PTL DEF Spec

\* The loops stay inside the rule lists and mark only commands of the line.
THEOREM TypeCorrect == Spec => []TypeOK
<1>1. IInv => TypeOK
  BY DEF IInv
<1> QED  BY <1>1, Invariance, PTL

\* Every verdict is what the policy says of the call.
THEOREM VerdictsExact == Spec => []DecisionIsExact
<1>1. IInv => DecisionIsExact
  BY DEF IInv
<1> QED  BY <1>1, Invariance, PTL

\* With fewer deny rules and more allow rules, in any order, nothing that was
\* permitted is refused: a deny rule only restricts, an allow rule only grants.
THEOREM RulesMonotone ==
    ASSUME NEW p \in Policies, NEW q \in Policies, NEW c \in Calls,
           p.mode = q.mode,
           \A k \in DOMAIN q.deny : \E j \in DOMAIN p.deny : p.deny[j] = q.deny[k],
           \A k \in DOMAIN p.allow : \E j \in DOMAIN q.allow : q.allow[j] = p.allow[k],
           Permitted(p, c)
    PROVE  Permitted(q, c)
<1>1. \A k \in DOMAIN q.deny : ~MatchDeny(q.deny[k], c)
  BY DEF Permitted
<1>2. ASSUME q.mode = "allowlist", IsCommandLine(c)
      PROVE  \/ \E k \in DOMAIN q.allow : Blanket(q.allow[k], c)
             \/ /\ Segments(c.input[CommandField]) # {}
                /\ \A s \in Segments(c.input[CommandField]) :
                       \E k \in DOMAIN q.allow : s \in Covers(q.allow[k], c)
  <2>1. CASE \E k \in DOMAIN p.allow : Blanket(p.allow[k], c)
    BY <2>1
  <2>2. CASE ~\E k \in DOMAIN p.allow : Blanket(p.allow[k], c)
    <3>1. /\ Segments(c.input[CommandField]) # {}
          /\ \A s \in Segments(c.input[CommandField]) :
                 \E k \in DOMAIN p.allow : s \in Covers(p.allow[k], c)
      BY <1>2, <2>2 DEF Permitted
    <3> QED  BY <3>1
  <2> QED  BY <2>1, <2>2
<1>3. ASSUME q.mode = "allowlist", ~IsCommandLine(c)
      PROVE  \E k \in DOMAIN q.allow : MatchAllow(q.allow[k], c)
  BY <1>3 DEF Permitted
<1> QED  BY <1>1, <1>2, <1>3 DEF Permitted

-----------------------------------------------------------------------------
(* Command lines.  Decide looks into a line by a recursion over the depth;  *)
(* what it finds there is what chains of nested lines lead to.              *)

\* A set of numbers that is not empty has a least one.
LEMMA LeastNumber ==
    ASSUME NEW T \in SUBSET Nat, T # {}
    PROVE  \E n \in T : \A m \in T : n <= m
<1>1. T \subseteq Nat
    OBVIOUS
<1>2. \E n \in T : \A m \in T : ~(<<m, n>> \in OpToRel(<, Nat))
    BY <1>1, NatLessThanWellFounded, WFMin
<1>3. \A m, n \in Nat : <<m, n>> \in OpToRel(<, Nat) <=> m < n
    BY DEF OpToRel
<1>4. \E n \in T : \A m \in T : ~(m < n)
    BY <1>1, <1>2, <1>3, Zenon
<1> QED BY <1>4

\* Induction on the numbers.
LEMMA NumbersFrom ==
    ASSUME NEW S \in SUBSET Nat, 0 \in S, \A n \in S : n + 1 \in S
    PROVE  S = Nat
<1> SUFFICES ASSUME Nat \ S # {} PROVE FALSE
    OBVIOUS
<1>1. PICK n \in Nat \ S : \A m \in Nat \ S : n <= m
    BY LeastNumber
<1>2. n # 0 /\ n - 1 \in Nat
    OBVIOUS
<1>3. n - 1 \notin S
    BY <1>2
<1>4. n <= n - 1
    BY <1>1, <1>2, <1>3
<1> QED BY <1>4

\* The recursion of splitSegments is well founded: level by level.
LEMMA SplitSegmentsDef ==
    SplitSegments = [d \in 0..(MaxShellDepth + 1) |->
        IF d = 0 THEN [line \in Text |-> {}]
        ELSE [line \in Text |-> Split(line, SplitSegments[d - 1])]]
<1> DEFINE Level(f, d) == IF d = 0 THEN [line \in Text |-> {}]
                          ELSE [line \in Text |-> Split(line, f[d - 1])]
           S == {n \in Nat : \E f : f = [d \in 0..n |-> Level(f, d)]}
<1>1. 0 \in S
    <2> DEFINE f == [d \in 0..0 |-> [line \in Text |-> {}]]
    <2>1. f = [d \in 0..0 |-> Level(f, d)]
        OBVIOUS
    <2> QED BY <2>1, Zenon
<1>2. ASSUME NEW n \in S PROVE n + 1 \in S
    <2>1. PICK f : f = [d \in 0..n |-> Level(f, d)]
        OBVIOUS
    <2> DEFINE g == [d \in 0..n + 1 |-> IF d = n + 1 THEN Level(f, d) ELSE f[d]]
    <2>2. ASSUME NEW d \in 0..n + 1 PROVE g[d] = Level(g, d)
        <3>1. CASE d = 0
            BY <2>1, <3>1
        <3>2. CASE d # 0
            <4>1. d - 1 \in 0..n /\ d - 1 # n + 1 /\ d - 1 \in 0..n + 1 /\ (d # n + 1 => d \in 0..n)
                BY <3>2
            <4>2. g[d - 1] = f[d - 1]
                BY <4>1
            <4>3. g[d] = Level(f, d)
                BY <2>1, <4>1
            <4> QED BY <3>2, <4>2, <4>3
        <3> QED BY <3>1, <3>2
    <2>3. g = [d \in 0..n + 1 |-> g[d]]
        OBVIOUS
    <2> HIDE DEF g
    <2>4. g = [d \in 0..n + 1 |-> Level(g, d)]
        BY <2>2, <2>3
    <2>5. n + 1 \in Nat
        OBVIOUS
    <2> QED BY <2>4, <2>5
<1>3. S = Nat
    <2>1. S \in SUBSET Nat
        OBVIOUS
    <2> HIDE DEF S
    <2> QED BY <1>1, <1>2, <2>1, NumbersFrom
<1>4. \E f : f = [d \in 0..(MaxShellDepth + 1) |-> Level(f, d)]
    <2>1. MaxShellDepth + 1 \in Nat
        BY PermissionsAssumption
    <2>2. MaxShellDepth + 1 \in S
        BY <1>3, <2>1, Zenon
    <2> QED BY <2>2
<1> QED BY <1>4 DEF SplitSegments

\* One more level is what Split makes of the levels below.
LEMMA SegmentsByLevel ==
    ASSUME NEW d \in 0..MaxShellDepth, NEW line \in Text
    PROVE  SplitSegments[d + 1][line] = Split(line, SplitSegments[d])
<1>1. \A e \in 0..(MaxShellDepth + 1) : SplitSegments[e] =
         IF e = 0 THEN [l \in Text |-> {}]
         ELSE [l \in Text |-> Split(l, SplitSegments[e - 1])]
    BY SplitSegmentsDef, Zenon
<1> DEFINE e == d + 1
<1>2. e \in 0..(MaxShellDepth + 1) /\ e # 0 /\ e - 1 = d
    BY PermissionsAssumption
<1> HIDE DEF e
<1>3. SplitSegments[e] = [l \in Text |-> Split(l, SplitSegments[e - 1])]
    BY <1>1, <1>2, Zenon
<1>4. SplitSegments[e][line] = Split(line, SplitSegments[d])
    BY <1>2, <1>3, Zenon
<1> QED BY <1>4 DEF e

\* What a line runs through at most maxShellDepth steps is among the commands Decide
\* looks at.
LEMMA WithinIsLookedAt ==
    ASSUME NEW line \in Text
    PROVE  Within[line] \subseteq Segments(line)
<1> SUFFICES ASSUME NEW s \in Text, NEW n \in 0..MaxShellDepth, NEW chain \in [0..n -> Text],
                    chain[0] = line, s \in Parts[chain[n]],
                    \A k \in 1..n : chain[k] \in Inside[chain[k - 1]]
             PROVE  s \in Segments(line)
    BY DEF Within, RunFrom
<1> DEFINE found(j) == s \in SplitSegments[MaxShellDepth + 1 - (n - j)][chain[n - j]]
           S == {j \in Nat : j <= n => found(j)}
<1>1. MaxShellDepth \in Nat /\ n \in Nat /\ n <= MaxShellDepth
    BY PermissionsAssumption
<1>2. 0 \in S
    <2>1. MaxShellDepth - n \in 0..MaxShellDepth /\ chain[n] \in Text
        BY <1>1
    <2>2. s \in SplitSegments[MaxShellDepth - n + 1][chain[n]]
        BY <2>1, SegmentsByLevel DEF Split
    <2>3. n - 0 = n /\ MaxShellDepth - n + 1 = MaxShellDepth + 1 - (n - 0)
        BY <1>1
    <2> QED BY <2>2, <2>3
<1>3. ASSUME NEW j \in S PROVE j + 1 \in S
    <2> SUFFICES ASSUME j + 1 <= n PROVE found(j + 1)
        BY <1>1
    <2> DEFINE k == n - j
               d == MaxShellDepth + 1 - k
    <2>1. /\ j \in Nat /\ k \in 1..n /\ k - 1 \in 0..n /\ n - (j + 1) = k - 1
          /\ d \in 0..MaxShellDepth
          /\ MaxShellDepth + 1 - (k - 1) = d + 1
        BY <1>1
    <2>2. s \in SplitSegments[d][chain[k]]
        BY <1>1, <2>1
    <2>3. chain[k - 1] \in Text /\ chain[k] \in Inside[chain[k - 1]]
        BY <2>1
    <2>4. s \in Split(chain[k - 1], SplitSegments[d])
        BY <2>2, <2>3 DEF Split, Inside
    <2>5. SplitSegments[d + 1][chain[k - 1]] = Split(chain[k - 1], SplitSegments[d])
        BY <2>1, <2>3, SegmentsByLevel
    <2> QED BY <2>1, <2>4, <2>5
<1>4. n \in S
    <2>1. S \in SUBSET Nat
        OBVIOUS
    <2> HIDE DEF S
    <2> QED BY <1>1, <1>2, <1>3, <2>1, NumbersFrom
<1>5. s \in SplitSegments[MaxShellDepth + 1 - 0][chain[0]]
    BY <1>1, <1>4
<1> QED BY <1>1, <1>5 DEF Segments

\* And they are all of them: it looks at nothing else.
LEMMA LookedAtIsWithin ==
    ASSUME NEW line \in Text
    PROVE  Segments(line) \subseteq Within[line]
<1> DEFINE Leads(s, l, n, chain) ==
               /\ chain[0] = l /\ s \in Parts[chain[n]]
               /\ \A k \in 1..n : chain[k] \in Inside[chain[k - 1]]
           Reached(d) == \A l \in Text : \A s \in SplitSegments[d][l] :
               s \in Text /\ \E n \in Nat : n < d /\ \E chain \in [0..n -> Text] : Leads(s, l, n, chain)
           S == {d \in Nat : d <= MaxShellDepth + 1 => Reached(d)}
<1>1. MaxShellDepth \in Nat
    BY PermissionsAssumption
<1>2. 0 \in S
    <2>1. 0 \in 0..(MaxShellDepth + 1)
        BY <1>1
    <2>2. SplitSegments[0] = [l \in Text |-> {}]
        BY <2>1, SplitSegmentsDef, Zenon
    <2> QED BY <2>2
<1>3. ASSUME NEW d \in S PROVE d + 1 \in S
    <2> HIDE DEF Reached
    <2> SUFFICES ASSUME d <= MaxShellDepth PROVE Reached(d + 1)
        BY <1>1
    <2>1. d \in 0..MaxShellDepth /\ Reached(d)
        BY <1>1
    <2> USE DEF Reached
    <2> SUFFICES ASSUME NEW l \in Text, NEW s \in SplitSegments[d + 1][l]
                 PROVE  s \in Text /\ \E n \in Nat : n < d + 1 /\
                            \E chain \in [0..n -> Text] : Leads(s, l, n, chain)
        OBVIOUS
    <2>2. Inside[l] = Bodies[l] \cup UNION {Scripts[r] : r \in Parts[l]}
        BY DEF Inside
    <2>3. s \in Split(l, SplitSegments[d])
        BY <2>1, SegmentsByLevel
    <2>4. CASE s \in Parts[l]
        <3> DEFINE chain == [k \in 0..0 |-> l]
        <3>1. chain \in [0..0 -> Text] /\ Leads(s, l, 0, chain)
            BY <2>4
        <3>2. 0 \in Nat /\ 0 < d + 1 /\ s \in Text
            BY <2>1, <2>4, PermissionsAssumption
        <3> QED BY <3>1, <3>2
    <2>5. ASSUME NEW b \in Inside[l], s \in SplitSegments[d][b]
          PROVE  s \in Text /\ \E n \in Nat : n < d + 1 /\
                     \E chain \in [0..n -> Text] : Leads(s, l, n, chain)
        <3>1. b \in Text
            <4>1. /\ Bodies[l] \subseteq Text /\ Parts[l] \subseteq Text
                  /\ \A r \in Text : Scripts[r] \subseteq Text
                BY PermissionsAssumption
            <4> QED BY <2>2, <2>5, <4>1
        <3>2. PICK n \in Nat : n < d /\ \E chain \in [0..n -> Text] : Leads(s, b, n, chain)
            BY <2>1, <2>5, <3>1
        <3>3. PICK chain \in [0..n -> Text] : Leads(s, b, n, chain)
            BY <3>2
        <3> DEFINE longer == [k \in 0..(n + 1) |-> IF k = 0 THEN l ELSE chain[k - 1]]
        <3>4. longer \in [0..(n + 1) -> Text]
            OBVIOUS
        <3>5. longer[0] = l /\ \A k \in 1..(n + 1) : longer[k] = chain[k - 1]
            OBVIOUS
        <3> HIDE DEF longer
        <3>6. s \in Parts[longer[n + 1]]
            BY <3>3, <3>5
        <3>7. ASSUME NEW k \in 1..(n + 1) PROVE longer[k] \in Inside[longer[k - 1]]
            <4>1. CASE k = 1
                BY <3>3, <3>5, <4>1
            <4>2. CASE k # 1
                <5>1. k - 1 \in 1..n /\ k - 1 \in 1..(n + 1)
                    BY <4>2
                <5>2. longer[k] = chain[k - 1] /\ longer[k - 1] = chain[(k - 1) - 1]
                    BY <3>5, <5>1
                <5> QED BY <3>3, <5>1, <5>2
            <4> QED BY <4>1, <4>2
        <3>8. Leads(s, l, n + 1, longer)
            BY <3>5, <3>6, <3>7
        <3>9. s \in Text /\ n + 1 \in Nat /\ n + 1 < d + 1
            BY <2>1, <2>5, <3>1, <3>2
        <3> QED BY <3>4, <3>8, <3>9
    <2>6. s \in Parts[l] \/ \E b \in Inside[l] : s \in SplitSegments[d][b]
        BY <2>2, <2>3 DEF Split
    <2> QED BY <2>4, <2>5, <2>6
<1>4. Reached(MaxShellDepth + 1)
    <2>1. S \in SUBSET Nat
        OBVIOUS
    <2> HIDE DEF S
    <2>2. S = Nat
        BY <1>2, <1>3, <2>1, NumbersFrom
    <2>3. MaxShellDepth + 1 \in S
        BY <1>1, <2>2
    <2> QED BY <1>1, <2>3 DEF S
<1>5. ASSUME NEW s \in Segments(line) PROVE s \in Within[line]
    <2>1. PICK n \in Nat : n < MaxShellDepth + 1 /\ \E chain \in [0..n -> Text] : Leads(s, line, n, chain)
        BY <1>4 DEF Segments
    <2>2. s \in Text /\ n \in 0..MaxShellDepth
        BY <1>1, <1>4, <2>1 DEF Segments
    <2> QED BY <2>1, <2>2 DEF Within, RunFrom
<1> QED BY <1>5

\* splitSegments finds what the shell runs from within a line, down to maxShellDepth,
\* and nothing else, although it recurses over levels and never sees a chain.
THEOREM LooksExactlyWithin == \A line \in Text : Segments(line) = Within[line]
BY WithinIsLookedAt, LookedAtIsWithin

\* What an allowed command line is: one that Permitted lets through.
LEMMA JudgedIsPermitted ==
    ASSUME IInv, JudgedLine
    PROVE  /\ Permitted(policy, call) /\ CommandField \in Carried(call)
           /\ call.input[CommandField] \in Text
<1>1. Permitted(policy, call)
    BY DEF IInv, DecisionIsExact, JudgedLine
<1>2. PICK F \in SUBSET Field : call.input \in [F -> Text]
    BY PermissionsAssumption DEF IInv, TypeOK
<1>3. CommandField \in Carried(call)
    BY DEF JudgedLine, IsCommandLine, IsPrimary, Carried
<1> QED BY <1>1, <1>2, <1>3 DEF Carried

\* A command that the shell runs from within an allowed line, at any depth up to
\* maxShellDepth, is named by no deny rule, in no spelling.
THEOREM DeniedNeverRuns == Spec => []NoDeniedCommand
<1>1. IInv => NoDeniedCommand
    <2> SUFFICES ASSUME IInv, JudgedLine, NEW k \in DOMAIN policy.deny,
                        NEW s \in Within[call.input[CommandField]], call.tool \in policy.deny[k].tools
                 PROVE  /\ policy.deny[k].bracket
                        /\ policy.deny[k].inner \cap ({s} \cup Aliases[s]) = {}
        BY DEF NoDeniedCommand
    <2>1. /\ CommandField \in Carried(call) /\ call.input[CommandField] \in Text
          /\ ~MatchDeny(policy.deny[k], call)
        BY JudgedIsPermitted DEF Permitted
    <2>2. s \in Segments(call.input[CommandField])
        BY <2>1, WithinIsLookedAt
    <2>3. policy.deny[k].bracket /\ ~MatchValue(policy.deny[k].inner, call, CommandField)
        BY <2>1 DEF MatchDeny
    <2> QED BY <2>2, <2>3 DEF MatchValue, DenyCommand
<1> QED BY <1>1, Invariance, PTL

\* In allowlist mode a command that the shell runs, however deep it follows the line,
\* is named by an allow rule or lies deeper than maxShellDepth, where no rule looks.
THEOREM AllowedIsNamed == Spec => []EveryCommandNamed
<1>1. IInv => EveryCommandNamed
    <2> SUFFICES ASSUME IInv, JudgedLine, policy.mode = "allowlist",
                        NEW s \in Runs[call.input[CommandField]],
                        s \in Within[call.input[CommandField]]
                 PROVE  Named(s)
        BY DEF EveryCommandNamed
    <2>1. /\ call.input[CommandField] \in Text /\ Permitted(policy, call) /\ IsCommandLine(call)
        BY JudgedIsPermitted DEF JudgedLine
    <2>2. s \in Segments(call.input[CommandField])
        BY <2>1, WithinIsLookedAt
    <2>3. CASE \E k \in DOMAIN policy.allow : Blanket(policy.allow[k], call)
        BY <2>3 DEF Blanket, Named
    <2>4. CASE ~\E k \in DOMAIN policy.allow : Blanket(policy.allow[k], call)
        <3>1. PICK k \in DOMAIN policy.allow : s \in Covers(policy.allow[k], call)
            BY <2>1, <2>2, <2>4 DEF Permitted
        <3> QED BY <3>1 DEF Covers, Named
    <2> QED BY <2>3, <2>4
<1> QED BY <1>1, Invariance, PTL
==============================================================================
