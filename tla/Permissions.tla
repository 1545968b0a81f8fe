----------------------------- MODULE Permissions -----------------------------
(***************************************************************************)
(* The approve tool: Permissions.Decide, the decision on one tool call of  *)
(* the agent under the policy the launcher was started with.  Its loops    *)
(* over the rules are steps; Permitted is the decision stated on the sets  *)
(* of rules, whatever their order.                                         *)
(*                                                                         *)
(* Text is abstract.  A glob is the set of what it matches, a tool pattern *)
(* a set of tools ({} for a blank rule).  How a command line falls apart   *)
(* is given by Parts, Bodies, Scripts and Aliases; how deep the code looks *)
(* into it is modelled by Segments.                                        *)
(***************************************************************************)
EXTENDS Integers, Sequences

CONSTANTS
    Text,           \* command lines, single commands, paths (normalised), URLs
    Tool, Field,
    CommandField,   \* the field "command"
    KeysOf,         \* inputKeysFor: the fields a rule looks at, first one first
    Parts,          \* the commands a line is split into by its operators
    Bodies,         \* the bodies of the substitutions in a line; a ${...} is a
                    \* body too, one without commands of its own
    Scripts,        \* the scripts a command hands to another shell
    Aliases,        \* the other spellings of a command (commandVariants)
    MaxShellDepth,
    MaxNesting,     \* bound: how deep a shell follows lines nested in one another
    Policies,       \* policies the launcher may be started with
    Calls           \* calls the agent may make

Modes == {"allow_all", "allowlist", "deny_all"}
Rule == [tools : SUBSET Tool, bracket : BOOLEAN, inner : SUBSET Text]

ASSUME PermissionsAssumption ==
    /\ CommandField \in Field
    /\ KeysOf \in [Tool -> Seq(Field)]
    /\ Parts \in [Text -> SUBSET Text] /\ Bodies \in [Text -> SUBSET Text]
    /\ Scripts \in [Text -> SUBSET Text] /\ Aliases \in [Text -> SUBSET Text]
    /\ MaxShellDepth \in Nat /\ MaxNesting \in Nat
    /\ \A p \in Policies : /\ p.mode \in Modes
                           /\ p.deny \in Seq(Rule) /\ p.allow \in Seq(Rule)
    /\ \A c \in Calls : /\ c.tool \in Tool
                        /\ \E F \in SUBSET Field : c.input \in [F -> Text]

VARIABLES
    policy,   \* cfg.Permissions, read once
    call,     \* the call being judged, or judged last
    pc,       \* the loop Decide is in
    i,        \* the rule it looks at
    covered,  \* allowCommand: the commands covered so far
    verdict   \* of the last call

vars == <<policy, call, pc, i, covered, verdict>>

-----------------------------------------------------------------------------
(* Command lines *)

\* mutant: scripts handed to a shell are not looked into.
SplitNoScripts(line, inside) == Parts[line] \cup UNION {inside[b] : b \in Bodies[line]}

\* One level of splitSegments, given what it finds one level further in.
Split(line, inside) ==
    LET nested == Bodies[line] \cup UNION {Scripts[s] : s \in Parts[line]}
    IN  Parts[line] \cup UNION {inside[b] : b \in nested}

\* splitSegments with d levels left before maxShellDepth is exceeded.
SplitSegments[d \in 0..(MaxShellDepth + 1)] ==
    IF d = 0 THEN [line \in Text |-> {}]
    ELSE [line \in Text |-> Split(line, SplitSegments[d - 1])]

Segments(line) == SplitSegments[MaxShellDepth + 1][line]

\* A deny rule is tried on every spelling of every command; a line without a
\* command matches.
DenyCommand(pattern, line) ==
    \/ Segments(line) = {}
    \/ \E s \in Segments(line) : pattern \cap ({s} \cup Aliases[s]) # {}

-----------------------------------------------------------------------------
(* Single rules *)

Carried(c) == {KeysOf[c.tool][k] : k \in DOMAIN KeysOf[c.tool]} \cap DOMAIN c.input

\* f is the first field of the tool that the call carries.
IsPrimary(c, f) ==
    \E k \in DOMAIN KeysOf[c.tool] :
        /\ KeysOf[c.tool][k] = f /\ f \in DOMAIN c.input
        /\ \A j \in 1..(k - 1) : KeysOf[c.tool][j] \notin DOMAIN c.input

IsCommandLine(c) == IsPrimary(c, CommandField)

MatchValue(pattern, c, f) ==
    IF f = CommandField THEN DenyCommand(pattern, c.input[f]) ELSE c.input[f] \in pattern

\* Doubt blocks: a rule that finds no field to look at matches.
MatchDeny(rule, c) ==
    /\ c.tool \in rule.tools
    /\ rule.bracket => \/ Carried(c) = {}
                       \/ \E f \in Carried(c) : MatchValue(rule.inner, c, f)

\* Doubt does not grant, and no single rule grants a command line.
MatchAllow(rule, c) ==
    /\ c.tool \in rule.tools
    /\ rule.bracket => \E f \in Field \ {CommandField} :
                           IsPrimary(c, f) /\ c.input[f] \in rule.inner

\* The commands on the line of call c that an allow rule with a pattern covers.
Covers(rule, c) ==
    IF c.tool \in rule.tools
    THEN Segments(c.input[CommandField]) \cap rule.inner
    ELSE {}

Blanket(rule, c) == c.tool \in rule.tools /\ ~rule.bracket

-----------------------------------------------------------------------------
(* Decide *)

Init ==
    /\ policy \in Policies /\ call \in Calls
    /\ pc = "idle" /\ i = 1 /\ covered = {} /\ verdict = "none"

CoverNothing == covered' = {}

Decide(c) ==
    /\ pc = "idle" /\ pc' = "deny" /\ i' = 1
    /\ call' = c /\ CoverNothing /\ verdict' = "none"
    /\ UNCHANGED policy

Return(v) == verdict' = v /\ pc' = "idle" /\ UNCHANGED <<policy, call, i, covered>>

NextRule == i' = i + 1 /\ UNCHANGED <<policy, call, pc, verdict>>

DenyMatches ==
    /\ pc = "deny" /\ i <= Len(policy.deny)
    /\ MatchDeny(policy.deny[i], call)
    /\ Return("reject")

DenyPasses ==
    /\ pc = "deny" /\ i <= Len(policy.deny)
    /\ ~MatchDeny(policy.deny[i], call)
    /\ NextRule /\ UNCHANGED covered

ModeDecides ==
    /\ pc = "deny" /\ i > Len(policy.deny) /\ policy.mode # "allowlist"
    /\ Return(IF policy.mode = "allow_all" THEN "allow" ELSE "reject")

BeginAllow ==
    /\ pc = "deny" /\ i > Len(policy.deny) /\ policy.mode = "allowlist"
    /\ pc' = IF IsCommandLine(call) THEN "command" ELSE "rule"
    /\ i' = 1 /\ UNCHANGED <<policy, call, covered, verdict>>

AllowMatches ==
    /\ pc = "rule" /\ i <= Len(policy.allow)
    /\ MatchAllow(policy.allow[i], call)
    /\ Return("allow")

AllowPasses ==
    /\ pc = "rule" /\ i <= Len(policy.allow)
    /\ ~MatchAllow(policy.allow[i], call)
    /\ NextRule /\ UNCHANGED covered

NothingAllows ==
    /\ pc = "rule" /\ i > Len(policy.allow)
    /\ Return("reject")

BlanketAllows ==
    /\ pc = "command" /\ i <= Len(policy.allow)
    /\ Blanket(policy.allow[i], call)
    /\ Return("allow")

\* mutant: only what one rule covers counts.
CoverAnew(s) == covered' = s

CoverMore(s) == covered' = covered \cup s

RuleCovers ==
    /\ pc = "command" /\ i <= Len(policy.allow)
    /\ ~Blanket(policy.allow[i], call)
    /\ CoverMore(Covers(policy.allow[i], call)) /\ NextRule

\* mutant: one covered command is enough.
AnyCovered == Segments(call.input[CommandField]) \cap covered # {}

AllCovered ==
    /\ Segments(call.input[CommandField]) # {}
    /\ Segments(call.input[CommandField]) \subseteq covered

CommandJudged ==
    /\ pc = "command" /\ i > Len(policy.allow)
    /\ Return(IF AllCovered THEN "allow" ELSE "reject")

Step ==
    \/ DenyMatches \/ DenyPasses \/ ModeDecides \/ BeginAllow
    \/ AllowMatches \/ AllowPasses \/ NothingAllows
    \/ BlanketAllows \/ RuleCovers \/ CommandJudged

Next == Step \/ \E c \in Calls : Decide(c)

Spec == Init /\ [][Next]_vars

-----------------------------------------------------------------------------
(* Properties *)

Verdicts == {"none", "allow", "reject"}

\* The loops stay inside the rule lists, and only commands of the line at hand
\* are covered.
TypeOK ==
    /\ policy \in Policies /\ call \in Calls
    /\ pc \in {"idle", "deny", "rule", "command"} /\ verdict \in Verdicts
    /\ i \in Nat \ {0}
    /\ pc = "deny" => i <= Len(policy.deny) + 1
    /\ pc \in {"rule", "command"} => i <= Len(policy.allow) + 1
    /\ pc = "command" => covered \subseteq Segments(call.input[CommandField])

\* What the policy says of a call, without an order among its rules.
Permitted(p, c) ==
    /\ \A k \in DOMAIN p.deny : ~MatchDeny(p.deny[k], c)
    /\ p.mode # "deny_all"
    /\ p.mode = "allowlist" =>
         IF IsCommandLine(c)
         THEN \/ \E k \in DOMAIN p.allow : Blanket(p.allow[k], c)
              \/ /\ Segments(c.input[CommandField]) # {}
                 /\ \A s \in Segments(c.input[CommandField]) :
                        \E k \in DOMAIN p.allow : s \in Covers(p.allow[k], c)
         ELSE \E k \in DOMAIN p.allow : MatchAllow(p.allow[k], c)

\* The loops with their early returns and their marks decide what the sets of
\* rules say: no verdict depends on the order of the rules or on earlier calls.
DecisionIsExact ==
    (pc = "idle" /\ verdict # "none") => (verdict = "allow" <=> Permitted(policy, call))

\* Inside[line] is what the shell runs from within a line, RunFrom(depth)[line] the
\* commands it runs from there through at most depth such steps.
Inside == [line \in Text |-> Bodies[line] \cup UNION {Scripts[s] : s \in Parts[line]}]

RunFrom(depth) == [line \in Text |-> {s \in Text :
    \E n \in 0..depth : \E chain \in [0..n -> Text] :
        /\ chain[0] = line /\ s \in Parts[chain[n]]
        /\ \A k \in 1..n : chain[k] \in Inside[chain[k - 1]]}]

\* The commands down to the depth the code looks into, and all that the shell runs.
Within == RunFrom(MaxShellDepth)
Runs == RunFrom(MaxNesting)

JudgedLine == pc = "idle" /\ verdict = "allow" /\ IsCommandLine(call)

\* An allowed command line runs nothing, in no spelling and at no depth the code
\* looks into, that a deny rule for the tool names.
NoDeniedCommand ==
    JudgedLine =>
        \A k \in DOMAIN policy.deny, s \in Within[call.input[CommandField]] :
            call.tool \in policy.deny[k].tools =>
                policy.deny[k].bracket /\ policy.deny[k].inner \cap ({s} \cup Aliases[s]) = {}

\* The command is named by some allow rule for the tool of the call.
Named(s) ==
    \E k \in DOMAIN policy.allow :
        /\ call.tool \in policy.allow[k].tools
        /\ policy.allow[k].bracket => s \in policy.allow[k].inner

\* In allowlist mode every command that the shell runs from an allowed line is named
\* by some allow rule, unless it comes up only deeper than maxShellDepth: there the code
\* sees no command, and refuses none, although "an allow rule requires every segment to
\* be covered" (README.md:358) and the mode "fails closed by construction" (denyCommand).
EveryCommandNamed ==
    (JudgedLine /\ policy.mode = "allowlist") =>
        LET line == call.input[CommandField]
        IN  \A s \in Runs[line] : Named(s) \/ s \notin Within[line]
==============================================================================
