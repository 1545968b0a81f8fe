---------------------------- MODULE MCPermissions ----------------------------
(***************************************************************************)
(* A small shell for Permissions: plain commands, a chain, a substitution, *)
(* a script for another shell, a wrapper, an expansion, a line of nothing  *)
(* but operators, a line nested too deep; and all rule lists up to         *)
(* MaxRules over a few rules.                                              *)
(***************************************************************************)
EXTENDS Permissions, TLC, FiniteSets

CONSTANT MaxRules   \* bound: rules in each list of a policy

Twice == "git $(git $(rm))"
Thrice == "git $(git $(git $(rm)))"
Plain == {"git", "cd", "rm", "git $(rm)", Twice, Thrice, "bash -c rm", "sudo rm", "git ${x:-$(rm)}"}
Nested == {"${x:-$(rm)}"}
Paths == {"/proj/a", "/etc/b"}
TheText == Plain \cup Nested \cup Paths \cup {"cd && git", ";;"}

Only(f) == [x \in TheText |-> IF x \in DOMAIN f THEN f[x] ELSE {}]

TheParts == Only([x \in Plain |-> {x}] @@ "cd && git" :> {"cd", "git"})
TheBodies == Only("git $(rm)" :> {"rm"} @@ "git ${x:-$(rm)}" :> {"${x:-$(rm)}"}
                  @@ "${x:-$(rm)}" :> {"rm"}
                  @@ Twice :> {"git $(rm)"} @@ Thrice :> {Twice})
TheScripts == Only("bash -c rm" :> {"rm"})
TheAliases == Only("sudo rm" :> {"rm"})

TheTools == {"Bash", "Edit", "mcp"}
TheKeysOf == "Bash" :> <<"command">> @@ "Edit" :> <<"file_path", "path">>
             @@ "mcp" :> <<"command", "file_path", "path">>

R(tools, inner) == [tools |-> tools, bracket |-> TRUE, inner |-> inner]
Whole(tools) == [tools |-> tools, bracket |-> FALSE, inner |-> {}]
GitAll == {"git", "git $(rm)", Twice, Thrice, "git ${x:-$(rm)}"}   \* "git *"

DenyRules == {R({"Bash"}, {"rm"}), R({"mcp"}, {"/etc/b"}), Whole({"Edit"})}
AllowRules == {R({"Bash"}, GitAll), R(TheTools, {"cd", "rm"}), R({"Edit", "mcp"}, {"/proj/a"}),
               Whole({"mcp"}), Whole({})}

Lists(S) == UNION {[1..n -> S] : n \in 0..MaxRules}
ThePolicies ==
    {[mode |-> m, deny |-> d, allow |-> a] : m \in Modes, d \in Lists(DenyRules), a \in Lists(AllowRules)}
TheCalls ==
    {[tool |-> "Bash", input |-> "command" :> x] : x \in TheText \ Paths}
    \cup {[tool |-> t, input |-> "file_path" :> x @@ "path" :> y] : t \in {"Edit", "mcp"}, x, y \in Paths}
    \cup {[tool |-> "mcp", input |-> "command" :> "git" @@ "path" :> x] : x \in Paths}
    \cup {[tool |-> t, input |-> <<>>] : t \in TheTools}
==============================================================================
