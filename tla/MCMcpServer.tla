----------------------------- MODULE MCMcpServer -----------------------------
(* Bodies for the model checking of McpServer. *)
EXTENDS McpServer

Msg(form, method, what) == [form |-> form, method |-> method, what |-> what]
Local(form) == Msg(form, "local", Call("other"))
Run(form, what) == Msg(form, "call", what)
Edit(m) == [tool |-> "edit", mark |-> m]
Single(msg) == [refusal |-> 0, batch |-> FALSE, msgs |-> <<msg>>]
Batch(msgs) == [refusal |-> 0, batch |-> TRUE, msgs |-> msgs]

EditBodies == {Single(Run("request", Edit(m))) : m \in Marks}

MCBodies ==
    EditBodies \cup
    { [refusal |-> 401, batch |-> FALSE, msgs |-> <<Run("request", Call("write"))>>],
      Single(Local("malformed")),
      Single(Run("notification", Call("write"))),
      Batch(<<Local("notification"), Msg("notification", "unknownTool", Call("other"))>>),
      Batch(<<Local("malformed"), Run("request", Call("panic")), Run("request", Call("read"))>>),
      Batch(<<Run("notification", Call("panic")), Run("request", Call("script"))>>),
      Batch(<<Run("request", Call("command")), Msg("request", "unknown", Call("other"))>>) }
==============================================================================
