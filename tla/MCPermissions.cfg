SPECIFICATION Spec
CONSTANTS
    Text <- TheText
    Tool <- TheTools
    Field = {"command", "file_path", "path"}
    CommandField = "command"
    KeysOf <- TheKeysOf
    Parts <- TheParts
    Bodies <- TheBodies
    Scripts <- TheScripts
    Aliases <- TheAliases
    MaxShellDepth = 2
    MaxNesting = 3
    Policies <- ThePolicies
    Calls <- TheCalls
    MaxRules = 2
INVARIANTS
    DecisionIsExact
    NoDeniedCommand
    EveryCommandNamed
