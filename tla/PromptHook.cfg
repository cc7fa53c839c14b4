SPECIFICATION Spec
CONSTANTS
    Workflows <- SomeWorkflows
    Info <- SomeInfo
    Cjk = {"ko"}
    NonAscii = {"fix-ko", "how-ko"}
    Window = 4
    Dirs = {"root", "sub"}
    Root = "root"
    Languages = {"ko"}
    Sessions <- Kinds
    NoId = NoId
    Prompts <- SomePrompts
    MaxPrompts = 1
INVARIANTS
    TypeOK
    OnlyAsked
    AskedIsHeard
    Guarded
