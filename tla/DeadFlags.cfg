SPECIFICATION Spec
CONSTANTS
    Flags = {"ZF", "CF"}
    None = "none"
    Chunks <- MCChunks
    Targets <- NoTargets
INVARIANTS
    TypeOK
    DeletesDeadWrites
    FlagsAgree
