CONSTANTS
    Procs = {p1, p2, p3}
    Names = {"a", "b"}
    Files = {"dist/a", "old/a", "b", "gone"}
    NameOf <- MCNameOf
    Readable = {"dist/a", "old/a", "b"}
    Commands <- MCCommands
    None = None
SPECIFICATION Spec
CHECK_DEADLOCK FALSE
SYMMETRY MCSymmetry
INVARIANTS
    LostOnlyByFailure
    DuplicatesOnlyByOverlap
    Downloaded
