CONSTANTS
    c1 = c1  c2 = c2  c3 = c3  c4 = c4
    Slots <- MCSlots
    StageNames = {"a", "internal", "user"}
    UserNames = {"a", "internal"}
    LegacyNames = {"a", "internal"}
    None = None
SYMMETRY MCSymmetry
SPECIFICATION Spec
INVARIANTS
    StagePrefixesDisjoint
