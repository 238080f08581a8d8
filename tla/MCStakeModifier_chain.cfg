SPECIFICATION Spec
CONSTANTS
    Headers <- MCHeaders
    Genesis <- MCGenesis
    SelectionHash <- MCSelectionHash
    ModifierInterval = 2
    Rounds = 3
    StakeShift = 8
    FlushLimit = 2
    MaxHeight = 5
    MaxBlocks = 6
INVARIANTS
    TypeOK
    KernelModifierOfChain
    ModifierReproducible
