CONSTANTS
    Reserve = 1000
    Alignment = 512
    Sizes = {100, 512, 1100}
    Heats = {0, 1}
    LoadSets <- MCLoadSets
    Paranoid = TRUE
    FileLimit = 4096

SPECIFICATION Spec

INVARIANT TypeOK
INVARIANT BlocksSortedDisjoint
INVARIANT BytesInUseMatchesBlocks
INVARIANT ArrayHoldsBlocks
INVARIANT FindBlockLocates

PROPERTY FirstFitLowest
PROPERTY HoleReuse
PROPERTY Refinement
