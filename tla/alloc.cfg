CONSTANTS
    LeafSets <- InputsAndWeights
    LayoutSize <- SmallAndLarge
    Extra = 1
    MaxChunkSize = 4
    MaxChunks = 3
    MaxNodes = 3
    Common = {"leafs", "sources", "layouts"}
SPECIFICATION Spec
CHECK_DEADLOCK FALSE
INVARIANTS
    SourcesIntact
    Disjoint
    NothingLeaks
    WithinBuffer
