SPECIFICATION Spec
CONSTANTS
    m = m  p = p  z = z  b = b  big = big  f = f  r = r
    Object = {m, p, z, b, big}
    Root = {f, r}
    Frame = {f}
    SlotCount <- MCSlotCount
    KindOf <- MCKindOf
    Overflow = {big}
    Pinned = {b}
    Classed = {m, p, z, b, big}
    Layouts <- MCLayouts
    Graphs <- MCGraphs
    Holdings <- MCHoldings
    IPOffset = 2
    OldSpaceEnd = 20
    ScratchLimit = 5
    MaxGCs = 2
    MaxMutations = 2
CHECK_DEADLOCK FALSE
INVARIANTS CompactionTypeOK NoOverlap NoStalePointer FramesGoOn
PROPERTIES CollectionKeepsGraph
