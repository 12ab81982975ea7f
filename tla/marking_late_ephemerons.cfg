SPECIFICATION Spec
CONSTANTS
    meta = meta  class = class  e1 = e1  e2 = e2  w = w  k = k  Nil = Nil
    Object = {meta, class, e1, e2, w, k}
    Slot <- MCSlot
    KeySlot = 1
    FixedSlots = {1}
    ClassOf <- MCClassOf
    FormatOf <- MCFormatOf
    Graphs <- MCGraphs
    Held = {meta}
    MaxGCs = 2
CHECK_DEADLOCK FALSE
INVARIANTS NoDanglingSlot
