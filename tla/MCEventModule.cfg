SPECIFICATION Spec
SYMMETRY MCSymmetry
CONSTANTS
    ModuleEvents = {m1}
    ObjectEvents = {o1}
    Callbacks = {c1, c2}
    Lists = {l1, l2, l3}
    MaxList = 2
    MaxDepth = 3
PROPERTIES
    CallsInOrder
