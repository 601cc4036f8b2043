SPECIFICATION Spec
CONSTANTS
    Keys = {k1, k2, k3, k4, k5}
    Adders = {a1, a2, a3}
    size = 1
    MaxSurplus = 0
SYMMETRY Symmetry
INVARIANTS TypeOK SizeBound
