CONSTANTS
    x = x
    y = y
    z = z
    k1 = k1
    k2 = k2
    NoAddress = NoAddress
    Address <- ThreeAddresses
    Kernels <- TwoKernels
    RingSize = 2
    QMax = 3
    MaxNodes = 5
SPECIFICATION Spec
CHECK_DEADLOCK FALSE
SYMMETRY Symmetry
INVARIANTS
    RingIntact
    PendingIsLatest
    GraphIsValid
