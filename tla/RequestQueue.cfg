CONSTANTS
    small = small
    large = large
    n1 = n1
    n2 = n2
    n3 = n3
    n4 = n4
    NULL = NULL
    Queues <- MCQueues
    Nodes <- MCNodes
    capacity <- MCCapacity
SYMMETRY MCSymmetry
SPECIFICATION Spec
INVARIANTS
    TypeOK
    Linked
PROPERTIES
    ImplementsFifo
