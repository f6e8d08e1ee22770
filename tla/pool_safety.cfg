\* Three renting threads, two stacks of one block each, two more blocks to allocate.
CONSTANTS
    t1 = t1
    t2 = t2
    t3 = t3
    b1 = b1
    b2 = b2
    b3 = b3
    b4 = b4
    Threads = {t1, t2, t3}
    Blocks = {b1, b2, b3, b4}
    BlockSize <- TwoSizes
    Count <- OneOfEach
    Sizes <- AskedSizes
SPECIFICATION Spec
SYMMETRY Symmetry
INVARIANTS
    TypeOK
    OnePlace
    FitsRequest
    GrowthBounded
PROPERTY ImplementsAllocator
