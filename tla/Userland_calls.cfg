CONSTANTS
    Contexts = {0}
    HeaderSize = 1
    PageSize = 4
    Pages = {1, 2, 4}
    RequestSizes = {1, 2, 5}
    Slots = {1, 2, 3}
    Capacity = 4
    Characters = {"a", "b"}
    Zero = "z"
    Strings <- LongAndCut
SPECIFICATION MCSpec
INVARIANTS
    BlocksDisjoint
    ChunksTile
    
PROPERTIES
    CallsReturn
    IsStore
    LineKept
