CONSTANTS
    Contexts = {0, 1}
    HeaderSize = 1
    PageSize = 4
    Pages = {1, 2, 4}
    RequestSizes = {1, 2, 5}
    Slots = {1, 2, 3}
SPECIFICATION Spec
INVARIANT BlocksDisjoint
