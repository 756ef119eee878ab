SPECIFICATION Spec
CONSTANTS
    NoId = NoId
    ItemIds = {m1, m2}
    Sizes = {1, 2}
    MaxEvents = 2
    MaxBytes = 3
    MaxInput = 4
SYMMETRY Symmetry
INVARIANTS
    TypeOK
    DeliveryKept
    TurnHasItsPhase
    BufferBounded
