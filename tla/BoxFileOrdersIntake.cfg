SPECIFICATION Spec
CONSTANTS
    Boxes = {b1, b2}
    Files = {1, 2, 3, 4}
    Relocations = TRUE
    MaxIntake = 2
INVARIANTS
    NoTransientCollision
CHECK_DEADLOCK FALSE
