SPECIFICATION Spec
CONSTANTS
    Boxes = {b1, b2}
    Files = {1, 2, 3, 4}
    Relocations = FALSE
    MaxIntake = 2
INVARIANTS
    NoTransientCollision ActiveFirst
CHECK_DEADLOCK FALSE
