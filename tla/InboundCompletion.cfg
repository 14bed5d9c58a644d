SPECIFICATION CompletionSpec
CONSTANTS
  p1 = p1 p2 = p2 f1 = f1 k1 = k1 k2 = k2 None = None
  Boxes = {1, 2}
  Pallets = {p1}
  Files = {f1}
  IdempotencyKeys = {k1, k2}
  Deliveries <- MCDeliveries
  MaxEdits = 2
  OverlappingEdits = TRUE

SYMMETRY MCSymmetry
INVARIANTS RepeatsAnswered
PROPERTIES CompletesAsReviewed ReservedUntouched
CHECK_DEADLOCK FALSE
