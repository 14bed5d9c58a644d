SPECIFICATION CompletionSpec
CONSTANTS
  p1 = p1 p2 = p2 f1 = f1 k1 = k1 k2 = k2 None = None
  Boxes = {1, 2}
  Pallets = {p1, p2}
  Files = {f1}
  IdempotencyKeys = {k1}
  Deliveries <- MCPalletDeliveries
  MaxEdits = 0
  OverlappingEdits = FALSE
INVARIANTS NoLateRefusal
CHECK_DEADLOCK FALSE
