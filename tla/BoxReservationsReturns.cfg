SPECIFICATION StockedSpec
CONSTANTS
  Boxes = {b1, b2}
  Warehouses = {w1, w2}
  NoWarehouse = none
  Capacity = 1
  MaxQuantity = 1
  MaxRequests = 5
  Home = w1
  Twice = {b1}
INVARIANTS ReservationExclusive AllocationComplete
