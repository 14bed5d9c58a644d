SPECIFICATION FreshSpec
CONSTANTS
  Boxes = {b1, b2}
  Warehouses = {w1, w2}
  NoWarehouse = none
  Capacity = 1
  MaxQuantity = 2
  MaxRequests = 2
  Home = w1
  Twice = {b1}
INVARIANTS ReservedBoxesReady ArchivedWarehouseQuiet LinkedBoxesKept QuantityConserved
PROPERTIES RequestsFollowPhases
SYMMETRY Symmetry
