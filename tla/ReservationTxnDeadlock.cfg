SPECIFICATION Spec
CONSTANTS
  Txns = {t1, t2}
  NoTxn = none
  Warehouses = {1, 2}
  Sources = {11, 12}
  Boxes = {21}
  Files = {}
  Kinds = {"create", "edit"}
  WarehouseOf <- AllAtOne
  ItemsOf <- TwiceIn
  Home <- AllHome
  FilesOf <- FileIn22
INVARIANTS NoWaitCycle
SYMMETRY Symmetry
CHECK_DEADLOCK FALSE
