SPECIFICATION SerialSpec
CONSTANTS
  Txns = {t1, t2, t3}
  NoTxn = none
  Warehouses = {1, 2}
  Sources = {11, 12, 13}
  Boxes = {21, 22}
  Files = {31}
  Kinds = {"create", "draft", "edit", "intake", "archive", "restore"}
  WarehouseOf <- AllAtOne
  ItemsOf <- TwiceInAndOnce
  Home <- AllHome
  FilesOf <- FileIn22
INVARIANTS ReservedOnce ArchivedUnneeded OnlyEditsDeadlock
PROPERTIES ReservesReady
SYMMETRY Symmetry
CHECK_DEADLOCK FALSE
