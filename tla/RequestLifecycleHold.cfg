SPECIFICATION Spec
CONSTANTS
  Users = {alice, mario}
  Admins = {alice}
  Movers = {mario}
  OverlappingApprovals = FALSE
  MaxVersion = 6
PROPERTIES HoldBlocksLifecycle
