SPECIFICATION Spec
CONSTANTS
  Users = {alice, mario}
  Admins = {alice}
  Movers = {mario}
  OverlappingApprovals = TRUE
  MaxVersion = 4
PROPERTIES OnlySubmittedApproved
