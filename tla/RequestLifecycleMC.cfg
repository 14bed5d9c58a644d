SPECIFICATION Spec
CONSTANTS
  Users = {alice, mario}
  Admins = {alice}
  Movers = {mario}
  OverlappingApprovals = FALSE
  MaxVersion = 10
INVARIANTS VersionIdentifiesState ExceptionIsRecoverable
PROPERTIES PhaseRefinement
