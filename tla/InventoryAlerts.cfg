SPECIFICATION FairSpec
CONSTANTS
    Warehouses = {w1}
    Evaluators = {e1, e2}
    Senders = {s1, s2}
    None = none
    MaxAttempts = 2
    Timeout = 0
    MaxIncidents = 3
    MaxTrouble = 2
INVARIANTS MailPerIncident
PROPERTIES IncidentsAnswered AlertsFollowInventory
CHECK_DEADLOCK FALSE
