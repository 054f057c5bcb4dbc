SPECIFICATION Spec
CONSTANTS
  Programs = {p1, p2}
  MaxIds = 2
  MaxStates = 2
  MaxLogins = 3
INVARIANTS TypeOK SessionIsOfOneSave SavedStatesExist
CHECK_DEADLOCK FALSE
