SPECIFICATION Spec
CONSTANTS
  MaxStarts = 2
  MaxFalls = 1
INVARIANTS
  TypeOK
  StaleProxyIsTold
  RequestIsNotLost
  OnlyOneIsAsked
PROPERTIES
  StaleProxyIsDropped
  QuitEnds
CHECK_DEADLOCK FALSE
