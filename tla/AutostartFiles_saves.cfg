SPECIFICATION Spec
CONSTANTS
  Systems = 2
  Objects = {1, 2}
  MaxEdits = 2
  MaxChanges = 1
INVARIANTS TypeOK ShownIsOnDisk DecisionIsOnDisk
PROPERTIES PendingEditIsKept SavesSettle
CHECK_DEADLOCK FALSE
