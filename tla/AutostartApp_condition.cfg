SPECIFICATION Spec
CONSTANTS
    p1 = p1
    p2 = p2
    p3 = p3
    Procs = {p1, p2, p3}
    MaxChanges = 4
    None = None
INVARIANTS
    TypeOK
    PidIsNotReused
    KnowsItsProcess
    DisabledAppIsStopped
