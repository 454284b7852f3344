\* A worker dies while its job is on its last run, and starts again.
CONSTANTS
    None = None
    Command = {c1}
    Request = {r1}
    Worker = {w1}
    Body <- OneBody
    MaxAttempts = 1
    MaxStalls = 1
    RecoverLimit = 1
    Faults = {"worker_crash"}
SPECIFICATION Spec
PROPERTY RecoveryRevivesDelivery
CHECK_DEADLOCK FALSE
