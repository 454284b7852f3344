\* An acknowledgement is lost and the command redelivered as it expires.
CONSTANTS
    None = None
    Command = {c1}
    Request = {r1}
    Worker = {w1}
    Body <- OneBody
    MaxAttempts = 2
    MaxStalls = 0
    RecoverLimit = 1
    Faults = {"socket_loss"}
SPECIFICATION Spec
INVARIANT ExpiredMeansNotExecuted
CHECK_DEADLOCK FALSE
