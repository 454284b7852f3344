\* No fault: a slow API request and a fast worker.
CONSTANTS
    None = None
    Command = {c1}
    Request = {r1}
    Worker = {w1}
    Body <- OneBody
    MaxAttempts = 1
    MaxStalls = 0
    RecoverLimit = 1
    Faults = {}
SPECIFICATION Spec
PROPERTY ExplicitTransitionsOnly
CHECK_DEADLOCK FALSE
