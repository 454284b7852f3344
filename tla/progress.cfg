\* Fair workers, an unreliable connector, no other fault.
CONSTANTS
    None = None
    Command = {c1}
    Request = {r1}
    Worker = {w1}
    Body <- OneBody
    MaxAttempts = 2
    MaxStalls = 0
    RecoverLimit = 1
    Faults = {"socket_loss", "connector_restart"}
SPECIFICATION FairSpec
PROPERTIES
    JobEnds
    DeliverySettles
CHECK_DEADLOCK FALSE
