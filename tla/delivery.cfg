\* One request, one worker, two runs: redelivery, crashes and a lossy connector.
CONSTANTS
    None = None
    Command = {c1}
    Request = {r1}
    Worker = {w1}
    Body <- OneBody
    MaxAttempts = 2
    MaxStalls = 0
    RecoverLimit = 1
    Faults = {"worker_crash", "connector_restart", "socket_loss"}
SPECIFICATION Spec
INVARIANTS
    TypeOK
    VerdictMatchesRuntime
    AuditMatchesRow
    ExecutionIsTraced
PROPERTIES
    NoVerdictTooSoon
    AttemptsAreHistory
    ImplementsLifecycle
CHECK_DEADLOCK FALSE
