\* One request, one worker, one run: every fault at every await.
CONSTANTS
    None = None
    Command = {c1}
    Request = {r1}
    Worker = {w1}
    Body <- OneBody
    MaxAttempts = 1
    MaxStalls = 0
    RecoverLimit = 1
    Faults <- OneWorkerFaults
SPECIFICATION Spec
INVARIANTS
    NeverPretendQueued
    AuditMatchesRow
PROPERTIES
    OnlyResultsLeaveTable
    AbandonedOnlyByFault
    ImplementsLifecycle
CHECK_DEADLOCK FALSE
