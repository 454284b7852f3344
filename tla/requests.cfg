\* Two racing requests for one idempotency key, alike, respelt or different.
CONSTANTS
    None = None
    Command = {c1}
    Request = {r1, r2}
    Worker = {w1}
    Body <- Bodies
    MaxAttempts = 1
    MaxStalls = 0
    RecoverLimit = 1
    Faults = {"relay_error"}
SPECIFICATION Spec
SYMMETRY Interchangeable
INVARIANTS
    AcceptedRequestsAgree
    AuditMatchesRow
CHECK_DEADLOCK FALSE
