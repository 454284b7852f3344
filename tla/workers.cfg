\* Two workers, one of which may run on after it lost the job's lock.
CONSTANTS
    None = None
    Command = {c1}
    Request = {r1}
    Worker = {w1, w2}
    Body <- OneBody
    MaxAttempts = 1
    MaxStalls = 1
    RecoverLimit = 1
    Faults = {"lock_lost"}
SPECIFICATION Spec
SYMMETRY Interchangeable
INVARIANTS
    ResultsNeverTooEarly
    CompletedJobIsSettled
PROPERTIES
    TerminalIsFinal
    AbandonedOnlyByFault
CHECK_DEADLOCK FALSE
