CONSTANTS
    Devices = {node1}
    ConfCap = 1
    InboxCap = 2
    RadioCap = 2
    MaxRetries = 3
    MaxJobs <- JobsOfEachKind
    NoJob = NoJob
SPECIFICATION Spec
INVARIANTS
    AnswersOwed
    HeardBeforeProvisioned
PROPERTY
    IsConfigurator
CHECK_DEADLOCK FALSE
