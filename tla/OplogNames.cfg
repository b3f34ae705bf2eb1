\* One engine and a workflow that calls an API in two of its steps.
SPECIFICATION Spec
CONSTANTS
    Nodes = {a}
    Program <- Workflow
    Oversized = {}
    SnapshotPeriod = 5
    MaxVersion = 4
    MaxFailures = 1
CHECK_DEADLOCK FALSE
INVARIANT ResponseMatchesCall
