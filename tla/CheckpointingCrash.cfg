\* One engine, the code's snapshot period, a session lost after version 5.
SPECIFICATION Spec
CONSTANTS
    Nodes = {a}
    Pages = {1}
    InitialPages = {1}
    MaxContent = 2
    SnapshotPeriod = 5
    MaxVersion = 6
INVARIANT RecoversAfterCrash
