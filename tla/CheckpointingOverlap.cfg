\* Two engines, the code's snapshot period; a node restores while another is
\* between its compare-and-swap and its write.
SPECIFICATION Spec
CONSTANTS
    Nodes = {a, b}
    Pages = {1}
    InitialPages = {1}
    MaxContent = 1
    SnapshotPeriod = 5
    MaxVersion = 6
INVARIANT RecoversAfterOverlap
