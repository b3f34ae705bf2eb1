\* Two engines, one page the module does not start with, a full snapshot at the
\* first and at every third version, deltas under and over it.
SPECIFICATION Spec
CONSTANTS
    Nodes = {a, b}
    Pages = {1}
    InitialPages = {}
    MaxContent = 1
    SnapshotPeriod = 3
    MaxVersion = 4
SYMMETRY NodeSymmetry
INVARIANTS TypeOK OneWriterPerVersion RecoverExact
PROPERTIES RestoreIsExact NoLostUpdate Implements
