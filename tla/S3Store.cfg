\* Two clients whose calls overlap, and an instance that is deleted at any time.
SPECIFICATION Spec
CONSTANTS
    Clients = {a, b}
    Pages = {1, 2}
    Contents = {0}
    Hashes = {h1, h2}
    MaxVersion = 2
    MaxIndex = 1
    MaxLog = 2
SYMMETRY ClientSymmetry
INVARIANTS TypeOK AckedIsStored NoGhostMemory
PROPERTY Implements
