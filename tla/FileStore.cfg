\* Two clients of one store; a crash or a full disk may tear any file.
SPECIFICATION Spec
CONSTANTS
    Clients = {c, d}
    Pages = {1, 2}
    Contents = {1}
    Shared = TRUE
    MaxVersion = 2
    MaxIndex = 2
    MaxLog = 2
SYMMETRY ClientSymmetry
INVARIANTS VersionGrantedOnce AckedIsStored
PROPERTY Implements
