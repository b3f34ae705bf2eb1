\* Two engines, two sessions, two instances.
SPECIFICATION FairSpec
CONSTANTS
    old = old
    new = new
    a = a
    b = b
    Engines = {a, b}
    Hashes = {old, new}
    Built <- RollOut
    Instances = {i, j}
    Sessions = {s, t}
    None = None
    MaxVersion = 2
INVARIANTS RegistryIsComplete CompiledOnce RunsItsModule
PROPERTY LookupEnds
