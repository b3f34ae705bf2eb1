\* Two engines, kept and unkept calls, on either engine at any time.
SPECIFICATION Spec
CONSTANTS
    Engines = {a, b}
    MaxVersion = 6
SYMMETRY EngineSymmetry
INVARIANTS TypeOK RunsOnLatest NoLeak
