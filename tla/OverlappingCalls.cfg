\* Every kind of call; the calls are made once.
SPECIFICATION Spec
CONSTANTS
    Calls = {c, d, e}
    Kinds = {"execute", "bpmn", "close"}
    None = None
    MaxVersion = 3
SYMMETRY CallSymmetry
CHECK_DEADLOCK FALSE
INVARIANTS NothingLeft RunsOnLatest
