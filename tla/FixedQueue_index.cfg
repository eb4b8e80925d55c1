CONSTANTS
    Values = {u, v, w}
    failret = failret
    span = 3
SPECIFICATION Spec
INVARIANTS
    IndexAlwaysRight
