CONSTANTS
    Values = {u, v, w}
    failret = failret
    span = 4
SPECIFICATION Spec
INVARIANTS
    TypeOK
    QueriesRight
PROPERTIES
    ImplementsFifo
