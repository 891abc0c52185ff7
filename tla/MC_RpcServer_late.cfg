\* An HTTP request that passed the unlocked run check is still read and
\* answered after Stop returned.
CONSTANTS
    c1 = c1
    c2 = c2
    c3 = c3
    r1 = r1
    r2 = r2
    Conns <- MCConns
    Reqs <- MCReqs
SPECIFICATION Spec
CHECK_DEADLOCK FALSE
PROPERTY
    NoRequestReadAfterStop
