\* New never sets the package variable: SubmitInferWork after New still
\* dereferences a nil server.
CONSTANTS
    w1 = w1
    w2 = w2
    k1 = k1
    c1 = c1
    c2 = c2
    Works <- MCWorks
    Keys <- MCKeys
    KeyOf <- MCKeyOf
    Closers <- MCClosers
    MaxNew = 1
SPECIFICATION Spec
CHECK_DEADLOCK FALSE
INVARIANT
    SubmitReachesServer
