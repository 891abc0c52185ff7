\* Two works for one key, files that may sync at any time, and Close racing
\* the workers: fetchWork exits only after the stop flag, and Close releases
\* every worker.
CONSTANTS
    w1 = w1
    w2 = w2
    k1 = k1
    c1 = c1
    c2 = c2
    Works <- MCWorks
    Keys <- MCKeys
    KeyOf <- MCKeyOf
    Closers <- MCClosers
    MaxNew = 1
SPECIFICATION Spec
CHECK_DEADLOCK FALSE
INVARIANT
    ExitedOnlyWhenStopped
PROPERTY
    CloseReleasesWorkers
    AnswerOnce
    ImplementsInferService
