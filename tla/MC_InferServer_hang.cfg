\* A submitter passes the stop check, Close runs and fetchWork returns: the
\* send on the unbuffered inferWorkCh never completes.
CONSTANTS
    w1 = w1
    w2 = w2
    k1 = k1
    c1 = c1
    c2 = c2
    Works <- MCWorks
    Keys <- MCKeys
    KeyOf <- MCKeyOf
    Closers <- MCClosers
    MaxNew = 1
SPECIFICATION Spec
CHECK_DEADLOCK FALSE
PROPERTY
    SubmitNeverHangs
