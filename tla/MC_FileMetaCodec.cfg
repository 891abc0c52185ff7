\* Repeated decodes of every object over two addresses, two URIs and sizes
\* 0..2 into one FileMeta: encoding round-trips and a failed decode is atomic.
CONSTANTS
    a1 = a1
    a2 = a2
    nil = nil
    absent = absent
    null = null
    bad = bad
    Addrs <- MCAddrs
    URIs <- MCURIs
    Nil = nil
    Absent = absent
    Null = null
    Bad = bad
    MaxNum = 2
SPECIFICATION Spec
CHECK_DEADLOCK FALSE
INVARIANT
    RoundTrip
