\* Three codecs and two HTTP requests racing Stop: tracking, closing and
\* untracking keep s.codecs consistent, and every served codec is released.
CONSTANTS
    c1 = c1
    c2 = c2
    c3 = c3
    r1 = r1
    r2 = r2
    Conns <- MCConns
    Reqs <- MCReqs
SPECIFICATION Spec
CHECK_DEADLOCK FALSE
INVARIANTS
    StoppedCodecsClosed
    TrackedWhileServing
PROPERTIES
    StopReleasesServers
    ImplementsLifecycle
