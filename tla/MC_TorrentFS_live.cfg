\* Scheduler, tunnel and shutdown (no peer sessions) with ttlchan large
\* enough for the workload: needs are served and every Stop returns.
CONSTANTS
    h1 = h1
    h2 = h2
    p1 = p1
    s1 = s1
    s2 = s2
    Hashes <- MCHashes
    Good <- MCGood
    Peers <- MCNoPeers
    Stoppers <- MCStoppers
    MaxSize = 1
    CallbackCap = 1
    TtlCap = 4
    MaxNeeds = 4
    MaxMsgs = 2
SPECIFICATION Spec
CHECK_DEADLOCK FALSE
PROPERTIES
    NeedsServed
    StopReturns
