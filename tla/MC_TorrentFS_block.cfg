\* Violation: with ttlchan full, listen blocks in its own send and Stop
\* waits for it forever (spec 4.3 says a deferred need is dropped instead).
CONSTANTS
    h1 = h1
    h2 = h2
    p1 = p1
    s1 = s1
    s2 = s2
    Hashes <- MCHashes
    Good <- MCGood
    Peers <- MCNoPeers
    Stoppers <- MCStoppers
    MaxSize = 1
    CallbackCap = 1
    TtlCap = 1
    MaxNeeds = 3
    MaxMsgs = 2
SPECIFICATION Spec
CHECK_DEADLOCK FALSE
PROPERTIES
    StopReturns
