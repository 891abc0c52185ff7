\* Violation: two broadcast goroutines for one hash interleave Get and Set,
\* and the smaller size overwrites a live larger tunnel item.
CONSTANTS
    h1 = h1
    h2 = h2
    p1 = p1
    s1 = s1
    s2 = s2
    Hashes <- MCHashes
    Good <- MCGood
    Peers <- MCNoPeers
    Stoppers <- MCStoppers
    MaxSize = 1
    CallbackCap = 1
    TtlCap = 3
    MaxNeeds = 3
    MaxMsgs = 2
SPECIFICATION Spec
CHECK_DEADLOCK FALSE
PROPERTIES
    TunnelNeverShrinks
