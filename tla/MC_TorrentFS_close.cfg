\* Violation: Stop closes the ledger and the swarm before listen and the
\* peer loops have ended, which still call them (spec 5 drain-then-close).
CONSTANTS
    h1 = h1
    h2 = h2
    p1 = p1
    s1 = s1
    s2 = s2
    Hashes <- MCHashes
    Good <- MCGood
    Peers <- MCPeers
    Stoppers <- MCStoppers
    MaxSize = 1
    CallbackCap = 1
    TtlCap = 3
    MaxNeeds = 3
    MaxMsgs = 2
SPECIFICATION Spec
CHECK_DEADLOCK FALSE
PROPERTIES
    NoCallAfterClose
