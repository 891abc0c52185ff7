\* Scheduler, tunnel, one peer session and two Stop callers: the drain
\* discipline and the tunnel/ledger relation hold in every reachable state.
CONSTANTS
    h1 = h1
    h2 = h2
    p1 = p1
    s1 = s1
    s2 = s2
    Hashes <- MCHashes
    Good <- MCGood
    Peers <- MCPeers
    Stoppers <- MCStoppers
    MaxSize = 1
    CallbackCap = 1
    TtlCap = 3
    MaxNeeds = 3
    MaxMsgs = 2
SPECIFICATION Spec
CHECK_DEADLOCK FALSE
INVARIANTS
    TypeOK
    DrainedAfterStop
    PeerCountsAgree

