----------------------------- MODULE MC_TorrentFS -----------------------------
(* Small instances of TorrentFS for TLC.                                   *)
EXTENDS TorrentFS

CONSTANTS h1, h2, p1, s1, s2

MCHashes == {h1, h2}
MCGood == {h1}
MCPeers == {p1}
MCNoPeers == {}
MCStoppers == {s1, s2}
=============================================================================
