--------------------------- MODULE MC_FileMetaCodec ---------------------------
(* Model values for FileMetaCodec: two addresses and two URIs.             *)
EXTENDS FileMetaCodec

CONSTANTS a1, a2, nil, absent, null, bad

MCAddrs == {a1, a2}
MCURIs == {"", "u1"}

=============================================================================
