--------------------------- MODULE MCQuicEndpoint ---------------------------
(* Small instances of a QUIC endpoint for TLC. *)
EXTENDS QuicEndpoint
MCConfigs == [bind : {"noPort", "taken", "elsewhere", "free"}, path : BOOLEAN,
    idle : {0, 999, 1000, 2000}, chain : {"empty", "unusable", "good"},
    key : {"empty", "pkcs1", "pkcs8"}]
============================================================================
