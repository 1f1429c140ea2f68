----------------------------- MODULE MCWsRelay -----------------------------
EXTENDS WsRelay
CONSTANTS r1, r2
MCChunks == [r \in {r1, r2} |-> IF r = r1 THEN 1 ELSE 0]
=============================================================================
