------------------------- MODULE MCIncrementalStore -------------------------
(* TLC instances of IncrementalStore: one or two signing keys whose signature *)
(* blocks have different lengths.                                            *)
EXTENDS IncrementalHistory

CONSTANTS short, long

MCSigLen == [k \in Signers |-> IF k = long THEN 2 ELSE 1]
=============================================================================
