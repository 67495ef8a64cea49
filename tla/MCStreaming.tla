----------------------------- MODULE MCStreaming -----------------------------
(* Two transfers, on one connection or on two, for TLC. *)
EXTENDS Streaming

CONSTANTS s1, s2, x1, x2

MCTransfer == {s1, s2}
MCSid == {x1, x2}
TwoConns == [s \in MCTransfer |-> IF s = s1 THEN 1 ELSE 2]
OneConn == [s \in MCTransfer |-> 1]
TwoSids == [s \in MCTransfer |-> IF s = s1 THEN x1 ELSE x2]
=============================================================================
