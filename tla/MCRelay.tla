------------------------------- MODULE MCRelay -------------------------------
(* One transfer through one relay for TLC. *)
EXTENDS Relay

CONSTANTS s1, x1

MCTransfer == {s1}
MCSid == {x1}
MCConnOf == [s \in MCTransfer |-> 1]
MCSidOf == [s \in MCTransfer |-> x1]
MCName == [c \in {1} |-> <<"b", "@", "j", "/", "r">>]
=============================================================================
