----------------------------- MODULE MCHandshake -----------------------------
(* Small rosters for TLC. *)
EXTENDS Handshake

CONSTANTS a, b

Two == {a, b}
TwoFriends == [n \in Two |-> Two \ {n}]
=============================================================================
