------------------------------- MODULE MCJbot -------------------------------
(* Sessions of every kind for TLC. *)
EXTENDS Jbot

CONSTANTS p1, p2
=============================================================================
