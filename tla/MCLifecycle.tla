---------------------------- MODULE MCLifecycle ----------------------------
(* A friend's session for TLC. *)
EXTENDS Lifecycle

CONSTANTS p1
=============================================================================
