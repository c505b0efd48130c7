-------------------------- MODULE MCDaemonLifecycle --------------------------
(* Small instances of DaemonLifecycle for TLC. *)
EXTENDS DaemonLifecycle

CONSTANTS d1, d2, u1, u2
=============================================================================
