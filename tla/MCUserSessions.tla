--------------------------- MODULE MCUserSessions ---------------------------
(* Small instances of the terminal sessions for TLC. *)
EXTENDS UserSessions
=============================================================================
