------------------------- MODULE MCSessionLifecycle -------------------------
(* SessionLifecycle for TLC.  The systems are model values; each             *)
(* configuration says how many there are and what the user does.             *)
EXTENDS SessionLifecycle
=============================================================================
