-------------------------- MODULE MCAuthentication --------------------------
(* Authentication on a small instance: limits of 3 so that each is reached. *)
EXTENDS Authentication
=============================================================================
