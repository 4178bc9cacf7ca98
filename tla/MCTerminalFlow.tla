--------------------------- MODULE MCTerminalFlow ---------------------------
(* TerminalFlow on a small instance; the configurations give the limits. *)
EXTENDS TerminalFlow
=============================================================================
