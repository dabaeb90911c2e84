---------------------------- MODULE MCTerminalFlow ----------------------------
(* One terminal and one command; the bounds on the output are in the config. *)
EXTENDS TerminalRequests
===============================================================================
