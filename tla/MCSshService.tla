---------------------------- MODULE MCSshService ----------------------------
(***************************************************************************)
(* SshService on a small instance: the constants are in the configuration, *)
(* two calls of connect() and two sessions, so that two connections can    *)
(* belong to one session.                                                  *)
(***************************************************************************)
EXTENDS SshService
=============================================================================
