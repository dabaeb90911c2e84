------------------------------ MODULE MCFiles -------------------------------
(***************************************************************************)
(* The file services on a small instance: two requests at a time, one name *)
(* on the remote host, a file of three units in chunks of two, one         *)
(* transfer per session and three chunk messages per upload.               *)
(***************************************************************************)
EXTENDS FileService
=============================================================================
