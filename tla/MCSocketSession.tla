--------------------------- MODULE MCSocketSession ---------------------------
(***************************************************************************)
(* SocketSession on a small instance; the constants are in the             *)
(* configuration.  The two sockets are interchangeable, and so are the     *)
(* users, the sessions and the calls of connect().                         *)
(***************************************************************************)
EXTENDS SocketSession, TLC

SocketSymmetry ==
    Permutations(Conns) \cup Permutations(Sessions) \cup Permutations(Users)
        \cup Permutations(Sockets)
=============================================================================
