--------------------------- MODULE ConnectionLease ---------------------------
(***************************************************************************)
(* What the connection service promises its callers, per call of           *)
(* connect(): the call is answered once, a connection is lent out only as  *)
(* that answer, and a connection that was refused or given back is never   *)
(* lent out again.                                                         *)
(***************************************************************************)
CONSTANT Conns

VARIABLE lease   \* [Conns -> {"idle", "asked", "lent", "refused", "returned"}]

LeaseInit == lease = [c \in Conns |-> "idle"]

Ask(c)    == lease[c] = "idle"  /\ lease' = [lease EXCEPT ![c] = "asked"]
Lend(c)   == lease[c] = "asked" /\ lease' = [lease EXCEPT ![c] = "lent"]
Refuse(c) == lease[c] = "asked" /\ lease' = [lease EXCEPT ![c] = "refused"]

\* Several connections may be given back at once.
Return(C) ==
    /\ \A c \in C : lease[c] = "lent"
    /\ lease' = [c \in Conns |-> IF c \in C THEN "returned" ELSE lease[c]]

LeaseNext ==
    \/ \E c \in Conns : Ask(c) \/ Lend(c) \/ Refuse(c)
    \/ \E C \in SUBSET Conns : Return(C)

\* Every call is answered.
LeaseFairness == \A c \in Conns : WF_lease(Lend(c) \/ Refuse(c))

LeaseSafety == LeaseInit /\ [][LeaseNext]_lease
LeaseSpec == LeaseSafety /\ LeaseFairness
=============================================================================
