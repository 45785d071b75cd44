-------------------------- MODULE MCOrderExecution --------------------------
(***************************************************************************)
(* Small instances of OrderExecution: two login identities of the owner    *)
(* (or of an owner and a beta user) that trade in one account, and two     *)
(* orders that share a leg.                                                *)
(***************************************************************************)
EXTENDS OrderExecution, TLC

CONSTANTS owner, beta, acct, condorA, condorB, legP, legQ, legR

MCAccountOf == [s \in Scopes |-> acct]
MCLegs == [o \in Orders |-> IF o = condorA THEN {legP, legQ} ELSE {legQ, legR}]

Symmetry == Permutations(Requests) \cup Permutations(Reviews)
=============================================================================
