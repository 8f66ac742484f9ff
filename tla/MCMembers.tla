------------------------------ MODULE MCMembers -----------------------------
(***************************************************************************)
(* Small instances of Members for TLC, and what the repository says of it  *)
(* that does not hold.                                                     *)
(***************************************************************************)
EXTENDS Members, TLC

CONSTANTS t1, n1, n2, a1, a2, b1, s1, s2, s3

\* One server that moves and changes its secret, and one that watches it.
Slots21 == (n1 :> 2) @@ (n2 :> 1)
First2  == (n1 :> [addr |-> a1, secret |-> s1]) @@ (n2 :> [addr |-> b1, secret |-> s3])
Moves   == (n1 :> {[addr |-> a1, secret |-> s2], [addr |-> a2, secret |-> s1]})
           @@ (n2 :> {[addr |-> b1, secret |-> s3]})

(***************************************************************************)
(* "allow 2 round failure synchronization" (instance_synchronizer.go:115): *)
(* a server that stays away longer is forgotten by every member that runs. *)
(***************************************************************************)
GoneForgotten ==
    \A m \in Watcher, n \in Node :
        (<>[](m \in up /\ n \notin up)) => <>[](known[m][n] = Unknown)
=============================================================================
