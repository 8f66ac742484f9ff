------------------------------ MODULE LeaseTable ----------------------------
(***************************************************************************)
(* What the registry of a tracker (reg/registry.go) promises to those who  *)
(* read it: a table of leases.  A key is leased to one holder at a time.   *)
(* The holder may renew its lease, but another holder gets the key only    *)
(* after the lease was given back and then reclaimed, or after a restart,  *)
(* which forgets everything.                                               *)
(***************************************************************************)
CONSTANTS
    Key,       \* what is leased: the InstanceIds of every tracker
    Holder,    \* who may hold it: the addresses of servers
    Group      \* the sets of keys that are forgotten together: one per tracker

VARIABLE table \* table[k]: its lease, or None

Lease == [holder : Holder, held : BOOLEAN]
None  == [held |-> FALSE]

LeaseInit == table = [k \in Key |-> None]

\* A lease is given to a holder, or renewed by it.
Grant(k, h) ==
    /\ table[k] = None \/ table[k].holder = h
    /\ table' = [table EXCEPT ![k] = [holder |-> h, held |-> TRUE]]

\* A lease is given back, but its key is not available yet.
Release(k) ==
    /\ table[k] # None
    /\ table' = [table EXCEPT ![k] = [holder |-> table[k].holder, held |-> FALSE]]

\* Leases that were given back are reclaimed.
Reclaim(K) ==
    /\ \A k \in K : ~table[k].held
    /\ table' = [k \in Key |-> IF k \in K THEN None ELSE table[k]]

\* A restart forgets the leases of the keys K, held or not.
Forget(K) == table' = [k \in Key |-> IF k \in K THEN None ELSE table[k]]

LeaseNext ==
    \/ \E k \in Key : Release(k) \/ \E h \in Holder : Grant(k, h)
    \/ \E K \in SUBSET Key : Reclaim(K)
    \/ \E K \in Group : Forget(K)

LeaseSpec == LeaseInit /\ [][LeaseNext]_table
=============================================================================
