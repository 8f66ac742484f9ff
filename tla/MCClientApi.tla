----------------------------- MODULE MCClientApi ----------------------------
(***************************************************************************)
(* Small instances of ClientApi for TLC.                                   *)
(***************************************************************************)
EXTENDS ClientApi, TLC

CONSTANTS c1, c2, s1, s2, x1, x2, t1, i1, i2, none, g1

\* Two servers of the tracker, the second read only; two configured ones,
\* whose InstanceId is empty.
TwoAndTwo == (s1 :> i1) @@ (s2 :> i2) @@ (x1 :> none) @@ (x2 :> none)
OneGroup  == (s1 :> g1) @@ (s2 :> g1) @@ (x1 :> none) @@ (x2 :> none)
=============================================================================
