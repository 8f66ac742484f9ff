----------------------------- MODULE MCBinlogSync ---------------------------
(***************************************************************************)
(* Small instances of BinlogSync for TLC.                                  *)
(***************************************************************************)
EXTENDS BinlogSync, TLC

CONSTANTS n1, n2, r1, r2

Nodes2 == {n1, n2}

\* Both members watch each other; or n1 has not heard of n2 yet.
Mutual == {<<n1, n2>>, <<n2, n1>>}
OneWay == {<<n2, n1>>}

BothHome == r1 :> n1 @@ r2 :> n1
OneEach  == r1 :> n1 @@ r2 :> n2
=============================================================================
