----------------------------- MODULE MCFileStore ----------------------------
(***************************************************************************)
(* Small instances of FileStore for TLC.                                   *)
(***************************************************************************)
EXTENDS FileStore, TLC

CONSTANTS u1, u2, d1, d2, whole, cut, here, there

\* A file of two bytes and what is left of it after one.
CutShort == (whole :> cut) @@ (cut :> cut)
Lengths  == (whole :> 2) @@ (cut :> 1)
Uploaded == {[content |-> whole, from |-> here, at |-> 1],
             [content |-> whole, from |-> here, at |-> 2]}
FromPeer == {[content |-> whole, from |-> there]}

Twins == Permutations({u1, u2}) \cup Permutations({d1, d2})
=============================================================================
