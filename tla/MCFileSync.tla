------------------------------ MODULE MCFileSync ----------------------------
(***************************************************************************)
(* Small instances of FileSync for TLC.                                    *)
(***************************************************************************)
EXTENDS FileSync

CONSTANTS r1, r2

\* The first line of the first file is the newline of the boot.
InOrder   == <<{}, {r1}, {Garbage}, {r2}>>
TornLines == [n \in 1 .. 2 |-> {r1, Garbage, Bad}]

\* The keys of two positions of one file differ in the offset; those of these
\* instances are, by their bytes, in the order of the lines.
ByOffset(j, k) == j.fi < k.fi \/ (j.fi = k.fi /\ j.off < k.off)
=============================================================================
