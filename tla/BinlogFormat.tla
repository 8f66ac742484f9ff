---------------------------- MODULE BinlogFormat ----------------------------
(***************************************************************************)
(* The text format of one binlog file, at the grain of whole lines.        *)
(*                                                                         *)
(* A record is LOCAL_BINLOG_SIZE bytes, written as EncLen base64 digits    *)
(* and a newline (136 digits in the code).  A file is the sequence of its  *)
(* complete lines plus a tail: the digits after the last newline.  A line  *)
(* is either a record, or what a reader makes of anything else:            *)
(*                                                                         *)
(*   "skip"     decodes, or is empty, but is not LOCAL_BINLOG_SIZE bytes;  *)
(*   "bad"      does not decode: base64 has no text of 4k + 1 digits;      *)
(*   "garbage"  decodes to LOCAL_BINLOG_SIZE bytes nobody ever wrote: the  *)
(*              digits of two torn records that add up to one record.      *)
(*                                                                         *)
(* Offsets are counted in complete lines instead of bytes: Read only ever  *)
(* returns offsets at the end of a line.                                   *)
(***************************************************************************)
EXTENDS Naturals, Sequences, FiniteSets

CONSTANTS
    Record,    \* the binlog records
    EncLen     \* base64 digits of one record

Skip    == "skip"
Bad     == "bad"
Garbage == "garbage"

ASSUME EncLenAssumption == EncLen \in Nat \ {0} /\ EncLen % 4 = 0
ASSUME RecordAssumption == Record \cap {Skip, Bad, Garbage} = {}

Line == Record \cup {Skip, Bad, Garbage}

\* What Read hands to its caller: anything of the length of a record.
Valid == Record \cup {Garbage}

(***************************************************************************)
(* The digits after the last newline.  rec is the record they are a prefix *)
(* of, Garbage when they come from two records.                            *)
(***************************************************************************)
Tail0 == [len |-> 0, rec |-> Garbage]

TailType == [len : Nat, rec : Valid]

\* The line that n digits make when they are not the digits of one record.
Class(n) == IF n % 4 = 1 THEN Bad ELSE Skip

\* The tail after k more digits, the first k of record r.
Torn(t, r, k) ==
    IF k = 0 THEN t
    ELSE [len |-> t.len + k, rec |-> IF t.len = 0 THEN r ELSE Garbage]

\* The line a newline makes of the tail.
Closed(t) == IF t.len = EncLen THEN t.rec ELSE Class(t.len)

\* The line that record r and its newline make after the tail.
Glued(t, r) == IF t.len = 0 THEN r ELSE Class(t.len + EncLen)

(***************************************************************************)
(* Read(fileIndex, offset, fetchLine) on the complete lines of one file.   *)
(* It stops at the end of the file or at the line of the n-th valid        *)
(* record; a line that does not decode makes it return the offset it was   *)
(* given and an error.                                                     *)
(***************************************************************************)
ValidIn(file, from, to) == {p \in from + 1 .. to : file[p] \in Valid}

\* A line is read while fewer than n valid ones came before it.
LinesRead(file, off, n) ==
    {p \in off + 1 .. Len(file) : Cardinality(ValidIn(file, off, p - 1)) < n}

ReadEnd(file, off, n) == off + Cardinality(LinesRead(file, off, n))

ReadFails(file, off, n) == \E p \in LinesRead(file, off, n) : file[p] = Bad
=============================================================================
