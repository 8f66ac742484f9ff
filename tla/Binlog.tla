-------------------------------- MODULE Binlog ------------------------------
(***************************************************************************)
(* localBinlogManager of binlog/binlog.go and XBinlogMapManager of         *)
(* binlog/binlog_map.go: the binlog files of one server, written by Write  *)
(* under writeLock, the record counts kept in binlog.map, and what a boot  *)
(* makes of them after a crash.                                            *)
(*                                                                         *)
(* A Write is taken apart into the steps a crash or an I/O error can fall  *)
(* between: it opens or rolls the file, appends its records (one step per  *)
(* line, since a crash can cut the single write(2) anywhere), and stores   *)
(* the new count of the file in the map.                                   *)
(***************************************************************************)
EXTENDS BinlogFormat

CONSTANTS
    MaxSize,      \* MAX_BINLOG_SIZE
    MaxFiles,     \* files binlog.map has room for (1000)
    MaxBatch,     \* bound: records of one Write
    MaxWrites,    \* bound: calls of Write
    MaxRestarts,  \* bound: crashes and restarts
    MaxFaults     \* bound: failing system calls

ASSUME SizesAssumption == MaxSize \in Nat \ {0} /\ MaxFiles \in Nat \ {0}
ASSUME BoundsAssumption ==
    /\ MaxBatch \in Nat
    /\ MaxWrites \in Nat
    /\ MaxRestarts \in Nat
    /\ MaxFaults \in Nat

VARIABLES
    files,     \* files[i + 1]: the complete lines of the file of index i
    tail,      \* the digits after the last newline of the newest file
    count,     \* memMap and binlog.map: count[i + 1] is the entry of index i
    handle,    \* currentBinLogFile: "nil", "open" or "closed"
    size,      \* binlogSize
    cur,       \* currentIndex
    pc,        \* where the holder of writeLock is
    batch,     \* the records of the Write in progress
    written,   \* how many of them are complete lines
    acked,     \* history: the records Write returned nil for
    overlong,  \* binlog.map is longer than its MaxFiles entries
    writes, restarts, faults

vars == <<files, tail, count, handle, size, cur, pc, batch, written, acked,
          overlong, writes, restarts, faults>>

Feed == INSTANCE LogFeed WITH files <- files, cur <- cur

Batches == UNION {[1 .. n -> Record] : n \in 1 .. MaxBatch}

RangeOf(s) == {s[i] : i \in 1 .. Len(s)}

TypeOK ==
    /\ files \in Seq(Seq(Line))
    /\ files # <<>>
    /\ tail \in TailType
    /\ count \in [1 .. MaxFiles -> Nat]
    /\ handle \in {"nil", "open", "closed"}
    /\ size \in Nat
    /\ cur \in Nat
    /\ pc \in {"idle", "append", "count", "stuck", "dead"}
    /\ batch \in Seq(Record)
    /\ written \in Nat
    /\ acked \subseteq Record
    /\ overlong \in BOOLEAN
    /\ writes \in Nat /\ restarts \in Nat /\ faults \in Nat

\* The first boot: one file with the newline of TryFixBinlogFile, an empty map.
Init ==
    /\ files = << <<Skip>> >>
    /\ tail = Tail0
    /\ count = [i \in 1 .. MaxFiles |-> 0]
    /\ handle = "nil"
    /\ size = 0
    /\ cur = 0
    /\ pc = "idle"
    /\ batch = <<>>
    /\ written = 0
    /\ acked = {}
    /\ overlong = FALSE
    /\ writes = 0 /\ restarts = 0 /\ faults = 0

-----------------------------------------------------------------------------
(***************************************************************************)
(* getCurrentBinLogFile looks for the newest file among the MaxFiles names *)
(* it knows and takes it unless the map says that it is full; then create  *)
(* makes the first file that does not exist.                               *)
(***************************************************************************)
Latest == IF Len(files) <= MaxFiles THEN Len(files) ELSE MaxFiles

\* Mutant of LatestFull: one record too early.
LatestFullEarly == count[Latest] + 1 >= MaxSize

LatestFull == count[Latest] >= MaxSize

Fault ==
    /\ faults < MaxFaults
    /\ faults' = faults + 1

\* A caller enters Write and gets writeLock.
Enter(b) ==
    /\ pc = "idle"
    /\ writes < MaxWrites
    /\ writes' = writes + 1
    /\ pc' = "append"
    /\ batch' = b
    /\ written' = 0

\* Mutant of WriteHere: the size of the open file is not checked.
WriteHereAlways(b) ==
    /\ Enter(b)
    /\ handle = "open"
    /\ UNCHANGED <<files, tail, count, handle, size, cur, acked, overlong, restarts, faults>>

\* The file is open and has room.
WriteHere(b) ==
    /\ Enter(b)
    /\ handle = "open"
    /\ size < MaxSize
    /\ UNCHANGED <<files, tail, count, handle, size, cur, acked, overlong, restarts, faults>>

NeedsFile == handle = "nil" \/ (handle = "open" /\ size >= MaxSize)

\* No file is open, or the open one is full: the newest file is reopened.
WriteReopen(b) ==
    /\ Enter(b)
    /\ NeedsFile
    /\ ~LatestFull
    /\ handle' = "open"
    /\ size' = count[Latest]
    /\ cur' = Latest - 1
    /\ UNCHANGED <<files, tail, count, acked, overlong, restarts, faults>>

\* Mutant of WriteRoll: create returns i instead of i - 1.
WriteRollNextIndex(b) ==
    /\ Enter(b)
    /\ NeedsFile
    /\ LatestFull
    /\ files' = Append(files, <<>>)
    /\ tail' = Tail0
    /\ handle' = "open"
    /\ size' = 0
    /\ cur' = Len(files) + 1
    /\ UNCHANGED <<count, acked, overlong, restarts, faults>>

\* Mutant of WriteRoll: binlogSize is not reset for the new file.
WriteRollSameSize(b) ==
    /\ Enter(b)
    /\ NeedsFile
    /\ LatestFull
    /\ files' = Append(files, <<>>)
    /\ tail' = Tail0
    /\ handle' = "open"
    /\ cur' = Len(files)
    /\ UNCHANGED <<count, size, acked, overlong, restarts, faults>>

\* ... or a new file is created because the newest one is full.
WriteRoll(b) ==
    /\ Enter(b)
    /\ NeedsFile
    /\ LatestFull
    /\ files' = Append(files, <<>>)
    /\ tail' = Tail0
    /\ handle' = "open"
    /\ size' = 0
    /\ cur' = Len(files)
    /\ UNCHANGED <<count, acked, overlong, restarts, faults>>

(***************************************************************************)
(* Closing the full file or opening the next one fails and Write returns   *)
(* the error.  currentBinLogFile keeps the closed file: every later Write  *)
(* then fails in Close, which changes nothing, so there is no action for   *)
(* it.                                                                     *)
(***************************************************************************)
WriteOpenFails ==
    /\ pc = "idle"
    /\ NeedsFile
    /\ Fault
    /\ handle' = IF handle = "open" THEN "closed" ELSE handle
    /\ UNCHANGED <<files, tail, count, size, cur, pc, batch, written, acked, overlong,
                   writes, restarts>>

\* The next record of the batch and its newline reach the open file.
AppendRecord ==
    /\ pc = "append"
    /\ files' = [files EXCEPT ![cur + 1] = Append(@, Glued(tail, batch[written + 1]))]
    /\ tail' = Tail0
    /\ written' = written + 1
    /\ pc' = IF written + 1 = Len(batch) THEN "count" ELSE "append"
    /\ UNCHANGED <<count, handle, size, cur, batch, acked, overlong, writes, restarts, faults>>

\* The append fails with k digits of a record written; Write returns the error.
AppendFails(k) ==
    /\ pc = "append"
    /\ Fault
    /\ tail' = Torn(tail, batch[written + 1], k)
    /\ pc' = "idle"
    /\ UNCHANGED <<files, count, handle, size, cur, batch, written, acked, overlong,
                   writes, restarts>>

\* The whole batch counts as one; SetRecords stores the count; Write returns nil.
Count ==
    /\ pc = "count"
    /\ cur < MaxFiles
    /\ size' = size + 1
    /\ count' = [count EXCEPT ![cur + 1] = size + 1]
    /\ acked' = acked \cup RangeOf(batch)
    /\ pc' = "idle"
    /\ UNCHANGED <<files, tail, handle, cur, batch, written, overlong, writes, restarts,
                   faults>>

(***************************************************************************)
(* SetRecords fails.  Its deferred function calls initMapFile, which locks *)
(* the mutex SetRecords still holds: the call never returns, and neither   *)
(* does Write, which holds writeLock.                                      *)
(***************************************************************************)
CountFails ==
    /\ pc = "count"
    /\ Fault
    /\ size' = size + 1
    /\ pc' = "stuck"
    /\ UNCHANGED <<files, tail, count, handle, cur, batch, written, acked, overlong,
                   writes, restarts>>

\* Mutant of CountOverflows: memMap grows beyond the entries of the file.
CountGrows ==
    /\ pc = "count"
    /\ cur >= MaxFiles
    /\ count' = Append(count, size + 1)
    /\ pc' = "idle"
    /\ UNCHANGED <<files, tail, handle, size, cur, batch, written, acked, overlong, writes,
                   restarts, faults>>

(***************************************************************************)
(* The map has no entry for the file: SetRecords makes binlog.map longer   *)
(* and then indexes memMap out of range.  The panic ends the process, or,  *)
(* in the handler of an upload, only the request: the locks are released,  *)
(* and the next Write goes on.  No later boot accepts the map file.        *)
(***************************************************************************)
CountOverflows ==
    /\ pc = "count"
    /\ cur >= MaxFiles
    /\ size' = size + 1
    /\ overlong' = TRUE
    /\ pc' \in {"idle", "dead"}
    /\ UNCHANGED <<files, tail, count, handle, cur, batch, written, acked, writes,
                   restarts, faults>>

-----------------------------------------------------------------------------
(***************************************************************************)
(* The process stops anywhere, with k more digits of a record written when *)
(* it was appending, and NewXBinlogManager runs.  The map file is read     *)
(* back, nothing is open, and TryFixBinlogFile ends the newest file, or a  *)
(* new one when that is full, with a newline.                              *)
(***************************************************************************)
TailAtCrash(k) == IF pc = "append" THEN Torn(tail, batch[written + 1], k) ELSE tail

Reset(k) ==
    /\ ~overlong
    /\ pc = "append" \/ k = 0
    /\ restarts < MaxRestarts
    /\ restarts' = restarts + 1
    /\ handle' = "nil"
    /\ size' = 0
    /\ cur' = 0
    /\ pc' = "idle"
    /\ batch' = <<>>
    /\ written' = 0
    /\ UNCHANGED <<count, acked, overlong, writes>>

\* Mutant of RestartFix: no newline unless the last record is complete.
RestartFixWhole(k) ==
    /\ Reset(k)
    /\ ~LatestFull
    /\ IF TailAtCrash(k).len < EncLen
       THEN tail' = TailAtCrash(k) /\ UNCHANGED files
       ELSE /\ files' = [files EXCEPT ![Latest] = Append(@, Closed(TailAtCrash(k)))]
            /\ tail' = Tail0
    /\ UNCHANGED faults

RestartFix(k) ==
    /\ Reset(k)
    /\ ~LatestFull
    /\ files' = [files EXCEPT ![Latest] = Append(@, Closed(TailAtCrash(k)))]
    /\ tail' = Tail0
    /\ UNCHANGED faults

RestartRoll(k) ==
    /\ Reset(k)
    /\ LatestFull
    /\ files' = Append(files, <<Skip>>)
    /\ tail' = Tail0
    /\ UNCHANGED faults

\* TryFixBinlogFile fails and its error is dropped: the boot goes on.
RestartUnfixed(k) ==
    /\ Reset(k)
    /\ Fault
    /\ tail' = TailAtCrash(k)
    /\ UNCHANGED files

\* It fails after it created a new file.
RestartRollUnfixed(k) ==
    /\ Reset(k)
    /\ Fault
    /\ LatestFull
    /\ files' = Append(files, <<>>)
    /\ tail' = Tail0

Restart(k) ==
    RestartFix(k) \/ RestartRoll(k) \/ RestartUnfixed(k) \/ RestartRollUnfixed(k)

WriteOpen(b) == WriteHere(b) \/ WriteReopen(b) \/ WriteRoll(b)

WriterStep == AppendRecord \/ Count \/ CountOverflows

Next ==
    \/ \E b \in Batches : WriteOpen(b)
    \/ WriteOpenFails
    \/ WriterStep
    \/ \E k \in 0 .. EncLen : AppendFails(k)
    \/ CountFails
    \/ \E k \in 0 .. EncLen : Restart(k)

Spec == Init /\ [][Next]_vars
-----------------------------------------------------------------------------
(***************************************************************************)
(* Readers: the files only ever grow at the end of the newest one, the     *)
(* index that GetCurrentIndex returns is zero or that of the newest file,  *)
(* and it returns to zero at a restart only.                               *)
(***************************************************************************)
RefinesLogFeed == Feed!FeedSpec

(***************************************************************************)
(* Write appends to the newest file, although TryFixBinlogFile and other   *)
(* boots create files it did not open itself, and a full or closed file is *)
(* never appended to.                                                      *)
(***************************************************************************)
AppendsToNewest ==
    pc \in {"append", "count"} =>
        /\ handle = "open"
        /\ cur + 1 = Len(files)
        /\ size < MaxSize

(***************************************************************************)
(* A file is left for a new one only when binlog.map counts it as full:    *)
(* getCurrentBinLogFile never has a reason to return to an older file.     *)
(***************************************************************************)
SealedFull ==
    \A i \in 1 .. Len(files) - 1 : i <= MaxFiles => count[i] >= MaxSize

(***************************************************************************)
(* The counts of binlog.map never exceed the lines of the files, whatever  *)
(* crashes or fails between the append and SetRecords: no file is taken    *)
(* for full that is not, and a file that does not exist counts zero.       *)
(***************************************************************************)
CountNeverOver ==
    \A i \in 1 .. MaxFiles :
        IF i <= Len(files) THEN count[i] <= Len(files[i]) ELSE count[i] = 0

Readable == UNION {RangeOf(files[i]) : i \in 1 .. Len(files)}

\* The lines that decode to a record nobody wrote.
Phantoms ==
    {x \in (1 .. Len(files)) \X UNION {1 .. Len(files[i]) : i \in 1 .. Len(files)} :
        x[2] \in 1 .. Len(files[x[1]]) /\ files[x[1]][x[2]] = Garbage}

(***************************************************************************)
(* A failing system call costs one record and no more, and crashes alone   *)
(* cost none: each call that failed has at most one record that Write      *)
(* returned nil for become unreadable (glued to torn digits that were left *)
(* behind) or made up one that nobody wrote (of two torn ones).            *)
(***************************************************************************)
DamageBounded == Cardinality(acked \ Readable) + Cardinality(Phantoms) <= faults
=============================================================================
