------------------------------ MODULE BinlogSync ----------------------------
(***************************************************************************)
(* Binlog synchronization in a group of storage servers: watch and the     *)
(* saver timer of svc/binlog_synchronizer.go, syncBinlogHandler and the    *)
(* end of uploadFileHandler of svc/storage_tcp_handler.go, Contains, Add   *)
(* and DoIfNotExist of svc/dataset.go.                                     *)
(*                                                                         *)
(* A server watches the members it has heard of; watching never ends, for  *)
(* FilterInstances never forgets an instance.  Who watches whom is a       *)
(* constant here: all other members, or some of them before SyncInstances  *)
(* has made all known.  A watcher copies the records its server does not   *)
(* know into the binlog and the dataset of that server.  Lines of binlogs  *)
(* are intact records here, and a crash does not cut a Write: see Binlog.  *)
(***************************************************************************)
EXTENDS Naturals, Sequences, FiniteSets, Functions

CONSTANTS
    Node,         \* the storage servers of the group
    Record,       \* fileIds
    Watches,      \* pairs <<n, m>>: n watches m
    Src,          \* Src[r]: the server r is uploaded to (SourceInstance)
    FetchSize,    \* records of one answer (30)
    MaxFiles,     \* bound: binlog files of a server
    MaxLog,       \* bound: records of one file
    MaxRestarts,  \* bound: restarts
    MaxFaults     \* bound: failing calls

ASSUME SyncAssumption ==
    /\ Src \in [Record -> Node]
    /\ Watches \subseteq {e \in Node \X Node : e[1] # e[2]}
    /\ FetchSize \in Nat \ {0}

VARIABLES
    log,     \* log[n]: the binlog files of n, sequences of records
    cur,     \* cur[n]: GetCurrentIndex of n
    data,    \* data[n]: dataset of n
    adding,  \* uploads that are in the binlog of their server but not its dataset
    state,   \* state[n][m]: synchronizationState of n for m
    saved,   \* saved[n][m]: the same in the config map
    dirty,   \* dirty[n]: some synchronizationFlag of n is positive
    w,       \* w[n][m]: the watcher of n for m
    late,    \* history: <<n, m, i, q>>, line q of file i of m and the file
             \* after it came within one SyncBinlog call of n to m
    missed,  \* history: missed[n], records whose Write failed on n
    restarts, faults

vars == <<log, cur, data, adding, state, saved, dirty, w, late, missed, restarts, faults>>

Position == [fi : Nat, off : Nat]
Start    == [fi |-> 0, off |-> 0]

(***************************************************************************)
(* A watcher: to is the position of the answer, logs the records in it and *)
(* then those to be written, empty says that the answer had none, failed   *)
(* that some record could not be looked up or added.                       *)
(***************************************************************************)
Idle == [pc |-> "idle", to |-> Start, logs |-> <<>>, empty |-> FALSE, failed |-> FALSE]

WatcherState ==
    [pc : {"idle", "again", "served", "write", "add", "advance", "index"},
     to : Position, logs : Seq(Record), empty : BOOLEAN, failed : BOOLEAN]

TypeOK ==
    /\ log \in [Node -> Seq(Seq(Record))]
    /\ cur \in [Node -> Nat] /\ \A n \in Node : cur[n] < Len(log[n])
    /\ data \in [Node -> SUBSET Record]
    /\ adding \subseteq Record
    /\ state \in [Node -> [Node -> Position]]
    /\ saved \in [Node -> [Node -> Position]]
    /\ dirty \in [Node -> BOOLEAN]
    /\ w \in [Node -> [Node -> WatcherState]]
    /\ late \subseteq (Node \X Node \X Nat \X Nat)
    /\ missed \in [Node -> SUBSET Record]
    /\ restarts \in Nat /\ faults \in Nat

Init ==
    /\ log = [n \in Node |-> << <<>> >>]
    /\ cur = [n \in Node |-> 0]
    /\ data = [n \in Node |-> {}]
    /\ adding = {}
    /\ state = [n \in Node |-> [m \in Node |-> Start]]
    /\ saved = state
    /\ dirty = [n \in Node |-> FALSE]
    /\ w = [n \in Node |-> [m \in Node |-> Idle]]
    /\ late = {}
    /\ missed = [n \in Node |-> {}]
    /\ restarts = 0 /\ faults = 0

RangeOf(s) == {s[i] : i \in 1 .. Len(s)}
Logged(n)  == UNION {RangeOf(log[n][i]) : i \in 1 .. Len(log[n])}

Fault ==
    /\ faults < MaxFaults
    /\ faults' = faults + 1

-----------------------------------------------------------------------------
\* The watcher of n for m was told that the newest file of m has nothing more
\* for it, and m has not yet asked for the current index.
AtItsEnd(n, m) ==
    /\ w[n][m].pc = "served" /\ w[n][m].empty
    /\ w[n][m].to.fi + 1 = Len(log[m])

\* The newest file of m is about to be followed by another one: it has lines
\* that such a watcher has not seen.
Unseen(m) ==
    UNION {{<<n, m, Len(log[m]), q>> : q \in w[n][m].to.off + 1 .. Len(log[m][Len(log[m])])} :
           n \in {x \in Node : AtItsEnd(x, m)}}

\* Records at the end of the newest file of n.
Extend(n, recs) ==
    /\ Len(log[n][Len(log[n])]) + Len(recs) <= MaxLog
    /\ log' = [log EXCEPT ![n][Len(log[n])] = @ \o recs]
    /\ cur' = [cur EXCEPT ![n] = Len(log[n]) - 1]
    /\ UNCHANGED late

\* Mutant of WriteLog: the index of a new file is one too high.
WriteLogIndexHigh(n, recs) ==
    \/ Extend(n, recs)
    \/ /\ log[n][Len(log[n])] # <<>>
       /\ Len(log[n]) < MaxFiles
       /\ log' = [log EXCEPT ![n] = Append(@, recs)]
       /\ cur' = [cur EXCEPT ![n] = Len(log[n]) + 1]
       /\ late' = late \cup Unseen(n)

\* Write(recs...) of server n: into its newest file, or a new one when full.
WriteLog(n, recs) ==
    \/ Extend(n, recs)
    \/ /\ log[n][Len(log[n])] # <<>>
       /\ Len(log[n]) < MaxFiles
       /\ log' = [log EXCEPT ![n] = Append(@, recs)]
       /\ cur' = [cur EXCEPT ![n] = Len(log[n])]
       /\ late' = late \cup Unseen(n)

\* Mutant of UploadWrite: the dataset first, the binlog when that is done.
UploadDatasetFirst(r) ==
    /\ \A n \in Node : r \notin Logged(n) \cup data[n]
    /\ data' = [data EXCEPT ![Src[r]] = @ \cup {r}]
    /\ adding' = adding \cup {r}
    /\ UNCHANGED <<log, cur, state, saved, dirty, w, late, missed, restarts, faults>>

\* uploadFileHandler: the binlog first ...
UploadWrite(r) ==
    /\ \A n \in Node : r \notin Logged(n) \cup data[n]
    /\ WriteLog(Src[r], <<r>>)
    /\ adding' = adding \cup {r}
    /\ UNCHANGED <<data, state, saved, dirty, w, missed, restarts, faults>>

\* ... then the dataset.  When that fails the client gets an error.
UploadAdd(r) ==
    /\ r \in adding
    /\ adding' = adding \ {r}
    /\ \/ data' = [data EXCEPT ![Src[r]] = @ \cup {r}] /\ UNCHANGED faults
       \/ Fault /\ UNCHANGED data
    /\ UNCHANGED <<log, cur, state, saved, dirty, w, late, missed, restarts>>

-----------------------------------------------------------------------------
Set(n, m, s) == w' = [w EXCEPT ![n][m] = s]

\* Mutant of Fetch: the record at the offset is left out of the answer.
FetchAfterNext(n, m) ==
    LET from == state[n][m]
        file == log[m][from.fi + 1]
        end  == IF from.off + FetchSize <= Len(file) THEN from.off + FetchSize
                ELSE Len(file)
        logs == SubSeq(file, from.off + 2, end)
    IN  /\ w[n][m].pc \in {"idle", "again"}
        /\ Set(n, m, [Idle EXCEPT !.pc = "served", !.logs = logs,
                                  !.to = [fi |-> from.fi, off |-> end],
                                  !.empty = (logs = <<>>)])
        /\ UNCHANGED <<log, cur, data, adding, state, saved, dirty, late, missed, restarts, faults>>

\* SyncBinlog(config): server m reads up to FetchSize records from there.
Fetch(n, m) ==
    LET from == state[n][m]
        file == log[m][from.fi + 1]
        end  == IF from.off + FetchSize <= Len(file) THEN from.off + FetchSize
                ELSE Len(file)
        logs == SubSeq(file, from.off + 1, end)
    IN  /\ w[n][m].pc \in {"idle", "again"}
        /\ Set(n, m, [Idle EXCEPT !.pc = "served", !.logs = logs,
                                  !.to = [fi |-> from.fi, off |-> end],
                                  !.empty = (logs = <<>>)])
        /\ UNCHANGED <<log, cur, data, adding, state, saved, dirty, late, missed, restarts, faults>>

\* The one list of the numbers in I from the smallest to the greatest.
InOrder(I) ==
    {f \in Bijection(1 .. Cardinality(I), I) :
        \A i \in 2 .. Cardinality(I) : f[i - 1] < f[i]}

(***************************************************************************)
(* The rest of the handler, which asks GetCurrentIndex only now, and the   *)
(* watcher up to the binlog: an answer with the position it asked for      *)
(* ends the round; otherwise it keeps the records of other servers that    *)
(* DoIfNotExist does not find in its dataset.  unknown is a record whose   *)
(* lookup fails.                                                           *)
(***************************************************************************)
Answered(n, m, unknown) ==
    LET s  == w[n][m]
        to == IF cur[m] > s.to.fi /\ s.empty
              THEN [fi |-> s.to.fi + 1, off |-> 0] ELSE s.to
        wanted == {i \in 1 .. Len(s.logs) :
                      Src[s.logs[i]] # n /\ s.logs[i] \notin data[n] \cup unknown}
    IN  /\ s.pc = "served"
        /\ unknown \subseteq RangeOf(s.logs)
        /\ IF unknown = {} THEN UNCHANGED faults ELSE Fault
        /\ \E f \in InOrder(wanted) :
              Set(n, m, IF to = state[n][m] THEN Idle
                        ELSE [s EXCEPT !.pc = IF wanted = {} THEN "advance" ELSE "write",
                                       !.to = to,
                                       !.logs = [i \in 1 .. Cardinality(wanted) |->
                                                    s.logs[f[i]]],
                                       !.failed = (unknown # {})])
        /\ UNCHANGED <<log, cur, data, adding, state, saved, dirty, late, missed, restarts>>

\* The call fails: no connection, no answer, or an error for an answer.
FetchFails(n, m) ==
    /\ w[n][m].pc = "served"
    /\ Fault
    /\ Set(n, m, Idle)
    /\ UNCHANGED <<log, cur, data, adding, state, saved, dirty, late, missed, restarts>>

\* Write(list...): an error, after k records or none, is only logged.
WriteBinlog(n, m) ==
    LET logs == w[n][m].logs
        Missing(k) == missed' = [missed EXCEPT ![n] = @ \cup
                                    RangeOf(SubSeq(logs, k + 1, Len(logs)))]
    IN  /\ w[n][m].pc = "write"
        /\ \/ WriteLog(n, logs) /\ UNCHANGED <<missed, faults>>
           \/ Fault /\ Missing(0) /\ UNCHANGED <<log, cur, late>>
           \/ \E k \in 1 .. Len(logs) - 1 :
                  Fault /\ Missing(k) /\ WriteLog(n, SubSeq(logs, 1, k))
        /\ Set(n, m, [w[n][m] EXCEPT !.pc = "add"])
        /\ UNCHANGED <<data, adding, state, saved, dirty, restarts>>

\* Mutant of AddDataset: a failing Add is not counted.
AddDatasetUncounted(n, m, lost) ==
    /\ w[n][m].pc = "add"
    /\ lost \subseteq RangeOf(w[n][m].logs)
    /\ IF lost = {} THEN UNCHANGED faults ELSE Fault
    /\ data' = [data EXCEPT ![n] = @ \cup (RangeOf(w[n][m].logs) \ lost)]
    /\ Set(n, m, [w[n][m] EXCEPT !.pc = "advance"])
    /\ UNCHANGED <<log, cur, adding, state, saved, dirty, late, missed, restarts>>

\* Add for each record; lost is a record it fails for.
AddDataset(n, m, lost) ==
    /\ w[n][m].pc = "add"
    /\ lost \subseteq RangeOf(w[n][m].logs)
    /\ IF lost = {} THEN UNCHANGED faults ELSE Fault
    /\ data' = [data EXCEPT ![n] = @ \cup (RangeOf(w[n][m].logs) \ lost)]
    /\ Set(n, m, [w[n][m] EXCEPT !.pc = "advance", !.failed = @ \/ lost # {}])
    /\ UNCHANGED <<log, cur, adding, state, saved, dirty, late, missed, restarts>>

\* After a failure the round ends; otherwise the offset is stored ...
AdvanceOffset(n, m) ==
    /\ w[n][m].pc = "advance"
    /\ IF w[n][m].failed
       THEN Set(n, m, Idle) /\ UNCHANGED state
       ELSE /\ state' = [state EXCEPT ![n][m].off = w[n][m].to.off]
            /\ Set(n, m, [w[n][m] EXCEPT !.pc = "index"])
    /\ UNCHANGED <<log, cur, data, adding, saved, dirty, late, missed, restarts, faults>>

\* Mutant of AdvanceIndex: the change is not flagged for the saver.
AdvanceIndexUnflagged(n, m) ==
    /\ w[n][m].pc = "index"
    /\ state' = [state EXCEPT ![n][m].fi = w[n][m].to.fi]
    /\ Set(n, m, IF w[n][m].empty THEN Idle ELSE [Idle EXCEPT !.pc = "again"])
    /\ UNCHANGED <<log, cur, data, adding, saved, dirty, late, missed, restarts, faults>>

\* ... and then, without a lock, the file index.
AdvanceIndex(n, m) ==
    /\ w[n][m].pc = "index"
    /\ state' = [state EXCEPT ![n][m].fi = w[n][m].to.fi]
    /\ dirty' = [dirty EXCEPT ![n] = TRUE]
    /\ Set(n, m, IF w[n][m].empty THEN Idle ELSE [Idle EXCEPT !.pc = "again"])
    /\ UNCHANGED <<log, cur, data, adding, saved, late, missed, restarts, faults>>

WatcherStep(n, m) ==
    \/ Fetch(n, m)
    \/ \E unknown \in {{}} \cup {{r} : r \in Record} : Answered(n, m, unknown)
    \/ FetchFails(n, m)
    \/ WriteBinlog(n, m)
    \/ \E lost \in {{}} \cup {{r} : r \in Record} : AddDataset(n, m, lost)
    \/ AdvanceOffset(n, m)
    \/ AdvanceIndex(n, m)

(***************************************************************************)
(* The saver timer: all positions as they are at this moment.  The flags   *)
(* are cleared even when the update failed.                                *)
(***************************************************************************)
SaveState(n) ==
    /\ dirty[n]
    /\ \/ saved' = [saved EXCEPT ![n] = state[n]] /\ UNCHANGED faults
       \/ Fault /\ UNCHANGED saved
    /\ dirty' = [dirty EXCEPT ![n] = FALSE]
    /\ UNCHANGED <<log, cur, data, adding, state, w, late, missed, restarts>>

\* Server n restarts; calls the others have under way to it fail.
Restart(n) ==
    /\ restarts < MaxRestarts
    /\ restarts' = restarts + 1
    /\ cur' = [cur EXCEPT ![n] = 0]
    /\ adding' = {r \in adding : Src[r] # n}
    /\ state' = [state EXCEPT ![n] = saved[n]]
    /\ dirty' = [dirty EXCEPT ![n] = FALSE]
    /\ w' = [x \in Node |-> [m \in Node |->
               IF x = n \/ (m = n /\ w[x][m].pc = "served") THEN Idle ELSE w[x][m]]]
    /\ UNCHANGED <<log, data, saved, late, missed, faults>>

Next ==
    \/ \E r \in Record : UploadWrite(r) \/ UploadAdd(r)
    \/ \E e \in Watches : WatcherStep(e[1], e[2])
    \/ \E n \in Node : SaveState(n) \/ Restart(n)

Spec == Init /\ [][Next]_vars

\* Timers keep firing and the steps of a round go on.
FairSpec ==
    /\ Spec
    /\ \A n \in Node : WF_vars(SaveState(n))
    /\ \A e \in Watches : WF_vars(WatcherStep(e[1], e[2]))
-----------------------------------------------------------------------------
\* n has what it wants of the record at line q of file i of m.
Has(n, m, i, q) == LET r == log[m][i][q] IN Src[r] = n \/ r \in data[n]

\* p is a place in the binlog of m, and n has what it wants from before it.
Known(n, m, p) ==
    /\ p.fi < Len(log[m])
    /\ p.off <= Len(log[m][p.fi + 1])
    /\ \A q \in 1 .. p.off : Has(n, m, p.fi + 1, q)
    /\ \A i \in 1 .. p.fi : \A q \in 1 .. Len(log[m][i]) :
          Has(n, m, i, q) \/ <<n, m, i, q>> \in late

(***************************************************************************)
(* A position, in memory or saved, never runs ahead of the dataset: not    *)
(* while lookups, writes and adds fail, and not when the saver or a        *)
(* restart comes between the two assignments that move it to the next      *)
(* file.  Excepted is what the code does pass over: records written, and   *)
(* followed by a new file, between the two questions of one SyncBinlog,    *)
(* what is left in the file and which file is the current one.             *)
(***************************************************************************)
PositionsSound ==
    \A e \in Watches :
        /\ Known(e[1], e[2], state[e[1]][e[2]])
        /\ Known(e[1], e[2], saved[e[1]][e[2]])

(***************************************************************************)
(* A record in the dataset of a server is in its binlog, so that the       *)
(* tracker and the other servers hear of it from there, at whatever step a *)
(* server is restarted.  Excepted are the records of a Write of a watcher  *)
(* that failed: the code adds them to the dataset all the same.            *)
(***************************************************************************)
DatasetInLog == \A n \in Node : data[n] \subseteq Logged(n) \cup missed[n]

(***************************************************************************)
(* A record in the only binlog file of any server gets into the datasets   *)
(* of all that watch it, and so on to those that watch them.               *)
(***************************************************************************)
Converges ==
    \A e \in Watches : \A r \in {x \in Record : Src[x] # e[1]} :
        r \in Logged(e[2]) ~> r \in data[e[1]]

(***************************************************************************)
(* Once nothing moves any more, the saved positions are the reached ones:  *)
(* the flag raised after a move survives a save that ran before it.        *)
(***************************************************************************)
PositionsSaved == <>[](saved = state)
=============================================================================
