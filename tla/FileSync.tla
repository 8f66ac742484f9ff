------------------------------- MODULE FileSync -----------------------------
(***************************************************************************)
(* svc/file_synchronizer.go: a storage server downloads the files that its *)
(* binlog names.  Two timer goroutines do it: the first follows the binlog *)
(* from a persisted position and notes the positions of batches in which a *)
(* file failed; the second retries the noted positions.  They share        *)
(* downloadingFiles, the files on disk and the config map.                 *)
(*                                                                         *)
(* The binlog is LogFeed, as in BinlogPush.  A record stands for its file. *)
(* The digest, the temporary file and the reference count of a download    *)
(* are left out, and so is the pause of limit().                           *)
(***************************************************************************)
EXTENDS LogFeed, FiniteSetsExt

CONSTANTS
    Fetch,        \* records of one batch (50)
    KeyBefore(_, _),  \* order of the noted positions: their JSON, by bytes
    Lines,        \* bound: Lines[n], what is appended as line n of a file
    MaxFiles,     \* bound: binlog files
    MaxLines,     \* bound: lines of one file
    MaxReboots,   \* bound: restarts
    MaxFaults     \* bound: failing downloads, lookups and saves, restarts too

ASSUME FileSyncAssumption ==
    /\ MaxLines \in Nat /\ Lines \in [1 .. MaxLines -> SUBSET Line]
    /\ Fetch \in Nat \ {0}

VARIABLES
    present,      \* the files on disk
    data,         \* the dataset
    pos,          \* downloadBinlogPos in the config map
    failedPos,    \* the bucket of failed positions
    downloading,  \* downloadingFiles
    loop,         \* the locals of the two goroutines
    temp,         \* positions the retry goroutine still has to visit
    offset,       \* where in the noted positions it goes on, below 0 is as 0
    donePos,      \* positions it found finished, since the boot
    doneLen,      \* the length of that list: it has a position more than once
    late,         \* history: lines <<file, line>> that came, and the file after
                  \* theirs, while the first goroutine made up its mind
    dropped,      \* history: positions removed from failedPos
    skipped,      \* history: lines whose syncFile succeeded without the file
    reboots, faults

retryVars == <<temp, offset, donePos, doneLen>>
syncVars == <<present, data, pos, failedPos, downloading, loop, retryVars, late,
              dropped, skipped, reboots, faults>>
vars == <<files, cur, syncVars>>

Loop == {"sync", "retry"}

Position == [fi : Nat, off : Nat]
Start    == [fi |-> 0, off |-> 0]

\* from and to: the positions before and after the batch, which ends at line
\* end; at: the last line that is done with; failed: some file failed.
LoopState ==
    [pc : {"idle", "load", "pick", "read", "check", "file", "missing", "transfer"},
     from : Position, to : Position, end : Nat, at : Nat, failed : BOOLEAN]

Idle == [pc |-> "idle", from |-> Start, to |-> Start, end |-> 0, at |-> 0,
         failed |-> FALSE]

TypeOK ==
    /\ FeedTypeOK
    /\ present \subseteq Record /\ data \subseteq Valid
    /\ pos \in Position
    /\ failedPos \subseteq Position
    /\ downloading \subseteq Record
    /\ loop \in [Loop -> LoopState]
    /\ temp \subseteq Position /\ donePos \subseteq Position /\ dropped \subseteq Position
    /\ offset \in Nat /\ doneLen \in Nat
    /\ late \cup skipped \subseteq Nat \X Nat
    /\ reboots \in Nat /\ faults \in Nat

Init ==
    /\ FeedInit
    /\ present = {}
    /\ data = {}
    /\ pos = Start
    /\ failedPos = {}
    /\ downloading = {}
    /\ loop = [l \in Loop |-> Idle]
    /\ temp = {} /\ offset = 0 /\ donePos = {} /\ doneLen = 0
    /\ late = {} /\ dropped = {} /\ skipped = {}
    /\ reboots = 0 /\ faults = 0

Fault ==
    /\ faults + reboots < MaxFaults
    /\ faults' = faults + 1

-----------------------------------------------------------------------------
(***************************************************************************)
(* The same process writes the binlog: a line of an upload is written when *)
(* its file is stored, a line of the binlog synchronizer without the file. *)
(***************************************************************************)
LinesOfLast == Len(files[Len(files)])
Room == LinesOfLast < MaxLines

LogOf(l)   == files[loop[l].from.fi + 1]
BatchOf(l) == ValidIn(LogOf(l), loop[l].from.off, loop[l].end)

\* The first goroutine has read the newest file to its end and found nothing,
\* and has not yet asked for the current index.
AtItsEnd ==
    /\ loop["sync"].pc = "check"
    /\ loop["sync"].from.fi = Last
    /\ BatchOf("sync") = {}

\* The newest file is about to be followed by another one: it has records that
\* the goroutine has not seen.
Unseen ==
    {<<Last, q>> : q \in {x \in ValidIn(files[Len(files)], loop["sync"].end,
                                       Len(files[Len(files)])) : AtItsEnd}}

FeedStep ==
    \/ /\ Room
       /\ \E l \in Lines[LinesOfLast + 1] :
             /\ AppendLine(l)
             /\ present' \in {present, present \cup ({l} \cap Record)}
       /\ UNCHANGED <<data, pos, failedPos, downloading, loop, retryVars, late,
                      dropped, skipped, reboots, faults>>
    \/ OpenLast /\ UNCHANGED syncVars
    \/ /\ Len(files) < MaxFiles
       /\ Roll
       /\ late' = late \cup Unseen
       /\ UNCHANGED <<present, data, pos, failedPos, downloading, loop, retryVars,
                      dropped, skipped, reboots, faults>>

\* A record gets into the dataset after it is in the binlog.
AddDataset(r) ==
    /\ \E i \in 1 .. Len(files) : \E q \in 1 .. Len(files[i]) : files[i][q] = r
    /\ r \notin data
    /\ data' = data \cup {r}
    /\ UNCHANGED <<files, cur, present, pos, failedPos, downloading, loop, retryVars,
                   late, dropped, skipped, reboots, faults>>

\* The process restarts.
Restart ==
    /\ reboots < MaxReboots /\ faults + reboots < MaxFaults
    /\ reboots' = reboots + 1
    /\ \/ Room /\ RebootFix(Skip)
       \/ Len(files) < MaxFiles /\ RebootRoll(<<Skip>>)
       \/ RebootOnly
    /\ loop' = [l \in Loop |-> Idle]
    /\ downloading' = {}
    /\ temp' = {} /\ offset' = 0 /\ donePos' = {} /\ doneLen' = 0
    /\ UNCHANGED <<present, data, pos, failedPos, late, dropped, skipped, faults>>

-----------------------------------------------------------------------------
Set(l, s) == loop' = [loop EXCEPT ![l] = s]

\* Neither the binlog nor the bookkeeping of the retry goroutine changes.
LocalStep == UNCHANGED <<files, cur, data, retryVars, late, dropped, reboots>>

\* The timer fires, or the loop goes round, while there are group members.
SyncBegins ==
    /\ loop["sync"].pc = "idle"
    /\ Set("sync", [Idle EXCEPT !.pc = "read", !.from = pos])
    /\ LocalStep
    /\ UNCHANGED <<present, pos, failedPos, downloading, skipped, faults>>

\* The timer of the retry goroutine fires.
RetryBegins ==
    /\ loop["retry"].pc = "idle"
    /\ failedPos # {}
    /\ offset' = 0
    /\ Set("retry", [Idle EXCEPT !.pc = "load"])
    /\ UNCHANGED <<files, cur, data, present, pos, failedPos, downloading, temp, donePos,
                   doneLen, late, dropped, skipped, reboots, faults>>

(***************************************************************************)
(* The noted positions from the offset-th on, the first of them being 1,   *)
(* are loaded for a round; the round that finds none is the last.  Should  *)
(* the database fail, the goroutine waits for the timer.                   *)
(***************************************************************************)
Rank(k)   == Cardinality({j \in failedPos : j = k \/ KeyBefore(j, k)})
FromOffset == {k \in failedPos : Rank(k) >= offset}

RetryLoad ==
    /\ loop["retry"].pc = "load"
    /\ \/ /\ temp' = FromOffset
          /\ offset' = offset + Cardinality(FromOffset)
          /\ Set("retry", [Idle EXCEPT !.pc = IF FromOffset = {} THEN "idle" ELSE "pick"])
          /\ UNCHANGED faults
       \/ Fault /\ Set("retry", Idle) /\ UNCHANGED <<temp, offset>>
    /\ UNCHANGED <<files, cur, data, present, pos, failedPos, downloading, donePos,
                   doneLen, late, dropped, skipped, reboots>>

RetryPick(k) ==
    /\ loop["retry"].pc = "pick"
    /\ k \in temp /\ \A j \in temp \ {k} : ~KeyBefore(j, k)
    /\ temp' = temp \ {k}
    /\ Set("retry", [Idle EXCEPT !.pc = "read", !.from = k])
    /\ UNCHANGED <<files, cur, data, present, pos, failedPos, downloading, offset, donePos,
                   doneLen, late, dropped, skipped, reboots, faults>>

(***************************************************************************)
(* All of the round visited: the finished positions are removed, those of  *)
(* earlier rounds again, for donePos is never cleared, and offset goes     *)
(* down by its length, also when the update fails to commit.  Below 0, too *)
(* - all positions are loaded then, and how far below is not followed.     *)
(***************************************************************************)
RetryRemoves ==
    /\ loop["retry"].pc = "pick"
    /\ temp = {}
    /\ \/ /\ failedPos' = failedPos \ donePos
          /\ dropped' = dropped \cup (failedPos \cap donePos)
          /\ UNCHANGED faults
       \/ donePos # {} /\ Fault /\ UNCHANGED <<failedPos, dropped>>
    /\ offset' = IF offset > doneLen THEN offset - doneLen ELSE 0
    /\ Set("retry", [Idle EXCEPT !.pc = "load"])
    /\ UNCHANGED <<files, cur, data, present, pos, downloading, temp, donePos, doneLen,
                   late, skipped, reboots>>

-----------------------------------------------------------------------------
Todo(l)    == ValidIn(LogOf(l), loop[l].at, loop[l].end)
NextLine(l) == Min(Todo(l))
FileOf(l)  == LogOf(l)[NextLine(l)]

NoteDone ==
    /\ donePos' = donePos \cup {loop["retry"].from}
    /\ doneLen' = doneLen + 1

\* Read(fileIndex, offset, 50).  When it fails the batch is empty: the first
\* loop ends its round, the second one takes the position for finished.
ReadBatch(l) ==
    LET s     == loop[l]
        fails == ReadFails(LogOf(l), s.from.off, Fetch)
        end   == ReadEnd(LogOf(l), s.from.off, Fetch)
    IN  /\ s.pc = "read"
        /\ IF ~fails THEN Set(l, [s EXCEPT !.pc = "check", !.end = end, !.at = s.from.off])
           ELSE Set(l, [Idle EXCEPT !.pc = IF l = "sync" THEN "idle" ELSE "pick"])
        /\ IF fails /\ l = "retry" THEN NoteDone ELSE UNCHANGED <<donePos, doneLen>>
        /\ UNCHANGED <<files, cur, data, present, pos, failedPos, downloading, temp,
                       offset, late, dropped, skipped, reboots, faults>>

\* Mutant of CheckIndex: an empty batch is enough to go to the next file.
CheckIndexRolls(l) ==
    LET s == loop[l]
    IN  /\ s.pc = "check"
        /\ Set(l, [s EXCEPT !.pc = "file",
                            !.to = IF BatchOf(l) = {}
                                   THEN [fi |-> s.from.fi + 1, off |-> 0]
                                   ELSE [fi |-> s.from.fi, off |-> s.end]])
        /\ LocalStep
        /\ UNCHANGED <<present, pos, failedPos, downloading, skipped, faults>>

\* The position after the batch, by GetCurrentIndex as it is now.
CheckIndex(l) ==
    LET s == loop[l]
    IN  /\ s.pc = "check"
        /\ Set(l, [s EXCEPT !.pc = "file",
                            !.to = IF cur > s.from.fi /\ BatchOf(l) = {}
                                   THEN [fi |-> s.from.fi + 1, off |-> 0]
                                   ELSE [fi |-> s.from.fi, off |-> s.end]])
        /\ LocalStep
        /\ UNCHANGED <<present, pos, failedPos, downloading, skipped, faults>>

NextFile(l, ok) == Set(l, [loop[l] EXCEPT !.pc = "file", !.at = NextLine(l),
                                          !.failed = @ \/ ~ok])

AtFile(l) == loop[l].pc = "file" /\ Todo(l) # {}

\* syncFile: a file that is there is a success, an alias that does not parse
\* a failure.
SkipFile(l) ==
    /\ AtFile(l)
    /\ FileOf(l) \in present \cup {Garbage}
    /\ NextFile(l, FileOf(l) # Garbage)
    /\ LocalStep
    /\ UNCHANGED <<present, pos, failedPos, downloading, skipped, faults>>

\* Mutant of FindMissing: an alias that does not parse is looked for, too.
FindMissingUnparsed(l) ==
    /\ AtFile(l)
    /\ FileOf(l) \notin present
    /\ Set(l, [loop[l] EXCEPT !.pc = "missing"])
    /\ LocalStep
    /\ UNCHANGED <<present, pos, failedPos, downloading, skipped, faults>>

\* A file that is not there is asked of a server.  Nothing is locked from here
\* to its registration: it may come to be there in between.
FindMissing(l) ==
    /\ AtFile(l)
    /\ FileOf(l) \notin present \cup {Garbage}
    /\ Set(l, [loop[l] EXCEPT !.pc = "missing"])
    /\ LocalStep
    /\ UNCHANGED <<present, pos, failedPos, downloading, skipped, faults>>

(***************************************************************************)
(* Two cases count as a success although the file is not there: the other  *)
(* goroutine downloads it at the moment, or there are storage servers but  *)
(* none of this group, and the loop over the candidates is empty.          *)
(***************************************************************************)
PassOver(l) ==
    /\ \/ loop[l].pc = "missing" /\ FileOf(l) \in downloading /\ UNCHANGED faults
       \/ AtFile(l) /\ FileOf(l) \notin present \cup {Garbage} /\ Fault
    /\ skipped' = skipped \cup {<<loop[l].from.fi, NextLine(l)>>}
    /\ NextFile(l, TRUE)
    /\ LocalStep
    /\ UNCHANGED <<present, pos, failedPos, downloading>>

\* No storage server is known at all.
NoServer(l) ==
    /\ AtFile(l)
    /\ FileOf(l) \notin present \cup {Garbage}
    /\ Fault
    /\ NextFile(l, FALSE)
    /\ LocalStep
    /\ UNCHANGED <<present, pos, failedPos, downloading, skipped>>

\* Mutant of RegisterDownloadingFile: a file that is being downloaded is
\* registered again.
RegisterAgain(l) ==
    /\ loop[l].pc = "missing"
    /\ downloading' = downloading \cup {FileOf(l)}
    /\ Set(l, [loop[l] EXCEPT !.pc = "transfer"])
    /\ LocalStep
    /\ UNCHANGED <<present, pos, failedPos, skipped, faults>>

\* registerDownloadingFile, under its lock; whether the file is still missing
\* is not asked.
RegisterDownloadingFile(l) ==
    /\ loop[l].pc = "missing"
    /\ FileOf(l) \notin downloading
    /\ downloading' = downloading \cup {FileOf(l)}
    /\ Set(l, [loop[l] EXCEPT !.pc = "transfer"])
    /\ LocalStep
    /\ UNCHANGED <<present, pos, failedPos, skipped, faults>>

\* DownloadFrom succeeds: the file is moved to its place, or is there already.
Downloaded(l) ==
    /\ loop[l].pc = "transfer"
    /\ present' = present \cup {FileOf(l)}
    /\ downloading' = downloading \ {FileOf(l)}
    /\ NextFile(l, TRUE)
    /\ LocalStep
    /\ UNCHANGED <<pos, failedPos, skipped, faults>>

\* It fails: the next server is tried, or there is none left.
DownloadFails(l) ==
    /\ loop[l].pc = "transfer"
    /\ Fault
    /\ downloading' = downloading \ {FileOf(l)}
    /\ NextFile(l, FALSE) \/ Set(l, [loop[l] EXCEPT !.pc = "file"])
    /\ LocalStep
    /\ UNCHANGED <<present, pos, failedPos, skipped>>

BatchDone(l) == loop[l].pc = "file" /\ Todo(l) = {}

\* Mutants of SaveDownloadState: old is no copy of the position, and failures
\* are noted under the new one; failures are not noted.
SaveDownloadStateAliased ==
    LET s == loop["sync"]
    IN  /\ BatchDone("sync")
        /\ \/ /\ pos' = s.to
              /\ failedPos' = IF s.failed THEN failedPos \cup {s.to} ELSE failedPos
              /\ UNCHANGED faults
           \/ Fault /\ UNCHANGED <<pos, failedPos>>
        /\ Set("sync", Idle)
        /\ UNCHANGED <<files, cur, data, present, downloading, retryVars, late, dropped,
                       skipped, reboots>>

SaveDownloadStateOnly ==
    LET s == loop["sync"]
    IN  /\ BatchDone("sync")
        /\ \/ /\ pos' = s.to
              /\ UNCHANGED failedPos
              /\ UNCHANGED faults
           \/ Fault /\ UNCHANGED <<pos, failedPos>>
        /\ Set("sync", Idle)
        /\ UNCHANGED <<files, cur, data, present, downloading, retryVars, late, dropped,
                       skipped, reboots>>

\* saveDownloadStateConfig: one update; an error of it is only logged.
SaveDownloadState ==
    LET s == loop["sync"]
    IN  /\ BatchDone("sync")
        /\ \/ /\ pos' = s.to
              /\ failedPos' = IF s.failed THEN failedPos \cup {s.from} ELSE failedPos
              /\ UNCHANGED faults
           \/ Fault /\ UNCHANGED <<pos, failedPos>>
        /\ Set("sync", Idle)
        /\ UNCHANGED <<files, cur, data, present, downloading, retryVars, late, dropped,
                       skipped, reboots>>

(***************************************************************************)
(* A retried position is finished when the dataset has all its fileIds;    *)
(* whether the files are there is not asked.                               *)
(***************************************************************************)
RetryFinished ==
    /\ BatchDone("retry")
    /\ \/ /\ IF \A q \in BatchOf("retry") : LogOf("retry")[q] \in data
             THEN NoteDone ELSE UNCHANGED <<donePos, doneLen>>
          /\ UNCHANGED faults
       \/ Fault /\ UNCHANGED <<donePos, doneLen>>
    /\ Set("retry", [Idle EXCEPT !.pc = "pick"])
    /\ UNCHANGED <<files, cur, data, present, pos, failedPos, downloading, temp, offset,
                   late, dropped, skipped, reboots>>

LoopStep(l) ==
    \/ ReadBatch(l)
    \/ CheckIndex(l)
    \/ SkipFile(l)
    \/ FindMissing(l)
    \/ PassOver(l)
    \/ NoServer(l)
    \/ RegisterDownloadingFile(l)
    \/ Downloaded(l)
    \/ DownloadFails(l)

SyncStep == SyncBegins \/ LoopStep("sync") \/ SaveDownloadState

RetryStep ==
    \/ RetryBegins
    \/ RetryLoad
    \/ \E k \in temp : RetryPick(k)
    \/ RetryRemoves
    \/ LoopStep("retry")
    \/ RetryFinished

Next ==
    \/ FeedStep
    \/ \E r \in Valid : AddDataset(r)
    \/ Restart
    \/ SyncStep
    \/ RetryStep

Spec == Init /\ [][Next]_vars

\* Both timers keep firing, and there are group members.
FairSpec == Spec /\ WF_vars(SyncStep) /\ WF_vars(RetryStep)
-----------------------------------------------------------------------------
(***************************************************************************)
(* downloadingFiles keeps the two goroutines apart: they never download    *)
(* one file at the same time, and each takes out only what it put in.  (A  *)
(* second copy after the first is possible: syncFile looks for the file    *)
(* before it registers it, and the other one may have finished since.)     *)
(***************************************************************************)
OneDownload ==
    /\ \A l \in Loop : loop[l].pc = "transfer" => FileOf(l) \in downloading
    /\ loop["sync"].pc = "transfer" /\ loop["retry"].pc = "transfer" =>
           FileOf("sync") # FileOf("retry")

\* The records a retry of position k looks at, at least.
Window(k) ==
    {<<k.fi, q>> : q \in ValidIn(files[k.fi + 1], k.off,
                                 ReadEnd(files[k.fi + 1], k.off, Fetch))}

(***************************************************************************)
(* The file of every record behind the position, in its binlog file and in *)
(* those before, is there, or a noted position leads a retry to it.  The   *)
(* exceptions are the gaps of the code: a file taken for there by          *)
(* PassOver, a position that the retry has removed, and records written,   *)
(* and followed by a new binlog file, between Read and GetCurrentIndex.    *)
(***************************************************************************)
Handled(i, q) ==
    \/ files[i + 1][q] \in present
    \/ <<i, q>> \in skipped \cup late
    \/ \E k \in failedPos \cup dropped : <<i, q>> \in Window(k)

HandledIn(i, to) == \A q \in ValidIn(files[i + 1], 0, to) : Handled(i, q)

NothingForgotten ==
    /\ HandledIn(pos.fi, pos.off)
    /\ \A i \in 0 .. pos.fi - 1 : HandledIn(i, Len(files[i + 1]))

(***************************************************************************)
(* Every position is that of a line, or the end, of an existing file.      *)
(***************************************************************************)
PositionsValid ==
    \A k \in {pos} \cup failedPos \cup temp :
        k.fi < Len(files) /\ k.off <= Len(files[k.fi + 1])

(***************************************************************************)
(* In a binlog of one file, and once nothing more is written, every        *)
(* record's file is downloaded in the end: failed downloads and saves and  *)
(* restarts delay it and no more.  The gaps of NothingForgotten are        *)
(* excepted here, too; and so is a retry loop that is stuck: when donePos  *)
(* is not empty a round comes to be as long as that list, at the end of    *)
(* the keys, so that positions before are visited no more while there are  *)
(* more positions than that.                                               *)
(***************************************************************************)
Decodable == \A i \in 1 .. Len(files) : \A q \in 1 .. Len(files[i]) : files[i][q] # Bad
OneFile   == Len(files) = 1

GivenUp(x) == x \in skipped \/ \E k \in dropped : x \in Window(k)

Arrived ==
    \A q \in 1 .. Len(files[1]) :
        files[1][q] \in Record => files[1][q] \in present \/ GivenUp(<<0, q>>)

Starved == doneLen > 0 /\ Cardinality(failedPos) > doneLen

FilesArrive == [](Decodable /\ OneFile) /\ []<>~Starved => []<>Arrived
=============================================================================
