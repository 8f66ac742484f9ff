------------------------------ MODULE BinlogPush ----------------------------
(***************************************************************************)
(* A storage server pushes its binlog to its trackers: binlogPusher of     *)
(* svc/binlog_pusher.go, the goroutines StartStorageTcpServer starts, and  *)
(* pushStorageBinLogHandler of the tracker.                                *)
(*                                                                         *)
(* The binlog itself is LogFeed, which Binlog is shown to implement; here  *)
(* its steps only get bounds.  The cursor of a tracker, binlog_index_<id>  *)
(* and binlog_pos_<id>, survives a restart; the pushers do not.  Its two   *)
(* parts are saved together and read one after the other, so a pusher may  *)
(* pair the offset of one file with the index of another.                  *)
(***************************************************************************)
EXTENDS LogFeed

CONSTANTS
    NTrackers,    \* configured trackers, numbered 1 .. NTrackers
    BatchSize,    \* records of one push (10)
    MaxFiles,     \* bound: binlog files
    MaxLines,     \* bound: lines of one file
    MaxReboots,   \* bound: restarts
    MaxFaults     \* bound: failing pushes and saves

ASSUME PushAssumption ==
    NTrackers \in Nat \ {0} /\ BatchSize \in Nat \ {0} /\ MaxLines \in Nat

VARIABLES
    known,      \* known[t]: tracker t has told its InstanceId
    cursor,     \* cursor[t]: persisted push position for tracker t
    unset,      \* unset[t]: the parts of cursor[t] nobody has written yet
    pusher,     \* pusher[p]: the p-th goroutine: position and locals
    dataset,    \* dataset[t]: the fileIds tracker t knows
    acked,      \* history: records whose push to tracker t returned success
    late,       \* history: <<i, q>>, line q of file i and the file after it
                \* came while a pusher made up its mind
    mixed,      \* history: mixed[t], indexes of files read from, or saved
                \* with, an offset of another file
    reboots, faults

vars == <<files, cur, known, cursor, unset, pusher, dataset, acked, late, mixed,
          reboots, faults>>

Tracker == 1 .. NTrackers
Pusher  == 1 .. NTrackers

(***************************************************************************)
(* StartStorageTcpServer takes the address of its loop variable for every  *)
(* tracker, so each goroutine gets the last tracker of the configuration.  *)
(***************************************************************************)
Target(p) == NTrackers

\* The offset lies between two lines, or inside one.
Whole == "whole"

(***************************************************************************)
(* off lines come before the offset; rest is what Read makes of what       *)
(* remains of the next line when the offset, one of another file, is in    *)
(* the middle of it.                                                       *)
(***************************************************************************)
Position == [fi : Nat, off : Nat, rest : {Whole, Skip, Bad, Garbage}]

Start == [fi |-> 0, off |-> 0, rest |-> Whole]

\* fi, off, rest: the position read from (until the index is read, fi is the
\* file whose lines off counts); end: the offset Read returned.
PusherState == [pc : {"idle", "again", "pos0", "index", "index0", "read", "push",
                      "check", "save", "roll"},
                fi : Nat, off : Nat, rest : {Whole, Skip, Bad, Garbage}, end : Nat]

Idle == [pc |-> "idle", fi |-> 0, off |-> 0, rest |-> Whole, end |-> 0]

TypeOK ==
    /\ FeedTypeOK
    /\ known \in [Tracker -> BOOLEAN]
    /\ cursor \in [Tracker -> Position]
    /\ unset \in [Tracker -> SUBSET {"pos", "index"}]
    /\ pusher \in [Pusher -> PusherState]
    /\ dataset \in [Tracker -> SUBSET Valid]
    /\ acked \in [Tracker -> SUBSET Valid]
    /\ late \subseteq (Nat \X Nat)
    /\ mixed \in [Tracker -> SUBSET Nat]
    /\ reboots \in Nat /\ faults \in Nat

Init ==
    /\ FeedInit
    /\ known = [t \in Tracker |-> FALSE]
    /\ cursor = [t \in Tracker |-> Start]
    /\ unset = [t \in Tracker |-> {"pos", "index"}]
    /\ pusher = [p \in Pusher |-> Idle]
    /\ dataset = [t \in Tracker |-> {}]
    /\ acked = [t \in Tracker |-> {}]
    /\ late = {}
    /\ mixed = [t \in Tracker |-> {}]
    /\ reboots = 0 /\ faults = 0

-----------------------------------------------------------------------------
\* The binlog manager of the same process, within bounds.
Room == Len(files[Len(files)]) < MaxLines

\* The lines Read finds after the position of s.
Seen(s) ==
    LET file == files[s.fi + 1]
    IN  IF s.rest = Whole \/ s.off >= Len(file) THEN file
        ELSE [file EXCEPT ![s.off + 1] = s.rest]

\* Mutant of BatchOf: lines of another size than a record are not skipped.
BatchOfAll(s) == s.off + 1 .. s.end

BatchOf(s) == ValidIn(Seen(s), s.off, s.end)

\* Pusher p has read the newest file to its end and found nothing, and has not
\* yet asked for the current index.
AtItsEnd(p) ==
    /\ pusher[p].pc = "check"
    /\ pusher[p].fi = Last
    /\ BatchOf(pusher[p]) = {}

\* The newest file is about to be followed by another one: it has records that
\* such a pusher has not seen.
Unseen ==
    {<<Len(files), q>> : q \in UNION {ValidIn(files[Len(files)], pusher[p].end,
                                             Len(files[Len(files)])) :
                                       p \in {x \in Pusher : AtItsEnd(x)}}}

FeedStep ==
    /\ \/ Room /\ (\E l \in Line : AppendLine(l)) /\ UNCHANGED late
       \/ OpenLast /\ UNCHANGED late
       \/ Len(files) < MaxFiles /\ Roll /\ late' = late \cup Unseen
    /\ UNCHANGED <<known, cursor, unset, pusher, dataset, acked, mixed, reboots, faults>>

\* The process restarts: goroutines and known instance ids are gone.
Restart ==
    /\ reboots < MaxReboots
    /\ reboots' = reboots + 1
    /\ \/ Room /\ \E l \in Line : RebootFix(l)
       \/ Len(files) < MaxFiles /\ RebootRoll(<<Skip>>)
       \/ RebootOnly
    /\ known' = [t \in Tracker |-> FALSE]
    /\ pusher' = [p \in Pusher |-> Idle]
    /\ UNCHANGED <<cursor, unset, dataset, acked, late, mixed, faults>>

\* SyncInstances with the tracker fills in its InstanceId.
Learn(t) ==
    /\ ~known[t]
    /\ \E p \in Pusher : Target(p) = t
    /\ known' = [known EXCEPT ![t] = TRUE]
    /\ UNCHANGED <<files, cur, cursor, unset, pusher, dataset, acked, late, mixed,
                   reboots, faults>>

-----------------------------------------------------------------------------
Fault ==
    /\ faults < MaxFaults
    /\ faults' = faults + 1

(***************************************************************************)
(* The position c taken for one of file i.  Offsets are bytes, and what    *)
(* an offset of another file leads to is open: it may be between any two   *)
(* lines, inside one, or beyond the end.  Only offset 0 is in every file.  *)
(***************************************************************************)
Foreign(c, i) == c.fi # i /\ ~(c.off = 0 /\ c.rest = Whole)

Landing(c, i) ==
    IF Foreign(c, i) THEN (0 .. MaxLines) \X {Whole, Skip, Bad, Garbage}
    ELSE {<<c.off, c.rest>>}

In(c, i) == {[c EXCEPT !.fi = i, !.off = l[1], !.rest = l[2]] : l \in Landing(c, i)}

Mix(t, c, i) == [mixed EXCEPT ![t] = IF Foreign(c, i) THEN @ \cup {i} ELSE @]

(***************************************************************************)
(* The timer fires, or the loop of a round goes round: getPusherStatus     *)
(* reads binlog_pos, in a transaction of its own.                          *)
(***************************************************************************)
GetPosition(p) ==
    LET t == Target(p)
    IN  /\ pusher[p].pc \in {"idle", "again"}
        /\ known[t]
        /\ pusher' = [pusher EXCEPT ![p] =
                        [pc |-> IF "pos" \in unset[t] THEN "pos0" ELSE "index",
                         fi |-> cursor[t].fi, off |-> cursor[t].off,
                         rest |-> cursor[t].rest, end |-> 0]]
        /\ UNCHANGED <<files, cur, known, cursor, unset, dataset, acked, late, mixed,
                       reboots, faults>>

\* There was none: it writes 0, over what another pusher has saved meanwhile.
\* When that fails it goes on all the same.
PutPosition0(p) ==
    LET t == Target(p)
    IN  /\ pusher[p].pc = "pos0"
        /\ pusher' = [pusher EXCEPT ![p].pc = "index"]
        /\ \/ /\ cursor' = [cursor EXCEPT ![t].off = 0, ![t].rest = Whole]
              /\ unset' = [unset EXCEPT ![t] = @ \ {"pos"}]
              /\ UNCHANGED faults
           \/ /\ Fault
              /\ UNCHANGED <<cursor, unset>>
        /\ UNCHANGED <<files, cur, known, dataset, acked, late, mixed, reboots>>

\* getPusherStatus reads binlog_index, in another transaction.
GetIndex(p) ==
    LET s == pusher[p]
        t == Target(p)
        i == cursor[t].fi
    IN  /\ s.pc = "index"
        /\ \/ /\ "index" \in unset[t]
              /\ pusher' = [pusher EXCEPT ![p].pc = "index0"]
              /\ UNCHANGED mixed
           \/ /\ "index" \notin unset[t]
              /\ \E c \in In(s, i) : pusher' = [pusher EXCEPT ![p] = [c EXCEPT !.pc = "read"]]
              /\ mixed' = Mix(t, s, i)
        /\ UNCHANGED <<files, cur, known, cursor, unset, dataset, acked, late,
                       reboots, faults>>

\* There was none: 0 is written, whatever another pusher has saved meanwhile.
PutIndex0(p) ==
    LET t == Target(p)
    IN  /\ pusher[p].pc = "index0"
        /\ pusher' = [pusher EXCEPT ![p].pc = "read", ![p].fi = 0]
        /\ \/ /\ \E c \in In(cursor[t], 0) : cursor' = [cursor EXCEPT ![t] = c]
              /\ mixed' = Mix(t, cursor[t], 0)
              /\ unset' = [unset EXCEPT ![t] = @ \ {"index"}]
              /\ UNCHANGED faults
           \/ /\ Fault
              /\ UNCHANGED <<cursor, unset, mixed>>
        /\ UNCHANGED <<files, cur, known, dataset, acked, late, reboots>>

\* A read of the position or the index fails, which ends the round.
StatusFails(p) ==
    /\ pusher[p].pc \in {"again", "index"}
    /\ Fault
    /\ pusher' = [pusher EXCEPT ![p] = Idle]
    /\ UNCHANGED <<files, cur, known, cursor, unset, dataset, acked, late, mixed, reboots>>

\* Read(fileIndex, offset, 10).  An error ends the round.
ReadBatch(p) ==
    LET s    == pusher[p]
        file == Seen(s)
        end  == ReadEnd(file, s.off, BatchSize)
    IN  /\ s.pc = "read"
        /\ pusher' = [pusher EXCEPT ![p] =
             IF ReadFails(file, s.off, BatchSize) THEN Idle
             ELSE [s EXCEPT !.pc = IF ValidIn(file, s.off, end) = {}
                                   THEN "check" ELSE "push",
                            !.end = end]]
        /\ UNCHANGED <<files, cur, known, cursor, unset, dataset, acked, late, mixed,
                       reboots, faults>>

(***************************************************************************)
(* pushStorageBinLogHandler: the records of the batch are added one after  *)
(* the other, up to the first one the tracker already knows; there it      *)
(* stops and answers SUCCESS.                                              *)
(***************************************************************************)
AddedBy(s, d) ==
    LET line == Seen(s)
        New(q) == line[q] \notin d \cup {line[h] : h \in {x \in BatchOf(s) : x < q}}
    IN  {q \in BatchOf(s) : \A h \in BatchOf(s) : h <= q => New(h)}

RecordsAt(s, ps) == {Seen(s)[q] : q \in ps}

\* PushBinlog gets the answer SUCCESS.
PushBinlog(p) ==
    LET s == pusher[p]
        t == Target(p)
    IN  /\ s.pc = "push"
        /\ dataset' = [dataset EXCEPT ![t] = @ \cup RecordsAt(s, AddedBy(s, @))]
        /\ acked' = [acked EXCEPT ![t] = @ \cup RecordsAt(s, BatchOf(s))]
        /\ pusher' = [pusher EXCEPT ![p].pc = "check"]
        /\ UNCHANGED <<files, cur, known, cursor, unset, late, mixed, reboots, faults>>

(***************************************************************************)
(* PushBinlog fails: the request is lost, the tracker reports an error     *)
(* after some records, or the answer is lost.  The round ends.             *)
(***************************************************************************)
PushFails(p, n) ==
    LET s == pusher[p]
        t == Target(p)
    IN  /\ s.pc = "push"
        /\ n \in s.off .. s.end
        /\ Fault
        /\ dataset' = [dataset EXCEPT ![t] =
                         @ \cup RecordsAt(s, {q \in AddedBy(s, @) : q <= n})]
        /\ pusher' = [pusher EXCEPT ![p] = Idle]
        /\ UNCHANGED <<files, cur, known, cursor, unset, acked, late, mixed, reboots>>

\* Mutant of Check: the next file, whether there is one or not.
CheckRollsAlways(p) ==
    LET s == pusher[p]
    IN  /\ s.pc = "check"
        /\ pusher' = [pusher EXCEPT ![p] =
             IF BatchOf(s) = {} THEN [s EXCEPT !.pc = "roll"]
             ELSE [s EXCEPT !.pc = "save"]]
        /\ UNCHANGED <<files, cur, known, cursor, unset, dataset, acked, late, mixed,
                       reboots, faults>>

(***************************************************************************)
(* What to do next, by GetCurrentIndex as it is now and not as it was when *)
(* the batch was read: end the round, go on with the next file, or save    *)
(* the offset and read again.  (The code asks for the index twice; what it *)
(* does is what asking once, at one of the two moments, would have it do.) *)
(***************************************************************************)
Check(p) ==
    LET s == pusher[p]
    IN  /\ s.pc = "check"
        /\ pusher' = [pusher EXCEPT ![p] =
             IF s.fi = cur /\ s.off = s.end THEN Idle
             ELSE IF cur > s.fi /\ BatchOf(s) = {} THEN [s EXCEPT !.pc = "roll"]
             ELSE [s EXCEPT !.pc = "save"]]
        /\ UNCHANGED <<files, cur, known, cursor, unset, dataset, acked, late, mixed,
                       reboots, faults>>

\* The position after an offset of the same file, and that of the next file.
At(s, off) == [fi |-> s.fi, off |-> off,
               rest |-> IF off = s.off THEN s.rest ELSE Whole]

NextFile(s) == [fi |-> s.fi + 1, off |-> 0, rest |-> Whole]

\* Mutant of Saved: the next file is not counted, only the offset reset.
SavedSameFile(s) == At(s, IF s.pc = "roll" THEN 0 ELSE s.end)

\* Mutant of Saved: the size of the file, not where Read stopped.
SavedSize(s) == IF s.pc = "roll" THEN NextFile(s) ELSE At(s, Len(files[s.fi + 1]))

Saved(s) == IF s.pc = "roll" THEN NextFile(s) ELSE At(s, s.end)

\* setPusherStatus, both parts in one transaction.  When it fails that is only
\* logged.
SetPusherStatus(p) ==
    LET s == pusher[p]
        t == Target(p)
    IN  /\ s.pc \in {"save", "roll"}
        /\ \/ /\ cursor' = [cursor EXCEPT ![t] = Saved(s)]
              /\ unset' = [unset EXCEPT ![t] = {}]
              /\ UNCHANGED faults
           \/ /\ Fault
              /\ UNCHANGED <<cursor, unset>>
        /\ pusher' = [pusher EXCEPT ![p] =
                        IF s.pc = "roll" THEN Idle ELSE [Idle EXCEPT !.pc = "again"]]
        /\ UNCHANGED <<files, cur, known, dataset, acked, late, mixed, reboots>>

PusherStep(p) ==
    \/ GetPosition(p)
    \/ PutPosition0(p)
    \/ GetIndex(p)
    \/ PutIndex0(p)
    \/ StatusFails(p)
    \/ ReadBatch(p)
    \/ PushBinlog(p)
    \/ \E n \in 0 .. MaxLines : PushFails(p, n)
    \/ Check(p)
    \/ SetPusherStatus(p)

(***************************************************************************)
(* Another storage server of the group, which synchronized this server's   *)
(* binlog, pushes one of its records to the tracker first.                 *)
(***************************************************************************)
PeerPush(t, r) ==
    /\ \E p \in Pusher : Target(p) = t
    /\ \E i \in 1 .. Len(files) : \E q \in 1 .. Len(files[i]) : files[i][q] = r
    /\ r \notin dataset[t]
    /\ dataset' = [dataset EXCEPT ![t] = @ \cup {r}]
    /\ UNCHANGED <<files, cur, known, cursor, unset, pusher, acked, late, mixed,
                   reboots, faults>>

Next ==
    \/ FeedStep
    \/ Restart
    \/ \E t \in Tracker : Learn(t)
    \/ \E p \in Pusher : PusherStep(p)
    \/ \E t \in Tracker, r \in Valid : PeerPush(t, r)

Spec == Init /\ [][Next]_vars

(***************************************************************************)
(* The timers of the pushers and of SyncInstances keep firing and a round  *)
(* that runs goes on.  Nothing obliges the writer to write.                *)
(***************************************************************************)
FairSpec ==
    /\ Spec
    /\ \A p \in Pusher : WF_vars(PusherStep(p))
    /\ \A t \in Tracker : WF_vars(Learn(t))
-----------------------------------------------------------------------------
(***************************************************************************)
(* The saved position stays valid through rolls, restarts and concurrent   *)
(* pushers: its file exists, and has that many lines unless the file was   *)
(* taken up with an offset of another one.                                 *)
(***************************************************************************)
CursorValid ==
    \A t \in Tracker :
        /\ cursor[t].fi < Len(files)
        /\ cursor[t].fi \notin mixed[t] =>
               cursor[t].rest = Whole /\ cursor[t].off <= Len(files[cursor[t].fi + 1])

(***************************************************************************)
(* The position is saved after the push: whatever fails or restarts, every *)
(* record of the file before the saved offset was acknowledged by the      *)
(* tracker.  Excepted are the files taken up with an offset of another     *)
(* one, which the code does when a pusher saves between the two reads of   *)
(* another's getPusherStatus.                                              *)
(***************************************************************************)
AckedBeforeCursor ==
    \A t \in Tracker : cursor[t].fi \notin mixed[t] =>
        LET file == files[cursor[t].fi + 1]
        IN  \A q \in ValidIn(file, 0, cursor[t].off) : file[q] \in acked[t]

(***************************************************************************)
(* A pusher leaves a file only with all its records acknowledged: whoever  *)
(* else pushes, and whatever fails or restarts.  Excepted is what the code *)
(* does pass over: a record written, before a new file, after Read found   *)
(* the end of the file and before GetCurrentIndex was asked; and the files *)
(* taken up with an offset of another one.                                 *)
(***************************************************************************)
NothingLeftBehind ==
    \A t \in Tracker : \A i \in 1 .. cursor[t].fi : i - 1 \notin mixed[t] =>
        \A q \in ValidIn(files[i], 0, Len(files[i])) :
            files[i][q] \in acked[t] \/ <<i, q>> \in late

(***************************************************************************)
(* With one tracker the saved position never moves back, whichever saves   *)
(* fail and however often the process restarts.                            *)
(***************************************************************************)
NoStepBack(t) ==
    \/ cursor'[t].fi > cursor[t].fi
    \/ cursor'[t].fi = cursor[t].fi /\ cursor'[t].off >= cursor[t].off

CursorForward == [][NTrackers = 1 => NoStepBack(NTrackers)]_vars

(***************************************************************************)
(* In a binlog of one file every record is pushed to the tracker sooner or *)
(* later: failed pushes, lost answers, failed saves and restarts delay it  *)
(* and no more.  One line that does not decode, even one after the record  *)
(* in the same batch, stops the pusher for good, so there is none.         *)
(***************************************************************************)
Decodable == \A i \in 1 .. Len(files) : \A q \in 1 .. Len(files[i]) : files[i][q] # Bad

HasRecord(q) == q <= Len(files[1]) /\ files[1][q] \in Valid

OneFile == Len(files) = 1

RecordsPushed ==
    [](Decodable /\ OneFile) =>
        \A q \in 1 .. MaxLines :
            HasRecord(q) ~> (HasRecord(q) /\ files[1][q] \in acked[NTrackers])
=============================================================================
