----------------------------- MODULE BinlogProofs ---------------------------
(***************************************************************************)
(* Proofs about Binlog for every record set, batch size, file size, number *)
(* of files, writes, restarts and faults.                                  *)
(***************************************************************************)
EXTENDS Binlog, FiniteSetTheorems, TLAPS

(***************************************************************************)
(* The inductive invariant.  The safety invariants of Binlog are its named *)
(* parts; the others say why they are inductive: the open file is the      *)
(* newest one, binlogSize is its entry in the map, and the Write in        *)
(* progress has added a line that is not counted yet.                      *)
(***************************************************************************)
OpenIsNewest == handle \in {"open", "closed"} => cur + 1 = Len(files)

SizeIsCount ==
    handle = "open" /\ pc \in {"idle", "append", "count"} /\ cur < MaxFiles =>
        size = count[cur + 1]

Progress ==
    /\ pc = "append" => written < Len(batch)
    /\ pc = "count" =>
          /\ written = Len(batch)
          /\ cur < MaxFiles => count[cur + 1] < Len(files[cur + 1])

FileInv ==
    /\ TypeOK
    /\ AppendsToNewest
    /\ SealedFull
    /\ CountNeverOver
    /\ OpenIsNewest
    /\ SizeIsCount
    /\ Progress

(***************************************************************************)
(* What failing calls may still cost: besides the records lost and made up *)
(* so far, those of the Write in progress that are glued already, and one  *)
(* more when digits stand after the last newline.                          *)
(***************************************************************************)
Added   == IF pc \in {"append", "count"} THEN {batch[j] : j \in 1 .. written} ELSE {}
Pending == acked \cup Added
Lost    == Pending \ Readable
Torned  == IF tail.len = 0 THEN 0 ELSE 1

DamageInv ==
    /\ IsFiniteSet(acked)
    /\ IsFiniteSet(Phantoms)
    /\ Cardinality(Lost) + Cardinality(Phantoms) + Torned <= faults

IInv == FileInv /\ DamageInv

-----------------------------------------------------------------------------
\* A record, or what is left of it, always closes to a line.
LEMMA LineFacts ==
    /\ Record \subseteq Line /\ Valid \subseteq Line
    /\ Skip \in Line /\ Bad \in Line /\ Garbage \in Valid
    /\ \A n \in Nat : Class(n) \in {Skip, Bad}
    /\ \A t \in TailType, r \in Record : Glued(t, r) \in Line
    /\ \A t \in TailType : Closed(t) \in Line
    /\ \A t \in TailType, r \in Record, k \in 0 .. EncLen : Torn(t, r, k) \in TailType
    /\ Tail0 \in TailType
BY EncLenAssumption
   DEF Line, Valid, Class, Glued, Closed, Torn, Tail0, TailType, Skip, Bad, Garbage

\* What appending a line to the file of index n - 1 changes.
LEMMA ExtendFile ==
    ASSUME NEW F \in Seq(Seq(Line)), NEW n \in 1 .. Len(F), NEW l \in Line,
           NEW G, G = [F EXCEPT ![n] = Append(@, l)]
    PROVE  /\ G \in Seq(Seq(Line)) /\ G # <<>>
           /\ Len(G) = Len(F)
           /\ \A i \in 1 .. Len(F) : i # n => G[i] = F[i]
           /\ G[n] = Append(F[n], l)
           /\ G[n] \in Seq(Line)
           /\ Len(G[n]) = Len(F[n]) + 1
           /\ \A p \in 1 .. Len(F[n]) : G[n][p] = F[n][p]
           /\ G[n][Len(F[n]) + 1] = l
OBVIOUS

\* What creating a file changes.
LEMMA NewFile ==
    ASSUME NEW F \in Seq(Seq(Line)), NEW s \in Seq(Line),
           NEW G, G = Append(F, s)
    PROVE  /\ G \in Seq(Seq(Line)) /\ G # <<>>
           /\ Len(G) = Len(F) + 1
           /\ \A i \in 1 .. Len(F) : G[i] = F[i]
           /\ G[Len(F) + 1] = s
OBVIOUS

\* The file a boot or a Write takes when it is not full is the newest one.
LEMMA NotFullIsNewest ==
    ASSUME FileInv, ~LatestFull
    PROVE  Latest = Len(files) /\ Len(files) <= MaxFiles
BY SizesAssumption DEF FileInv, TypeOK, LatestFull, Latest, SealedFull

LEMMA InitFileInv == Init => FileInv
<1> SUFFICES ASSUME Init PROVE FileInv
  OBVIOUS
<1>1. TypeOK
  <2>1. /\ files \in Seq(Seq(Line)) /\ files # <<>> /\ tail \in TailType
        /\ batch \in Seq(Record)
    BY LineFacts DEF Init
  <2> QED
    BY <2>1 DEF Init, TypeOK
<1> QED
  BY <1>1, LineFacts, SizesAssumption
     DEF Init, FileInv, AppendsToNewest, SealedFull, CountNeverOver, OpenIsNewest,
         SizeIsCount, Progress

-----------------------------------------------------------------------------
\* Opening a file for a Write.
LEMMA WriteOpenFileInv ==
    ASSUME FileInv, NEW b \in Batches, WriteOpen(b)
    PROVE  FileInv'
<1>0. /\ b \in Seq(Record) /\ Len(b) > 0
      /\ TypeOK
  BY DEF Batches, FileInv
<1>1. CASE WriteHere(b)
  BY <1>0, <1>1
     DEF WriteHere, Enter, FileInv, TypeOK, AppendsToNewest, SealedFull,
         CountNeverOver, OpenIsNewest, SizeIsCount, Progress
<1>2. CASE WriteReopen(b)
  <2>1. Latest = Len(files) /\ Len(files) <= MaxFiles
    BY <1>2, NotFullIsNewest DEF WriteReopen
  <2>2. count[Latest] \in Nat /\ count[Latest] < MaxSize
    BY <2>1, <1>2, <1>0, SizesAssumption DEF WriteReopen, LatestFull, TypeOK
  <2> QED
    BY <1>0, <1>2, <2>1, <2>2, SizesAssumption
       DEF WriteReopen, Enter, FileInv, TypeOK, AppendsToNewest, SealedFull,
           CountNeverOver, OpenIsNewest, SizeIsCount, Progress
<1>3. CASE WriteRoll(b)
  <2>1. /\ files' \in Seq(Seq(Line)) /\ files' # <<>>
        /\ Len(files') = Len(files) + 1
        /\ \A i \in 1 .. Len(files) : files'[i] = files[i]
        /\ files'[Len(files) + 1] = <<>>
    <3>1. files \in Seq(Seq(Line)) /\ <<>> \in Seq(Line)
      BY <1>0 DEF TypeOK
    <3>2. files' = Append(files, <<>>)
      BY <1>3 DEF WriteRoll
    <3> QED
      BY <3>1, <3>2
  <2>2. Len(files) <= MaxFiles => count[Len(files)] >= MaxSize
    BY <1>3 DEF WriteRoll, LatestFull, Latest
  <2>3. TypeOK'
    BY <1>0, <1>3, <2>1, LineFacts DEF WriteRoll, Enter, TypeOK
  <2>4. AppendsToNewest' /\ OpenIsNewest' /\ SealedFull'
    BY <1>0, <1>3, <2>1, <2>2, SizesAssumption
       DEF WriteRoll, Enter, FileInv, TypeOK, AppendsToNewest, SealedFull, OpenIsNewest
  <2>5. CountNeverOver' /\ SizeIsCount' /\ Progress'
    BY <1>0, <1>3, <2>1, SizesAssumption
       DEF WriteRoll, Enter, FileInv, TypeOK, CountNeverOver, SizeIsCount, Progress
  <2> QED
    BY <2>3, <2>4, <2>5 DEF FileInv
<1> QED
  BY <1>1, <1>2, <1>3 DEF WriteOpen

\* Appending a line to the open file.
LEMMA AppendRecordFileInv ==
    ASSUME FileInv, AppendRecord
    PROVE  FileInv'
<1> DEFINE r == batch[written + 1]
           n == cur + 1
<1>0. /\ TypeOK /\ n = Len(files) /\ n \in 1 .. Len(files)
      /\ handle = "open" /\ size < MaxSize
      /\ written + 1 \in 1 .. Len(batch) /\ r \in Record
  BY DEF FileInv, TypeOK, AppendRecord, AppendsToNewest, Progress
<1>1. Glued(tail, r) \in Line
  BY <1>0, LineFacts DEF TypeOK
<1>2. /\ files' \in Seq(Seq(Line)) /\ files' # <<>>
      /\ Len(files') = Len(files)
      /\ \A i \in 1 .. Len(files) : i # n => files'[i] = files[i]
      /\ Len(files'[n]) = Len(files[n]) + 1
      /\ Len(files[n]) \in Nat
  <2>1. files' = [files EXCEPT ![n] = Append(@, Glued(tail, r))]
    BY DEF AppendRecord
  <2>2. files \in Seq(Seq(Line)) /\ files[n] \in Seq(Line)
    BY <1>0 DEF TypeOK
  <2> HIDE DEF r, n
  <2> QED
    BY <1>0, <1>1, <2>1, <2>2, ExtendFile
<1>3. TypeOK'
  BY <1>0, <1>2, LineFacts DEF AppendRecord, TypeOK
<1>4. AppendsToNewest' /\ OpenIsNewest' /\ SealedFull'
  BY <1>0, <1>2
     DEF AppendRecord, FileInv, TypeOK, AppendsToNewest, SealedFull, OpenIsNewest
<1>5. CountNeverOver' /\ SizeIsCount'
  <2>1. CountNeverOver /\ SizeIsCount /\ count' = count
    BY DEF FileInv, AppendRecord
  <2>2. ASSUME NEW i \in 1 .. MaxFiles
        PROVE  IF i <= Len(files') THEN count[i] <= Len(files'[i]) ELSE count[i] = 0
    <3>1. count[i] \in Nat
      <4>1. count \in [1 .. MaxFiles -> Nat]
        BY <1>0 DEF TypeOK
      <4> QED
        BY <4>1
    <3>2. CASE i = n
      <4>1. i <= Len(files) /\ count[i] <= Len(files[i])
        BY <1>0, <2>1, <3>2 DEF CountNeverOver
      <4> QED
        BY <1>2, <3>1, <3>2, <4>1
    <3>3. CASE i # n
      BY <1>0, <1>2, <2>1, <3>1, <3>3 DEF CountNeverOver
    <3> QED
      BY <3>2, <3>3
  <2> QED
    BY <1>0, <2>1, <2>2 DEF AppendRecord, CountNeverOver, SizeIsCount
<1>6. Progress'
  BY <1>0, <1>2, SizesAssumption
     DEF AppendRecord, FileInv, TypeOK, CountNeverOver, Progress
<1> QED
  BY <1>3, <1>4, <1>5, <1>6 DEF FileInv

\* The steps that leave the files alone.
LEMMA OtherWriteFileInv ==
    ASSUME FileInv,
           \/ WriteOpenFails \/ CountFails \/ CountOverflows \/ Count
           \/ \E k \in 0 .. EncLen : AppendFails(k)
    PROVE  FileInv'
<1>0. TypeOK
  BY DEF FileInv
<1>1. CASE WriteOpenFails
  BY <1>0, <1>1
     DEF WriteOpenFails, Fault, FileInv, TypeOK, AppendsToNewest, SealedFull,
         CountNeverOver, OpenIsNewest, SizeIsCount, Progress
<1>2. CASE CountFails
  BY <1>0, <1>2
     DEF CountFails, Fault, FileInv, TypeOK, AppendsToNewest, SealedFull,
         CountNeverOver, OpenIsNewest, SizeIsCount, Progress
<1>3. CASE CountOverflows
  <2>1. TypeOK'
    BY <1>0, <1>3 DEF CountOverflows, TypeOK
  <2>2. ~(cur < MaxFiles)
    BY <1>0, <1>3, SizesAssumption DEF CountOverflows, TypeOK
  <2> QED
    BY <1>0, <1>3, <2>1, <2>2
       DEF CountOverflows, FileInv, TypeOK, AppendsToNewest, SealedFull,
           CountNeverOver, OpenIsNewest, SizeIsCount, Progress
<1>4. CASE Count
  <2>1. /\ cur + 1 = Len(files) /\ cur + 1 \in 1 .. MaxFiles
        /\ size = count[cur + 1] /\ count[cur + 1] < Len(files[cur + 1])
        /\ RangeOf(batch) \subseteq Record
    BY <1>0, <1>4, SizesAssumption
       DEF Count, FileInv, TypeOK, AppendsToNewest, SizeIsCount, Progress, RangeOf
  <2>2. TypeOK'
    BY <1>0, <1>4, <2>1 DEF Count, TypeOK
  <2>3. SealedFull' /\ CountNeverOver'
    BY <1>0, <1>4, <2>1, SizesAssumption, SMTT(30)
       DEF Count, FileInv, TypeOK, SealedFull, CountNeverOver
  <2> QED
    BY <1>0, <1>4, <2>1, <2>2, <2>3, SizesAssumption, SMTT(30)
       DEF Count, FileInv, TypeOK, AppendsToNewest, OpenIsNewest, SizeIsCount, Progress
<1>5. ASSUME NEW k \in 0 .. EncLen, AppendFails(k)
      PROVE  FileInv'
  <2>1. batch[written + 1] \in Record
    BY <1>0, <1>5 DEF AppendFails, FileInv, TypeOK, Progress
  <2>2. tail' \in TailType
    BY <1>0, <1>5, <2>1, LineFacts DEF AppendFails, TypeOK
  <2> QED
    BY <1>0, <1>5, <2>2
       DEF AppendFails, Fault, FileInv, TypeOK, AppendsToNewest, SealedFull,
           CountNeverOver, OpenIsNewest, SizeIsCount, Progress
<1> QED
  BY <1>1, <1>2, <1>3, <1>4, <1>5

\* What every restart sets, whatever becomes of the newest file.
LEMMA ResetFacts ==
    ASSUME FileInv, NEW k \in 0 .. EncLen, Reset(k)
    PROVE  /\ handle' = "nil" /\ size' = 0 /\ cur' = 0 /\ pc' = "idle"
           /\ batch' \in Seq(Record) /\ written' = 0
           /\ restarts' \in Nat
           /\ count' = count /\ acked' = acked /\ writes' = writes /\ overlong' = overlong
           /\ TailAtCrash(k) \in TailType
           /\ Closed(TailAtCrash(k)) \in Line
<1>1. TypeOK
  BY DEF FileInv
<1>2. TailAtCrash(k) \in TailType
  <2>1. CASE pc = "append"
    <3>1. batch[written + 1] \in Record /\ tail \in TailType
      BY <1>1, <2>1 DEF FileInv, TypeOK, Progress
    <3> QED
      BY <2>1, <3>1, LineFacts DEF TailAtCrash
  <2>2. CASE pc # "append"
    BY <1>1, <2>2 DEF TailAtCrash, TypeOK
  <2> QED
    BY <2>1, <2>2
<1>3. Closed(TailAtCrash(k)) \in Line
  BY <1>2, LineFacts
<1> QED
  BY <1>1, <1>2, <1>3 DEF Reset, TypeOK

LEMMA RestartFileInv ==
    ASSUME FileInv, NEW k \in 0 .. EncLen, Restart(k)
    PROVE  FileInv'
<1>0. /\ TypeOK
      /\ Reset(k)
  BY DEF FileInv, Restart, RestartFix, RestartRoll, RestartUnfixed, RestartRollUnfixed
<1>a. /\ handle' = "nil" /\ size' = 0 /\ cur' = 0 /\ pc' = "idle"
      /\ batch' \in Seq(Record) /\ written' = 0
      /\ restarts' \in Nat
      /\ count' = count /\ acked' = acked /\ writes' = writes /\ overlong' = overlong
  BY <1>0, ResetFacts
<1>b. TailAtCrash(k) \in TailType /\ Closed(TailAtCrash(k)) \in Line
  BY <1>0, ResetFacts
<1>c. /\ files \in Seq(Seq(Line)) /\ files # <<>> /\ faults \in Nat
      /\ count \in [1 .. MaxFiles -> Nat]
      /\ acked \subseteq Record /\ writes \in Nat /\ overlong \in BOOLEAN
  BY <1>0 DEF TypeOK
\* Nothing is open and no Write runs: only the shape of the files matters.
<1>d. ASSUME files' \in Seq(Seq(Line)), files' # <<>>,
             tail' \in TailType, faults' \in Nat,
             SealedFull', CountNeverOver'
      PROVE  FileInv'
  <2>1. TypeOK'
    BY <1>a, <1>c, <1>d DEF TypeOK
  <2> QED
    BY <1>a, <1>d, <2>1
       DEF FileInv, AppendsToNewest, OpenIsNewest, SizeIsCount, Progress
<1>1. CASE RestartFix(k)
  <2>1. Latest = Len(files)
    BY <1>1, NotFullIsNewest DEF RestartFix
  <2>2. files' = [files EXCEPT ![Len(files)] = Append(@, Closed(TailAtCrash(k)))]
    BY <1>1, <2>1 DEF RestartFix
  <2>3. Len(files) \in 1 .. Len(files) /\ files[Len(files)] \in Seq(Line)
    BY <1>c
  <2>4. /\ files' \in Seq(Seq(Line)) /\ files' # <<>>
        /\ Len(files') = Len(files)
        /\ \A i \in 1 .. Len(files) : i # Len(files) => files'[i] = files[i]
        /\ Len(files'[Len(files)]) = Len(files[Len(files)]) + 1
        /\ Len(files[Len(files)]) \in Nat
    BY <1>b, <1>c, <2>2, <2>3
  <2>5. \A i \in 1 .. Len(files) :
           count[i] <= Len(files[i]) /\ count[i] \in Nat => count[i] <= Len(files'[i])
    BY <2>3, <2>4
  <2>6. \A i \in 1 .. MaxFiles : count[i] \in Nat
    BY <1>c
  <2>7. CountNeverOver'
    BY <1>a, <2>4, <2>5, <2>6 DEF FileInv, CountNeverOver
  <2>8. SealedFull'
    BY <1>a, <2>4 DEF FileInv, SealedFull
  <2> QED
    BY <1>1, <1>c, <1>d, <2>4, <2>7, <2>8, LineFacts DEF RestartFix
<1>2. ASSUME NEW ls \in Seq(Line), LatestFull,
             files' = Append(files, ls), tail' = Tail0, faults' \in Nat
      PROVE  FileInv'
  <2>1. /\ files' \in Seq(Seq(Line)) /\ files' # <<>>
        /\ Len(files') = Len(files) + 1
        /\ \A i \in 1 .. Len(files) : files'[i] = files[i]
        /\ files'[Len(files) + 1] = ls
        /\ Len(ls) \in Nat /\ Len(files) \in Nat
    <3>1. files \in Seq(Seq(Line)) /\ ls \in Seq(Line) /\ files' = Append(files, ls)
      BY <1>2, <1>c
    <3> QED
      BY <3>1
  <2>2. Len(files) <= MaxFiles => count[Len(files)] >= MaxSize
    BY <1>2 DEF LatestFull, Latest
  <2>3. SealedFull'
    BY <1>a, <2>1, <2>2 DEF FileInv, SealedFull
  <2>4. CountNeverOver'
    <3>1. \A i \in 1 .. MaxFiles : i = Len(files) + 1 => count[i] <= Len(ls)
      BY <2>1 DEF FileInv, CountNeverOver
    <3>2. \A i \in 1 .. MaxFiles :
             IF i <= Len(files) THEN count[i] <= Len(files[i]) ELSE count[i] = 0
      BY DEF FileInv, CountNeverOver
    <3>3. ASSUME NEW i \in 1 .. MaxFiles
          PROVE  IF i <= Len(files') THEN count[i] <= Len(files'[i]) ELSE count[i] = 0
      <4>1. CASE i <= Len(files)
        <5>1. i \in 1 .. Len(files) /\ files'[i] = files[i] /\ i <= Len(files')
          BY <2>1, <4>1
        <5> QED
          BY <3>2, <4>1, <5>1
      <4>2. CASE i = Len(files) + 1
        BY <2>1, <3>1, <4>2
      <4>3. CASE i > Len(files) + 1
        BY <2>1, <3>2, <4>3
      <4> QED
        BY <2>1, <4>1, <4>2, <4>3
    <3> QED
      BY <1>a, <3>3 DEF CountNeverOver
  <2> QED
    BY <1>2, <1>d, <2>1, <2>3, <2>4, LineFacts
<1>3. CASE RestartRoll(k)
  <2>1. <<Skip>> \in Seq(Line)
    BY LineFacts
  <2> QED
    BY <1>2, <1>3, <1>c, <2>1 DEF RestartRoll
<1>4. CASE RestartRollUnfixed(k)
  <2>1. <<>> \in Seq(Line) /\ faults' \in Nat
    BY <1>c, <1>4 DEF RestartRollUnfixed, Fault
  <2> QED
    BY <1>2, <1>4, <2>1 DEF RestartRollUnfixed
<1>5. CASE RestartUnfixed(k)
  <2>1. SealedFull' /\ CountNeverOver'
    BY <1>a, <1>5 DEF RestartUnfixed, FileInv, SealedFull, CountNeverOver
  <2> QED
    BY <1>b, <1>c, <1>d, <1>5, <2>1 DEF RestartUnfixed, Fault
<1> QED
  BY <1>1, <1>3, <1>4, <1>5 DEF Restart

LEMMA FileInvStep == FileInv /\ [Next]_vars => FileInv'
<1> SUFFICES ASSUME FileInv, [Next]_vars PROVE FileInv'
  OBVIOUS
<1>1. ASSUME NEW b \in Batches, WriteOpen(b) PROVE FileInv'
  BY <1>1, WriteOpenFileInv
<1>2. CASE WriterStep
  BY <1>2, AppendRecordFileInv, OtherWriteFileInv DEF WriterStep
<1>3. CASE WriteOpenFails \/ CountFails \/ \E k \in 0 .. EncLen : AppendFails(k)
  BY <1>3, OtherWriteFileInv
<1>4. ASSUME NEW k \in 0 .. EncLen, Restart(k) PROVE FileInv'
  BY <1>4, RestartFileInv
<1>5. CASE UNCHANGED vars
  BY <1>5
     DEF vars, FileInv, TypeOK, AppendsToNewest, SealedFull, CountNeverOver,
         OpenIsNewest, SizeIsCount, Progress
<1> QED
  BY <1>1, <1>2, <1>3, <1>4, <1>5 DEF Next

(***************************************************************************)
(* Type correctness, and the three invariants about the files and their    *)
(* counts: Write appends to the newest file and never to a full one, a     *)
(* file is left only when it is counted as full, and no count exceeds the  *)
(* lines of its file, whatever crashes and faults occur.                   *)
(***************************************************************************)
THEOREM FilesCorrect ==
    Spec => [](TypeOK /\ AppendsToNewest /\ SealedFull /\ CountNeverOver)
<1>1. FileInv => TypeOK /\ AppendsToNewest /\ SealedFull /\ CountNeverOver
  BY DEF FileInv
<1> QED
  BY <1>1, InitFileInv, FileInvStep, PTL DEF Spec

\* The variables of the manager keep their types through crashes and faults.
COROLLARY BinlogTypes == Spec => []TypeOK
BY FilesCorrect, PTL

\* Write appends to the newest file, whoever created it.
COROLLARY NewestAppended == Spec => []AppendsToNewest
BY FilesCorrect, PTL

\* A file that was rolled away is full, and stays as it is.
COROLLARY RolledAreFull == Spec => []SealedFull
BY FilesCorrect, PTL

-----------------------------------------------------------------------------
\* Every step of the manager is a step its readers expect, or none.
LEMMA FeedStep ==
    ASSUME FileInv, [Next]_vars
    PROVE  [Feed!FeedNext]_(Feed!feedVars)
<1>0. TypeOK
  BY DEF FileInv
<1>1. ASSUME NEW b \in Batches, WriteOpen(b)
      PROVE  Feed!FeedNext \/ UNCHANGED Feed!feedVars
  <2>1. CASE WriteHere(b)
    BY <2>1 DEF WriteHere, Feed!feedVars
  <2>2. CASE WriteReopen(b)
    <3>1. Latest = Len(files)
      BY <2>2, NotFullIsNewest DEF WriteReopen
    <3>2. Feed!OpenLast
      BY <2>2, <3>1 DEF WriteReopen, Feed!OpenLast, Feed!Last
    <3> QED
      BY <3>2 DEF Feed!FeedNext
  <2>3. CASE WriteRoll(b)
    BY <2>3 DEF WriteRoll, Feed!FeedNext, Feed!Roll
  <2> QED
    BY <1>1, <2>1, <2>2, <2>3 DEF WriteOpen
<1>2. CASE AppendRecord
  <2> DEFINE l == Glued(tail, batch[written + 1])
  <2>1. cur + 1 = Len(files) /\ batch[written + 1] \in Record /\ tail \in TailType
    BY <1>0, <1>2 DEF AppendRecord, FileInv, TypeOK, AppendsToNewest, Progress
  <2>2. l \in Line
    BY <2>1, LineFacts
  <2>3. cur = Feed!Last
    BY <1>0, <2>1 DEF Feed!Last, TypeOK
  <2>4. files' = [files EXCEPT ![Len(files)] = Append(@, l)] /\ cur' = cur
    BY <1>2, <2>1 DEF AppendRecord
  <2>5. Feed!AppendLine(l)
    BY <2>3, <2>4 DEF Feed!AppendLine
  <2> QED
    BY <2>2, <2>5 DEF Feed!FeedNext, Feed!Line, Line, Feed!Skip, Feed!Bad,
                      Feed!Garbage, Skip, Bad, Garbage
<1>3. CASE \/ WriteOpenFails \/ CountFails \/ CountOverflows \/ Count
           \/ \E k \in 0 .. EncLen : AppendFails(k)
  BY <1>3 DEF WriteOpenFails, CountFails, CountOverflows, Count, AppendFails,
              Feed!feedVars
<1>4. ASSUME NEW k \in 0 .. EncLen, Restart(k)
      PROVE  Feed!FeedNext
  <2>0. Reset(k)
    BY <1>4 DEF Restart, RestartFix, RestartRoll, RestartUnfixed, RestartRollUnfixed
  <2>1. cur' = 0 /\ Closed(TailAtCrash(k)) \in Line
    BY <2>0, ResetFacts
  <2>2. CASE RestartFix(k)
    <3>1. Latest = Len(files)
      BY <2>2, NotFullIsNewest DEF RestartFix
    <3>2. Feed!RebootFix(Closed(TailAtCrash(k)))
      BY <2>1, <2>2, <3>1 DEF RestartFix, Feed!RebootFix
    <3> QED
      BY <2>1, <3>2 DEF Feed!FeedNext, Feed!Reboot, Feed!Line, Line, Feed!Skip,
                        Feed!Bad, Feed!Garbage, Skip, Bad, Garbage
  <2>3. CASE RestartRoll(k) \/ RestartRollUnfixed(k)
    <3>1. PICK ls \in {<<>>, <<Skip>>} : files' = Append(files, ls)
      BY <2>3 DEF RestartRoll, RestartRollUnfixed
    <3>2. Feed!RebootRoll(ls)
      BY <2>1, <3>1 DEF Feed!RebootRoll
    <3> QED
      BY <3>1, <3>2 DEF Feed!FeedNext, Feed!Reboot, Feed!Skip, Skip
  <2>4. CASE RestartUnfixed(k)
    BY <2>1, <2>4 DEF RestartUnfixed, Feed!FeedNext, Feed!Reboot, Feed!RebootOnly
  <2> QED
    BY <1>4, <2>2, <2>3, <2>4 DEF Restart
<1>5. CASE UNCHANGED vars
  BY <1>5 DEF vars, Feed!feedVars
<1> QED
  BY <1>1, <1>2, <1>3, <1>4, <1>5 DEF Next, WriterStep

(***************************************************************************)
(* The manager implements the feed its readers rely on: through crashes,   *)
(* torn appends and failing calls, complete lines never change or          *)
(* disappear, only the newest file grows, and GetCurrentIndex is that of   *)
(* the newest file once a Write has opened one.                            *)
(***************************************************************************)
THEOREM BinlogImplementsLogFeed == Spec => RefinesLogFeed
<1>1. Init => Feed!FeedInit
  BY DEF Init, Feed!FeedInit, Feed!Skip, Skip
<1>2. FileInv /\ [Next]_vars => [Feed!FeedNext]_(Feed!feedVars)
  BY FeedStep
<1> QED
  BY <1>1, <1>2, InitFileInv, FileInvStep, PTL DEF Spec, RefinesLogFeed, Feed!FeedSpec

-----------------------------------------------------------------------------
\* Readable, without the unions.
LEMMA ReadableDef ==
    ASSUME NEW x
    PROVE  x \in Readable <=>
               \E i \in 1 .. Len(files) : \E p \in 1 .. Len(files[i]) : files[i][p] = x
BY DEF Readable, RangeOf

LEMMA ReadableDefPrime ==
    ASSUME NEW x
    PROVE  x \in Readable' <=>
               \E i \in 1 .. Len(files') : \E p \in 1 .. Len(files'[i]) : files'[i][p] = x
BY DEF Readable, RangeOf

\* Appending line l to file n makes l readable and takes nothing away.
LEMMA ExtendReadable ==
    ASSUME files \in Seq(Seq(Line)), NEW n \in 1 .. Len(files), NEW l \in Line,
           files' = [files EXCEPT ![n] = Append(@, l)]
    PROVE  Readable' = Readable \cup {l}
<1>1. /\ Len(files') = Len(files)
      /\ \A i \in 1 .. Len(files) : i # n => files'[i] = files[i]
      /\ files[n] \in Seq(Line)
      /\ Len(files'[n]) = Len(files[n]) + 1
      /\ \A p \in 1 .. Len(files[n]) : files'[n][p] = files[n][p]
      /\ files'[n][Len(files[n]) + 1] = l
  OBVIOUS
<1>2. \A i \in 1 .. Len(files) : Len(files[i]) \in Nat
  OBVIOUS
<1>3. ASSUME NEW x \in Readable
      PROVE  x \in Readable'
  <2>1. PICK i \in 1 .. Len(files) : \E p \in 1 .. Len(files[i]) : files[i][p] = x
    BY <1>3, ReadableDef
  <2>2. PICK p \in 1 .. Len(files[i]) : files[i][p] = x
    BY <2>1
  <2>3. i \in 1 .. Len(files') /\ p \in 1 .. Len(files'[i]) /\ files'[i][p] = x
    BY <1>1, <1>2, <2>2
  <2> QED
    BY <2>3, ReadableDefPrime
<1>4. l \in Readable'
  <2>1. n \in 1 .. Len(files') /\ Len(files[n]) + 1 \in 1 .. Len(files'[n])
    BY <1>1, <1>2
  <2> QED
    BY <1>1, <2>1, ReadableDefPrime
<1>5. ASSUME NEW x \in Readable'
      PROVE  x = l \/ x \in Readable
  <2>1. PICK i \in 1 .. Len(files') : \E p \in 1 .. Len(files'[i]) : files'[i][p] = x
    BY <1>5, ReadableDefPrime
  <2>2. PICK p \in 1 .. Len(files'[i]) : files'[i][p] = x
    BY <2>1
  <2>3. CASE i = n /\ p = Len(files[n]) + 1
    BY <1>1, <2>2, <2>3
  <2>4. CASE ~(i = n /\ p = Len(files[n]) + 1)
    <3>1. i \in 1 .. Len(files) /\ p \in 1 .. Len(files[i]) /\ files[i][p] = x
      BY <1>1, <1>2, <2>2, <2>4
    <3> QED
      BY <3>1, ReadableDef
  <2> QED
    BY <2>3, <2>4
<1> QED
  BY <1>3, <1>4, <1>5

\* So does creating a file that holds at most an empty line.
LEMMA NewFileReadable ==
    ASSUME files \in Seq(Seq(Line)), NEW ls \in {<<>>, <<Skip>>},
           files' = Append(files, ls)
    PROVE  Readable \subseteq Readable' /\ Readable' \subseteq Readable \cup {Skip}
<1>1. /\ Len(files') = Len(files) + 1
      /\ \A i \in 1 .. Len(files) : files'[i] = files[i]
      /\ files'[Len(files) + 1] = ls
      /\ Len(files) \in Nat
  <2>1. <<>> \in Seq(Line) /\ <<Skip>> \in Seq(Line)
    BY LineFacts
  <2> QED
    BY <2>1
<1>2. ASSUME NEW x \in Readable
      PROVE  x \in Readable'
  <2>1. PICK i \in 1 .. Len(files) : \E p \in 1 .. Len(files[i]) : files[i][p] = x
    BY <1>2, ReadableDef
  <2>2. i \in 1 .. Len(files') /\ files'[i] = files[i]
    BY <1>1
  <2> QED
    BY <2>1, <2>2, ReadableDefPrime
<1>3. ASSUME NEW x \in Readable'
      PROVE  x = Skip \/ x \in Readable
  <2>1. PICK i \in 1 .. Len(files') : \E p \in 1 .. Len(files'[i]) : files'[i][p] = x
    BY <1>3, ReadableDefPrime
  <2>2. CASE i = Len(files) + 1
    BY <1>1, <2>1, <2>2
  <2>3. CASE i # Len(files) + 1
    <3>1. i \in 1 .. Len(files) /\ files'[i] = files[i]
      BY <1>1, <2>3
    <3> QED
      BY <2>1, <3>1, ReadableDef
  <2> QED
    BY <2>2, <2>3
<1> QED
  BY <1>2, <1>3

\* Phantoms, without the bound on the places.
LEMMA PhantomsDef ==
    ASSUME NEW i, NEW p
    PROVE  <<i, p>> \in Phantoms <=>
               i \in 1 .. Len(files) /\ p \in 1 .. Len(files[i]) /\ files[i][p] = Garbage
BY DEF Phantoms

LEMMA PhantomsDefPrime ==
    ASSUME NEW i, NEW p
    PROVE  <<i, p>> \in Phantoms' <=>
               i \in 1 .. Len(files') /\ p \in 1 .. Len(files'[i]) /\ files'[i][p] = Garbage
BY DEF Phantoms

\* Appending a line makes up a record only if the line is one.
LEMMA ExtendPhantoms ==
    ASSUME files \in Seq(Seq(Line)), NEW n \in 1 .. Len(files), NEW l \in Line,
           files' = [files EXCEPT ![n] = Append(@, l)]
    PROVE  /\ Phantoms' \subseteq Phantoms \cup {<<n, Len(files[n]) + 1>>}
           /\ l # Garbage => Phantoms' \subseteq Phantoms
<1>1. /\ Len(files') = Len(files)
      /\ \A i \in 1 .. Len(files) : i # n => files'[i] = files[i]
      /\ Len(files'[n]) = Len(files[n]) + 1 /\ Len(files[n]) \in Nat
      /\ \A p \in 1 .. Len(files[n]) : files'[n][p] = files[n][p]
      /\ files'[n][Len(files[n]) + 1] = l
  <2>1. files[n] \in Seq(Line)
    OBVIOUS
  <2> QED
    BY <2>1, ExtendFile
<1>2. ASSUME NEW x \in Phantoms'
      PROVE  x \in Phantoms \/ (x = <<n, Len(files[n]) + 1>> /\ l = Garbage)
  <2>1. PICK i, p : x = <<i, p>>
    BY <1>2 DEF Phantoms
  <2>2. /\ i \in 1 .. Len(files') /\ p \in 1 .. Len(files'[i])
        /\ files'[i][p] = Garbage
    BY <1>2, <2>1, PhantomsDefPrime
  <2>3. CASE i = n /\ p = Len(files[n]) + 1
    BY <1>1, <2>1, <2>2, <2>3
  <2>4. CASE ~(i = n /\ p = Len(files[n]) + 1)
    <3>1. i \in 1 .. Len(files) /\ p \in 1 .. Len(files[i]) /\ files[i][p] = Garbage
      BY <1>1, <2>2, <2>4
    <3> QED
      BY <2>1, <3>1, PhantomsDef
  <2> QED
    BY <2>3, <2>4
<1> QED
  BY <1>2

\* A new file holds no record.
LEMMA NewFilePhantoms ==
    ASSUME files \in Seq(Seq(Line)), NEW ls \in {<<>>, <<Skip>>},
           files' = Append(files, ls)
    PROVE  Phantoms' \subseteq Phantoms
<1>1. /\ Len(files') = Len(files) + 1
      /\ \A i \in 1 .. Len(files) : files'[i] = files[i]
      /\ files'[Len(files) + 1] = ls
      /\ Len(files) \in Nat
  <2>1. <<>> \in Seq(Line) /\ <<Skip>> \in Seq(Line)
    BY LineFacts
  <2> QED
    BY <2>1
<1>2. \A p \in 1 .. Len(ls) : ls[p] # Garbage
  BY DEF Skip, Garbage
<1>3. ASSUME NEW x \in Phantoms'
      PROVE  x \in Phantoms
  <2>1. PICK i, p : x = <<i, p>>
    BY <1>3 DEF Phantoms
  <2>2. /\ i \in 1 .. Len(files') /\ p \in 1 .. Len(files'[i])
        /\ files'[i][p] = Garbage
    BY <1>3, <2>1, PhantomsDefPrime
  <2>3. i \in 1 .. Len(files) /\ files'[i] = files[i]
    BY <1>1, <1>2, <2>2
  <2> QED
    BY <2>1, <2>2, <2>3, PhantomsDef
<1> QED
  BY <1>3

\* Sets that do not grow, or grow by one element at most.
LEMMA NoLarger ==
    ASSUME NEW S, IsFiniteSet(S), NEW T, T \subseteq S
    PROVE  /\ IsFiniteSet(T) /\ Cardinality(T) \in Nat /\ Cardinality(S) \in Nat
           /\ Cardinality(T) <= Cardinality(S)
<1>1. IsFiniteSet(T) /\ Cardinality(T) <= Cardinality(S)
  BY FS_Subset, Zenon
<1> QED
  BY <1>1, FS_CardinalityType, Zenon

LEMMA OneLarger ==
    ASSUME NEW S, IsFiniteSet(S), NEW x, NEW T, T \subseteq S \cup {x}
    PROVE  /\ IsFiniteSet(T) /\ Cardinality(T) \in Nat /\ Cardinality(S) \in Nat
           /\ Cardinality(T) <= Cardinality(S) + 1
<1>1. /\ IsFiniteSet(S \cup {x}) /\ Cardinality(S) \in Nat
      /\ Cardinality(S \cup {x}) <= Cardinality(S) + 1
  <2>1. /\ IsFiniteSet(S \cup {x})
        /\ Cardinality(S \cup {x}) =
              IF x \in S THEN Cardinality(S) ELSE Cardinality(S) + 1
    BY FS_AddElement, Zenon
  <2>2. Cardinality(S) \in Nat
    BY FS_CardinalityType, Zenon
  <2> QED
    BY <2>1, <2>2
<1>2. /\ IsFiniteSet(T) /\ Cardinality(T) \in Nat
      /\ Cardinality(T) <= Cardinality(S \cup {x}) /\ Cardinality(S \cup {x}) \in Nat
  BY <1>1, NoLarger
<1> QED
  BY <1>1, <1>2

LEMMA PrefixFinite ==
    ASSUME NEW f, NEW n \in Nat
    PROVE  IsFiniteSet({f[j] : j \in 1 .. n})
<1> DEFINE T == {f[j] : j \in 1 .. n}
           g == [j \in 1 .. n |-> f[j]]
<1>1. IsFiniteSet(1 .. n)
  BY FS_Interval
<1>2. g \in Surjection(1 .. n, T)
  BY DEF Surjection
<1> HIDE DEF g, T
<1>3. IsFiniteSet(T)
  BY <1>1, <1>2, FS_Surjection
<1> QED
  BY <1>3 DEF T

\* What Write has in hand is finite, and records of the batch.
LEMMA LostFinite ==
    ASSUME FileInv, DamageInv
    PROVE  /\ IsFiniteSet(Added) /\ IsFiniteSet(RangeOf(batch))
           /\ IsFiniteSet(Pending) /\ IsFiniteSet(Lost)
<1>1. written \in Nat /\ Len(batch) \in Nat
  BY DEF FileInv, TypeOK
<1>2. /\ IsFiniteSet({batch[j] : j \in 1 .. written})
      /\ IsFiniteSet({batch[j] : j \in 1 .. Len(batch)})
  BY <1>1, PrefixFinite
<1>4. IsFiniteSet(Added) /\ IsFiniteSet(RangeOf(batch))
  BY <1>2, FS_EmptySet DEF Added, RangeOf
<1>5. IsFiniteSet(Pending)
  BY <1>4, FS_Union DEF Pending, DamageInv
<1> QED
  BY <1>4, <1>5, FS_Subset DEF Lost

\* A step that loses nothing and makes nothing up, for what is left of the
\* tail, keeps the bound; so does one that pays with a fault.
LEMMA NoDamage ==
    ASSUME IInv, FileInv', Lost' \subseteq Lost, Phantoms' \subseteq Phantoms,
           IsFiniteSet(acked'),
           \/ Torned' <= Torned /\ faults' >= faults
           \/ faults' = faults + 1
    PROVE  DamageInv'
<1>1. IsFiniteSet(Lost) /\ IsFiniteSet(Phantoms)
  BY LostFinite DEF IInv, DamageInv
<1>2. /\ Cardinality(Lost) \in Nat /\ Cardinality(Lost') \in Nat
      /\ Cardinality(Lost') <= Cardinality(Lost)
      /\ IsFiniteSet(Phantoms') /\ Cardinality(Phantoms) \in Nat
      /\ Cardinality(Phantoms') \in Nat
      /\ Cardinality(Phantoms') <= Cardinality(Phantoms)
  BY <1>1, NoLarger
<1>3. Torned \in {0, 1} /\ Torned' \in {0, 1} /\ faults \in Nat /\ faults' \in Nat
  BY DEF Torned, IInv, FileInv, TypeOK
<1>4. Cardinality(Lost) + Cardinality(Phantoms) + Torned <= faults
  BY DEF IInv, DamageInv
<1>5. Cardinality(Lost') + Cardinality(Phantoms') + Torned' <= faults'
  BY <1>2, <1>3, <1>4
<1> QED
  BY <1>2, <1>5 DEF DamageInv

\* Gluing a record to torn digits, or ending two torn records as one, costs
\* one, and nothing is torn any more.
LEMMA TornPays ==
    ASSUME IInv, FileInv', NEW x, NEW y,
           \/ Lost' \subseteq Lost \cup {x} /\ Phantoms' \subseteq Phantoms
           \/ Lost' \subseteq Lost /\ Phantoms' \subseteq Phantoms \cup {y},
           acked' = acked, Torned = 1, Torned' = 0, faults' = faults
    PROVE  DamageInv'
<1>1. IsFiniteSet(Lost) /\ IsFiniteSet(Phantoms)
  BY LostFinite DEF IInv, DamageInv
<1>2. /\ IsFiniteSet(Phantoms')
      /\ Cardinality(Lost) \in Nat /\ Cardinality(Lost') \in Nat
      /\ Cardinality(Phantoms) \in Nat /\ Cardinality(Phantoms') \in Nat
      /\ Cardinality(Lost') + Cardinality(Phantoms')
            <= Cardinality(Lost) + Cardinality(Phantoms) + 1
  <2>1. CASE Lost' \subseteq Lost \cup {x} /\ Phantoms' \subseteq Phantoms
    <3>1. /\ Cardinality(Lost) \in Nat /\ Cardinality(Lost') \in Nat
          /\ Cardinality(Lost') <= Cardinality(Lost) + 1
      BY <1>1, <2>1, OneLarger, Zenon
    <3>2. /\ IsFiniteSet(Phantoms')
          /\ Cardinality(Phantoms) \in Nat /\ Cardinality(Phantoms') \in Nat
          /\ Cardinality(Phantoms') <= Cardinality(Phantoms)
      BY <1>1, <2>1, NoLarger, Zenon
    <3> QED
      BY <3>1, <3>2
  <2>2. CASE Lost' \subseteq Lost /\ Phantoms' \subseteq Phantoms \cup {y}
    <3>1. /\ Cardinality(Lost) \in Nat /\ Cardinality(Lost') \in Nat
          /\ Cardinality(Lost') <= Cardinality(Lost)
      BY <1>1, <2>2, NoLarger, Zenon
    <3>2. /\ IsFiniteSet(Phantoms')
          /\ Cardinality(Phantoms) \in Nat /\ Cardinality(Phantoms') \in Nat
          /\ Cardinality(Phantoms') <= Cardinality(Phantoms) + 1
      BY <1>1, <2>2, OneLarger, Zenon
    <3> QED
      BY <3>1, <3>2
  <2> QED
    BY <2>1, <2>2
<1>3. faults \in Nat
  BY DEF IInv, FileInv, TypeOK
<1>4. Cardinality(Lost) + Cardinality(Phantoms) + 1 <= faults
  BY DEF IInv, DamageInv
<1>5. Cardinality(Lost') + Cardinality(Phantoms') + 0 <= faults'
  BY <1>2, <1>3, <1>4
<1> QED
  BY <1>2, <1>5 DEF IInv, DamageInv

\* A record is lost here only when torn digits stand before it.
LEMMA DamageAppend ==
    ASSUME IInv, AppendRecord
    PROVE  DamageInv'
<1> DEFINE r == batch[written + 1]
<1>0. /\ files \in Seq(Seq(Line)) /\ files # <<>>
      /\ cur + 1 \in 1 .. Len(files)
      /\ r \in Record /\ tail \in TailType
      /\ written \in Nat /\ faults' = faults /\ batch' = batch /\ pc = "append"
      /\ acked' = acked /\ written' = written + 1 /\ tail' = Tail0
  BY DEF IInv, FileInv, TypeOK, AppendRecord, AppendsToNewest, Progress
<1>1. Glued(tail, r) \in Line /\ Glued(tail, r) # Garbage
  BY <1>0, LineFacts, RecordAssumption DEF Glued, Class, Skip, Bad, Garbage, TailType
<1>2. Readable' = Readable \cup {Glued(tail, r)} /\ Phantoms' \subseteq Phantoms
  <2>1. files' = [files EXCEPT ![cur + 1] = Append(@, Glued(tail, r))]
    BY DEF AppendRecord
  <2> HIDE DEF r
  <2> QED
    BY <1>0, <1>1, <2>1, ExtendReadable, ExtendPhantoms
<1>3. FileInv' /\ Torned' = 0 /\ IsFiniteSet(acked')
  BY <1>0, AppendRecordFileInv DEF IInv, DamageInv, Torned, Tail0
<1>4. Added' \subseteq Added \cup {r}
  <2>1. ASSUME NEW x \in Added' PROVE x \in Added \cup {r}
    <3>1. PICK j \in 1 .. written + 1 : x = batch[j]
      BY <1>0, <2>1 DEF Added
    <3>2. CASE j = written + 1
      BY <3>1, <3>2
    <3>3. CASE j # written + 1
      BY <1>0, <3>1, <3>3 DEF Added
    <3> QED
      BY <3>2, <3>3
  <2> QED
    BY <2>1
<1>5. CASE tail.len = 0
  <2>1. Glued(tail, r) = r
    BY <1>5 DEF Glued
  <2>2. Lost' \subseteq Lost
    BY <1>0, <1>2, <1>4, <2>1 DEF Lost, Pending
  <2>3. Torned' <= Torned /\ faults' >= faults
    BY <1>0, <1>3, <1>5 DEF Torned, IInv, FileInv, TypeOK
  <2> QED
    BY <1>2, <1>3, <2>2, <2>3, NoDamage
<1>6. CASE tail.len # 0
  <2>1. Lost' \subseteq Lost \cup {r}
    BY <1>0, <1>2, <1>4 DEF Lost, Pending
  <2>2. Torned = 1
    BY <1>6 DEF Torned
  <2> QED
    BY <1>0, <1>2, <1>3, <2>1, <2>2, TornPays
<1> QED
  BY <1>5, <1>6

\* A step that ends the Write, or begins one, and only adds to the files.
LEMMA LostEnds ==
    ASSUME Readable \subseteq Readable', acked' = acked, Added' = {}
    PROVE  Lost' \subseteq Lost
BY DEF Lost, Pending

\* A boot makes a record up only of digits that were torn before.
LEMMA DamageRestart ==
    ASSUME IInv, NEW k \in 0 .. EncLen, Restart(k)
    PROVE  DamageInv'
<1>0. /\ Reset(k) /\ FileInv /\ TypeOK /\ FileInv'
  BY RestartFileInv
     DEF IInv, FileInv, Restart, RestartFix, RestartRoll, RestartUnfixed, RestartRollUnfixed
<1>1. /\ pc' = "idle" /\ acked' = acked /\ Closed(TailAtCrash(k)) \in Line
      /\ IsFiniteSet(acked')
  BY <1>0, ResetFacts DEF IInv, DamageInv
<1>2. Added' = {}
  BY <1>1 DEF Added
<1>3. files \in Seq(Seq(Line)) /\ files # <<>> /\ faults \in Nat /\ tail.len \in Nat
  BY <1>0 DEF TypeOK, TailType
<1>4. CASE RestartFix(k)
  <2> DEFINE n == Len(files)
             l == Closed(TailAtCrash(k))
  <2>1. Latest = n /\ n \in 1 .. Len(files)
    BY <1>0, <1>3, <1>4, NotFullIsNewest DEF RestartFix
  <2>2. /\ files' = [files EXCEPT ![n] = Append(@, l)]
        /\ tail' = Tail0 /\ faults' = faults
    BY <1>4, <2>1 DEF RestartFix
  <2>3. /\ Readable' = Readable \cup {l}
        /\ Phantoms' \subseteq Phantoms \cup {<<n, Len(files[n]) + 1>>}
        /\ l # Garbage => Phantoms' \subseteq Phantoms
    <3>1. n \in 1 .. Len(files) /\ l \in Line
      BY <1>1, <2>1
    <3> HIDE DEF n, l
    <3> QED
      BY <1>3, <2>2, <3>1, ExtendReadable, ExtendPhantoms
  <2>4. Lost' \subseteq Lost
    BY <1>1, <1>2, <2>3, LostEnds
  <2>5. Torned' = 0
    BY <2>2 DEF Torned, Tail0
  <2>6. CASE tail.len = 0
    <3>1. l # Garbage
      <4>1. CASE pc = "append" /\ k # 0
        <5>1. batch[written + 1] \in Record
          BY <1>0, <4>1, SMTT(30) DEF FileInv, TypeOK, Progress
        <5>2. /\ TailAtCrash(k).len = k
              /\ TailAtCrash(k).rec = batch[written + 1]
          BY <2>6, <4>1 DEF TailAtCrash, Torn
        <5> QED
          BY <5>1, <5>2, LineFacts, RecordAssumption
             DEF Closed, Class, Skip, Bad, Garbage
      <4>2. CASE ~(pc = "append" /\ k # 0)
        <5>1. TailAtCrash(k).len = 0
          BY <2>6, <4>2 DEF TailAtCrash, Torn
        <5> QED
          BY <5>1, EncLenAssumption DEF Closed, Class, Skip, Bad, Garbage
      <4> QED
        BY <4>1, <4>2
    <3>2. Torned' <= Torned /\ faults' >= faults
      BY <1>3, <2>2, <2>5, <2>6 DEF Torned
    <3> QED
      BY <1>0, <1>1, <2>3, <2>4, <3>1, <3>2, NoDamage
  <2>7. CASE tail.len # 0
    <3>1. Torned = 1
      BY <2>7 DEF Torned
    <3> QED
      BY <1>0, <1>1, <2>2, <2>3, <2>4, <2>5, <3>1, TornPays
  <2> QED
    BY <2>6, <2>7
<1>5. CASE RestartRoll(k) \/ RestartRollUnfixed(k)
  <2>1. PICK ls \in {<<>>, <<Skip>>} : files' = Append(files, ls)
    BY <1>5 DEF RestartRoll, RestartRollUnfixed
  <2>2. Readable \subseteq Readable' /\ Phantoms' \subseteq Phantoms
    BY <1>3, <2>1, NewFileReadable, NewFilePhantoms
  <2>3. Torned' <= Torned /\ faults' >= faults
    BY <1>3, <1>5 DEF RestartRoll, RestartRollUnfixed, Fault, Torned, Tail0
  <2> QED
    BY <1>0, <1>1, <1>2, <2>2, <2>3, LostEnds, NoDamage
<1>6. CASE RestartUnfixed(k)
  <2>1. files' = files /\ faults' = faults + 1
    BY <1>6 DEF RestartUnfixed, Fault
  <2>2. Readable' = Readable /\ Phantoms' = Phantoms
    BY <2>1 DEF Readable, Phantoms
  <2> QED
    BY <1>0, <1>1, <1>2, <2>1, <2>2, LostEnds, NoDamage
<1> QED
  BY <1>4, <1>5, <1>6 DEF Restart

LEMMA DamageOther ==
    ASSUME IInv, [Next]_vars, ~AppendRecord, \A k \in 0 .. EncLen : ~Restart(k)
    PROVE  DamageInv'
<1>0. /\ files \in Seq(Seq(Line)) /\ faults \in Nat /\ FileInv' /\ IsFiniteSet(acked)
      /\ FileInv
  BY FileInvStep DEF IInv, FileInv, TypeOK, DamageInv
<1>1. ASSUME NEW b \in Batches, WriteOpen(b)
      PROVE  DamageInv'
  <2>1. Readable \subseteq Readable' /\ Phantoms' \subseteq Phantoms
    <3>1. CASE files' = files
      BY <3>1 DEF Readable, Phantoms
    <3>2. CASE files' = Append(files, <<>>)
      BY <1>0, <3>2, NewFileReadable, NewFilePhantoms
    <3> QED
      BY <1>1, <3>1, <3>2 DEF WriteOpen, WriteHere, WriteReopen, WriteRoll
  <2>2. /\ written' = 0 /\ acked' = acked /\ faults' = faults
        /\ tail' = tail \/ tail' = Tail0
    BY <1>1 DEF WriteOpen, WriteHere, WriteReopen, WriteRoll, Enter
  <2>3. Added' = {}
    BY <2>2 DEF Added
  <2>4. Torned' <= Torned /\ faults' >= faults
    BY <1>0, <2>2 DEF Torned, Tail0
  <2> QED
    BY <1>0, <2>1, <2>2, <2>3, <2>4, LostEnds, NoDamage
<1>2. CASE Count
  <2>1. /\ written = Len(batch) /\ acked' = acked \cup RangeOf(batch)
        /\ pc = "count" /\ pc' = "idle" /\ files' = files /\ tail' = tail
        /\ faults' = faults
    BY <1>0, <1>2 DEF Count, FileInv, Progress
  <2>2. Readable' = Readable /\ Phantoms' = Phantoms /\ Torned' = Torned
    BY <2>1 DEF Readable, Phantoms, Torned
  <2>3. Added = RangeOf(batch) /\ Added' = {}
    BY <2>1 DEF Added, RangeOf
  <2>4. Lost' \subseteq Lost
    BY <2>1, <2>2, <2>3 DEF Lost, Pending
  <2>5. IsFiniteSet(acked')
    BY <1>0, <2>1, LostFinite, FS_Union DEF IInv
  <2>6. Torned' <= Torned /\ faults' >= faults
    BY <1>0, <2>1, <2>2 DEF Torned
  <2> QED
    BY <1>0, <2>2, <2>4, <2>5, <2>6, NoDamage
<1>3. CASE CountOverflows \/ UNCHANGED vars
  <2>1. /\ files' = files /\ tail' = tail /\ acked' = acked /\ faults' = faults
        /\ written' = written /\ batch' = batch
        /\ pc' = pc \/ pc' \in {"idle", "dead"}
    BY <1>3 DEF CountOverflows, vars
  <2>2. Readable' = Readable /\ Phantoms' = Phantoms /\ Torned' = Torned
    BY <2>1 DEF Readable, Phantoms, Torned
  <2>3. Added' \subseteq Added
    BY <2>1 DEF Added
  <2>4. Lost' \subseteq Lost
    BY <2>1, <2>2, <2>3 DEF Lost, Pending
  <2>5. Torned' <= Torned /\ faults' >= faults
    BY <1>0, <2>1, <2>2 DEF Torned
  <2> QED
    BY <1>0, <2>1, <2>2, <2>4, <2>5, NoDamage
<1>4. CASE WriteOpenFails \/ CountFails \/ \E k \in 0 .. EncLen : AppendFails(k)
  <2>1. /\ faults' = faults + 1 /\ files' = files /\ acked' = acked
        /\ batch' = batch /\ written' = written
        /\ pc' \in {pc, "idle", "stuck"}
    BY <1>4 DEF WriteOpenFails, CountFails, AppendFails, Fault
  <2>2. Readable' = Readable /\ Phantoms' = Phantoms
    BY <2>1 DEF Readable, Phantoms
  <2>3. Added' \subseteq Added
    BY <2>1 DEF Added
  <2>4. Lost' \subseteq Lost
    BY <2>1, <2>2, <2>3 DEF Lost, Pending
  <2> QED
    BY <1>0, <2>1, <2>2, <2>4, NoDamage
<1> QED
  BY <1>1, <1>2, <1>3, <1>4 DEF Next, WriterStep

\* The inductive invariant.
LEMMA BinlogInvariant == Spec => []IInv
<1>1. Init => IInv
  <2> SUFFICES ASSUME Init PROVE DamageInv
    BY InitFileInv DEF IInv
  <2>1. acked = {} /\ pc = "idle" /\ tail.len = 0 /\ faults = 0
    BY DEF Init, Tail0
  <2>2. Phantoms = {}
    BY DEF Init, Phantoms, Garbage, Skip
  <2>3. Lost = {} /\ Torned = 0
    BY <2>1 DEF Lost, Pending, Added, Torned
  <2> QED
    BY <2>1, <2>2, <2>3, FS_EmptySet DEF DamageInv
<1>2. IInv /\ [Next]_vars => IInv'
  BY FileInvStep, DamageAppend, DamageRestart, DamageOther DEF IInv
<1> QED
  BY <1>1, <1>2, PTL DEF Spec

LEMMA BoundFollows == IInv => DamageBounded
<1> SUFFICES ASSUME IInv PROVE DamageBounded
  OBVIOUS
<1>1. IsFiniteSet(Lost) /\ IsFiniteSet(Phantoms) /\ acked \ Readable \subseteq Lost
  BY LostFinite DEF IInv, DamageInv, Lost, Pending
<1>2. /\ Cardinality(acked \ Readable) \in Nat /\ Cardinality(Lost) \in Nat
      /\ Cardinality(acked \ Readable) <= Cardinality(Lost)
      /\ Cardinality(Phantoms) \in Nat
  BY <1>1, NoLarger
<1>3. /\ Cardinality(Lost) + Cardinality(Phantoms) + Torned <= faults
      /\ Torned \in {0, 1} /\ faults \in Nat
  BY DEF IInv, FileInv, TypeOK, DamageInv, Torned
<1> QED
  BY <1>2, <1>3 DEF DamageBounded

(***************************************************************************)
(* Failing calls cost at most one record each: the acknowledged records    *)
(* nobody can read and the records nobody wrote are together no more than  *)
(* the calls that failed, however often the process crashed.               *)
(***************************************************************************)
THEOREM FaultsBoundDamage == Spec => []DamageBounded
BY BinlogInvariant, BoundFollows, PTL

(***************************************************************************)
(* Crashes alone lose no record that Write returned nil for, and never     *)
(* make up a record: as long as no system call failed, what was            *)
(* acknowledged is readable and what is readable was written.              *)
(***************************************************************************)
THEOREM AckedSurvivesCrashes ==
    Spec => [](faults = 0 => acked \subseteq Readable /\ Garbage \notin Readable)
<1>1. IInv => (faults = 0 => acked \subseteq Readable /\ Garbage \notin Readable)
  <2> SUFFICES ASSUME IInv, faults = 0
               PROVE  acked \subseteq Readable /\ Garbage \notin Readable
    OBVIOUS
  <2>1. IsFiniteSet(acked \ Readable) /\ IsFiniteSet(Phantoms)
    BY FS_Subset DEF IInv, DamageInv
  <2>2. Cardinality(acked \ Readable) \in Nat /\ Cardinality(Phantoms) \in Nat
    BY <2>1, FS_CardinalityType
  <2>3. Cardinality(acked \ Readable) = 0 /\ Cardinality(Phantoms) = 0
    BY <2>2, BoundFollows DEF DamageBounded
  <2>4. acked \ Readable = {} /\ Phantoms = {}
    BY <2>1, <2>3, FS_EmptySet
  <2>5. Garbage \notin Readable
    BY <2>4, ReadableDef, PhantomsDef
  <2> QED
    BY <2>4, <2>5
<1> QED
  BY <1>1, BinlogInvariant, PTL
=============================================================================
