--------------------------- MODULE BinlogPushProofs -------------------------
(***************************************************************************)
(* Proofs about BinlogPush for every number of trackers and pushers, batch *)
(* size, and number of files, lines, restarts and failures.                *)
(***************************************************************************)
EXTENDS BinlogPush, LogFeedProofs

\* Everything valid in the first n lines of file i was acknowledged by t.
AckedUpTo(t, i, n) ==
    /\ i <= Len(files)
    /\ n <= Len(files[i])
    /\ \A q \in ValidIn(files[i], 0, n) : files[i][q] \in acked[t]

\* Position c is one in an existing file.  Everything before it was
\* acknowledged, unless the file was taken up with an offset of another one.
Reached(t, c) ==
    /\ c.fi < Len(files)
    /\ c.fi \in mixed[t] \/ (c.rest = Whole /\ AckedUpTo(t, c.fi + 1, c.off))

AtStart(c) == c.off = 0 /\ c.rest = Whole

(***************************************************************************)
(* A pusher inherits what was acknowledged from the position it read, and  *)
(* adds its batch once the tracker answered; a stale position of one       *)
(* pusher is a position that was true, and stays true as files only grow.  *)
(* A pair of two positions is one in a file that is in mixed from then on. *)
(***************************************************************************)
PusherInv(p) ==
    LET s == pusher[p]
        t == Target(p)
    IN  /\ s.pc \notin {"idle", "again"} => Reached(t, s)
        /\ s.pc \in {"push", "check", "save"} /\ s.fi \notin mixed[t] =>
               s.off <= s.end /\ s.end <= Len(files[s.fi + 1])
        /\ s.pc \in {"check", "save"} /\ s.fi \notin mixed[t] =>
               AckedUpTo(t, s.fi + 1, s.end)
        /\ s.pc = "roll" => s.fi + 1 < Len(files)
        /\ s.pc \in {"pos0", "index"} /\ "index" \in unset[t] => AtStart(s)
        /\ s.pc = "index0" => AtStart(s)

IInv ==
    /\ TypeOK
    /\ cur < Len(files)
    /\ \A t \in Tracker : Reached(t, cursor[t])
    /\ \A t \in Tracker : unset[t] # {} => cursor[t] = Start
    /\ \A p \in Pusher : PusherInv(p)

-----------------------------------------------------------------------------
LEMMA FilesGrow == IInv /\ [Next]_vars => Grown
<1> SUFFICES ASSUME IInv, [Next]_vars PROVE Grown
  OBVIOUS
<1>1. files \in Seq(Seq(Line)) /\ files # <<>>
  BY DEF IInv, TypeOK, FeedTypeOK
<1>2. <<>> \in Seq(Line) /\ <<Skip>> \in Seq(Line)
  BY DEF Line
<1>3. CASE FeedStep
  <2>1. ASSUME NEW l \in Line, AppendLine(l) PROVE Grown
    BY <1>1, <2>1, ExtendGrows DEF AppendLine
  <2>2. CASE OpenLast
    BY <1>1, <2>2, SameGrows DEF OpenLast
  <2>3. CASE Roll
    BY <1>1, <1>2, <2>3, NewFileGrows DEF Roll
  <2> QED
    BY <1>3, <2>1, <2>2, <2>3 DEF FeedStep
<1>4. CASE Restart
  <2>1. ASSUME NEW l \in Line, RebootFix(l) PROVE Grown
    BY <1>1, <2>1, ExtendGrows DEF RebootFix
  <2>2. CASE RebootOnly
    BY <1>1, <2>2, SameGrows DEF RebootOnly
  <2>3. CASE RebootRoll(<<Skip>>)
    BY <1>1, <1>2, <2>3, NewFileGrows DEF RebootRoll
  <2> QED
    BY <1>4, <2>1, <2>2, <2>3 DEF Restart
<1>5. CASE files' = files
  BY <1>1, <1>5, SameGrows
<1> QED
  BY <1>3, <1>4, <1>5
     DEF Next, Learn, PusherStep, GetPosition, PutPosition0, GetIndex, PutIndex0,
         StatusFails, ReadBatch, PushBinlog, PushFails,
         Check, SetPusherStatus, PeerPush, vars

\* What was acknowledged stays so while files and acknowledgements grow.
LEMMA AckedStays ==
    ASSUME IInv, Grown, NEW t \in Tracker, NEW i \in Nat \ {0}, NEW n \in Nat,
           acked[t] \subseteq acked'[t], AckedUpTo(t, i, n)
    PROVE  AckedUpTo(t, i, n)'
<1>1. /\ files \in Seq(Seq(Line)) /\ i \in 1 .. Len(files)
      /\ Len(files[i]) \in Nat
  BY DEF IInv, TypeOK, FeedTypeOK, AckedUpTo
<1>2. /\ Len(files) <= Len(files') /\ Len(files') \in Nat
      /\ Len(files[i]) <= Len(files'[i]) /\ Len(files'[i]) \in Nat
      /\ \A q \in 1 .. n : files'[i][q] = files[i][q]
  <2>1. /\ Len(files) <= Len(files')
        /\ Len(files[i]) <= Len(files'[i])
        /\ \A q \in 1 .. Len(files[i]) : files'[i][q] = files[i][q]
    BY <1>1 DEF Grown
  <2>2. Len(files') \in Nat /\ i \in 1 .. Len(files')
    BY <1>1, <2>1 DEF Grown
  <2>3. Len(files'[i]) \in Nat
    BY <2>2 DEF Grown
  <2>4. 1 .. n \subseteq 1 .. Len(files[i])
    BY <1>1 DEF AckedUpTo
  <2> QED
    BY <2>1, <2>2, <2>3, <2>4
<1>3. i <= Len(files') /\ n <= Len(files'[i])
  BY <1>1, <1>2 DEF AckedUpTo
<1>4. ASSUME NEW q \in ValidIn(files'[i], 0, n) PROVE files'[i][q] \in acked'[t]
  BY <1>2, <1>4 DEF ValidIn, AckedUpTo
<1> QED
  BY <1>3, <1>4 DEF AckedUpTo

-----------------------------------------------------------------------------
\* A position taken for one of another file is a position all the same.
LEMMA InPosition ==
    ASSUME NEW c \in Position, NEW i \in Nat, NEW x \in In(c, i)
    PROVE  /\ x \in Position /\ x.fi = i
           /\ Foreign(c, i) \/ (x.off = c.off /\ x.rest = c.rest)
<1>1. 0 .. MaxLines \subseteq Nat
  BY PushAssumption
<1>2. PICK l \in Landing(c, i) : x = [c EXCEPT !.fi = i, !.off = l[1], !.rest = l[2]]
  BY DEF In
<1>3. l[1] \in Nat /\ l[2] \in {Whole, Skip, Bad, Garbage}
  BY <1>1 DEF Landing, Position
<1>4. x \in Position /\ x.fi = i /\ x.off = l[1] /\ x.rest = l[2]
  BY <1>2, <1>3 DEF Position
<1> QED
  BY <1>4 DEF Landing

LEMMA InPusher ==
    ASSUME NEW c \in PusherState, NEW i \in Nat, NEW x \in In(c, i)
    PROVE  /\ x \in PusherState /\ x.fi = i
           /\ Foreign(c, i) \/ (x.off = c.off /\ x.rest = c.rest)
<1>1. 0 .. MaxLines \subseteq Nat
  BY PushAssumption
<1>2. PICK l \in Landing(c, i) : x = [c EXCEPT !.fi = i, !.off = l[1], !.rest = l[2]]
  BY DEF In
<1>3. l[1] \in Nat /\ l[2] \in {Whole, Skip, Bad, Garbage}
  BY <1>1 DEF Landing, PusherState
<1>4. x \in PusherState /\ x.fi = i /\ x.off = l[1] /\ x.rest = l[2]
  BY <1>2, <1>3 DEF PusherState
<1> QED
  BY <1>4 DEF Landing

\* A line of which only the rest is read is one line still.
LEMMA SeenLen ==
    ASSUME TypeOK, NEW s \in PusherState, s.fi + 1 \in 1 .. Len(files)
    PROVE  /\ Len(Seen(s)) = Len(files[s.fi + 1]) /\ Len(Seen(s)) \in Nat
           /\ s.rest = Whole => Seen(s) = files[s.fi + 1]
<1>1. files \in Seq(Seq(Line)) /\ files[s.fi + 1] \in Seq(Line)
  BY DEF TypeOK, FeedTypeOK
<1>2. PICK file \in Seq(Line) : file = files[s.fi + 1]
  BY <1>1
<1>3. CASE Seen(s) = file
  BY <1>2, <1>3 DEF Seen
<1>4. CASE Seen(s) # file
  <2>1. Seen(s) = [file EXCEPT ![s.off + 1] = s.rest] /\ s.rest # Whole
    BY <1>2, <1>4 DEF Seen
  <2>2. Len([file EXCEPT ![s.off + 1] = s.rest]) = Len(file)
    BY <1>2
  <2> QED
    BY <1>2, <2>1, <2>2
<1> QED
  BY <1>3, <1>4

\* Read returns an offset, also when it was given one beyond the end.
LEMMA ReadEndNat ==
    ASSUME NEW file, Len(file) \in Nat, NEW off \in Nat, NEW n \in Nat
    PROVE  ReadEnd(file, off, n) \in Nat
<1>1. LinesRead(file, off, n) \subseteq off + 1 .. Len(file)
  BY DEF LinesRead
<1>2. IsFiniteSet(off + 1 .. Len(file))
  BY FS_Interval
<1>3. Cardinality(LinesRead(file, off, n)) \in Nat
  BY <1>1, <1>2, FS_Subset, FS_CardinalityType
<1> QED
  BY <1>3 DEF ReadEnd

-----------------------------------------------------------------------------
LEMMA InitIInv == Init => IInv
<1> SUFFICES ASSUME Init PROVE IInv
  OBVIOUS
<1>1. files = << <<Skip>> >> /\ cur = 0 /\ NTrackers \in Nat
  BY PushAssumption DEF Init, FeedInit
<1>2. /\ Len(files) = 1 /\ Len(files[1]) = 1
      /\ files \in Seq(Seq(Line)) /\ files # <<>>
  BY <1>1 DEF Line
<1>3. TypeOK
  BY <1>1, <1>2
     DEF Init, TypeOK, FeedTypeOK, Position, Start, PusherState, Idle
<1>4. ASSUME NEW t \in Tracker PROVE cursor[t] = Start /\ Reached(t, cursor[t])
  <2>1. cursor[t] = Start
    BY DEF Init
  <2>2. cursor[t].fi = 0 /\ cursor[t].fi + 1 = 1 /\ cursor[t].off = 0 /\ cursor[t].rest = Whole
    BY <2>1 DEF Start
  <2>3. AckedUpTo(t, 1, 0)
    BY <1>2 DEF AckedUpTo, ValidIn
  <2> QED
    BY <1>2, <2>1, <2>2, <2>3 DEF Reached
<1>5. ASSUME NEW p \in Pusher PROVE PusherInv(p)
  BY DEF Init, PusherInv, Idle
<1> QED
  BY <1>1, <1>2, <1>3, <1>4, <1>5 DEF IInv

LEMMA TypeStep == IInv /\ [Next]_vars => TypeOK'
<1> SUFFICES ASSUME IInv, [Next]_vars PROVE TypeOK'
  OBVIOUS
<1>1. /\ files' \in Seq(Seq(Line)) /\ files' # <<>>
  BY FilesGrow DEF Grown
<1>2. TypeOK /\ Len(files) \in Nat
  BY DEF IInv, TypeOK, FeedTypeOK
<1>3. ASSUME NEW p \in Pusher
      PROVE  Target(p) \in Tracker /\ pusher[p] \in PusherState
  BY <1>2, PushAssumption DEF TypeOK, Target, Tracker, Pusher
<1>4. Idle \in PusherState /\ [Idle EXCEPT !.pc = "again"] \in PusherState
  BY DEF Idle, PusherState
<1>5. CASE FeedStep
  <2>1. late' \subseteq (Nat \X Nat)
    <3>1. /\ Len(files) \in 1 .. Len(files) /\ Len(files) \in Nat
          /\ Len(files[Len(files)]) \in Nat
      BY <1>2 DEF TypeOK, FeedTypeOK
    <3>2. ASSUME NEW p \in Pusher
          PROVE  ValidIn(files[Len(files)], pusher[p].end, Len(files[Len(files)])) \subseteq Nat
      <4>1. pusher[p].end \in Nat
        BY <1>3 DEF PusherState
      <4> QED
        BY <3>1, <4>1 DEF ValidIn
    <3>3. Unseen \subseteq Nat \X Nat
      <4> DEFINE U == UNION {ValidIn(files[Len(files)], pusher[p].end,
                                     Len(files[Len(files)])) :
                             p \in {x \in Pusher : AtItsEnd(x)}}
      <4>1. U \subseteq Nat
        BY <3>2
      <4>2. Unseen = {<<Len(files), q>> : q \in U}
        BY Zenon DEF Unseen
      <4> HIDE DEF U
      <4> QED
        BY <3>1, <4>1, <4>2
    <3> QED
      BY <1>2, <1>5, <3>3 DEF FeedStep, TypeOK
  <2>2. cur' \in Nat
    BY <1>2, <1>5
       DEF FeedStep, AppendLine, OpenLast, Last, Roll, TypeOK, FeedTypeOK, IInv
  <2>3. UNCHANGED <<known, cursor, unset, pusher, dataset, acked, mixed, reboots, faults>>
    BY <1>5 DEF FeedStep
  <2> QED
    BY <1>1, <1>2, <2>1, <2>2, <2>3 DEF TypeOK, FeedTypeOK
<1>6. CASE Restart
  <2>1. cur' = 0
    BY <1>6 DEF Restart, RebootFix, RebootRoll, RebootOnly
  <2>2. reboots' \in Nat
    BY <1>2, <1>6 DEF Restart, TypeOK
  <2>3. known' \in [Tracker -> BOOLEAN] /\ pusher' \in [Pusher -> PusherState]
    BY <1>4, <1>6 DEF Restart
  <2>4. UNCHANGED <<cursor, unset, dataset, acked, late, mixed, faults>>
    BY <1>6 DEF Restart
  <2> QED
    BY <1>1, <1>2, <2>1, <2>2, <2>3, <2>4 DEF TypeOK, FeedTypeOK
<1>7. ASSUME NEW t \in Tracker, Learn(t) PROVE TypeOK'
  BY <1>2, <1>7 DEF Learn, TypeOK, FeedTypeOK
<1>8. ASSUME NEW t \in Tracker, NEW r \in Valid, PeerPush(t, r) PROVE TypeOK'
  BY <1>2, <1>8 DEF PeerPush, TypeOK, FeedTypeOK
<1>9. ASSUME NEW p \in Pusher, PusherStep(p) PROVE TypeOK'
  <2>0. /\ cursor \in [Tracker -> Position] /\ cursor[Target(p)] \in Position
        /\ unset \in [Tracker -> SUBSET {"pos", "index"}]
        /\ mixed \in [Tracker -> SUBSET Nat]
        /\ pusher \in [Pusher -> PusherState]
    BY <1>2, <1>3 DEF TypeOK
  <2>1. CASE GetPosition(p) \/ PutPosition0(p) \/ StatusFails(p)
    <3>1. pusher' \in [Pusher -> PusherState]
      <4>1. CASE GetPosition(p)
        BY <2>0, <4>1 DEF GetPosition, PusherState, Position
      <4>2. CASE PutPosition0(p)
        <5>1. pusher' = [pusher EXCEPT ![p].pc = "index"]
          BY <4>2 DEF PutPosition0
        <5> QED
          BY <2>0, <5>1 DEF PusherState
      <4>3. CASE StatusFails(p)
        BY <1>4, <2>0, <4>3 DEF StatusFails
      <4> QED
        BY <2>1, <4>1, <4>2, <4>3
    <3>2. cursor' \in [Tracker -> Position] /\ unset' \in [Tracker -> SUBSET {"pos", "index"}]
      <4>1. \/ UNCHANGED <<cursor, unset>>
            \/ /\ cursor' = [cursor EXCEPT ![Target(p)].off = 0, ![Target(p)].rest = Whole]
               /\ unset' = [unset EXCEPT ![Target(p)] = @ \ {"pos"}]
        BY <2>1 DEF GetPosition, PutPosition0, StatusFails
      <4>2. [cursor EXCEPT ![Target(p)].off = 0, ![Target(p)].rest = Whole]
               \in [Tracker -> Position]
        BY <1>3, <2>0 DEF Position
      <4> QED
        BY <2>0, <4>1, <4>2
    <3> QED
      BY <1>2, <2>1, <3>1, <3>2
         DEF GetPosition, PutPosition0, StatusFails, Fault, TypeOK, FeedTypeOK
  <2>6. CASE GetIndex(p)
    <3>1. pusher' \in [Pusher -> PusherState]
      <4>1. CASE pusher' = [pusher EXCEPT ![p].pc = "index0"]
        BY <2>0, <4>1 DEF PusherState
      <4>2. ASSUME NEW c \in In(pusher[p], cursor[Target(p)].fi),
                   pusher' = [pusher EXCEPT ![p] = [c EXCEPT !.pc = "read"]]
            PROVE  pusher' \in [Pusher -> PusherState]
        <5>1. c \in PusherState
          BY <1>3, <2>0, InPusher DEF Position
        <5>2. [c EXCEPT !.pc = "read"] \in PusherState
          BY <5>1 DEF PusherState
        <5> QED
          BY <2>0, <4>2, <5>2
      <4> QED
        BY <2>6, <4>1, <4>2 DEF GetIndex
    <3>2. mixed' \in [Tracker -> SUBSET Nat]
      BY <2>0, <2>6 DEF GetIndex, Mix, Position
    <3> QED
      BY <1>2, <2>6, <3>1, <3>2 DEF GetIndex, TypeOK, FeedTypeOK
  <2>7. CASE PutIndex0(p)
    <3>1. pusher' \in [Pusher -> PusherState]
      <4>1. pusher' = [pusher EXCEPT ![p].pc = "read", ![p].fi = 0]
        BY <2>7 DEF PutIndex0
      <4> QED
        BY <2>0, <4>1 DEF PusherState
    <3>2. cursor' \in [Tracker -> Position] /\ unset' \in [Tracker -> SUBSET {"pos", "index"}]
      <4>1. \A c \in In(cursor[Target(p)], 0) : c \in Position
        BY <2>0, InPosition
      <4>2. \/ UNCHANGED <<cursor, unset>>
            \/ /\ \E c \in In(cursor[Target(p)], 0) :
                     cursor' = [cursor EXCEPT ![Target(p)] = c]
               /\ unset' = [unset EXCEPT ![Target(p)] = @ \ {"index"}]
        BY <2>7 DEF PutIndex0
      <4> QED
        BY <2>0, <4>1, <4>2
    <3>3. mixed' \in [Tracker -> SUBSET Nat]
      BY <2>0, <2>7 DEF PutIndex0, Mix
    <3> QED
      BY <1>2, <2>7, <3>1, <3>2, <3>3 DEF PutIndex0, Fault, TypeOK, FeedTypeOK
  <2>2. CASE ReadBatch(p)
    <3> DEFINE s == pusher[p]
               end == ReadEnd(Seen(s), s.off, BatchSize)
    <3>1. s.fi + 1 \in 1 .. Len(files) /\ s.off \in Nat /\ Target(p) \in Tracker
      BY <1>2, <1>3, <2>2 DEF ReadBatch, IInv, PusherInv, Reached, PusherState
    <3>2. Len(Seen(s)) \in Nat
      BY <1>2, <1>3, <3>1, SeenLen
    <3>3. end \in Nat
      BY <3>1, <3>2, ReadEndNat, PushAssumption
    <3>4. pusher' \in [Pusher -> PusherState]
      <4>1. \A c \in {"check", "push"} : [s EXCEPT !.pc = c, !.end = end] \in PusherState
        <5> HIDE DEF end
        <5> QED
          BY <1>3, <3>3 DEF PusherState
      <4> HIDE DEF end
      <4>2. \E c \in {"check", "push"} :
               \/ pusher' = [pusher EXCEPT ![p] = Idle]
               \/ pusher' = [pusher EXCEPT ![p] = [s EXCEPT !.pc = c, !.end = end]]
        BY <2>2 DEF ReadBatch, end
      <4> QED
        BY <1>2, <1>4, <4>1, <4>2 DEF TypeOK
    <3> QED
      BY <1>2, <2>2, <3>4 DEF ReadBatch, TypeOK, FeedTypeOK
  <2>3. CASE PushBinlog(p) \/ \E n \in 0 .. MaxLines : PushFails(p, n)
    <3> DEFINE s == pusher[p]
               t == Target(p)
    <3>1. \A ps \in SUBSET BatchOf(s) : RecordsAt(s, ps) \subseteq Valid
      BY DEF RecordsAt, BatchOf, ValidIn
    <3>2. \A d : AddedBy(s, d) \in SUBSET BatchOf(s)
      BY DEF AddedBy
    <3>3. \A n, d : RecordsAt(s, {q \in AddedBy(s, d) : q <= n}) \subseteq Valid
      BY <3>1, <3>2
    <3>4. \A d : RecordsAt(s, AddedBy(s, d)) \subseteq Valid
      BY <3>1, <3>2
    <3>5. RecordsAt(s, BatchOf(s)) \subseteq Valid
      BY <3>1
    <3>6. pusher' \in [Pusher -> PusherState]
      <4>1. [pusher EXCEPT ![p].pc = "check"] \in [Pusher -> PusherState]
        BY <1>2 DEF TypeOK, PusherState
      <4> QED
        BY <1>2, <1>4, <2>3, <4>1 DEF PushBinlog, PushFails, TypeOK
    <3>7. dataset' \in [Tracker -> SUBSET Valid] /\ acked' \in [Tracker -> SUBSET Valid]
      <4>0. /\ dataset \in [Tracker -> SUBSET Valid]
            /\ acked \in [Tracker -> SUBSET Valid]
            /\ t \in Tracker
        BY <1>2, <1>3 DEF TypeOK
      <4> HIDE DEF s, t
      <4>1. CASE PushBinlog(p)
        BY <3>4, <3>5, <4>0, <4>1 DEF PushBinlog, s, t
      <4>2. ASSUME NEW n \in 0 .. MaxLines, PushFails(p, n)
            PROVE  dataset' \in [Tracker -> SUBSET Valid]
                   /\ acked' \in [Tracker -> SUBSET Valid]
        BY <3>3, <4>0, <4>2 DEF PushFails, s, t
      <4> QED
        BY <2>3, <4>1, <4>2
    <3> QED
      BY <1>2, <2>3, <3>6, <3>7 DEF PushBinlog, PushFails, Fault, TypeOK, FeedTypeOK
  <2>4. CASE Check(p)
    BY <1>2, <1>3, <1>4, <2>4 DEF Check, TypeOK, FeedTypeOK, PusherState
  <2>5. CASE SetPusherStatus(p)
    <3>1. Saved(pusher[p]) \in Position
      BY <1>3 DEF PusherState, Position, Saved, At, NextFile
    <3>2. cursor' \in [Tracker -> Position] /\ unset' \in [Tracker -> SUBSET {"pos", "index"}]
      BY <2>0, <2>5, <3>1 DEF SetPusherStatus
    <3>3. pusher' \in [Pusher -> PusherState]
      BY <1>2, <1>4, <2>5 DEF SetPusherStatus, TypeOK
    <3> QED
      BY <1>2, <2>5, <3>2, <3>3 DEF SetPusherStatus, Fault, TypeOK, FeedTypeOK
  <2> QED
    BY <1>9, <2>1, <2>2, <2>3, <2>4, <2>5, <2>6, <2>7 DEF PusherStep
<1>10. CASE UNCHANGED vars
  BY <1>2, <1>10 DEF vars, TypeOK, FeedTypeOK
<1> QED
  BY <1>5, <1>6, <1>7, <1>8, <1>9, <1>10 DEF Next

-----------------------------------------------------------------------------
\* No step takes an acknowledgement back.
LEMMA AckedGrows ==
    ASSUME IInv, [Next]_vars, NEW t \in Tracker
    PROVE  acked[t] \subseteq acked'[t]
<1>1. acked \in [Tracker -> SUBSET Valid]
  BY DEF IInv, TypeOK
<1>2. CASE acked' = acked
  BY <1>2
<1>3. ASSUME NEW p \in Pusher, PushBinlog(p) PROVE acked[t] \subseteq acked'[t]
  BY <1>1, <1>3 DEF PushBinlog
<1> QED
  BY <1>2, <1>3
     DEF Next, FeedStep, Restart, Learn, PusherStep, GetPosition, PutPosition0, GetIndex, PutIndex0,
         StatusFails, ReadBatch, PushFails, Check, SetPusherStatus, PeerPush, vars

\* A file once taken up with an offset of another one stays noted.
LEMMA MixedGrows ==
    ASSUME IInv, [Next]_vars, NEW t \in Tracker
    PROVE  mixed[t] \subseteq mixed'[t]
<1>1. mixed \in [Tracker -> SUBSET Nat]
  BY DEF IInv, TypeOK
<1>2. CASE mixed' = mixed
  BY <1>2
<1>3. ASSUME NEW o \in Tracker, NEW c, NEW i, mixed' = Mix(o, c, i)
      PROVE  mixed[t] \subseteq mixed'[t]
  BY <1>1, <1>3 DEF Mix
<1>4. ASSUME NEW p \in Pusher PROVE Target(p) \in Tracker
  BY PushAssumption DEF Target, Tracker
<1> QED
  BY <1>2, <1>3, <1>4
     DEF Next, FeedStep, Restart, Learn, PusherStep, GetPosition, PutPosition0,
         GetIndex, PutIndex0, StatusFails, ReadBatch, PushBinlog, PushFails, Check,
         SetPusherStatus, PeerPush, vars

\* No part of a position that has been written becomes unwritten.
LEMMA UnsetShrinks ==
    ASSUME IInv, [Next]_vars, NEW t \in Tracker
    PROVE  unset'[t] \subseteq unset[t]
<1>1. unset \in [Tracker -> SUBSET {"pos", "index"}]
  BY DEF IInv, TypeOK
<1>2. CASE unset' = unset
  BY <1>2
<1>3. ASSUME NEW o \in Tracker, NEW x,
             unset' = [unset EXCEPT ![o] = @ \ {x}] \/ unset' = [unset EXCEPT ![o] = {}]
      PROVE  unset'[t] \subseteq unset[t]
  BY <1>1, <1>3
<1>4. ASSUME NEW p \in Pusher PROVE Target(p) \in Tracker
  BY PushAssumption DEF Target, Tracker
<1> QED
  BY <1>2, <1>3, <1>4
     DEF Next, FeedStep, Restart, Learn, PusherStep, GetPosition, PutPosition0,
         GetIndex, PutIndex0, StatusFails, ReadBatch, PushBinlog, PushFails, Check,
         SetPusherStatus, PeerPush, vars

\* A position that was true stays true.
LEMMA ReachedStays ==
    ASSUME IInv, [Next]_vars, NEW t \in Tracker,
           NEW c, c.fi \in Nat, c.off \in Nat, Reached(t, c)
    PROVE  Reached(t, c)'
<1>1. Grown /\ acked[t] \subseteq acked'[t] /\ mixed[t] \subseteq mixed'[t]
  BY FilesGrow, AckedGrows, MixedGrows
<1>2. Len(files) \in Nat /\ Len(files') \in Nat /\ Len(files) <= Len(files')
  BY <1>1 DEF Grown, IInv, TypeOK, FeedTypeOK
<1>3. c.fi < Len(files')
  BY <1>2 DEF Reached
<1>4. AckedUpTo(t, c.fi + 1, c.off) => AckedUpTo(t, c.fi + 1, c.off)'
  <2>1. c.fi + 1 \in Nat \ {0}
    OBVIOUS
  <2> QED
    BY <1>1, <2>1, AckedStays
<1> QED
  BY <1>1, <1>3, <1>4 DEF Reached

\* Before the first line of any file there is nothing to acknowledge.
LEMMA StartReached ==
    ASSUME IInv, NEW t \in Tracker, NEW i \in Nat, i < Len(files)
    PROVE  AckedUpTo(t, i + 1, 0)
<1>1. i + 1 \in 1 .. Len(files) /\ Len(files[i + 1]) \in Nat
  BY DEF IInv, TypeOK, FeedTypeOK
<1> QED
  BY <1>1 DEF AckedUpTo, ValidIn

(***************************************************************************)
(* A position taken for one of file i: either file i is noted in mixed, or *)
(* the position is the one of file i, or the start of it.                  *)
(***************************************************************************)
LEMMA InReached ==
    ASSUME IInv, NEW t \in Tracker, NEW c, NEW i \in Nat, NEW x,
           c.fi \in Nat, i < Len(files), files' = files, acked' = acked,
           mixed' = Mix(t, c, i), Reached(t, c), x.fi = i,
           Foreign(c, i) \/ (x.off = c.off /\ x.rest = c.rest)
    PROVE  Reached(t, x)'
<1>1. mixed'[t] = IF Foreign(c, i) THEN mixed[t] \cup {i} ELSE mixed[t]
  BY DEF IInv, TypeOK, Mix
<1>2. CASE Foreign(c, i)
  BY <1>1, <1>2 DEF Reached
<1>3. CASE ~Foreign(c, i) /\ c.fi = i
  BY <1>1, <1>3 DEF Reached, AckedUpTo
<1>4. CASE ~Foreign(c, i) /\ c.fi # i
  <2>1. x.off = 0 /\ x.rest = Whole
    BY <1>4 DEF Foreign
  <2>2. AckedUpTo(t, i + 1, 0)
    BY StartReached
  <2> QED
    BY <2>1, <2>2 DEF Reached, AckedUpTo
<1> QED
  BY <1>2, <1>3, <1>4

\* A pusher that does not move keeps its part of the invariant.
LEMMA PusherStays ==
    ASSUME IInv, [Next]_vars, NEW p \in Pusher, pusher'[p] = pusher[p]
    PROVE  PusherInv(p)'
<1>0. PICK s \in PusherState : s = pusher[p] /\ s = pusher'[p]
  BY DEF IInv, TypeOK
<1>a. PICK t \in Tracker : t = Target(p)
  BY PushAssumption DEF Target, Tracker
<1>1. /\ Grown /\ acked[t] \subseteq acked'[t] /\ mixed[t] \subseteq mixed'[t]
      /\ unset'[t] \subseteq unset[t]
  BY FilesGrow, AckedGrows, MixedGrows, UnsetShrinks
<1>2. s.fi \in Nat /\ s.fi + 1 \in Nat \ {0} /\ s.off \in Nat /\ s.end \in Nat
  BY DEF PusherState
<1>3. PusherInv(p)
  BY DEF IInv
<1>4. s.pc \notin {"idle", "again"} => Reached(t, s) /\ Reached(t, s)'
  <2>1. s.pc \notin {"idle", "again"} => Reached(t, s)
    BY <1>0, <1>a, <1>3 DEF PusherInv
  <2> QED
    BY <1>2, <2>1, ReachedStays
<1>5. \A n \in Nat : AckedUpTo(t, s.fi + 1, n) => AckedUpTo(t, s.fi + 1, n)'
  BY <1>1, <1>2, AckedStays
<1>6. s.pc \in {"check", "save"} /\ s.fi \notin mixed'[t] => AckedUpTo(t, s.fi + 1, s.end)'
  <2>1. s.pc \in {"check", "save"} /\ s.fi \notin mixed[t] => AckedUpTo(t, s.fi + 1, s.end)
    BY <1>0, <1>a, <1>3 DEF PusherInv
  <2> QED
    BY <1>1, <1>2, <1>5, <2>1
<1>7. s.pc \in {"push", "check", "save"} /\ s.fi \notin mixed'[t] =>
         s.off <= s.end /\ s.end <= Len(files'[s.fi + 1])
  <2>1. SUFFICES ASSUME s.pc \in {"push", "check", "save"}, s.fi \notin mixed'[t]
                 PROVE  s.off <= s.end /\ s.end <= Len(files'[s.fi + 1])
    OBVIOUS
  <2>2. s.off <= s.end /\ s.end <= Len(files[s.fi + 1])
    BY <1>0, <1>a, <1>1, <1>3, <2>1 DEF PusherInv
  <2>a. s.fi + 1 \in 1 .. Len(files)
    BY <1>2, <1>4, <2>1 DEF Reached, IInv, TypeOK, FeedTypeOK
  <2>3. /\ Len(files[s.fi + 1]) <= Len(files'[s.fi + 1])
        /\ Len(files[s.fi + 1]) \in Nat /\ Len(files'[s.fi + 1]) \in Nat
    BY <1>1, <2>a, SMTT(30) DEF Grown, IInv, TypeOK, FeedTypeOK
  <2> QED
    BY <1>2, <2>2, <2>3
<1>8. s.pc = "roll" => s.fi + 1 < Len(files')
  <2>1. Len(files) \in Nat /\ Len(files') \in Nat /\ Len(files) <= Len(files')
    BY <1>1 DEF Grown, IInv, TypeOK, FeedTypeOK
  <2>2. s.pc = "roll" => s.fi + 1 < Len(files)
    BY <1>0, <1>3 DEF PusherInv
  <2> QED
    BY <1>2, <2>1, <2>2
<1>9. /\ s.pc \in {"pos0", "index"} /\ "index" \in unset'[t] => AtStart(s)
      /\ s.pc = "index0" => AtStart(s)
  BY <1>0, <1>a, <1>1, <1>3 DEF PusherInv
<1> QED
  <2>1. pusher'[p] = s
    BY <1>0
  <2>2. /\ Reached(Target(p), pusher[p])' <=> Reached(t, s)'
        /\ AckedUpTo(Target(p), pusher[p].fi + 1, pusher[p].end)' <=>
             AckedUpTo(t, s.fi + 1, s.end)'
        /\ AtStart(pusher[p])' <=> AtStart(s)
        /\ Target(p) = t
    BY <1>a, <2>1 DEF AckedUpTo, Reached, AtStart
  <2> QED
    BY <1>4, <1>6, <1>7, <1>8, <1>9, <2>1, <2>2 DEF PusherInv, Target

(***************************************************************************)
(* What a pusher that moved to state x carries, with x out of the file     *)
(* state: no file, acknowledgement or position of another changed.         *)
(***************************************************************************)
LEMMA PusherInvOf ==
    ASSUME NEW p \in Pusher, NEW x, pusher'[p] = x, NEW t, t = Target(p),
           x.pc \notin {"idle", "again"} => Reached(t, x)',
           (x.pc \in {"push", "check", "save"} /\ x.fi \notin mixed'[t]) =>
               (x.off <= x.end /\ x.end <= Len(files'[x.fi + 1])),
           (x.pc \in {"check", "save"} /\ x.fi \notin mixed'[t]) =>
               AckedUpTo(t, x.fi + 1, x.end)',
           x.pc = "roll" => x.fi + 1 < Len(files'),
           (x.pc \in {"pos0", "index"} /\ "index" \in unset'[t]) => AtStart(x),
           x.pc = "index0" => AtStart(x)
    PROVE  PusherInv(p)'
<1>1. /\ Reached(Target(p), pusher[p])' <=> Reached(t, x)'
      /\ AckedUpTo(Target(p), pusher[p].fi + 1, pusher[p].end)' <=>
           AckedUpTo(t, x.fi + 1, x.end)'
      /\ AtStart(pusher[p])' <=> AtStart(x)
      /\ Target(p)' = t
  BY DEF AckedUpTo, Reached, AtStart, Target
<1> QED
  BY <1>1 DEF PusherInv

\* The two reads and the two writes of getPusherStatus.
LEMMA StatusMoves ==
    ASSUME IInv, [Next]_vars, NEW p \in Pusher,
           GetPosition(p) \/ PutPosition0(p) \/ GetIndex(p) \/ PutIndex0(p)
    PROVE  PusherInv(p)'
<1>0. PICK s \in PusherState : s = pusher[p]
  BY DEF IInv, TypeOK
<1>a. PICK t \in Tracker : t = Target(p)
  BY PushAssumption DEF Target, Tracker
<1>b. PICK c \in Position : c = cursor[t]
  BY DEF IInv, TypeOK
<1>1. /\ s.fi \in Nat /\ s.off \in Nat /\ s.end \in Nat
      /\ c.fi \in Nat /\ c.off \in Nat
      /\ PusherInv(p) /\ pusher \in [Pusher -> PusherState]
      /\ Len(files) \in Nat
  BY DEF IInv, TypeOK, FeedTypeOK, PusherState, Position
<1>2. /\ files' = files /\ acked' = acked
      /\ mixed[t] \subseteq mixed'[t] /\ unset'[t] \subseteq unset[t]
  BY MixedGrows, UnsetShrinks DEF GetPosition, PutPosition0, GetIndex, PutIndex0
<1>3. Reached(t, c) /\ (unset[t] # {} => AtStart(c))
  BY <1>b DEF IInv, Start, AtStart
<1>4. CASE GetPosition(p)
  <2>0. PICK x : x = [pc |-> IF "pos" \in unset[t] THEN "pos0" ELSE "index",
                      fi |-> c.fi, off |-> c.off, rest |-> c.rest, end |-> 0]
    OBVIOUS
  <2>1. pusher'[p] = x
    BY <1>1, <1>4, <1>a, <1>b, <2>0 DEF GetPosition
  <2>2. x.pc \in {"pos0", "index"} /\ x.fi = c.fi /\ x.off = c.off /\ x.rest = c.rest
    BY <2>0
  <2>3. Reached(t, x)'
    BY <1>2, <1>3, <2>2 DEF Reached, AckedUpTo
  <2>4. "index" \in unset'[t] => AtStart(x)
    BY <1>2, <1>3, <2>2 DEF AtStart
  <2> QED
    BY <1>a, <2>1, <2>2, <2>3, <2>4, PusherInvOf
<1>5. CASE PutPosition0(p)
  <2>1. pusher'[p] = [s EXCEPT !.pc = "index"] /\ s.pc = "pos0"
    BY <1>0, <1>1, <1>5 DEF PutPosition0
  <2>2. PICK x \in PusherState : x = [s EXCEPT !.pc = "index"]
    BY DEF PusherState
  <2>3. x.pc = "index" /\ x.fi = s.fi /\ x.off = s.off /\ x.rest = s.rest
    BY <2>2 DEF PusherState
  <2>4. Reached(t, s) /\ ("index" \in unset[t] => AtStart(s))
    BY <1>0, <1>1, <1>a, <2>1 DEF PusherInv
  <2>5. Reached(t, x)'
    BY <1>2, <2>3, <2>4 DEF Reached, AckedUpTo
  <2>6. "index" \in unset'[t] => AtStart(x)
    BY <1>2, <2>3, <2>4 DEF AtStart
  <2> QED
    BY <1>a, <2>1, <2>2, <2>3, <2>5, <2>6, PusherInvOf
<1>6. CASE GetIndex(p) /\ pusher' = [pusher EXCEPT ![p].pc = "index0"]
                       /\ "index" \in unset[t]
  <2>1. pusher'[p] = [s EXCEPT !.pc = "index0"] /\ s.pc = "index"
    BY <1>0, <1>1, <1>6 DEF GetIndex
  <2>2. PICK x \in PusherState : x = [s EXCEPT !.pc = "index0"]
    BY DEF PusherState
  <2>3. x.pc = "index0" /\ x.fi = s.fi /\ x.off = s.off /\ x.rest = s.rest
    BY <2>2 DEF PusherState
  <2>4. Reached(t, s) /\ AtStart(s)
    BY <1>0, <1>1, <1>6, <1>a, <2>1 DEF PusherInv
  <2>5. Reached(t, x)'
    BY <1>2, <2>3, <2>4 DEF Reached, AckedUpTo
  <2>6. AtStart(x)
    BY <2>3, <2>4 DEF AtStart
  <2> QED
    BY <1>a, <2>1, <2>2, <2>3, <2>5, <2>6, PusherInvOf
<1>7. ASSUME NEW y \in In(s, c.fi), GetIndex(p), mixed' = Mix(t, s, c.fi),
             pusher' = [pusher EXCEPT ![p] = [y EXCEPT !.pc = "read"]]
      PROVE  PusherInv(p)'
  <2>1. /\ y \in PusherState /\ y.fi = c.fi
        /\ Foreign(s, c.fi) \/ (y.off = s.off /\ y.rest = s.rest)
    BY <1>1, <1>7, InPusher
  <2>2. PICK x \in PusherState : x = [y EXCEPT !.pc = "read"]
    BY <2>1 DEF PusherState
  <2>3. x.pc = "read" /\ x.fi = y.fi /\ x.off = y.off /\ x.rest = y.rest
    BY <2>1, <2>2 DEF PusherState
  <2>4. Reached(t, s)
    BY <1>0, <1>1, <1>7, <1>a DEF GetIndex, PusherInv
  <2>5. c.fi < Len(files)
    BY <1>3 DEF Reached
  <2>6. Reached(t, x)'
    BY <1>1, <1>2, <1>7, <2>1, <2>3, <2>4, <2>5, InReached
  <2>7. pusher'[p] = x
    BY <1>1, <1>7, <2>2
  <2> QED
    BY <1>a, <2>3, <2>6, <2>7, PusherInvOf
<1>8. CASE PutIndex0(p)
  <2>1. pusher'[p] = [s EXCEPT !.pc = "read", !.fi = 0] /\ s.pc = "index0"
    BY <1>0, <1>1, <1>8 DEF PutIndex0
  <2>2. PICK x \in PusherState : x = [s EXCEPT !.pc = "read", !.fi = 0]
    BY DEF PusherState
  <2>3. x.pc = "read" /\ x.fi = 0 /\ x.off = s.off /\ x.rest = s.rest
    BY <2>2 DEF PusherState
  <2>4. AtStart(s) /\ Reached(t, s)
    BY <1>0, <1>1, <1>a, <2>1 DEF PusherInv
  <2>5. 0 < Len(files) /\ AckedUpTo(t, 0 + 1, 0)
    BY <1>1, <2>4, StartReached DEF Reached
  <2>6. Reached(t, x)'
    BY <1>2, <2>3, <2>4, <2>5 DEF Reached, AckedUpTo, AtStart
  <2> QED
    BY <1>a, <2>1, <2>2, <2>3, <2>6, PusherInvOf
<1>9. CASE GetIndex(p)
  BY <1>0, <1>6, <1>7, <1>9, <1>a, <1>b DEF GetIndex
<1> QED
  BY <1>4, <1>5, <1>8, <1>9

\* The pusher that moves: what it carries is acknowledged after each step.
LEMMA PusherMoves ==
    ASSUME IInv, [Next]_vars, NEW p \in Pusher, PusherStep(p)
    PROVE  PusherInv(p)'
<1>0. PICK s \in PusherState : s = pusher[p]
  BY DEF IInv, TypeOK
<1>a. PICK t \in Tracker : t = Target(p)
  BY PushAssumption DEF Target, Tracker
<1>1. /\ s.fi \in Nat /\ s.off \in Nat /\ s.end \in Nat
      /\ PusherInv(p)
      /\ pusher \in [Pusher -> PusherState]
      /\ files \in Seq(Seq(Line)) /\ Len(files) \in Nat /\ TypeOK
  BY DEF IInv, TypeOK, FeedTypeOK, PusherState
<1>2. CASE GetPosition(p) \/ PutPosition0(p) \/ GetIndex(p) \/ PutIndex0(p)
  BY <1>2, StatusMoves
<1>b. CASE pusher'[p].pc \in {"idle", "again"}
  BY <1>b DEF PusherInv
<1>3. CASE ReadBatch(p)
  <2>0. UNCHANGED <<files, acked, mixed>> /\ s.pc = "read" /\ Reached(t, s)
    BY <1>0, <1>a, <1>1, <1>3 DEF ReadBatch, PusherInv
  <2>1. PICK end : end = ReadEnd(Seen(s), s.off, BatchSize)
    OBVIOUS
  <2>2. \/ pusher'[p] = Idle
        \/ /\ pusher'[p] = [s EXCEPT !.pc = "check", !.end = end]
           /\ ValidIn(Seen(s), s.off, end) = {}
        \/ pusher'[p] = [s EXCEPT !.pc = "push", !.end = end]
    BY <1>0, <1>1, <1>3, <2>1 DEF ReadBatch
  <2>3. s.fi + 1 \in 1 .. Len(files) /\ Len(files[s.fi + 1]) \in Nat
    BY <1>1, <2>0 DEF Reached, TypeOK, FeedTypeOK
  <2>4. s.fi \notin mixed[t] =>
           /\ Seen(s) = files[s.fi + 1] /\ AckedUpTo(t, s.fi + 1, s.off)
           /\ s.off <= end /\ end <= Len(files[s.fi + 1]) /\ end \in Nat
    <3> SUFFICES ASSUME s.fi \notin mixed[t]
                 PROVE  /\ Seen(s) = files[s.fi + 1] /\ AckedUpTo(t, s.fi + 1, s.off)
                        /\ s.off <= end /\ end <= Len(files[s.fi + 1]) /\ end \in Nat
      OBVIOUS
    <3>1. s.rest = Whole /\ AckedUpTo(t, s.fi + 1, s.off)
      BY <2>0 DEF Reached
    <3>2. Seen(s) = files[s.fi + 1] /\ s.off <= Len(files[s.fi + 1])
      BY <2>3, <3>1 DEF Seen, AckedUpTo
    <3> QED
      BY <1>1, <2>1, <2>3, <3>1, <3>2, ReadEndBounds
  <2>5. s.fi \notin mixed[t] /\ ValidIn(Seen(s), s.off, end) = {} =>
           AckedUpTo(t, s.fi + 1, end)
    <3> SUFFICES ASSUME s.fi \notin mixed[t], ValidIn(Seen(s), s.off, end) = {}
                 PROVE  AckedUpTo(t, s.fi + 1, end)
      OBVIOUS
    <3>1. ValidIn(files[s.fi + 1], 0, end)
            = ValidIn(files[s.fi + 1], 0, s.off) \cup ValidIn(files[s.fi + 1], s.off, end)
      <4>1. s.off \in Nat /\ end \in Nat /\ s.off <= end
        BY <1>1, <2>4
      <4> QED
        BY <4>1 DEF ValidIn
    <3> QED
      BY <2>4, <3>1 DEF AckedUpTo
  <2>6. ASSUME NEW c \in {"check", "push"}, pusher'[p] = [s EXCEPT !.pc = c, !.end = end],
               c = "check" => ValidIn(Seen(s), s.off, end) = {}
        PROVE  PusherInv(p)'
    <3>1. PICK x : x = [s EXCEPT !.pc = c, !.end = end]
      OBVIOUS
    <3>2. x.pc = c /\ x.fi = s.fi /\ x.off = s.off /\ x.rest = s.rest /\ x.end = end
      BY <3>1 DEF PusherState
    <3>3. Reached(t, x)'
      BY <2>0, <3>2 DEF Reached, AckedUpTo
    <3>4. x.fi \notin mixed'[t] => x.off <= x.end /\ x.end <= Len(files'[x.fi + 1])
      BY <2>0, <2>4, <3>2
    <3>5. x.pc = "check" /\ x.fi \notin mixed'[t] => AckedUpTo(t, x.fi + 1, x.end)'
      BY <2>0, <2>5, <2>6, <3>2 DEF AckedUpTo
    <3> QED
      BY <1>a, <2>6, <3>1, <3>2, <3>3, <3>4, <3>5, PusherInvOf
  <2> QED
    BY <1>b, <2>2, <2>6 DEF Idle
<1>4. CASE PushBinlog(p)
  <2>1. /\ s.pc = "push" /\ Reached(t, s) /\ UNCHANGED <<files, mixed>>
        /\ s.fi \notin mixed[t] => s.off <= s.end /\ s.end <= Len(files[s.fi + 1])
    BY <1>0, <1>a, <1>1, <1>4 DEF PushBinlog, PusherInv
  <2>2. PICK x : x = [s EXCEPT !.pc = "check"]
    OBVIOUS
  <2>3. /\ pusher'[p] = x /\ x.pc = "check" /\ x.fi = s.fi
        /\ x.off = s.off /\ x.end = s.end /\ x.rest = s.rest
    BY <1>0, <1>1, <1>4, <2>2 DEF PushBinlog, PusherState
  <2>4. Reached(t, s)'
    BY <1>1, <2>1, ReachedStays
  <2>5. s.fi \notin mixed[t] => AckedUpTo(t, s.fi + 1, s.end)'
    <3> SUFFICES ASSUME s.fi \notin mixed[t] PROVE AckedUpTo(t, s.fi + 1, s.end)'
      OBVIOUS
    <3>1. s.rest = Whole /\ AckedUpTo(t, s.fi + 1, s.off) /\ AckedUpTo(t, s.fi + 1, s.off)'
      BY <2>1, <2>4 DEF Reached
    <3>2. Seen(s) = files[s.fi + 1]
      BY <3>1 DEF Seen
    <3>3. acked'[t] = acked[t] \cup RecordsAt(s, BatchOf(s))
      BY <1>0, <1>a, <1>1, <1>4 DEF PushBinlog, TypeOK
    <3>4. ValidIn(files[s.fi + 1], 0, s.end)
            = ValidIn(files[s.fi + 1], 0, s.off) \cup BatchOf(s)
      <4>1. s.off \in Nat /\ s.end \in Nat /\ s.off <= s.end
        BY <1>1, <2>1
      <4> QED
        BY <3>2, <4>1 DEF BatchOf, ValidIn
    <3>5. \A q \in BatchOf(s) : files[s.fi + 1][q] \in acked'[t]
      BY <3>2, <3>3 DEF RecordsAt
    <3>6. \A q \in ValidIn(files[s.fi + 1], 0, s.off) : files[s.fi + 1][q] \in acked'[t]
      BY <2>1, <3>1 DEF AckedUpTo
    <3> QED
      BY <2>1, <3>1, <3>4, <3>5, <3>6 DEF AckedUpTo
  <2>6. Reached(t, x)'
    BY <2>3, <2>4 DEF Reached
  <2>7. /\ x.fi \notin mixed'[t] => x.off <= x.end /\ x.end <= Len(files'[x.fi + 1])
        /\ x.fi \notin mixed'[t] => AckedUpTo(t, x.fi + 1, x.end)'
    BY <2>1, <2>3, <2>5
  <2> QED
    BY <1>a, <2>3, <2>6, <2>7, PusherInvOf
<1>5. CASE (\E n \in 0 .. MaxLines : PushFails(p, n)) \/ StatusFails(p)
  <2>1. pusher'[p] = Idle
    BY <1>1, <1>5 DEF PushFails, StatusFails
  <2> QED
    BY <1>b, <2>1 DEF Idle
<1>6. CASE Check(p)
  <2>1. /\ s.pc = "check" /\ Reached(t, s) /\ UNCHANGED <<files, acked, mixed>>
        /\ s.fi \notin mixed[t] => /\ s.off <= s.end /\ s.end <= Len(files[s.fi + 1])
                                 /\ AckedUpTo(t, s.fi + 1, s.end)
    BY <1>0, <1>a, <1>1, <1>6 DEF Check, PusherInv
  <2>2. \/ pusher'[p] = Idle
        \/ pusher'[p] = [s EXCEPT !.pc = "save"]
        \/ pusher'[p] = [s EXCEPT !.pc = "roll"] /\ cur > s.fi
    BY <1>0, <1>1, <1>6 DEF Check
  <2>3. ASSUME NEW c \in {"save", "roll"}, pusher'[p] = [s EXCEPT !.pc = c],
               c = "roll" => cur > s.fi
        PROVE  PusherInv(p)'
    <3>1. PICK x : x = [s EXCEPT !.pc = c]
      OBVIOUS
    <3>2. x.pc = c /\ x.fi = s.fi /\ x.off = s.off /\ x.rest = s.rest /\ x.end = s.end
      BY <3>1 DEF PusherState
    <3>3. Reached(t, x)'
      BY <2>1, <3>2 DEF Reached, AckedUpTo
    <3>4. x.pc = "roll" => x.fi + 1 < Len(files')
      BY <1>1, <2>1, <2>3, <3>2 DEF IInv, TypeOK, FeedTypeOK
    <3>5. x.fi \notin mixed'[t] => /\ x.off <= x.end /\ x.end <= Len(files'[x.fi + 1])
                                 /\ AckedUpTo(t, x.fi + 1, x.end)'
      BY <2>1, <3>2 DEF AckedUpTo
    <3> QED
      BY <1>a, <2>3, <3>1, <3>2, <3>3, <3>4, <3>5, PusherInvOf
  <2> QED
    BY <1>b, <2>2, <2>3 DEF Idle
<1>7. CASE SetPusherStatus(p)
  <2>1. pusher'[p].pc \in {"idle", "again"}
    BY <1>1, <1>7 DEF SetPusherStatus, Idle
  <2> QED
    BY <1>b, <2>1
<1> QED
  BY <1>2, <1>3, <1>4, <1>5, <1>6, <1>7 DEF PusherStep

\* Zero written over zero.
LEMMA StartKept ==
    [Start EXCEPT !.off = 0, !.rest = Whole] = Start /\ (\A x \in In(Start, 0) : x = Start)
<1>1. [Start EXCEPT !.off = 0] = Start
  BY DEF Start
<1>2. [Start EXCEPT !.rest = Whole] = Start
  BY DEF Start
<1>3. [Start EXCEPT !.fi = 0] = Start
  BY DEF Start
<1>4. [Start EXCEPT !.fi = 0, !.off = 0, !.rest = Whole] = Start
  BY <1>1, <1>2, <1>3 DEF Start
<1>5. ASSUME NEW l \in Landing(Start, 0) PROVE l[1] = 0 /\ l[2] = Whole
  BY DEF Landing, Foreign, Start
<1>6. ASSUME NEW x \in In(Start, 0) PROVE x = Start
  <2>1. PICK l \in Landing(Start, 0) : x = [Start EXCEPT !.fi = 0, !.off = l[1], !.rest = l[2]]
    BY <1>6 DEF In
  <2>2. l[1] = 0 /\ l[2] = Whole
    BY <1>5
  <2> QED
    BY <1>4, <2>1, <2>2
<1>7. [Start EXCEPT !.off = 0, !.rest = Whole] = Start
  BY <1>1, <1>2 DEF Start
<1> QED
  BY <1>4, <1>6, <1>7

\* The steps that write a position, and what they write.
LEMMA CursorWritten ==
    ASSUME IInv, [Next]_vars, NEW t \in Tracker, NEW c \in Position, c = cursor[t]
    PROVE  \/ cursor'[t] = c
           \/ /\ cursor'[t] = [c EXCEPT !.off = 0, !.rest = Whole]
              /\ UNCHANGED <<files, acked, late, mixed>>
           \/ /\ mixed' = Mix(t, c, 0) /\ UNCHANGED <<files, acked, late>>
              /\ cursor'[t] \in In(c, 0)
           \/ \E p \in Pusher :
                /\ t = Target(p) /\ SetPusherStatus(p)
                /\ cursor'[t] = Saved(pusher[p])
<1>1. cursor \in [Tracker -> Position]
  BY DEF IInv, TypeOK
<1>2. ASSUME NEW p \in Pusher, PutPosition0(p), cursor'[t] # c
      PROVE  /\ cursor'[t] = [c EXCEPT !.off = 0, !.rest = Whole]
             /\ UNCHANGED <<files, acked, late, mixed>>
  BY <1>1, <1>2 DEF PutPosition0, Position
<1>3. ASSUME NEW p \in Pusher, PutIndex0(p), cursor'[t] # c
      PROVE  /\ mixed' = Mix(t, c, 0) /\ UNCHANGED <<files, acked, late>>
             /\ cursor'[t] \in In(c, 0)
  <2>1. PICK o \in Tracker : o = Target(p)
    BY PushAssumption DEF Target, Tracker
  <2>2. PICK x \in In(cursor[o], 0) : cursor' = [cursor EXCEPT ![o] = x]
    BY <1>3, <2>1 DEF PutIndex0
  <2>3. o = t
    BY <1>1, <1>3, <2>2
  <2> QED
    BY <1>1, <1>3, <2>1, <2>2, <2>3 DEF PutIndex0
<1>4. ASSUME NEW p \in Pusher, SetPusherStatus(p), cursor'[t] # c
      PROVE  t = Target(p) /\ cursor'[t] = Saved(pusher[p])
  BY <1>1, <1>4 DEF SetPusherStatus
<1> QED
  BY <1>2, <1>3, <1>4
     DEF Next, FeedStep, Restart, Learn, PusherStep, GetPosition, GetIndex, StatusFails,
         ReadBatch, PushBinlog, PushFails, Check, PeerPush, vars

\* A saved position is one the pusher carried, or the start of a file.
LEMMA CursorStep ==
    ASSUME IInv, [Next]_vars, NEW t \in Tracker
    PROVE  Reached(t, cursor[t])' /\ (unset'[t] # {} => cursor'[t] = Start)
<1>0. PICK c \in Position : c = cursor[t]
  BY DEF IInv, TypeOK
<1>1. /\ c.fi \in Nat /\ c.off \in Nat /\ Reached(t, c) /\ Len(files) \in Nat
      /\ unset'[t] \subseteq unset[t]
      /\ unset[t] # {} => c = Start
  BY <1>0, UnsetShrinks DEF Position, IInv, TypeOK, FeedTypeOK
<1>2. CASE cursor'[t] = c
  <2>1. Reached(t, c)'
    BY <1>1, ReachedStays
  <2>2. Reached(t, cursor[t])'
    BY <1>2, <2>1 DEF Reached, AckedUpTo
  <2> QED
    BY <1>1, <1>2, <2>2
<1>3. CASE /\ cursor'[t] = [c EXCEPT !.off = 0, !.rest = Whole]
           /\ UNCHANGED <<files, acked, late, mixed>>
  <2>1. cursor'[t].fi = c.fi /\ cursor'[t].off = 0 /\ cursor'[t].rest = Whole
    BY <1>3 DEF Position
  <2>2. AckedUpTo(t, c.fi + 1, 0) /\ c.fi < Len(files)
    BY <1>1, StartReached DEF Reached
  <2>3. c = Start => cursor'[t] = Start
    BY <1>3, StartKept
  <2>4. AckedUpTo(t, cursor[t].fi + 1, cursor[t].off)'
    <3>1. AckedUpTo(t, c.fi + 1, 0)'
      BY <1>3, <2>2 DEF AckedUpTo
    <3> QED
      BY <2>1, <3>1 DEF AckedUpTo
  <2>5. Reached(t, cursor[t])'
    BY <1>3, <2>1, <2>2, <2>4 DEF Reached
  <2> QED
    BY <1>1, <2>3, <2>5
<1>4. CASE /\ mixed' = Mix(t, c, 0) /\ UNCHANGED <<files, acked, late>>
           /\ cursor'[t] \in In(c, 0)
  <2>1. PICK x \in In(c, 0) : x = cursor'[t]
    BY <1>4
  <2>2. x.fi = 0 /\ (Foreign(c, 0) \/ (x.off = c.off /\ x.rest = c.rest))
    BY InPosition
  <2>3. 0 < Len(files)
    BY <1>1 DEF Reached
  <2>4. Reached(t, x)'
    BY <1>1, <1>4, <2>2, <2>3, InReached
  <2>5. c = Start => x = Start
    BY StartKept
  <2>6. Reached(t, cursor[t])'
    BY <2>1, <2>4 DEF Reached, AckedUpTo
  <2> QED
    BY <1>1, <2>1, <2>5, <2>6
<1>5. ASSUME NEW p \in Pusher, t = Target(p), SetPusherStatus(p),
             cursor'[t] = Saved(pusher[p]), cursor'[t] # c
      PROVE  Reached(t, cursor[t])' /\ (unset'[t] # {} => cursor'[t] = Start)
  <2>1. PICK s \in PusherState : s = pusher[p]
    BY DEF IInv, TypeOK
  <2>2. /\ s.fi \in Nat /\ s.off \in Nat /\ s.end \in Nat
        /\ PusherInv(p) /\ UNCHANGED <<files, acked, mixed>>
        /\ cursor'[t] = Saved(s) /\ s.pc \in {"save", "roll"}
    BY <1>5, <2>1 DEF SetPusherStatus, IInv, PusherState
  <2>3. unset'[t] = {}
    BY <1>0, <1>5 DEF SetPusherStatus, IInv, TypeOK
  <2>4. Reached(t, s)
    BY <1>5, <2>1, <2>2 DEF PusherInv
  <2>5. CASE s.pc = "roll"
    <3>1. /\ cursor'[t].fi = s.fi + 1 /\ cursor'[t].off = 0 /\ cursor'[t].rest = Whole
          /\ s.fi + 1 < Len(files)
      BY <2>1, <2>2, <2>5 DEF PusherInv, Saved, NextFile
    <3>2. AckedUpTo(t, s.fi + 1 + 1, 0)
      BY <2>2, <3>1, StartReached
    <3>3. Reached(t, cursor[t])'
      BY <2>2, <3>1, <3>2 DEF Reached, AckedUpTo
    <3> QED
      BY <2>3, <3>3
  <2>6. CASE s.pc = "save"
    <3>1. /\ cursor'[t].fi = s.fi /\ cursor'[t].off = s.end
          /\ cursor'[t].rest \in {s.rest, Whole}
      BY <2>2, <2>6 DEF Saved, At
    <3>2. s.fi \notin mixed[t] => s.rest = Whole /\ AckedUpTo(t, s.fi + 1, s.end)
      BY <1>5, <2>1, <2>2, <2>4, <2>6 DEF PusherInv, Reached
    <3>3. Reached(t, cursor[t])'
      BY <2>2, <2>4, <3>1, <3>2 DEF Reached, AckedUpTo
    <3> QED
      BY <2>3, <3>3
  <2> QED
    BY <2>2, <2>5, <2>6
<1> QED
  BY <1>0, <1>2, <1>3, <1>4, <1>5, CursorWritten

LEMMA IInvStep == IInv /\ [Next]_vars => IInv'
<1> SUFFICES ASSUME IInv, [Next]_vars PROVE IInv'
  OBVIOUS
<1>1. TypeOK'
  BY TypeStep
<1>2. (cur < Len(files))'
  <2>1. Grown /\ Len(files) \in Nat /\ cur \in Nat /\ cur < Len(files)
        /\ files \in Seq(Seq(Line)) /\ files # <<>>
    BY FilesGrow DEF IInv, TypeOK, FeedTypeOK
  <2>2. Len(files) <= Len(files') /\ Len(files') \in Nat /\ 0 < Len(files)
    BY <2>1 DEF Grown
  <2>3. \/ cur' = cur \/ cur' = 0 \/ cur' = Last
        \/ cur' = Len(files) /\ files' = Append(files, <<>>)
    BY DEF Next, FeedStep, AppendLine, OpenLast, Roll, Restart, RebootFix,
           RebootRoll, RebootOnly, Learn, PusherStep, GetPosition, PutPosition0, GetIndex, PutIndex0,
         StatusFails, ReadBatch,
           PushBinlog, PushFails, Check, SetPusherStatus, PeerPush, vars
  <2>4. CASE files' = Append(files, <<>>) /\ cur' = Len(files)
    <3>1. Len(files') = Len(files) + 1
      BY <2>1, <2>4
    <3> QED
      BY <2>1, <2>4, <3>1
  <2> QED
    BY <2>1, <2>2, <2>3, <2>4 DEF Last
<1>3. (\A t \in Tracker : Reached(t, cursor[t]) /\ (unset[t] # {} => cursor[t] = Start))'
  BY CursorStep
<1>4. ASSUME NEW p \in Pusher PROVE PusherInv(p)'
  <2>0. pusher \in [Pusher -> PusherState]
    BY DEF IInv, TypeOK
  <2>1. CASE PusherStep(p)
    BY <2>1, PusherMoves
  <2>2. CASE pusher'[p] = pusher[p]
    BY <2>2, PusherStays
  <2>3. CASE Restart
    <3>1. pusher'[p] = Idle
      BY <2>3 DEF Restart
    <3> QED
      BY <3>1 DEF PusherInv, Idle
  <2>4. ASSUME NEW o \in Pusher, PusherStep(o), o # p
        PROVE  pusher'[p] = pusher[p]
    BY <2>0, <2>4
       DEF PusherStep, GetPosition, PutPosition0, GetIndex, PutIndex0,
         StatusFails, ReadBatch, PushBinlog, PushFails, Check,
           SetPusherStatus
  <2>5. CASE FeedStep \/ UNCHANGED vars \/ (\E t \in Tracker : Learn(t))
             \/ \E t \in Tracker, r \in Valid : PeerPush(t, r)
    BY <2>2, <2>5 DEF FeedStep, vars, Learn, PeerPush
  <2> QED
    BY <2>1, <2>2, <2>3, <2>4, <2>5 DEF Next
<1> QED
  BY <1>1, <1>2, <1>3, <1>4 DEF IInv

-----------------------------------------------------------------------------
\* Every record of file i was acknowledged by t, or written too late for it, or
\* the file was taken up with an offset of another one.
Left(t, i) ==
    /\ i <= Len(files)
    /\ \/ i - 1 \in mixed[t]
       \/ \A q \in ValidIn(files[i], 0, Len(files[i])) :
             files[i][q] \in acked[t] \/ <<i, q>> \in late

(***************************************************************************)
(* A pusher that found nothing has pushed its file as far as it read: all  *)
(* of it when another file follows, but for the lines that came late.      *)
(***************************************************************************)
PusherLeft(p) ==
    LET s == pusher[p]
        t == Target(p)
    IN  /\ s.pc \notin {"idle", "again"} => \A i \in 1 .. s.fi : Left(t, i)
        /\ s.pc = "push" /\ s.fi \notin mixed[t] => BatchOf(s) # {}
        /\ s.pc = "check" /\ BatchOf(s) = {} /\ s.fi + 1 < Len(files) => Left(t, s.fi + 1)
        /\ s.pc = "roll" => Left(t, s.fi + 1)

LeftInv ==
    /\ \A t \in Tracker : \A i \in 1 .. cursor[t].fi : Left(t, i)
    /\ \A p \in Pusher : PusherLeft(p)

\* The newest file is the only one that gets lines.
LEMMA OldFilesKept ==
    ASSUME IInv, [Next]_vars, NEW i \in 1 .. Len(files) - 1
    PROVE  i \in 1 .. Len(files') /\ files'[i] = files[i]
<1>1. files \in Seq(Seq(Line)) /\ Len(files) \in Nat /\ i \in 1 .. Len(files) /\ i # Len(files)
  BY DEF IInv, TypeOK, FeedTypeOK
<1>2. \/ files' = files
      \/ \E l \in Line : files' = [files EXCEPT ![Len(files)] = Append(@, l)]
      \/ \E ls : files' = Append(files, ls)
  BY DEF Next, FeedStep, AppendLine, OpenLast, Roll, Restart, RebootFix,
         RebootRoll, RebootOnly, Learn, PusherStep, GetPosition, PutPosition0, GetIndex, PutIndex0,
         StatusFails, ReadBatch,
         PushBinlog, PushFails, Check, SetPusherStatus, PeerPush, vars
<1>3. CASE files' = files
  BY <1>1, <1>3
<1>4. ASSUME NEW l \in Line, files' = [files EXCEPT ![Len(files)] = Append(@, l)]
      PROVE  i \in 1 .. Len(files') /\ files'[i] = files[i]
  BY <1>1, <1>4
<1>5. ASSUME NEW ls, files' = Append(files, ls)
      PROVE  i \in 1 .. Len(files') /\ files'[i] = files[i]
  BY <1>1, <1>5
<1> QED
  BY <1>2, <1>3, <1>4, <1>5

LEMMA LateGrows == [Next]_vars => late \subseteq late'
BY DEF Next, FeedStep, Restart, Learn, PusherStep, GetPosition, PutPosition0, GetIndex, PutIndex0,
         StatusFails, ReadBatch, PushBinlog, PushFails, Check, SetPusherStatus, PeerPush, vars

\* A file that a pusher left behind, and that is not the newest, stays so.
LEMMA LeftStays ==
    ASSUME IInv, [Next]_vars, NEW t \in Tracker, NEW i \in 1 .. Len(files) - 1,
           Left(t, i)
    PROVE  Left(t, i)'
<1>1. i \in 1 .. Len(files') /\ files'[i] = files[i]
  BY OldFilesKept
<1>2. acked[t] \subseteq acked'[t] /\ late \subseteq late' /\ mixed[t] \subseteq mixed'[t]
  BY AckedGrows, LateGrows, MixedGrows
<1> QED
  BY <1>1, <1>2 DEF Left

\* Lines that are there already: a batch once read stays the same batch.
LEMMA BatchStays ==
    ASSUME IInv, Grown, NEW s \in PusherState, s.rest = Whole, s.fi + 1 <= Len(files),
           s.end <= Len(files[s.fi + 1])
    PROVE  BatchOf(s)' = BatchOf(s)
<1>1. s.fi + 1 \in 1 .. Len(files) /\ s.off \in Nat /\ s.end \in Nat
  BY DEF PusherState, IInv, TypeOK, FeedTypeOK
<1>2. \A q \in 1 .. Len(files[s.fi + 1]) : files'[s.fi + 1][q] = files[s.fi + 1][q]
  BY <1>1 DEF Grown
<1>3. Len(files[s.fi + 1]) \in Nat
  BY <1>1 DEF IInv, TypeOK, FeedTypeOK
<1>4. s.off + 1 .. s.end \subseteq 1 .. Len(files[s.fi + 1])
  BY <1>1, <1>3
<1> QED
  BY <1>2, <1>4 DEF BatchOf, Seen, ValidIn

\* The newest file gets a successor while a pusher makes up its mind.
LEMMA NewestLeft ==
    ASSUME IInv, [Next]_vars, NEW p \in Pusher, NEW s \in PusherState,
           s = pusher[p], s = pusher'[p], s.pc = "check", BatchOf(s) = {},
           NEW t \in Tracker, t = Target(p), s.fi \notin mixed[t], NEW m, m = s.fi + 1,
           m = Len(files), m < Len(files')
    PROVE  Left(t, m)'
<1>1. /\ files \in Seq(Seq(Line)) /\ m \in 1 .. Len(files) /\ m \in Nat
      /\ Len(files[m]) \in Nat /\ s.fi \in Nat /\ s.end \in Nat
  <2>1. files \in Seq(Seq(Line)) /\ Len(files) \in Nat /\ files # <<>>
    BY DEF IInv, TypeOK, FeedTypeOK
  <2>2. s.fi \in Nat /\ s.end \in Nat
    BY DEF PusherState
  <2>3. m \in 1 .. Len(files) /\ m \in Nat
    BY <2>1, <2>2
  <2> QED
    BY <2>1, <2>2, <2>3
<1>2. acked[t] \subseteq acked'[t] /\ late \subseteq late'
  BY AckedGrows, LateGrows
<1>3. FeedStep
  <2>1. CASE Restart
    <3>1. pusher'[p] = Idle
      BY <2>1 DEF Restart
    <3> QED
      BY <3>1 DEF Idle
  <2>2. CASE files' = files
    BY <1>1, <2>2
  <2> QED
    BY <2>1, <2>2
       DEF Next, Learn, PusherStep, GetPosition, PutPosition0, GetIndex, PutIndex0,
         StatusFails, ReadBatch, PushBinlog, PushFails,
           Check, SetPusherStatus, PeerPush, vars
<1>4. files' = Append(files, <<>>) /\ late' = late \cup Unseen
  <2>1. ASSUME NEW l \in Line, AppendLine(l) PROVE FALSE
    <3>1. Len(files') = Len(files)
      BY <1>1, <2>1 DEF AppendLine
    <3> QED
      BY <1>1, <3>1
  <2>2. CASE OpenLast
    BY <1>1, <2>2 DEF OpenLast
  <2> QED
    BY <1>3, <2>1, <2>2 DEF FeedStep, Roll
<1>5. m \in 1 .. Len(files') /\ files'[m] = files[m]
  BY <1>1, <1>4
<1>6. AckedUpTo(t, m, s.end)
  BY DEF IInv, PusherInv
<1>7. AtItsEnd(p)
  BY <1>1 DEF AtItsEnd, Last
<1>8. ASSUME NEW q \in ValidIn(files[m], 0, Len(files[m]))
      PROVE  files[m][q] \in acked[t] \/ <<m, q>> \in Unseen
  <2>1. CASE q <= s.end
    <3>1. q \in ValidIn(files[m], 0, s.end)
      BY <1>1, <1>8, <2>1 DEF ValidIn
    <3> QED
      BY <1>6, <3>1 DEF AckedUpTo
  <2>2. CASE ~(q <= s.end)
    <3>1. q \in ValidIn(files[m], s.end, Len(files[m]))
      BY <1>1, <1>8, <2>2 DEF ValidIn
    <3> QED
      BY <1>7, <3>1 DEF Unseen
  <2> QED
    BY <2>1, <2>2
<1> QED
  BY <1>2, <1>4, <1>5, <1>8 DEF Left

\* What PusherLeft says of a pusher that moved to state x.
LEMMA PusherLeftOf ==
    ASSUME NEW p \in Pusher, NEW x, pusher'[p] = x, NEW t, t = Target(p),
           x.pc \notin {"idle", "again"} => \A i \in 1 .. x.fi : Left(t, i)',
           (x.pc = "push" /\ x.fi \notin mixed'[t]) => BatchOf(x)' # {},
           (x.pc = "check" /\ BatchOf(x)' = {} /\ x.fi + 1 < Len(files')) =>
               Left(t, x.fi + 1)',
           x.pc = "roll" => Left(t, x.fi + 1)'
    PROVE  PusherLeft(p)'
BY DEF PusherLeft, Left, BatchOf, Seen, Target

LEMMA PusherLeftStays ==
    ASSUME IInv, LeftInv, [Next]_vars, NEW p \in Pusher, pusher'[p] = pusher[p]
    PROVE  PusherLeft(p)'
<1>1. PICK s \in PusherState : s = pusher[p] /\ s = pusher'[p]
  BY DEF IInv, TypeOK
<1>2. /\ Target(p) \in Tracker /\ Grown /\ Len(files) \in Nat
      /\ s.fi \in Nat /\ s.off \in Nat /\ s.end \in Nat
  <2>1. Grown
    BY FilesGrow
  <2>2. Target(p) \in Tracker
    BY PushAssumption DEF Target, Tracker
  <2>3. Len(files) \in Nat
    BY DEF IInv, TypeOK, FeedTypeOK
  <2> QED
    BY <2>1, <2>2, <2>3 DEF PusherState
<1>3. PICK t \in Tracker : t = Target(p)
  BY <1>2
<1>4. PusherInv(p) /\ PusherLeft(p)
  BY DEF IInv, LeftInv
<1>5. s.pc \notin {"idle", "again"} => /\ s.fi + 1 <= Len(files) /\ s.fi < Len(files)
                                     /\ (s.fi \in mixed[t] \/ s.rest = Whole)
  BY <1>1, <1>2, <1>3, <1>4 DEF PusherInv, Reached
<1>6. s.pc \in {"push", "check"} /\ s.fi \notin mixed[t] => BatchOf(s)' = BatchOf(s)
  <2>1. s.pc \in {"push", "check"} /\ s.fi \notin mixed[t] => s.end <= Len(files[s.fi + 1])
    BY <1>1, <1>3, <1>4 DEF PusherInv
  <2> QED
    BY <1>2, <1>5, <2>1, BatchStays
<1>a. mixed[t] \subseteq mixed'[t] /\ Len(files') \in Nat /\ Len(files) <= Len(files')
  BY <1>2, MixedGrows DEF Grown
<1>7. ASSUME s.pc \notin {"idle", "again"}, NEW i \in 1 .. s.fi
      PROVE  Left(t, i)'
  <2>1. i \in 1 .. Len(files) - 1
    BY <1>2, <1>5, <1>7
  <2>2. Left(t, i)
    BY <1>1, <1>3, <1>4, <1>7 DEF PusherLeft
  <2> QED
    BY <2>1, <2>2, LeftStays
<1>8. s.pc = "push" /\ s.fi \notin mixed'[t] => BatchOf(s)' # {}
  BY <1>1, <1>3, <1>4, <1>6, <1>a DEF PusherLeft
<1>9. ASSUME s.pc = "roll" \/ (s.pc = "check" /\ BatchOf(s)' = {} /\ s.fi + 1 < Len(files'))
      PROVE  Left(t, s.fi + 1)'
  <2>0. CASE s.fi \in mixed'[t]
    <3>1. (s.fi + 1) - 1 = s.fi /\ s.fi + 1 <= Len(files')
      BY <1>2, <1>5, <1>9, <1>a
    <3> QED
      BY <2>0, <3>1 DEF Left
  <2>1. CASE s.fi \notin mixed'[t] /\ s.fi + 1 < Len(files)
    <3>1. s.fi + 1 \in 1 .. Len(files) - 1
      BY <1>2, <2>1
    <3>2. Left(t, s.fi + 1)
      BY <1>1, <1>3, <1>4, <1>6, <1>9, <1>a, <2>1 DEF PusherLeft
    <3> QED
      BY <3>1, <3>2, LeftStays
  <2>2. CASE s.fi \notin mixed'[t] /\ ~(s.fi + 1 < Len(files))
    <3>1. s.fi + 1 = Len(files) /\ s.pc = "check" /\ s.fi \notin mixed[t]
      BY <1>1, <1>2, <1>4, <1>5, <1>9, <1>a, <2>2 DEF PusherInv
    <3> QED
      BY <1>1, <1>3, <1>6, <1>9, <3>1, NewestLeft
  <2> QED
    BY <2>0, <2>1, <2>2
<1> QED
  BY <1>1, <1>3, <1>7, <1>8, <1>9, PusherLeftOf

LEMMA PusherLeftMoves ==
    ASSUME IInv, LeftInv, [Next]_vars, NEW p \in Pusher, PusherStep(p)
    PROVE  PusherLeft(p)'
<1>1. PICK s \in PusherState : s = pusher[p]
  BY DEF IInv, TypeOK
<1>2. /\ s.fi \in Nat /\ s.off \in Nat /\ s.end \in Nat
      /\ pusher \in [Pusher -> PusherState] /\ Len(files) \in Nat
  BY DEF IInv, TypeOK, FeedTypeOK, PusherState
<1>3. PICK t \in Tracker : t = Target(p)
  BY PushAssumption DEF Target, Tracker
<1>4. PusherInv(p) /\ PusherLeft(p)
  BY DEF IInv, LeftInv
<1>5. UNCHANGED <<files, late>>
  BY DEF PusherStep, GetPosition, PutPosition0, GetIndex, PutIndex0, StatusFails,
         ReadBatch, PushBinlog, PushFails, Check, SetPusherStatus
<1>6. \A i : Left(t, i) => Left(t, i)'
  <2>1. acked[t] \subseteq acked'[t] /\ mixed[t] \subseteq mixed'[t]
    BY AckedGrows, MixedGrows
  <2> QED
    BY <1>5, <2>1 DEF Left
<1>a. s.pc \notin {"idle", "again"} => Reached(t, s) /\ \A i \in 1 .. s.fi : Left(t, i)'
  BY <1>1, <1>3, <1>4, <1>6 DEF PusherInv, PusherLeft
<1>b. \A i \in 1 .. cursor[t].fi : Left(t, i)'
  BY <1>6 DEF LeftInv
<1>7. CASE pusher'[p].pc \in {"idle", "again"}
  BY <1>7 DEF PusherLeft
<1>8. ASSUME NEW x, pusher'[p] = x, x.pc \in {"pos0", "index", "index0", "read", "save"},
             x.fi = 0 \/ x.fi = cursor[t].fi \/ (x.fi = s.fi /\ s.pc \notin {"idle", "again"})
      PROVE  PusherLeft(p)'
  <2>1. \A i \in 1 .. x.fi : Left(t, i)'
    BY <1>8, <1>a, <1>b
  <2> QED
    BY <1>3, <1>8, <2>1, PusherLeftOf
<1>c. CASE GetPosition(p) \/ PutPosition0(p) \/ GetIndex(p) \/ PutIndex0(p)
  <2>1. CASE GetPosition(p)
    BY <1>2, <1>3, <1>8, <2>1 DEF GetPosition
  <2>2. CASE PutPosition0(p)
    <3>1. pusher'[p].pc = "index" /\ pusher'[p].fi = s.fi /\ s.pc = "pos0"
      BY <1>1, <1>2, <2>2 DEF PutPosition0, PusherState
    <3> QED
      BY <1>8, <3>1
  <2>3. CASE GetIndex(p) /\ pusher' = [pusher EXCEPT ![p].pc = "index0"]
    <3>1. pusher'[p].pc = "index0" /\ pusher'[p].fi = s.fi /\ s.pc = "index"
      BY <1>1, <1>2, <2>3 DEF GetIndex, PusherState
    <3> QED
      BY <1>8, <3>1
  <2>4. ASSUME NEW y \in In(s, cursor[t].fi), pusher' = [pusher EXCEPT ![p] = [y EXCEPT !.pc = "read"]]
        PROVE  PusherLeft(p)'
    <3>1. cursor[t].fi \in Nat
      BY DEF IInv, TypeOK, Position
    <3>2. y \in PusherState /\ y.fi = cursor[t].fi
      BY <3>1, InPusher
    <3>3. pusher'[p] = [y EXCEPT !.pc = "read"]
      BY <1>2, <2>4
    <3>4. pusher'[p].pc = "read" /\ pusher'[p].fi = cursor[t].fi
      BY <3>2, <3>3 DEF PusherState
    <3> QED
      BY <1>8, <3>4
  <2>5. CASE PutIndex0(p)
    <3>1. pusher'[p].pc = "read" /\ pusher'[p].fi = 0
      BY <1>1, <1>2, <2>5 DEF PutIndex0, PusherState
    <3> QED
      BY <1>8, <3>1
  <2> QED
    BY <1>1, <1>3, <1>c, <2>1, <2>2, <2>3, <2>4, <2>5 DEF GetIndex
<1>9. CASE ReadBatch(p)
  <2>0. s.pc = "read" /\ Reached(t, s) /\ UNCHANGED <<files, mixed, acked>>
    BY <1>1, <1>9, <1>a DEF ReadBatch
  <2>1. PICK end : end = ReadEnd(Seen(s), s.off, BatchSize)
    OBVIOUS
  <2>3. s.fi + 1 \in 1 .. Len(files) /\ Len(files[s.fi + 1]) \in Nat
    BY <1>2, <2>0 DEF Reached, IInv, TypeOK, FeedTypeOK
  <2>4. ASSUME NEW x, x = [s EXCEPT !.pc = "push", !.end = end], pusher'[p] = x,
               ValidIn(Seen(s), s.off, end) # {}
        PROVE  PusherLeft(p)'
    <3>1. x.pc = "push" /\ x.fi = s.fi /\ x.off = s.off /\ x.rest = s.rest /\ x.end = end
      BY <2>4 DEF PusherState
    <3>2. BatchOf(x)' # {}
      BY <1>5, <2>4, <3>1 DEF BatchOf, Seen
    <3> QED
      BY <1>3, <1>a, <2>0, <2>4, <3>1, <3>2, PusherLeftOf
  <2>5. ASSUME NEW x, x = [s EXCEPT !.pc = "check", !.end = end], pusher'[p] = x,
               ValidIn(Seen(s), s.off, end) = {}
        PROVE  PusherLeft(p)'
    <3>1. x.pc = "check" /\ x.fi = s.fi
      BY <2>5 DEF PusherState
    <3>3. Left(t, s.fi + 1)
      <4>0. CASE s.fi \in mixed[t]
        <5>1. (s.fi + 1) - 1 = s.fi
          BY <1>2
        <5> QED
          BY <2>3, <4>0, <5>1 DEF Left
      <4>1. ASSUME s.fi \notin mixed[t], NEW q \in ValidIn(files[s.fi + 1], 0, Len(files[s.fi + 1]))
            PROVE  files[s.fi + 1][q] \in acked[t]
        <5>0. /\ AckedUpTo(t, s.fi + 1, s.off) /\ Seen(s) = files[s.fi + 1]
              /\ s.off <= Len(files[s.fi + 1])
          BY <2>0, <4>1 DEF Reached, Seen, AckedUpTo
        <5>a. end = Len(files[s.fi + 1])
          BY <1>2, <2>1, <2>3, <2>5, <5>0, EmptyReadsAll, PushAssumption
        <5>1. q \in 1 .. end /\ q \notin ValidIn(files[s.fi + 1], s.off, end)
              /\ files[s.fi + 1][q] \in Valid
          BY <2>5, <4>1, <5>0, <5>a DEF ValidIn
        <5>2. q \in 1 .. s.off
          BY <1>2, <2>3, <5>1, <5>a DEF ValidIn
        <5> QED
          BY <5>0, <5>1, <5>2 DEF AckedUpTo, ValidIn
      <4> QED
        BY <2>3, <4>0, <4>1 DEF Left
    <3>4. Left(t, s.fi + 1)'
      BY <1>6, <3>3
    <3> QED
      BY <1>3, <1>a, <2>0, <2>5, <3>1, <3>4, PusherLeftOf
  <2>6. \/ pusher'[p] = Idle
        \/ /\ pusher'[p] = [s EXCEPT !.pc = "check", !.end = end]
           /\ ValidIn(Seen(s), s.off, end) = {}
        \/ /\ pusher'[p] = [s EXCEPT !.pc = "push", !.end = end]
           /\ ValidIn(Seen(s), s.off, end) # {}
    BY <1>1, <1>2, <1>9, <2>1 DEF ReadBatch
  <2> QED
    BY <1>7, <2>4, <2>5, <2>6 DEF Idle
<1>10. CASE PushBinlog(p)
  <2>1. PICK x : x = [s EXCEPT !.pc = "check"]
    OBVIOUS
  <2>2. /\ pusher'[p] = x /\ x.pc = "check" /\ x.fi = s.fi /\ x.rest = s.rest
        /\ x.off = s.off /\ x.end = s.end /\ s.pc = "push" /\ mixed' = mixed
    BY <1>1, <1>2, <1>10, <2>1 DEF PushBinlog, PusherState
  <2>3. BatchOf(x)' = BatchOf(s)
    BY <1>5, <2>2 DEF BatchOf, Seen
  <2>4. s.fi \notin mixed[t] => BatchOf(s) # {}
    BY <1>1, <1>3, <1>4, <2>2 DEF PusherLeft
  <2>5. s.fi \in mixed[t] => Left(t, s.fi + 1)'
    <3>1. (s.fi + 1) - 1 = s.fi /\ s.fi + 1 <= Len(files)
      BY <1>2, <1>a, <2>2 DEF Reached
    <3> QED
      BY <1>5, <2>2, <3>1 DEF Left
  <2> QED
    BY <1>3, <1>a, <2>2, <2>3, <2>4, <2>5, PusherLeftOf
<1>11. CASE (\E n \in 0 .. MaxLines : PushFails(p, n)) \/ StatusFails(p)
  BY <1>2, <1>7, <1>11 DEF PushFails, StatusFails, Idle
<1>12. CASE Check(p)
  <2>2. CASE pusher'[p] = [s EXCEPT !.pc = "save"]
    <3>1. pusher'[p].pc = "save" /\ pusher'[p].fi = s.fi /\ s.pc = "check"
      BY <1>1, <1>12, <2>2 DEF Check, PusherState
    <3> QED
      BY <1>8, <3>1
  <2>3. CASE pusher'[p] = [s EXCEPT !.pc = "roll"] /\ BatchOf(s) = {} /\ cur > s.fi
    <3>1. pusher'[p].pc = "roll" /\ pusher'[p].fi = s.fi /\ s.pc = "check"
      BY <1>1, <1>12, <2>3 DEF Check, PusherState
    <3>3. s.fi + 1 < Len(files)
      BY <1>2, <2>3 DEF IInv, TypeOK, FeedTypeOK
    <3>2. Left(t, s.fi + 1)'
      BY <1>1, <1>3, <1>4, <1>6, <2>3, <3>1, <3>3 DEF PusherLeft
    <3> QED
      BY <1>3, <1>a, <3>1, <3>2, PusherLeftOf
  <2>4. \/ pusher'[p] = Idle
        \/ pusher'[p] = [s EXCEPT !.pc = "save"]
        \/ pusher'[p] = [s EXCEPT !.pc = "roll"] /\ BatchOf(s) = {} /\ cur > s.fi
    BY <1>1, <1>2, <1>12 DEF Check
  <2> QED
    BY <1>7, <2>2, <2>3, <2>4 DEF Idle
<1>13. CASE SetPusherStatus(p)
  BY <1>2, <1>7, <1>13 DEF SetPusherStatus, Idle
<1> QED
  BY <1>c, <1>9, <1>10, <1>11, <1>12, <1>13 DEF PusherStep

LEMMA CursorLeft ==
    ASSUME IInv, LeftInv, [Next]_vars, NEW t \in Tracker, NEW i \in 1 .. cursor'[t].fi
    PROVE  Left(t, i)'
<1>1. PICK c \in Position : c = cursor[t]
  BY DEF IInv, TypeOK
<1>2. Reached(t, c) /\ c.fi \in Nat /\ Len(files) \in Nat
  BY <1>1 DEF IInv, TypeOK, FeedTypeOK, Position
<1>3. ASSUME i \in 1 .. c.fi
      PROVE  Left(t, i)'
  <2>1. i \in 1 .. Len(files) - 1 /\ Left(t, i)
    BY <1>1, <1>2, <1>3 DEF Reached, LeftInv
  <2> QED
    BY <2>1, LeftStays
<1>4. CASE cursor'[t].fi = c.fi
  BY <1>3, <1>4
<1>5. CASE cursor'[t].fi = 0
  BY <1>5
<1>6. ASSUME NEW p \in Pusher, t = Target(p), SetPusherStatus(p),
             cursor'[t] = Saved(pusher[p])
      PROVE  Left(t, i)'
  <2>1. PICK s \in PusherState : s = pusher[p]
    BY DEF IInv, TypeOK
  <2>2. /\ s.fi \in Nat /\ UNCHANGED <<files, acked, late, mixed>>
        /\ s.pc \in {"save", "roll"}
        /\ cursor'[t].fi = IF s.pc = "roll" THEN s.fi + 1 ELSE s.fi
    BY <1>6, <2>1 DEF SetPusherStatus, PusherState, Saved, At, NextFile
  <2>3. /\ \A j \in 1 .. s.fi : Left(t, j)
        /\ s.pc = "roll" => Left(t, s.fi + 1)
    BY <1>6, <2>1, <2>2 DEF LeftInv, PusherLeft
  <2>4. Left(t, i)
    BY <2>2, <2>3
  <2> QED
    BY <2>2, <2>4 DEF Left
<1>7. cursor'[t].fi = c.fi \/ cursor'[t].fi = 0
      \/ \E p \in Pusher : /\ t = Target(p) /\ SetPusherStatus(p)
                          /\ cursor'[t] = Saved(pusher[p])
  <2>1. \A x \in In(c, 0) : x.fi = 0
    BY InPosition
  <2>2. cursor'[t] = [c EXCEPT !.off = 0, !.rest = Whole] => cursor'[t].fi = c.fi
    BY DEF Position
  <2> QED
    BY <1>1, <2>1, <2>2, CursorWritten
<1> QED
  BY <1>4, <1>5, <1>6, <1>7

LEMMA LeftInvStep == IInv /\ LeftInv /\ [Next]_vars => LeftInv'
<1> SUFFICES ASSUME IInv, LeftInv, [Next]_vars PROVE LeftInv'
  OBVIOUS
<1>1. ASSUME NEW p \in Pusher PROVE PusherLeft(p)'
  <2>0. pusher \in [Pusher -> PusherState]
    BY DEF IInv, TypeOK
  <2>1. CASE PusherStep(p)
    BY <2>1, PusherLeftMoves
  <2>2. CASE pusher'[p] = pusher[p]
    BY <2>2, PusherLeftStays
  <2>3. CASE Restart
    <3>1. pusher'[p] = Idle
      BY <2>3 DEF Restart
    <3> QED
      BY <3>1 DEF PusherLeft, Idle
  <2>4. ASSUME NEW o \in Pusher, PusherStep(o), o # p
        PROVE  pusher'[p] = pusher[p]
    BY <2>0, <2>4
       DEF PusherStep, GetPosition, PutPosition0, GetIndex, PutIndex0,
         StatusFails, ReadBatch, PushBinlog, PushFails, Check,
           SetPusherStatus
  <2>5. CASE FeedStep \/ UNCHANGED vars \/ (\E t \in Tracker : Learn(t))
             \/ \E t \in Tracker, r \in Valid : PeerPush(t, r)
    BY <2>2, <2>5 DEF FeedStep, vars, Learn, PeerPush
  <2> QED
    BY <2>1, <2>2, <2>3, <2>4, <2>5 DEF Next
<1>2. (\A t \in Tracker : \A i \in 1 .. cursor[t].fi : Left(t, i))'
  BY CursorLeft
<1> QED
  BY <1>1, <1>2 DEF LeftInv

(***************************************************************************)
(* The saved position of a tracker names a line of an existing file, and   *)
(* every record of that file before it was acknowledged by the tracker:    *)
(* with any number of pushers sharing the position, any rolls and          *)
(* restarts, and whichever pushes and saves fail.                          *)
(***************************************************************************)
THEOREM PushedBeforeSaved == Spec => [](TypeOK /\ CursorValid /\ AckedBeforeCursor)
<1>1. IInv => TypeOK /\ CursorValid /\ AckedBeforeCursor
  <2>1. ASSUME IInv, NEW t \in Tracker
        PROVE  /\ cursor[t].fi < Len(files)
               /\ cursor[t].fi \notin mixed[t] =>
                    /\ cursor[t].rest = Whole
                    /\ cursor[t].off <= Len(files[cursor[t].fi + 1])
                    /\ \A q \in ValidIn(files[cursor[t].fi + 1], 0, cursor[t].off) :
                         files[cursor[t].fi + 1][q] \in acked[t]
    BY <2>1 DEF IInv, Reached, AckedUpTo
  <2>2. ASSUME IInv PROVE CursorValid
    BY <2>1, <2>2 DEF CursorValid
  <2>3. ASSUME IInv PROVE AckedBeforeCursor
    BY <2>1, <2>3 DEF AckedBeforeCursor
  <2> QED
    BY <2>2, <2>3 DEF IInv
<1> QED
  BY <1>1, InitIInv, IInvStep, PTL DEF Spec

(***************************************************************************)
(* A pusher leaves no record behind in an earlier file but one written,    *)
(* and followed by a new file, between its Read and its GetCurrentIndex.   *)
(* An empty Read has seen the whole file, and only the newest file grows,  *)
(* so a file that has a successor already stays as it was read.            *)
(***************************************************************************)
THEOREM FilesPushedWhole == Spec => []NothingLeftBehind
<1>1. Init => LeftInv
  BY DEF Init, LeftInv, PusherLeft, Idle, Start, Tracker, Pusher
<1>2. LeftInv => NothingLeftBehind
  BY DEF LeftInv, NothingLeftBehind, Left
<1> QED
  BY <1>1, <1>2, InitIInv, IInvStep, LeftInvStep, PTL DEF Spec

\* Cursors, batches and histories keep their types.
COROLLARY PushTypes == Spec => []TypeOK
BY PushedBeforeSaved, PTL

\* The position of a tracker is one in an existing file, whoever races on it.
COROLLARY PositionInFile == Spec => []CursorValid
BY PushedBeforeSaved, PTL

-----------------------------------------------------------------------------
\* A single pusher in a round is at the saved position: nobody else writes it.
\* What it found unwritten still is.
AtSaved(x, c, u) ==
    x.pc \notin {"idle", "again"} =>
        /\ x.fi = c.fi /\ x.off = c.off /\ x.rest = c.rest
        /\ x.pc = "pos0" => "pos" \in u
        /\ x.pc = "index0" => "index" \in u

Sole ==
    NTrackers = 1 => mixed[1] = {} /\ AtSaved(pusher[1], cursor[1], unset[1])

\* What a step of the only pusher does to it and to the saved position.
LEMMA SolePusher ==
    ASSUME IInv, Sole, [Next]_vars, NTrackers = 1, PusherStep(1)
    PROVE  /\ mixed'[1] = {} /\ AtSaved(pusher'[1], cursor'[1], unset'[1])
           /\ \/ cursor'[1] = cursor[1]
              \/ SetPusherStatus(1) /\ cursor'[1] = Saved(pusher[1])
<1>0. PICK s \in PusherState, c \in Position :
         /\ s = pusher[1] /\ c = cursor[1] /\ Target(1) = 1 /\ 1 \in Pusher /\ 1 \in Tracker
  BY DEF IInv, TypeOK, Pusher, Tracker, Target
<1>1. /\ pusher \in [Pusher -> PusherState] /\ cursor \in [Tracker -> Position]
      /\ unset \in [Tracker -> SUBSET {"pos", "index"}]
      /\ mixed \in [Tracker -> SUBSET Nat]
      /\ unset[1] # {} => c = Start
      /\ mixed[1] = {} /\ AtSaved(s, c, unset[1])
  BY <1>0 DEF IInv, TypeOK, Sole
<1>2. CASE GetPosition(1)
  <2>1. UNCHANGED <<cursor, unset, mixed>>
    BY <1>2 DEF GetPosition
  <2>2. pusher'[1] = [pc |-> IF "pos" \in unset[1] THEN "pos0" ELSE "index",
                      fi |-> c.fi, off |-> c.off, rest |-> c.rest, end |-> 0]
    BY <1>0, <1>1, <1>2 DEF GetPosition
  <2> QED
    BY <1>0, <1>1, <2>1, <2>2 DEF AtSaved
<1>3. CASE PutPosition0(1)
  <2>1. /\ s.pc = "pos0" /\ mixed' = mixed
        /\ pusher'[1] = [s EXCEPT !.pc = "index"]
        /\ \/ UNCHANGED <<cursor, unset>>
           \/ cursor'[1] = [c EXCEPT !.off = 0, !.rest = Whole]
    <3>1. s.pc = "pos0" /\ mixed' = mixed /\ pusher'[1] = [s EXCEPT !.pc = "index"]
      BY <1>0, <1>1, <1>3 DEF PutPosition0
    <3>2. \/ UNCHANGED <<cursor, unset>>
          \/ cursor' = [cursor EXCEPT ![1].off = 0, ![1].rest = Whole]
      BY <1>0, <1>3 DEF PutPosition0
    <3>3. ASSUME cursor' = [cursor EXCEPT ![1].off = 0, ![1].rest = Whole]
          PROVE  cursor'[1] = [c EXCEPT !.off = 0, !.rest = Whole]
      BY <1>0, <1>1, <3>3 DEF Position
    <3> QED
      BY <3>1, <3>2, <3>3
  <2>2. c = Start /\ s.fi = c.fi /\ s.off = c.off /\ s.rest = c.rest
    BY <1>1, <2>1 DEF AtSaved
  <2>3. cursor'[1] = c
    BY <1>0, <2>1, <2>2, StartKept
  <2>4. /\ pusher'[1].pc = "index" /\ pusher'[1].fi = s.fi
        /\ pusher'[1].off = s.off /\ pusher'[1].rest = s.rest
    BY <2>1 DEF PusherState
  <2> QED
    BY <1>0, <1>1, <2>1, <2>2, <2>3, <2>4 DEF AtSaved
<1>4. CASE GetIndex(1)
  <2>1. /\ s.pc = "index" /\ UNCHANGED <<cursor, unset>>
        /\ \/ pusher'[1] = [s EXCEPT !.pc = "index0"] /\ "index" \in unset[1] /\ mixed' = mixed
           \/ \E x \in In(s, c.fi) : /\ pusher'[1] = [x EXCEPT !.pc = "read"]
                                     /\ mixed' = Mix(1, s, c.fi)
    BY <1>0, <1>1, <1>4 DEF GetIndex
  <2>2. s.fi = c.fi /\ s.off = c.off /\ s.rest = c.rest /\ ~Foreign(s, c.fi)
    BY <1>1, <2>1 DEF AtSaved, Foreign
  <2>3. mixed'[1] = {}
    BY <1>0, <1>1, <2>1, <2>2 DEF Mix
  <2>4. CASE pusher'[1] = [s EXCEPT !.pc = "index0"] /\ "index" \in unset[1]
    <3>1. /\ pusher'[1].pc = "index0" /\ pusher'[1].fi = s.fi
          /\ pusher'[1].off = s.off /\ pusher'[1].rest = s.rest
      BY <2>4 DEF PusherState
    <3> QED
      BY <1>0, <2>1, <2>2, <2>3, <2>4, <3>1 DEF AtSaved
  <2>5. ASSUME NEW x \in In(s, c.fi), pusher'[1] = [x EXCEPT !.pc = "read"]
        PROVE  AtSaved(pusher'[1], cursor'[1], unset'[1])
    <3>1. c.fi \in Nat
      BY DEF Position
    <3>2. x \in PusherState /\ x.fi = c.fi /\ x.off = s.off /\ x.rest = s.rest
      BY <2>2, <3>1, InPusher
    <3>3. /\ pusher'[1].pc = "read" /\ pusher'[1].fi = x.fi
          /\ pusher'[1].off = x.off /\ pusher'[1].rest = x.rest
      BY <2>5, <3>2 DEF PusherState
    <3> QED
      BY <1>0, <2>1, <2>2, <3>2, <3>3 DEF AtSaved
  <2> QED
    BY <1>0, <2>1, <2>3, <2>4, <2>5
<1>5. CASE PutIndex0(1)
  <2>1. /\ s.pc = "index0"
        /\ pusher'[1] = [s EXCEPT !.pc = "read", !.fi = 0]
        /\ \/ UNCHANGED <<cursor, mixed>>
           \/ cursor'[1] \in In(c, 0) /\ mixed' = Mix(1, c, 0)
    <3>1. s.pc = "index0" /\ pusher'[1] = [s EXCEPT !.pc = "read", !.fi = 0]
      BY <1>0, <1>1, <1>5 DEF PutIndex0
    <3>2. \/ UNCHANGED <<cursor, mixed>>
          \/ \E x \in In(c, 0) : cursor' = [cursor EXCEPT ![1] = x] /\ mixed' = Mix(1, c, 0)
      BY <1>0, <1>5 DEF PutIndex0
    <3> QED
      BY <1>0, <1>1, <3>1, <3>2
  <2>2. c = Start /\ s.fi = c.fi /\ s.off = c.off /\ s.rest = c.rest
    BY <1>1, <2>1 DEF AtSaved
  <2>3. cursor'[1] = c
    BY <1>0, <2>1, <2>2, StartKept
  <2>4. mixed'[1] = {}
    <3>1. ~Foreign(c, 0)
      BY <2>2 DEF Foreign, Start
    <3> QED
      BY <1>0, <1>1, <2>1, <3>1 DEF Mix
  <2>5. /\ pusher'[1].pc = "read" /\ pusher'[1].fi = 0
        /\ pusher'[1].off = s.off /\ pusher'[1].rest = s.rest /\ c.fi = 0
    BY <2>1, <2>2 DEF PusherState, Start
  <2> QED
    BY <1>0, <2>2, <2>3, <2>4, <2>5 DEF AtSaved
<1>6. CASE pusher'[1].pc \in {"idle", "again"} /\ mixed' = mixed
           /\ (cursor' = cursor \/ (SetPusherStatus(1) /\ cursor'[1] = Saved(pusher[1])))
  BY <1>0, <1>1, <1>6 DEF AtSaved
<1>7. CASE StatusFails(1) \/ (\E n \in 0 .. MaxLines : PushFails(1, n))
  BY <1>0, <1>1, <1>6, <1>7 DEF StatusFails, PushFails, Idle
<1>8. CASE SetPusherStatus(1)
  <2>1. pusher'[1].pc \in {"idle", "again"}
    BY <1>0, <1>1, <1>8 DEF SetPusherStatus, Idle
  <2> QED
    BY <1>0, <1>1, <1>6, <1>8, <2>1 DEF SetPusherStatus
<1>9. CASE ReadBatch(1) \/ PushBinlog(1) \/ Check(1)
  <2>1. /\ UNCHANGED <<cursor, unset, mixed>>
        /\ s.pc \in {"read", "push", "check"}
        /\ \/ pusher'[1] = Idle
           \/ \E k \in {"check", "push", "save", "roll"}, e \in {s.end, pusher'[1].end} :
                 pusher'[1] = [s EXCEPT !.pc = k, !.end = e]
    <3>1. CASE ReadBatch(1)
      <4>1. PICK end : end = ReadEnd(Seen(s), s.off, BatchSize)
        OBVIOUS
      <4>2. \/ pusher'[1] = Idle
            \/ pusher'[1] = [s EXCEPT !.pc = "check", !.end = end]
            \/ pusher'[1] = [s EXCEPT !.pc = "push", !.end = end]
        BY <1>0, <1>1, <3>1, <4>1 DEF ReadBatch
      <4>3. pusher'[1] = Idle \/ pusher'[1].end = end
        BY <4>2 DEF PusherState
      <4> QED
        BY <1>0, <3>1, <4>2, <4>3 DEF ReadBatch
    <3>2. CASE PushBinlog(1)
      <4>1. pusher'[1] = [s EXCEPT !.pc = "check"]
        BY <1>0, <1>1, <3>2 DEF PushBinlog
      <4>2. [s EXCEPT !.pc = "check"] = [s EXCEPT !.pc = "check", !.end = s.end]
        BY DEF PusherState
      <4> QED
        BY <1>0, <3>2, <4>1, <4>2 DEF PushBinlog
    <3>3. CASE Check(1)
      <4>1. \/ pusher'[1] = Idle
            \/ pusher'[1] = [s EXCEPT !.pc = "save"]
            \/ pusher'[1] = [s EXCEPT !.pc = "roll"]
        BY <1>0, <1>1, <3>3 DEF Check
      <4>2. \A k \in {"save", "roll"} : [s EXCEPT !.pc = k] = [s EXCEPT !.pc = k, !.end = s.end]
        BY DEF PusherState
      <4> QED
        BY <1>0, <3>3, <4>1, <4>2 DEF Check
    <3> QED
      BY <1>9, <3>1, <3>2, <3>3
  <2>2. CASE pusher'[1] = Idle
    BY <1>6, <2>1, <2>2 DEF Idle
  <2>3. ASSUME NEW k \in {"check", "push", "save", "roll"}, NEW e,
               pusher'[1] = [s EXCEPT !.pc = k, !.end = e]
        PROVE  AtSaved(pusher'[1], cursor'[1], unset'[1])
    <3>1. /\ pusher'[1].pc = k /\ pusher'[1].fi = s.fi
          /\ pusher'[1].off = s.off /\ pusher'[1].rest = s.rest
      BY <2>3 DEF PusherState
    <3>2. s.fi = c.fi /\ s.off = c.off /\ s.rest = c.rest
      BY <1>1, <2>1 DEF AtSaved
    <3> QED
      BY <1>0, <2>1, <3>1, <3>2 DEF AtSaved
  <2> QED
    BY <1>0, <1>1, <2>1, <2>2, <2>3
<1> QED
  BY <1>2, <1>3, <1>4, <1>5, <1>7, <1>8, <1>9 DEF PusherStep

LEMMA SoleStep == IInv /\ Sole /\ [Next]_vars => Sole'
<1> SUFFICES ASSUME IInv, Sole, [Next]_vars, NTrackers = 1
             PROVE  mixed'[1] = {} /\ AtSaved(pusher'[1], cursor'[1], unset'[1])
  BY DEF Sole, AtSaved
<1>1. Pusher = {1}
  BY DEF Pusher
<1>2. CASE UNCHANGED <<pusher, cursor, unset, mixed>>
  BY <1>2 DEF Sole
<1>3. CASE Restart
  <2>1. pusher'[1] = Idle /\ mixed' = mixed
    BY <1>1, <1>3 DEF Restart
  <2> QED
    BY <2>1 DEF Idle, AtSaved, Sole
<1>4. CASE \E o \in Pusher : PusherStep(o)
  BY <1>1, <1>4, SolePusher
<1> QED
  BY <1>2, <1>3, <1>4 DEF Next, FeedStep, Learn, PeerPush, vars

LEMMA NoStepBackStep ==
    IInv /\ Sole /\ [Next]_vars => [NTrackers = 1 => NoStepBack(NTrackers)]_vars
<1> SUFFICES ASSUME IInv, Sole, [Next]_vars, NTrackers = 1
             PROVE  NoStepBack(NTrackers)
  OBVIOUS
<1>1. /\ Pusher = {1} /\ Target(1) = 1 /\ 1 \in Tracker
      /\ pusher[1] \in PusherState /\ cursor \in [Tracker -> Position]
      /\ PusherInv(1) /\ mixed[1] = {}
  BY DEF IInv, TypeOK, Pusher, Tracker, Target, Sole
<1>2. cursor[1].fi \in Nat /\ cursor[1].off \in Nat
  BY <1>1 DEF Position
<1>3. CASE cursor'[1] = cursor[1]
  BY <1>2, <1>3 DEF NoStepBack
<1>4. CASE SetPusherStatus(1) /\ cursor'[1] = Saved(pusher[1])
  <2> DEFINE s == pusher[1]
  <2>1. /\ s.fi = cursor[1].fi /\ s.off = cursor[1].off
        /\ s.pc \in {"save", "roll"}
        /\ s.fi \in Nat /\ s.off \in Nat /\ s.end \in Nat
    BY <1>1, <1>4 DEF SetPusherStatus, Sole, AtSaved, PusherState
  <2>3. s.pc = "save" => s.off <= s.end
    BY <1>1 DEF PusherInv
  <2>4. CASE s.pc = "roll"
    <3>1. cursor'[1].fi = s.fi + 1
      BY <1>4, <2>4 DEF Saved, NextFile
    <3> QED
      BY <1>2, <2>1, <3>1 DEF NoStepBack
  <2>5. CASE s.pc = "save"
    <3>1. cursor'[1].fi = s.fi /\ cursor'[1].off = s.end
      BY <1>4, <2>5 DEF Saved, At
    <3> QED
      BY <1>2, <2>1, <2>3, <2>5, <3>1 DEF NoStepBack
  <2> QED
    BY <2>1, <2>4, <2>5
<1>5. CASE \E o \in Pusher : PusherStep(o)
  BY <1>1, <1>3, <1>4, <1>5, SolePusher
<1>6. CASE cursor' = cursor
  BY <1>3, <1>6
<1> QED
  BY <1>5, <1>6 DEF Next, FeedStep, Restart, Learn, PeerPush, vars

\* The saved position of a single tracker only moves forward, in the file or
\* to a later one: Read never returns an offset before the one it was given,
\* and nobody else writes the position while a round is under way.
THEOREM PositionOnlyForward == Spec => CursorForward
<1>1. Init => Sole
  BY DEF Init, Sole, AtSaved, Idle, Tracker, Pusher
<1> QED
  BY <1>1, InitIInv, IInvStep, SoleStep, NoStepBackStep, PTL DEF Spec, CursorForward
=============================================================================
