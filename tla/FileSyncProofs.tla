---------------------------- MODULE FileSyncProofs --------------------------
(***************************************************************************)
(* Proofs about FileSync for every batch size, and number of files, lines, *)
(* restarts and failures.                                                  *)
(***************************************************************************)
EXTENDS FileSync, LogFeedProofs, WellFoundedInduction, FiniteSetTheorems

\* A place of the binlog: a line, or the end, of an existing file.
Place(k) == k.fi < Len(files) /\ k.off <= Len(files[k.fi + 1])

\* Every file named in the lines from..to of file i is there, or was skipped.
Settled(i, from, to) ==
    \A q \in ValidIn(files[i + 1], from, to) :
        files[i + 1][q] \in present \/ <<i, q>> \in skipped

\* At the files of a batch.
Filing == {"file", "missing", "transfer"}
USE DEF Filing

(***************************************************************************)
(* A goroutine works on lines of a file that were there when it read them, *)
(* and a Read of the same position would return them again; while no file  *)
(* failed, all it is done with are settled.  What it takes for missing is  *)
(* the file of a record.                                                   *)
(***************************************************************************)
LoopInv(l) ==
    LET s == loop[l]
    IN  /\ s.pc \in {"read", "check"} \cup Filing => Place(s.from)
        /\ s.pc \in {"check"} \cup Filing =>
               /\ s.from.off <= s.at /\ s.at <= s.end
               /\ s.end <= Len(LogOf(l))
               /\ s.end <= ReadEnd(LogOf(l), s.from.off, Fetch)
        /\ s.pc \in Filing =>
               /\ Place(s.to)
               /\ s.failed \/ Settled(s.from.fi, s.from.off, s.at)
        /\ s.pc = "check" => s.at = s.from.off
        /\ s.pc = "missing" => Todo(l) # {} /\ FileOf(l) \in Record
        /\ s.pc = "transfer" => Todo(l) # {} /\ FileOf(l) \in downloading

OneFileEach ==
    loop["sync"].pc = "transfer" /\ loop["retry"].pc = "transfer" =>
        FileOf("sync") # FileOf("retry")

LoopsInv == OneFileEach /\ \A l \in Loop : LoopInv(l)

PlacesInv == \A k \in {pos} \cup failedPos \cup temp \cup dropped : Place(k)

IInv ==
    /\ TypeOK
    /\ IsFiniteSet(failedPos)
    /\ cur < Len(files)
    /\ PlacesInv
    /\ LoopsInv
-----------------------------------------------------------------------------
\* The first of the lines left exists.
LEMMA LeastExists ==
    ASSUME NEW S \in SUBSET Nat, S # {}
    PROVE  Min(S) \in S /\ \A x \in S : Min(S) <= x
<1>1. PICK q \in S : \A x \in S : ~(<<x, q>> \in OpToRel(<, Nat))
  BY NatLessThanWellFounded, WFMin, Zenon
<1>2. \A x \in S : ~(x < q)
  BY <1>1, Zenon DEF OpToRel
<1>3. \A x \in S : q <= x
  BY <1>2
<1> QED
  BY <1>3, Zenon DEF Min

LEMMA Typing ==
    ASSUME IInv
    PROVE  /\ files \in Seq(Seq(Line)) /\ files # <<>> /\ Len(files) \in Nat
           /\ \A i \in 1 .. Len(files) : Len(files[i]) \in Nat
           /\ \A l \in Loop : loop[l] \in LoopState
           /\ loop \in [Loop -> LoopState]
<1>1. files \in Seq(Seq(Line)) /\ files # <<>> /\ loop \in [Loop -> LoopState]
  BY DEF IInv, TypeOK, FeedTypeOK
<1> QED
  BY <1>1

\* What is appended is a line.
LEMMA LinesAreLines == IInv /\ Room => Lines[LinesOfLast + 1] \subseteq Line
<1> SUFFICES ASSUME IInv, Room PROVE Lines[LinesOfLast + 1] \subseteq Line
  OBVIOUS
<1>1. LinesOfLast \in Nat
  <2>1. Len(files) \in 1 .. Len(files)
    BY Typing
  <2> QED
    BY <2>1, Typing DEF LinesOfLast
<1>2. LinesOfLast + 1 \in 1 .. MaxLines
  BY <1>1, FileSyncAssumption DEF Room
<1> QED
  BY <1>2, FileSyncAssumption

LEMMA FilesGrow == IInv /\ [Next]_vars => Grown
<1> SUFFICES ASSUME IInv, [Next]_vars PROVE Grown
  OBVIOUS
<1>1. files \in Seq(Seq(Line)) /\ files # <<>>
  BY Typing
<1>2. <<>> \in Seq(Line) /\ <<Skip>> \in Seq(Line) /\ Skip \in Line
  BY DEF Line
<1>3. CASE FeedStep
  <2>1. ASSUME NEW l \in Line, AppendLine(l) PROVE Grown
    BY <1>1, <1>2, <2>1, ExtendGrows DEF AppendLine
  <2>2. CASE OpenLast
    BY <1>1, <2>2, SameGrows DEF OpenLast
  <2>3. CASE Roll
    BY <1>1, <1>2, <2>3, NewFileGrows DEF Roll
  <2> QED
    BY <1>3, <2>1, <2>2, <2>3, LinesAreLines DEF FeedStep
<1>4. CASE Restart
  <2>1. CASE RebootFix(Skip)
    BY <1>1, <1>2, <2>1, ExtendGrows DEF RebootFix
  <2>2. CASE RebootOnly
    BY <1>1, <2>2, SameGrows DEF RebootOnly
  <2>3. CASE RebootRoll(<<Skip>>)
    BY <1>1, <1>2, <2>3, NewFileGrows DEF RebootRoll
  <2> QED
    BY <1>4, <2>1, <2>2, <2>3 DEF Restart
<1>5. CASE files' = files
  BY <1>1, <1>5, SameGrows
<1> QED
  BY <1>3, <1>4, <1>5
     DEF Next, AddDataset, SyncStep, RetryStep, SyncBegins, RetryBegins, RetryLoad,
         RetryPick, RetryRemoves, LoopStep, ReadBatch, CheckIndex, SkipFile, FindMissing,
         PassOver, NoServer, RegisterDownloadingFile, Downloaded, DownloadFails, SaveDownloadState,
         RetryFinished, LocalStep, vars

-----------------------------------------------------------------------------
LEMMA GrownAt ==
    ASSUME IInv, Grown, NEW i \in 1 .. Len(files)
    PROVE  /\ i \in 1 .. Len(files') /\ Len(files') \in Nat
           /\ Len(files[i]) \in Nat /\ Len(files'[i]) \in Nat
           /\ Len(files[i]) <= Len(files'[i])
           /\ \A q \in 1 .. Len(files[i]) : files'[i][q] = files[i][q]
<1>1. files' \in Seq(Seq(Line)) /\ Len(files) <= Len(files') /\ Len(files') \in Nat
  BY DEF Grown
<1>2. i \in 1 .. Len(files')
  BY <1>1, Typing
<1>3. Len(files'[i]) \in Nat
  BY <1>1, <1>2
<1> QED
  BY <1>1, <1>2, <1>3, Typing DEF Grown

\* What growing files keep: places, what a retry would read, and what is
\* settled.
LEMMA PlaceStays ==
    ASSUME IInv, Grown, NEW k \in Position, Place(k)
    PROVE  Place(k)'
<1>1. k.fi \in Nat /\ k.off \in Nat /\ k.fi + 1 \in 1 .. Len(files)
  BY Typing DEF Place, Position
<1> QED
  BY <1>1, Typing, GrownAt, SMTT(30) DEF Place

LEMMA WindowGrows ==
    ASSUME IInv, Grown, NEW k \in Position, Place(k)
    PROVE  Window(k) \subseteq Window(k)'
<1> DEFINE old == files[k.fi + 1]
           new == files'[k.fi + 1]
           e   == ReadEnd(old, k.off, Fetch)
           f   == ReadEnd(new, k.off, Fetch)
<1>1. k.fi \in Nat /\ k.off \in Nat /\ k.fi + 1 \in 1 .. Len(files)
  BY Typing DEF Place, Position
<1>2. /\ Len(old) <= Len(new) /\ Len(old) \in Nat /\ Len(new) \in Nat
      /\ \A q \in 1 .. Len(old) : new[q] = old[q]
      /\ k.off <= Len(old) /\ k.off <= Len(new)
  BY <1>1, GrownAt, SMTT(30) DEF Place
<1> HIDE DEF old, new
<1>3. e <= f
  BY <1>1, <1>2, ReadEndGrows
<1>4. e \in k.off .. Len(old) /\ f \in k.off .. Len(new)
  BY <1>1, <1>2, ReadEndBounds
<1> HIDE DEF e, f
<1>5. ValidIn(old, k.off, e) \subseteq ValidIn(new, k.off, f)
  BY <1>1, <1>2, <1>3, <1>4, SMTT(30) DEF ValidIn
<1> QED
  BY <1>5 DEF Window, old, new, e, f

LEMMA SettledStays ==
    ASSUME IInv, Grown, present \subseteq present', skipped \subseteq skipped',
           NEW i \in Nat, i < Len(files), NEW from \in Nat, NEW to \in Nat,
           to <= Len(files[i + 1]), Settled(i, from, to)
    PROVE  Settled(i, from, to)'
<1> DEFINE old == files[i + 1]
           new == files'[i + 1]
<1>1. i + 1 \in 1 .. Len(files)
  BY Typing
<1>2. Len(old) \in Nat /\ to <= Len(old) /\ \A q \in 1 .. Len(old) : new[q] = old[q]
  BY <1>1, GrownAt
<1>3. \A q \in ValidIn(old, from, to) :
         old[q] \in present \/ <<i, q>> \in skipped
  BY DEF Settled
<1> HIDE DEF old, new
<1>4. ValidIn(new, from, to) = ValidIn(old, from, to)
  BY <1>2, SMTT(30) DEF ValidIn
<1>5. ASSUME NEW q \in ValidIn(old, from, to)
      PROVE  new[q] \in present' \/ <<i, q>> \in skipped'
  <2>1. q \in 1 .. Len(old)
    BY <1>2, <1>5 DEF ValidIn
  <2> QED
    BY <1>2, <1>3, <1>5, <2>1
<1> QED
  BY <1>4, <1>5 DEF Settled, new

-----------------------------------------------------------------------------
\* The lines left of a batch, and the next of them.
LEMMA NextLineIsFirst ==
    ASSUME IInv, NEW l \in Loop, loop[l].pc \in Filing, Todo(l) # {}
    PROVE  /\ NextLine(l) \in Todo(l)
           /\ NextLine(l) \in Nat
           /\ loop[l].at < NextLine(l) /\ NextLine(l) <= loop[l].end
           /\ \A x \in Todo(l) : NextLine(l) <= x
           /\ FileOf(l) \in Valid
<1>1. loop[l] \in LoopState
  BY Typing
<1>2. loop[l].at \in Nat /\ loop[l].end \in Nat
  BY <1>1 DEF LoopState
<1>3. Todo(l) \in SUBSET Nat
  BY <1>2 DEF Todo, ValidIn
<1>4. NextLine(l) \in Todo(l) /\ \A x \in Todo(l) : NextLine(l) <= x
  BY <1>3, LeastExists DEF NextLine
<1>5. /\ NextLine(l) \in loop[l].at + 1 .. loop[l].end
      /\ LogOf(l)[NextLine(l)] \in Valid
  BY <1>4 DEF Todo, ValidIn
<1> QED
  BY <1>2, <1>4, <1>5 DEF FileOf

\* A goroutine that does not move keeps its part of the invariant, and its
\* file.
LEMMA LoopStays ==
    ASSUME IInv, Grown, present \subseteq present', skipped \subseteq skipped',
           NEW l \in Loop, loop'[l] = loop[l],
           loop[l].pc = "transfer" => FileOf(l) \in downloading'
    PROVE  LoopInv(l)' /\ (loop[l].pc = "transfer" => FileOf(l)' = FileOf(l))
<1>0. PICK s \in LoopState : s = loop[l] /\ s = loop'[l]
  BY Typing
<1>1. /\ s.from \in Position /\ s.to \in Position /\ s.end \in Nat /\ s.at \in Nat
      /\ s.from.fi \in Nat /\ s.from.off \in Nat
  BY DEF LoopState, Position
<1>2. LoopInv(l)
  BY DEF IInv, LoopsInv
<1> DEFINE old == files[s.from.fi + 1]
           new == files'[s.from.fi + 1]
<1>3. LogOf(l) = old /\ LogOf(l)' = new
  BY <1>0 DEF LogOf
<1>4. s.pc \in {"read", "check"} \cup Filing => Place(s.from) /\ Place(s.from)'
  BY <1>0, <1>1, <1>2, PlaceStays DEF LoopInv
<1>5. s.pc \in Filing => Place(s.to)'
  BY <1>0, <1>1, <1>2, PlaceStays DEF LoopInv
<1>6. ASSUME s.pc \in {"check"} \cup Filing
      PROVE  /\ s.from.fi + 1 \in 1 .. Len(files)
             /\ Len(old) \in Nat /\ Len(new) \in Nat /\ Len(old) <= Len(new)
             /\ \A q \in 1 .. Len(old) : new[q] = old[q]
             /\ s.from.off <= s.at /\ s.at <= s.end
             /\ s.end <= Len(old) /\ s.end <= ReadEnd(old, s.from.off, Fetch)
  <2>1. s.from.fi + 1 \in 1 .. Len(files)
    <3>1. s.from.fi < Len(files)
      BY <1>4, <1>6 DEF Place
    <3>2. Len(files) \in Nat
      BY Typing
    <3> QED
      BY <1>1, <3>1, <3>2
  <2> QED
    BY <1>0, <1>2, <1>3, <1>6, <2>1, GrownAt DEF LoopInv
<1> HIDE DEF old, new
<1>7. ASSUME s.pc \in {"check"} \cup Filing
      PROVE  s.end <= Len(new) /\ s.end <= ReadEnd(new, s.from.off, Fetch)
  <2>1. s.from.off <= Len(old) /\ s.from.off <= Len(new)
    BY <1>1, <1>6, <1>7
  <2>2. ReadEnd(old, s.from.off, Fetch) <= ReadEnd(new, s.from.off, Fetch)
    BY <1>1, <1>6, <1>7, ReadEndGrows
  <2>3. /\ ReadEnd(old, s.from.off, Fetch) \in s.from.off .. Len(old)
        /\ ReadEnd(new, s.from.off, Fetch) \in s.from.off .. Len(new)
    BY <1>1, <1>6, <1>7, <2>1, ReadEndBounds
  <2> QED
    BY <1>1, <1>6, <1>7, <2>2, <2>3
<1>8. ASSUME s.pc \in Filing
      PROVE  s.failed \/ Settled(s.from.fi, s.from.off, s.at)'
  <2>1. s.failed \/ Settled(s.from.fi, s.from.off, s.at)
    BY <1>0, <1>2, <1>8 DEF LoopInv
  <2>2. s.from.fi < Len(files) /\ s.at <= Len(files[s.from.fi + 1])
    BY <1>1, <1>4, <1>6, <1>8 DEF Place, old
  <2>3. Settled(s.from.fi, s.from.off, s.at) => Settled(s.from.fi, s.from.off, s.at)'
    BY <1>1, <2>2, SettledStays, SMTT(30)
  <2> QED
    BY <2>1, <2>3
<1>9. ASSUME s.pc \in Filing PROVE Todo(l)' = Todo(l)
  <2>1. ValidIn(new, s.at, s.end) = ValidIn(old, s.at, s.end)
    BY <1>1, <1>6, <1>9 DEF ValidIn
  <2> QED
    BY <1>0, <1>3, <2>1 DEF Todo
<1>10. ASSUME s.pc \in {"missing", "transfer"} PROVE Todo(l)' # {} /\ FileOf(l)' = FileOf(l)
  <2>1. Todo(l) # {} /\ Todo(l)' = Todo(l)
    BY <1>0, <1>2, <1>9, <1>10 DEF LoopInv
  <2>2. NextLine(l)' = NextLine(l)
    BY <2>1 DEF NextLine
  <2>3. NextLine(l) \in 1 .. Len(old)
    BY <1>0, <1>1, <1>6, <1>10, <2>1, NextLineIsFirst
  <2>4. new[NextLine(l)] = old[NextLine(l)]
    BY <1>6, <1>10, <2>3
  <2> QED
    BY <1>3, <2>1, <2>2, <2>4 DEF FileOf
<1>11. /\ Place(s.from)' <=> Place(loop[l].from)'
       /\ Place(s.to)' <=> Place(loop[l].to)'
       /\ Settled(s.from.fi, s.from.off, s.at)' <=>
             Settled(loop[l].from.fi, loop[l].from.off, loop[l].at)'
  BY <1>0 DEF Place, Settled
<1>12. s.pc = "transfer" => FileOf(l)' \in downloading'
  BY <1>0, <1>10
<1>13. /\ s.pc \in {"read", "check"} \cup Filing => Place(loop[l].from)'
       /\ s.pc \in Filing =>
              /\ Place(loop[l].to)'
              /\ \/ s.failed
                 \/ Settled(loop[l].from.fi, loop[l].from.off, loop[l].at)'
  BY <1>4, <1>5, <1>8, <1>11
<1>14. s.pc = "check" => s.at = s.from.off
  BY <1>0, <1>2 DEF LoopInv
<1>15. s.pc \in {"check"} \cup Filing =>
          /\ s.from.off <= s.at /\ s.at <= s.end
          /\ s.end <= Len(LogOf(l)')
          /\ s.end <= ReadEnd(LogOf(l)', s.from.off, Fetch)
  BY <1>3, <1>6, <1>7
<1>16. /\ s.pc = "transfer" => Todo(l)' # {} /\ FileOf(l)' \in downloading'
       /\ s.pc = "missing" => Todo(l)' # {} /\ FileOf(l)' \in Record
  <2>1. s.pc = "missing" => FileOf(l) \in Record
    BY <1>0, <1>2 DEF LoopInv
  <2> QED
    BY <1>10, <1>12, <2>1
<1>17. loop'[l] = s
  BY <1>0
<1>18. LoopInv(l)'
  BY <1>13, <1>14, <1>15, <1>16, <1>17 DEF LoopInv
<1> QED
  BY <1>0, <1>10, <1>18

-----------------------------------------------------------------------------
\* What a step of goroutine l has to do for LoopsInv: it takes up no file
\* that is registered, and leaves that of the other one registered.
Moved(l) ==
    /\ loop' \in [Loop -> LoopState]
    /\ \A m \in Loop \ {l} : loop'[m] = loop[m]
    /\ \A m \in Loop \ {l} : loop[m].pc = "transfer" => FileOf(m) \in downloading'
    /\ LoopInv(l)'
    /\ loop'[l].pc = "transfer" => FileOf(l)' \notin downloading

LEMMA MovedInv ==
    ASSUME IInv, Grown, present \subseteq present', skipped \subseteq skipped',
           NEW l \in Loop, Moved(l)
    PROVE  LoopsInv'
<1>1. PICK m \in Loop : m # l /\ Loop = {l, m}
  BY DEF Loop
<1>2. LoopInv(m)' /\ (loop[m].pc = "transfer" => FileOf(m)' = FileOf(m))
  BY <1>1, LoopStays DEF Moved
<1>3. loop'[m] = loop[m] /\ LoopInv(l)'
  BY <1>1 DEF Moved
<1>4. loop[m].pc = "transfer" => FileOf(m) \in downloading
  BY <1>1 DEF IInv, LoopsInv, LoopInv
<1>5. ASSUME loop'[m].pc = "transfer", loop'[l].pc = "transfer"
      PROVE  FileOf(m)' # FileOf(l)'
  BY <1>2, <1>3, <1>4, <1>5 DEF Moved
<1>6. OneFileEach'
  <2>1. (l = "sync" /\ m = "retry") \/ (l = "retry" /\ m = "sync")
    BY <1>1 DEF Loop
  <2>2. CASE l = "sync" /\ m = "retry"
    BY <1>5, <2>2 DEF OneFileEach
  <2>3. CASE l = "retry" /\ m = "sync"
    BY <1>5, <2>3 DEF OneFileEach
  <2> QED
    BY <2>1, <2>2, <2>3
<1>7. \A x \in Loop : LoopInv(x)'
  BY <1>1, <1>2, <1>3
<1> QED
  BY <1>6, <1>7 DEF LoopsInv

\* The file at hand is dealt with, and the goroutine goes on to the next.
LEMMA NextFileInv ==
    ASSUME IInv, NEW l \in Loop, NEW ok \in BOOLEAN,
           loop[l].pc \in Filing, Todo(l) # {}, NextFile(l, ok),
           files' = files, present \subseteq present', skipped \subseteq skipped',
           ok => FileOf(l) \in present' \/ <<loop[l].from.fi, NextLine(l)>> \in skipped'
    PROVE  /\ loop' \in [Loop -> LoopState]
           /\ \A m \in Loop \ {l} : loop'[m] = loop[m]
           /\ LoopInv(l)' /\ loop'[l].pc = "file"
<1>0. PICK s \in LoopState : s = loop[l]
  BY Typing
<1>1. PICK n \in Nat : /\ n = NextLine(l) /\ n \in Todo(l)
                       /\ s.at < n /\ n <= s.end
                       /\ \A x \in Todo(l) : n <= x
  BY <1>0, NextLineIsFirst
<1> DEFINE t == [s EXCEPT !.pc = "file", !.at = n, !.failed = @ \/ ~ok]
<1>2. /\ t \in LoopState /\ t.pc = "file" /\ t.at = n /\ t.from = s.from /\ t.to = s.to
      /\ t.end = s.end /\ t.failed = (s.failed \/ ~ok)
  BY DEF LoopState
<1>3. loop' = [loop EXCEPT ![l] = t]
  BY <1>0, <1>1 DEF NextFile, Set
<1> HIDE DEF t
<1>4. loop' \in [Loop -> LoopState] /\ loop'[l] = t /\ \A m \in Loop \ {l} : loop'[m] = loop[m]
  BY <1>2, <1>3, Typing
<1>5. /\ s.from.fi \in Nat /\ s.from.off \in Nat /\ s.at \in Nat /\ s.end \in Nat
  BY DEF LoopState, Position
<1>6. /\ Place(s.from) /\ Place(s.to)
      /\ s.from.off <= s.at /\ s.at <= s.end
      /\ s.end <= Len(LogOf(l))
      /\ s.end <= ReadEnd(LogOf(l), s.from.off, Fetch)
      /\ s.failed \/ Settled(s.from.fi, s.from.off, s.at)
  BY <1>0 DEF IInv, LoopsInv, LoopInv
<1>7. LogOf(l) = files[s.from.fi + 1] /\ LogOf(l)' = files[s.from.fi + 1]
  BY <1>0, <1>2, <1>4 DEF LogOf
<1>8. t.failed \/ Settled(s.from.fi, s.from.off, n)'
  <2>1. SUFFICES ASSUME ok, ~s.failed PROVE Settled(s.from.fi, s.from.off, n)'
    BY <1>2
  <2> DEFINE f == files[s.from.fi + 1]
  <2>2. f[n] \in present' \/ <<s.from.fi, n>> \in skipped'
    BY <1>0, <1>1, <1>7, <2>1 DEF FileOf
  <2>3. \A q \in ValidIn(f, s.from.off, s.at) :
           f[q] \in present \/ <<s.from.fi, q>> \in skipped
    BY <1>6, <2>1 DEF Settled
  <2>4. Todo(l) = ValidIn(f, s.at, s.end)
    BY <1>0, <1>7 DEF Todo
  <2> HIDE DEF f
  <2>5. ASSUME NEW q \in ValidIn(f, s.from.off, n)
        PROVE  q \in ValidIn(f, s.from.off, s.at) \/ q = n
    <3>1. q \in Nat /\ q <= n /\ s.from.off < q /\ f[q] \in Valid
      BY <1>5, <2>5 DEF ValidIn
    <3>2. CASE q <= s.at
      BY <1>5, <3>1, <3>2 DEF ValidIn
    <3>3. CASE s.at < q
      <4>1. q \in Todo(l)
        BY <1>1, <1>5, <2>4, <3>1, <3>3 DEF ValidIn
      <4> QED
        BY <1>1, <3>1, <4>1
    <3> QED
      BY <1>5, <3>1, <3>2, <3>3
  <2>6. \A q \in ValidIn(f, s.from.off, n) :
           f[q] \in present' \/ <<s.from.fi, q>> \in skipped'
    BY <2>2, <2>3, <2>5
  <2> QED
    BY <2>6 DEF Settled, f
<1>9. s.from.off <= n
  BY <1>1, <1>5, <1>6
<1>10. LoopInv(l)'
  <2>1. /\ Place(loop[l].from)' /\ Place(loop[l].to)'
        /\ t.failed \/ Settled(loop[l].from.fi, loop[l].from.off, loop[l].at)'
    BY <1>2, <1>4, <1>6, <1>8 DEF Place, Settled
  <2>2. /\ t.from.off <= t.at /\ t.at <= t.end /\ t.end <= Len(LogOf(l)')
        /\ t.end <= ReadEnd(LogOf(l)', t.from.off, Fetch)
    BY <1>1, <1>2, <1>6, <1>7, <1>9
  <2> QED
    BY <1>2, <1>4, <2>1, <2>2 DEF LoopInv
<1> QED
  BY <1>2, <1>4, <1>10

Resting == {"idle", "load", "pick"}
USE DEF Resting

\* A goroutine that has no batch under way satisfies its part of the invariant.
LEMMA RestingInv ==
    ASSUME IInv, NEW l \in Loop, NEW c \in Resting, downloading' = downloading,
           Set(l, Idle) \/ Set(l, [Idle EXCEPT !.pc = c])
    PROVE  Moved(l)
<1>0. /\ Idle \in LoopState /\ Idle.pc = "idle"
      /\ [Idle EXCEPT !.pc = c] \in LoopState /\ [Idle EXCEPT !.pc = c].pc = c
  BY DEF Idle, LoopState, Position, Start
<1>1. PICK t \in LoopState : t.pc \in Resting /\ loop' = [loop EXCEPT ![l] = t]
  BY <1>0 DEF Set
<1>3. loop' \in [Loop -> LoopState] /\ loop'[l] = t /\ \A m \in Loop \ {l} : loop'[m] = loop[m]
  BY <1>1, Typing
<1>4. LoopInv(l)'
  BY <1>1, <1>3 DEF LoopInv
<1>5. \A m \in Loop \ {l} : loop[m].pc = "transfer" => FileOf(m) \in downloading'
  BY DEF IInv, LoopsInv, LoopInv
<1> QED
  BY <1>1, <1>3, <1>4, <1>5 DEF Moved

\* A batch begins at a place of the binlog.
LEMMA BeginInv ==
    ASSUME IInv, NEW l \in Loop, NEW k \in Position, Place(k), downloading' = downloading,
           files' = files, Set(l, [Idle EXCEPT !.pc = "read", !.from = k])
    PROVE  Moved(l)
<1> DEFINE t == [Idle EXCEPT !.pc = "read", !.from = k]
<1>1. t \in LoopState /\ t.pc = "read" /\ t.from = k
  BY DEF Idle, LoopState, Position, Start
<1>2. loop' = [loop EXCEPT ![l] = t]
  BY DEF Set
<1> HIDE DEF t
<1>3. loop' \in [Loop -> LoopState] /\ loop'[l] = t /\ \A m \in Loop \ {l} : loop'[m] = loop[m]
  BY <1>1, <1>2, Typing
<1>4. Place(loop[l].from)'
  BY <1>1, <1>3 DEF Place
<1>5. LoopInv(l)'
  BY <1>1, <1>3, <1>4 DEF LoopInv
<1>6. \A m \in Loop \ {l} : loop[m].pc = "transfer" => FileOf(m) \in downloading'
  BY DEF IInv, LoopsInv, LoopInv
<1> QED
  BY <1>1, <1>3, <1>5, <1>6 DEF Moved

\* The finished positions are positions.
LEMMA NoteDoneType ==
    ASSUME IInv, NoteDone \/ UNCHANGED <<donePos, doneLen>>
    PROVE  donePos' \subseteq Position /\ doneLen' \in Nat
<1>1. donePos \subseteq Position /\ doneLen \in Nat
  BY DEF IInv, TypeOK
<1>2. loop["retry"].from \in Position
  BY Typing DEF Loop, LoopState
<1> QED
  BY <1>1, <1>2 DEF NoteDone

\* Read: the lines of the batch exist.
LEMMA ReadBatchInv ==
    ASSUME IInv, NEW l \in Loop, ReadBatch(l)
    PROVE  Moved(l) /\ donePos' \subseteq Position /\ doneLen' \in Nat
<1>0. PICK s \in LoopState : s = loop[l]
  BY Typing
<1>1. /\ s.from \in Position /\ s.from.fi \in Nat /\ s.from.off \in Nat /\ s.pc = "read"
      /\ Place(s.from) /\ s.from.fi + 1 \in 1 .. Len(files)
  <2>1. s.from \in Position /\ s.from.fi \in Nat /\ s.from.off \in Nat
    BY DEF LoopState, Position
  <2>2. s.pc = "read"
    BY <1>0 DEF ReadBatch
  <2>3. Place(s.from)
    BY <1>0, <2>2 DEF IInv, LoopsInv, LoopInv
  <2> QED
    BY <2>1, <2>2, <2>3, Typing DEF Place
<1>2. donePos' \subseteq Position /\ doneLen' \in Nat
  <2>1. NoteDone \/ UNCHANGED <<donePos, doneLen>>
    BY DEF ReadBatch
  <2> QED
    BY <2>1, NoteDoneType
<1> DEFINE f == LogOf(l)
           end == ReadEnd(f, s.from.off, Fetch)
           t == [s EXCEPT !.pc = "check", !.end = end, !.at = s.from.off]
<1>3. f = files[s.from.fi + 1] /\ Len(f) \in Nat /\ s.from.off <= Len(f)
  BY <1>0, <1>1, Typing DEF LogOf, Place
<1>4. end \in s.from.off .. Len(f)
  <2> HIDE DEF f
  <2> QED
    BY <1>1, <1>3, ReadEndBounds
<1>5. files' = files /\ downloading' = downloading
  BY DEF ReadBatch
<1>6. CASE ReadFails(LogOf(l), loop[l].from.off, Fetch)
  <2>1. \E c \in Resting : Set(l, [Idle EXCEPT !.pc = c])
    BY <1>6 DEF ReadBatch
  <2> QED
    BY <1>2, <1>5, <2>1, RestingInv
<1>7. CASE ~ReadFails(LogOf(l), loop[l].from.off, Fetch)
  <2>1. loop' = [loop EXCEPT ![l] = t]
    BY <1>0, <1>7 DEF ReadBatch, Set
  <2> HIDE DEF f
  <2>2. end \in Nat /\ s.from.off <= end /\ end <= Len(f)
    BY <1>1, <1>3, <1>4
  <2> HIDE DEF end
  <2>3. /\ t \in LoopState /\ t.pc = "check" /\ t.end = end /\ t.at = s.from.off
        /\ t.from = s.from
    BY <1>1, <2>2 DEF LoopState
  <2> HIDE DEF t
  <2>4. loop' \in [Loop -> LoopState] /\ loop'[l] = t /\ \A m \in Loop \ {l} : loop'[m] = loop[m]
    BY <2>1, <2>3, Typing
  <2>5. LogOf(l)' = f
    BY <1>3, <1>5, <2>3, <2>4 DEF LogOf
  <2>6. Place(loop[l].from)'
    BY <1>1, <1>5, <2>3, <2>4 DEF Place
  <2>7. LoopInv(l)'
    <3>1. end <= ReadEnd(LogOf(l)', s.from.off, Fetch)
      BY <2>2, <2>5 DEF end
    <3> QED
      BY <1>1, <2>2, <2>3, <2>4, <2>5, <2>6, <3>1 DEF LoopInv
  <2>8. \A m \in Loop \ {l} : loop[m].pc = "transfer" => FileOf(m) \in downloading'
    BY <1>5 DEF IInv, LoopsInv, LoopInv
  <2> QED
    BY <1>2, <2>3, <2>4, <2>7, <2>8 DEF Moved
<1> QED
  BY <1>6, <1>7

\* The position after the batch is a place: the next file only exists when
\* GetCurrentIndex is beyond this one.
LEMMA CheckIndexInv ==
    ASSUME IInv, NEW l \in Loop, CheckIndex(l)
    PROVE  Moved(l)
<1>0. PICK s \in LoopState : s = loop[l]
  BY Typing
<1>1. /\ s.from \in Position /\ s.from.fi \in Nat /\ s.from.off \in Nat
      /\ s.at \in Nat /\ s.end \in Nat
  BY DEF LoopState, Position
<1>2. /\ Place(s.from) /\ s.from.fi + 1 \in 1 .. Len(files)
      /\ s.from.off <= s.at /\ s.at <= s.end /\ s.at = s.from.off
      /\ s.end <= Len(LogOf(l)) /\ s.end <= ReadEnd(LogOf(l), s.from.off, Fetch)
  <2>1. s.pc = "check" /\ LoopInv(l)
    BY <1>0 DEF CheckIndex, IInv, LoopsInv
  <2>2. /\ Place(s.from) /\ s.from.off <= s.at /\ s.at <= s.end /\ s.at = s.from.off
        /\ s.end <= Len(LogOf(l)) /\ s.end <= ReadEnd(LogOf(l), s.from.off, Fetch)
    BY <1>0, <2>1 DEF LoopInv
  <2>3. s.from.fi + 1 \in 1 .. Len(files)
    BY <1>1, <2>2, Typing DEF Place
  <2> QED
    BY <2>2, <2>3
<1> DEFINE to == IF cur > s.from.fi /\ BatchOf(l) = {}
                 THEN [fi |-> s.from.fi + 1, off |-> 0]
                 ELSE [fi |-> s.from.fi, off |-> s.end]
           t == [s EXCEPT !.pc = "file", !.to = to]
<1>3. LogOf(l) = files[s.from.fi + 1]
  BY <1>0 DEF LogOf
<1>4. to \in Position /\ Place(to)
  <2>1. CASE cur > s.from.fi /\ BatchOf(l) = {}
    <3>1. s.from.fi + 1 < Len(files) /\ cur \in Nat
      BY <1>1, <2>1, Typing DEF IInv, TypeOK, FeedTypeOK
    <3>2. s.from.fi + 2 \in 1 .. Len(files) /\ s.from.fi + 1 + 1 = s.from.fi + 2
      <4>1. Len(files) \in Nat
        BY Typing
      <4> QED
        BY <1>1, <3>1, <4>1
    <3>3. to.fi = s.from.fi + 1 /\ to.off = 0 /\ to \in Position
      BY <1>1, <2>1 DEF Position
    <3> QED
      BY <3>1, <3>2, <3>3, Typing, SMTT(30) DEF Place
  <2>2. CASE ~(cur > s.from.fi /\ BatchOf(l) = {})
    <3>1. to.fi = s.from.fi /\ to.off = s.end /\ to \in Position
      BY <1>1, <2>2 DEF Position
    <3> QED
      BY <1>2, <1>3, <3>1 DEF Place
  <2> QED
    BY <2>1, <2>2
<1>5. loop' = [loop EXCEPT ![l] = t]
  BY <1>0 DEF CheckIndex, Set
<1>6. files' = files /\ downloading' = downloading
  BY DEF CheckIndex, LocalStep
<1> HIDE DEF to
<1>7. /\ t \in LoopState /\ t.pc = "file" /\ t.to = to /\ t.from = s.from /\ t.end = s.end
      /\ t.at = s.at /\ t.failed = s.failed
  BY <1>4 DEF LoopState
<1> HIDE DEF t
<1>8. loop' \in [Loop -> LoopState] /\ loop'[l] = t /\ \A m \in Loop \ {l} : loop'[m] = loop[m]
  BY <1>5, <1>7, Typing
<1>9. LogOf(l)' = LogOf(l)
  BY <1>0, <1>6, <1>7, <1>8 DEF LogOf
<1>10. Place(loop[l].from)' /\ Place(loop[l].to)'
  BY <1>2, <1>4, <1>6, <1>7, <1>8 DEF Place
<1>11. Settled(loop[l].from.fi, loop[l].from.off, loop[l].at)'
  BY <1>1, <1>2, <1>7, <1>8 DEF Settled, ValidIn
<1>12. LoopInv(l)'
  BY <1>2, <1>7, <1>8, <1>9, <1>10, <1>11 DEF LoopInv
<1>13. \A m \in Loop \ {l} : loop[m].pc = "transfer" => FileOf(m) \in downloading'
  BY <1>6 DEF IInv, LoopsInv, LoopInv
<1> QED
  BY <1>7, <1>8, <1>12, <1>13 DEF Moved

\* The next file is looked at, passed over, or failed without a transfer.
LEMMA LookedInv ==
    ASSUME IInv, NEW l \in Loop, NEW ok \in BOOLEAN, NextFile(l, ok),
           loop[l].pc \in Filing, Todo(l) # {},
           files' = files, downloading' = downloading,
           present \subseteq present', skipped \subseteq skipped',
           ok => FileOf(l) \in present' \/ <<loop[l].from.fi, NextLine(l)>> \in skipped'
    PROVE  Moved(l)
<1>1. /\ loop' \in [Loop -> LoopState]
      /\ \A m \in Loop \ {l} : loop'[m] = loop[m]
      /\ LoopInv(l)' /\ loop'[l].pc = "file"
  BY NextFileInv
<1>2. \A m \in Loop \ {l} : loop[m].pc = "transfer" => FileOf(m) \in downloading'
  BY DEF IInv, LoopsInv, LoopInv
<1> QED
  BY <1>1, <1>2 DEF Moved

\* The end of a transfer takes out the file of this goroutine only.
LEMMA TransferEnds ==
    ASSUME IInv, NEW l \in Loop, loop[l].pc = "transfer",
           downloading' = downloading \ {FileOf(l)}
    PROVE  \A m \in Loop \ {l} : loop[m].pc = "transfer" => FileOf(m) \in downloading'
<1> SUFFICES ASSUME NEW m \in Loop \ {l}, loop[m].pc = "transfer"
             PROVE  FileOf(m) \in downloading'
  OBVIOUS
<1>1. FileOf(m) \in downloading
  BY DEF IInv, LoopsInv, LoopInv
<1>2. FileOf(m) # FileOf(l)
  <2>1. (l = "sync" /\ m = "retry") \/ (l = "retry" /\ m = "sync")
    BY DEF Loop
  <2>2. CASE l = "sync" /\ m = "retry"
    BY <2>2 DEF IInv, LoopsInv, OneFileEach
  <2>3. CASE l = "retry" /\ m = "sync"
    BY <2>3 DEF IInv, LoopsInv, OneFileEach
  <2> QED
    BY <2>1, <2>2, <2>3
<1> QED
  BY <1>1, <1>2

\* A goroutine that misses a file, transfers it, or is back from there, stays
\* at it.
LEMMA AtFileInv ==
    ASSUME IInv, NEW l \in Loop, NEW c \in Filing,
           loop[l].pc \in Filing, Todo(l) # {},
           Set(l, [loop[l] EXCEPT !.pc = c]),
           files' = files, present' = present, skipped' = skipped,
           c = "missing" => FileOf(l) \in Record,
           c = "transfer" => FileOf(l) \in downloading'
    PROVE  /\ loop' \in [Loop -> LoopState]
           /\ \A m \in Loop \ {l} : loop'[m] = loop[m]
           /\ LoopInv(l)' /\ loop'[l].pc = c
           /\ FileOf(l)' = FileOf(l)
<1>0. PICK s \in LoopState : s = loop[l]
  BY Typing
<1> DEFINE t == [s EXCEPT !.pc = c]
<1>1. /\ t \in LoopState /\ t.pc = c /\ t.from = s.from /\ t.to = s.to
      /\ t.end = s.end /\ t.at = s.at /\ t.failed = s.failed
  BY DEF LoopState
<1>2. loop' = [loop EXCEPT ![l] = t]
  BY <1>0 DEF Set
<1> HIDE DEF t
<1>3. loop' \in [Loop -> LoopState] /\ loop'[l] = t /\ \A m \in Loop \ {l} : loop'[m] = loop[m]
  BY <1>1, <1>2, Typing
<1>4. /\ Place(s.from) /\ Place(s.to)
      /\ s.from.off <= s.at /\ s.at <= s.end
      /\ s.end <= Len(LogOf(l))
      /\ s.end <= ReadEnd(LogOf(l), s.from.off, Fetch)
      /\ s.failed \/ Settled(s.from.fi, s.from.off, s.at)
  BY <1>0 DEF IInv, LoopsInv, LoopInv
<1>5. LogOf(l)' = LogOf(l)
  BY <1>0, <1>1, <1>3 DEF LogOf
<1>6. Todo(l)' = Todo(l)
  BY <1>0, <1>1, <1>3, <1>5 DEF Todo
<1>7. FileOf(l)' = FileOf(l)
  BY <1>5, <1>6 DEF FileOf, NextLine
<1>8. /\ Place(loop[l].from)' /\ Place(loop[l].to)'
      /\ t.failed \/ Settled(loop[l].from.fi, loop[l].from.off, loop[l].at)'
  BY <1>1, <1>3, <1>4 DEF Place, Settled
<1>9. LoopInv(l)'
  BY <1>1, <1>3, <1>4, <1>5, <1>6, <1>7, <1>8 DEF LoopInv
<1> QED
  BY <1>1, <1>3, <1>7, <1>9

\* What the steps of a batch leave alone, and the types of what they change.
BatchStep ==
    /\ UNCHANGED <<files, cur, data, pos, failedPos, temp, offset, late, dropped, reboots>>
    /\ present \subseteq present' /\ present' \subseteq Record
    /\ skipped \subseteq skipped' /\ skipped' \subseteq Nat \X Nat
    /\ downloading' \subseteq Record
    /\ donePos' \subseteq Position /\ doneLen' \in Nat
    /\ faults' \in Nat

LEMMA LoopStepInv ==
    ASSUME IInv, NEW l \in Loop, LoopStep(l)
    PROVE  Moved(l) /\ BatchStep
<1>0. /\ present \subseteq Record /\ downloading \subseteq Record
      /\ skipped \subseteq Nat \X Nat /\ donePos \subseteq Position /\ doneLen \in Nat
      /\ faults \in Nat
  BY DEF IInv, TypeOK
<1>1. CASE ReadBatch(l)
  BY <1>0, <1>1, ReadBatchInv DEF ReadBatch, BatchStep
<1>2. CASE CheckIndex(l)
  BY <1>0, <1>2, CheckIndexInv DEF CheckIndex, LocalStep, retryVars, BatchStep
<1>3. CASE SkipFile(l)
  <2>1. (FileOf(l) # Garbage) \in BOOLEAN
    OBVIOUS
  <2>2. FileOf(l) # Garbage => FileOf(l) \in present
    BY <1>3 DEF SkipFile
  <2>3. Moved(l)
    BY <1>3, <2>1, <2>2, LookedInv DEF SkipFile, AtFile, LocalStep
  <2> QED
    BY <1>0, <1>3, <2>3 DEF SkipFile, LocalStep, retryVars, BatchStep
<1>9. CASE FindMissing(l)
  <2>1. /\ loop[l].pc \in Filing /\ Todo(l) # {}
        /\ FileOf(l) # Garbage
        /\ Set(l, [loop[l] EXCEPT !.pc = "missing"])
        /\ UNCHANGED <<files, present, skipped, downloading>>
    BY <1>9 DEF FindMissing, AtFile, LocalStep
  <2>2. FileOf(l) \in Record
    BY <2>1, NextLineIsFirst DEF Valid
  <2>3. /\ loop' \in [Loop -> LoopState]
        /\ \A m \in Loop \ {l} : loop'[m] = loop[m]
        /\ LoopInv(l)' /\ loop'[l].pc = "missing"
    BY <2>1, <2>2, AtFileInv
  <2>4. \A m \in Loop \ {l} : loop[m].pc = "transfer" => FileOf(m) \in downloading'
    BY <2>1 DEF IInv, LoopsInv, LoopInv
  <2>5. Moved(l)
    BY <2>3, <2>4 DEF Moved
  <2> QED
    BY <1>0, <1>9, <2>5 DEF FindMissing, LocalStep, retryVars, BatchStep
<1>4. CASE PassOver(l)
  <2>0. loop[l].pc \in Filing /\ Todo(l) # {}
    BY <1>4 DEF PassOver, AtFile, IInv, LoopsInv, LoopInv
  <2>1. loop[l].from.fi \in Nat
    BY Typing DEF LoopState, Position
  <2>2. NextLine(l) \in Nat
    BY <2>0, NextLineIsFirst
  <2>3. Moved(l)
    BY <1>4, <2>0, LookedInv DEF PassOver, LocalStep
  <2>4. faults' \in Nat
    BY <1>0, <1>4 DEF PassOver, Fault
  <2> QED
    BY <1>0, <1>4, <2>1, <2>2, <2>3, <2>4 DEF PassOver, LocalStep, retryVars, BatchStep
<1>5. CASE NoServer(l)
  <2>1. Moved(l)
    BY <1>5, LookedInv DEF NoServer, AtFile, LocalStep
  <2>2. faults' \in Nat
    BY <1>0, <1>5 DEF NoServer, Fault
  <2> QED
    BY <1>0, <1>5, <2>1, <2>2 DEF NoServer, LocalStep, retryVars, BatchStep
<1>6. CASE RegisterDownloadingFile(l)
  <2>1. /\ loop[l].pc \in Filing /\ Todo(l) # {} /\ FileOf(l) \in Record
        /\ FileOf(l) \notin downloading
        /\ downloading' = downloading \cup {FileOf(l)}
        /\ Set(l, [loop[l] EXCEPT !.pc = "transfer"])
        /\ LocalStep /\ UNCHANGED <<present, pos, failedPos, skipped, faults>>
    BY <1>6 DEF RegisterDownloadingFile, IInv, LoopsInv, LoopInv
  <2>3. /\ loop' \in [Loop -> LoopState]
        /\ \A m \in Loop \ {l} : loop'[m] = loop[m]
        /\ LoopInv(l)' /\ FileOf(l)' = FileOf(l)
    BY <2>1, AtFileInv DEF LocalStep
  <2>4. \A m \in Loop \ {l} : loop[m].pc = "transfer" => FileOf(m) \in downloading'
    BY <2>1 DEF IInv, LoopsInv, LoopInv
  <2>5. Moved(l)
    BY <2>1, <2>3, <2>4 DEF Moved
  <2> QED
    BY <1>0, <2>1, <2>5 DEF LocalStep, retryVars, BatchStep
<1>7. CASE Downloaded(l)
  <2>1. Todo(l) # {} /\ FileOf(l) \in Record
    BY <1>0, <1>7 DEF Downloaded, IInv, LoopsInv, LoopInv
  <2>2. /\ loop' \in [Loop -> LoopState]
        /\ \A m \in Loop \ {l} : loop'[m] = loop[m]
        /\ LoopInv(l)' /\ loop'[l].pc = "file"
    BY <1>7, <2>1, NextFileInv DEF Downloaded, LocalStep
  <2>3. \A m \in Loop \ {l} : loop[m].pc = "transfer" => FileOf(m) \in downloading'
    BY <1>7, TransferEnds DEF Downloaded
  <2>4. Moved(l)
    BY <2>2, <2>3 DEF Moved
  <2> QED
    BY <1>0, <1>7, <2>1, <2>4 DEF Downloaded, LocalStep, retryVars, BatchStep
<1>8. CASE DownloadFails(l)
  <2>1. Todo(l) # {} /\ files' = files /\ present' = present /\ skipped' = skipped
        /\ loop[l].pc = "transfer"
    BY <1>8 DEF DownloadFails, LocalStep, IInv, LoopsInv, LoopInv
  <2>2. /\ loop' \in [Loop -> LoopState]
        /\ \A m \in Loop \ {l} : loop'[m] = loop[m]
        /\ LoopInv(l)' /\ loop'[l].pc = "file"
    <3>1. CASE NextFile(l, FALSE)
      BY <2>1, <3>1, NextFileInv
    <3>2. CASE Set(l, [loop[l] EXCEPT !.pc = "file"])
      BY <2>1, <3>2, AtFileInv
    <3> QED
      BY <1>8, <3>1, <3>2 DEF DownloadFails
  <2>3. \A m \in Loop \ {l} : loop[m].pc = "transfer" => FileOf(m) \in downloading'
    BY <1>8, TransferEnds DEF DownloadFails
  <2>4. Moved(l)
    BY <2>2, <2>3 DEF Moved
  <2> QED
    BY <1>0, <1>8, <2>4 DEF DownloadFails, Fault, LocalStep, retryVars, BatchStep
<1> QED
  BY <1>1, <1>2, <1>3, <1>4, <1>5, <1>6, <1>7, <1>8, <1>9 DEF LoopStep

-----------------------------------------------------------------------------
\* Positions that come from known ones are places still.
LEMMA PlacesStay ==
    ASSUME IInv, Grown,
           {pos'} \cup failedPos' \cup temp' \cup dropped'
               \subseteq {pos} \cup failedPos \cup temp \cup dropped
    PROVE  PlacesInv'
<1> SUFFICES ASSUME NEW k \in {pos'} \cup failedPos' \cup temp' \cup dropped'
             PROVE  Place(k)'
  BY DEF PlacesInv
<1>1. k \in Position /\ Place(k)
  BY DEF IInv, TypeOK, PlacesInv
<1> QED
  BY <1>1, PlaceStays

LEMMA TypeStays ==
    ASSUME IInv, UNCHANGED <<files, cur, data, pos, failedPos, late, dropped, reboots>>,
           offset' \in Nat, doneLen' \in Nat,
           present' \subseteq Record, skipped' \subseteq Nat \X Nat,
           downloading' \subseteq Record, donePos' \subseteq Position,
           temp' \subseteq Position, faults' \in Nat, loop' \in [Loop -> LoopState]
    PROVE  TypeOK' /\ (cur < Len(files))' /\ IsFiniteSet(failedPos)'
<1>1. TypeOK' /\ (cur < Len(files))'
  BY DEF IInv, TypeOK, FeedTypeOK
<1>2. IsFiniteSet(failedPos)'
  BY DEF IInv
<1> QED
  BY <1>1, <1>2

LEMMA FilesSame == ASSUME IInv, files' = files PROVE Grown
BY Typing, SameGrows

LEMMA LoopStepIInv ==
    ASSUME IInv, NEW l \in Loop, LoopStep(l)
    PROVE  IInv'
<1>1. Moved(l) /\ BatchStep
  BY LoopStepInv
<1>2. Grown
  BY <1>1, FilesSame DEF BatchStep
<1>3. TypeOK' /\ (cur < Len(files))' /\ IsFiniteSet(failedPos)'
  <2>1. temp' \subseteq Position /\ offset' \in Nat
    BY <1>1 DEF BatchStep, IInv, TypeOK
  <2> QED
    BY <1>1, <2>1, TypeStays DEF BatchStep, Moved
<1>4. PlacesInv'
  BY <1>1, <1>2, PlacesStay DEF BatchStep
<1>5. LoopsInv'
  BY <1>1, <1>2, MovedInv DEF BatchStep
<1> QED
  BY <1>3, <1>4, <1>5 DEF IInv

LEMMA BeginsIInv ==
    ASSUME IInv, SyncBegins \/ RetryBegins \/ \E k \in temp : RetryPick(k)
    PROVE  IInv'
<1>0. "sync" \in Loop /\ "retry" \in Loop
  BY DEF Loop
<1>1. /\ files' = files /\ downloading' = downloading
      /\ UNCHANGED <<cur, data, pos, failedPos, late, dropped, reboots, present, skipped,
                     faults, donePos, doneLen>>
  BY DEF SyncBegins, RetryBegins, RetryPick, LocalStep, retryVars
<1>2. Grown
  BY <1>1, FilesSame
<1>3. /\ temp' \subseteq temp /\ offset' \in Nat
      /\ temp \subseteq Position /\ failedPos \subseteq Position /\ pos \in Position
  <2>1. \/ UNCHANGED <<temp, offset>>
        \/ temp' = temp /\ offset' = 0
        \/ \E k \in temp : temp' = temp \ {k} /\ offset' = offset
    BY DEF SyncBegins, RetryBegins, RetryPick, LocalStep, retryVars
  <2> QED
    BY <2>1 DEF IInv, TypeOK
<1>4. \E l \in Loop : Moved(l)
  <2>1. CASE SyncBegins
    <3>1. Place(pos)
      BY DEF IInv, PlacesInv
    <3> QED
      BY <1>0, <1>1, <1>3, <2>1, <3>1, BeginInv DEF SyncBegins
  <2>2. CASE RetryBegins
    BY <1>0, <1>1, <2>2, RestingInv DEF RetryBegins
  <2>3. ASSUME NEW k \in temp, RetryPick(k) PROVE Moved("retry")
    <3>1. k \in Position /\ Place(k)
      BY <1>3 DEF IInv, PlacesInv
    <3> QED
      BY <1>0, <1>1, <2>3, <3>1, BeginInv DEF RetryPick
  <2> QED
    BY <1>0, <2>1, <2>2, <2>3
<1>5. LoopsInv'
  BY <1>1, <1>2, <1>4, MovedInv
<1>6. TypeOK' /\ (cur < Len(files))' /\ IsFiniteSet(failedPos)'
  <2>1. /\ present' \subseteq Record /\ skipped' \subseteq Nat \X Nat
        /\ downloading' \subseteq Record /\ donePos' \subseteq Position
        /\ doneLen' \in Nat /\ faults' \in Nat /\ temp' \subseteq Position
    BY <1>1, <1>3 DEF IInv, TypeOK
  <2> QED
    BY <1>1, <1>3, <1>4, <2>1, TypeStays DEF Moved
<1>7. PlacesInv'
  BY <1>1, <1>2, <1>3, PlacesStay
<1> QED
  BY <1>5, <1>6, <1>7 DEF IInv

\* The positions of a round are noted ones.
LEMMA RetryLoadIInv ==
    ASSUME IInv, RetryLoad
    PROVE  IInv'
<1>0. "retry" \in Loop
  BY DEF Loop
<1>1. /\ files' = files /\ downloading' = downloading
      /\ UNCHANGED <<cur, data, pos, failedPos, late, dropped, reboots, present, skipped,
                     donePos, doneLen>>
  BY DEF RetryLoad
<1>2. Grown
  BY <1>1, FilesSame
<1>3. FromOffset \subseteq failedPos /\ Cardinality(FromOffset) \in Nat
  <2>1. FromOffset \subseteq failedPos
    BY DEF FromOffset
  <2>2. IsFiniteSet(FromOffset)
    BY <2>1, FS_Subset DEF IInv
  <2> QED
    BY <2>1, <2>2, FS_CardinalityType
<1>4. /\ temp' \subseteq temp \cup failedPos
      /\ offset' \in Nat /\ faults' \in Nat
      /\ temp \subseteq Position /\ failedPos \subseteq Position
  BY <1>3 DEF RetryLoad, Fault, IInv, TypeOK
<1>5. Moved("retry")
  <2>1. \/ Set("retry", Idle)
        \/ Set("retry", [Idle EXCEPT !.pc = "idle"])
        \/ Set("retry", [Idle EXCEPT !.pc = "pick"])
    BY DEF RetryLoad
  <2> QED
    BY <1>0, <1>1, <2>1, RestingInv
<1>6. LoopsInv'
  BY <1>0, <1>1, <1>2, <1>5, MovedInv
<1>7. TypeOK' /\ (cur < Len(files))' /\ IsFiniteSet(failedPos)'
  <2>1. /\ present' \subseteq Record /\ skipped' \subseteq Nat \X Nat
        /\ downloading' \subseteq Record /\ donePos' \subseteq Position
        /\ doneLen' \in Nat /\ temp' \subseteq Position
    BY <1>1, <1>4 DEF IInv, TypeOK
  <2> QED
    BY <1>1, <1>4, <1>5, <2>1, TypeStays DEF Moved
<1>8. PlacesInv'
  BY <1>1, <1>2, <1>4, PlacesStay
<1> QED
  BY <1>6, <1>7, <1>8 DEF IInv

LEMMA RetryRemovesIInv ==
    ASSUME IInv, RetryRemoves
    PROVE  IInv'
<1>0. "retry" \in Loop
  BY DEF Loop
<1>1. /\ files' = files /\ downloading' = downloading
      /\ UNCHANGED <<cur, data, pos, temp, late, reboots, present, skipped, donePos,
                     doneLen>>
  BY DEF RetryRemoves
<1>2. Grown
  BY <1>1, FilesSame
<1>3. /\ failedPos' \subseteq failedPos
      /\ dropped' \subseteq dropped \cup failedPos
      /\ faults' \in {faults, faults + 1}
  BY DEF RetryRemoves, Fault
<1>4. Moved("retry")
  BY <1>0, <1>1, RestingInv DEF RetryRemoves
<1>5. LoopsInv'
  BY <1>0, <1>1, <1>2, <1>4, MovedInv
<1>6. TypeOK' /\ (cur < Len(files))' /\ IsFiniteSet(failedPos)'
  <2>1. loop' \in [Loop -> LoopState]
    BY <1>4 DEF Moved
  <2>2. offset' \in Nat
    BY DEF RetryRemoves, IInv, TypeOK
  <2>3. IsFiniteSet(failedPos)'
    BY <1>3, FS_Subset DEF IInv
  <2> QED
    BY <1>1, <1>3, <2>1, <2>2, <2>3 DEF IInv, TypeOK, FeedTypeOK
<1>7. PlacesInv'
  BY <1>1, <1>2, <1>3, PlacesStay
<1> QED
  BY <1>5, <1>6, <1>7 DEF IInv

LEMMA RetryFinishedIInv ==
    ASSUME IInv, RetryFinished
    PROVE  IInv'
<1>0. "retry" \in Loop
  BY DEF Loop
<1>1. /\ files' = files /\ downloading' = downloading
      /\ UNCHANGED <<cur, data, pos, failedPos, temp, offset, dropped, late, reboots,
                     present, skipped>>
  BY DEF RetryFinished
<1>2. Grown
  BY <1>1, FilesSame
<1>3. donePos' \subseteq Position /\ doneLen' \in Nat /\ faults' \in Nat
  <2>1. NoteDone \/ UNCHANGED <<donePos, doneLen>>
    BY DEF RetryFinished
  <2>2. faults' \in Nat
    BY DEF RetryFinished, Fault, IInv, TypeOK
  <2> QED
    BY <2>1, <2>2, NoteDoneType
<1>4. Moved("retry")
  BY <1>0, <1>1, RestingInv DEF RetryFinished
<1>5. LoopsInv'
  BY <1>0, <1>1, <1>2, <1>4, MovedInv
<1>6. TypeOK' /\ (cur < Len(files))' /\ IsFiniteSet(failedPos)'
  BY <1>1, <1>3, <1>4, TypeStays DEF Moved, IInv, TypeOK
<1>7. PlacesInv'
  BY <1>1, <1>2, PlacesStay
<1> QED
  BY <1>5, <1>6, <1>7 DEF IInv

\* The position moves to a place, and so does the one that is noted.
LEMMA SaveDownloadStateIInv ==
    ASSUME IInv, SaveDownloadState
    PROVE  IInv'
<1>0. "sync" \in Loop
  BY DEF Loop
<1>1. /\ files' = files /\ downloading' = downloading
      /\ UNCHANGED <<cur, data, temp, offset, late, dropped, reboots, present, skipped,
                     donePos, doneLen>>
  BY DEF SaveDownloadState, retryVars
<1>2. Grown
  BY <1>1, FilesSame
<1>3. PICK s \in LoopState : s = loop["sync"]
  BY <1>0, Typing
<1>4. /\ s.from \in Position /\ s.to \in Position
      /\ s.from.fi \in Nat /\ s.from.off \in Nat /\ s.at \in Nat /\ s.end \in Nat
  BY DEF LoopState, Position
<1>6. Place(s.from) /\ Place(s.to)
  <2>1. s.pc = "file"
    BY <1>3 DEF SaveDownloadState, BatchDone
  <2> QED
    BY <1>0, <1>3, <2>1 DEF IInv, LoopsInv, LoopInv
<1>10. Moved("sync")
  BY <1>0, <1>1, RestingInv DEF SaveDownloadState
<1>11. LoopsInv'
  BY <1>0, <1>1, <1>2, <1>10, MovedInv
<1>12. CASE UNCHANGED <<pos, failedPos>> /\ Fault
  <2>1. PlacesInv'
    BY <1>1, <1>2, <1>12, PlacesStay
  <2>2. TypeOK' /\ (cur < Len(files))' /\ IsFiniteSet(failedPos)'
    BY <1>1, <1>10, <1>12, TypeStays DEF Moved, Fault, IInv, TypeOK
  <2> QED
    BY <1>11, <2>1, <2>2 DEF IInv
<1>13. CASE /\ pos' = s.to
            /\ failedPos' = IF s.failed THEN failedPos \cup {s.from} ELSE failedPos
            /\ UNCHANGED faults
  <2>1. PlacesInv'
    <3>1. SUFFICES ASSUME NEW k \in {s.to, s.from} \cup failedPos \cup temp \cup dropped
                   PROVE  Place(k)'
      BY <1>1, <1>13 DEF PlacesInv
    <3>2. k \in Position /\ Place(k)
      BY <1>4, <1>6 DEF IInv, TypeOK, PlacesInv
    <3> QED
      BY <1>2, <3>2, PlaceStays
  <2>5. TypeOK' /\ (cur < Len(files))' /\ IsFiniteSet(failedPos)'
    <3>1. failedPos' \subseteq Position /\ pos' \in Position
      BY <1>4, <1>13 DEF IInv, TypeOK
    <3>2. loop' \in [Loop -> LoopState]
      BY <1>10 DEF Moved
    <3>3. IsFiniteSet(failedPos)'
      BY <1>13, FS_AddElement DEF IInv
    <3> QED
      BY <1>1, <1>13, <3>1, <3>2, <3>3 DEF IInv, TypeOK, FeedTypeOK
  <2> QED
    BY <1>11, <2>1, <2>5 DEF IInv
<1> QED
  BY <1>3, <1>12, <1>13 DEF SaveDownloadState

-----------------------------------------------------------------------------
\* What happens to the binlog and the dataset leaves the goroutines in place.
LEMMA LoopsStay ==
    ASSUME IInv, Grown, present \subseteq present', skipped \subseteq skipped',
           loop' = loop, downloading' = downloading
    PROVE  LoopsInv'
<1>1. ASSUME NEW l \in Loop
      PROVE  LoopInv(l)' /\ (loop[l].pc = "transfer" => FileOf(l)' = FileOf(l))
  <2>1. loop[l].pc = "transfer" => FileOf(l) \in downloading'
    BY DEF IInv, LoopsInv, LoopInv
  <2> QED
    BY <2>1, LoopStays
<1>2. OneFileEach'
  <2>1. "sync" \in Loop /\ "retry" \in Loop
    BY DEF Loop
  <2> QED
    BY <1>1, <2>1 DEF IInv, LoopsInv, OneFileEach
<1> QED
  BY <1>1, <1>2 DEF LoopsInv

\* The lines that a new file leaves behind are lines.
LEMMA UnseenType == IInv => Unseen \subseteq Nat \X Nat
<1> SUFFICES ASSUME IInv, NEW x \in Unseen PROVE x \in Nat \X Nat
  OBVIOUS
<1>1. PICK q : /\ x = <<Last, q>>
               /\ q \in ValidIn(files[Len(files)], loop["sync"].end,
                                Len(files[Len(files)]))
  BY DEF Unseen
<1>2. Last \in Nat
  BY Typing DEF Last
<1>3. loop["sync"].end \in Nat
  BY Typing DEF Loop, LoopState
<1>4. q \in Nat
  BY <1>1, <1>3 DEF ValidIn
<1> QED
  BY <1>1, <1>2, <1>4

LEMMA FeedIInv ==
    ASSUME IInv, Grown, FeedStep \/ \E r \in Valid : AddDataset(r)
    PROVE  IInv'
<1>1. /\ UNCHANGED <<pos, failedPos, downloading, loop, temp, offset, donePos, doneLen,
                     dropped, skipped, reboots, faults>>
      /\ present \subseteq present' /\ present' \subseteq present \cup Record
  BY DEF FeedStep, AddDataset, syncVars, retryVars
<1>2. data' \subseteq Valid
  BY DEF FeedStep, AddDataset, syncVars, IInv, TypeOK
<1>3. cur' \in Nat /\ cur' < Len(files')
  <2>1. Len(files') \in Nat /\ Len(files) <= Len(files')
    BY DEF Grown
  <2>2. \/ cur' = cur \/ cur' = Last
        \/ cur' = Len(files) /\ files' = Append(files, <<>>)
    BY DEF FeedStep, AppendLine, OpenLast, Roll, AddDataset
  <2>3. files # <<>> /\ Len(files) \in Nat /\ Len(files) # 0
    BY Typing
  <2>4. CASE files' = Append(files, <<>>) /\ cur' = Len(files)
    <3>1. Len(files') = Len(files) + 1
      BY <2>4, Typing
    <3> QED
      BY <2>3, <2>4, <3>1
  <2> QED
    BY <2>1, <2>2, <2>3, <2>4 DEF Last, IInv, TypeOK, FeedTypeOK
<1>4. TypeOK'
  <2>1. files' \in Seq(Seq(Line)) /\ files' # <<>>
    BY DEF Grown
  <2>2. late' \subseteq Nat \X Nat
    <3>1. late' = late \/ late' = late \cup Unseen
      BY DEF FeedStep, AddDataset, syncVars
    <3> QED
      BY <3>1, UnseenType DEF IInv, TypeOK
  <2> QED
    BY <1>1, <1>2, <1>3, <2>1, <2>2 DEF IInv, TypeOK, FeedTypeOK
<1>5. PlacesInv'
  BY <1>1, PlacesStay
<1>6. LoopsInv'
  BY <1>1, LoopsStay
<1> QED
  BY <1>1, <1>3, <1>4, <1>5, <1>6 DEF IInv

LEMMA RestartIInv ==
    ASSUME IInv, Grown, Restart
    PROVE  IInv'
<1>1. /\ UNCHANGED <<present, data, pos, failedPos, late, dropped, skipped, faults>>
      /\ temp' = {} /\ offset' = 0 /\ donePos' = {} /\ doneLen' = 0
      /\ downloading' = {}
      /\ reboots' = reboots + 1 /\ cur' = 0
      /\ loop' = [l \in Loop |-> Idle]
  BY DEF Restart, RebootFix, RebootRoll, RebootOnly
<1>2. Idle \in LoopState /\ Idle.pc = "idle"
  BY DEF Idle, LoopState, Position, Start
<1>3. TypeOK' /\ (cur < Len(files))'
  <2>1. files' \in Seq(Seq(Line)) /\ files' # <<>>
    BY DEF Grown
  <2>2. Len(files') \in Nat /\ Len(files') # 0
    BY <2>1
  <2> QED
    BY <1>1, <1>2, <2>1, <2>2 DEF IInv, TypeOK, FeedTypeOK
<1>4. PlacesInv'
  BY <1>1, PlacesStay
<1>5. ASSUME NEW l \in Loop PROVE loop'[l].pc = "idle" /\ LoopInv(l)'
  BY <1>1, <1>2 DEF LoopInv
<1>6. LoopsInv'
  BY <1>5 DEF LoopsInv, OneFileEach, Loop
<1> QED
  BY <1>1, <1>3, <1>4, <1>6 DEF IInv

LEMMA InitIInv == Init => IInv
<1> SUFFICES ASSUME Init PROVE IInv
  OBVIOUS
<1>1. files = << <<Skip>> >> /\ cur = 0
  BY DEF Init, FeedInit
<1>2. /\ Len(files) = 1 /\ Len(files[1]) = 1
      /\ files \in Seq(Seq(Line)) /\ files # <<>>
  BY <1>1 DEF Line
<1>3. Idle \in LoopState /\ Idle.pc = "idle" /\ Start \in Position
      /\ Start.fi = 0 /\ Start.off = 0
  BY DEF Idle, LoopState, Position, Start
<1>4. TypeOK
  BY <1>1, <1>2, <1>3 DEF Init, TypeOK, FeedTypeOK
<1>5. PlacesInv
  <2>1. Place(Start)
    BY <1>2, <1>3 DEF Place
  <2> QED
    BY <2>1 DEF Init, PlacesInv
<1>7. ASSUME NEW l \in Loop PROVE loop[l].pc = "idle" /\ LoopInv(l)
  BY <1>3 DEF Init, LoopInv
<1>8. LoopsInv
  BY <1>7 DEF LoopsInv, OneFileEach, Loop
<1>9. IsFiniteSet(failedPos)
  BY FS_EmptySet DEF Init
<1> QED
  BY <1>1, <1>2, <1>4, <1>5, <1>8, <1>9 DEF IInv

LEMMA StepIInv == IInv /\ [Next]_vars => IInv'
<1> SUFFICES ASSUME IInv, [Next]_vars PROVE IInv'
  OBVIOUS
<1>1. Grown
  BY FilesGrow
<1>2. CASE FeedStep \/ \E r \in Valid : AddDataset(r)
  BY <1>1, <1>2, FeedIInv
<1>3. CASE Restart
  BY <1>1, <1>3, RestartIInv
<1>4. CASE SyncStep \/ RetryStep
  <2>1. "sync" \in Loop /\ "retry" \in Loop
    BY DEF Loop
  <2> QED
    BY <1>4, <2>1, BeginsIInv, LoopStepIInv, SaveDownloadStateIInv, RetryLoadIInv,
       RetryRemovesIInv, RetryFinishedIInv
       DEF SyncStep, RetryStep
<1>5. CASE UNCHANGED vars
  <2>1. UNCHANGED <<files, cur, present, data, pos, failedPos, downloading, loop, temp,
                    offset, donePos, doneLen, late, dropped, skipped, reboots, faults>>
    BY <1>5 DEF vars, syncVars, retryVars
  <2>2. TypeOK' /\ (cur < Len(files))' /\ IsFiniteSet(failedPos)'
    BY <2>1, TypeStays DEF IInv, TypeOK
  <2>3. PlacesInv'
    BY <1>1, <2>1, PlacesStay
  <2>4. LoopsInv'
    BY <1>1, <2>1, LoopsStay
  <2> QED
    BY <2>2, <2>3, <2>4 DEF IInv
<1> QED
  BY <1>2, <1>3, <1>4, <1>5 DEF Next

-----------------------------------------------------------------------------
\* Every record of its file after position k came too late to be seen.
Over(k) ==
    \A q \in ValidIn(files[k.fi + 1], k.off, Len(files[k.fi + 1])) :
        <<k.fi, q>> \in late

\* The first goroutine works at the saved position, which only it moves.
SyncAt ==
    loop["sync"].pc \in {"read", "check"} \cup Filing =>
        loop["sync"].from = pos

(***************************************************************************)
(* It goes on to the end of its batch, or to the next file: then there is  *)
(* one, and it has seen all of this file but the lines that came late.     *)
(***************************************************************************)
SyncLeft ==
    LET s == loop["sync"]
    IN  /\ s.pc = "check" /\ BatchOf("sync") = {} /\ s.from.fi + 1 < Len(files) =>
               Over(s.from)
        /\ s.pc \in Filing =>
               \/ s.to = [fi |-> s.from.fi, off |-> s.end]
               \/ /\ s.to = [fi |-> s.from.fi + 1, off |-> 0]
                  /\ s.from.fi + 1 < Len(files)
                  /\ Over(s.from)

LeftInv == NothingForgotten /\ SyncAt /\ SyncLeft

\* The newest file is the only one that gets lines.
LEMMA OldFilesKept ==
    ASSUME IInv, [Next]_vars, NEW i \in 1 .. Len(files) - 1
    PROVE  i \in 1 .. Len(files') /\ files'[i] = files[i]
<1>1. files \in Seq(Seq(Line)) /\ Len(files) \in Nat /\ i \in 1 .. Len(files) /\ i # Len(files)
  BY Typing
<1>2. \/ files' = files
      \/ \E l \in Line : files' = [files EXCEPT ![Len(files)] = Append(@, l)]
      \/ \E ls : files' = Append(files, ls)
  <2>1. Skip \in Line /\ (Room => Lines[LinesOfLast + 1] \subseteq Line)
    BY LinesAreLines DEF Line
  <2>2. CASE FeedStep
    BY <2>1, <2>2 DEF FeedStep, AppendLine, OpenLast, Roll
  <2>3. CASE Restart
    BY <2>1, <2>3 DEF Restart, RebootFix, RebootRoll, RebootOnly
  <2> QED
    BY <2>2, <2>3
       DEF Next, AddDataset, SyncStep, RetryStep, SyncBegins, RetryBegins, RetryLoad,
           RetryPick, RetryRemoves, LoopStep, ReadBatch, CheckIndex, SkipFile,
           FindMissing, PassOver, NoServer, RegisterDownloadingFile, Downloaded, DownloadFails, SaveDownloadState,
           RetryFinished, LocalStep, vars
<1>3. CASE files' = files
  BY <1>1, <1>3
<1>4. ASSUME NEW l \in Line, files' = [files EXCEPT ![Len(files)] = Append(@, l)]
      PROVE  i \in 1 .. Len(files') /\ files'[i] = files[i]
  BY <1>1, <1>4
<1>5. ASSUME NEW ls, files' = Append(files, ls)
      PROVE  i \in 1 .. Len(files') /\ files'[i] = files[i]
  BY <1>1, <1>5
<1> QED
  BY <1>2, <1>3, <1>4, <1>5

\* Files stay on disk, and a position leaves the bucket for the history only.
LEMMA HistoryGrows ==
    ASSUME IInv, [Next]_vars
    PROVE  /\ present \subseteq present' /\ skipped \subseteq skipped'
           /\ late \subseteq late'
           /\ failedPos \cup dropped \subseteq failedPos' \cup dropped'
<1>1. ASSUME NEW l \in Loop, LoopStep(l)
      PROVE  /\ present \subseteq present' /\ skipped \subseteq skipped'
             /\ UNCHANGED <<late, failedPos, dropped>>
  BY <1>1, LoopStepInv DEF BatchStep
<1>2. "sync" \in Loop /\ "retry" \in Loop
  BY DEF Loop
<1> QED
  BY <1>1, <1>2
     DEF Next, FeedStep, syncVars, AddDataset, Restart, SyncStep, RetryStep, SyncBegins,
         RetryBegins, RetryLoad, RetryPick, RetryRemoves, SaveDownloadState, RetryFinished,
         LocalStep, vars

\* What is there, excepted or noted stays so.
LEMMA HandledStays ==
    ASSUME IInv, [Next]_vars, NEW i \in Nat, i < Len(files),
           NEW q \in 1 .. Len(files[i + 1]), Handled(i, q)
    PROVE  Handled(i, q)'
<1>1. Grown
  BY FilesGrow
<1>2. files'[i + 1][q] = files[i + 1][q]
  <2>1. i + 1 \in 1 .. Len(files)
    BY Typing
  <2> QED
    BY <1>1, <2>1, GrownAt
<1>3. CASE files[i + 1][q] \in present \/ <<i, q>> \in skipped \cup late
  BY <1>2, <1>3, HistoryGrows DEF Handled
<1>4. ASSUME NEW k \in failedPos \cup dropped, <<i, q>> \in Window(k)
      PROVE  Handled(i, q)'
  <2>1. k \in Position /\ Place(k)
    BY DEF IInv, TypeOK, PlacesInv
  <2>2. <<i, q>> \in Window(k)'
    BY <1>1, <1>4, <2>1, WindowGrows
  <2>3. k \in failedPos' \cup dropped'
    BY HistoryGrows
  <2> QED
    BY <2>2, <2>3 DEF Handled
<1> QED
  BY <1>3, <1>4 DEF Handled

LEMMA HandledInStays ==
    ASSUME IInv, [Next]_vars, NEW i \in Nat, i < Len(files),
           NEW to \in Nat, to <= Len(files[i + 1]), HandledIn(i, to)
    PROVE  HandledIn(i, to)'
<1>1. /\ Len(files[i + 1]) \in Nat
      /\ \A q \in 1 .. Len(files[i + 1]) : files'[i + 1][q] = files[i + 1][q]
  <2>1. i + 1 \in 1 .. Len(files)
    BY Typing
  <2> QED
    BY <2>1, FilesGrow, GrownAt
<1> SUFFICES ASSUME NEW q \in ValidIn(files'[i + 1], 0, to)
             PROVE  Handled(i, q)'
  BY DEF HandledIn
<1>2. q \in 1 .. to /\ files'[i + 1][q] \in Valid
  BY DEF ValidIn
<1>3. q \in 1 .. Len(files[i + 1])
  BY <1>1, <1>2
<1>4. q \in ValidIn(files[i + 1], 0, to)
  BY <1>1, <1>2, <1>3 DEF ValidIn
<1> QED
  BY <1>3, <1>4, HandledStays DEF HandledIn

\* A whole file, too: when another one follows it has all its lines.
LEMMA FileStays ==
    ASSUME IInv, [Next]_vars, NEW i \in Nat, i + 1 < Len(files),
           HandledIn(i, Len(files[i + 1]))
    PROVE  HandledIn(i, Len(files[i + 1]))'
<1>1. files'[i + 1] = files[i + 1] /\ Len(files[i + 1]) \in Nat /\ i < Len(files)
  BY Typing, OldFilesKept
<1>2. HandledIn(i, Len(files[i + 1]))'
      <=> \A q \in ValidIn(files[i + 1], 0, Len(files[i + 1])) : Handled(i, q)'
  BY <1>1 DEF HandledIn
<1> SUFFICES ASSUME NEW q \in ValidIn(files[i + 1], 0, Len(files[i + 1]))
             PROVE  Handled(i, q)'
  BY <1>2
<1>3. q \in 1 .. Len(files[i + 1])
  BY <1>1 DEF ValidIn
<1> QED
  BY <1>1, <1>3, HandledStays DEF HandledIn

\* While the saved position stays, nothing is forgotten.
LEMMA PosStays ==
    ASSUME IInv, NothingForgotten, [Next]_vars, pos' = pos
    PROVE  NothingForgotten'
<1>1. PICK k \in Position : k = pos /\ k = pos'
  BY DEF IInv, TypeOK
<1>2. k.fi \in Nat /\ k.off \in Nat /\ k.fi < Len(files) /\ k.off <= Len(files[k.fi + 1])
  BY <1>1 DEF IInv, PlacesInv, Place, Position
<1>3. HandledIn(k.fi, k.off)'
  BY <1>1, <1>2, HandledInStays DEF NothingForgotten
<1>4. ASSUME NEW i \in 0 .. k.fi - 1
      PROVE  HandledIn(i, Len(files[i + 1]))'
  <2>1. i \in Nat /\ i + 1 < Len(files)
    BY <1>2, Typing
  <2> QED
    BY <1>1, <2>1, FileStays DEF NothingForgotten
<1>5. HandledIn(pos.fi, pos.off)'
  BY <1>1, <1>3 DEF HandledIn
<1> QED
  BY <1>1, <1>4, <1>5 DEF NothingForgotten

LEMMA OverStays ==
    ASSUME IInv, [Next]_vars, NEW k \in Position, k.fi + 1 < Len(files), Over(k)
    PROVE  Over(k)'
<1>1. k.fi + 1 \in 1 .. Len(files) - 1
  BY Typing DEF Position
<1>2. files'[k.fi + 1] = files[k.fi + 1] /\ late \subseteq late'
  BY <1>1, OldFilesKept, HistoryGrows
<1> QED
  BY <1>2 DEF Over

\* The newest file gets a successor while the first goroutine has found
\* nothing in it and has not asked for the current index.
LEMMA NewestOver ==
    ASSUME IInv, Roll, late' = late \cup Unseen,
           NEW s \in LoopState, s = loop["sync"], s.pc = "check",
           BatchOf("sync") = {}, s.from.fi = Last
    PROVE  Over(s.from)'
<1>1. /\ files \in Seq(Seq(Line)) /\ files # <<>> /\ Len(files) \in Nat
      /\ Len(files) \in 1 .. Len(files) /\ files' = Append(files, <<>>)
  BY Typing DEF Roll
<1>2. /\ s.from.fi \in Nat /\ s.from.off \in Nat /\ s.end \in Nat
      /\ s.from.fi + 1 = Len(files)
  BY <1>1 DEF LoopState, Position, Last
<1>3. PICK f : f = files[Len(files)] /\ Len(f) \in Nat
  BY <1>1
<1>4. files'[s.from.fi + 1] = f
  BY <1>1, <1>2, <1>3
<1>5. Unseen = {<<Last, q>> : q \in ValidIn(f, s.end, Len(f))}
  <2>1. AtItsEnd
    BY DEF AtItsEnd
  <2> QED
    BY <1>3, <2>1 DEF Unseen
<1>6. ValidIn(f, s.from.off, s.end) = {}
  BY <1>2, <1>3 DEF BatchOf, LogOf
<1>7. ASSUME NEW q \in ValidIn(f, s.from.off, Len(f))
      PROVE  <<s.from.fi, q>> \in late'
  <2>1. q \in Nat /\ s.from.off < q /\ q <= Len(f) /\ f[q] \in Valid
    BY <1>2, <1>3, <1>7 DEF ValidIn
  <2>2. ~(q <= s.end)
    BY <1>2, <1>6, <2>1 DEF ValidIn
  <2>3. q \in ValidIn(f, s.end, Len(f))
    BY <1>2, <1>3, <2>1, <2>2 DEF ValidIn
  <2> QED
    BY <1>5, <2>3
<1> QED
  BY <1>4, <1>7 DEF Over

\* A step of the binlog leaves the first goroutine at its batch.
LEMMA SyncStays ==
    ASSUME IInv, SyncAt, SyncLeft, [Next]_vars, loop'["sync"] = loop["sync"], pos' = pos,
           \/ files' = files
           \/ FeedStep
    PROVE  SyncAt' /\ SyncLeft'
<1>0. "sync" \in Loop
  BY DEF Loop
<1>1. PICK s \in LoopState : s = loop["sync"] /\ s = loop'["sync"]
  BY <1>0, Typing
<1>2. /\ s.from \in Position /\ s.from.fi \in Nat /\ s.from.off \in Nat /\ s.end \in Nat
      /\ Len(files) \in Nat /\ Len(files') \in Nat /\ Grown
  <2>1. Grown
    BY FilesGrow
  <2>2. Len(files) \in Nat /\ Len(files') \in Nat
    BY <2>1, Typing DEF Grown
  <2> QED
    BY <2>1, <2>2 DEF LoopState, Position
<1>3. SyncAt'
  BY <1>1 DEF SyncAt
<1>4. ASSUME s.pc = "check", BatchOf("sync")' = {}, s.from.fi + 1 < Len(files')
      PROVE  Over(s.from)'
  <2>1. /\ Place(s.from) /\ s.end <= Len(files[s.from.fi + 1])
    BY <1>0, <1>1, <1>4 DEF IInv, LoopsInv, LoopInv, LogOf
  <2>2. BatchOf("sync") = {}
    <3>1. PICK f, g : f = files[s.from.fi + 1] /\ g = files'[s.from.fi + 1]
      OBVIOUS
    <3>2. Len(f) \in Nat /\ s.end <= Len(f) /\ \A q \in 1 .. Len(f) : g[q] = f[q]
      <4>1. s.from.fi + 1 \in 1 .. Len(files)
        BY <1>2, <2>1 DEF Place
      <4> QED
        BY <1>2, <2>1, <3>1, <4>1, GrownAt
    <3>3. s.from.off + 1 .. s.end \subseteq 1 .. Len(f)
      BY <1>2, <3>2
    <3>4. ValidIn(g, s.from.off, s.end) = ValidIn(f, s.from.off, s.end)
      BY <3>2, <3>3 DEF ValidIn
    <3> QED
      BY <1>1, <1>4, <3>1, <3>4 DEF BatchOf, LogOf
  <2>3. CASE s.from.fi + 1 < Len(files)
    BY <1>1, <1>2, <1>4, <2>2, <2>3, OverStays DEF SyncLeft
  <2>4. CASE ~(s.from.fi + 1 < Len(files))
    <3>1. s.from.fi = Last
      BY <1>2, <2>1, <2>4 DEF Place, Last
    <3>2. Roll /\ late' = late \cup Unseen
      <4>1. files' # files
        BY <1>4, <2>4
      <4>2. ASSUME NEW l \in Line, AppendLine(l) PROVE FALSE
        <5>1. Len(files') = Len(files)
          BY <4>2, Typing DEF AppendLine
        <5> QED
          BY <1>4, <2>4, <5>1
      <4> QED
        BY <4>1, <4>2, LinesAreLines DEF FeedStep, OpenLast
    <3> QED
      BY <1>1, <1>4, <2>2, <3>1, <3>2, NewestOver
  <2> QED
    BY <2>3, <2>4
<1>5. ASSUME s.pc \in Filing
      PROVE  \/ s.to = [fi |-> s.from.fi, off |-> s.end]
             \/ /\ s.to = [fi |-> s.from.fi + 1, off |-> 0]
                /\ s.from.fi + 1 < Len(files') /\ Over(s.from)'
  <2>1. ASSUME s.from.fi + 1 < Len(files), Over(s.from)
        PROVE  s.from.fi + 1 < Len(files') /\ Over(s.from)'
    <3>1. Len(files) <= Len(files')
      BY <1>2 DEF Grown
    <3> QED
      BY <1>2, <2>1, <3>1, OverStays
  <2> QED
    BY <1>1, <1>5, <2>1 DEF SyncLeft
<1>6. Over(loop["sync"].from)' <=> Over(s.from)'
  BY <1>1 DEF Over
<1>7. SyncLeft'
  BY <1>1, <1>4, <1>5, <1>6 DEF SyncLeft
<1> QED
  BY <1>3, <1>7

\* From file to file of a batch the position before and after it stay.
LEMMA SameBatch ==
    ASSUME IInv, SyncAt, SyncLeft, UNCHANGED <<files, late, pos>>,
           loop["sync"].pc \in Filing,
           loop'["sync"].pc \in Filing,
           loop'["sync"].from = loop["sync"].from,
           loop'["sync"].to = loop["sync"].to,
           loop'["sync"].end = loop["sync"].end
    PROVE  SyncAt' /\ SyncLeft'
<1>1. SyncAt'
  BY DEF SyncAt
<1>2. Over(loop["sync"].from)' <=> Over(loop["sync"].from)
  BY DEF Over
<1>3. SyncLeft'
  BY <1>2 DEF SyncLeft
<1> QED
  BY <1>1, <1>3

LEMMA FileMoves ==
    ASSUME IInv, loop["sync"].pc \in Filing, Todo("sync") # {},
           \/ \E ok \in BOOLEAN : NextFile("sync", ok)
           \/ \E c \in Filing : Set("sync", [loop["sync"] EXCEPT !.pc = c])
    PROVE  /\ loop'["sync"].pc \in Filing
           /\ loop'["sync"].from = loop["sync"].from
           /\ loop'["sync"].to = loop["sync"].to
           /\ loop'["sync"].end = loop["sync"].end
<1>0. "sync" \in Loop
  BY DEF Loop
<1>1. PICK s \in LoopState : s = loop["sync"]
  BY <1>0, Typing
<1>2. ASSUME NEW ok \in BOOLEAN, NextFile("sync", ok)
      PROVE  \E t \in LoopState : /\ loop' = [loop EXCEPT !["sync"] = t]
                                  /\ t.pc = "file" /\ t.from = s.from
                                  /\ t.to = s.to /\ t.end = s.end
  <2>1. PICK n \in Nat : n = NextLine("sync")
    BY <1>0, NextLineIsFirst
  <2> DEFINE t == [s EXCEPT !.pc = "file", !.at = n, !.failed = @ \/ ~ok]
  <2>2. /\ t \in LoopState /\ t.pc = "file" /\ t.from = s.from /\ t.to = s.to
        /\ t.end = s.end
    BY DEF LoopState
  <2>3. loop' = [loop EXCEPT !["sync"] = t]
    BY <1>1, <1>2, <2>1 DEF NextFile, Set
  <2> QED
    BY <2>2, <2>3
<1>3. ASSUME NEW c \in Filing, Set("sync", [loop["sync"] EXCEPT !.pc = c])
      PROVE  \E t \in LoopState : /\ loop' = [loop EXCEPT !["sync"] = t]
                                  /\ t.pc = c /\ t.from = s.from
                                  /\ t.to = s.to /\ t.end = s.end
  <2> DEFINE t == [s EXCEPT !.pc = c]
  <2>1. /\ t \in LoopState /\ t.pc = c /\ t.from = s.from /\ t.to = s.to
        /\ t.end = s.end
    BY DEF LoopState
  <2>2. loop' = [loop EXCEPT !["sync"] = t]
    BY <1>1, <1>3 DEF Set
  <2> QED
    BY <2>1, <2>2
<1>4. PICK t \in LoopState : /\ loop' = [loop EXCEPT !["sync"] = t]
                             /\ t.pc \in Filing /\ t.from = s.from
                             /\ t.to = s.to /\ t.end = s.end
  BY <1>2, <1>3
<1> QED
  BY <1>0, <1>1, <1>4, Typing

\* The first goroutine starts at the saved position; an empty Read has seen
\* the whole file, and there is a next file when the index is beyond this one.
LEMMA SyncMoves ==
    ASSUME IInv, SyncAt, SyncLeft, SyncBegins \/ LoopStep("sync") \/ SaveDownloadState
    PROVE  SyncAt' /\ SyncLeft'
<1>0. "sync" \in Loop /\ loop \in [Loop -> LoopState]
  BY Typing DEF Loop
<1>1. PICK s \in LoopState : s = loop["sync"]
  BY <1>0
<1>2. /\ s.from \in Position /\ s.from.fi \in Nat /\ s.from.off \in Nat /\ s.end \in Nat
      /\ Len(files) \in Nat /\ cur \in Nat /\ cur < Len(files)
  BY Typing DEF LoopState, Position, IInv, TypeOK, FeedTypeOK
<1>3. LoopStep("sync") => UNCHANGED <<files, late, pos>>
  BY <1>0, LoopStepInv DEF BatchStep
<1>4. CASE SyncBegins
  <2> DEFINE t == [Idle EXCEPT !.pc = "read", !.from = pos]
  <2>1. loop' = [loop EXCEPT !["sync"] = t] /\ pos' = pos
    BY <1>4 DEF SyncBegins, Set
  <2>2. t.pc = "read" /\ t.from = pos
    BY DEF Idle
  <2>3. loop'["sync"] = t
    BY <1>0, <2>1
  <2> HIDE DEF t
  <2> QED
    BY <2>1, <2>2, <2>3 DEF SyncAt, SyncLeft
<1>5. CASE ReadBatch("sync")
  <2>1. PICK f : f = files[s.from.fi + 1]
    OBVIOUS
  <2>2. PICK e : e = ReadEnd(f, s.from.off, Fetch)
    OBVIOUS
  <2>3. s.pc = "read" /\ Place(s.from) /\ LogOf("sync") = f /\ s.from = pos
    BY <1>0, <1>1, <1>5, <2>1 DEF ReadBatch, IInv, LoopsInv, LoopInv, LogOf, SyncAt
  <2>4. Len(f) \in Nat /\ s.from.off <= Len(f)
    <3>1. s.from.fi + 1 \in 1 .. Len(files)
      BY <1>2, <2>3 DEF Place
    <3> QED
      BY <2>1, <2>3, <3>1, Typing DEF Place
  <2>5. e \in Nat
    BY <1>2, <2>2, <2>4, ReadEndBounds
  <2> DEFINE t == [s EXCEPT !.pc = "check", !.end = e, !.at = s.from.off]
  <2>6. t \in LoopState /\ t.pc = "check" /\ t.end = e /\ t.from = s.from
    BY <1>2, <2>5 DEF LoopState
  <2>7. \/ Set("sync", t)
        \/ Set("sync", [Idle EXCEPT !.pc = "idle"])
    BY <1>1, <1>5, <2>2, <2>3 DEF ReadBatch
  <2>8. CASE Set("sync", [Idle EXCEPT !.pc = "idle"])
    <3>1. loop'["sync"].pc = "idle"
      BY <1>0, <2>8 DEF Set, Idle
    <3> QED
      BY <3>1 DEF SyncAt, SyncLeft
  <2>9. CASE Set("sync", t)
    <3>1. loop' = [loop EXCEPT !["sync"] = t]
      BY <2>9 DEF Set
    <3> HIDE DEF t
    <3>2. loop'["sync"] = t
      BY <1>0, <3>1
    <3>3. SyncAt'
      BY <1>3, <1>5, <2>3, <2>6, <3>2 DEF SyncAt, LoopStep
    <3>4. UNCHANGED <<files, late>>
      BY <1>3, <1>5 DEF LoopStep
    <3>5. BatchOf("sync")' = ValidIn(f, s.from.off, e)
      BY <2>1, <2>6, <3>2, <3>4 DEF BatchOf, LogOf
    <3>6. ASSUME BatchOf("sync")' = {} PROVE Over(s.from)'
      <4>1. e = Len(f)
        BY <1>2, <2>2, <2>4, <3>5, <3>6, EmptyReadsAll, FileSyncAssumption
      <4> QED
        BY <2>1, <3>4, <3>5, <3>6, <4>1 DEF Over
    <3>7. Over(loop["sync"].from)' <=> Over(s.from)'
      BY <2>6, <3>2 DEF Over
    <3>8. SyncLeft'
      BY <2>6, <3>2, <3>6, <3>7 DEF SyncLeft
    <3> QED
      BY <3>3, <3>8
  <2> QED
    BY <2>7, <2>8, <2>9
<1>6. CASE CheckIndex("sync")
  <2>0. s.pc = "check" /\ UNCHANGED <<files, late, pos>>
    BY <1>1, <1>6 DEF CheckIndex, LocalStep
  <2> DEFINE to == IF cur > s.from.fi /\ BatchOf("sync") = {}
                   THEN [fi |-> s.from.fi + 1, off |-> 0]
                   ELSE [fi |-> s.from.fi, off |-> s.end]
             t  == [s EXCEPT !.pc = "file", !.to = to]
  <2>1. loop' = [loop EXCEPT !["sync"] = t]
    BY <1>1, <1>6 DEF CheckIndex, Set
  <2>2. to \in Position
    BY <1>2 DEF Position
  <2>3. \/ to = [fi |-> s.from.fi, off |-> s.end]
        \/ /\ to = [fi |-> s.from.fi + 1, off |-> 0]
           /\ cur > s.from.fi /\ BatchOf("sync") = {}
    OBVIOUS
  <2> HIDE DEF to
  <2>4. /\ t \in LoopState /\ t.pc = "file" /\ t.to = to /\ t.from = s.from
        /\ t.end = s.end
    BY <2>2 DEF LoopState
  <2> HIDE DEF t
  <2>5. loop'["sync"] = t
    BY <1>0, <2>1
  <2>6. SyncAt'
    BY <1>1, <2>0, <2>4, <2>5 DEF SyncAt
  <2>7. ASSUME cur > s.from.fi, BatchOf("sync") = {}
        PROVE  s.from.fi + 1 < Len(files) /\ Over(s.from)'
    <3>1. s.from.fi + 1 < Len(files)
      BY <1>2, <2>7
    <3>2. Over(s.from)
      BY <1>1, <2>0, <2>7, <3>1 DEF SyncLeft
    <3> QED
      BY <2>0, <3>1, <3>2 DEF Over
  <2>8. Over(loop["sync"].from)' <=> Over(s.from)'
    BY <2>4, <2>5 DEF Over
  <2>9. SyncLeft'
    BY <2>0, <2>3, <2>4, <2>5, <2>7, <2>8 DEF SyncLeft
  <2> QED
    BY <2>6, <2>9
<1>7. CASE \/ SkipFile("sync") \/ FindMissing("sync")
           \/ PassOver("sync") \/ NoServer("sync")
           \/ RegisterDownloadingFile("sync") \/ Downloaded("sync")
           \/ DownloadFails("sync")
  <2>1. loop["sync"].pc \in Filing /\ Todo("sync") # {}
    BY <1>0, <1>7
       DEF SkipFile, FindMissing, PassOver, NoServer, RegisterDownloadingFile,
           Downloaded, DownloadFails, AtFile, IInv, LoopsInv, LoopInv
  <2>2. \/ \E ok \in BOOLEAN : NextFile("sync", ok)
        \/ \E c \in Filing : Set("sync", [loop["sync"] EXCEPT !.pc = c])
    BY <1>7
       DEF SkipFile, FindMissing, PassOver, NoServer, RegisterDownloadingFile,
           Downloaded, DownloadFails
  <2>3. UNCHANGED <<files, late, pos>>
    BY <1>3, <1>7 DEF LoopStep
  <2> QED
    BY <2>1, <2>2, <2>3, FileMoves, SameBatch
<1>8. CASE SaveDownloadState
  <2>1. loop'["sync"].pc = "idle"
    BY <1>0, <1>8 DEF SaveDownloadState, Set, Idle
  <2> QED
    BY <2>1 DEF SyncAt, SyncLeft
<1> QED
  BY <1>4, <1>5, <1>6, <1>7, <1>8 DEF LoopStep

(***************************************************************************)
(* The position moves over a batch whose files are all settled, or is      *)
(* noted and leads a retry to them; from one file to the next only when    *)
(* the first has nothing left.                                             *)
(***************************************************************************)
LEMMA SavedForgetsNothing ==
    ASSUME IInv, LeftInv, [Next]_vars, SaveDownloadState
    PROVE  NothingForgotten'
<1>0. "sync" \in Loop
  BY DEF Loop
<1>1. PICK s \in LoopState : s = loop["sync"]
  BY <1>0, Typing
<1>2. /\ s.from \in Position /\ s.to \in Position /\ Len(files) \in Nat
      /\ s.from.fi \in Nat /\ s.from.off \in Nat /\ s.at \in Nat /\ s.end \in Nat
  BY Typing DEF LoopState, Position
<1>3. s.pc = "file" /\ Todo("sync") = {} /\ UNCHANGED <<files, present, skipped, late, dropped>>
  BY <1>1 DEF SaveDownloadState, BatchDone
<1>4. CASE pos' = pos
  BY <1>4, PosStays DEF LeftInv
<1>5. CASE /\ pos' = s.to
           /\ failedPos' = IF s.failed THEN failedPos \cup {s.from} ELSE failedPos
  <2>1. PICK f : f = files[s.from.fi + 1] /\ f = files'[s.from.fi + 1]
    BY <1>3
  <2>2. /\ Place(s.from) /\ s.from.off <= s.at /\ s.at <= s.end
        /\ s.end <= Len(f) /\ s.end <= ReadEnd(f, s.from.off, Fetch)
        /\ s.failed \/ Settled(s.from.fi, s.from.off, s.at)
    BY <1>0, <1>1, <1>3, <2>1 DEF IInv, LoopsInv, LoopInv, LogOf
  <2>3. s.from = pos
    BY <1>1, <1>3 DEF LeftInv, SyncAt
  <2>4. /\ Len(f) \in Nat /\ s.from.off <= Len(f) /\ s.from.fi < Len(files)
        /\ ReadEnd(f, s.from.off, Fetch) \in s.from.off .. Len(f)
    <3>1. s.from.fi + 1 \in 1 .. Len(files) /\ s.from.off <= Len(f)
      BY <1>2, <2>1, <2>2 DEF Place
    <3>2. Len(f) \in Nat
      BY <2>1, <3>1, Typing
    <3> QED
      BY <1>2, <3>1, <3>2, ReadEndBounds
  <2>5. ASSUME NEW q \in ValidIn(f, 0, s.from.off)
        PROVE  Handled(s.from.fi, q)'
    <3>1. Handled(s.from.fi, q)
      BY <2>1, <2>3, <2>5 DEF LeftInv, NothingForgotten, HandledIn
    <3>2. q \in 1 .. Len(f)
      BY <1>2, <2>4, <2>5 DEF ValidIn
    <3> QED
      BY <1>2, <2>1, <2>4, <3>1, <3>2, HandledStays
  <2>6. ASSUME NEW q \in ValidIn(f, s.from.off, s.end)
        PROVE  Handled(s.from.fi, q)'
    <3>1. CASE s.failed
      <4>1. q \in ValidIn(f, s.from.off, ReadEnd(f, s.from.off, Fetch))
        BY <1>2, <2>2, <2>4, <2>6 DEF ValidIn
      <4>2. <<s.from.fi, q>> \in Window(s.from)'
        BY <2>1, <4>1 DEF Window
      <4>3. s.from \in failedPos'
        BY <1>5, <3>1
      <4> QED
        BY <4>2, <4>3 DEF Handled
    <3>2. CASE ~s.failed
      <4>1. ValidIn(f, s.at, s.end) = {}
        BY <1>1, <1>3, <2>1 DEF Todo, LogOf
      <4>2. q \in ValidIn(f, s.from.off, s.at)
        <5>1. q \in Nat /\ s.from.off < q /\ q <= s.end /\ f[q] \in Valid
          BY <1>2, <2>6 DEF ValidIn
        <5>2. ~(s.at < q)
          BY <1>2, <4>1, <5>1 DEF ValidIn
        <5> QED
          BY <1>2, <5>1, <5>2 DEF ValidIn
      <4>3. f[q] \in present \/ <<s.from.fi, q>> \in skipped
        BY <2>1, <2>2, <3>2, <4>2 DEF Settled
      <4> QED
        BY <1>3, <2>1, <4>3 DEF Handled
    <3> QED
      BY <3>1, <3>2
  <2>7. ASSUME NEW i \in 0 .. s.from.fi - 1
        PROVE  HandledIn(i, Len(files[i + 1]))'
    <3>1. i \in Nat /\ i + 1 < Len(files)
      BY <1>2, <2>4
    <3> QED
      BY <2>3, <2>7, <3>1, FileStays DEF LeftInv, NothingForgotten
  <2>8. CASE s.to = [fi |-> s.from.fi, off |-> s.end]
    <3>1. pos'.fi = s.from.fi /\ pos'.off = s.end
      BY <1>5, <2>8
    <3>2. ASSUME NEW q \in ValidIn(f, 0, s.end)
          PROVE  Handled(s.from.fi, q)'
      <4>1. q \in ValidIn(f, 0, s.from.off) \/ q \in ValidIn(f, s.from.off, s.end)
        BY <1>2, <3>2 DEF ValidIn
      <4> QED
        BY <2>5, <2>6, <4>1
    <3>3. HandledIn(pos.fi, pos.off)'
      <4>1. HandledIn(pos.fi, pos.off)'
            <=> \A q \in ValidIn(f, 0, s.end) : Handled(s.from.fi, q)'
        BY <2>1, <3>1 DEF HandledIn, Handled
      <4> QED
        BY <3>2, <4>1
    <3> QED
      BY <2>7, <3>1, <3>3 DEF NothingForgotten
  <2>9. CASE s.to = [fi |-> s.from.fi + 1, off |-> 0] /\ Over(s.from)
    <3>1. pos'.fi = s.from.fi + 1 /\ pos'.off = 0
      BY <1>5, <2>9
    <3>2. HandledIn(pos.fi, pos.off)'
      BY <3>1 DEF HandledIn, ValidIn
    <3>3. ASSUME NEW q \in ValidIn(f, 0, Len(f))
          PROVE  Handled(s.from.fi, q)'
      <4>1. CASE q \in ValidIn(f, 0, s.from.off)
        BY <2>5, <4>1
      <4>2. CASE q \in ValidIn(f, s.from.off, Len(f))
        <5>1. <<s.from.fi, q>> \in late'
          BY <1>3, <2>1, <2>9, <4>2 DEF Over
        <5> QED
          BY <5>1 DEF Handled
      <4>3. q \in ValidIn(f, 0, s.from.off) \/ q \in ValidIn(f, s.from.off, Len(f))
        BY <1>2, <2>4, <3>3 DEF ValidIn
      <4> QED
        BY <4>1, <4>2, <4>3
    <3>4. HandledIn(s.from.fi, Len(files[s.from.fi + 1]))'
      BY <2>1, <3>3 DEF HandledIn
    <3>5. \A i \in 0 .. s.from.fi : i = s.from.fi \/ i \in 0 .. s.from.fi - 1
      BY <1>2
    <3>6. \A i \in 0 .. s.from.fi : HandledIn(i, Len(files[i + 1]))'
      BY <2>7, <3>4, <3>5
    <3>7. (s.from.fi + 1) - 1 = s.from.fi
      BY <1>2
    <3> QED
      BY <3>1, <3>2, <3>6, <3>7 DEF NothingForgotten
  <2> QED
    BY <1>1, <1>3, <2>8, <2>9 DEF LeftInv, SyncLeft
<1> QED
  BY <1>1, <1>4, <1>5 DEF SaveDownloadState

LEMMA LeftInvStep == IInv /\ LeftInv /\ [Next]_vars => LeftInv'
<1> SUFFICES ASSUME IInv, LeftInv, [Next]_vars PROVE LeftInv'
  OBVIOUS
<1>0. "sync" \in Loop /\ "retry" \in Loop /\ loop \in [Loop -> LoopState]
  BY Typing DEF Loop
<1>1. CASE SaveDownloadState
  BY <1>1, SavedForgetsNothing, SyncMoves DEF LeftInv
<1>2. CASE SyncBegins \/ LoopStep("sync")
  <2>1. pos' = pos
    BY <1>0, <1>2, LoopStepInv DEF SyncBegins, BatchStep
  <2> QED
    BY <1>2, <2>1, PosStays, SyncMoves DEF LeftInv
<1>3. CASE RetryStep \/ FeedStep \/ UNCHANGED vars \/ \E r \in Valid : AddDataset(r)
  <2>1. pos' = pos
    BY <1>0, <1>3, LoopStepInv
       DEF RetryStep, RetryBegins, RetryLoad, RetryPick, RetryRemoves, RetryFinished,
           BatchStep,
           FeedStep, AddDataset, syncVars, vars
  <2>2. files' = files \/ FeedStep
    BY <1>0, <1>3, LoopStepInv
       DEF RetryStep, RetryBegins, RetryLoad, RetryPick, RetryRemoves, RetryFinished,
           BatchStep,
           AddDataset, vars
  <2>3. loop'["sync"] = loop["sync"]
    <3>1. CASE RetryStep
      <4>1. CASE LoopStep("retry")
        BY <1>0, <4>1, LoopStepInv DEF Moved
      <4> QED
        BY <1>0, <3>1, <4>1
           DEF RetryStep, RetryBegins, RetryLoad, RetryPick, RetryRemoves,
               RetryFinished, Set
    <3> QED
      BY <1>3, <3>1 DEF FeedStep, AddDataset, syncVars, vars
  <2> QED
    BY <2>1, <2>2, <2>3, PosStays, SyncStays DEF LeftInv
<1>4. CASE Restart
  <2>1. pos' = pos /\ loop'["sync"].pc = "idle"
    BY <1>0, <1>4 DEF Restart, Idle
  <2>2. SyncAt' /\ SyncLeft'
    BY <2>1 DEF SyncAt, SyncLeft
  <2> QED
    BY <2>1, <2>2, PosStays DEF LeftInv
<1> QED
  BY <1>1, <1>2, <1>3, <1>4 DEF Next, SyncStep

LEMMA InitLeftInv == Init => LeftInv
<1> SUFFICES ASSUME Init PROVE LeftInv
  OBVIOUS
<1>1. loop["sync"].pc = "idle" /\ pos.fi = 0 /\ pos.off = 0
  BY DEF Init, Idle, Start, Loop
<1>2. NothingForgotten
  BY <1>1 DEF NothingForgotten, HandledIn, ValidIn
<1> QED
  BY <1>1, <1>2 DEF LeftInv, SyncAt, SyncLeft

-----------------------------------------------------------------------------
\* The inductive invariant holds of every reachable state.
THEOREM SyncInvariant == Spec => []IInv
  BY InitIInv, StepIInv, PTL DEF Spec

\* The locals of both goroutines, the positions and the histories keep their
\* types.
THEOREM FileSyncTypes == Spec => []TypeOK
<1>1. IInv => TypeOK
  BY DEF IInv
<1> QED
  BY <1>1, SyncInvariant, PTL

\* The download loop and the retry loop never transfer one file at the same
\* time, and what is under way is registered.  That a second transfer may come
\* after the first is in the model: neither looks again for the file once it
\* has found it missing.
THEOREM NeverTwoDownloads == Spec => []OneDownload
<1>1. IInv => OneDownload
  BY DEF IInv, LoopsInv, LoopInv, OneFileEach, OneDownload
<1> QED
  BY <1>1, SyncInvariant, PTL

\* Every position, saved, noted or about to be retried, is in an existing file.
THEOREM PlacesExist == Spec => []PositionsValid
<1>1. IInv => PositionsValid
  BY DEF IInv, PlacesInv, Place, PositionsValid
<1> QED
  BY <1>1, SyncInvariant, PTL

(***************************************************************************)
(* No file is forgotten by the download loop: the file of every record     *)
(* behind the saved position, in its binlog file and in all before it, is  *)
(* there, or a noted position leads a retry to it.  The exceptions are the *)
(* three gaps that the code has, and nothing else: a file passed over, a   *)
(* position the retry removed, a line written and followed by a new file   *)
(* between Read and GetCurrentIndex.                                       *)
(***************************************************************************)
THEOREM FailedAreNoted == Spec => []NothingForgotten
<1>1. LeftInv => NothingForgotten
  BY DEF LeftInv
<1> QED
  BY <1>1, InitLeftInv, LeftInvStep, SyncInvariant, PTL DEF Spec
=============================================================================
