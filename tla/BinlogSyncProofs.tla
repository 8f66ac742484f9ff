--------------------------- MODULE BinlogSyncProofs -------------------------
(***************************************************************************)
(* Proofs about BinlogSync for every group of servers, answer size, number *)
(* of files, records, restarts and failures.                               *)
(***************************************************************************)
EXTENDS BinlogSync, FiniteSetTheorems, SequenceTheorems, TLAPS

\* A place in the binlog of m, and everything n wants of its file before it
\* is in the dataset of n or in R.
Covered(n, m, p, R) ==
    /\ p.fi < Len(log[m])
    /\ p.off <= Len(log[m][p.fi + 1])
    /\ \A q \in 1 .. p.off :
          LET r == log[m][p.fi + 1][q] IN Src[r] = n \/ r \in data[n] \cup R

(***************************************************************************)
(* What a watcher knows of the position it is about to reach.  While it    *)
(* holds records, they are what the dataset lacks; between the two         *)
(* assignments the new offset is good in the old file, too, for it is that *)
(* of the same file or zero.                                               *)
(***************************************************************************)
Sound(n, m, s, p) ==
    /\ s.pc = "served" =>
           /\ s.to.fi = p.fi
           /\ Covered(n, m, s.to, RangeOf(s.logs))
    /\ s.pc \in {"write", "add"} =>
           s.failed \/ Covered(n, m, s.to, RangeOf(s.logs))
    /\ s.pc = "advance" => s.failed \/ Covered(n, m, s.to, {})
    /\ s.pc = "index" => Covered(n, m, s.to, {}) /\ p.off = s.to.off
    /\ s.pc \in {"write", "add", "advance"} => s.to.fi = p.fi \/ s.to.off = 0

WatcherInv(n, m) == Sound(n, m, w[n][m], state[n][m])

\* A record is in the binlog, or its Write has failed, before it is added to
\* the dataset.
LoggedFirst ==
    /\ \A r \in adding : r \in Logged(Src[r])
    /\ \A n, m \in Node :
          w[n][m].pc = "add" => RangeOf(w[n][m].logs) \subseteq Logged(n) \cup missed[n]

PairInv(n, m) ==
    /\ Covered(n, m, state[n][m], {})
    /\ Covered(n, m, saved[n][m], {})
    /\ WatcherInv(n, m)

IInv ==
    /\ TypeOK
    /\ \A n, m \in Node : PairInv(n, m)
    /\ LoggedFirst
    /\ DatasetInLog

-----------------------------------------------------------------------------
LEMMA Typing ==
    ASSUME TypeOK, NEW n \in Node
    PROVE  /\ log[n] \in Seq(Seq(Record)) /\ Len(log[n]) \in Nat \ {0}
           /\ cur[n] \in Nat /\ cur[n] < Len(log[n])
           /\ data[n] \subseteq Record
           /\ \A i \in 1 .. Len(log[n]) :
                 log[n][i] \in Seq(Record) /\ Len(log[n][i]) \in Nat
           /\ \A m \in Node :
                 /\ w[n][m] \in WatcherState
                 /\ state[n][m] \in Position /\ saved[n][m] \in Position
<1>1. log[n] \in Seq(Seq(Record)) /\ cur[n] \in Nat /\ cur[n] < Len(log[n])
  BY DEF TypeOK
<1>2. Len(log[n]) \in Nat \ {0}
  BY <1>1
<1> QED
  BY <1>1, <1>2 DEF TypeOK

\* Binlogs and datasets only grow; lines keep their places.
Grown ==
    /\ log' \in [Node -> Seq(Seq(Record))]
    /\ \A n \in Node :
          /\ Len(log[n]) <= Len(log'[n])
          /\ \A i \in 1 .. Len(log[n]) :
                /\ Len(log[n][i]) <= Len(log'[n][i])
                /\ \A q \in 1 .. Len(log[n][i]) : log'[n][i][q] = log[n][i][q]
          /\ data[n] \subseteq data'[n]
          /\ missed[n] \subseteq missed'[n]

LEMMA SameGrows ==
    ASSUME TypeOK, log' = log,
           \A n \in Node : data[n] \subseteq data'[n] /\ missed[n] \subseteq missed'[n]
    PROVE  Grown
<1>1. log' \in [Node -> Seq(Seq(Record))]
  BY DEF TypeOK
<1> QED
  BY <1>1, Typing DEF Grown

\* Lines that came late are numbered lines of files.
LEMMA UnseenTyped ==
    ASSUME TypeOK, NEW m \in Node
    PROVE  Unseen(m) \subseteq (Node \X Node \X Nat \X Nat)
<1> SUFFICES ASSUME NEW u \in Unseen(m) PROVE u \in Node \X Node \X Nat \X Nat
  OBVIOUS
<1>1. PICK n \in Node :
         u \in {<<n, m, Len(log[m]), q>> :
                   q \in w[n][m].to.off + 1 .. Len(log[m][Len(log[m])])}
  BY DEF Unseen
<1>2. PICK q \in w[n][m].to.off + 1 .. Len(log[m][Len(log[m])]) :
         u = <<n, m, Len(log[m]), q>>
  BY <1>1
<1>3. w[n][m].to.off \in Nat
  BY Typing DEF WatcherState, Position
<1>4. Len(log[m]) \in Nat /\ Len(log[m]) \in 1 .. Len(log[m])
  BY Typing
<1>5. Len(log[m][Len(log[m])]) \in Nat
  BY <1>4, Typing
<1>6. q \in Nat
  BY <1>3, <1>5
<1> QED
  BY <1>2, <1>4, <1>6

\* Write adds its records at the end of the newest file or as a new one, and
\* the index it leaves is that of the file.
LEMMA WriteLogGrows ==
    ASSUME TypeOK, NEW n \in Node, NEW recs \in Seq(Record), WriteLog(n, recs),
           \A x \in Node : data[x] \subseteq data'[x] /\ missed[x] \subseteq missed'[x]
    PROVE  /\ Grown
           /\ late' \subseteq (Node \X Node \X Nat \X Nat)
           /\ cur' \in [Node -> Nat] /\ \A x \in Node : cur'[x] < Len(log'[x])
           /\ RangeOf(recs) \subseteq Logged(n)'
<1> DEFINE k == Len(log[n])
           f == log[n][k]
<1>1. /\ log \in [Node -> Seq(Seq(Record))] /\ cur \in [Node -> Nat]
      /\ log[n] \in Seq(Seq(Record)) /\ k \in Nat \ {0} /\ k \in 1 .. k
      /\ f \in Seq(Record) /\ Len(f) \in Nat
  <2>1. log \in [Node -> Seq(Seq(Record))] /\ cur \in [Node -> Nat]
    BY DEF TypeOK
  <2>2. log[n] \in Seq(Seq(Record)) /\ k \in Nat \ {0}
    BY Typing
  <2>3. k \in 1 .. k
    BY <2>2
  <2>4. f \in Seq(Record) /\ Len(f) \in Nat
    BY <2>3, Typing
  <2> QED
    BY <2>1, <2>2, <2>3, <2>4
<1>0. late' \subseteq (Node \X Node \X Nat \X Nat)
  BY UnseenTyped DEF WriteLog, Extend, TypeOK
<1>2. CASE /\ log' = [log EXCEPT ![n][Len(log[n])] = @ \o recs]
           /\ cur' = [cur EXCEPT ![n] = Len(log[n]) - 1]
  <2> DEFINE g == f \o recs
             fs == [log[n] EXCEPT ![k] = g]
  <2>1. log' = [log EXCEPT ![n] = fs]
    BY <1>1, <1>2
  <2>2. /\ g \in Seq(Record) /\ Len(g) = Len(f) + Len(recs) /\ Len(recs) \in Nat
        /\ \A q \in 1 .. Len(f) : g[q] = f[q]
        /\ \A q \in 1 .. Len(recs) : g[Len(f) + q] = recs[q]
    <3> HIDE DEF f
    <3> QED
      BY <1>1
  <2> HIDE DEF g, f
  <2>3. /\ fs \in Seq(Seq(Record)) /\ Len(fs) = k /\ fs[k] = g
        /\ \A i \in 1 .. k : i # k => fs[i] = log[n][i]
    BY <1>1, <2>2
  <2> HIDE DEF fs
  <2>4. /\ log' \in [Node -> Seq(Seq(Record))] /\ log'[n] = fs
        /\ \A x \in Node : x # n => log'[x] = log[x]
    BY <1>1, <2>1, <2>3
  <2>5. ASSUME NEW x \in Node
        PROVE  /\ Len(log[x]) <= Len(log'[x])
               /\ \A i \in 1 .. Len(log[x]) :
                     /\ Len(log[x][i]) <= Len(log'[x][i])
                     /\ \A q \in 1 .. Len(log[x][i]) : log'[x][i][q] = log[x][i][q]
    <3>1. CASE x # n
      BY <2>4, <3>1, Typing
    <3>2. CASE x = n
      <4>1. ASSUME NEW i \in 1 .. k
            PROVE  /\ Len(log[n][i]) <= Len(fs[i])
                   /\ \A q \in 1 .. Len(log[n][i]) : fs[i][q] = log[n][i][q]
        <5>1. CASE i = k
          BY <1>1, <2>2, <2>3, <5>1 DEF f
        <5>2. CASE i # k
          BY <2>3, <5>2, Typing
        <5> QED
          BY <5>1, <5>2
      <4> QED
        BY <1>1, <2>3, <2>4, <3>2, <4>1
    <3> QED
      BY <3>1, <3>2
  <2>6. cur' \in [Node -> Nat] /\ \A x \in Node : cur'[x] < Len(log'[x])
    <3>1. cur'[n] = k - 1 /\ \A x \in Node : x # n => cur'[x] = cur[x]
      BY <1>1, <1>2
    <3>2. cur' \in [Node -> Nat]
      BY <1>1, <1>2
    <3>3. ASSUME NEW x \in Node PROVE cur'[x] < Len(log'[x])
      <4>1. CASE x = n
        BY <1>1, <2>3, <2>4, <3>1, <4>1
      <4>2. CASE x # n
        BY <2>4, <3>1, <4>2, Typing
      <4> QED
        BY <4>1, <4>2
    <3> QED
      BY <3>2, <3>3
  <2>7. RangeOf(recs) \subseteq Logged(n)'
    <3>1. ASSUME NEW q \in 1 .. Len(recs) PROVE recs[q] \in RangeOf(g)
      <4>1. Len(f) + q \in 1 .. Len(g) /\ g[Len(f) + q] = recs[q]
        BY <1>1, <2>2
      <4> QED
        BY <4>1 DEF RangeOf
    <3>2. RangeOf(g) \subseteq Logged(n)'
      BY <1>1, <2>3, <2>4 DEF Logged
    <3> QED
      BY <3>1, <3>2 DEF RangeOf
  <2> QED
    BY <1>0, <2>4, <2>5, <2>6, <2>7 DEF Grown
<1>3. CASE /\ log' = [log EXCEPT ![n] = Append(@, recs)]
           /\ cur' = [cur EXCEPT ![n] = Len(log[n])]
  <2> DEFINE fs == Append(log[n], recs)
  <2>1. /\ fs \in Seq(Seq(Record)) /\ Len(fs) = k + 1 /\ fs[k + 1] = recs
        /\ \A i \in 1 .. k : fs[i] = log[n][i]
    BY <1>1
  <2>2. log' = [log EXCEPT ![n] = fs]
    BY <1>3
  <2> HIDE DEF fs
  <2>3. /\ log' \in [Node -> Seq(Seq(Record))] /\ log'[n] = fs
        /\ \A x \in Node : x # n => log'[x] = log[x]
    BY <1>1, <2>1, <2>2
  <2>4. ASSUME NEW x \in Node
        PROVE  /\ Len(log[x]) <= Len(log'[x])
               /\ \A i \in 1 .. Len(log[x]) :
                     /\ Len(log[x][i]) <= Len(log'[x][i])
                     /\ \A q \in 1 .. Len(log[x][i]) : log'[x][i][q] = log[x][i][q]
    <3>1. CASE x # n
      BY <2>3, <3>1, Typing
    <3>2. CASE x = n
      BY <1>1, <2>1, <2>3, <3>2, Typing
    <3> QED
      BY <3>1, <3>2
  <2>5. cur' \in [Node -> Nat] /\ \A x \in Node : cur'[x] < Len(log'[x])
    <3>1. cur'[n] = k /\ \A x \in Node : x # n => cur'[x] = cur[x]
      BY <1>1, <1>3
    <3>2. cur' \in [Node -> Nat]
      BY <1>1, <1>3
    <3>3. ASSUME NEW x \in Node PROVE cur'[x] < Len(log'[x])
      <4>1. CASE x = n
        BY <1>1, <2>1, <2>3, <3>1, <4>1
      <4>2. CASE x # n
        BY <2>3, <3>1, <4>2, Typing
      <4> QED
        BY <4>1, <4>2
    <3> QED
      BY <3>2, <3>3
  <2>6. RangeOf(recs) \subseteq Logged(n)'
    <3>1. k + 1 \in 1 .. Len(log'[n]) /\ log'[n][k + 1] = recs
      BY <1>1, <2>1, <2>3
    <3> QED
      BY <3>1 DEF Logged
  <2> QED
    BY <1>0, <2>3, <2>4, <2>5, <2>6 DEF Grown
<1> QED
  BY <1>2, <1>3 DEF WriteLog, Extend

LEMMA LoggedGrows ==
    ASSUME TypeOK, Grown, NEW n \in Node
    PROVE  Logged(n) \subseteq Logged(n)'
<1> SUFFICES ASSUME NEW r \in Logged(n) PROVE r \in Logged(n)'
  OBVIOUS
<1>1. PICK i \in 1 .. Len(log[n]) : r \in RangeOf(log[n][i])
  BY DEF Logged
<1>2. PICK q \in 1 .. Len(log[n][i]) : r = log[n][i][q]
  BY <1>1 DEF RangeOf
<1>3. i \in 1 .. Len(log'[n]) /\ q \in 1 .. Len(log'[n][i]) /\ log'[n][i][q] = r
  <2>1. /\ Len(log[n]) <= Len(log'[n]) /\ Len(log[n][i]) <= Len(log'[n][i])
        /\ log'[n] \in Seq(Seq(Record)) /\ Len(log'[n]) \in Nat
    <3>1. log' \in [Node -> Seq(Seq(Record))] /\ Len(log[n]) <= Len(log'[n])
      BY DEF Grown
    <3>2. Len(log[n][i]) <= Len(log'[n][i])
      BY Zenon DEF Grown
    <3>3. log'[n] \in Seq(Seq(Record))
      BY <3>1
    <3> QED
      BY <3>1, <3>2, <3>3
  <2>2. i \in 1 .. Len(log'[n])
    BY <2>1, Typing
  <2>3. Len(log'[n][i]) \in Nat
    BY <2>1, <2>2
  <2>4. q \in 1 .. Len(log'[n][i])
    BY <1>2, <2>1, <2>3, Typing, SMTT(30)
  <2> QED
    BY <1>2, <2>2, <2>4 DEF Grown
<1>4. r \in RangeOf(log'[n][i])
  BY <1>3 DEF RangeOf
<1> QED
  BY <1>3, <1>4 DEF Logged

\* What is covered stays so.
LEMMA CoveredStays ==
    ASSUME TypeOK, Grown, NEW n \in Node, NEW m \in Node, NEW p \in Position,
           NEW R, NEW S, R \subseteq S, Covered(n, m, p, R)
    PROVE  Covered(n, m, p, S)'
<1>1. /\ p.fi \in Nat /\ p.off \in Nat /\ p.fi + 1 \in 1 .. Len(log[m])
      /\ Len(log[m]) \in Nat
  BY Typing DEF Position, Covered
<1> DEFINE old == log[m][p.fi + 1]
           new == log'[m][p.fi + 1]
<1>2. /\ Len(log'[m]) \in Nat /\ Len(log[m]) <= Len(log'[m])
      /\ log'[m] \in Seq(Seq(Record))
  BY DEF Grown
<1>3. p.fi + 1 \in 1 .. Len(log'[m])
  BY <1>1, <1>2
<1>4. /\ Len(old) \in Nat /\ Len(new) \in Nat /\ Len(old) <= Len(new)
      /\ \A q \in 1 .. Len(old) : new[q] = old[q]
  <2>1. Len(old) \in Nat
    BY <1>1, Typing
  <2>2. Len(new) \in Nat
    <3>1. new \in Seq(Record)
      BY <1>2, <1>3
    <3> QED
      BY <3>1
  <2>3. ASSUME NEW i \in 1 .. Len(log[m])
        PROVE  /\ Len(log[m][i]) <= Len(log'[m][i])
               /\ \A q \in 1 .. Len(log[m][i]) : log'[m][i][q] = log[m][i][q]
    BY DEF Grown
  <2> QED
    BY <1>1, <2>1, <2>2, <2>3
<1>5. data[n] \subseteq data'[n]
  BY DEF Grown
<1>6. /\ p.off <= Len(old)
      /\ \A q \in 1 .. p.off : Src[old[q]] = n \/ old[q] \in data[n] \cup R
  BY DEF Covered
<1> HIDE DEF old, new
<1>7. \A q \in 1 .. p.off : Src[new[q]] = n \/ new[q] \in data'[n] \cup S
  BY <1>1, <1>4, <1>5, <1>6, SMTT(30)
<1>8. p.off <= Len(new) /\ p.fi < Len(log'[m])
  BY <1>1, <1>2, <1>4, <1>6, SMTT(30)
<1> QED
  BY <1>7, <1>8 DEF Covered, new

\* A watcher that does not move keeps its part of the invariant.
LEMMA PairStays ==
    ASSUME IInv, Grown, NEW n \in Node, NEW m \in Node,
           w'[n][m] = w[n][m], state'[n][m] = state[n][m],
           saved'[n][m] \in {state[n][m], saved[n][m]}
    PROVE  PairInv(n, m)'
<1>1. PICK s \in WatcherState : s = w[n][m]
  BY Typing DEF IInv
<1>2. PICK p \in Position : p = state[n][m]
  BY Typing DEF IInv
<1>3. PICK v \in Position : v = saved[n][m]
  BY Typing DEF IInv
<1>4. s.to \in Position
  BY DEF WatcherState
<1>5. TypeOK /\ PairInv(n, m)
  BY DEF IInv
<1>6. \A R : Covered(n, m, s.to, R) => Covered(n, m, s.to, R)'
  BY <1>4, <1>5, CoveredStays
<1>7. Covered(n, m, p, {})' /\ Covered(n, m, v, {})'
  BY <1>2, <1>3, <1>5, CoveredStays DEF PairInv
<1>8. Covered(n, m, state[n][m], {})' /\ Covered(n, m, saved[n][m], {})'
  BY <1>2, <1>3, <1>7 DEF Covered
<1>9. \A R : Covered(n, m, w[n][m].to, R)' <=> Covered(n, m, s.to, R)'
  BY <1>1 DEF Covered
<1>10. WatcherInv(n, m)'
  BY <1>1, <1>2, <1>5, <1>6, <1>9 DEF PairInv, WatcherInv, Sound, RangeOf
<1> QED
  BY <1>8, <1>10 DEF PairInv

\* Nor does one that ends its round, at a position it has been at.
LEMMA PairRests ==
    ASSUME IInv, Grown, NEW n \in Node, NEW m \in Node, w'[n][m] = Idle,
           state'[n][m] \in {state[n][m], saved[n][m]}, saved'[n][m] = saved[n][m]
    PROVE  PairInv(n, m)'
<1>1. TypeOK /\ PairInv(n, m)
  BY DEF IInv
<1>2. PICK p \in Position : p = state[n][m]
  BY <1>1, Typing
<1>3. PICK v \in Position : v = saved[n][m]
  BY <1>1, Typing
<1>4. Covered(n, m, p, {})' /\ Covered(n, m, v, {})'
  BY <1>1, <1>2, <1>3, CoveredStays DEF PairInv
<1>5. Covered(n, m, state[n][m], {})' /\ Covered(n, m, saved[n][m], {})'
  BY <1>2, <1>3, <1>4 DEF Covered
<1>6. WatcherInv(n, m)'
  BY DEF WatcherInv, Sound, Idle
<1> QED
  BY <1>5, <1>6 DEF PairInv

LEMMA SetMoves ==
    ASSUME TypeOK, NEW n \in Node, NEW m \in Node, NEW s \in WatcherState, Set(n, m, s)
    PROVE  /\ w' \in [Node -> [Node -> WatcherState]]
           /\ w'[n][m] = s
           /\ \A x, y \in Node : x # n \/ y # m => w'[x][y] = w[x][y]
<1>1. w \in [Node -> [Node -> WatcherState]]
  BY DEF TypeOK
<1> DEFINE g == [w[n] EXCEPT ![m] = s]
<1>2. /\ g \in [Node -> WatcherState] /\ g[m] = s
      /\ \A y \in Node : y # m => g[y] = w[n][y]
  BY <1>1
<1>3. w' = [w EXCEPT ![n] = g]
  BY <1>1 DEF Set
<1> HIDE DEF g
<1> QED
  BY <1>1, <1>2, <1>3

(***************************************************************************)
(* What is left to show of a step of the watcher of n for m, which is in   *)
(* state s and at position p after it: s is sound, and the records it      *)
(* holds are in the binlog once they are to be added.                      *)
(***************************************************************************)
LEMMA OneMoves ==
    ASSUME IInv, Grown, NEW n \in Node, NEW m \in Node,
           NEW s \in WatcherState, NEW p \in Position,
           Set(n, m, s), state'[n][m] = p,
           \A x, y \in Node : x # n \/ y # m => state'[x][y] = state[x][y],
           UNCHANGED <<adding, saved>>,
           Covered(n, m, p, {})', Sound(n, m, s, p)',
           s.pc = "add" => RangeOf(s.logs) \subseteq (Logged(n) \cup missed[n])'
    PROVE  /\ w' \in [Node -> [Node -> WatcherState]]
           /\ \A x, y \in Node : PairInv(x, y)'
           /\ LoggedFirst'
<1>1. /\ TypeOK /\ LoggedFirst /\ PairInv(n, m)
  BY DEF IInv
<1>2. /\ w' \in [Node -> [Node -> WatcherState]]
      /\ w'[n][m] = s
      /\ \A x, y \in Node : x # n \/ y # m => w'[x][y] = w[x][y]
  BY <1>1, SetMoves
<1>3. PairInv(n, m)'
  <2>1. Covered(n, m, state[n][m], {})'
    BY DEF Covered
  <2>2. Covered(n, m, saved[n][m], {})'
    <3>1. PICK v \in Position : v = saved[n][m]
      BY <1>1, Typing
    <3>2. Covered(n, m, v, {})'
      BY <1>1, <3>1, CoveredStays DEF PairInv
    <3> QED
      BY <3>1, <3>2 DEF Covered
  <2>3. WatcherInv(n, m)'
    <3>1. \A R : Covered(n, m, w[n][m].to, R)' <=> Covered(n, m, s.to, R)'
      BY <1>2 DEF Covered
    <3> QED
      BY <1>2, <3>1 DEF WatcherInv, Sound, RangeOf
  <2> QED
    BY <2>1, <2>2, <2>3 DEF PairInv
<1>4. ASSUME NEW x \in Node, NEW y \in Node, x # n \/ y # m
      PROVE  PairInv(x, y)'
  BY <1>2, <1>4, PairStays
<1>5. LoggedFirst'
  <2>1. \A r \in adding' : r \in Logged(Src[r])'
    <3> SUFFICES ASSUME NEW r \in adding PROVE r \in Logged(Src[r])'
      OBVIOUS
    <3>1. Src[r] \in Node
      BY <1>1, SyncAssumption DEF TypeOK
    <3> QED
      BY <1>1, <3>1, LoggedGrows DEF LoggedFirst
  <2>2. ASSUME NEW x \in Node, NEW y \in Node, w'[x][y].pc = "add"
        PROVE  RangeOf(w'[x][y].logs) \subseteq (Logged(x) \cup missed[x])'
    <3>1. CASE x = n /\ y = m
      BY <1>2, <2>2, <3>1
    <3>2. CASE x # n \/ y # m
      <4>1. RangeOf(w[x][y].logs) \subseteq Logged(x) \cup missed[x]
        BY <1>1, <1>2, <2>2, <3>2 DEF LoggedFirst
      <4> QED
        BY <1>1, <1>2, <3>2, <4>1, LoggedGrows DEF Grown
    <3> QED
      BY <3>1, <3>2
  <2> QED
    BY <2>1, <2>2 DEF LoggedFirst, RangeOf
<1> QED
  BY <1>2, <1>3, <1>4, <1>5

LEMMA DataStays ==
    ASSUME IInv, Grown, data' = data
    PROVE  DatasetInLog'
<1>1. TypeOK /\ DatasetInLog
  BY DEF IInv
<1> QED
  BY <1>1, LoggedGrows DEF DatasetInLog, Grown

LEMMA LoggedFirstStays ==
    ASSUME TypeOK, LoggedFirst, log' = log, adding' = adding, w' = w, missed' = missed
    PROVE  LoggedFirst'
<1>1. \A x \in Node : Logged(x)' = Logged(x)
  BY DEF Logged, RangeOf
<1>2. ASSUME NEW z \in adding' PROVE z \in Logged(Src[z])'
  <2>1. z \in Logged(Src[z]) /\ Src[z] \in Node
    BY SyncAssumption DEF LoggedFirst, TypeOK
  <2> QED
    BY <1>1, <2>1
<1>3. ASSUME NEW x \in Node, NEW y \in Node, w'[x][y].pc = "add"
      PROVE  RangeOf(w'[x][y].logs) \subseteq (Logged(x) \cup missed[x])'
  BY <1>1, <1>3 DEF LoggedFirst
<1> QED
  BY <1>2, <1>3 DEF LoggedFirst, RangeOf

LEMMA CurTyping ==
    ASSUME TypeOK, log' = log, cur' = cur
    PROVE  cur' \in [Node -> Nat] /\ \A x \in Node : cur'[x] < Len(log'[x])
BY DEF TypeOK

-----------------------------------------------------------------------------
LEMMA IdleOK == Idle \in WatcherState
<1>1. <<>> \in Seq(Record)
  OBVIOUS
<1> QED
  BY <1>1 DEF Idle, WatcherState, Position, Start

\* The watcher goes back to sleep, its position stays.
LEMMA Ends ==
    ASSUME IInv, NEW n \in Node, NEW m \in Node, Set(n, m, Idle),
           UNCHANGED <<log, cur, data, adding, state, saved, dirty, late, missed, restarts>>,
           faults' \in Nat
    PROVE  IInv'
<1>1. TypeOK /\ PairInv(n, m)
  BY DEF IInv
<1>2. Grown
  BY <1>1, SameGrows
<1>3. PICK p \in Position : p = state[n][m]
  BY <1>1, Typing
<1>4. Covered(n, m, p, {})'
  BY <1>1, <1>2, <1>3, CoveredStays DEF PairInv
<1>5. Sound(n, m, Idle, p)'
  BY DEF Sound, Idle
<1>6. /\ w' \in [Node -> [Node -> WatcherState]]
      /\ \A x, y \in Node : PairInv(x, y)'
      /\ LoggedFirst'
  BY <1>2, <1>3, <1>4, <1>5, IdleOK, OneMoves DEF Idle
<1>7. DatasetInLog'
  BY <1>2, DataStays
<1>8. TypeOK'
  BY <1>1, <1>6 DEF TypeOK
<1> QED
  BY <1>6, <1>7, <1>8 DEF IInv

\* The answer holds the lines from the position up to the one it leads to.
LEMMA FetchStep ==
    ASSUME IInv, NEW n \in Node, NEW m \in Node, Fetch(n, m)
    PROVE  IInv'
<1>1. TypeOK /\ PairInv(n, m)
  BY DEF IInv
<1>2. Grown
  BY <1>1, SameGrows DEF Fetch
<1>3. PICK p \in Position : p = state[n][m]
  BY <1>1, Typing
<1>4. /\ p.fi \in Nat /\ p.off \in Nat /\ p.fi + 1 \in 1 .. Len(log[m])
      /\ Covered(n, m, p, {})
  <2>1. Covered(n, m, p, {})
    BY <1>1, <1>3 DEF PairInv, Covered
  <2> QED
    BY <1>1, <2>1, Typing DEF Position, Covered
<1> DEFINE file == log[m][p.fi + 1]
           end  == IF p.off + FetchSize <= Len(file) THEN p.off + FetchSize ELSE Len(file)
           logs == SubSeq(file, p.off + 1, end)
           to   == [fi |-> p.fi, off |-> end]
           s    == [Idle EXCEPT !.pc = "served", !.logs = logs, !.to = to,
                                !.empty = (logs = <<>>)]
<1>5. /\ file \in Seq(Record) /\ Len(file) \in Nat /\ p.off <= Len(file)
      /\ \A q \in 1 .. p.off : Src[file[q]] = n \/ file[q] \in data[n]
  BY <1>1, <1>4, Typing DEF Covered
<1>6. Set(n, m, s)
  BY <1>3 DEF Fetch
<1> HIDE DEF file
<1>7. end \in Nat /\ p.off <= end /\ end <= Len(file)
  BY <1>4, <1>5, SyncAssumption
<1> HIDE DEF end
<1>8. logs \in Seq(Record) /\ \A q \in p.off + 1 .. end : file[q] \in RangeOf(logs)
  <2>1. /\ logs \in Seq(Record)
        /\ Len(logs) = end - p.off
        /\ \A i \in 1 .. end - p.off : logs[i] = file[p.off + i]
    BY <1>4, <1>5, <1>7, SMTT(30)
  <2> HIDE DEF logs
  <2>2. ASSUME NEW q \in p.off + 1 .. end PROVE file[q] \in RangeOf(logs)
    <3>1. PICK i \in 1 .. end - p.off : q = p.off + i
      <4>1. q - p.off \in 1 .. end - p.off /\ q = p.off + (q - p.off)
        BY <1>4, <1>7
      <4> QED
        BY <4>1
    <3> QED
      BY <2>1, <3>1 DEF RangeOf
  <2> QED
    BY <2>1, <2>2
<1> HIDE DEF logs
<1>9. /\ s.pc = "served" /\ s.to = to /\ s.logs = logs
      /\ s \in WatcherState
  <2>1. to \in Position
    BY <1>4, <1>7 DEF Position
  <2>2. (logs = <<>>) \in BOOLEAN
    OBVIOUS
  <2> QED
    BY <1>8, <2>1, <2>2, IdleOK DEF Idle, WatcherState
<1> HIDE DEF s
<1>10. Covered(n, m, s.to, RangeOf(s.logs))
  <2>1. \A q \in 1 .. end : Src[file[q]] = n \/ file[q] \in data[n] \cup RangeOf(logs)
    BY <1>4, <1>5, <1>7, <1>8
  <2>2. to.fi < Len(log[m])
    BY <1>1, <1>4, Typing
  <2> QED
    BY <1>7, <1>9, <2>1, <2>2 DEF Covered, file
<1>11. PICK x \in WatcherState :
         /\ Set(n, m, x) /\ x.pc = "served" /\ x.to.fi = p.fi
         /\ Covered(n, m, x.to, RangeOf(x.logs))
  BY <1>6, <1>9, <1>10
<1>12. Sound(n, m, x, p)'
  <2>1. x.to \in Position
    BY DEF WatcherState
  <2>2. Covered(n, m, x.to, RangeOf(x.logs))'
    BY <1>1, <1>2, <1>11, <2>1, CoveredStays DEF RangeOf
  <2> QED
    BY <1>11, <2>2 DEF Sound, RangeOf
<1>13. Covered(n, m, p, {})'
  BY <1>1, <1>2, <1>4, CoveredStays
<1>14. /\ w' \in [Node -> [Node -> WatcherState]]
       /\ \A a, b \in Node : PairInv(a, b)'
       /\ LoggedFirst'
  BY <1>2, <1>3, <1>11, <1>12, <1>13, OneMoves DEF Fetch
<1>15. DatasetInLog'
  BY <1>2, DataStays DEF Fetch
<1>16. TypeOK'
  BY <1>1, <1>14 DEF TypeOK, Fetch
<1> QED
  BY <1>14, <1>15, <1>16 DEF IInv

LEMMA FetchFailsStep ==
    ASSUME IInv, NEW n \in Node, NEW m \in Node, FetchFails(n, m)
    PROVE  IInv'
<1>1. faults \in Nat /\ faults' = faults + 1
  BY DEF IInv, TypeOK, FetchFails, Fault
<1> QED
  BY <1>1, Ends DEF FetchFails

\* The records that are kept, in the order of the answer.
LEMMA Kept ==
    ASSUME NEW logs \in Seq(Record), NEW I \in SUBSET (1 .. Len(logs)), NEW f \in InOrder(I)
    PROVE  LET kept == [i \in 1 .. Cardinality(I) |-> logs[f[i]]]
           IN  kept \in Seq(Record) /\ \A i \in I : logs[i] \in RangeOf(kept)
<1> DEFINE c == Cardinality(I)
           kept == [i \in 1 .. c |-> logs[f[i]]]
<1>1. c \in Nat
  <2>1. IsFiniteSet(1 .. Len(logs))
    BY FS_Interval
  <2>2. IsFiniteSet(I)
    BY <2>1, FS_Subset
  <2> QED
    BY <2>2, FS_CardinalityType
<1>2. f \in [1 .. c -> I] /\ \A i \in I : \E j \in 1 .. c : f[j] = i
  BY DEF InOrder, Bijection, Injection, Surjection
<1> HIDE DEF c
<1>3. kept \in [1 .. c -> Record]
  <2>1. ASSUME NEW i \in 1 .. c PROVE logs[f[i]] \in Record
    <3>1. f[i] \in 1 .. Len(logs)
      BY <1>2
    <3> QED
      BY <3>1
  <2> QED
    BY <2>1
<1>4. kept \in Seq(Record)
  BY <1>1, <1>3, SeqDef
<1>5. Len(kept) = c
  BY <1>1
<1>6. ASSUME NEW i \in I PROVE logs[i] \in RangeOf(kept)
  <2>1. PICK j \in 1 .. c : f[j] = i
    BY <1>2
  <2> QED
    BY <1>5, <2>1 DEF RangeOf
<1> QED
  BY <1>4, <1>6 DEF c

LEMMA AnsweredStep ==
    ASSUME IInv, NEW n \in Node, NEW m \in Node, NEW unknown, Answered(n, m, unknown)
    PROVE  IInv'
<1>1. TypeOK /\ PairInv(n, m)
  BY DEF IInv
<1>2. Grown
  BY <1>1, SameGrows DEF Answered
<1>3. PICK p \in Position : p = state[n][m]
  BY <1>1, Typing
<1> DEFINE s == w[n][m]
<1>4. s \in WatcherState /\ s.pc = "served"
  BY <1>1, Typing DEF Answered
<1>5. /\ s.to \in Position /\ s.logs \in Seq(Record) /\ Len(s.logs) \in Nat
      /\ s.to.fi \in Nat /\ s.to.off \in Nat
  <2> HIDE DEF s
  <2> QED
    BY <1>4 DEF WatcherState, Position
<1>6. s.to.fi = p.fi /\ Covered(n, m, s.to, RangeOf(s.logs))
  BY <1>1, <1>3, <1>4, <1>5 DEF PairInv, WatcherInv, Sound
<1>7. faults' \in Nat
  <2>1. Fault \/ UNCHANGED faults
    BY Zenon DEF Answered
  <2>2. faults \in Nat
    BY <1>1 DEF TypeOK
  <2> QED
    BY <2>1, <2>2 DEF Fault
<1> DEFINE to == IF cur[m] > s.to.fi /\ s.empty
                 THEN [fi |-> s.to.fi + 1, off |-> 0] ELSE s.to
           wanted == {i \in 1 .. Len(s.logs) :
                        Src[s.logs[i]] # n /\ s.logs[i] \notin data[n] \cup unknown}
           kept(f) == [i \in 1 .. Cardinality(wanted) |-> s.logs[f[i]]]
           next(f) == [s EXCEPT !.pc = IF wanted = {} THEN "advance" ELSE "write",
                                !.to = to, !.logs = kept(f), !.failed = (unknown # {})]
<1>8. PICK f \in InOrder(wanted) : Set(n, m, IF to = state[n][m] THEN Idle ELSE next(f))
  BY Zenon DEF Answered
<1> HIDE DEF s
<1>9. UNCHANGED <<log, cur, data, adding, state, saved, dirty, late, missed, restarts>>
  BY DEF Answered
<1>10. CASE to = p
  <2>1. Set(n, m, Idle)
    BY <1>3, <1>8, <1>10
  <2> QED
    BY <1>7, <1>9, <2>1, Ends
<1>11. CASE to # p
  <2>1. Set(n, m, next(f))
    BY <1>3, <1>8, <1>11
  <2> DEFINE logs == kept(f)
  <2>2. logs \in Seq(Record) /\ \A i \in wanted : s.logs[i] \in RangeOf(logs)
    <3>1. wanted \in SUBSET (1 .. Len(s.logs))
      OBVIOUS
    <3> HIDE DEF wanted
    <3> QED
      BY <1>5, <3>1, Kept
  <2> HIDE DEF logs
  <2>3. to \in Position /\ (to.fi = p.fi \/ to.off = 0) /\ to.fi < Len(log[m])
        /\ (to = s.to \/ to.off = 0)
    <3>1. /\ cur[m] \in Nat /\ cur[m] < Len(log[m]) /\ Len(log[m]) \in Nat
          /\ s.to.fi < Len(log[m])
      BY <1>1, <1>6, Typing DEF Covered
    <3>2. CASE cur[m] > s.to.fi /\ s.empty
      BY <1>5, <3>1, <3>2 DEF Position
    <3>3. CASE ~(cur[m] > s.to.fi /\ s.empty)
      BY <1>5, <1>6, <3>1, <3>3
    <3> QED
      BY <3>2, <3>3
  <2> HIDE DEF to
  <2>4. unknown # {} \/ Covered(n, m, to, RangeOf(logs))
    <3> SUFFICES ASSUME unknown = {} PROVE Covered(n, m, to, RangeOf(logs))
      OBVIOUS
    <3>1. CASE to = s.to
      <4> DEFINE file == log[m][s.to.fi + 1]
      <4>1. ASSUME NEW q \in 1 .. s.to.off
            PROVE  Src[file[q]] = n \/ file[q] \in data[n] \cup RangeOf(logs)
        <5>1. Src[file[q]] = n \/ file[q] \in data[n] \cup RangeOf(s.logs)
          BY <1>6 DEF Covered
        <5>2. CASE file[q] \in RangeOf(s.logs) /\ Src[file[q]] # n /\ file[q] \notin data[n]
          <6>1. PICK i \in 1 .. Len(s.logs) : file[q] = s.logs[i]
            BY <5>2 DEF RangeOf
          <6>2. i \in wanted
            BY <5>2, <6>1
          <6> QED
            BY <2>2, <6>1, <6>2 DEF logs
        <5> QED
          BY <5>1, <5>2
      <4> QED
        BY <1>6, <3>1, <4>1 DEF Covered
    <3>2. CASE to.off = 0
      <4>1. Len(log[m][to.fi + 1]) \in Nat
        <5>1. to.fi + 1 \in 1 .. Len(log[m])
          BY <1>1, <2>3, Typing DEF Position
        <5> QED
          BY <1>1, <5>1, Typing
      <4> QED
        BY <2>3, <3>2, <4>1 DEF Covered
    <3> QED
      BY <2>3, <3>1, <3>2
  <2>5. wanted = {} => RangeOf(logs) = {}
    <3>1. ASSUME wanted = {} PROVE Len(logs) = 0
      <4>1. Cardinality(wanted) = 0
        BY <3>1, FS_EmptySet
      <4> HIDE DEF wanted
      <4> QED
        BY <4>1 DEF logs
    <3> QED
      BY <3>1 DEF RangeOf
  <2>6. PICK x \in WatcherState :
          /\ Set(n, m, x) /\ x.pc \in {"advance", "write"} /\ x.to = to
          /\ x.failed \/ Covered(n, m, x.to, RangeOf(x.logs))
          /\ x.pc = "advance" => RangeOf(x.logs) = {}
    <3>1. PICK b \in BOOLEAN : b = (unknown # {})
      OBVIOUS
    <3> DEFINE pc == IF wanted = {} THEN "advance" ELSE "write"
    <3>2. pc \in {"advance", "write"} /\ (pc = "advance" => wanted = {})
      OBVIOUS
    <3> DEFINE x == [s EXCEPT !.pc = pc, !.to = to, !.logs = logs, !.failed = b]
    <3>3. Set(n, m, x)
      BY <2>1, <3>1 DEF logs
    <3> HIDE DEF wanted, pc
    <3>4. x \in WatcherState /\ x.pc = pc /\ x.to = to /\ x.logs = logs /\ x.failed = b
      BY <1>4, <2>2, <2>3, <3>2 DEF WatcherState
    <3> HIDE DEF x
    <3> QED
      BY <2>4, <2>5, <3>1, <3>2, <3>3, <3>4 DEF x
  <2>7. /\ x.to \in Position /\ (x.to.fi = p.fi \/ x.to.off = 0)
    BY <2>3, <2>6
  <2>8. Sound(n, m, x, p)'
    <3>1. x.failed \/ Covered(n, m, x.to, RangeOf(x.logs))'
      BY <1>1, <1>2, <2>6, <2>7, CoveredStays DEF RangeOf
    <3>2. x.pc = "advance" => x.failed \/ Covered(n, m, x.to, {})'
      BY <1>1, <1>2, <2>6, <2>7, CoveredStays
    <3> QED
      BY <2>6, <2>7, <3>1, <3>2 DEF Sound, RangeOf
  <2>9. Covered(n, m, p, {})'
    BY <1>1, <1>2, <1>3, CoveredStays DEF PairInv
  <2>10. /\ w' \in [Node -> [Node -> WatcherState]]
         /\ \A a, b \in Node : PairInv(a, b)'
         /\ LoggedFirst'
    BY <1>2, <1>3, <1>7, <1>9, <2>6, <2>8, <2>9, OneMoves
  <2>11. DatasetInLog'
    BY <1>2, <1>7, <1>9, DataStays
  <2>12. TypeOK'
    BY <1>1, <1>7, <1>9, <2>10 DEF TypeOK
  <2> QED
    BY <2>10, <2>11, <2>12 DEF IInv
<1> QED
  BY <1>10, <1>11

\* A watcher that only moves its pc keeps what it holds.
LEMMA PcMoves ==
    ASSUME NEW s \in WatcherState,
           NEW pc \in {"idle", "again", "served", "write", "add", "advance", "index"}
    PROVE  \E x \in WatcherState :
              /\ x = [s EXCEPT !.pc = pc]
              /\ x.pc = pc /\ x.to = s.to /\ x.logs = s.logs
              /\ x.empty = s.empty /\ x.failed = s.failed
<1> DEFINE x == [s EXCEPT !.pc = pc]
<1>1. /\ x \in WatcherState
      /\ x.pc = pc /\ x.to = s.to /\ x.logs = s.logs
      /\ x.empty = s.empty /\ x.failed = s.failed
  BY DEF WatcherState
<1> HIDE DEF x
<1> QED
  BY <1>1 DEF x

\* A sequence is its first k elements and the rest.
LEMMA Halves ==
    ASSUME NEW logs \in Seq(Record), NEW k \in 0 .. Len(logs)
    PROVE  RangeOf(logs) \subseteq
              RangeOf(SubSeq(logs, 1, k)) \cup RangeOf(SubSeq(logs, k + 1, Len(logs)))
<1> DEFINE a == SubSeq(logs, 1, k)
           b == SubSeq(logs, k + 1, Len(logs))
<1>1. Len(logs) \in Nat /\ k \in Nat /\ k <= Len(logs)
  OBVIOUS
<1>2. /\ Len(a) = k /\ \A i \in 1 .. k : a[i] = logs[i]
  BY <1>1, SMTT(30)
<1>3. /\ Len(b) = Len(logs) - k
      /\ \A i \in 1 .. Len(logs) - k : b[i] = logs[k + i]
  BY <1>1, SMTT(30)
<1> HIDE DEF a, b
<1>4. ASSUME NEW i \in 1 .. Len(logs) PROVE logs[i] \in RangeOf(a) \cup RangeOf(b)
  <2>1. CASE i <= k
    BY <1>1, <1>2, <2>1 DEF RangeOf
  <2>2. CASE ~(i <= k)
    <3>1. i - k \in 1 .. Len(logs) - k /\ k + (i - k) = i
      BY <1>1, <2>2
    <3>2. b[i - k] = logs[i] /\ i - k \in 1 .. Len(b)
      BY <1>3, <3>1
    <3> QED
      BY <3>2 DEF RangeOf
  <2> QED
    BY <2>1, <2>2
<1> QED
  BY <1>4 DEF RangeOf, a, b

\* What a Write of a watcher does, all of it, a part, or nothing.
LEMMA WriteBinlogGrows ==
    ASSUME TypeOK, NEW n \in Node, NEW m \in Node, NEW s \in WatcherState,
           s = w[n][m], WriteBinlog(n, m)
    PROVE  /\ Grown
           /\ late' \subseteq (Node \X Node \X Nat \X Nat)
           /\ missed' \in [Node -> SUBSET Record]
           /\ cur' \in [Node -> Nat] /\ \A y \in Node : cur'[y] < Len(log'[y])
           /\ faults' \in Nat
           /\ RangeOf(s.logs) \subseteq (Logged(n) \cup missed[n])'
<1>0. s.logs \in Seq(Record) /\ Len(s.logs) \in Nat
  BY DEF WatcherState
<1>9. data' = data
  BY DEF WriteBinlog
<1> DEFINE Rest(k) == RangeOf(SubSeq(s.logs, k + 1, Len(s.logs)))
<1>1. faults \in Nat /\ missed \in [Node -> SUBSET Record]
  BY DEF TypeOK
<1>2. ASSUME NEW k \in 0 .. Len(s.logs),
             missed' = [missed EXCEPT ![n] = @ \cup Rest(k)]
      PROVE  /\ missed' \in [Node -> SUBSET Record]
             /\ \A y \in Node : missed[y] \subseteq missed'[y]
             /\ Rest(k) \subseteq missed'[n]
  <2>1. SubSeq(s.logs, k + 1, Len(s.logs)) \in Seq(Record)
    BY <1>0
  <2>2. Rest(k) \subseteq Record
    BY <2>1 DEF RangeOf
  <2> HIDE DEF Rest
  <2> QED
    BY <1>1, <1>2, <2>2
<1>3. CASE WriteLog(n, s.logs) /\ UNCHANGED <<missed, faults>>
  <2>1. \A y \in Node : data[y] \subseteq data'[y] /\ missed[y] \subseteq missed'[y]
    BY <1>9, <1>3
  <2>2. /\ Grown
        /\ late' \subseteq (Node \X Node \X Nat \X Nat)
        /\ cur' \in [Node -> Nat] /\ \A y \in Node : cur'[y] < Len(log'[y])
        /\ RangeOf(s.logs) \subseteq Logged(n)'
    BY <1>0, <1>3, <2>1, WriteLogGrows
  <2> QED
    BY <1>1, <1>3, <2>2
<1>4. CASE /\ Fault
           /\ missed' = [missed EXCEPT ![n] = @ \cup Rest(0)]
           /\ UNCHANGED <<log, cur, late>>
  <2>1. /\ missed' \in [Node -> SUBSET Record]
        /\ \A y \in Node : missed[y] \subseteq missed'[y]
        /\ Rest(0) \subseteq missed'[n]
    <3>1. 0 \in 0 .. Len(s.logs)
      BY <1>0
    <3> HIDE DEF Rest
    <3> QED
      BY <1>2, <1>4, <3>1
  <2>2. RangeOf(s.logs) \subseteq missed'[n]
    <3>1. SubSeq(s.logs, 0 + 1, Len(s.logs)) = s.logs
      BY <1>0
    <3> QED
      BY <2>1, <3>1
  <2>3. Grown
    BY <1>9, <1>4, <2>1, SameGrows
  <2>4. cur' \in [Node -> Nat] /\ \A y \in Node : cur'[y] < Len(log'[y])
    BY <1>4, CurTyping
  <2>5. faults' \in Nat /\ late' \subseteq (Node \X Node \X Nat \X Nat)
    BY <1>1, <1>4 DEF Fault, TypeOK
  <2> QED
    BY <2>1, <2>2, <2>3, <2>4, <2>5
<1>5. ASSUME NEW k \in 1 .. Len(s.logs) - 1, Fault,
             missed' = [missed EXCEPT ![n] = @ \cup Rest(k)],
             WriteLog(n, SubSeq(s.logs, 1, k))
      PROVE  /\ Grown
             /\ late' \subseteq (Node \X Node \X Nat \X Nat)
             /\ missed' \in [Node -> SUBSET Record]
             /\ cur' \in [Node -> Nat] /\ \A y \in Node : cur'[y] < Len(log'[y])
             /\ faults' \in Nat
             /\ RangeOf(s.logs) \subseteq (Logged(n) \cup missed[n])'
  <2>0. k \in 0 .. Len(s.logs) /\ k \in Nat /\ k < Len(s.logs)
    BY <1>0
  <2>1. /\ missed' \in [Node -> SUBSET Record]
        /\ \A y \in Node : missed[y] \subseteq missed'[y]
        /\ Rest(k) \subseteq missed'[n]
    BY <1>2, <1>5, <2>0
  <2>2. /\ SubSeq(s.logs, 1, k) \in Seq(Record)
        /\ \A y \in Node : data[y] \subseteq data'[y]
    BY <1>0, <1>9
  <2>3. /\ Grown
        /\ late' \subseteq (Node \X Node \X Nat \X Nat)
        /\ cur' \in [Node -> Nat] /\ \A y \in Node : cur'[y] < Len(log'[y])
        /\ RangeOf(SubSeq(s.logs, 1, k)) \subseteq Logged(n)'
    BY <1>5, <2>1, <2>2, WriteLogGrows
  <2>4. RangeOf(s.logs) \subseteq RangeOf(SubSeq(s.logs, 1, k)) \cup Rest(k)
    BY <1>0, <2>0, Halves
  <2>5. faults' \in Nat
    BY <1>1, <1>5 DEF Fault
  <2> HIDE DEF Rest
  <2> QED
    BY <2>1, <2>3, <2>4, <2>5
<1> QED
  BY <1>0, <1>3, <1>4, <1>5 DEF WriteBinlog

LEMMA WriteBinlogStep ==
    ASSUME IInv, NEW n \in Node, NEW m \in Node, WriteBinlog(n, m)
    PROVE  IInv'
<1>1. TypeOK /\ PairInv(n, m)
  BY DEF IInv
<1>2. PICK p \in Position : p = state[n][m]
  BY <1>1, Typing
<1>3. PICK s \in WatcherState : s = w[n][m]
  BY <1>1, Typing
<1>4. /\ s.to \in Position /\ s.logs \in Seq(Record) /\ Len(s.logs) \in Nat
      /\ s.pc = "write"
  <2>1. s.pc = "write"
    BY <1>3 DEF WriteBinlog
  <2> QED
    BY <2>1 DEF WatcherState
<1>5. PICK x \in WatcherState :
        /\ x = [s EXCEPT !.pc = "add"]
        /\ x.pc = "add" /\ x.to = s.to /\ x.logs = s.logs /\ x.failed = s.failed
  BY PcMoves
<1>6. Set(n, m, x)
  BY <1>3, <1>5 DEF WriteBinlog
<1>7. UNCHANGED <<data, adding, state, saved, dirty, restarts>>
  BY DEF WriteBinlog
<1>8. /\ Grown
      /\ late' \subseteq (Node \X Node \X Nat \X Nat)
      /\ missed' \in [Node -> SUBSET Record]
      /\ cur' \in [Node -> Nat] /\ \A y \in Node : cur'[y] < Len(log'[y])
      /\ faults' \in Nat
      /\ RangeOf(s.logs) \subseteq (Logged(n) \cup missed[n])'
  BY <1>1, <1>3, WriteBinlogGrows
<1>9. Sound(n, m, x, p)'
  <2>1. /\ s.failed \/ Covered(n, m, s.to, RangeOf(s.logs))
        /\ s.to.fi = p.fi \/ s.to.off = 0
    BY <1>1, <1>2, <1>3, <1>4 DEF PairInv, WatcherInv, Sound
  <2>2. x.failed \/ Covered(n, m, x.to, RangeOf(x.logs))'
    BY <1>1, <1>4, <1>5, <1>8, <2>1, CoveredStays DEF RangeOf
  <2> QED
    BY <1>5, <2>1, <2>2 DEF Sound, RangeOf
<1>10. Covered(n, m, p, {})'
  BY <1>1, <1>2, <1>8, CoveredStays DEF PairInv
<1>11. /\ w' \in [Node -> [Node -> WatcherState]]
       /\ \A a, b \in Node : PairInv(a, b)'
       /\ LoggedFirst'
  <2>1. RangeOf(x.logs) \subseteq (Logged(n) \cup missed[n])'
    BY <1>5, <1>8 DEF RangeOf
  <2> QED
    BY <1>2, <1>6, <1>7, <1>8, <1>9, <1>10, <2>1, OneMoves
<1>12. DatasetInLog'
  BY <1>7, <1>8, DataStays
<1>13. TypeOK'
  BY <1>1, <1>7, <1>8, <1>11 DEF TypeOK, Grown
<1> QED
  BY <1>11, <1>12, <1>13 DEF IInv

\* Records that are added were written before, unless a call failed.
LEMMA AddDatasetStep ==
    ASSUME IInv, NEW n \in Node, NEW m \in Node, NEW lost, AddDataset(n, m, lost)
    PROVE  IInv'
<1>1. TypeOK /\ PairInv(n, m) /\ LoggedFirst /\ DatasetInLog
  BY DEF IInv
<1>2. PICK p \in Position : p = state[n][m]
  BY <1>1, Typing
<1>3. PICK s \in WatcherState : s = w[n][m]
  BY <1>1, Typing
<1>4. /\ s.to \in Position /\ s.logs \in Seq(Record) /\ s.failed \in BOOLEAN
      /\ s.pc = "add"
  <2>1. s.pc = "add"
    BY <1>3 DEF AddDataset
  <2> QED
    BY <2>1 DEF WatcherState
<1>5. UNCHANGED <<log, cur, adding, state, saved, dirty, late, missed, restarts>>
  BY DEF AddDataset
<1>6. faults' \in Nat
  BY <1>1 DEF TypeOK, AddDataset, Fault
<1>7. /\ data' \in [Node -> SUBSET Record]
      /\ data'[n] = data[n] \cup (RangeOf(s.logs) \ lost)
      /\ \A y \in Node : y # n => data'[y] = data[y]
  <2>1. RangeOf(s.logs) \subseteq Record
    BY <1>4 DEF RangeOf
  <2>2. data' = [data EXCEPT ![n] = @ \cup (RangeOf(s.logs) \ lost)]
    BY <1>3 DEF AddDataset
  <2> QED
    BY <1>1, <2>1, <2>2 DEF TypeOK
<1>8. Grown
  BY <1>1, <1>5, <1>7, SameGrows
<1>9. PICK x \in WatcherState :
        /\ Set(n, m, x) /\ x.pc = "advance" /\ x.to = s.to
        /\ x.failed \/ (~s.failed /\ lost = {})
  <2>1. PICK b \in BOOLEAN : b = (s.failed \/ lost # {})
    OBVIOUS
  <2> DEFINE x == [s EXCEPT !.pc = "advance", !.failed = b]
  <2>2. Set(n, m, x)
    BY <1>3, <2>1 DEF AddDataset
  <2>3. x \in WatcherState /\ x.pc = "advance" /\ x.to = s.to /\ x.failed = b
    BY DEF WatcherState
  <2> HIDE DEF x
  <2> QED
    BY <2>1, <2>2, <2>3
<1>10. Sound(n, m, x, p)'
  <2>1. /\ s.failed \/ Covered(n, m, s.to, RangeOf(s.logs))
        /\ s.to.fi = p.fi \/ s.to.off = 0
    BY <1>1, <1>2, <1>3, <1>4 DEF PairInv, WatcherInv, Sound
  <2>2. CASE x.failed
    BY <1>9, <2>1, <2>2 DEF Sound
  <2>3. CASE ~x.failed
    <3>1. Covered(n, m, s.to, RangeOf(s.logs)) /\ lost = {}
      BY <1>9, <2>1, <2>3
    <3>2. Covered(n, m, s.to, RangeOf(s.logs))'
      BY <1>1, <1>4, <1>8, <3>1, CoveredStays DEF RangeOf
    <3>3. data'[n] \cup RangeOf(s.logs) = data'[n] \cup {}
      BY <1>7, <3>1
    <3>4. Covered(n, m, x.to, {})'
      BY <1>9, <3>2, <3>3 DEF Covered, RangeOf
    <3> QED
      BY <1>9, <2>1, <3>4 DEF Sound
  <2> QED
    BY <2>2, <2>3
<1>11. Covered(n, m, p, {})'
  BY <1>1, <1>2, <1>8, CoveredStays DEF PairInv
<1>12. /\ w' \in [Node -> [Node -> WatcherState]]
       /\ \A a, b \in Node : PairInv(a, b)'
       /\ LoggedFirst'
  BY <1>2, <1>5, <1>6, <1>8, <1>9, <1>10, <1>11, OneMoves
<1>13. DatasetInLog'
  <2> SUFFICES ASSUME NEW y \in Node PROVE data'[y] \subseteq (Logged(y) \cup missed[y])'
    BY DEF DatasetInLog
  <2>1. data[y] \subseteq Logged(y) \cup missed[y] /\ Logged(y) \subseteq Logged(y)'
    BY <1>1, <1>8, LoggedGrows DEF DatasetInLog
  <2>2. RangeOf(s.logs) \subseteq Logged(n) \cup missed[n]
    BY <1>1, <1>3, <1>4 DEF LoggedFirst
  <2> QED
    BY <1>5, <1>7, <2>1, <2>2
<1>14. TypeOK'
  BY <1>1, <1>5, <1>6, <1>7, <1>12 DEF TypeOK
<1> QED
  BY <1>12, <1>13, <1>14 DEF IInv

\* The new offset with the old index: that of the same file, or zero.
LEMMA AdvanceOffsetStep ==
    ASSUME IInv, NEW n \in Node, NEW m \in Node, AdvanceOffset(n, m)
    PROVE  IInv'
<1>1. TypeOK /\ PairInv(n, m)
  BY DEF IInv
<1>2. PICK p \in Position : p = state[n][m]
  BY <1>1, Typing
<1>3. PICK s \in WatcherState : s = w[n][m]
  BY <1>1, Typing
<1>4. /\ s.to \in Position /\ s.to.fi \in Nat /\ s.to.off \in Nat
      /\ p.fi \in Nat /\ p.off \in Nat
  BY DEF WatcherState, Position
<1>5. UNCHANGED <<log, cur, data, adding, saved, dirty, late, missed, restarts, faults>> /\ s.pc = "advance"
  BY <1>3 DEF AdvanceOffset
<1>6. faults \in Nat /\ Grown
  BY <1>1, <1>5, SameGrows DEF TypeOK
<1>7. CASE s.failed
  <2>1. Set(n, m, Idle) /\ UNCHANGED state
    BY <1>3, <1>7 DEF AdvanceOffset
  <2> QED
    BY <1>5, <1>6, <2>1, Ends
<1>8. CASE ~s.failed
  <2>1. PICK x \in WatcherState : x = [s EXCEPT !.pc = "index"] /\ x.pc = "index" /\ x.to = s.to
    BY PcMoves
  <2>2. Set(n, m, x)
    BY <1>3, <1>8, <2>1 DEF AdvanceOffset
  <2>3. PICK t \in Position : t = [p EXCEPT !.off = s.to.off] /\ t.fi = p.fi /\ t.off = s.to.off
    <3> DEFINE u == [p EXCEPT !.off = s.to.off]
    <3>1. u \in Position /\ u.fi = p.fi /\ u.off = s.to.off
      BY <1>4 DEF Position
    <3> HIDE DEF u
    <3> QED
      BY <3>1 DEF u
  <2>4. /\ state' \in [Node -> [Node -> Position]] /\ state'[n][m] = t
        /\ \A a, b \in Node : a # n \/ b # m => state'[a][b] = state[a][b]
    <3>1. state \in [Node -> [Node -> Position]]
      BY <1>1 DEF TypeOK
    <3> DEFINE g == [state[n] EXCEPT ![m] = t]
    <3>2. /\ g \in [Node -> Position] /\ g[m] = t
          /\ \A b \in Node : b # m => g[b] = state[n][b]
      BY <3>1
    <3>3. state' = [state EXCEPT ![n][m].off = s.to.off]
      BY <1>3, <1>8 DEF AdvanceOffset
    <3>4. state' = [state EXCEPT ![n] = g]
      BY <1>2, <2>3, <3>1, <3>3
    <3> HIDE DEF g
    <3> QED
      BY <3>1, <3>2, <3>4
  <2>5. Covered(n, m, s.to, {}) /\ (s.to.fi = p.fi \/ s.to.off = 0) /\ Covered(n, m, p, {})
    <3>1. Covered(n, m, p, {})
      BY <1>1, <1>2 DEF PairInv, Covered
    <3> QED
      BY <1>1, <1>2, <1>3, <1>5, <1>8, <3>1 DEF PairInv, WatcherInv, Sound
  <2>6. Covered(n, m, t, {})
    <3>1. CASE s.to.fi = p.fi
      BY <2>3, <2>5, <3>1 DEF Covered
    <3>2. CASE s.to.off = 0
      <4>1. p.off <= Len(log[m][p.fi + 1]) /\ p.fi < Len(log[m])
        BY <2>5 DEF Covered
      <4>2. Len(log[m][p.fi + 1]) \in Nat
        BY <1>1, <1>4, <4>1, Typing
      <4> QED
        BY <1>4, <2>3, <3>2, <4>1, <4>2 DEF Covered
    <3> QED
      BY <2>5, <3>1, <3>2
  <2>7. Covered(n, m, t, {})' /\ Covered(n, m, x.to, {})'
    BY <1>1, <1>4, <1>6, <2>1, <2>5, <2>6, CoveredStays
  <2>8. Sound(n, m, x, t)'
    BY <2>1, <2>3, <2>7 DEF Sound
  <2>9. /\ w' \in [Node -> [Node -> WatcherState]]
        /\ \A a, b \in Node : PairInv(a, b)'
        /\ LoggedFirst'
    BY <1>5, <1>6, <2>1, <2>2, <2>4, <2>7, <2>8, OneMoves
  <2>10. DatasetInLog'
    BY <1>5, <1>6, DataStays
  <2>11. TypeOK'
    BY <1>1, <1>5, <2>4, <2>9 DEF TypeOK
  <2> QED
    BY <2>9, <2>10, <2>11 DEF IInv
<1> QED
  BY <1>7, <1>8

LEMMA AdvanceIndexStep ==
    ASSUME IInv, NEW n \in Node, NEW m \in Node, AdvanceIndex(n, m)
    PROVE  IInv'
<1>1. TypeOK /\ PairInv(n, m)
  BY DEF IInv
<1>2. PICK p \in Position : p = state[n][m]
  BY <1>1, Typing
<1>3. PICK s \in WatcherState : s = w[n][m]
  BY <1>1, Typing
<1>4. /\ s.to \in Position /\ s.to.fi \in Nat /\ s.to.off \in Nat
      /\ p.fi \in Nat /\ p.off \in Nat
  BY DEF WatcherState, Position
<1>5. UNCHANGED <<log, cur, data, adding, saved, late, missed, restarts, faults>> /\ s.pc = "index"
  BY <1>3 DEF AdvanceIndex
<1>6. faults \in Nat /\ Grown
  BY <1>1, <1>5, SameGrows DEF TypeOK
<1>7. PICK x \in WatcherState : Set(n, m, x) /\ x.pc \in {"idle", "again"}
  <2>1. Set(n, m, IF s.empty THEN Idle ELSE [Idle EXCEPT !.pc = "again"])
    BY <1>3 DEF AdvanceIndex
  <2>2. \E x \in WatcherState : x = [Idle EXCEPT !.pc = "again"] /\ x.pc = "again"
    BY IdleOK, PcMoves
  <2>3. Idle.pc = "idle"
    BY DEF Idle
  <2> QED
    BY <2>1, <2>2, <2>3, IdleOK
<1>8. Covered(n, m, s.to, {}) /\ p.off = s.to.off
  BY <1>1, <1>2, <1>3, <1>5 DEF PairInv, WatcherInv, Sound
<1>9. PICK t \in Position : t = [p EXCEPT !.fi = s.to.fi] /\ t.fi = s.to.fi /\ t.off = s.to.off
  <2> DEFINE u == [p EXCEPT !.fi = s.to.fi]
  <2>1. u \in Position /\ u.fi = s.to.fi /\ u.off = p.off
    BY <1>4 DEF Position
  <2> HIDE DEF u
  <2> QED
    BY <1>8, <2>1 DEF u
<1>10. /\ state' \in [Node -> [Node -> Position]] /\ state'[n][m] = t
       /\ \A a, b \in Node : a # n \/ b # m => state'[a][b] = state[a][b]
  <2>1. state \in [Node -> [Node -> Position]]
    BY <1>1 DEF TypeOK
  <2> DEFINE g == [state[n] EXCEPT ![m] = t]
  <2>2. /\ g \in [Node -> Position] /\ g[m] = t
        /\ \A b \in Node : b # m => g[b] = state[n][b]
    BY <2>1
  <2>3. state' = [state EXCEPT ![n][m].fi = s.to.fi]
    BY <1>3 DEF AdvanceIndex
  <2>4. state' = [state EXCEPT ![n] = g]
    BY <1>2, <1>9, <2>1, <2>3
  <2> HIDE DEF g
  <2> QED
    BY <2>1, <2>2, <2>4
<1>11. Covered(n, m, t, {})'
  <2>1. Covered(n, m, t, {})
    BY <1>8, <1>9 DEF Covered
  <2> QED
    BY <1>1, <1>6, <2>1, CoveredStays
<1>12. Sound(n, m, x, t)'
  BY <1>7 DEF Sound
<1>13. /\ w' \in [Node -> [Node -> WatcherState]]
       /\ \A a, b \in Node : PairInv(a, b)'
       /\ LoggedFirst'
  BY <1>5, <1>6, <1>7, <1>10, <1>11, <1>12, OneMoves
<1>14. DatasetInLog'
  BY <1>5, <1>6, DataStays
<1>15. TypeOK'
  BY <1>1, <1>5, <1>10, <1>13 DEF TypeOK, AdvanceIndex
<1> QED
  BY <1>13, <1>14, <1>15 DEF IInv

LEMMA SaveStateStep ==
    ASSUME IInv, NEW n \in Node, SaveState(n)
    PROVE  IInv'
<1>1. TypeOK /\ LoggedFirst
  BY DEF IInv
<1>2. UNCHANGED <<log, cur, data, adding, state, w, late, missed, restarts>>
  BY DEF SaveState
<1>3. Grown /\ faults' \in Nat
  <2>1. Grown
    BY <1>1, <1>2, SameGrows DEF TypeOK
  <2>2. faults \in Nat /\ (faults' = faults \/ faults' = faults + 1)
    BY <1>1 DEF TypeOK, SaveState, Fault
  <2> QED
    BY <2>1, <2>2
<1>4. /\ saved' \in [Node -> [Node -> Position]]
      /\ \A x, y \in Node : saved'[x][y] \in {state[x][y], saved[x][y]}
  <2>1. state \in [Node -> [Node -> Position]] /\ saved \in [Node -> [Node -> Position]]
    BY <1>1 DEF TypeOK
  <2>2. CASE saved' = [saved EXCEPT ![n] = state[n]]
    BY <2>1, <2>2
  <2>3. CASE UNCHANGED saved
    BY <2>1, <2>3
  <2> QED
    BY <2>2, <2>3 DEF SaveState
<1>5. ASSUME NEW x \in Node, NEW y \in Node PROVE PairInv(x, y)'
  BY <1>2, <1>3, <1>4, PairStays
<1>6. LoggedFirst'
  BY <1>1, <1>2, <1>3, LoggedFirstStays
<1>7. DatasetInLog'
  BY <1>2, <1>3, DataStays
<1>8. TypeOK'
  BY <1>1, <1>2, <1>3, <1>4 DEF TypeOK, SaveState
<1> QED
  BY <1>5, <1>6, <1>7, <1>8 DEF IInv

\* A restart loses the watchers, the uploads under way and what the saver had
\* not saved; the positions it goes back to are sound, too.
LEMMA RestartStep ==
    ASSUME IInv, NEW n \in Node, Restart(n)
    PROVE  IInv'
<1>1. TypeOK /\ LoggedFirst
  BY DEF IInv
<1>2. UNCHANGED <<log, data, saved, late, missed, faults>>
  BY DEF Restart
<1>3. Grown
  BY <1>1, <1>2, SameGrows
<1>4. /\ state' \in [Node -> [Node -> Position]]
      /\ \A y \in Node : state'[n][y] = saved[n][y]
      /\ \A x, y \in Node : x # n => state'[x][y] = state[x][y]
  BY <1>1 DEF TypeOK, Restart
<1>5. /\ w' \in [Node -> [Node -> WatcherState]]
      /\ \A y \in Node : w'[n][y] = Idle
      /\ \A x, y \in Node : w'[x][y] \in {Idle, w[x][y]}
  <2>1. w \in [Node -> [Node -> WatcherState]]
    BY <1>1 DEF TypeOK
  <2> QED
    BY <2>1, IdleOK DEF Restart
<1>6. ASSUME NEW x \in Node, NEW y \in Node PROVE PairInv(x, y)'
  <2>1. CASE w'[x][y] = Idle
    <3>1. state'[x][y] \in {state[x][y], saved[x][y]} /\ saved'[x][y] = saved[x][y]
      BY <1>2, <1>4
    <3> QED
      BY <1>3, <2>1, <3>1, PairRests
  <2>2. CASE w'[x][y] # Idle
    BY <1>2, <1>3, <1>4, <1>5, <2>2, PairStays
  <2> QED
    BY <2>1, <2>2
<1>7. LoggedFirst'
  <2>1. adding' \subseteq adding
    BY DEF Restart
  <2>2. \A x \in Node : Logged(x)' = Logged(x)
    BY <1>2 DEF Logged, RangeOf
  <2>3. ASSUME NEW r \in adding' PROVE r \in Logged(Src[r])'
    <3>1. Src[r] \in Node
      BY <1>1, <2>1, SyncAssumption DEF TypeOK
    <3> QED
      BY <1>1, <2>1, <2>2, <3>1 DEF LoggedFirst
  <2>4. ASSUME NEW x \in Node, NEW y \in Node, w'[x][y].pc = "add"
        PROVE  RangeOf(w'[x][y].logs) \subseteq (Logged(x) \cup missed[x])'
    <3>1. w'[x][y] = w[x][y]
      BY <1>5, <2>4 DEF Idle
    <3> QED
      BY <1>1, <1>2, <2>2, <2>4, <3>1 DEF LoggedFirst
  <2> QED
    BY <2>3, <2>4 DEF LoggedFirst, RangeOf
<1>8. DatasetInLog'
  BY <1>2, <1>3, DataStays
<1>9. TypeOK'
  <2>1. restarts' \in Nat /\ dirty' \in [Node -> BOOLEAN] /\ adding' \subseteq Record
    BY <1>1 DEF TypeOK, Restart
  <2>2. cur' \in [Node -> Nat] /\ \A x \in Node : cur'[x] < Len(log'[x])
    <3>1. cur' = [cur EXCEPT ![n] = 0] /\ cur \in [Node -> Nat]
      BY <1>1 DEF TypeOK, Restart
    <3>2. ASSUME NEW x \in Node PROVE cur'[x] < Len(log'[x])
      <4>1. cur'[x] \in {0, cur[x]} /\ log'[x] = log[x]
        BY <1>2, <3>1
      <4> QED
        BY <1>1, <4>1, Typing
    <3> QED
      BY <3>1, <3>2
  <2> QED
    BY <1>1, <1>2, <1>4, <1>5, <2>1, <2>2 DEF TypeOK
<1> QED
  BY <1>6, <1>7, <1>8, <1>9 DEF IInv

-----------------------------------------------------------------------------
LEMMA UploadWriteStep ==
    ASSUME IInv, NEW r \in Record, UploadWrite(r)
    PROVE  IInv'
<1>1. TypeOK /\ LoggedFirst
  BY DEF IInv
<1>2. UNCHANGED <<data, state, saved, dirty, w, missed, restarts, faults>>
  BY DEF UploadWrite
<1>3. Src[r] \in Node /\ <<r>> \in Seq(Record) /\ RangeOf(<<r>>) = {r}
  BY SyncAssumption DEF RangeOf
<1>4. /\ Grown
      /\ late' \subseteq (Node \X Node \X Nat \X Nat)
      /\ cur' \in [Node -> Nat] /\ \A x \in Node : cur'[x] < Len(log'[x])
      /\ RangeOf(<<r>>) \subseteq Logged(Src[r])'
  BY <1>1, <1>2, <1>3, WriteLogGrows DEF UploadWrite
<1>5. ASSUME NEW x \in Node, NEW y \in Node PROVE PairInv(x, y)'
  BY <1>2, <1>4, PairStays
<1>6. LoggedFirst'
  <2>1. ASSUME NEW z \in adding' PROVE z \in Logged(Src[z])'
    <3>1. CASE z = r
      BY <1>3, <1>4, <3>1
    <3>2. CASE z \in adding
      <4>1. z \in Logged(Src[z]) /\ Src[z] \in Node
        BY <1>1, <3>2, SyncAssumption DEF LoggedFirst, TypeOK
      <4> QED
        BY <1>1, <1>4, <4>1, LoggedGrows
    <3> QED
      BY <3>1, <3>2 DEF UploadWrite
  <2>2. ASSUME NEW x \in Node, NEW y \in Node, w'[x][y].pc = "add"
        PROVE  RangeOf(w'[x][y].logs) \subseteq (Logged(x) \cup missed[x])'
    <3>1. RangeOf(w[x][y].logs) \subseteq Logged(x) \cup missed[x] /\ w'[x][y] = w[x][y]
      BY <1>1, <1>2, <2>2 DEF LoggedFirst
    <3> QED
      BY <1>1, <1>4, <3>1, LoggedGrows DEF Grown
  <2> QED
    BY <2>1, <2>2 DEF LoggedFirst, RangeOf
<1>7. DatasetInLog'
  BY <1>2, <1>4, DataStays
<1>8. TypeOK'
  <2>1. adding' \subseteq Record
    BY <1>1 DEF TypeOK, UploadWrite
  <2> QED
    BY <1>1, <1>2, <1>4, <2>1 DEF TypeOK, Grown
<1> QED
  BY <1>5, <1>6, <1>7, <1>8 DEF IInv

LEMMA UploadAddStep ==
    ASSUME IInv, NEW r \in Record, UploadAdd(r)
    PROVE  IInv'
<1>1. TypeOK /\ LoggedFirst /\ DatasetInLog
  BY DEF IInv
<1>2. /\ UNCHANGED <<log, cur, state, saved, dirty, w, late, missed, restarts>>
      /\ adding' \subseteq adding
      /\ r \in adding
  BY DEF UploadAdd
<1>3. faults' \in Nat
  BY <1>1 DEF TypeOK, UploadAdd, Fault
<1>4. /\ data' \in [Node -> SUBSET Record]
      /\ \A x \in Node : data[x] \subseteq data'[x]
      /\ \A x \in Node : data'[x] \subseteq data[x] \cup (IF x = Src[r] THEN {r} ELSE {})
  <2>1. data \in [Node -> SUBSET Record] /\ Src[r] \in Node
    BY <1>1, SyncAssumption DEF TypeOK
  <2>2. CASE data' = [data EXCEPT ![Src[r]] = @ \cup {r}]
    BY <2>1, <2>2
  <2>3. CASE UNCHANGED data
    BY <2>1, <2>3
  <2> QED
    BY <2>2, <2>3 DEF UploadAdd
<1>5. Grown
  BY <1>1, <1>2, <1>4, SameGrows
<1>6. ASSUME NEW x \in Node, NEW y \in Node PROVE PairInv(x, y)'
  BY <1>2, <1>5, PairStays
<1>7. \A x \in Node : Logged(x)' = Logged(x)
  BY <1>2 DEF Logged, RangeOf
<1>8. LoggedFirst'
  <2>1. ASSUME NEW z \in adding' PROVE z \in Logged(Src[z])'
    <3>1. z \in Logged(Src[z]) /\ Src[z] \in Node
      BY <1>1, <1>2, SyncAssumption DEF LoggedFirst, TypeOK
    <3> QED
      BY <1>7, <3>1
  <2>2. ASSUME NEW x \in Node, NEW y \in Node, w'[x][y].pc = "add"
        PROVE  RangeOf(w'[x][y].logs) \subseteq (Logged(x) \cup missed[x])'
    BY <1>1, <1>2, <1>3, <1>7, <2>2 DEF LoggedFirst
  <2> QED
    BY <2>1, <2>2 DEF LoggedFirst, RangeOf
<1>9. DatasetInLog'
  <2> SUFFICES ASSUME NEW x \in Node PROVE data'[x] \subseteq (Logged(x) \cup missed[x])'
    BY DEF DatasetInLog
  <2>1. data[x] \subseteq Logged(x) \cup missed[x] /\ r \in Logged(Src[r])
    BY <1>1, <1>2 DEF DatasetInLog, LoggedFirst
  <2> QED
    BY <1>2, <1>4, <1>7, <2>1
<1>10. TypeOK'
  BY <1>1, <1>2, <1>3, <1>4 DEF TypeOK
<1> QED
  BY <1>6, <1>8, <1>9, <1>10 DEF IInv

-----------------------------------------------------------------------------
LEMMA InitIInv == Init => IInv
<1> SUFFICES ASSUME Init PROVE IInv
  OBVIOUS
<1>1. <<>> \in Seq(Record) /\ << <<>> >> \in Seq(Seq(Record)) /\ Start \in Position
  <2>1. <<>> \in Seq(Record)
    OBVIOUS
  <2> QED
    BY <2>1 DEF Start, Position
<1>2. /\ \A n \in Node : log[n] = << <<>> >> /\ Len(log[n]) = 1 /\ cur[n] = 0 /\ data[n] = {}
      /\ \A n, m \in Node : state[n][m] = Start /\ saved[n][m] = Start /\ w[n][m] = Idle
  BY DEF Init
<1>3. TypeOK
  BY <1>1, <1>2, IdleOK DEF Init, TypeOK
<1>4. ASSUME NEW n \in Node, NEW m \in Node PROVE PairInv(n, m)
  <2>1. Start.fi = 0 /\ Start.off = 0 /\ Idle.pc = "idle"
    BY DEF Start, Idle
  <2>2. Len(log[m]) = 1 /\ Len(log[m][1]) = 0
    BY <1>2
  <2>3. Covered(n, m, Start, {})
    BY <2>1, <2>2 DEF Covered
  <2>4. WatcherInv(n, m)
    BY <1>2, <2>1 DEF WatcherInv, Sound
  <2> QED
    BY <1>2, <2>3, <2>4 DEF PairInv
<1>5. LoggedFirst /\ DatasetInLog
  BY <1>2 DEF Init, LoggedFirst, DatasetInLog, Idle
<1> QED
  BY <1>3, <1>4, <1>5 DEF IInv

LEMMA StepIInv == IInv /\ [Next]_vars => IInv'
<1> SUFFICES ASSUME IInv, [Next]_vars PROVE IInv'
  OBVIOUS
<1>1. CASE \E r \in Record : UploadWrite(r) \/ UploadAdd(r)
  BY <1>1, UploadWriteStep, UploadAddStep
<1>2. CASE \E e \in Watches : WatcherStep(e[1], e[2])
  <2>1. PICK e \in Watches : WatcherStep(e[1], e[2])
    BY <1>2
  <2>2. e[1] \in Node /\ e[2] \in Node
    BY SyncAssumption
  <2> QED
    BY <2>1, <2>2, FetchStep, AnsweredStep, FetchFailsStep, WriteBinlogStep,
       AddDatasetStep, AdvanceOffsetStep, AdvanceIndexStep DEF WatcherStep
<1>3. CASE \E n \in Node : SaveState(n) \/ Restart(n)
  BY <1>3, SaveStateStep, RestartStep
<1>4. CASE UNCHANGED vars
  <2>1. UNCHANGED vars /\ TypeOK /\ LoggedFirst
    BY <1>4 DEF IInv
  <2>2. TypeOK' /\ Grown
    BY <2>1, SameGrows DEF TypeOK, vars
  <2>3. ASSUME NEW n \in Node, NEW m \in Node PROVE PairInv(n, m)'
    BY <2>1, <2>2, PairStays DEF vars
  <2>4. LoggedFirst' /\ DatasetInLog'
    BY <2>1, <2>2, LoggedFirstStays, DataStays DEF vars
  <2> QED
    BY <2>2, <2>3, <2>4 DEF IInv
<1> QED
  BY <1>1, <1>2, <1>3, <1>4 DEF Next

-----------------------------------------------------------------------------
(***************************************************************************)
(* What lies in the files behind a position.  A file is left when the      *)
(* other has all it wants from it, but for what came late.  Only the last  *)
(* file of a server changes, so a file that is left while another one      *)
(* follows it stays left; and when a watcher has been told that the newest *)
(* file has nothing more for it, the lines it has not seen are the late    *)
(* ones at the moment a new file makes the file one that it may leave.     *)
(***************************************************************************)
Left(n, m, i) ==
    \A q \in 1 .. Len(log[m][i]) : Has(n, m, i, q) \/ <<n, m, i, q>> \in late

Past(n, m, k) == \A i \in 1 .. k : Left(n, m, i)

WatcherLeft(n, m, s) ==
    /\ (s.pc = "served" /\ s.empty) =>
           /\ s.logs = <<>>
           /\ s.to.fi + 1 < Len(log[m]) => Left(n, m, s.to.fi + 1)
    /\ s.pc \in {"write", "add", "advance", "index"} =>
           s.to.fi < Len(log[m]) /\ Past(n, m, s.to.fi)

PairLeft(n, m) ==
    /\ Past(n, m, state[n][m].fi)
    /\ Past(n, m, saved[n][m].fi)
    /\ WatcherLeft(n, m, w[n][m])

LeftInv == \A n, m \in Node : PairLeft(n, m)

\* What any step does to the binlogs: one Write, or nothing.
LEMMA LogStep ==
    ASSUME IInv, [Next]_vars
    PROVE  /\ Grown
           /\ \/ log' = log /\ late' = late
              \/ \E x \in Node : \E recs \in Seq(Record) : WriteLog(x, recs)
<1>1. TypeOK
  BY DEF IInv
<1>2. ASSUME UNCHANGED <<log, data, late, missed>> PROVE Grown
  BY <1>1, <1>2, SameGrows
<1>3. CASE UNCHANGED <<log, data, late, missed>>
  BY <1>2, <1>3
<1>4. ASSUME NEW r \in Record, UploadWrite(r)
      PROVE  Grown /\ \E x \in Node : \E recs \in Seq(Record) : WriteLog(x, recs)
  <2>1. UNCHANGED <<data, missed>> /\ WriteLog(Src[r], <<r>>)
    BY <1>4 DEF UploadWrite
  <2>2. Src[r] \in Node /\ <<r>> \in Seq(Record)
    BY SyncAssumption
  <2> QED
    BY <1>1, <2>1, <2>2, WriteLogGrows
<1>5. ASSUME NEW r \in Record, UploadAdd(r) PROVE Grown /\ log' = log /\ late' = late
  <2>1. UNCHANGED <<log, late, missed>>
    BY <1>5 DEF UploadAdd
  <2>2. data \in [Node -> SUBSET Record]
    BY <1>1 DEF TypeOK
  <2>3. \A y \in Node : data[y] \subseteq data'[y]
    BY <1>5, <2>2 DEF UploadAdd
  <2> QED
    BY <1>1, <2>1, <2>3, SameGrows
<1>6. ASSUME NEW n \in Node, NEW m \in Node, NEW lost, AddDataset(n, m, lost)
      PROVE  Grown /\ log' = log /\ late' = late
  <2>1. UNCHANGED <<log, late, missed>>
    BY <1>6 DEF AddDataset
  <2>2. data \in [Node -> SUBSET Record]
    BY <1>1 DEF TypeOK
  <2>3. \A y \in Node : data[y] \subseteq data'[y]
    BY <1>6, <2>2 DEF AddDataset
  <2> QED
    BY <1>1, <2>1, <2>3, SameGrows
<1>7. ASSUME NEW n \in Node, NEW m \in Node, WriteBinlog(n, m)
      PROVE  /\ Grown
             /\ \/ log' = log /\ late' = late
                \/ \E x \in Node : \E recs \in Seq(Record) : WriteLog(x, recs)
  <2>1. PICK s \in WatcherState : s = w[n][m]
    BY <1>1, Typing
  <2>2. s.logs \in Seq(Record) /\ Len(s.logs) \in Nat
    BY DEF WatcherState
  <2>3. Grown
    BY <1>1, <1>7, <2>1, WriteBinlogGrows
  <2>4. \/ WriteLog(n, s.logs)
        \/ log' = log /\ late' = late
        \/ \E k \in 1 .. Len(s.logs) - 1 : WriteLog(n, SubSeq(s.logs, 1, k))
    BY <1>7, <2>1 DEF WriteBinlog
  <2>5. \A k \in 1 .. Len(s.logs) - 1 : SubSeq(s.logs, 1, k) \in Seq(Record)
    BY <2>2
  <2> QED
    BY <2>2, <2>3, <2>4, <2>5
<1>8. CASE \E e \in Watches : WatcherStep(e[1], e[2])
  <2>1. PICK e \in Watches : WatcherStep(e[1], e[2])
    BY <1>8
  <2>2. e[1] \in Node /\ e[2] \in Node
    BY SyncAssumption
  <2>3. \/ UNCHANGED <<log, data, late, missed>>
        \/ WriteBinlog(e[1], e[2])
        \/ \E lost : AddDataset(e[1], e[2], lost)
    BY <2>1 DEF WatcherStep, Fetch, Answered, FetchFails, AdvanceOffset, AdvanceIndex
  <2> QED
    BY <1>2, <1>6, <1>7, <2>2, <2>3
<1>9. CASE \E n \in Node : SaveState(n) \/ Restart(n)
  <2>1. UNCHANGED <<log, data, late, missed>>
    BY <1>9 DEF SaveState, Restart
  <2> QED
    BY <1>2, <2>1
<1>10. CASE UNCHANGED vars
  <2>1. UNCHANGED <<log, data, late, missed>>
    BY <1>10 DEF vars
  <2> QED
    BY <1>2, <2>1
<1> QED
  BY <1>4, <1>5, <1>8, <1>9, <1>10 DEF Next

\* Write leaves all files but the newest alone, and that one too when it
\* begins a new file; it then notes what is late.
LEMMA WriteLogOld ==
    ASSUME TypeOK, NEW x \in Node, NEW recs \in Seq(Record), WriteLog(x, recs),
           NEW m \in Node
    PROVE  /\ late \subseteq late'
           /\ \A i \in 1 .. Len(log[m]) - 1 : log'[m][i] = log[m][i]
           /\ Len(log'[m]) > Len(log[m]) =>
                 /\ Unseen(m) \subseteq late'
                 /\ \A i \in 1 .. Len(log[m]) : log'[m][i] = log[m][i]
<1>1. /\ log \in [Node -> Seq(Seq(Record))]
      /\ log[x] \in Seq(Seq(Record)) /\ Len(log[x]) \in Nat \ {0}
      /\ log[m] \in Seq(Seq(Record)) /\ Len(log[m]) \in Nat \ {0}
  <2>1. log \in [Node -> Seq(Seq(Record))]
    BY DEF TypeOK
  <2> QED
    BY <2>1, Typing
<1>2. CASE Extend(x, recs)
  <2> DEFINE f == log[x][Len(log[x])] \o recs
             fs == [log[x] EXCEPT ![Len(log[x])] = f]
  <2>1. log' = [log EXCEPT ![x] = fs] /\ late' = late
    BY <1>1, <1>2 DEF Extend
  <2> HIDE DEF f
  <2>2. /\ Len(fs) = Len(log[x])
        /\ \A i \in 1 .. Len(log[x]) - 1 : fs[i] = log[x][i]
    BY <1>1
  <2> HIDE DEF fs
  <2>3. log'[x] = fs /\ (m # x => log'[m] = log[m])
    BY <1>1, <2>1
  <2> QED
    BY <1>1, <2>1, <2>2, <2>3
<1>3. CASE /\ log' = [log EXCEPT ![x] = Append(@, recs)]
           /\ late' = late \cup Unseen(x)
  <2> DEFINE fs == Append(log[x], recs)
  <2>1. log' = [log EXCEPT ![x] = fs]
    BY <1>3
  <2>2. \A i \in 1 .. Len(log[x]) : fs[i] = log[x][i]
    BY <1>1
  <2> HIDE DEF fs
  <2>3. log'[x] = fs /\ (m # x => log'[m] = log[m])
    BY <1>1, <2>1
  <2>4. \A i \in 1 .. Len(log[m]) : log'[m][i] = log[m][i]
    BY <2>2, <2>3
  <2>5. Len(log'[m]) > Len(log[m]) => m = x
    BY <1>1, <2>3
  <2> QED
    BY <1>1, <1>3, <2>4, <2>5
<1> QED
  BY <1>2, <1>3 DEF WriteLog

LEMMA HasStays ==
    ASSUME Grown, NEW n \in Node, NEW m \in Node, NEW i, NEW q,
           log'[m][i] = log[m][i], Has(n, m, i, q)
    PROVE  Has(n, m, i, q)'
  BY DEF Has, Grown

\* A file that another one follows stays left.
LEMMA LeftStays ==
    ASSUME IInv, [Next]_vars, NEW n \in Node, NEW m \in Node,
           NEW i \in 1 .. Len(log[m]) - 1, Left(n, m, i)
    PROVE  Left(n, m, i)'
<1>1. TypeOK
  BY DEF IInv
<1>2. late \subseteq late' /\ log'[m][i] = log[m][i]
  BY <1>1, LogStep, WriteLogOld
<1>3. Grown
  BY LogStep
<1>4. \A q : Has(n, m, i, q) => Has(n, m, i, q)'
  BY <1>2, <1>3, HasStays
<1> QED
  BY <1>2, <1>4 DEF Left

LEMMA PastStays ==
    ASSUME IInv, [Next]_vars, NEW n \in Node, NEW m \in Node,
           NEW k \in Nat, k < Len(log[m]), Past(n, m, k)
    PROVE  Past(n, m, k)'
<1>1. Len(log[m]) \in Nat
  BY Typing DEF IInv
<1>2. ASSUME NEW i \in 1 .. k PROVE Left(n, m, i)'
  <2>1. i \in 1 .. Len(log[m]) - 1 /\ Left(n, m, i)
    BY <1>1 DEF Past
  <2> QED
    BY <2>1, LeftStays
<1> QED
  BY <1>2 DEF Past

\* The newest file is left by a watcher at its end when another one follows.
LEMMA NewestLeft ==
    ASSUME IInv, [Next]_vars, NEW n \in Node, NEW m \in Node,
           NEW s \in WatcherState, s = w[n][m],
           s.pc = "served", s.empty, s.logs = <<>>,
           NEW k, k = Len(log[m]), s.to.fi + 1 = k, Len(log'[m]) > k
    PROVE  Left(n, m, k)'
<1>1. TypeOK /\ PairInv(n, m)
  BY DEF IInv
<1>2. Len(log[m]) \in Nat \ {0} /\ s.to.off \in Nat
  BY <1>1, Typing DEF WatcherState, Position
<1>3. Unseen(m) \subseteq late' /\ log'[m][k] = log[m][k] /\ Grown
  <2>1. log' # log
    BY <1>2
  <2>2. PICK x \in Node : \E recs \in Seq(Record) : WriteLog(x, recs)
    BY <2>1, LogStep
  <2>3. Unseen(m) \subseteq late' /\ \A i \in 1 .. Len(log[m]) : log'[m][i] = log[m][i]
    BY <1>1, <2>2, WriteLogOld
  <2>4. k \in 1 .. Len(log[m])
    BY <1>2
  <2> QED
    BY <2>3, <2>4, LogStep
<1>4. \A q \in 1 .. s.to.off : Has(n, m, k, q)
  <2>1. Covered(n, m, s.to, RangeOf(s.logs))
    BY <1>1 DEF PairInv, WatcherInv, Sound
  <2>2. RangeOf(s.logs) = {}
    BY DEF RangeOf
  <2> QED
    BY <2>1, <2>2 DEF Covered, Has
<1>5. \A q \in s.to.off + 1 .. Len(log[m][k]) : <<n, m, k, q>> \in late'
  <2>1. AtItsEnd(n, m)
    BY DEF AtItsEnd
  <2>2. ASSUME NEW q \in s.to.off + 1 .. Len(log[m][k]) PROVE <<n, m, k, q>> \in Unseen(m)
    <3>1. q \in w[n][m].to.off + 1 .. Len(log[m][Len(log[m])])
      BY <2>2
    <3> QED
      BY <2>1, <3>1 DEF Unseen
  <2> QED
    BY <1>3, <2>2
<1>6. Len(log[m][k]) \in Nat
  <2>1. k \in 1 .. Len(log[m])
    BY <1>2
  <2> QED
    BY <1>1, <2>1, Typing
<1>7. ASSUME NEW q \in 1 .. Len(log'[m][k])
      PROVE  Has(n, m, k, q)' \/ <<n, m, k, q>> \in late'
  <2>1. q \in 1 .. Len(log[m][k])
    BY <1>3
  <2>2. q \in 1 .. s.to.off \/ q \in s.to.off + 1 .. Len(log[m][k])
    BY <1>2, <1>6, <2>1
  <2> QED
    BY <1>3, <1>4, <1>5, <2>2, HasStays
<1> QED
  BY <1>7 DEF Left

\* Positions keep to places that are past what they have left.
LEMMA Placed ==
    ASSUME IInv, NEW n \in Node, NEW m \in Node
    PROVE  /\ state[n][m].fi \in Nat /\ state[n][m].fi < Len(log[m])
           /\ saved[n][m].fi \in Nat /\ saved[n][m].fi < Len(log[m])
           /\ Len(log[m]) \in Nat
<1>1. TypeOK /\ PairInv(n, m)
  BY DEF IInv
<1> QED
  BY <1>1, Typing DEF PairInv, Covered, Position

LEMMA WatcherLeftStays ==
    ASSUME IInv, LeftInv, [Next]_vars, NEW n \in Node, NEW m \in Node,
           w'[n][m] = w[n][m]
    PROVE  WatcherLeft(n, m, w[n][m])'
<1>1. TypeOK /\ PairInv(n, m) /\ PairLeft(n, m)
  BY DEF IInv, LeftInv
<1>2. PICK s \in WatcherState : s = w[n][m]
  BY <1>1, Typing
<1>3. /\ s.to.fi \in Nat /\ Len(log[m]) \in Nat /\ Len(log'[m]) \in Nat
      /\ Len(log[m]) <= Len(log'[m])
  <2>1. log'[m] \in Seq(Seq(Record)) /\ Len(log[m]) <= Len(log'[m])
    BY LogStep DEF Grown
  <2> QED
    BY <1>1, <2>1, Typing DEF WatcherState, Position
<1>4. WatcherLeft(n, m, s) /\ Sound(n, m, s, state[n][m])
  BY <1>1, <1>2 DEF PairLeft, PairInv, WatcherInv
<1>5. ASSUME s.pc = "served", s.empty
      PROVE  /\ s.logs = <<>>
             /\ s.to.fi + 1 < Len(log'[m]) => Left(n, m, s.to.fi + 1)'
  <2>1. s.logs = <<>> /\ s.to.fi < Len(log[m])
    BY <1>4, <1>5 DEF WatcherLeft, Sound, Covered
  <2>2. CASE s.to.fi + 1 < Len(log[m])
    <3>1. Left(n, m, s.to.fi + 1) /\ s.to.fi + 1 \in 1 .. Len(log[m]) - 1
      BY <1>3, <1>4, <1>5, <2>2 DEF WatcherLeft
    <3> QED
      BY <2>1, <3>1, LeftStays
  <2>3. CASE s.to.fi + 1 = Len(log[m])
    BY <1>2, <1>3, <1>5, <2>1, <2>3, NewestLeft
  <2> QED
    BY <1>3, <2>1, <2>2, <2>3
<1>6. ASSUME s.pc \in {"write", "add", "advance", "index"}
      PROVE  s.to.fi < Len(log'[m]) /\ Past(n, m, s.to.fi)'
  <2>1. s.to.fi < Len(log[m]) /\ Past(n, m, s.to.fi)
    BY <1>4, <1>6 DEF WatcherLeft
  <2>2. Past(n, m, s.to.fi)'
    BY <1>3, <2>1, PastStays
  <2> QED
    BY <1>3, <2>1, <2>2
<1>7. WatcherLeft(n, m, s)'
  BY <1>5, <1>6 DEF WatcherLeft
<1> QED
  BY <1>2, <1>7 DEF WatcherLeft, Past, Left, Has

\* A round that goes on to the position it has is past what was past.
LEMMA WatcherLeftGoesOn ==
    ASSUME IInv, [Next]_vars, NEW n \in Node, NEW m \in Node,
           NEW s \in WatcherState, NEW x,
           s.to.fi < Len(log[m]), Past(n, m, s.to.fi),
           x.to = s.to, x.pc # "served"
    PROVE  WatcherLeft(n, m, x)'
<1>1. TypeOK
  BY DEF IInv
<1>2. /\ s.to.fi \in Nat /\ Len(log[m]) \in Nat /\ Len(log'[m]) \in Nat
      /\ Len(log[m]) <= Len(log'[m])
  <2>1. log'[m] \in Seq(Seq(Record)) /\ Len(log[m]) <= Len(log'[m])
    BY LogStep DEF Grown
  <2> QED
    BY <1>1, <2>1, Typing DEF WatcherState, Position
<1>3. Past(n, m, s.to.fi)'
  BY <1>2, PastStays
<1>4. s.to.fi < Len(log'[m])
  BY <1>2
<1> QED
  BY <1>3, <1>4 DEF WatcherLeft

LEMMA IdleLeft ==
    ASSUME NEW n, NEW m, NEW x, x.pc \in {"idle", "again"}
    PROVE  WatcherLeft(n, m, x)'
  BY DEF WatcherLeft

\* An answer that is empty comes from the end of its file.
LEMMA FetchLeft ==
    ASSUME IInv, LeftInv, NEW n \in Node, NEW m \in Node, Fetch(n, m)
    PROVE  WatcherLeft(n, m, w[n][m])'
<1>1. TypeOK /\ PairInv(n, m)
  BY DEF IInv
<1>2. PICK p \in Position : p = state[n][m]
  BY <1>1, Typing
<1>3. /\ p.fi \in Nat /\ p.off \in Nat /\ p.fi + 1 \in 1 .. Len(log[m])
      /\ Covered(n, m, p, {})
  <2>1. Covered(n, m, p, {})
    BY <1>1, <1>2 DEF PairInv, Covered
  <2> QED
    BY <1>1, <2>1, Typing DEF Position, Covered
<1> DEFINE file == log[m][p.fi + 1]
           end  == IF p.off + FetchSize <= Len(file) THEN p.off + FetchSize ELSE Len(file)
           logs == SubSeq(file, p.off + 1, end)
           to   == [fi |-> p.fi, off |-> end]
           s    == [Idle EXCEPT !.pc = "served", !.logs = logs, !.to = to,
                                !.empty = (logs = <<>>)]
<1>4. /\ file \in Seq(Record) /\ Len(file) \in Nat /\ p.off <= Len(file)
      /\ \A q \in 1 .. p.off : Has(n, m, p.fi + 1, q)
  BY <1>1, <1>3, Typing DEF Covered, Has
<1>5. Set(n, m, s) /\ UNCHANGED <<log, data, late>>
  BY <1>2 DEF Fetch
<1> HIDE DEF file
<1>6. end \in Nat /\ p.off <= end /\ end <= Len(file) /\ (end = p.off => end = Len(file))
  BY <1>3, <1>4, SyncAssumption
<1> HIDE DEF end
<1>7. logs \in Seq(Record) /\ Len(logs) = end - p.off
  BY <1>3, <1>4, <1>6, SMTT(30)
<1> HIDE DEF logs
<1>8. logs = <<>> => Left(n, m, p.fi + 1)
  <2> SUFFICES ASSUME logs = <<>> PROVE Left(n, m, p.fi + 1)
    OBVIOUS
  <2>1. p.off = Len(file)
    <3>1. Len(logs) = 0
      OBVIOUS
    <3> QED
      BY <1>3, <1>6, <1>7, <3>1
  <2> QED
    BY <1>4, <2>1 DEF Left, file
<1>9. /\ s.pc = "served" /\ s.to = to /\ s.logs = logs /\ s.empty = (logs = <<>>)
      /\ s \in WatcherState
  <2>1. to \in Position
    BY <1>3, <1>6 DEF Position
  <2>2. (logs = <<>>) \in BOOLEAN
    OBVIOUS
  <2> QED
    BY <1>7, <2>1, <2>2, IdleOK DEF Idle, WatcherState
<1> HIDE DEF s
<1>10. w'[n][m] = s
  BY <1>1, <1>5, <1>9, SetMoves
<1>11. logs = <<>> => Left(n, m, p.fi + 1)'
  BY <1>5, <1>8 DEF Left, Has
<1>12. PICK x : /\ x = s /\ x.pc = "served" /\ x.to.fi = p.fi
                /\ x.empty = (x.logs = <<>>) /\ (x.logs = <<>> => logs = <<>>)
  BY <1>9
<1>13. WatcherLeft(n, m, x)'
  BY <1>11, <1>12 DEF WatcherLeft
<1> QED
  BY <1>10, <1>12, <1>13 DEF WatcherLeft

\* The watcher goes to the next file only when there is one, and it has been
\* told that its own has nothing more.
LEMMA AnsweredLeft ==
    ASSUME IInv, LeftInv, NEW n \in Node, NEW m \in Node, NEW unknown,
           Answered(n, m, unknown)
    PROVE  WatcherLeft(n, m, w[n][m])'
<1>1. TypeOK /\ PairInv(n, m) /\ PairLeft(n, m)
  BY DEF IInv, LeftInv
<1>2. PICK s \in WatcherState : s = w[n][m]
  BY <1>1, Typing
<1>3. /\ s.to \in Position /\ s.to.fi \in Nat /\ Len(log[m]) \in Nat
      /\ cur[m] \in Nat /\ cur[m] < Len(log[m])
  BY <1>1, Typing DEF WatcherState, Position
<1>4. s.pc = "served" /\ UNCHANGED <<log, data, late>>
  BY <1>2 DEF Answered
<1>5. s.to.fi < Len(log[m]) /\ Past(n, m, s.to.fi)
  <2>1. s.to.fi = state[n][m].fi /\ Covered(n, m, s.to, RangeOf(s.logs))
    BY <1>1, <1>2, <1>4 DEF PairInv, WatcherInv, Sound
  <2>2. Past(n, m, state[n][m].fi)
    BY <1>1 DEF PairLeft
  <2> QED
    BY <2>1, <2>2 DEF Covered
<1> DEFINE to == IF cur[m] > s.to.fi /\ s.empty THEN [fi |-> s.to.fi + 1, off |-> 0] ELSE s.to
<1>6. to.fi \in Nat /\ to.fi < Len(log[m]) /\ Past(n, m, to.fi)
  <2>1. CASE cur[m] > s.to.fi /\ s.empty
    <3>1. to.fi = s.to.fi + 1 /\ s.to.fi + 1 < Len(log[m])
      BY <1>3, <2>1
    <3>2. Left(n, m, s.to.fi + 1)
      BY <1>1, <1>2, <1>4, <2>1, <3>1 DEF PairLeft, WatcherLeft
    <3>3. \A i \in 1 .. to.fi : i \in 1 .. s.to.fi \/ i = s.to.fi + 1
      BY <1>3, <3>1
    <3> QED
      BY <1>3, <1>5, <3>1, <3>2, <3>3 DEF Past
  <2>2. CASE ~(cur[m] > s.to.fi /\ s.empty)
    BY <1>3, <1>5, <2>2
  <2> QED
    BY <2>1, <2>2
<1>7. PICK a, ls, b :
         Set(n, m, IF to = state[n][m] THEN Idle
                   ELSE [s EXCEPT !.pc = IF a THEN "advance" ELSE "write",
                                  !.to = to, !.logs = ls, !.failed = b])
  BY <1>2, ZenonT(40) DEF Answered
<1> HIDE DEF to
<1> DEFINE x == IF to = state[n][m] THEN Idle
                ELSE [s EXCEPT !.pc = IF a THEN "advance" ELSE "write",
                               !.to = to, !.logs = ls, !.failed = b]
<1>8. x.pc \in {"idle"} \/ (x.pc \in {"advance", "write"} /\ x.to = to)
  BY DEF WatcherState, Idle
<1>9. w'[n][m] = x
  BY <1>1, <1>7 DEF Set, TypeOK
<1> HIDE DEF x
<1>10. w'[n][m].pc = "idle" \/ (w'[n][m].pc \in {"advance", "write"} /\ w'[n][m].to = to)
  BY <1>8, <1>9
<1>11. PICK t : t = to
  OBVIOUS
<1>12. t.fi < Len(log'[m]) /\ Past(n, m, t.fi)'
  BY <1>4, <1>6, <1>11 DEF Past, Left, Has
<1> QED
  BY <1>10, <1>11, <1>12 DEF WatcherLeft

LEMMA WatcherLeftMoves ==
    ASSUME IInv, LeftInv, [Next]_vars, NEW n \in Node, NEW m \in Node,
           WatcherStep(n, m)
    PROVE  WatcherLeft(n, m, w[n][m])'
<1>1. TypeOK /\ PairLeft(n, m) /\ w \in [Node -> [Node -> WatcherState]]
  BY DEF IInv, LeftInv, TypeOK
<1>2. PICK s \in WatcherState : s = w[n][m]
  BY <1>1, Typing
<1>3. ASSUME NEW x \in WatcherState, Set(n, m, x) PROVE w'[n][m] = x
  BY <1>1, <1>3 DEF Set
<1>4. ASSUME NEW x, w'[n][m] = x, x.pc \in {"idle", "again"}
      PROVE  WatcherLeft(n, m, w[n][m])'
  BY <1>4, IdleLeft DEF WatcherLeft
<1>5. ASSUME NEW x, w'[n][m] = x, x.to = s.to, x.pc # "served",
             s.pc \in {"write", "add", "advance"}
      PROVE  WatcherLeft(n, m, w[n][m])'
  <2>1. s.to.fi < Len(log[m]) /\ Past(n, m, s.to.fi)
    BY <1>1, <1>2, <1>5 DEF PairLeft, WatcherLeft
  <2>2. WatcherLeft(n, m, x)'
    BY <1>5, <2>1, WatcherLeftGoesOn
  <2> QED
    BY <1>5, <2>2 DEF WatcherLeft
<1>6. CASE FetchFails(n, m)
  <2>1. w'[n][m] = Idle
    BY <1>1, <1>6 DEF FetchFails, Set
  <2>2. Idle.pc = "idle"
    BY DEF Idle
  <2> QED
    BY <1>4, <2>1, <2>2
<1>7. CASE WriteBinlog(n, m)
  <2>1. s.pc = "write" /\ Set(n, m, [s EXCEPT !.pc = "add"])
    BY <1>2, <1>7 DEF WriteBinlog
  <2>2. PICK x \in WatcherState : x = [s EXCEPT !.pc = "add"] /\ x.pc = "add" /\ x.to = s.to
    BY PcMoves
  <2>3. w'[n][m] = x
    BY <1>3, <2>1, <2>2
  <2> QED
    BY <1>5, <2>1, <2>2, <2>3
<1>8. ASSUME NEW lost, AddDataset(n, m, lost) PROVE WatcherLeft(n, m, w[n][m])'
  <2>1. s.pc = "add"
    BY <1>2, <1>8 DEF AddDataset
  <2>2. PICK b \in BOOLEAN : b = (s.failed \/ lost # {})
    OBVIOUS
  <2> DEFINE x == [s EXCEPT !.pc = "advance", !.failed = b]
  <2>3. Set(n, m, x)
    BY <1>2, <1>8, <2>2 DEF AddDataset
  <2>4. x \in WatcherState /\ x.pc = "advance" /\ x.to = s.to
    BY DEF WatcherState
  <2> HIDE DEF x
  <2>5. PICK y \in WatcherState : y = x
    BY <2>4
  <2>6. w'[n][m] = y
    BY <1>3, <2>3, <2>5
  <2> QED
    BY <1>5, <2>1, <2>4, <2>5, <2>6
<1>9. CASE AdvanceOffset(n, m)
  <2>1. s.pc = "advance" /\ (Set(n, m, Idle) \/ Set(n, m, [s EXCEPT !.pc = "index"]))
    BY <1>2, <1>9 DEF AdvanceOffset
  <2>2. PICK x \in WatcherState : x = [s EXCEPT !.pc = "index"] /\ x.pc = "index" /\ x.to = s.to
    BY PcMoves
  <2>3. Idle.pc = "idle"
    BY DEF Idle
  <2>4. w'[n][m] = Idle \/ w'[n][m] = x
    BY <1>3, <2>1, <2>2, IdleOK
  <2> QED
    BY <1>4, <1>5, <2>1, <2>2, <2>3, <2>4
<1>10. CASE AdvanceIndex(n, m)
  <2>1. Set(n, m, Idle) \/ Set(n, m, [Idle EXCEPT !.pc = "again"])
    BY <1>10 DEF AdvanceIndex
  <2>2. PICK x \in WatcherState : x = [Idle EXCEPT !.pc = "again"] /\ x.pc = "again"
    BY IdleOK, PcMoves
  <2>3. Idle.pc = "idle"
    BY DEF Idle
  <2>4. w'[n][m] = Idle \/ w'[n][m] = x
    BY <1>3, <2>1, <2>2, IdleOK
  <2> QED
    BY <1>4, <2>2, <2>3, <2>4
<1> QED
  BY <1>6, <1>7, <1>8, <1>9, <1>10, FetchLeft, AnsweredLeft DEF WatcherStep

\* Watchers move one at a time; a restart stops some.
LEMMA WatcherMoves ==
    ASSUME IInv, [Next]_vars, NEW n \in Node, NEW m \in Node
    PROVE  \/ w'[n][m] = w[n][m]
           \/ w'[n][m] = Idle
           \/ WatcherStep(n, m)
<1>1. w \in [Node -> [Node -> WatcherState]]
  BY DEF IInv, TypeOK
<1>2. ASSUME NEW e \in Watches, WatcherStep(e[1], e[2]), e[1] # n \/ e[2] # m
      PROVE  w'[n][m] = w[n][m]
  <2>1. e[1] \in Node /\ e[2] \in Node
    BY SyncAssumption
  <2>2. \E x : Set(e[1], e[2], x)
    BY <1>2, Zenon DEF WatcherStep, Fetch, Answered, FetchFails, WriteBinlog, AddDataset,
       AdvanceOffset, AdvanceIndex
  <2> QED
    BY <1>1, <1>2, <2>1, <2>2 DEF Set
<1>3. CASE \E r \in Record : UploadWrite(r) \/ UploadAdd(r)
  BY <1>3 DEF UploadWrite, UploadAdd
<1>4. CASE \E e \in Watches : WatcherStep(e[1], e[2])
  BY <1>2, <1>4
<1>5. CASE \E x \in Node : SaveState(x) \/ Restart(x)
  BY <1>5 DEF SaveState, Restart
<1>6. CASE UNCHANGED vars
  BY <1>6 DEF vars
<1> QED
  BY <1>3, <1>4, <1>5, <1>6 DEF Next

\* A file index comes from the file index before, from what is saved, or
\* from a watcher that has reached it.
LEMMA PositionMoves ==
    ASSUME IInv, [Next]_vars, NEW n \in Node, NEW m \in Node
    PROVE  /\ \/ state'[n][m].fi \in {state[n][m].fi, saved[n][m].fi}
              \/ state'[n][m].fi = w[n][m].to.fi /\ w[n][m].pc = "index"
           /\ saved'[n][m] \in {state[n][m], saved[n][m]}
<1>1. /\ state \in [Node -> [Node -> Position]]
      /\ saved \in [Node -> [Node -> Position]]
  BY DEF IInv, TypeOK
<1>2. CASE UNCHANGED <<state, saved>>
  BY <1>2
<1>3. ASSUME NEW e \in Watches, AdvanceOffset(e[1], e[2])
      PROVE  state'[n][m].fi = state[n][m].fi /\ saved' = saved
  <2>1. e[1] \in Node /\ e[2] \in Node
    BY SyncAssumption
  <2>2. saved' = saved /\ \/ state' = state
                          \/ \E v : state' = [state EXCEPT ![e[1]][e[2]].off = v]
    BY <1>3 DEF AdvanceOffset
  <2>3. CASE state' = state
    BY <2>2, <2>3
  <2>4. ASSUME NEW v, state' = [state EXCEPT ![e[1]][e[2]].off = v]
        PROVE  state'[n][m].fi = state[n][m].fi
    <3>1. state[n][m] \in Position /\ state[e[1]] \in [Node -> Position]
      BY <1>1, <2>1
    <3>2. CASE n = e[1] /\ m = e[2]
      <4>1. state'[n][m] = [state[n][m] EXCEPT !.off = v]
        BY <1>1, <2>4, <3>1, <3>2
      <4> QED
        BY <3>1, <4>1 DEF Position
    <3>3. CASE ~(n = e[1] /\ m = e[2])
      BY <1>1, <2>1, <2>4, <3>1, <3>3
    <3> QED
      BY <3>2, <3>3
  <2> QED
    BY <2>2, <2>3, <2>4
<1>4. ASSUME NEW e \in Watches, AdvanceIndex(e[1], e[2])
      PROVE  /\ \/ state'[n][m].fi = state[n][m].fi
                \/ state'[n][m].fi = w[n][m].to.fi /\ w[n][m].pc = "index"
             /\ saved' = saved
  <2>1. e[1] \in Node /\ e[2] \in Node
    BY SyncAssumption
  <2>2. PICK v : /\ v = w[e[1]][e[2]].to.fi
                 /\ state' = [state EXCEPT ![e[1]][e[2]].fi = v]
                 /\ w[e[1]][e[2]].pc = "index"
                 /\ saved' = saved
    BY <1>4 DEF AdvanceIndex
  <2>3. state[n][m] \in Position /\ state[e[1]] \in [Node -> Position]
    BY <1>1, <2>1
  <2>4. CASE n = e[1] /\ m = e[2]
    <3>1. state'[n][m] = [state[n][m] EXCEPT !.fi = v]
      BY <1>1, <2>2, <2>3, <2>4
    <3>2. state'[n][m].fi = v
      BY <2>3, <3>1 DEF Position
    <3> QED
      BY <2>2, <2>4, <3>2
  <2>5. CASE ~(n = e[1] /\ m = e[2])
    BY <1>1, <2>1, <2>2, <2>3, <2>5
  <2> QED
    BY <2>4, <2>5
<1>5. CASE \E e \in Watches : WatcherStep(e[1], e[2])
  <2>1. PICK e \in Watches : WatcherStep(e[1], e[2])
    BY <1>5
  <2>2. \/ UNCHANGED <<state, saved>>
        \/ AdvanceOffset(e[1], e[2])
        \/ AdvanceIndex(e[1], e[2])
    BY <2>1 DEF WatcherStep, Fetch, Answered, FetchFails, WriteBinlog, AddDataset
  <2> QED
    BY <1>3, <1>4, <2>2
<1>6. ASSUME NEW x \in Node, SaveState(x)
      PROVE  state' = state /\ saved'[n][m] \in {state[n][m], saved[n][m]}
  BY <1>1, <1>6 DEF SaveState
<1>7. ASSUME NEW x \in Node, Restart(x)
      PROVE  saved' = saved /\ state'[n][m] \in {state[n][m], saved[n][m]}
  BY <1>1, <1>7 DEF Restart
<1>8. CASE \E r \in Record : UploadWrite(r) \/ UploadAdd(r)
  BY <1>8 DEF UploadWrite, UploadAdd
<1>9. CASE UNCHANGED vars
  BY <1>9 DEF vars
<1> QED
  BY <1>5, <1>6, <1>7, <1>8, <1>9 DEF Next

LEMMA LeftInvStep == IInv /\ LeftInv /\ [Next]_vars => LeftInv'
<1> SUFFICES ASSUME IInv, LeftInv, [Next]_vars, NEW n \in Node, NEW m \in Node
             PROVE  PairLeft(n, m)'
  BY DEF LeftInv
<1>1. PairLeft(n, m)
  BY DEF LeftInv
<1>2. WatcherLeft(n, m, w[n][m])'
  <2>1. CASE w'[n][m] = Idle
    BY <2>1 DEF WatcherLeft, Idle
  <2> QED
    BY <2>1, WatcherMoves, WatcherLeftStays, WatcherLeftMoves
<1>3. Past(n, m, state[n][m].fi)'
  <2>1. PICK k : k = state'[n][m].fi
    OBVIOUS
  <2>2. k \in Nat /\ k < Len(log[m]) /\ Past(n, m, k)
    <3>1. CASE k \in {state[n][m].fi, saved[n][m].fi}
      BY <1>1, <3>1, Placed DEF PairLeft
    <3>2. CASE k = w[n][m].to.fi /\ w[n][m].pc = "index"
      <4>1. w[n][m] \in WatcherState
        BY Typing DEF IInv
      <4>2. w[n][m].to.fi \in Nat
        BY <4>1 DEF WatcherState, Position
      <4> QED
        BY <1>1, <3>2, <4>2 DEF PairLeft, WatcherLeft
    <3> QED
      BY <2>1, <3>1, <3>2, PositionMoves
  <2>3. Past(n, m, k)'
    BY <2>2, PastStays
  <2> QED
    BY <2>1, <2>3 DEF Past
<1>4. Past(n, m, saved[n][m].fi)'
  <2>1. PICK k : k = saved'[n][m].fi
    OBVIOUS
  <2>2. k \in Nat /\ k < Len(log[m]) /\ Past(n, m, k)
    BY <1>1, <2>1, Placed, PositionMoves DEF PairLeft
  <2>3. Past(n, m, k)'
    BY <2>2, PastStays
  <2> QED
    BY <2>1, <2>3 DEF Past
<1> QED
  BY <1>2, <1>3, <1>4 DEF PairLeft

LEMMA InitLeftInv == Init => LeftInv
<1> SUFFICES ASSUME Init, NEW n \in Node, NEW m \in Node PROVE PairLeft(n, m)
  BY DEF LeftInv
<1>1. state[n][m].fi = 0 /\ saved[n][m].fi = 0 /\ w[n][m] = Idle
  BY DEF Init, Start
<1>2. \A i \in 1 .. 0 : FALSE
  OBVIOUS
<1> QED
  BY <1>1, <1>2 DEF PairLeft, Past, WatcherLeft, Idle

-----------------------------------------------------------------------------
\* The invariant of the group, whatever fails and whenever a server restarts.
THEOREM GroupInvariant == Spec => []IInv
  BY InitIInv, StepIInv, PTL DEF Spec

\* Every variable of the group stays in its type, and the index of a server
\* is that of a file it has.
THEOREM GroupTypes == Spec => []TypeOK
<1>1. IInv => TypeOK
  BY DEF IInv
<1> QED
  BY <1>1, GroupInvariant, PTL

\* A position, in memory or saved, is a place in the other's binlog, and the
\* dataset has all that is wanted of what is before it, in its file and in
\* all the files before, but for what came late: watch never moves past a
\* record it has failed to look up, to write or to add.
THEOREM PositionsNeverAhead == Spec => []PositionsSound
<1>1. IInv /\ LeftInv => PositionsSound
  <2> SUFFICES ASSUME IInv, LeftInv, NEW e \in Watches
               PROVE  /\ Known(e[1], e[2], state[e[1]][e[2]])
                      /\ Known(e[1], e[2], saved[e[1]][e[2]])
    BY DEF PositionsSound
  <2>1. e[1] \in Node /\ e[2] \in Node
    BY SyncAssumption
  <2>2. PairInv(e[1], e[2]) /\ PairLeft(e[1], e[2])
    BY <2>1 DEF IInv, LeftInv
  <2>3. ASSUME NEW p, Covered(e[1], e[2], p, {}), Past(e[1], e[2], p.fi)
        PROVE  Known(e[1], e[2], p)
    BY <2>3 DEF Covered, Past, Left, Has, Known
  <2> QED
    BY <2>2, <2>3 DEF PairInv, PairLeft
<1> QED
  BY <1>1, InitIInv, StepIInv, InitLeftInv, LeftInvStep, PTL DEF Spec

\* What a server has in its dataset is in its binlog, or it is a record whose
\* Write failed: upload and watch write the record before they add it.
THEOREM DatasetsAreLogged == Spec => []DatasetInLog
<1>1. IInv => DatasetInLog
  BY DEF IInv
<1> QED
  BY <1>1, GroupInvariant, PTL
=============================================================================
