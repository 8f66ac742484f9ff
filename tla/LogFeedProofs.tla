----------------------------- MODULE LogFeedProofs --------------------------
(***************************************************************************)
(* Lemmas about Read and about growing files, which the proofs about the   *)
(* readers of a binlog share.                                              *)
(***************************************************************************)
EXTENDS LogFeed, FiniteSetTheorems, TLAPS

\* Read returns an offset in the file, not before the one it was given.
LEMMA ReadEndBounds ==
    ASSUME NEW file, Len(file) \in Nat, NEW off \in Nat, off <= Len(file), NEW n
    PROVE  ReadEnd(file, off, n) \in off .. Len(file)
<1> DEFINE I == off + 1 .. Len(file)
           L == LinesRead(file, off, n)
<1>1. IsFiniteSet(I) /\ Cardinality(I) = Len(file) - off
  <2>1. off + 1 \in Int /\ Len(file) \in Int
    OBVIOUS
  <2>2. /\ IsFiniteSet(I)
        /\ Cardinality(I) = IF off + 1 > Len(file) THEN 0 ELSE Len(file) - (off + 1) + 1
    BY <2>1, FS_Interval
  <2> QED
    BY <2>2
<1>2. L \subseteq I
  BY DEF LinesRead
<1>3. IsFiniteSet(L) /\ Cardinality(L) <= Cardinality(I)
  BY <1>1, <1>2, FS_Subset
<1>4. Cardinality(L) \in Nat
  BY <1>3, FS_CardinalityType
<1> QED
  BY <1>1, <1>3, <1>4 DEF ReadEnd

\* A Read that finds no record has come to the end of the file.
LEMMA EmptyReadsAll ==
    ASSUME NEW file, Len(file) \in Nat, NEW off \in Nat, off <= Len(file),
           NEW n \in Nat \ {0}, ValidIn(file, off, ReadEnd(file, off, n)) = {}
    PROVE  ReadEnd(file, off, n) = Len(file)
<1> DEFINE L == LinesRead(file, off, n)
           I == off + 1 .. Len(file)
<1>1. PICK end : end = ReadEnd(file, off, n)
  OBVIOUS
<1>2. end \in off .. Len(file) /\ end = off + Cardinality(L)
  BY <1>1, ReadEndBounds DEF ReadEnd
<1>3. SUFFICES ASSUME end # Len(file) PROVE FALSE
  BY <1>1
<1>4. ASSUME NEW p \in off + 1 .. end + 1 PROVE p \in L
  <2>1. ValidIn(file, off, p - 1) = {}
    BY <1>1, <1>2, <1>4 DEF ValidIn
  <2>2. Cardinality(ValidIn(file, off, p - 1)) = 0
    BY <2>1, FS_EmptySet
  <2> QED
    BY <1>2, <1>3, <1>4, <2>2 DEF LinesRead
<1>5. IsFiniteSet(L)
  <2>1. IsFiniteSet(I)
    BY FS_Interval
  <2>2. L \subseteq I
    BY DEF LinesRead
  <2> QED
    BY <2>1, <2>2, FS_Subset
<1>6. off + 1 .. end + 1 \subseteq L
  BY <1>4
<1>7. Cardinality(off + 1 .. end + 1) <= Cardinality(L)
  BY <1>5, <1>6, FS_Subset
<1>8. Cardinality(off + 1 .. end + 1) = end + 1 - off
  <2>1. off + 1 \in Int /\ end + 1 \in Int /\ ~(off + 1 > end + 1)
    BY <1>2
  <2>2. Cardinality(off + 1 .. end + 1) = (end + 1) - (off + 1) + 1
    BY <2>1, FS_Interval
  <2> QED
    BY <1>2, <2>2
<1>9. Cardinality(L) \in Nat
  BY <1>5, FS_CardinalityType
<1> QED
  BY <1>2, <1>7, <1>8, <1>9

\* A step of the feed, of whatever kind: old lines keep their places.
Grown ==
    /\ files' \in Seq(Seq(Line)) /\ files' # <<>>
    /\ Len(files) <= Len(files')
    /\ \A i \in 1 .. Len(files) :
          /\ Len(files[i]) <= Len(files'[i])
          /\ \A q \in 1 .. Len(files[i]) : files'[i][q] = files[i][q]

LEMMA ExtendGrows ==
    ASSUME files \in Seq(Seq(Line)), files # <<>>, NEW l \in Line,
           files' = [files EXCEPT ![Len(files)] = Append(@, l)]
    PROVE  Grown
<1> DEFINE m == Len(files)
<1>1. m \in Nat /\ m \in 1 .. m /\ files[m] \in Seq(Line) /\ Len(files[m]) \in Nat
  OBVIOUS
<1>2. /\ Len(files') = m
      /\ files' \in Seq(Seq(Line)) /\ files' # <<>>
      /\ \A i \in 1 .. m : i # m => files'[i] = files[i]
      /\ files'[m] = Append(files[m], l)
  BY <1>1
<1>3. /\ Len(Append(files[m], l)) = Len(files[m]) + 1
      /\ \A q \in 1 .. Len(files[m]) : Append(files[m], l)[q] = files[m][q]
  BY <1>1
<1>4. ASSUME NEW i \in 1 .. m
      PROVE  /\ Len(files[i]) <= Len(files'[i])
             /\ \A q \in 1 .. Len(files[i]) : files'[i][q] = files[i][q]
  <2>1. Len(files[i]) \in Nat
    OBVIOUS
  <2> HIDE DEF m
  <2>2. CASE i = m
    BY <1>1, <1>2, <1>3, <2>2
  <2>3. CASE i # m
    BY <1>2, <2>1, <2>3
  <2> QED
    BY <2>2, <2>3
<1>5. m <= Len(files')
  <2>1. Len(files') = m /\ m \in Nat
    BY <1>1, <1>2
  <2> HIDE DEF m
  <2> QED
    BY <2>1
<1> QED
  BY ONLY <1>2, <1>4, <1>5 DEF Grown

LEMMA NewFileGrows ==
    ASSUME files \in Seq(Seq(Line)), NEW ls \in Seq(Line), files' = Append(files, ls)
    PROVE  Grown
<1>1. /\ files' \in Seq(Seq(Line)) /\ files' # <<>>
      /\ Len(files') = Len(files) + 1
      /\ \A i \in 1 .. Len(files) : files'[i] = files[i]
  OBVIOUS
<1>2. \A i \in 1 .. Len(files) : Len(files[i]) \in Nat
  OBVIOUS
<1> QED
  BY <1>1, <1>2 DEF Grown

LEMMA SameGrows ==
    ASSUME files \in Seq(Seq(Line)), files # <<>>, files' = files
    PROVE  Grown
<1>1. \A i \in 1 .. Len(files) : Len(files[i]) \in Nat
  OBVIOUS
<1> QED
  BY <1>1 DEF Grown

-----------------------------------------------------------------------------
\* A Read of the same records from the same offset of a file that has grown
\* ends no earlier.
LEMMA ReadEndGrows ==
    ASSUME NEW old, NEW new, Len(old) \in Nat, Len(new) \in Nat,
           Len(old) <= Len(new), \A q \in 1 .. Len(old) : new[q] = old[q],
           NEW off \in Nat, NEW n
    PROVE  ReadEnd(old, off, n) <= ReadEnd(new, off, n)
<1> DEFINE L == LinesRead(old, off, n)
           M == LinesRead(new, off, n)
           I == off + 1 .. Len(new)
<1>1. IsFiniteSet(I)
  BY FS_Interval
<1>2. M \subseteq I
  BY DEF LinesRead
<1>3. IsFiniteSet(M)
  BY <1>1, <1>2, FS_Subset
<1>4. ASSUME NEW p \in off + 1 .. Len(old)
      PROVE  ValidIn(old, off, p - 1) = ValidIn(new, off, p - 1)
  BY <1>4 DEF ValidIn
<1>5. L \subseteq M
  BY <1>4 DEF LinesRead
<1>6. IsFiniteSet(L) /\ Cardinality(L) <= Cardinality(M)
  BY <1>3, <1>5, FS_Subset
<1>7. Cardinality(L) \in Nat /\ Cardinality(M) \in Nat
  BY <1>3, <1>6, FS_CardinalityType
<1> QED
  BY <1>6, <1>7 DEF ReadEnd
=============================================================================
