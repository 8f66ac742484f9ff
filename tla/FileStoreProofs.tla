---------------------------- MODULE FileStoreProofs --------------------------
(***************************************************************************)
(* Proofs about FileStore for every number of handlers, contents, fileIds, *)
(* files of a form, stores and failures, and every int64.                  *)
(***************************************************************************)
EXTENDS FileStore, FiniteSetTheorems, TLAPS

LEMMA WrappedKeeps == \A n \in 0 .. IntMax : Wrapped(n) = n
<1> SUFFICES ASSUME NEW n \in 0 .. IntMax PROVE Wrapped(n) = n
  OBVIOUS
<1>1. IntMax \in Nat
  BY FileStoreAssumption
<1> DEFINE a == n + IntMax + 1
           b == 2 * IntMax + 2
<1>2. a \in 0 .. b - 1 /\ b \in Nat \ {0} /\ a \in Nat
  BY <1>1
<1>3. a % b = a
  <2> HIDE DEF a, b
  <2> QED
    BY <1>2
<1> QED
  BY <1>1, <1>3 DEF Wrapped

-----------------------------------------------------------------------------
(***************************************************************************)
(* What a handler knows.  An upload is of this server and stores the bytes *)
(* it is named after; a file is in place before it is named in the binlog, *)
(* and there before it is in the dataset; of the parts that a form stored  *)
(* both know.                                                              *)
(***************************************************************************)
HandlerInv(k) ==
    /\ k.kind = "upload" => /\ k.fid \in Local /\ k.bytes = k.fid.content
                            /\ k.pc # "register"
    /\ k.kind = "sync" => k.fid \in Remote /\ k.pc \in {"register", "look", "move", "count", "write"}
    /\ k.pc \in {"count", "write", "log", "add"} => target[k.fid.content].exists
    /\ k.pc = "add" => k.fid \in logged
    /\ k.pc \in {"register", "look", "move", "count"} => ~k.stale
    /\ k.done \subseteq Local \cap logged \cap data

\* Who places content c in a way that its count depends on.
PlacingAt(c, k) == k.pc \in {"move", "count", "write"} /\ k.fid.content = c

(***************************************************************************)
(* The count of a content.  But for the references that are counted and    *)
(* then lost, it is not above the references, nor is what a handler has    *)
(* read of it; and unless two ever placed the content at once, one handler *)
(* does so now, what it found is what is there, and the count is not below *)
(* the references.                                                         *)
(***************************************************************************)
PlaceInv(c) ==
    /\ target[c].exists /\ c \notin damaged => target[c].bytes = c
    /\ c \notin surplus =>
          /\ target[c].count <= Refs(c)
          /\ \A w \in Worker : PlacingAt(c, req[w]) /\ req[w].pc = "write" => req[w].n <= Refs(c)
    /\ c \notin raced =>
          /\ Refs(c) <= target[c].count
          /\ \A w, v \in Worker : PlacingAt(c, req[w]) /\ PlacingAt(c, req[v]) => w = v
          /\ \A w \in Worker : PlacingAt(c, req[w]) =>
                /\ req[w].pc = "move" => ~target[c].exists
                /\ req[w].pc = "write" => req[w].n = target[c].count /\ ~req[w].stale

IInv ==
    /\ TypeOK
    /\ acked \subseteq Local \cap logged \cap data
    /\ FileBeforeName
    /\ \A f \in fetched : target[f.content].exists
    /\ \A w \in Worker : req[w] # Idle => HandlerInv(req[w])
    /\ \A c \in Content : PlaceInv(c)

LEMMA HandlerOrIdle ==
    ASSUME IInv, NEW w \in Worker
    PROVE  /\ req[w].pc = "idle" => req[w] = Idle
           /\ req[w].pc # "idle" => /\ req[w] \in Handler /\ req[w] # Idle
                                    /\ HandlerInv(req[w])
                                    /\ Place(w) \in Content
<1>1. req[w] = Idle \/ req[w] \in Handler
  BY DEF IInv, TypeOK, Request, Handler
<1>2. req[w] \in Handler => req[w] # Idle /\ req[w].pc # "idle" /\ Place(w) \in Content
  BY FileStoreAssumption DEF Handler, Idle, Place
<1> QED
  BY <1>1, <1>2 DEF IInv, Idle

LEMMA HandlerType == Handler \subseteq Request /\ Idle \in Request
  BY DEF Handler, Request

LEMMA FileType ==
    ASSUME TypeOK, NEW c \in Content
    PROVE  /\ target[c].count \in Nat /\ target[c].exists \in BOOLEAN
           /\ target[c].exists => target[c].bytes \in Content
           /\ ~target[c].exists => target[c].count = 0
<1>1. target[c] = Missing \/ target[c] \in [bytes : Content, count : Nat, exists : {TRUE}]
  BY DEF TypeOK, File
<1>2. CASE target[c] = Missing
  BY <1>2 DEF Missing
<1>3. CASE target[c] \in [bytes : Content, count : Nat, exists : {TRUE}]
  BY <1>3
<1> QED
  BY <1>1, <1>2, <1>3

-----------------------------------------------------------------------------
\* The references to a content, now and after a step, are a number.
LEMMA RefsFinite ==
    ASSUME NEW c
    PROVE  /\ fetched \subseteq Remote =>
                 /\ IsFiniteSet(Referring(c)) /\ Cardinality(Referring(c)) \in Nat
                 /\ IsFiniteSet(Underway(c)) /\ Cardinality(Underway(c)) \in Nat
                 /\ Refs(c) \in Nat
           /\ fetched' \subseteq Remote =>
                 /\ IsFiniteSet(Referring(c)') /\ Cardinality(Referring(c)') \in Nat
                 /\ IsFiniteSet(Underway(c)') /\ Cardinality(Underway(c)') \in Nat
                 /\ Refs(c)' \in Nat
<1>1. IsFiniteSet(FileId) /\ IsFiniteSet(Worker)
  BY FileStoreAssumption DEF Worker
<1>2. Underway(c) \subseteq Worker /\ Underway(c)' \subseteq Worker
  BY DEF Underway
<1>3. /\ IsFiniteSet(Underway(c)) /\ Cardinality(Underway(c)) \in Nat
      /\ IsFiniteSet(Underway(c)') /\ Cardinality(Underway(c)') \in Nat
  BY <1>1, <1>2, FS_Subset, FS_CardinalityType
<1>4. ASSUME fetched \subseteq Remote
      PROVE  IsFiniteSet(Referring(c)) /\ Cardinality(Referring(c)) \in Nat
  <2>1. Referring(c) \subseteq FileId
    BY <1>4 DEF Referring, FileId
  <2> QED
    BY <1>1, <2>1, FS_Subset, FS_CardinalityType
<1>5. ASSUME fetched' \subseteq Remote
      PROVE  IsFiniteSet(Referring(c)') /\ Cardinality(Referring(c)') \in Nat
  <2>1. Referring(c)' \subseteq FileId
    BY <1>5 DEF Referring, FileId
  <2> QED
    BY <1>1, <2>1, FS_Subset, FS_CardinalityType
<1> QED
  BY <1>3, <1>4, <1>5 DEF Refs

\* Nothing refers to what is not there.
LEMMA MissingUnreferred ==
    ASSUME IInv, NEW c \in Content, ~target[c].exists
    PROVE  Refs(c) = 0
<1>1. Referring(c) = {}
  BY DEF IInv, FileBeforeName, Referring
<1>2. Underway(c) = {}
  <2>1. ASSUME NEW w \in Underway(c) PROVE FALSE
    <3>1. w \in Worker /\ req[w].pc = "log" /\ req[w].fid.content = c
      BY DEF Underway, Place
    <3>2. HandlerInv(req[w])
      BY <3>1 DEF IInv, Idle
    <3> QED
      BY <3>1, <3>2 DEF HandlerInv
  <2> QED
    BY <2>1
<1> QED
  BY <1>1, <1>2, FS_EmptySet DEF Refs

\* The uploads on their way to the binlog change by the handler that steps.
LEMMA UnderwaySteps ==
    ASSUME NEW w \in Worker, NEW c,
           \A v \in Worker \ {w} :
              /\ req'[v].pc = "log" <=> req[v].pc = "log"
              /\ req[v].pc = "log" => req'[v].fid = req[v].fid
    PROVE  /\ w \notin Underway(c) /\ w \notin Underway(c)' => Underway(c)' = Underway(c)
           /\ w \notin Underway(c) /\ w \in Underway(c)' => Underway(c)' = Underway(c) \cup {w}
           /\ w \in Underway(c) /\ w \notin Underway(c)' => Underway(c)' = Underway(c) \ {w}
<1>1. \A v \in Worker \ {w} : v \in Underway(c)' <=> v \in Underway(c)
  BY DEF Underway, Place
<1>2. Underway(c) \subseteq Worker /\ Underway(c)' \subseteq Worker
  BY DEF Underway
<1>3. PICK before, after : before = Underway(c) /\ after = Underway(c)'
  OBVIOUS
<1>4. /\ \A v \in Worker \ {w} : v \in after <=> v \in before
      /\ before \subseteq Worker /\ after \subseteq Worker
  BY <1>1, <1>2, <1>3
<1>5. /\ w \notin before /\ w \notin after => after = before
      /\ w \notin before /\ w \in after => after = before \cup {w}
      /\ w \in before /\ w \notin after => after = before \ {w}
  BY <1>4
<1> QED
  BY <1>3, <1>5

LEMMA OthersStay ==
    ASSUME TypeOK, NEW w \in Worker, NEW r, Set(w, r)
    PROVE  /\ req'[w] = r
           /\ \A v \in Worker \ {w} : req'[v] = req[v]
  BY DEF TypeOK, Set

(***************************************************************************)
(* A step that places nothing: the references stay as they are, or get     *)
(* fewer for a content that is then counted too high.                      *)
(***************************************************************************)
CountStays(c) ==
    /\ Refs(c)' \in Nat /\ Refs(c)' <= Refs(c)
    /\ c \in surplus => c \in surplus'
    /\ c \in surplus' \/ Refs(c)' = Refs(c)

LEMMA CountStaysAside ==
    ASSUME TypeOK, NEW w \in Worker, NEW r, Set(w, r), req[w].pc # "log", r.pc # "log",
           logged' \cap Local = logged \cap Local, UNCHANGED <<fetched, surplus>>, NEW c
    PROVE  CountStays(c) /\ Refs(c)' = Refs(c)
<1>1. w \notin Underway(c) /\ w \notin Underway(c)'
  BY OthersStay DEF Underway
<1>2. Underway(c)' = Underway(c)
  BY <1>1, OthersStay, UnderwaySteps
<1>3. Referring(c)' = Referring(c)
  BY DEF Referring
<1>4. Refs(c) \in Nat
  BY RefsFinite DEF TypeOK
<1> QED
  BY <1>2, <1>3, <1>4 DEF CountStays, Refs

\* An upload that was on its way to the binlog gives up, or finds its fileId
\* there.
LEMMA CountStaysLost ==
    ASSUME TypeOK, NEW w \in Worker, NEW r, Set(w, r), req[w].pc = "log", r.pc # "log",
           UNCHANGED <<logged, fetched>>, surplus' = surplus \cup {Place(w)}, NEW c
    PROVE  CountStays(c)
<1>1. w \notin Underway(c)' /\ (w \in Underway(c) <=> Place(w) = c)
  BY OthersStay DEF Underway
<1>2. Referring(c)' = Referring(c)
  BY DEF Referring
<1>3. /\ IsFiniteSet(Underway(c)) /\ Cardinality(Underway(c)) \in Nat /\ Refs(c) \in Nat
      /\ Cardinality(Referring(c)) \in Nat
  BY RefsFinite DEF TypeOK
<1>4. CASE Place(w) # c
  <2>1. Underway(c)' = Underway(c)
    BY <1>1, <1>4, OthersStay, UnderwaySteps
  <2> QED
    BY <1>2, <1>3, <2>1 DEF CountStays, Refs
<1>5. CASE Place(w) = c
  <2>1. Underway(c)' = Underway(c) \ {w} /\ w \in Underway(c)
    BY <1>1, <1>5, OthersStay, UnderwaySteps
  <2>2. Cardinality(Underway(c)') = Cardinality(Underway(c)) - 1
        /\ Cardinality(Underway(c)') \in Nat
    BY <1>3, <2>1, FS_RemoveElement, FS_CardinalityType
  <2>3. Refs(c)' = Refs(c) - 1 /\ Refs(c)' \in Nat
    BY <1>2, <1>3, <2>2 DEF Refs
  <2> QED
    BY <1>3, <1>5, <2>3 DEF CountStays
<1> QED
  BY <1>4, <1>5

\* Files stay, and what is written of them stays written.
Grows ==
    /\ logged \subseteq logged' /\ data \subseteq data'
    /\ \A c \in Content : target[c].exists => target'[c].exists

LEMMA HandlerStays ==
    ASSUME NEW k \in Handler, HandlerInv(k), Grows
    PROVE  HandlerInv(k)'
<1>1. k.fid.content \in Content
  BY FileStoreAssumption DEF Handler
<1> QED
  BY <1>1 DEF HandlerInv, Grows

\* One handler takes a step; the others know what they knew.
LEMMA HandlersStep ==
    ASSUME IInv, Grows, NEW w \in Worker, NEW r \in Request, Set(w, r),
           r # Idle => HandlerInv(r)'
    PROVE  /\ req' \in [Worker -> Request] /\ req'[w] = r
           /\ \A v \in Worker : (req[v] # Idle => HandlerInv(req[v]))'
<1>1. /\ req' \in [Worker -> Request] /\ req'[w] = r
      /\ \A v \in Worker : v # w => req'[v] = req[v]
  BY DEF IInv, TypeOK, Set
<1>2. ASSUME NEW v \in Worker PROVE (req[v] # Idle => HandlerInv(req[v]))'
  <2>1. CASE v = w
    BY <1>1, <2>1 DEF HandlerInv
  <2>2. CASE v # w
    <3>1. PICK k : k = req[v]
      OBVIOUS
    <3>2. req'[v] = k
      BY <1>1, <2>2, <3>1
    <3>3. k # Idle => k \in Handler /\ HandlerInv(k)
      BY <3>1, HandlerOrIdle
    <3>4. k # Idle => HandlerInv(k)'
      BY <3>3, HandlerStays
    <3> QED
      BY <3>2, <3>4 DEF HandlerInv
  <2> QED
    BY <2>1, <2>2
<1> QED
  BY <1>1, <1>2

\* Counts stay right when nothing of the places changes and nobody begins
\* to place anything.
LEMMA PlacesStay ==
    ASSUME IInv, UNCHANGED <<target, raced, damaged>>,
           \A v \in Worker : req'[v].pc \in {"move", "count", "write"} => req'[v] = req[v],
           NEW c \in Content, CountStays(c)
    PROVE  PlaceInv(c)'
<1>1. PlaceInv(c) /\ target[c].count \in Nat
  BY FileType DEF IInv
<1>2. \A v \in Worker : PlacingAt(c, req'[v]) => PlacingAt(c, req[v]) /\ req'[v] = req[v]
  BY DEF PlacingAt
<1>3. /\ Refs(c)' \in Nat /\ Refs(c) \in Nat /\ Refs(c)' <= Refs(c)
      /\ c \notin surplus' => c \notin surplus /\ Refs(c)' = Refs(c)
  BY RefsFinite DEF CountStays, IInv, TypeOK
<1>4. c \notin raced' => Refs(c)' <= target'[c].count
  BY <1>1, <1>3 DEF PlaceInv
<1> QED
  BY <1>1, <1>2, <1>3, <1>4 DEF PlaceInv

\* A step of one handler that leaves files and counts alone.
LEMMA QuietStep ==
    ASSUME IInv, NEW w \in Worker, NEW r \in Request, Set(w, r),
           r.pc \notin {"move", "count", "write"}, r # Idle => HandlerInv(r)',
           UNCHANGED <<target, fetched, raced, damaged>>,
           surplus' \subseteq Content, \A c \in Content : CountStays(c),
           logged \subseteq logged', logged' \subseteq FileId,
           data \subseteq data', data' \subseteq FileId,
           \A f \in Local : f \in logged' => target[f.content].exists,
           \A f \in Local : f \in data' => f \in logged',
           acked' \subseteq Local \cap logged' \cap data',
           begun' \in Nat, trouble' \in Nat
    PROVE  IInv'
<1>1. Grows
  BY DEF Grows
<1>2. /\ req' \in [Worker -> Request] /\ req'[w] = r
      /\ \A v \in Worker : (req[v] # Idle => HandlerInv(req[v]))'
  BY <1>1, HandlersStep
<1>3. \A v \in Worker : req'[v].pc \in {"move", "count", "write"} => req'[v] = req[v]
  <2>1. \A v \in Worker : v # w => req'[v] = req[v]
    BY DEF IInv, TypeOK, Set
  <2> QED
    BY <1>2, <2>1
<1>4. \A c \in Content : PlaceInv(c)'
  BY <1>3, PlacesStay
<1>5. FileBeforeName'
  BY DEF FileBeforeName
<1>6. TypeOK'
  BY <1>2 DEF IInv, TypeOK, FileId
<1> QED
  BY <1>2, <1>4, <1>5, <1>6 DEF IInv

LEMMA HandlingInv ==
    ASSUME IInv, NEW w \in Worker, NEW pc \in {"register", "look"},
           NEW kind \in {"upload", "sync"}, NEW f \in FileId,
           NEW b \in Content, NEW parts \in 0 .. MaxParts, NEW done \in SUBSET FileId,
           Set(w, Handling(pc, kind, f, b, parts, done)), req[w].pc # "log",
           UNCHANGED <<Disk, History>>,
           kind = "upload" => f \in Local /\ b = f.content /\ pc = "look",
           kind = "sync" => f \in Remote,
           done \subseteq Local \cap logged \cap data,
           begun' \in Nat, trouble' \in Nat
    PROVE  IInv'
<1> DEFINE r == Handling(pc, kind, f, b, parts, done)
<1>1. r \in Request /\ r.pc \in {"register", "look"} /\ Set(w, r)
  BY DEF Handling, Request, Handler
<1>2. UNCHANGED <<target, logged, data, acked, fetched, surplus, raced, damaged>>
  BY DEF Disk, History
<1>3. HandlerInv(r)'
  BY <1>2 DEF HandlerInv, Handling
<1> HIDE DEF r
<1>4. /\ logged \subseteq FileId /\ data \subseteq FileId /\ surplus \subseteq Content
      /\ acked \subseteq Local \cap logged \cap data
      /\ \A g \in Local : g \in logged => target[g.content].exists
      /\ \A g \in Local : g \in data => g \in logged
  BY DEF IInv, TypeOK, FileBeforeName
<1>5. \A c \in Content : CountStays(c)
  BY <1>1, <1>2, CountStaysAside DEF IInv
<1> QED
  BY <1>1, <1>2, <1>3, <1>4, <1>5, QuietStep

LEMMA ReceivedInv ==
    ASSUME IInv, NEW w \in Worker, NEW f \in Local, NEW parts \in 0 .. MaxParts,
           NEW done \in SUBSET FileId, Received(w, "upload", f, f.content, parts, done),
           req[w].pc # "log", UNCHANGED <<Disk, History>>,
           done \subseteq Local \cap logged \cap data, begun' \in Nat, trouble' \in Nat
    PROVE  IInv'
<1>1. f \in FileId /\ f.content \in Content
  BY FileStoreAssumption DEF FileId
<1> QED
  BY <1>1, HandlingInv DEF Received

LEMMA BeginInv ==
    ASSUME IInv, NEW w \in Worker, BeginUpload(w) \/ NextPart(w) \/ BeginSync(w)
    PROVE  IInv'
<1>1. begun \in Nat /\ trouble \in Nat /\ MaxParts \in Nat
  BY FileStoreAssumption DEF IInv, TypeOK
<1>2. /\ Local \subseteq FileId /\ Remote \subseteq FileId
      /\ \A f \in FileId : f.content \in Content
  BY FileStoreAssumption DEF FileId
<1>3. CASE BeginUpload(w)
  <2>1. PICK f \in Local, parts \in 0 .. MaxParts :
           Received(w, "upload", f, f.content, parts, {})
    BY <1>3 DEF BeginUpload
  <2>2. UNCHANGED <<Disk, History>> /\ begun' = begun + 1 /\ trouble' = trouble
        /\ req[w].pc # "log"
    BY <1>3 DEF BeginUpload, BeginStore
  <2>3. begun' \in Nat /\ trouble' \in Nat
    BY <1>1, <2>2
  <2>4. {} \in SUBSET FileId /\ {} \subseteq Local \cap logged \cap data
    OBVIOUS
  <2> QED
    BY <2>1, <2>2, <2>3, <2>4, ReceivedInv
<1>4. CASE NextPart(w)
  <2>1. PICK f \in Local :
           Received(w, "upload", f, f.content, req[w].parts - 1, req[w].done)
    BY <1>4 DEF NextPart
  <2>2. UNCHANGED <<Disk, History>> /\ begun' = begun /\ trouble' = trouble
        /\ req[w].pc # "log"
    BY <1>4 DEF NextPart
  <2>3. req[w] \in Handler /\ HandlerInv(req[w]) /\ req[w].parts > 0
    BY <1>4, HandlerOrIdle DEF NextPart
  <2> DEFINE p == req[w].parts - 1
             d == req[w].done
  <2>4. p \in 0 .. MaxParts /\ d \in SUBSET FileId /\ d \subseteq Local \cap logged \cap data
    BY <1>1, <2>3 DEF Handler, HandlerInv
  <2> HIDE DEF p, d
  <2> QED
    BY <1>1, <2>1, <2>2, <2>4, ReceivedInv DEF p, d
<1>5. CASE BeginSync(w)
  <2>1. PICK f \in Remote : Set(w, Handling("register", "sync", f, f.content, 0, {}))
    BY <1>5 DEF BeginSync
  <2>2. /\ UNCHANGED <<Disk, History>> /\ begun' = begun + 1 /\ trouble' = trouble
        /\ req[w].pc # "log"
    BY <1>5 DEF BeginSync, BeginStore
  <2>3. 0 \in 0 .. MaxParts
    BY <1>1
  <2>4. f \in FileId /\ f.content \in Content
    BY <1>2
  <2> QED
    BY <1>1, <2>1, <2>2, <2>3, <2>4, HandlingInv
<1> QED
  BY <1>3, <1>4, <1>5

LEMMA RegisterInv ==
    ASSUME IInv, NEW w \in Worker, RegisterDownloadingFile(w)
    PROVE  IInv'
<1>1. PICK f : f = req[w].fid
  OBVIOUS
<1>2. req[w].pc = "register" /\ req[w] \in Handler /\ HandlerInv(req[w])
  BY HandlerOrIdle DEF RegisterDownloadingFile
<1>3. f \in Remote /\ f \in FileId /\ f.content \in Content /\ Piece[f.content] \in Content
  <2>1. req[w].kind \in {"upload", "sync"} /\ f \in FileId
    BY <1>1, <1>2 DEF Handler
  <2>2. f \in Remote
    BY <1>1, <1>2, <2>1 DEF HandlerInv
  <2>3. f.content \in Content
    BY <2>1, FileStoreAssumption
  <2>4. Piece \in [Content -> Content]
    BY FileStoreAssumption
  <2> QED
    BY <2>1, <2>2, <2>3, <2>4
<1>4. /\ begun \in Nat /\ trouble \in Nat /\ 0 \in 0 .. MaxParts
      /\ UNCHANGED <<Disk, History>> /\ begun' = begun
      /\ trouble' = trouble \/ trouble' = trouble + 1
  BY FileStoreAssumption DEF IInv, TypeOK, RegisterDownloadingFile, Trouble
<1>5. CASE Set(w, Idle)
  <2>1. Idle.pc \notin {"move", "count", "write", "log"}
    BY DEF Idle
  <2>2. /\ UNCHANGED <<target, logged, data, acked, fetched, surplus, raced, damaged>>
        /\ logged \subseteq FileId /\ data \subseteq FileId /\ surplus \subseteq Content
        /\ acked \subseteq Local \cap logged \cap data
        /\ \A g \in Local : g \in logged => target[g.content].exists
        /\ \A g \in Local : g \in data => g \in logged
    BY <1>4 DEF IInv, TypeOK, FileBeforeName, Disk, History
  <2>3. \A c \in Content : CountStays(c)
    BY <1>2, <1>5, <2>1, <2>2, CountStaysAside DEF IInv
  <2> QED
    BY <1>4, <1>5, <2>1, <2>2, <2>3, HandlerType, QuietStep
<1>6. CASE \/ Received(w, "sync", f, f.content, 0, {})
           \/ Received(w, "sync", f, Piece[f.content], 0, {})
  BY <1>2, <1>3, <1>4, <1>6, HandlingInv DEF Received
<1> QED
  BY <1>1, <1>5, <1>6 DEF RegisterDownloadingFile

\* An upload that is named for the first time still refers to its content.
LEMMA CountStaysNamed ==
    ASSUME IInv, NEW w \in Worker, WriteBinlog(w), NEW c
    PROVE  CountStays(c)
<1>0. PICK k : k = req[w]
  OBVIOUS
<1>1. k \in Handler /\ HandlerInv(k) /\ k.pc = "log" /\ k.fid \in Local /\ k.fid \notin fetched
  <2>1. k \in Handler /\ HandlerInv(k) /\ k.pc = "log"
    BY <1>0, HandlerOrIdle DEF WriteBinlog
  <2>2. k.fid \in Local
    BY <2>1 DEF Handler, HandlerInv
  <2> QED
    BY <2>1, <2>2, FileStoreAssumption DEF IInv, TypeOK
<1>2. /\ Set(w, [k EXCEPT !.pc = "add"]) /\ [k EXCEPT !.pc = "add"].pc = "add"
      /\ logged' = logged \cup {k.fid} /\ fetched' = fetched /\ TypeOK
      /\ surplus' = IF k.fid \in logged THEN surplus \cup {Place(w)} ELSE surplus
  BY <1>0, <1>1 DEF WriteBinlog, Goto, IInv, Handler
<1>3. CASE k.fid \in logged
  BY <1>0, <1>1, <1>2, <1>3, CountStaysLost
<1>4. CASE k.fid \notin logged
  <2>1. /\ IsFiniteSet(Underway(c)) /\ Cardinality(Underway(c)) \in Nat
        /\ IsFiniteSet(Referring(c)) /\ Cardinality(Referring(c)) \in Nat /\ Refs(c) \in Nat
    BY <1>2, RefsFinite DEF TypeOK
  <2>2. w \notin Underway(c)' /\ (w \in Underway(c) <=> k.fid.content = c)
    BY <1>0, <1>1, <1>2, OthersStay DEF Underway, Place
  <2>3. CASE k.fid.content # c
    <3>1. Underway(c)' = Underway(c)
      BY <1>2, <2>2, <2>3, OthersStay, UnderwaySteps
    <3>2. Referring(c)' = Referring(c)
      BY <1>2, <2>3 DEF Referring
    <3> QED
      BY <1>2, <1>4, <2>1, <3>1, <3>2 DEF CountStays, Refs
  <2>4. CASE k.fid.content = c
    <3>1. Underway(c)' = Underway(c) \ {w} /\ w \in Underway(c)
      BY <1>2, <2>2, <2>4, OthersStay, UnderwaySteps
    <3>2. Cardinality(Underway(c)') = Cardinality(Underway(c)) - 1
      BY <2>1, <3>1, FS_RemoveElement
    <3>3. Referring(c)' = Referring(c) \cup {k.fid} /\ k.fid \notin Referring(c)
      BY <1>1, <1>2, <1>4, <2>4 DEF Referring
    <3>4. Cardinality(Referring(c)') = Cardinality(Referring(c)) + 1
      BY <2>1, <3>3, FS_AddElement
    <3>5. Refs(c)' = Refs(c)
      BY <2>1, <3>2, <3>4 DEF Refs
    <3> QED
      BY <1>2, <1>4, <2>1, <3>5 DEF CountStays
  <2> QED
    BY <2>3, <2>4
<1> QED
  BY <1>3, <1>4

LEMMA WriteBinlogInv ==
    ASSUME IInv, NEW w \in Worker, WriteBinlog(w)
    PROVE  IInv'
<1>0. PICK k : k = req[w]
  OBVIOUS
<1> DEFINE r == [k EXCEPT !.pc = "add"]
<1>1. k \in Handler /\ HandlerInv(k) /\ k.pc = "log"
  BY <1>0, HandlerOrIdle DEF WriteBinlog
<1>2. /\ Set(w, r) /\ logged' = logged \cup {k.fid}
      /\ UNCHANGED <<target, data, acked, fetched, raced, damaged, begun, trouble>>
      /\ surplus' \subseteq surplus \cup {Place(w)} /\ Place(w) \in Content
  BY <1>0, <1>1, HandlerOrIdle DEF WriteBinlog, Goto
<1>3. /\ r \in Handler /\ r.pc = "add" /\ r.fid = k.fid /\ r.kind = k.kind /\ r.done = k.done
      /\ r.bytes = k.bytes /\ k.fid \in FileId
  BY <1>1 DEF Handler
<1> HIDE DEF r
<1>4. HandlerInv(r)'
  BY <1>1, <1>2, <1>3 DEF HandlerInv
<1>5. k.kind \in {"upload", "sync"} /\ target[k.fid.content].exists
  BY <1>1 DEF Handler, HandlerInv
<1>6. /\ logged \subseteq FileId /\ data \subseteq FileId /\ begun \in Nat /\ trouble \in Nat
      /\ surplus \subseteq Content
      /\ acked \subseteq Local \cap logged \cap data
      /\ \A g \in Local : g \in logged => target[g.content].exists
      /\ \A g \in Local : g \in data => g \in logged
  BY DEF IInv, TypeOK, FileBeforeName
<1>7. /\ \A g \in Local : g \in logged' => target[g.content].exists
      /\ \A g \in Local : g \in data' => g \in logged'
      /\ acked' \subseteq Local \cap logged' \cap data'
      /\ logged \subseteq logged' /\ logged' \subseteq FileId
      /\ data \subseteq data' /\ data' \subseteq FileId
  BY <1>2, <1>3, <1>5, <1>6
<1>8. \A c \in Content : CountStays(c)
  BY CountStaysNamed
<1> QED
  BY <1>2, <1>3, <1>4, <1>6, <1>7, <1>8, HandlerType, QuietStep

LEMMA AddInv ==
    ASSUME IInv, NEW w \in Worker, Add(w)
    PROVE  IInv'
<1>0. PICK k : k = req[w]
  OBVIOUS
<1> DEFINE r == [k EXCEPT !.pc = "part", !.done = @ \cup {k.fid}]
<1>1. k \in Handler /\ HandlerInv(k) /\ k.pc = "add"
  BY <1>0, HandlerOrIdle DEF Add
<1>2. /\ Set(w, r) /\ data' = data \cup {k.fid}
      /\ UNCHANGED <<target, logged, acked, fetched, surplus, raced, damaged, begun, trouble>>
  BY <1>0 DEF Add, History
<1>3. k.fid \in FileId /\ k.done \subseteq FileId /\ k.kind \in {"upload", "sync"}
  BY <1>1 DEF Handler
<1>4. /\ r \in Handler /\ r.pc = "part" /\ r.fid = k.fid /\ r.kind = k.kind
      /\ r.bytes = k.bytes /\ r.done = k.done \cup {k.fid}
  BY <1>1, <1>3 DEF Handler
<1> HIDE DEF r
<1>5. k.kind = "upload" /\ k.fid \in Local /\ k.fid \in logged
  BY <1>1, <1>3 DEF HandlerInv
<1>6. HandlerInv(r)'
  BY <1>1, <1>2, <1>4, <1>5 DEF HandlerInv
<1>7. /\ logged \subseteq FileId /\ data \subseteq FileId /\ begun \in Nat /\ trouble \in Nat
      /\ surplus \subseteq Content
      /\ acked \subseteq Local \cap logged \cap data
      /\ \A g \in Local : g \in logged => target[g.content].exists
      /\ \A g \in Local : g \in data => g \in logged
  BY DEF IInv, TypeOK, FileBeforeName
<1>8. /\ \A g \in Local : g \in logged' => target[g.content].exists
      /\ \A g \in Local : g \in data' => g \in logged'
      /\ acked' \subseteq Local \cap logged' \cap data'
      /\ logged \subseteq logged' /\ logged' \subseteq FileId
      /\ data \subseteq data' /\ data' \subseteq FileId
  BY <1>2, <1>3, <1>5, <1>7
<1>9. \A c \in Content : CountStays(c)
  BY <1>0, <1>1, <1>2, <1>4, CountStaysAside DEF IInv
<1> QED
  BY <1>2, <1>4, <1>6, <1>7, <1>8, <1>9, HandlerType, QuietStep

LEMMA EndInv ==
    ASSUME IInv, NEW w \in Worker, Reply(w) \/ Fail(w)
    PROVE  IInv'
<1>1. req[w] \in Handler /\ HandlerInv(req[w]) /\ Place(w) \in Content
  BY HandlerOrIdle DEF Reply, Fail
<1>2. /\ Set(w, Idle)
      /\ UNCHANGED <<target, logged, data, fetched, raced, damaged, begun>>
      /\ acked' \subseteq acked \cup req[w].done
      /\ trouble' = trouble \/ trouble' = trouble + 1
  BY DEF Reply, Fail, Disk, Trouble
<1>3. Idle.pc \notin {"move", "count", "write", "log"}
  BY DEF Idle
<1>4. /\ logged \subseteq FileId /\ data \subseteq FileId /\ begun \in Nat /\ trouble \in Nat
      /\ surplus \subseteq Content
      /\ acked \subseteq Local \cap logged \cap data
      /\ \A g \in Local : g \in logged => target[g.content].exists
      /\ \A g \in Local : g \in data => g \in logged
  BY DEF IInv, TypeOK, FileBeforeName
<1>5. acked' \subseteq Local \cap logged' \cap data'
  BY <1>1, <1>2, <1>4 DEF HandlerInv
<1>6. surplus' = IF req[w].pc = "log" THEN surplus \cup {Place(w)} ELSE surplus
  BY DEF Reply, Fail, Unnamed
<1>7. ASSUME NEW c \in Content PROVE CountStays(c)
  <2>1. CASE req[w].pc = "log"
    BY <1>2, <1>3, <1>6, <2>1, CountStaysLost DEF IInv
  <2>2. CASE req[w].pc # "log"
    BY <1>2, <1>3, <1>6, <2>2, CountStaysAside DEF IInv
  <2> QED
    BY <2>1, <2>2
<1>8. surplus' \subseteq Content
  BY <1>1, <1>4, <1>6
<1> QED
  BY <1>2, <1>3, <1>4, <1>5, <1>7, <1>8, HandlerType, QuietStep

LEMMA CrashInv == IInv /\ Crash => IInv'
<1> SUFFICES ASSUME IInv, Crash PROVE IInv'
  OBVIOUS
<1>1. /\ UNCHANGED <<target, logged, data, acked, fetched, raced, damaged, begun>>
      /\ trouble' = trouble + 1 /\ \A w \in Worker : req'[w] = Idle
      /\ req' = [w \in Worker |-> Idle]
      /\ surplus' = surplus \cup Unnamed(Worker)
  BY DEF Crash, Disk, Trouble
<1>2. \A v \in Worker : req'[v].pc \notin {"move", "count", "write", "log"}
  BY <1>1 DEF Idle
<1>3. ASSUME NEW c \in Content PROVE CountStays(c)
  <2>1. /\ Cardinality(Underway(c)) \in Nat /\ Cardinality(Referring(c)) \in Nat
        /\ IsFiniteSet(Underway(c)) /\ Refs(c) \in Nat
    BY RefsFinite DEF IInv, TypeOK
  <2>2. Underway(c)' = {} /\ Referring(c)' = Referring(c)
    BY <1>1, <1>2 DEF Underway, Referring
  <2>3. Cardinality(Underway(c)') = 0
    BY <2>2, FS_EmptySet
  <2>4. Underway(c) # {} => c \in surplus'
    BY <1>1 DEF Underway, Unnamed
  <2>5. Underway(c) = {} => Cardinality(Underway(c)) = 0
    BY FS_EmptySet
  <2> QED
    BY <1>1, <2>1, <2>2, <2>3, <2>4, <2>5 DEF CountStays, Refs
<1>4. \A c \in Content : PlaceInv(c)'
  BY <1>1, <1>2, <1>3, PlacesStay
<1>5. Unnamed(Worker) \subseteq Content
  BY HandlerOrIdle DEF Unnamed
<1>6. TypeOK'
  BY <1>1, <1>5, HandlerType DEF IInv, TypeOK
<1>7. FileBeforeName' /\ (acked \subseteq Local \cap logged \cap data)'
      /\ (\A f \in fetched : target[f.content].exists)'
  BY <1>1 DEF IInv, FileBeforeName
<1>8. \A w \in Worker : (req[w] # Idle => HandlerInv(req[w]))'
  BY <1>1
<1> QED
  BY <1>4, <1>6, <1>7, <1>8 DEF IInv

LEMMA WatchAddsInv ==
    ASSUME IInv, NEW f \in Remote, WatchAdds(f)
    PROVE  IInv'
<1>1. /\ UNCHANGED <<target, req, acked, fetched, surplus, raced, damaged, begun, trouble>>
      /\ logged \subseteq logged' /\ logged' \subseteq logged \cup {f}
      /\ data \subseteq data' /\ data' \subseteq data \cup {f}
  BY DEF WatchAdds, History
<1>2. f \in FileId /\ f \notin Local
  BY FileStoreAssumption DEF FileId
<1>3. ASSUME NEW c \in Content PROVE PlaceInv(c)'
  <2>1. Underway(c)' = Underway(c) /\ Referring(c)' = Referring(c)
    BY <1>1, <1>2 DEF Underway, Place, Referring
  <2>2. Refs(c) \in Nat
    BY RefsFinite DEF IInv, TypeOK
  <2>3. CountStays(c)
    BY <1>1, <2>1, <2>2 DEF CountStays, Refs
  <2> QED
    BY <1>1, <2>3, PlacesStay
<1>4. TypeOK'
  BY <1>1, <1>2 DEF IInv, TypeOK
<1>5. FileBeforeName' /\ (acked \subseteq Local \cap logged \cap data)'
      /\ (\A g \in fetched : target[g.content].exists)'
  BY <1>1, <1>2 DEF IInv, FileBeforeName
<1>6. ASSUME NEW w \in Worker PROVE (req[w] # Idle => HandlerInv(req[w]))'
  BY <1>1 DEF IInv, HandlerInv
<1> QED
  BY <1>3, <1>4, <1>5, <1>6 DEF IInv

-----------------------------------------------------------------------------
(***************************************************************************)
(* A step that places a file: the names stay as they are, so that what is  *)
(* left to show is the handler and the count of its content.               *)
(***************************************************************************)
LEMMA PlacingStep ==
    ASSUME IInv, Grows, UNCHANGED <<logged, data, acked, begun, trouble>>,
           req' \in [Worker -> Request],
           \A v \in Worker : (req[v] # Idle => HandlerInv(req[v]))',
           target' \in [Content -> File], fetched' \subseteq Remote,
           \A f \in fetched' : target'[f.content].exists,
           surplus' \subseteq Content, raced' \subseteq Content, damaged' \subseteq Content,
           \A c \in Content : PlaceInv(c)'
    PROVE  IInv'
<1>1. FileBeforeName'
  <2>1. \A f \in Local : f.content \in Content
    BY FileStoreAssumption DEF FileId
  <2> QED
    BY <2>1 DEF IInv, FileBeforeName, Grows
<1>2. TypeOK'
  BY DEF IInv, TypeOK
<1> QED
  BY <1>1, <1>2 DEF IInv

LEMMA LookInv ==
    ASSUME IInv, NEW w \in Worker, Look(w)
    PROVE  IInv'
<1>0. PICK k : k = req[w]
  OBVIOUS
<1> DEFINE c0 == k.fid.content
<1>1. k \in Handler /\ HandlerInv(k) /\ k.pc = "look" /\ c0 \in Content /\ c0 = Place(w)
  BY <1>0, HandlerOrIdle DEF Look, Place
<1> DEFINE others == {v \in Worker \ {w} : Placing(v) /\ Place(v) = Place(w)}
<1>2. /\ UNCHANGED <<target, logged, data, acked, fetched, surplus, damaged, begun, trouble>>
      /\ raced' = IF others # {} THEN raced \cup {c0} ELSE raced
  BY <1>1 DEF Look, Disk
<1>3. \E r \in Request :
         /\ Set(w, r)
         /\ r = Idle \/ (/\ r \in Handler /\ r.fid = k.fid /\ r.kind = k.kind /\ r.done = k.done
                         /\ r.bytes = k.bytes /\ r.stale = k.stale
                         /\ \/ r.pc = "move" /\ ~target[c0].exists
                            \/ r.pc = "count" /\ target[c0].exists)
  <2>1. CASE ~target[c0].exists /\ Set(w, [k EXCEPT !.pc = "move"])
    <3> DEFINE r == [k EXCEPT !.pc = "move"]
    <3>1. /\ r \in Handler /\ r.fid = k.fid /\ r.kind = k.kind /\ r.done = k.done
          /\ r.bytes = k.bytes /\ r.stale = k.stale /\ r.pc = "move"
      BY <1>1 DEF Handler
    <3> HIDE DEF r
    <3> QED
      BY <2>1, <3>1, HandlerType DEF r
  <2>2. CASE target[c0].exists /\ Set(w, [k EXCEPT !.pc = "count"])
    <3> DEFINE r == [k EXCEPT !.pc = "count"]
    <3>1. /\ r \in Handler /\ r.fid = k.fid /\ r.kind = k.kind /\ r.done = k.done
          /\ r.bytes = k.bytes /\ r.stale = k.stale /\ r.pc = "count"
      BY <1>1 DEF Handler
    <3> HIDE DEF r
    <3> QED
      BY <2>2, <3>1, HandlerType DEF r
  <2>3. CASE Set(w, Idle)
    BY <2>3, HandlerType
  <2> QED
    BY <1>0, <1>1, <2>1, <2>2, <2>3 DEF Look, Goto
<1>4. PICK r \in Request :
         /\ Set(w, r)
         /\ r = Idle \/ (/\ r \in Handler /\ r.fid = k.fid /\ r.kind = k.kind /\ r.done = k.done
                         /\ r.bytes = k.bytes /\ r.stale = k.stale
                         /\ \/ r.pc = "move" /\ ~target[c0].exists
                            \/ r.pc = "count" /\ target[c0].exists)
  BY <1>3
<1>5. Grows
  BY <1>2 DEF Grows
<1>6. r # Idle => HandlerInv(r)'
  BY <1>1, <1>2, <1>4 DEF HandlerInv
<1>7. /\ req' \in [Worker -> Request] /\ req'[w] = r
      /\ \A v \in Worker : (req[v] # Idle => HandlerInv(req[v]))'
  BY <1>4, <1>5, <1>6, HandlersStep
<1>8. \A v \in Worker : v # w => req'[v] = req[v]
  BY <1>4 DEF Set, IInv, TypeOK
<1>9. ASSUME NEW c \in Content PROVE PlaceInv(c)'
  <2>0. Refs(c)' = Refs(c)
    <3>1. r.pc # "log" /\ req[w].pc # "log"
      BY <1>0, <1>1, <1>4 DEF Idle
    <3> QED
      BY <1>2, <1>4, <3>1, CountStaysAside DEF IInv
  <2>1. PlaceInv(c)
    BY DEF IInv
  <2>2. \A v \in Worker : v # w => req'[v] = req[v]
    BY <1>8
  <2>3. ASSUME r = Idle \/ c # c0 PROVE PlaceInv(c)'
    <3>1. ~PlacingAt(c, req'[w])
      BY <1>4, <1>7, <2>3 DEF PlacingAt, Idle
    <3>2. c \notin raced' => c \notin raced
      BY <1>2
    <3> QED
      BY <1>2, <2>0, <2>1, <2>2, <3>1, <3>2 DEF PlaceInv, PlacingAt
  <2>4. ASSUME r # Idle, c = c0 PROVE PlaceInv(c)'
    <3>1. /\ r.fid = k.fid
          /\ \/ r.pc = "move" /\ ~target[c].exists
             \/ r.pc = "count" /\ target[c].exists
      BY <1>4, <2>4
    <3>2. c \notin raced' => c \notin raced
                             /\ \A v \in Worker : v # w => ~PlacingAt(c, req[v])
      BY <1>1, <1>2, <2>4 DEF PlacingAt, Placing, Place
    <3>3. c \notin raced' => \A v \in Worker : v # w => ~PlacingAt(c, req'[v])
      BY <2>2, <3>2
    <3> QED
      BY <1>2, <1>7, <2>0, <2>1, <2>2, <3>1, <3>2, <3>3 DEF PlaceInv, PlacingAt
  <2> QED
    BY <2>3, <2>4
<1>10. raced' \subseteq Content
  BY <1>1, <1>2 DEF IInv, TypeOK
<1>11. /\ target' \in [Content -> File] /\ fetched' \subseteq Remote
       /\ surplus' \subseteq Content /\ damaged' \subseteq Content
       /\ \A f \in fetched' : target'[f.content].exists
  BY <1>2 DEF IInv, TypeOK
<1> QED
  BY <1>2, <1>5, <1>7, <1>9, <1>10, <1>11, PlacingStep

LEMMA ReadCountInv ==
    ASSUME IInv, NEW w \in Worker, ReadCount(w)
    PROVE  IInv'
<1>0. PICK k, n : k = req[w] /\ n = target[Place(w)].count
  OBVIOUS
<1> DEFINE c0 == k.fid.content
           r == [k EXCEPT !.pc = "write", !.n = n]
<1>1. k \in Handler /\ HandlerInv(k) /\ k.pc = "count" /\ c0 \in Content /\ c0 = Place(w)
  BY <1>0, HandlerOrIdle DEF ReadCount, Place
<1>2. /\ UNCHANGED <<target, logged, data, acked, fetched, surplus, raced, damaged, begun, trouble>>
      /\ Set(w, r)
  BY <1>0 DEF ReadCount, Disk, History
<1>3. n \in Nat /\ n = target[c0].count
  BY <1>0, <1>1, FileType DEF IInv
<1>4. /\ r \in Handler /\ r.fid = k.fid /\ r.kind = k.kind /\ r.done = k.done
      /\ r.bytes = k.bytes /\ r.pc = "write" /\ r.n = n /\ r.stale = k.stale
  BY <1>1, <1>3 DEF Handler
<1> HIDE DEF r
<1>5. Grows
  BY <1>2 DEF Grows
<1>6. r \in Request /\ HandlerInv(r)'
  BY <1>1, <1>2, <1>4, HandlerType DEF HandlerInv
<1>7. /\ req' \in [Worker -> Request] /\ req'[w] = r
      /\ \A v \in Worker : (req[v] # Idle => HandlerInv(req[v]))'
  BY <1>2, <1>5, <1>6, HandlersStep
<1>8. \A v \in Worker : v # w => req'[v] = req[v]
  BY <1>2 DEF Set, IInv, TypeOK
<1>9. ASSUME NEW c \in Content PROVE PlaceInv(c)'
  <2>0. Refs(c)' = Refs(c)
    BY <1>0, <1>1, <1>2, <1>4, CountStaysAside DEF IInv
  <2>1. PlaceInv(c)
    BY DEF IInv
  <2>2. \A v \in Worker : PlacingAt(c, req'[v]) <=> PlacingAt(c, req[v])
    BY <1>0, <1>1, <1>4, <1>7, <1>8 DEF PlacingAt
  <2>3. CASE c # c0
    BY <1>0, <1>2, <1>4, <1>7, <1>8, <2>0, <2>1, <2>2, <2>3 DEF PlaceInv, PlacingAt
  <2>4. CASE c = c0
    <3>1. ~k.stale
      BY <1>1 DEF HandlerInv
    <3>2. target[c].count \in Nat /\ target[c].exists
      BY <1>1, <2>4, FileType DEF IInv, HandlerInv
    <3>3. c \notin surplus => \A v \in Worker :
             PlacingAt(c, req'[v]) /\ req'[v].pc = "write" => req'[v].n <= Refs(c)
      BY <1>3, <1>4, <1>7, <1>8, <2>1, <2>4 DEF PlaceInv
    <3>4. c \notin raced => \A v \in Worker : PlacingAt(c, req'[v]) =>
             /\ req'[v].pc = "move" => ~target[c].exists
             /\ req'[v].pc = "write" => req'[v].n = target[c].count /\ ~req'[v].stale
      BY <1>3, <1>4, <1>7, <1>8, <2>1, <2>2, <2>4, <3>1 DEF PlaceInv
    <3> QED
      BY <1>2, <2>0, <2>1, <2>2, <3>3, <3>4 DEF PlaceInv
  <2> QED
    BY <2>3, <2>4
<1>10. /\ target' \in [Content -> File] /\ fetched' \subseteq Remote /\ surplus' \subseteq Content
       /\ raced' \subseteq Content /\ damaged' \subseteq Content
       /\ \A f \in fetched' : target'[f.content].exists
  BY <1>2 DEF IInv, TypeOK
<1> QED
  BY <1>2, <1>5, <1>7, <1>9, <1>10, PlacingStep

\* Where a handler goes when its file is in place.
LEMMA PlacedInv ==
    ASSUME NEW w \in Worker, NEW k \in Handler, k = req[w], HandlerInv(k),
           k.pc \in {"move", "count", "write"}, Grows, target'[k.fid.content].exists
    PROVE  \E r \in Request :
              /\ r = Placed(w)
              /\ r # Idle => r.pc = "log" /\ HandlerInv(r)'
              /\ r.pc \notin {"move", "count", "write"}
<1>1. CASE k.kind = "sync"
  BY <1>1, HandlerType DEF Placed, Idle
<1>2. CASE k.kind # "sync"
  <2> DEFINE r == [k EXCEPT !.pc = "log"]
  <2>1. /\ r \in Handler /\ r.fid = k.fid /\ r.kind = k.kind /\ r.done = k.done
        /\ r.bytes = k.bytes /\ r.pc = "log" /\ k.kind = "upload"
    BY <1>2 DEF Handler
  <2>2. r = Placed(w)
    BY <1>2 DEF Placed
  <2> HIDE DEF r
  <2>3. HandlerInv(r)'
    BY <2>1 DEF HandlerInv, Grows
  <2> QED
    BY <2>1, <2>2, <2>3, HandlerType
<1> QED
  BY <1>1, <1>2

(***************************************************************************)
(* A step that places a file makes a reference to its content and to no    *)
(* other: an upload on its way to the binlog, or the first download of a   *)
(* fileId.  One that was downloaded before makes the count too high.       *)
(***************************************************************************)
LEMMA RefsPlaced ==
    ASSUME IInv, NEW w \in Worker, NEW k \in Handler, k = req[w], HandlerInv(k),
           k.pc \in {"move", "write"}, NoteFetched(w), UNCHANGED logged,
           req'[w] = Placed(w),
           \A v \in Worker \ {w} : /\ req'[v].pc = "log" <=> req[v].pc = "log"
                                   /\ req[v].pc = "log" => req'[v].fid = req[v].fid
    PROVE  /\ fetched' \subseteq Remote /\ surplus' \subseteq Content
           /\ fetched' \subseteq fetched \cup {k.fid}
           /\ \A c \in Content :
                 /\ Refs(c) \in Nat /\ Refs(c)' \in Nat
                 /\ c \in surplus => c \in surplus'
                 /\ c # k.fid.content => Refs(c)' = Refs(c) /\ (c \in surplus' => c \in surplus)
                 /\ Refs(c)' <= Refs(c) + 1
                 /\ c = k.fid.content /\ c \notin surplus' => Refs(c)' = Refs(c) + 1
<1> DEFINE c0 == k.fid.content
<1>1. TypeOK /\ k.fid \in FileId /\ c0 \in Content /\ c0 = Place(w)
  BY FileStoreAssumption DEF IInv, Handler, Place
<1>2. w \notin Underway(c0) /\ \A c : w \notin Underway(c)
  BY DEF Underway
<1>3. k.kind = "upload" \/ (k.kind = "sync" /\ k.fid \in Remote)
  BY DEF HandlerInv, Handler
<1>4. CASE k.kind = "upload"
  <2>1. UNCHANGED <<fetched, surplus>>
    BY <1>4 DEF NoteFetched
  <2>2. req'[w].pc = "log" /\ Place(w)' = c0
    BY <1>4 DEF Placed, Handler, Place
  <2>3. ASSUME NEW c \in Content
        PROVE  /\ Refs(c) \in Nat /\ Refs(c)' \in Nat
               /\ c # c0 => Refs(c)' = Refs(c)
               /\ c = c0 => Refs(c)' = Refs(c) + 1
    <3>1. Referring(c)' = Referring(c)
      BY <2>1 DEF Referring
    <3>2. /\ IsFiniteSet(Underway(c)) /\ Cardinality(Underway(c)) \in Nat /\ Refs(c) \in Nat
          /\ Cardinality(Referring(c)) \in Nat
      BY <1>1, RefsFinite DEF TypeOK
    <3>3. w \in Underway(c)' <=> c = c0
      BY <2>2 DEF Underway
    <3>4. CASE c # c0
      <4>1. Underway(c)' = Underway(c)
        BY <1>2, <3>3, <3>4, UnderwaySteps
      <4> QED
        BY <3>1, <3>2, <3>4, <4>1 DEF Refs
    <3>5. CASE c = c0
      <4>1. Underway(c)' = Underway(c) \cup {w}
        BY <1>2, <3>3, <3>5, UnderwaySteps
      <4>2. Cardinality(Underway(c)') = Cardinality(Underway(c)) + 1
        BY <1>2, <3>2, <4>1, FS_AddElement
      <4> QED
        BY <3>1, <3>2, <3>5, <4>2 DEF Refs
    <3> QED
      BY <3>4, <3>5
  <2> QED
    BY <1>1, <2>1, <2>3 DEF TypeOK
<1>5. CASE k.kind = "sync" /\ k.fid \in Remote
  <2>1. /\ fetched' = fetched \cup {k.fid}
        /\ surplus' = IF k.fid \in fetched THEN surplus \cup {c0} ELSE surplus
    BY <1>1, <1>5 DEF NoteFetched
  <2>2. req'[w].pc = "idle"
    BY <1>5 DEF Placed, Idle
  <2>3. fetched \subseteq Remote /\ fetched' \subseteq Remote /\ surplus' \subseteq Content
        /\ k.fid \notin Local
    BY <1>1, <1>5, <2>1, FileStoreAssumption DEF TypeOK
  <2>4. ASSUME NEW c \in Content
        PROVE  /\ Refs(c) \in Nat /\ Refs(c)' \in Nat
               /\ c # c0 \/ k.fid \in fetched => Refs(c)' = Refs(c)
               /\ c = c0 /\ k.fid \notin fetched => Refs(c)' = Refs(c) + 1
    <3>1. Underway(c)' = Underway(c)
      <4>1. w \notin Underway(c)'
        BY <2>2 DEF Underway
      <4> QED
        BY <1>2, <4>1, UnderwaySteps
    <3>2. /\ IsFiniteSet(Referring(c)) /\ Cardinality(Referring(c)) \in Nat /\ Refs(c) \in Nat
          /\ Cardinality(Underway(c)) \in Nat
      BY <2>3, RefsFinite
    <3>3. CASE c # c0 \/ k.fid \in fetched
      <4>1. Referring(c)' = Referring(c)
        BY <2>1, <3>3 DEF Referring
      <4> QED
        BY <3>1, <3>2, <3>3, <4>1 DEF Refs
    <3>4. CASE c = c0 /\ k.fid \notin fetched
      <4>1. Referring(c)' = Referring(c) \cup {k.fid} /\ k.fid \notin Referring(c)
        BY <2>1, <2>3, <3>4 DEF Referring
      <4>2. Cardinality(Referring(c) \cup {k.fid}) =
               IF k.fid \in Referring(c) THEN Cardinality(Referring(c))
               ELSE Cardinality(Referring(c)) + 1
        BY <3>2, FS_AddElement, Zenon
      <4>3. Cardinality(Referring(c)') = Cardinality(Referring(c)) + 1
        BY <4>1, <4>2
      <4> QED
        BY <3>1, <3>2, <3>4, <4>3 DEF Refs
    <3> HIDE DEF c0
    <3>5. Refs(c) \in Nat /\ Refs(c)' \in Nat
      <4>1. CASE c # c0 \/ k.fid \in fetched
        BY <3>3, <4>1
      <4>2. CASE c = c0 /\ k.fid \notin fetched
        BY <3>4, <4>2
      <4> QED
        BY <4>1, <4>2
    <3> QED
      BY <3>3, <3>4, <3>5
  <2>5. \A c \in Content : c \in surplus => c \in surplus'
    BY <2>1
  <2>6. \A c \in Content : c # c0 => (c \in surplus' => c \in surplus)
    BY <2>1
  <2>7. \A c \in Content : c = c0 /\ c \notin surplus' => k.fid \notin fetched
    BY <2>1
  <2>8. ASSUME NEW c \in Content PROVE Refs(c)' <= Refs(c) + 1
    BY <2>4
  <2> HIDE DEF c0
  <2>9. \A c \in Content : c = c0 /\ c \notin surplus' => Refs(c)' = Refs(c) + 1
    BY <2>4, <2>7
  <2> QED
    BY <2>1, <2>3, <2>4, <2>5, <2>6, <2>8, <2>9 DEF c0
<1> QED
  BY <1>3, <1>4, <1>5

LEMMA WriteCountInv ==
    ASSUME IInv, NEW w \in Worker, WriteCount(w)
    PROVE  IInv'
<1>0. PICK k, n : k = req[w] /\ n = req[w].n
  OBVIOUS
<1> DEFINE c0 == k.fid.content
<1>1. k \in Handler /\ HandlerInv(k) /\ k.pc = "write" /\ c0 \in Content /\ c0 = Place(w)
  BY <1>0, HandlerOrIdle DEF WriteCount, Place
<1>2. n \in Nat /\ k.n = n /\ k.stale \in BOOLEAN /\ target[c0].exists
  BY <1>0, <1>1 DEF Handler, HandlerInv
<1>3. /\ UNCHANGED <<logged, data, acked, raced, damaged, begun, trouble>>
      /\ NoteFetched(w)
      /\ target' = IF k.stale THEN target ELSE [target EXCEPT ![c0].count = n + 1]
      /\ Set(w, Placed(w))
  BY <1>0, <1>1 DEF WriteCount
<1>4. TypeOK
  BY DEF IInv
<1>6. \A c \in Content : c # c0 => target'[c] = target[c]
  BY <1>3, <1>4 DEF TypeOK
<1>7. /\ target'[c0] \in File /\ target'[c0].exists /\ target'[c0].bytes = target[c0].bytes
      /\ target'[c0].count = IF k.stale THEN target[c0].count ELSE n + 1
  <2>1. target[c0] \in [bytes : Content, count : Nat, exists : {TRUE}]
    <3>1. \/ target[c0] = Missing
          \/ target[c0] \in [bytes : Content, count : Nat, exists : {TRUE}]
      BY <1>1, <1>4 DEF TypeOK, File
    <3>2. ~Missing.exists
      BY DEF Missing
    <3> QED
      BY <1>2, <3>1, <3>2
  <2>2. target'[c0] = IF k.stale THEN target[c0] ELSE [target[c0] EXCEPT !.count = n + 1]
    BY <1>1, <1>3, <1>4 DEF TypeOK
  <2>3. PICK t, u : t = target[c0] /\ u = target'[c0]
    OBVIOUS
  <2>4. CASE k.stale
    BY <1>2, <2>1, <2>2, <2>4 DEF File
  <2>5. CASE ~k.stale
    <3>1. u = [t EXCEPT !.count = n + 1] /\ n + 1 \in Nat
      BY <1>2, <2>2, <2>3, <2>5
    <3>2. u \in [bytes : Content, count : Nat, exists : {TRUE}] /\ u.bytes = t.bytes
          /\ u.count = n + 1 /\ u.exists
      BY <2>1, <2>3, <3>1
    <3> QED
      BY <2>3, <2>5, <3>2 DEF File
  <2> QED
    BY <2>4, <2>5
<1>8. target' \in [Content -> File]
  <2>1. DOMAIN target' = Content /\ target' = [c \in Content |-> target'[c]]
    BY <1>3, <1>4 DEF TypeOK
  <2>2. \A c \in Content : target'[c] \in File
    BY <1>4, <1>6, <1>7 DEF TypeOK
  <2> QED
    BY <2>1, <2>2
<1>9. Grows
  BY <1>3, <1>6, <1>7 DEF Grows
<1>10. PICK r \in Request :
          /\ r = Placed(w)
          /\ r # Idle => r.pc = "log" /\ HandlerInv(r)'
          /\ r.pc \notin {"move", "count", "write"}
  BY <1>0, <1>1, <1>7, <1>9, PlacedInv
<1>11. /\ req' \in [Worker -> Request] /\ req'[w] = r
       /\ \A v \in Worker : (req[v] # Idle => HandlerInv(req[v]))'
  BY <1>3, <1>9, <1>10, HandlersStep
<1>12. \A v \in Worker : v # w => req'[v] = req[v]
  BY <1>3, <1>4 DEF Set, TypeOK
<1>13. /\ fetched' \subseteq Remote /\ surplus' \subseteq Content
       /\ fetched' \subseteq fetched \cup {k.fid}
       /\ \A c \in Content :
             /\ Refs(c) \in Nat /\ Refs(c)' \in Nat
             /\ c \in surplus => c \in surplus'
             /\ c # c0 => Refs(c)' = Refs(c) /\ (c \in surplus' => c \in surplus)
             /\ Refs(c)' <= Refs(c) + 1
             /\ c = c0 /\ c \notin surplus' => Refs(c)' = Refs(c) + 1
  <2>1. req'[w] = Placed(w) /\ k.pc \in {"move", "write"}
    BY <1>1, <1>10, <1>11
  <2> QED
    BY <1>0, <1>1, <1>3, <1>12, <2>1, RefsPlaced
<1>14. \A f \in fetched' : target'[f.content].exists
  <2>1. \A f \in fetched : f.content \in Content /\ target[f.content].exists
    BY FileStoreAssumption DEF IInv, TypeOK, FileId
  <2> QED
    BY <1>7, <1>9, <1>13, <2>1 DEF Grows
<1>15. ASSUME NEW c \in Content PROVE PlaceInv(c)'
  <2>1. PlaceInv(c) /\ target[c].count \in Nat /\ Refs(c) \in Nat /\ Refs(c)' \in Nat
    BY <1>4, <1>13, FileType DEF IInv
  <2>2. \A v \in Worker : PlacingAt(c, req'[v])
                             => v # w /\ req'[v] = req[v] /\ PlacingAt(c, req[v])
    BY <1>10, <1>11, <1>12 DEF PlacingAt
  <2>3. CASE c # c0
    <3>1. target'[c] = target[c] /\ Refs(c)' = Refs(c) /\ (c \in surplus' <=> c \in surplus)
      BY <1>6, <1>13, <2>3
    <3> QED
      BY <1>3, <2>1, <2>2, <3>1 DEF PlaceInv
  <2>4. CASE c = c0
    <3>1. PlacingAt(c, req[w])
      BY <1>0, <1>1, <2>4 DEF PlacingAt
    <3>2. c \notin raced => \A v \in Worker : ~PlacingAt(c, req'[v])
      BY <2>1, <2>2, <3>1 DEF PlaceInv
    <3>3. /\ c \notin surplus => n <= Refs(c)
          /\ c \notin raced => n = target[c].count /\ ~k.stale
      BY <1>0, <1>1, <2>1, <3>1 DEF PlaceInv
    <3>4. c \notin surplus' => c \notin surplus /\ Refs(c)' = Refs(c) + 1
      BY <1>13, <2>4
    <3>5. c \notin surplus' => target'[c].count <= Refs(c)'
      <4>1. c \notin surplus' => target[c].count <= Refs(c) /\ n <= Refs(c)
        BY <2>1, <3>3, <3>4 DEF PlaceInv
      <4> QED
        BY <1>2, <1>7, <2>1, <2>4, <3>4, <4>1
    <3>6. c \notin raced => Refs(c)' <= target'[c].count
      <4>1. c \notin raced => target'[c].count = target[c].count + 1 /\ Refs(c) <= target[c].count
        BY <1>7, <2>1, <2>4, <3>3 DEF PlaceInv
      <4>2. Refs(c)' <= Refs(c) + 1
        BY <1>13
      <4> QED
        BY <2>1, <4>1, <4>2
    <3>7. ASSUME NEW v \in Worker, PlacingAt(c, req'[v]), req'[v].pc = "write",
                 c \notin surplus'
          PROVE  req'[v].n <= Refs(c)'
      <4>1. req'[v] = req[v] /\ req[v].n <= Refs(c)
        BY <2>1, <2>2, <3>4, <3>7 DEF PlaceInv
      <4>2. req[v].n \in Nat
        BY <3>7, <4>1, HandlerOrIdle DEF Handler
      <4> QED
        BY <2>1, <3>4, <3>7, <4>1, <4>2
    <3>8. target'[c].exists /\ target'[c].bytes = target[c].bytes /\ target[c].exists
      BY <1>2, <1>7, <2>4
    <3> QED
      BY <1>3, <2>1, <3>2, <3>5, <3>6, <3>7, <3>8 DEF PlaceInv
  <2> QED
    BY <2>3, <2>4
<1>16. raced' \subseteq Content /\ damaged' \subseteq Content
  BY <1>3, <1>4 DEF TypeOK
<1> QED
  BY <1>3, <1>8, <1>9, <1>11, <1>13, <1>14, <1>15, <1>16, PlacingStep

LEMMA MoveFileInv ==
    ASSUME IInv, NEW w \in Worker, MoveFile(w)
    PROVE  IInv'
<1>0. PICK k : k = req[w]
  OBVIOUS
<1> DEFINE c0 == k.fid.content
           file == [bytes |-> k.bytes, count |-> 1, exists |-> TRUE]
<1>1. k \in Handler /\ HandlerInv(k) /\ k.pc = "move" /\ c0 \in Content /\ c0 = Place(w)
  BY <1>0, HandlerOrIdle DEF MoveFile, Place
<1>2. /\ UNCHANGED <<logged, data, acked, raced, begun, trouble>>
      /\ NoteFetched(w)
      /\ target' = [target EXCEPT ![c0] = file]
      /\ damaged' = IF k.bytes = c0 THEN damaged ELSE damaged \cup {c0}
      /\ req' = [v \in Worker |->
                   IF v = w THEN Placed(w)
                   ELSE IF req[v].pc = "write" /\ Place(v) = c0
                        THEN [req[v] EXCEPT !.stale = TRUE]
                   ELSE req[v]]
  BY <1>0, <1>1 DEF MoveFile
<1>3. TypeOK
  BY DEF IInv
<1>5. file \in File /\ file.exists /\ file.count = 1 /\ file.bytes = k.bytes
  BY <1>1 DEF File, Handler
<1>6. /\ target' \in [Content -> File] /\ target'[c0] = file
      /\ \A c \in Content : c # c0 => target'[c] = target[c]
  BY <1>1, <1>2, <1>3, <1>5 DEF TypeOK
<1> HIDE DEF file
<1>7. Grows
  BY <1>2, <1>5, <1>6 DEF Grows
<1>8. PICK r \in Request :
         /\ r = Placed(w)
         /\ r # Idle => r.pc = "log" /\ HandlerInv(r)'
         /\ r.pc \notin {"move", "count", "write"}
  BY <1>0, <1>1, <1>5, <1>6, <1>7, PlacedInv
<1>9. req'[w] = r
  BY <1>2, <1>8
\* The other handlers: one that was about to write a count may now be stale.
<1>10. ASSUME NEW v \in Worker, v # w
       PROVE  \/ req'[v] = req[v]
              \/ /\ req[v] \in Handler /\ req[v].pc = "write" /\ req[v].fid.content = c0
                 /\ req'[v] = [req[v] EXCEPT !.stale = TRUE]
  <2>1. req'[v] = IF req[v].pc = "write" /\ Place(v) = c0
                  THEN [req[v] EXCEPT !.stale = TRUE] ELSE req[v]
    BY <1>2, <1>10
  <2>2. req[v].pc = "write" => req[v] \in Handler
    BY HandlerOrIdle
  <2> QED
    BY <2>1, <2>2 DEF Place
<1>11. ASSUME NEW v \in Worker
       PROVE  req'[v] \in Request /\ (req[v] # Idle => HandlerInv(req[v]))'
  <2>1. CASE v = w
    BY <1>8, <1>9, <2>1 DEF HandlerInv
  <2>2. CASE v # w /\ req'[v] = req[v]
    <3>1. PICK h : h = req[v]
      OBVIOUS
    <3>2. h # Idle => h \in Handler /\ HandlerInv(h)
      BY <3>1, HandlerOrIdle
    <3>3. h # Idle => HandlerInv(h)'
      BY <1>7, <3>2, HandlerStays
    <3>4. h \in Request
      BY <3>1, <1>3 DEF TypeOK
    <3> QED
      BY <2>2, <3>1, <3>3, <3>4 DEF HandlerInv
  <2>3. CASE /\ v # w /\ req[v] \in Handler /\ req[v].pc = "write"
             /\ req'[v] = [req[v] EXCEPT !.stale = TRUE]
    <3>1. PICK h : h = req[v]
      OBVIOUS
    <3> DEFINE s == [h EXCEPT !.stale = TRUE]
    <3>2. h \in Handler /\ h.pc = "write" /\ HandlerInv(h)
      BY <2>3, <3>1, HandlerOrIdle
    <3>3. HandlerInv(h)'
      BY <1>7, <3>2, HandlerStays
    <3>4. /\ s \in Handler /\ s.pc = "write" /\ s.fid = h.fid /\ s.kind = h.kind
          /\ s.bytes = h.bytes /\ s.done = h.done
      BY <3>2 DEF Handler
    <3>5. req'[v] = s
      BY <2>3, <3>1
    <3> HIDE DEF s
    <3> QED
      BY <3>2, <3>3, <3>4, <3>5, HandlerType DEF HandlerInv
  <2> QED
    BY <1>10, <2>1, <2>2, <2>3
<1>12. req' \in [Worker -> Request]
  BY <1>2, <1>11
<1>13. ASSUME NEW c \in Content, NEW v \in Worker, PlacingAt(c, req'[v])
       PROVE  /\ v # w /\ PlacingAt(c, req[v])
              /\ req'[v].pc = req[v].pc /\ req'[v].n = req[v].n
              /\ c # c0 => req'[v] = req[v]
  <2>1. v # w
    BY <1>8, <1>9, <1>13 DEF PlacingAt
  <2>2. CASE req'[v] = req[v]
    BY <1>13, <2>1, <2>2
  <2>3. CASE /\ req[v] \in Handler /\ req[v].pc = "write" /\ req[v].fid.content = c0
             /\ req'[v] = [req[v] EXCEPT !.stale = TRUE]
    <3>1. /\ req'[v].pc = "write" /\ req'[v].n = req[v].n /\ req'[v].fid = req[v].fid
      BY <2>3 DEF Handler
    <3> QED
      BY <1>13, <2>1, <2>3, <3>1 DEF PlacingAt
  <2> QED
    BY <1>10, <2>1, <2>2, <2>3
<1>14. /\ fetched' \subseteq Remote /\ surplus' \subseteq Content
       /\ fetched' \subseteq fetched \cup {k.fid}
       /\ \A c \in Content :
             /\ Refs(c) \in Nat /\ Refs(c)' \in Nat
             /\ c \in surplus => c \in surplus'
             /\ c # c0 => Refs(c)' = Refs(c) /\ (c \in surplus' => c \in surplus)
             /\ Refs(c)' <= Refs(c) + 1
             /\ c = c0 /\ c \notin surplus' => Refs(c)' = Refs(c) + 1
  <2>1. req'[w] = Placed(w) /\ k.pc \in {"move", "write"}
    BY <1>1, <1>8, <1>9
  <2>2. ASSUME NEW v \in Worker \ {w}
        PROVE  /\ req'[v].pc = "log" <=> req[v].pc = "log"
               /\ req[v].pc = "log" => req'[v].fid = req[v].fid
    <3>1. CASE req'[v] = req[v]
      BY <3>1
    <3>2. CASE /\ req[v] \in Handler /\ req[v].pc = "write"
               /\ req'[v] = [req[v] EXCEPT !.stale = TRUE]
      <4>1. req'[v].pc = "write"
        BY <3>2 DEF Handler
      <4> QED
        BY <3>2, <4>1
    <3> QED
      BY <1>10, <3>1, <3>2
  <2> QED
    BY <1>0, <1>1, <1>2, <2>1, <2>2, RefsPlaced
<1>15. \A f \in fetched' : target'[f.content].exists
  <2>1. \A f \in fetched : f.content \in Content /\ target[f.content].exists
    BY FileStoreAssumption DEF IInv, TypeOK, FileId
  <2> QED
    BY <1>5, <1>6, <1>7, <1>14, <2>1 DEF Grows
<1>16. ASSUME NEW c \in Content PROVE PlaceInv(c)'
  <2>1. PlaceInv(c) /\ target[c].count \in Nat /\ Refs(c) \in Nat /\ Refs(c)' \in Nat
    BY <1>3, <1>14, FileType DEF IInv
  <2>2. CASE c # c0
    <3>1. /\ target'[c] = target[c] /\ raced' = raced /\ (c \in damaged' <=> c \in damaged)
          /\ Refs(c)' = Refs(c) /\ (c \in surplus' <=> c \in surplus)
      BY <1>2, <1>6, <1>14, <2>2
    <3>2. \A v \in Worker : PlacingAt(c, req'[v]) => PlacingAt(c, req[v]) /\ req'[v] = req[v]
      BY <1>13, <2>2
    <3> QED
      BY <2>1, <3>1, <3>2 DEF PlaceInv
  <2>3. CASE c = c0
    <3>1. PlacingAt(c, req[w]) /\ req[w].pc = "move"
      BY <1>0, <1>1, <2>3 DEF PlacingAt
    <3>2. c \notin raced => ~target[c].exists /\ \A v \in Worker : ~PlacingAt(c, req'[v])
      BY <1>13, <2>1, <3>1 DEF PlaceInv
    <3>3. target'[c].exists /\ target'[c].count = 1 /\ target'[c].bytes = k.bytes
      BY <1>5, <1>6, <2>3
    <3>4. c \notin damaged' => k.bytes = c
      BY <1>2, <2>3
    <3>5. c \notin surplus' => c \notin surplus /\ Refs(c)' = Refs(c) + 1
      BY <1>14, <2>3
    <3>6. c \notin raced => Refs(c)' <= 1
      <4>1. c \notin raced => Refs(c) = 0
        BY <3>2, MissingUnreferred
      <4>2. Refs(c)' <= Refs(c) + 1
        BY <1>14
      <4> QED
        BY <2>1, <4>1, <4>2
    <3>7. ASSUME NEW v \in Worker, PlacingAt(c, req'[v]), req'[v].pc = "write",
                 c \notin surplus'
          PROVE  req'[v].n <= Refs(c)'
      <4>1. PlacingAt(c, req[v]) /\ req[v].pc = "write" /\ req'[v].n = req[v].n
        BY <1>13, <3>7
      <4>2. req[v].n <= Refs(c)
        BY <2>1, <3>5, <3>7, <4>1 DEF PlaceInv
      <4>3. req[v].n \in Nat
        BY <4>1, HandlerOrIdle DEF Handler
      <4> QED
        BY <2>1, <3>5, <3>7, <4>1, <4>2, <4>3
    <3>8. c \notin surplus' => target'[c].count <= Refs(c)'
      BY <2>1, <3>3, <3>5
    <3> QED
      BY <1>2, <3>2, <3>3, <3>4, <3>6, <3>7, <3>8 DEF PlaceInv
  <2> QED
    BY <2>2, <2>3
<1>17. raced' \subseteq Content /\ damaged' \subseteq Content
  BY <1>1, <1>2, <1>3 DEF TypeOK
<1> QED
  BY <1>2, <1>6, <1>7, <1>11, <1>12, <1>14, <1>15, <1>16, <1>17, PlacingStep

-----------------------------------------------------------------------------
LEMMA InitIInv == Init => IInv
<1> SUFFICES ASSUME Init PROVE IInv
  OBVIOUS
<1>1. TypeOK
  BY DEF Init, TypeOK, File, Request
<1>2. \A w \in Worker : req[w] = Idle
  BY DEF Init
<1>3. ASSUME NEW c \in Content PROVE PlaceInv(c)
  <2>1. \A w \in Worker : ~PlacingAt(c, req[w])
    BY <1>2 DEF PlacingAt, Idle
  <2>2. target[c].count = 0 /\ ~target[c].exists
    BY DEF Init, Missing
  <2>3. Refs(c) = 0
    <3>1. Referring(c) = {} /\ Underway(c) = {}
      BY <1>2 DEF Init, Referring, Underway, Idle
    <3> QED
      BY <3>1, FS_EmptySet DEF Refs
  <2> QED
    BY <2>1, <2>2, <2>3 DEF PlaceInv
<1> QED
  BY <1>1, <1>2, <1>3 DEF IInv, Init, FileBeforeName

LEMMA StepIInv == IInv /\ [Next]_vars => IInv'
<1> SUFFICES ASSUME IInv, [Next]_vars PROVE IInv'
  OBVIOUS
<1>1. Upload \subseteq Worker /\ Sync \subseteq Worker
  BY DEF Worker
<1>2. CASE UNCHANGED vars
  <2>1. UNCHANGED <<target, logged, data, req, acked, fetched, surplus, raced, damaged, begun,
                   trouble>>
    BY <1>2 DEF vars
  <2>2. ASSUME NEW c \in Content PROVE PlaceInv(c)'
    <3>1. Refs(c)' = Refs(c) /\ Refs(c) \in Nat
      BY <2>1, RefsFinite DEF Refs, Referring, Underway, Place, IInv, TypeOK
    <3>2. CountStays(c)
      BY <2>1, <3>1 DEF CountStays
    <3> QED
      BY <2>1, <3>2, PlacesStay
  <2>3. \A w \in Worker : (req[w] # Idle => HandlerInv(req[w]))'
    BY <2>1 DEF IInv, HandlerInv
  <2> QED
    BY <2>1, <2>2, <2>3 DEF IInv, TypeOK, FileBeforeName
<1> QED
  BY <1>1, <1>2, BeginInv, RegisterInv, WatchAddsInv, CrashInv, LookInv, MoveFileInv, ReadCountInv,
     WriteCountInv, WriteBinlogInv, AddInv, EndInv DEF Next, StoreStep

-----------------------------------------------------------------------------
(***************************************************************************)
(* seekRead, for every file and every request: a range whose end is an     *)
(* int64 is the slice it names, cut off at the end of the content.         *)
(***************************************************************************)
LEMMA SeekReadSlices ==
    ASSUME NEW all \in Nat, all + Tail <= IntMax, NEW offset \in 0 .. IntMax,
           NEW length \in -1 .. IntMax, Least(offset, all) + length <= IntMax
    PROVE  LET r    == SeekRead(all + Tail, offset, length)
               from == Least(offset, all)
           IN  /\ r.from = from
               /\ r.to = IF length = -1 THEN all ELSE Least(from + length, all)
               /\ r.declared = r.to - r.from
<1> DEFINE from == Least(offset, all)
           wraps == length = -1 \/ Wrapped(from + length) >= all
           n == IF wraps THEN all - from ELSE length
           r == SeekRead(all + Tail, offset, length)
<1>1. IntMax \in Nat /\ Tail = 4
  BY FileStoreAssumption DEF Tail
<1>2. from \in 0 .. all /\ from = IF offset >= all THEN all ELSE offset
  BY <1>1 DEF Least
<1>3. wraps <=> length = -1 \/ from + length >= all
  <2>1. length # -1 => Wrapped(from + length) = from + length
    BY <1>1, <1>2, WrappedKeeps
  <2> QED
    BY <2>1
<1>4. /\ r.from = from /\ r.declared = n
      /\ r.to = IF n > all + Tail - from THEN all + Tail ELSE from + n
  <2>1. all \in Int /\ offset \in Int /\ length \in Int /\ from \in Int
    BY <1>1, <1>2
  <2>2. r.from = from
    BY <2>1 DEF SeekRead, Least, Tail
  <2>3. r.declared = n
    BY <2>1 DEF SeekRead, Least, Tail
  <2>4. r.to = IF n > all + Tail - from THEN all + Tail ELSE from + n
    BY <2>1 DEF SeekRead, Least, Tail
  <2> QED
    BY <2>2, <2>3, <2>4
<1> HIDE DEF from, wraps
<1>5. n \in Int /\ n <= all - from /\ ~(n > all + Tail - from)
  BY <1>1, <1>2, <1>3
<1>6. from + n = IF length = -1 THEN all ELSE Least(from + length, all)
  BY <1>2, <1>3 DEF Least
<1> HIDE DEF n
<1>7. r.from = from /\ r.declared = n /\ r.to = from + n
  BY <1>4, <1>5
<1>8. (from + n) - from = n
  BY <1>2, <1>5
<1> QED
  BY <1>6, <1>7, <1>8 DEF from

\* What is acknowledged is on disk, under its name and in both sets.
LEMMA AckedThere ==
    ASSUME IInv, NEW f \in acked
    PROVE  /\ f \in logged /\ f \in data /\ f.content \in Content
           /\ target[f.content].exists
           /\ target[f.content].bytes \in Content
           /\ Length[target[f.content].bytes] \in Nat
           /\ Length[target[f.content].bytes] + Tail <= IntMax
           /\ f.content \notin damaged => target[f.content].bytes = f.content
<1>1. f \in Local /\ f \in logged /\ f \in data
  BY DEF IInv
<1>2. f.content \in Content /\ target[f.content].exists
  BY <1>1, FileStoreAssumption DEF IInv, FileBeforeName, FileId
<1>3. target[f.content].bytes \in Content
  BY <1>2, FileType DEF IInv
<1>4. f.content \notin damaged => target[f.content].bytes = f.content
  BY <1>2 DEF IInv, PlaceInv
<1> QED
  BY <1>1, <1>2, <1>3, <1>4, FileStoreAssumption, SizeAssumption

LEMMA RangeIsServed ==
    ASSUME IInv, NEW f \in acked, NEW offset \in 0 .. IntMax, NEW length \in -1 .. IntMax,
           NEW all, all = Length[target[f.content].bytes],
           Least(offset, all) + length <= IntMax
    PROVE  LET r    == Download(f, offset, length)
               from == Least(offset, all)
           IN  /\ r.found
               /\ r.bytes = target[f.content].bytes
               /\ r.from = from
               /\ r.to = IF length = -1 THEN all ELSE Least(from + length, all)
               /\ r.declared = r.to - r.from
<1>1. all \in Nat /\ all + Tail <= IntMax /\ target[f.content].exists
  BY AckedThere
<1> DEFINE r == SeekRead(all + Tail, offset, length)
           d == Download(f, offset, length)
<1>2. d = [found |-> TRUE, bytes |-> target[f.content].bytes, from |-> r.from, to |-> r.to,
           declared |-> r.declared]
  BY <1>1 DEF Download
<1>3. /\ r.from = Least(offset, all)
      /\ r.to = IF length = -1 THEN all ELSE Least(Least(offset, all) + length, all)
      /\ r.declared = r.to - r.from
  BY <1>1, SeekReadSlices
<1> HIDE DEF r
<1>4. /\ d.found = TRUE /\ d.bytes = target[f.content].bytes /\ d.from = r.from /\ d.to = r.to
      /\ d.declared = r.declared
  BY <1>2
<1> HIDE DEF d
<1> QED
  BY <1>3, <1>4 DEF d

-----------------------------------------------------------------------------
\* The inductive invariant holds of every reachable state.
THEOREM StoreInvariant == Spec => []IInv
  BY InitIInv, StepIInv, PTL DEF Spec

\* Every variable keeps its type, and a form never has more parts to come
\* than it had.
THEOREM StoreTypes == Spec => []TypeOK
<1>1. IInv => TypeOK
  BY DEF IInv
<1> QED
  BY <1>1, StoreInvariant, PTL

\* A fileId of this server is in the binlog only once its file is in place,
\* and in the dataset only once it is in the binlog, whatever handlers race,
\* fail or crash.
THEOREM NamesFollowFiles == Spec => []FileBeforeName
<1>1. IInv => FileBeforeName
  BY DEF IInv
<1> QED
  BY <1>1, StoreInvariant, PTL

\* The reference count is not below the fileIds that refer to the file for a
\* content that no two handlers placed at the same time, and not above them
\* for one of which no reference was lost after it was counted.
THEOREM CountsSound == Spec => []CountSound
<1>1. IInv => CountSound
  BY DEF IInv, PlaceInv, CountSound
<1> QED
  BY <1>1, StoreInvariant, PTL

\* Every range of an acknowledged file that can be added up in an int64 is
\* served as the slice it names, for every size, offset and length.
THEOREM RangesServed == Spec => []RangeServed
<1>1. IInv => RangeServed
  <2> SUFFICES ASSUME IInv, NEW f \in acked, NEW offset \in 0 .. IntMax,
                      NEW length \in -1 .. IntMax,
                      Least(offset, Length[target[f.content].bytes]) + length <= IntMax
               PROVE  LET r    == Download(f, offset, length)
                          all  == Length[target[f.content].bytes]
                          from == Least(offset, all)
                      IN  /\ r.from = from
                          /\ r.to = IF length = -1 THEN all ELSE Least(from + length, all)
                          /\ r.declared = r.to - r.from
    BY DEF RangeServed
  <2> QED
    BY RangeIsServed
<1> QED
  BY <1>1, StoreInvariant, PTL

\* What an upload was answered for is in the binlog and served, by HTTP and
\* TCP alike and also to who asks for the length that inspect reports; with
\* the bytes uploaded, unless a download that was cut replaced the file.
THEOREM AckedIsServed == Spec => []AckedServed
<1>1. ASSUME IInv, NEW f \in acked
      PROVE  /\ f \in logged
             /\ HttpDownload(f).found
             /\ Download(f, 0, -1) = HttpDownload(f)
             /\ Download(f, 0, Inspect(f)) = HttpDownload(f)
             /\ f.content \notin damaged => HttpDownload(f).bytes = f.content
  <2> DEFINE t == target[f.content]
             all == Length[t.bytes]
  <2>1. /\ f \in logged /\ f \in data /\ t.exists /\ all \in Nat /\ all + Tail <= IntMax
        /\ f.content \notin damaged => t.bytes = f.content
    BY <1>1, AckedThere
  <2>2. HttpDownload(f) = [found |-> TRUE, bytes |-> t.bytes, from |-> 0, to |-> all,
                           declared |-> all]
    BY <2>1 DEF HttpDownload
  <2>3. IntMax \in Nat /\ Tail = 4
    BY FileStoreAssumption DEF Tail
  <2>4. ASSUME NEW length \in {-1, all + Tail}
        PROVE  SeekRead(all + Tail, 0, length).from = 0
               /\ SeekRead(all + Tail, 0, length).to = all
               /\ SeekRead(all + Tail, 0, length).declared = all
    <3> HIDE DEF all
    <3>1. length \in -1 .. IntMax /\ Least(0, all) = 0 /\ 0 \in 0 .. IntMax
          /\ Least(0, all) + length <= IntMax
      BY <2>1, <2>3, <2>4 DEF Least
    <3>2. (IF length = -1 THEN all ELSE Least(0 + length, all)) = all
      BY <2>1, <2>3, <2>4 DEF Least
    <3> DEFINE r == SeekRead(all + Tail, 0, length)
    <3>3. r.from = 0 /\ r.to = all /\ r.declared = r.to - r.from
      BY <2>1, <3>1, <3>2, SeekReadSlices
    <3> HIDE DEF r
    <3>4. all - 0 = all
      BY <2>1
    <3>5. r.declared = all
      BY <3>3, <3>4
    <3> QED
      BY <3>3, <3>5 DEF r
  <2>5. ASSUME NEW length \in {-1, all + Tail}
        PROVE  Download(f, 0, length) = HttpDownload(f)
    BY <2>1, <2>2, <2>4, <2>5 DEF Download
  <2>6. Inspect(f) = all + Tail
    BY <2>1 DEF Inspect
  <2> QED
    BY <2>1, <2>2, <2>5, <2>6
<1>2. IInv => AckedServed
  BY <1>1 DEF AckedServed
<1> QED
  BY <1>2, StoreInvariant, PTL
=============================================================================
