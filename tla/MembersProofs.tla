---------------------------- MODULE MembersProofs ---------------------------
(***************************************************************************)
(* What holds of the registry, the instances and the secrets for any       *)
(* trackers, servers, numbers of connections and histories of failures.    *)
(***************************************************************************)
EXTENDS Members, TLAPS

-----------------------------------------------------------------------------
(***************************************************************************)
(* Types.  Every action sets at most one entry, one connection and the     *)
(* secrets of one process; the lemmas say once what that leaves alone.     *)
(***************************************************************************)
EntryType == entry \in [Tracker -> [Node -> Entry]]

ConnType ==
    /\ DOMAIN conn = Tracker
    /\ \A t \in Tracker :
         /\ DOMAIN conn[t] = Node
         /\ \A n \in Node : conn[t][n] \in [1 .. Slots[n] -> Conn]

SecretType ==
    /\ disk \in [Process -> SUBSET Secret]
    /\ mem \in [Process -> SUBSET Secret]
    /\ keys \in [Process -> SUBSET Secret]
    /\ unsaved \subseteq Process

LEMMA EntrySet ==
    ASSUME EntryType, NEW t \in Tracker, NEW n \in Node, NEW e \in Entry,
           SetEntry(t, n, e)
    PROVE  /\ EntryType'
           /\ entry'[t][n] = e
           /\ \A u \in Tracker, m \in Node :
                  u # t \/ m # n => entry'[u][m] = entry[u][m]
  BY DEF EntryType, SetEntry

LEMMA ConnSet ==
    ASSUME ConnType, NEW t \in Tracker, NEW n \in Node, NEW s \in 1 .. Slots[n],
           NEW c \in Conn, SetConn(t, n, s, c)
    PROVE  /\ ConnType'
           /\ conn'[t][n][s] = c
           /\ \A u \in Tracker, m \in Node : \A x \in 1 .. Slots[m] :
                  u # t \/ m # n \/ x # s => conn'[u][m][x] = conn[u][m][x]
  <1> USE DEF ConnType
  <1>1. conn' = [conn EXCEPT ![t] = [conn[t] EXCEPT ![n] = [conn[t][n] EXCEPT ![s] = c]]]
    BY DEF SetConn
  <1>2. DOMAIN conn' = Tracker
    BY <1>1
  <1>3. ASSUME NEW u \in Tracker, u # t  PROVE conn'[u] = conn[u]
    BY <1>1, <1>3
  <1>4. conn'[t] = [conn[t] EXCEPT ![n] = [conn[t][n] EXCEPT ![s] = c]]
    BY <1>1
  <1>5. DOMAIN conn'[t] = Node
    BY <1>4
  <1>6. ASSUME NEW m \in Node, m # n  PROVE conn'[t][m] = conn[t][m]
    BY <1>4, <1>6
  <1>7. conn'[t][n] = [conn[t][n] EXCEPT ![s] = c]
    BY <1>4
  <1>8. conn'[t][n] \in [1 .. Slots[n] -> Conn]
    BY <1>7
  <1>9. ConnType'
    <2> SUFFICES ASSUME NEW u \in Tracker, NEW m \in Node
                 PROVE  DOMAIN conn'[u] = Node /\ conn'[u][m] \in [1 .. Slots[m] -> Conn]
      BY <1>2
    <2>1. CASE u # t
      BY <1>3, <2>1
    <2>2. CASE u = t
      BY <1>5, <1>6, <1>8, <2>2
    <2> QED  BY <2>1, <2>2
  <1>10. conn'[t][n][s] = c
    BY <1>7
  <1>11. ASSUME NEW u \in Tracker, NEW m \in Node, NEW x \in 1 .. Slots[m],
                u # t \/ m # n \/ x # s
         PROVE  conn'[u][m][x] = conn[u][m][x]
    <2>1. CASE u # t
      BY <1>3, <2>1
    <2>2. CASE u = t /\ m # n
      BY <1>6, <2>2
    <2>3. CASE u = t /\ m = n
      BY <1>7, <1>11, <2>3
    <2> QED  BY <2>1, <2>2, <2>3
  <1> QED  BY <1>9, <1>10, <1>11

\* StoreSecrets adds to memory and keys, and to the disk if no save fails.
LEMMA SecretsStored ==
    ASSUME SecretType, trouble \in Nat, NEW p \in Process, NEW S \in SUBSET Secret,
           StoreSecrets(p, S)
    PROVE  /\ SecretType'
           /\ trouble' \in Nat
           /\ \A q \in Process : mem[q] \subseteq mem'[q] /\ keys[q] \subseteq keys'[q]
                                /\ disk[q] \subseteq disk'[q]
           /\ MemoryOnDisk => MemoryOnDisk'
  <1> DEFINE new == S \ mem[p]
  <1>1. /\ mem' = [mem EXCEPT ![p] = @ \cup S]
        /\ keys' = [keys EXCEPT ![p] = @ \cup new]
    BY DEF StoreSecrets
  <1>2. CASE disk' = [disk EXCEPT ![p] = @ \cup new] /\ UNCHANGED <<unsaved, trouble>>
    BY <1>1, <1>2 DEF SecretType, MemoryOnDisk
  <1>3. CASE /\ Trouble
             /\ \E saved \in SUBSET new :
                   saved # new /\ disk' = [disk EXCEPT ![p] = @ \cup saved]
             /\ unsaved' = unsaved \cup {p}
    BY <1>1, <1>3 DEF SecretType, MemoryOnDisk, Trouble
  <1> QED  BY <1>2, <1>3 DEF StoreSecrets

\* What the two ends of a connection become is a connection, registered or not.
LEMMA ConnEnds ==
    ASSUME NEW c \in Conn
    PROVE  /\ Closed(c) \in Conn
           /\ Registered(c) <=> Registered(Closed(c))
           /\ c.st \in {"open", "late"} =>
                  /\ c.ins \in Instance
                  /\ [c EXCEPT !.st = IF c.st = "open" THEN "up" ELSE "gone"] \in Conn
  <1>1. CASE c = NoConn
    BY <1>1 DEF Conn, NoConn, Closed, Registered
  <1>2. CASE c \in [st : {"open", "late", "up", "gone"}, ins : Instance]
    BY <1>2 DEF Conn, NoConn, Closed, Registered
  <1> QED  BY <1>1, <1>2 DEF Conn

\* Entries stay entries.
LEMMA EntryEnds ==
    ASSUME NEW e \in Entry
    PROVE  /\ Freed(e) \in Entry /\ Freed(e).state # "hold"
           /\ e.state = "free" => [e EXCEPT !.due = TRUE] \in Entry
           /\ e # Absent => e.ins \in Instance
  <1>1. CASE e = Absent
    BY <1>1 DEF Entry, Absent, Freed
  <1>2. CASE e \in [state : {"hold", "free"}, ins : Instance, due : BOOLEAN]
    <2>1. e # Absent
      BY <1>2 DEF Absent
    <2>2. Freed(e) = [e EXCEPT !.state = "free", !.due = FALSE]
      BY <2>1 DEF Freed
    <2>3. [e EXCEPT !.due = TRUE] \in Entry
      BY <1>2 DEF Entry
    <2>4. Freed(e) \in Entry /\ Freed(e).state = "free"
      BY <1>2, <2>2 DEF Entry
    <2> QED  BY <1>2, <2>3, <2>4
  <1> QED  BY <1>1, <1>2 DEF Entry

\* A snapshot is an answer, and an answer has instances of servers.
LEMMA Answers ==
    ASSUME EntryType
    PROVE  /\ NoAnswer \in Answer
           /\ \A t \in Tracker : InstanceSetSnapshot(t) \in Answer
           /\ \A a \in Answer : \A n \in DOMAIN a : n \in Node /\ a[n] \in Instance
  <1>1. NoAnswer \in Answer
    <2>1. NoAnswer \in [{} -> Instance]
      BY DEF NoAnswer
    <2> QED  BY <2>1 DEF Answer
  <1>2. ASSUME NEW t \in Tracker  PROVE InstanceSetSnapshot(t) \in Answer
    <2> DEFINE N == {x \in Node : entry[t][x] # Absent}
    <2>1. \A n \in N : entry[t][n].ins \in Instance
      BY EntryEnds DEF EntryType
    <2>2. InstanceSetSnapshot(t) \in [N -> Instance]
      BY <2>1 DEF InstanceSetSnapshot
    <2>3. N \in SUBSET Node
      OBVIOUS
    <2> QED  BY <2>2, <2>3 DEF Answer
  <1>3. ASSUME NEW a \in Answer, NEW n \in DOMAIN a  PROVE n \in Node /\ a[n] \in Instance
    BY DEF Answer
  <1> QED  BY <1>1, <1>2, <1>3

-----------------------------------------------------------------------------
LEMMA TypesSplit ==
    TypeOK <=>
        /\ EntryType /\ ConnType /\ SecretType
        /\ up \subseteq Node
        /\ me \in [Node -> Instance]
        /\ robbed \subseteq Node
        /\ trouble \in Nat
        /\ known \in [Watcher -> [Node -> Known]]
        /\ answer \in [Tracker -> [Watcher -> Answer]]
        /\ used \in [Node -> SUBSET Secret]
  BY DEF TypeOK, RegTypeOK, EntryType, ConnType, SecretType

LEMMA TypesBegin == Init => TypeOK
  <1> SUFFICES ASSUME Init PROVE TypeOK
    OBVIOUS
  <1> USE MembersAssumption, RegistryAssumption DEF Init, RegInit
  <1>1. EntryType
    BY DEF EntryType, Entry
  <1>2. ConnType
    BY DEF ConnType, Conn
  <1>3. me \in [Node -> Instance] /\ used \in [Node -> SUBSET Secret]
    BY DEF Instance
  <1>4. SecretType
    BY <1>3 DEF SecretType, Process, Instance
  <1>5. known \in [Watcher -> [Node -> Known]]
    BY DEF Known, Unknown
  <1>6. answer \in [Tracker -> [Watcher -> Answer]]
    BY <1>1, Answers
  <1>7. up \subseteq Node /\ robbed \subseteq Node /\ trouble \in Nat
    OBVIOUS
  <1> QED  BY <1>1, <1>2, <1>3, <1>4, <1>5, <1>6, <1>7, TypesSplit

LEMMA TypesKept == TypeOK /\ [Next]_vars => TypeOK'
  <1> SUFFICES ASSUME TypeOK, [Next]_vars PROVE TypeOK'
    OBVIOUS
  <1>t. /\ EntryType /\ ConnType /\ SecretType
        /\ up \subseteq Node
        /\ me \in [Node -> Instance]
        /\ robbed \subseteq Node
        /\ trouble \in Nat
        /\ known \in [Watcher -> [Node -> Known]]
        /\ answer \in [Tracker -> [Watcher -> Answer]]
        /\ used \in [Node -> SUBSET Secret]
    BY TypesSplit
  <1>n. Trouble => trouble' \in Nat
    BY <1>t DEF Trouble
  <1>1. ASSUME NEW n \in Node, Stop(n)  PROVE TypeOK'
    <2> USE <1>1 DEF Stop, NodeStops
    <2> DEFINE after(t) == [conn[t] EXCEPT ![n] = [s \in DOMAIN @ |-> Closed(@[s])]]
    <2>c. \A t \in Tracker, m \in Node :
            after(t)[m] \in [1 .. Slots[m] -> Conn]
      <3> TAKE t \in Tracker, m \in Node
      <3>1. CASE m # n
        BY <1>t, <3>1 DEF ConnType
      <3>2. CASE m = n
        <4>1. conn[t][n] \in [1 .. Slots[n] -> Conn]
          BY <1>t DEF ConnType
        <4>2. after(t)[n] = [s \in DOMAIN conn[t][n] |-> Closed(conn[t][n][s])]
          BY <1>t DEF ConnType
        <4>3. \A s \in 1 .. Slots[n] : Closed(conn[t][n][s]) \in Conn
          BY <4>1, ConnEnds
        <4> HIDE DEF after
        <4> QED  BY <3>2, <4>1, <4>2, <4>3
      <3> QED  BY <3>1, <3>2
    <2>1. ConnType'
      <3>1. conn' = [t \in Tracker |-> after(t)]
        OBVIOUS
      <3>2. \A t \in Tracker : DOMAIN after(t) = Node
        BY <1>t DEF ConnType
      <3> HIDE DEF after
      <3> QED  BY <2>c, <3>1, <3>2 DEF ConnType
    <2>2. SecretType'
      BY <1>t DEF SecretType
    <2>3. known' \in [Watcher -> [Node -> Known]]
      BY <1>t DEF Known
    <2>4. answer' \in [Tracker -> [Watcher -> Answer]]
      BY <1>t, Answers
    <2>5. EntryType' /\ trouble' \in Nat
      BY <1>t, <1>n DEF EntryType
    <2>6. up' \subseteq Node /\ UNCHANGED <<me, robbed, used>>
      BY <1>t
    <2> QED  BY <1>t, <2>1, <2>2, <2>3, <2>4, <2>5, <2>6 DEF TypeOK, RegTypeOK, EntryType, ConnType, SecretType
  <1>2. ASSUME NEW n \in Node, NEW c \in Conf[n], Start(n, c)  PROVE TypeOK'
    <2> DEFINE stored == disk[n] \cup {c.secret}
    <2> USE <1>2 DEF Start, NodeStarts
    <2>1. c.addr \in Addr /\ c.secret \in Secret
      BY MembersAssumption
    <2>2. n \in Process /\ stored \in SUBSET Secret
      BY <1>t, <2>1 DEF SecretType, Process
    <2>3. me' \in [Node -> Instance]
      BY <1>t, <2>1, <2>2 DEF Instance
    <2>4. SecretType'
      BY <1>t, <2>1, <2>2 DEF SecretType
    <2>5. used' \in [Node -> SUBSET Secret]
      BY <1>t, <2>1
    <2>6. EntryType' /\ ConnType' /\ up' \subseteq Node
      BY <1>t DEF EntryType, ConnType
    <2> QED  BY <1>t, <2>3, <2>4, <2>5, <2>6 DEF TypeOK, RegTypeOK, EntryType, ConnType, SecretType
  <1>3. ASSUME NEW t \in Tracker, NEW n \in Node, NEW s \in 1 .. Slots[n], SlotStep(t, n, s)
        PROVE  TypeOK'
    <2>c. conn[t][n][s] \in Conn /\ entry[t][n] \in Entry
      BY <1>t, ZenonT(40) DEF ConnType, EntryType
    <2>1. CASE Dial(t, n, s) /\ UNCHANGED memVars
      <3> USE <2>1 DEF Dial, memVars
      <3>1. [st |-> "open", ins |-> me[n]] \in Conn
        BY <1>t DEF Conn
      <3>2. ConnType'
        BY <1>t, <3>1, ConnSet
      <3> QED  BY <1>t, <3>2 DEF TypeOK, RegTypeOK, EntryType, ConnType, SecretType
    <2>2. CASE Break(t, n, s) /\ UNCHANGED memVars
      <3> USE <2>2 DEF Break, memVars
      <3>1. ConnType'
        BY <1>t, <2>c, ConnEnds, ConnSet
      <3> QED  BY <1>t, <1>n, <3>1 DEF TypeOK, RegTypeOK, EntryType, ConnType, SecretType
    <2>3. CASE Register(t, n, s)
      <3> USE <2>3 DEF Register, Put
      <3> DEFINE c == conn[t][n][s]
                 d == [c EXCEPT !.st = IF c.st = "open" THEN "up" ELSE "gone"]
                 e == [state |-> "hold", ins |-> c.ins, due |-> FALSE]
      <3>1. c.ins \in Instance /\ d \in Conn
        BY <2>c, ConnEnds
      <3>2. e \in Entry
        BY <3>1 DEF Entry
      <3>3. EntryType'
        BY <1>t, <3>2, EntrySet
      <3>4. ConnType'
        BY <1>t, <3>1, ConnSet
      <3>5. c.ins.secrets \in SUBSET Secret /\ t \in Process
        BY <3>1 DEF Instance, Process
      <3>6. SecretType' /\ trouble' \in Nat
        BY <1>t, <3>5, SecretsStored
      <3> QED  BY <1>t, <3>3, <3>4, <3>6 DEF TypeOK, RegTypeOK, EntryType, ConnType, SecretType
    <2>4. CASE Refuse(t, n, s) /\ UNCHANGED memVars
      <3> USE <2>4 DEF Refuse, memVars
      <3>1. ConnType'
        BY <1>t, ConnSet DEF Conn
      <3> QED  BY <1>t, <3>1 DEF TypeOK, RegTypeOK, EntryType, ConnType, SecretType
    <2>5. CASE HandlerEnds(t, n, s) /\ UNCHANGED memVars
      <3> USE <2>5 DEF HandlerEnds, memVars
      <3>1. ConnType'
        BY <1>t, ConnSet DEF Conn
      <3>2. EntryType'
        BY <1>t, <2>c, EntryEnds, EntrySet DEF EntryType
      <3>3. robbed' \subseteq Node
        BY <1>t
      <3> QED  BY <1>t, <3>1, <3>2, <3>3 DEF TypeOK, RegTypeOK, EntryType, ConnType, SecretType
    <2> QED  BY <1>3, <2>1, <2>2, <2>3, <2>4, <2>5 DEF SlotStep
  <1>4. ASSUME NEW t \in Tracker, TrackerStep(t)  PROVE TypeOK'
    <2>1. ASSUME NEW n \in Node, TimePasses(t, n), UNCHANGED memVars  PROVE TypeOK'
      <3> USE <2>1 DEF TimePasses, memVars
      <3>1. entry[t][n] \in Entry
        BY <1>t DEF EntryType
      <3>2. [entry[t][n] EXCEPT !.due = TRUE] \in Entry
        BY <3>1, EntryEnds
      <3>3. SetEntry(t, n, [entry[t][n] EXCEPT !.due = TRUE])
        BY <1>t DEF EntryType, SetEntry
      <3>4. EntryType'
        BY <1>t, <3>2, <3>3, EntrySet
      <3> QED  BY <1>t, <3>4 DEF TypeOK, RegTypeOK, EntryType, ConnType, SecretType
    <2>2. CASE ExpirationDetection(t) /\ UNCHANGED memVars
      <3> USE <2>2 DEF ExpirationDetection, memVars
      <3>1. EntryType'
        BY <1>t DEF EntryType, Entry
      <3> QED  BY <1>t, <3>1 DEF TypeOK, RegTypeOK, EntryType, ConnType, SecretType
    <2>3. CASE RestartTracker(t)
      <3> USE <2>3 DEF RestartTracker, TrackerRestarts
      <3>1. EntryType'
        BY <1>t DEF EntryType, Entry
      <3>2. ConnType'
        BY <1>t DEF ConnType, Conn
      <3>3. SecretType'
        BY <1>t DEF SecretType, Process
      <3>4. answer' \in [Tracker -> [Watcher -> Answer]]
        BY <1>t, Answers
      <3> QED  BY <1>t, <1>n, <3>1, <3>2, <3>3, <3>4 DEF TypeOK, RegTypeOK, EntryType, ConnType, SecretType
    <2> QED  BY <1>4, <2>1, <2>2, <2>3 DEF TrackerStep
  <1>5. ASSUME NEW t \in Tracker, NEW m \in Watcher, WatcherStep(t, m)  PROVE TypeOK'
    <2>m. m \in Node /\ m \in Process
      BY MembersAssumption DEF Process
    <2>1. CASE SynchronizeInstances(t, m)
      <3> USE <2>1 DEF SynchronizeInstances, regVars
      <3>1. answer' \in [Tracker -> [Watcher -> Answer]]
        BY <1>t, Answers
      <3> QED  BY <1>t, <3>1 DEF TypeOK, RegTypeOK, EntryType, ConnType, SecretType
    <2>2. CASE Tracks(t, m)
      <3> USE <2>2 DEF Tracks
      <3> DEFINE ins == answer[t][m]
      <3>1. \A n \in DOMAIN ins : n \in Node /\ ins[n] \in Instance
        BY <1>t, Answers
      <3>2. \A n \in DOMAIN ins : [age |-> 0, kind |-> "known", ins |-> ins[n]] \in Known
        BY <3>1, MembersAssumption DEF Known
      <3>3. known' \in [Watcher -> [Node -> Known]]
        BY <1>t, <3>2
      <3>4. answer' \in [Tracker -> [Watcher -> Answer]]
        BY <1>t, Answers
      <3>5. UNION {ins[n].secrets : n \in DOMAIN ins} \in SUBSET Secret
        BY <3>1 DEF Instance
      <3>6. SecretType' /\ trouble' \in Nat
        BY <1>t, <2>m, <3>5, SecretsStored
      <3> QED  BY <1>t, <3>3, <3>4, <3>6 DEF TypeOK, RegTypeOK, EntryType, ConnType, SecretType
    <2>3. CASE AnswerLost(t, m)
      <3> USE <2>3 DEF AnswerLost
      <3>1. answer' \in [Tracker -> [Watcher -> Answer]]
        BY <1>t, Answers
      <3> QED  BY <1>t, <1>n, <3>1 DEF TypeOK, RegTypeOK, EntryType, ConnType, SecretType
    <2> QED  BY <1>5, <2>1, <2>2, <2>3 DEF WatcherStep
  <1>6. ASSUME NEW m \in Watcher, ExpireDetection(m)  PROVE TypeOK'
    <2> USE <1>6 DEF ExpireDetection, regVars
    <2>1. \A k \in Known : Older(k) \in Known /\ Unknown \in Known
      BY MembersAssumption DEF Known, Older, Unknown
    <2>2. known' \in [Watcher -> [Node -> Known]]
      BY <1>t, <2>1
    <2> QED  BY <1>t, <2>2 DEF TypeOK, RegTypeOK, EntryType, ConnType, SecretType
  <1>7. CASE UNCHANGED vars
    BY <1>t, <1>7 DEF vars, regVars, memVars, TypeOK, RegTypeOK, EntryType, ConnType, SecretType
  <1> QED  BY <1>1, <1>2, <1>3, <1>4, <1>5, <1>6, <1>7 DEF Next

(***************************************************************************)
(* Type correctness of the registry, the instances and the secrets.        *)
(***************************************************************************)
THEOREM MembersTypes == Spec => []TypeOK
  BY TypesBegin, TypesKept, PTL DEF Spec
-----------------------------------------------------------------------------
(***************************************************************************)
(* Handlers.  An id keeps what it has if it is not held from now on, or    *)
(* was held and every registered connection of it stays registered.        *)
(***************************************************************************)
HandlersStay(t, n) ==
    \A x \in 1 .. Slots[n] : Registered(conn[t][n][x]) => Registered(conn[t][n][x])'

Served(t, n) ==
    entry[t][n].state = "hold" => \E x \in 1 .. Slots[n] : Registered(conn[t][n][x])

\* A step on one connection that is not registered, or remains so.
LEMMA OtherHandlers ==
    ASSUME ConnType, NEW t \in Tracker, NEW n \in Node, NEW s \in 1 .. Slots[n],
           NEW c \in Conn, SetConn(t, n, s, c),
           Registered(conn[t][n][s]) => Registered(c)
    PROVE  \A u \in Tracker, m \in Node : HandlersStay(u, m)
  BY ConnSet DEF HandlersStay, Registered

LEMMA ServedKept ==
    ASSUME HeldHasHandler, NEW t \in Tracker, NEW n \in Node,
           \/ entry'[t][n].state # "hold"
           \/ entry'[t][n] = entry[t][n] /\ HandlersStay(t, n)
    PROVE  Served(t, n)'
  BY DEF HeldHasHandler, Served, HandlersStay

LEMMA HandlersKept == TypeOK /\ HeldHasHandler /\ [Next]_vars => HeldHasHandler'
  <1> SUFFICES ASSUME TypeOK, HeldHasHandler, [Next]_vars,
                      NEW u \in Tracker, NEW m \in Node
               PROVE  Served(u, m)'
    BY DEF HeldHasHandler, Served
  <1>t. EntryType /\ ConnType
    BY TypesSplit
  <1>s. UNCHANGED <<entry, conn>> => Served(u, m)'
    BY DEF HeldHasHandler, Served
  <1>1. ASSUME NEW n \in Node, Stop(n)  PROVE Served(u, m)'
    <2>1. conn'[u] = [conn[u] EXCEPT ![n] = [s \in DOMAIN @ |-> Closed(@[s])]]
      BY <1>1 DEF Stop, NodeStops
    <2>2. CASE m # n
      <3>1. conn'[u][m] = conn[u][m]
        BY <1>t, <2>1, <2>2 DEF ConnType
      <3> QED  BY <1>1, <3>1, ServedKept DEF Stop, NodeStops, HandlersStay
    <2>3. CASE m = n
      <3>1. conn'[u][m] = [s \in DOMAIN conn[u][m] |-> Closed(conn[u][m][s])]
        BY <1>t, <2>1, <2>3 DEF ConnType
      <3>2. conn[u][m] \in [1 .. Slots[m] -> Conn]
        BY <1>t DEF ConnType
      <3>3. \A x \in 1 .. Slots[m] :
               Registered(conn[u][m][x]) => Registered(Closed(conn[u][m][x]))
        BY <3>2, ConnEnds
      <3>4. HandlersStay(u, m)
        BY <3>1, <3>2, <3>3 DEF HandlersStay, Registered
      <3> QED  BY <1>1, <3>4, ServedKept DEF Stop, NodeStops
    <2> QED  BY <2>2, <2>3
  <1>2. ASSUME NEW n \in Node, NEW c \in Conf[n], Start(n, c)  PROVE Served(u, m)'
    BY <1>2, <1>s DEF Start, NodeStarts
  <1>3. ASSUME NEW t \in Tracker, NEW n \in Node, NEW s \in 1 .. Slots[n], SlotStep(t, n, s)
        PROVE  Served(u, m)'
    <2>c. conn[t][n][s] \in Conn /\ entry[t][n] \in Entry
      BY <1>t, ZenonT(40) DEF ConnType, EntryType
    <2>1. CASE Dial(t, n, s)
      <3>1. [st |-> "open", ins |-> me[n]] \in Conn
        BY DEF TypeOK, RegTypeOK, Conn
      <3>2. HandlersStay(u, m)
        BY <1>t, <2>1, <3>1, OtherHandlers DEF Dial, NoConn, Registered
      <3> QED  BY <2>1, <3>2, ServedKept DEF Dial
    <2>2. CASE Break(t, n, s)
      <3>1. HandlersStay(u, m)
        BY <1>t, <2>2, <2>c, ConnEnds, OtherHandlers DEF Break
      <3> QED  BY <2>2, <3>1, ServedKept DEF Break
    <2>3. CASE Put(t, n, s)
      <3> DEFINE c == conn[t][n][s]
                 d == [c EXCEPT !.st = IF c.st = "open" THEN "up" ELSE "gone"]
                 e == [state |-> "hold", ins |-> c.ins, due |-> FALSE]
      <3>1. /\ SetConn(t, n, s, d) /\ SetEntry(t, n, e)
            /\ c.st \in {"open", "late"}
        BY <2>3 DEF Put
      <3>2. c.ins \in Instance /\ d \in Conn
        BY <2>c, <3>1, ConnEnds
      <3>3. Registered(d)
        <4>1. CASE c = NoConn
          BY <3>1, <4>1 DEF NoConn
        <4>2. CASE c \in [st : {"open", "late", "up", "gone"}, ins : Instance]
          BY <4>2 DEF Registered
        <4> QED  BY <2>c, <4>1, <4>2 DEF Conn
      <3>4. CASE u = t /\ m = n
        <4>1. conn'[t][n][s] = d
          BY <1>t, <3>1, <3>2, ConnSet
        <4> QED  BY <3>3, <3>4, <4>1 DEF Served, Registered
      <3>5. CASE ~(u = t /\ m = n)
        <4>1. entry'[u][m] = entry[u][m]
          BY <1>t, <3>1, <3>5 DEF EntryType, SetEntry
        <4>2. HandlersStay(u, m)
          BY <1>t, <3>1, <3>2, <3>3, OtherHandlers
        <4> QED  BY <4>1, <4>2, ServedKept
      <3> QED  BY <3>4, <3>5
    <2>4. CASE Refuse(t, n, s)
      <3>1. HandlersStay(u, m)
        BY <1>t, <2>4, OtherHandlers DEF Refuse, Conn, Registered
      <3> QED  BY <2>4, <3>1, ServedKept DEF Refuse
    <2>5. CASE HandlerEnds(t, n, s)
      <3>1. NoConn \in Conn /\ SetConn(t, n, s, NoConn)
        BY <2>5 DEF HandlerEnds, Conn
      <3>2. CASE Registered(conn[t][n][s])
        <4>1. SetEntry(t, n, Freed(entry[t][n]))
          BY <2>5, <3>2 DEF HandlerEnds
        <4>2. CASE u = t /\ m = n
          <5>1. entry'[t][n] = Freed(entry[t][n])
            BY <1>t, <4>1 DEF EntryType, SetEntry
          <5>2. entry'[t][n].state # "hold"
            BY <2>c, <5>1, EntryEnds
          <5> QED  BY <4>2, <5>2, ServedKept
        <4>3. CASE ~(u = t /\ m = n)
          <5>1. entry'[u][m] = entry[u][m]
            BY <1>t, <4>1, <4>3 DEF EntryType, SetEntry
          <5>2. \A x \in 1 .. Slots[m] : conn'[u][m][x] = conn[u][m][x]
            BY <1>t, <3>1, <4>3, ConnSet
          <5>3. HandlersStay(u, m)
            BY <5>2 DEF HandlersStay, Registered
          <5> QED  BY <5>1, <5>3, ServedKept
        <4> QED  BY <4>2, <4>3
      <3>3. CASE ~Registered(conn[t][n][s])
        <4>1. HandlersStay(u, m)
          BY <1>t, <3>1, <3>3, OtherHandlers
        <4> QED  BY <2>5, <3>3, <4>1, ServedKept DEF HandlerEnds
      <3> QED  BY <3>2, <3>3
    <2> QED  BY <1>3, <2>1, <2>2, <2>3, <2>4, <2>5 DEF SlotStep, Register
  <1>4. ASSUME NEW t \in Tracker, TrackerStep(t)  PROVE Served(u, m)'
    <2>1. ASSUME NEW n \in Node, TimePasses(t, n)  PROVE Served(u, m)'
      <3>1. entry[t][n] \in Entry /\ [entry[t][n] EXCEPT !.due = TRUE] \in Entry
        BY <1>t, <2>1, EntryEnds DEF EntryType, TimePasses
      <3>2. SetEntry(t, n, [entry[t][n] EXCEPT !.due = TRUE])
        BY <1>t, <2>1 DEF EntryType, SetEntry, TimePasses
      <3>3. [entry[t][n] EXCEPT !.due = TRUE].state # "hold"
        BY <2>1, <3>1 DEF TimePasses, Entry, Absent
      <3>4. entry'[u][m].state # "hold" \/ entry'[u][m] = entry[u][m]
        BY <1>t, <3>2, <3>3 DEF EntryType, SetEntry
      <3>5. HandlersStay(u, m)
        BY <2>1 DEF TimePasses, HandlersStay, Registered
      <3> QED  BY <3>4, <3>5, ServedKept
    <2>2. CASE ExpirationDetection(t)
      <3>1. entry'[u][m] = entry[u][m] \/ entry'[u][m] = Absent
        BY <1>t, <2>2 DEF EntryType, ExpirationDetection
      <3>2. HandlersStay(u, m)
        BY <2>2 DEF ExpirationDetection, HandlersStay, Registered
      <3> QED  BY <3>1, <3>2, ServedKept DEF Absent
    <2>3. CASE RestartTracker(t)
      <3>1. u = t => entry'[u][m] = Absent
        BY <1>t, <2>3 DEF EntryType, RestartTracker, TrackerRestarts
      <3>2. u # t => entry'[u] = entry[u] /\ conn'[u] = conn[u]
        BY <1>t, <2>3 DEF EntryType, ConnType, RestartTracker, TrackerRestarts
      <3> QED  BY <3>1, <3>2, ServedKept DEF Absent, HandlersStay, Registered
    <2> QED  BY <1>4, <2>1, <2>2, <2>3 DEF TrackerStep
  <1>5. ASSUME NEW t \in Tracker, NEW n \in Watcher, WatcherStep(t, n)  PROVE Served(u, m)'
    BY <1>5, <1>s DEF WatcherStep, SynchronizeInstances, Tracks, AnswerLost, regVars
  <1>6. ASSUME NEW n \in Watcher, ExpireDetection(n)  PROVE Served(u, m)'
    BY <1>6, <1>s DEF ExpireDetection, regVars
  <1>7. CASE UNCHANGED vars
    BY <1>7, <1>s DEF vars, regVars
  <1> QED  BY <1>1, <1>2, <1>3, <1>4, <1>5, <1>6, <1>7 DEF Next

(***************************************************************************)
(* A held instance has a handler that will free it, however many           *)
(* connections of it overlap and in whatever order they end.               *)
(***************************************************************************)
THEOREM HeldAreServed == Spec => []HeldHasHandler
  <1>1. Init => HeldHasHandler
    BY DEF Init, RegInit, HeldHasHandler, Absent
  <1> QED  BY <1>1, MembersTypes, HandlersKept, PTL DEF Spec
-----------------------------------------------------------------------------
(***************************************************************************)
(* Secrets.  OwnSecretsUsable says nothing of a server that is down, so it *)
(* is kept with what its next start relies on: what it used is on disk.    *)
(***************************************************************************)
UsedOnDisk == \A n \in Node : used[n] \subseteq disk[n]

SecretsSafe == OwnSecretsUsable /\ MemoryOnDisk /\ UsedOnDisk

LEMMA SecretsBegin == Init => SecretsSafe
  <1> SUFFICES ASSUME Init PROVE SecretsSafe
    OBVIOUS
  <1> DEFINE first == [p \in Process |-> IF p \in Node THEN me[p].secrets ELSE {}]
  <1>1. disk = first /\ mem = first /\ keys = first
    BY DEF Init
  <1>2. used = [n \in Node |-> me[n].secrets] /\ up = Node
    BY DEF Init, RegInit
  <1>3. \A n \in Node : first[n] = used[n]
    BY <1>2 DEF Process
  <1> HIDE DEF first
  <1> QED  BY <1>1, <1>2, <1>3 DEF SecretsSafe, OwnSecretsUsable, MemoryOnDisk, UsedOnDisk

\* Storing secrets takes none away from anyone.
LEMMA StoringIsSafe ==
    ASSUME TypeOK, SecretsSafe, NEW p \in Process, NEW S \in SUBSET Secret,
           StoreSecrets(p, S), UNCHANGED <<up, used>>
    PROVE  SecretsSafe'
  <1>1. SecretType /\ trouble \in Nat /\ up \subseteq Node
    BY TypesSplit
  <1>2. /\ \A q \in Process : keys[q] \subseteq keys'[q] /\ disk[q] \subseteq disk'[q]
        /\ MemoryOnDisk'
    BY <1>1, SecretsStored DEF SecretsSafe
  <1> QED  BY <1>1, <1>2 DEF SecretsSafe, OwnSecretsUsable, UsedOnDisk, Process

LEMMA SecretsKept == TypeOK /\ SecretsSafe /\ [Next]_vars => SecretsSafe'
  <1> SUFFICES ASSUME TypeOK, SecretsSafe, [Next]_vars PROVE SecretsSafe'
    OBVIOUS
  <1>t. EntryType /\ ConnType /\ SecretType /\ up \subseteq Node
        /\ used \in [Node -> SUBSET Secret] /\ answer \in [Tracker -> [Watcher -> Answer]]
    BY TypesSplit
  <1>s. UNCHANGED <<up, disk, mem, keys, used, unsaved>> => SecretsSafe'
    BY DEF SecretsSafe, OwnSecretsUsable, MemoryOnDisk, UsedOnDisk
  <1>1. ASSUME NEW n \in Node, Stop(n)  PROVE SecretsSafe'
    BY <1>t, <1>1 DEF Stop, NodeStops, SecretsSafe, OwnSecretsUsable, MemoryOnDisk,
                      UsedOnDisk, SecretType, Process
  <1>2. ASSUME NEW n \in Node, NEW c \in Conf[n], Start(n, c)  PROVE SecretsSafe'
    <2> DEFINE stored == disk[n] \cup {c.secret}
    <2>1. n \in Process
      BY DEF Process
    <2>2. /\ up' = up \cup {n}
          /\ disk' = [disk EXCEPT ![n] = stored]
          /\ mem' = [mem EXCEPT ![n] = {c.secret}]
          /\ keys' = [keys EXCEPT ![n] = stored]
          /\ used' = [used EXCEPT ![n] = @ \cup {c.secret}]
          /\ unsaved' = unsaved
      BY <1>2 DEF Start, NodeStarts
    <2>3. used'[n] \subseteq stored /\ disk'[n] = stored /\ keys'[n] = stored
      BY <1>t, <2>1, <2>2 DEF SecretsSafe, UsedOnDisk, SecretType
    <2>4. \A q \in Process : q # n =>
             disk'[q] = disk[q] /\ mem'[q] = mem[q] /\ keys'[q] = keys[q]
      BY <1>t, <2>2 DEF SecretType
    <2>5. \A q \in Node : q # n => used'[q] = used[q]
      BY <1>t, <2>2
    <2>6. mem'[n] \subseteq stored
      BY <1>t, <2>1, <2>2 DEF SecretType
    <2> HIDE DEF stored
    <2> QED  BY <1>t, <2>2, <2>3, <2>4, <2>5, <2>6
             DEF SecretsSafe, OwnSecretsUsable, MemoryOnDisk, UsedOnDisk, Process
  <1>3. ASSUME NEW t \in Tracker, NEW n \in Node, NEW s \in 1 .. Slots[n], SlotStep(t, n, s)
        PROVE  SecretsSafe'
    <2>1. CASE Register(t, n, s)
      <3>1. /\ conn[t][n][s].st \in {"open", "late"}
            /\ StoreSecrets(t, conn[t][n][s].ins.secrets)
            /\ UNCHANGED <<up, used>>
        BY <2>1 DEF Register, Put
      <3>2. conn[t][n] \in [1 .. Slots[n] -> Conn]
        BY <1>t DEF ConnType
      <3>3. conn[t][n][s].ins.secrets \in SUBSET Secret /\ t \in Process
        BY <3>1, <3>2, ConnEnds DEF Instance, Process
      <3> QED  BY <3>1, <3>3, StoringIsSafe
    <2>2. CASE ~Register(t, n, s)
      BY <1>3, <1>s, <2>2 DEF SlotStep, Dial, Break, Refuse, HandlerEnds, memVars
    <2> QED  BY <2>1, <2>2
  <1>4. ASSUME NEW t \in Tracker, TrackerStep(t)  PROVE SecretsSafe'
    <2>1. CASE RestartTracker(t)
      <3>1. t \in Process /\ t \notin Node
        BY MembersAssumption DEF Process
      <3> QED  BY <1>t, <2>1, <3>1
               DEF RestartTracker, TrackerRestarts, SecretsSafe, OwnSecretsUsable,
                   MemoryOnDisk, UsedOnDisk, SecretType
    <2>2. CASE ~RestartTracker(t)
      BY <1>4, <1>s, <2>2 DEF TrackerStep, TimePasses, ExpirationDetection, memVars
    <2> QED  BY <2>1, <2>2
  <1>5. ASSUME NEW t \in Tracker, NEW m \in Watcher, WatcherStep(t, m)  PROVE SecretsSafe'
    <2>1. CASE Tracks(t, m)
      <3> DEFINE ins == answer[t][m]
                 S   == UNION {ins[n].secrets : n \in DOMAIN ins}
      <3>1. StoreSecrets(m, S) /\ UNCHANGED <<up, used>>
        BY <2>1 DEF Tracks
      <3>2. \A n \in DOMAIN ins : ins[n] \in Instance
        BY <1>t, Answers
      <3>3. S \in SUBSET Secret /\ m \in Process
        BY <3>2, MembersAssumption DEF Instance, Process
      <3> HIDE DEF S
      <3> QED  BY <3>1, <3>3, StoringIsSafe
    <2>2. CASE ~Tracks(t, m)
      BY <1>5, <1>s, <2>2 DEF WatcherStep, SynchronizeInstances, AnswerLost, regVars
    <2> QED  BY <2>1, <2>2
  <1>6. ASSUME NEW m \in Watcher, ExpireDetection(m)  PROVE SecretsSafe'
    BY <1>6, <1>s DEF ExpireDetection, regVars
  <1>7. CASE UNCHANGED vars
    BY <1>7, <1>s DEF vars, regVars, memVars
  <1> QED  BY <1>1, <1>2, <1>3, <1>4, <1>5, <1>6, <1>7 DEF Next

LEMMA SecretsAlways == Spec => []SecretsSafe
  BY SecretsBegin, SecretsKept, MembersTypes, PTL DEF Spec

(***************************************************************************)
(* A server that runs has every secret it ever used, for any history of    *)
(* starts with other secrets and of saves that fail.                       *)
(***************************************************************************)
THEOREM OwnSecretsKept == Spec => []OwnSecretsUsable
  BY SecretsAlways, PTL DEF SecretsSafe

(***************************************************************************)
(* A process whose saves never failed finds the secrets it uses again.     *)
(***************************************************************************)
THEOREM SecretsFoundAgain == Spec => []MemoryOnDisk
  BY SecretsAlways, PTL DEF SecretsSafe
-----------------------------------------------------------------------------
(***************************************************************************)
(* The registry as a table of leases.                                      *)
(***************************************************************************)
\* Setting one entry sets one lease.
LEMMA LeaseSet ==
    ASSUME EntryType, NEW t \in Tracker, NEW n \in Node, NEW e, SetEntry(t, n, e)
    PROVE  Leases' = [Leases EXCEPT ![<<t, n>>] = LeaseOf(e)]
  <1>1. entry'[t][n] = e
    BY DEF EntryType, SetEntry
  <1>2. \A k \in Ids : k # <<t, n>> => entry'[k[1]][k[2]] = entry[k[1]][k[2]]
    BY DEF EntryType, SetEntry, Ids
  <1> HIDE DEF Ids
  <1>3. <<t, n>> \in Ids
    BY DEF Ids
  <1>4. \A k \in Ids : Leases'[k] = [Leases EXCEPT ![<<t, n>>] = LeaseOf(e)][k]
    <2> TAKE k \in Ids
    <2>1. k[1] = t /\ k[2] = n <=> k = <<t, n>>
      BY DEF Ids
    <2>2. Leases'[k] = LeaseOf(entry'[k[1]][k[2]]) /\ Leases[k] = LeaseOf(entry[k[1]][k[2]])
      BY DEF Leases, LeaseOf
    <2> HIDE DEF LeaseOf
    <2>3. CASE k = <<t, n>>
      <3>1. Leases'[k] = LeaseOf(e)
        BY <1>1, <2>1, <2>2, <2>3
      <3> QED  BY <1>3, <2>3, <3>1 DEF Leases
    <2>4. CASE k # <<t, n>>
      <3>1. Leases'[k] = Leases[k]
        BY <1>2, <2>2, <2>4
      <3> QED  BY <2>4, <3>1 DEF Leases
    <2> QED  BY <2>3, <2>4
  <1> QED  BY <1>4 DEF Leases

LEMMA LeasesBegin == Init => Lease!LeaseInit
  <1> SUFFICES ASSUME Init PROVE Lease!LeaseInit
    OBVIOUS
  <1>1. \A k \in Ids : entry[k[1]][k[2]] = Absent
    BY DEF Init, RegInit, Ids
  <1>2. Leases = [k \in Ids |-> [held |-> FALSE]]
    BY <1>1 DEF Leases, LeaseOf
  <1> QED  BY <1>2 DEF Lease!LeaseInit, Lease!None

LEMMA LeasesKept == TypeOK /\ [Next]_vars => [Lease!LeaseNext]_Leases
  <1> SUFFICES ASSUME TypeOK, [Next]_vars PROVE [Lease!LeaseNext]_Leases
    OBVIOUS
  <1>t. EntryType /\ ConnType
    BY TypesSplit
  <1>s. UNCHANGED entry => UNCHANGED Leases
    BY DEF Leases
  <1>3. ASSUME NEW t \in Tracker, NEW n \in Node, NEW s \in 1 .. Slots[n], SlotStep(t, n, s)
        PROVE  [Lease!LeaseNext]_Leases
    <2> DEFINE k == <<t, n>>
    <2>k. k \in Ids /\ Leases[k] = LeaseOf(entry[t][n]) /\ entry[t][n] \in Entry
      BY <1>t DEF Ids, Leases, EntryType
    <2>1. CASE Put(t, n, s)
      <3> DEFINE c == conn[t][n][s]
                 e == [state |-> "hold", ins |-> c.ins, due |-> FALSE]
      <3>1. /\ SetEntry(t, n, e)
            /\ c.st \in {"open", "late"}
            /\ entry[t][n] = Absent \/ entry[t][n].ins.addr = c.ins.addr
        BY <2>1 DEF Put, IsInstanceConflict
      <3>2. conn[t][n] \in [1 .. Slots[n] -> Conn]
        BY <1>t DEF ConnType
      <3>3. c.ins.addr \in Addr
        BY <3>1, <3>2, ConnEnds DEF Instance
      <3>4. LeaseOf(e) = [holder |-> c.ins.addr, held |-> TRUE]
        BY DEF LeaseOf, Absent
      <3>5. Leases' = [Leases EXCEPT ![k] = [holder |-> c.ins.addr, held |-> TRUE]]
        BY <1>t, <3>1, <3>4, LeaseSet
      <3>6. Leases[k] = [held |-> FALSE] \/ Leases[k].holder = c.ins.addr
        BY <2>k, <3>1 DEF LeaseOf
      <3>7. Lease!Grant(k, c.ins.addr)
        BY <3>5, <3>6 DEF Lease!Grant, Lease!None, Leases, LeaseOf, Ids
      <3> QED  BY <2>k, <3>3, <3>7 DEF Lease!LeaseNext, Ids
    <2>2. CASE HandlerEnds(t, n, s)
      <3>1. CASE UNCHANGED entry
        BY <1>s, <3>1
      <3>2. CASE SetEntry(t, n, Freed(entry[t][n]))
        <4>1. CASE entry[t][n] = Absent
          <5>1. UNCHANGED entry
            BY <1>t, <3>2, <4>1 DEF SetEntry, Freed, EntryType
          <5> QED  BY <1>s, <5>1
        <4>2. CASE entry[t][n] # Absent
          <5> DEFINE e == entry[t][n]
          <5>1. e \in [state : {"hold", "free"}, ins : Instance, due : BOOLEAN]
            BY <2>k, <4>2 DEF Entry
          <5>2. Freed(e) = [state |-> "free", ins |-> e.ins, due |-> FALSE]
            BY <4>2, <5>1 DEF Freed
          <5>3. LeaseOf(Freed(e)) = [holder |-> e.ins.addr, held |-> FALSE]
            <6>1. Freed(e) # Absent /\ Freed(e).ins = e.ins /\ Freed(e).state # "hold"
              BY <5>2 DEF Absent
            <6> QED  BY <6>1 DEF LeaseOf
          <5>4. Leases[k] = [holder |-> e.ins.addr, held |-> e.state = "hold"]
            BY <2>k, <4>2 DEF LeaseOf
          <5>5. Leases' = [Leases EXCEPT ![k] = [holder |-> e.ins.addr, held |-> FALSE]]
            BY <1>t, <3>2, <5>3, LeaseSet
          <5>6. Leases[k].holder = e.ins.addr
            BY <5>4
          <5>7. Leases[k] # [held |-> FALSE]
            BY <5>4
          <5>8. Lease!Release(k)
            BY <5>5, <5>6, <5>7 DEF Lease!Release, Lease!None, Leases, LeaseOf, Ids
          <5> QED  BY <2>k, <5>8 DEF Lease!LeaseNext, Ids
        <4> QED  BY <4>1, <4>2
      <3> QED  BY <2>2, <3>1, <3>2 DEF HandlerEnds
    <2>3. CASE UNCHANGED entry
      BY <1>s, <2>3
    <2> QED  BY <1>3, <2>1, <2>2, <2>3 DEF SlotStep, Dial, Break, Register, Refuse
  <1>4. ASSUME NEW t \in Tracker, TrackerStep(t)  PROVE [Lease!LeaseNext]_Leases
    <2>1. ASSUME NEW n \in Node, TimePasses(t, n)  PROVE UNCHANGED Leases
      <3> DEFINE e == entry[t][n]
                 f == [e EXCEPT !.due = TRUE]
      <3>1. e \in [state : {"hold", "free"}, ins : Instance, due : BOOLEAN]
        BY <1>t, <2>1 DEF TimePasses, EntryType, Entry, Absent
      <3>2. SetEntry(t, n, f)
        BY <1>t, <2>1 DEF EntryType, SetEntry, TimePasses
      <3>3. LeaseOf(f) = LeaseOf(e)
        BY <3>1 DEF LeaseOf, Absent
      <3>4. Leases' = [Leases EXCEPT ![<<t, n>>] = LeaseOf(f)]
        BY <1>t, <3>2, LeaseSet
      <3>5. Leases[<<t, n>>] = LeaseOf(e)
        BY DEF Leases, Ids
      <3> QED  BY <3>3, <3>4, <3>5 DEF Leases
    <2>2. CASE ExpirationDetection(t)
      <3> DEFINE K == {k \in Ids : k[1] = t /\ Overdue(entry[t][k[2]])}
      <3>1. \A k \in Ids : entry'[k[1]][k[2]] = IF k \in K THEN Absent ELSE entry[k[1]][k[2]]
        BY <1>t, <2>2 DEF ExpirationDetection, EntryType, Ids
      <3>2. \A k \in K : ~Leases[k].held
        BY DEF Leases, LeaseOf, Overdue, Absent
      <3>3. Leases' = [k \in Ids |-> IF k \in K THEN [held |-> FALSE] ELSE Leases[k]]
        BY <3>1 DEF Leases, LeaseOf
      <3>4. Lease!Reclaim(K)
        BY <3>2, <3>3 DEF Lease!Reclaim, Lease!None, Leases, LeaseOf, Ids
      <3>5. K \in SUBSET Ids
        OBVIOUS
      <3> HIDE DEF K
      <3> QED  BY <3>4, <3>5 DEF Lease!LeaseNext, Ids
    <2>3. CASE RestartTracker(t)
      <3> DEFINE K == {t} \X Node
      <3>1. \A k \in Ids : entry'[k[1]][k[2]] = IF k \in K THEN Absent ELSE entry[k[1]][k[2]]
        BY <1>t, <2>3 DEF RestartTracker, TrackerRestarts, EntryType, Ids
      <3>2. Leases' = [k \in Ids |-> IF k \in K THEN [held |-> FALSE] ELSE Leases[k]]
        BY <3>1 DEF Leases, LeaseOf
      <3>3. Lease!Forget(K)
        BY <3>2 DEF Lease!Forget, Lease!None, Leases, LeaseOf, Ids
      <3> QED  BY <3>3 DEF Lease!LeaseNext, Ids
    <2> QED  BY <1>4, <2>1, <2>2, <2>3 DEF TrackerStep
  <1>5. CASE UNCHANGED entry
    BY <1>s, <1>5
  <1> QED  BY <1>3, <1>4, <1>5
           DEF Next, Stop, NodeStops, Start, NodeStarts, WatcherStep, SynchronizeInstances,
               Tracks, AnswerLost, ExpireDetection, vars, regVars

(***************************************************************************)
(* The registry implements the table of leases: an id never goes from one  *)
(* address to another without having expired or been forgotten in between. *)
(***************************************************************************)
THEOREM RegistryImplementsLeases == Spec => ImplementsLease
  BY LeasesBegin, LeasesKept, MembersTypes, PTL DEF Spec, ImplementsLease, Lease!LeaseSpec
=============================================================================
