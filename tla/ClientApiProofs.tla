---------------------------- MODULE ClientApiProofs --------------------------
(***************************************************************************)
(* Proofs about ClientApi for every number of callers, servers and         *)
(* connections, and every InstanceId, group and failure.                   *)
(***************************************************************************)
EXTENDS ClientApi, FiniteSetTheorems, TLAPS

Connected == {"auth", "send", "receive"}

(***************************************************************************)
(* What a call carries along.  The server it turns to is one it did not    *)
(* try before; what it knew is known still; and without a failure no       *)
(* server that has the file was passed by.                                 *)
(***************************************************************************)
Looking(k) == k.op \in {"download", "query"} /\ ~k.hit

SearchInv(k) ==
    /\ k.pc \in {"get"} \cup Connected => k.server \notin k.tried
    /\ k.pc \in {"get"} \cup Connected => k.op \notin Proxied
    /\ k.pc = "forward" => k.op \in Proxied
    /\ k.from \subseteq known
    /\ Looking(k) => k.tried \cap Holder = {}
    /\ Looking(k) /\ k.pc = "done" /\ k.result = "error" => InReach(k) = {}

\* Nothing of an upload is stored before its end, and then at one server.
UploadInv(k) ==
    /\ k.op \in Uploads /\ k.pc # "done" => k.stored = {}
    /\ k.op \in Uploads /\ k.pc \notin {"select", "done"} => k.server \in Storage
    /\ k.op \in Uploads /\ k.pc = "done" =>
          k.stored \subseteq {k.server} /\ (k.result = "ok" => k.stored = {k.server})

CallInv(k) == SearchInv(k) /\ UploadInv(k)

IInv ==
    /\ TypeOK
    /\ \A c \in Caller : call[c] # Idle => CallInv(call[c])
    /\ PoolConserved

-----------------------------------------------------------------------------
LEMMA BusyOrIdle ==
    ASSUME TypeOK, NEW c \in Caller
    PROVE  /\ call[c].pc = "idle" => call[c] = Idle
           /\ call[c].pc # "idle" => call[c] \in Busy /\ call[c] # Idle
  BY DEF TypeOK, Call, Busy, Idle

LEMMA BusyIsNotIdle == \A k \in Busy : k # Idle /\ k.pc # "idle"
  BY DEF Busy, Idle

\* The ways a step leaves its call, by their types.
LEMMA CallTypes ==
    ASSUME NEW k \in Busy
    PROVE  /\ \A r \in {"ok", "error", "blank"} :
                 /\ Finished(k, r) \in Busy
                 /\ Finished(k, r) = [k EXCEPT !.pc = "done", !.result = r, !.alive = TRUE]
           /\ Hit(k) \in Busy
           /\ NextServer(k) \in Busy
           /\ AfterSend(k) \in Busy
  BY DEF Busy, Finished, Hit, NextServer, AfterSend

\* The connections in use at a server, when one caller's call changes.
LEMMA UsingChanges ==
    ASSUME TypeOK, NEW c \in Caller, NEW r \in Call, Set(c, r), NEW s \in Server
    PROVE  /\ Cardinality(Users(s)) \in Nat /\ Cardinality(Users(s)') \in Nat
           /\ Cardinality(Users(s)') = Cardinality(Users(s))
                 - (IF HasConn(call[c], s) THEN 1 ELSE 0) + (IF HasConn(r, s) THEN 1 ELSE 0)
<1> DEFINE U == Users(s)
           V == Users(s)'
<1>1. /\ call'[c] = r
      /\ \A d \in Caller : d # c => call'[d] = call[d]
  BY DEF TypeOK, Set
<1>0. /\ U = {d \in Caller : HasConn(call[d], s)}
      /\ V = {d \in Caller : HasConn(call'[d], s)}
  BY DEF Users
<1> SUFFICES /\ Cardinality(U) \in Nat /\ Cardinality(V) \in Nat
             /\ Cardinality(V) = Cardinality(U)
                   - (IF HasConn(call[c], s) THEN 1 ELSE 0) + (IF HasConn(r, s) THEN 1 ELSE 0)
  OBVIOUS
<1> HIDE DEF U, V
<1>2. IsFiniteSet(U) /\ IsFiniteSet(V)
  BY <1>0, FS_Subset, ClientApiAssumption
<1>3. Cardinality(U) \in Nat /\ Cardinality(V) \in Nat
  BY <1>2, FS_CardinalityType
<1>5. CASE HasConn(call[c], s) <=> HasConn(r, s)
  <2>1. U = V
    BY <1>0, <1>1, <1>5
  <2> QED
    BY <1>3, <1>5, <2>1
<1>6. CASE HasConn(call[c], s) /\ ~HasConn(r, s)
  <2>1. V = U \ {c} /\ c \in U
    BY <1>0, <1>1, <1>6
  <2> QED
    BY <1>2, <1>3, <1>6, <2>1, FS_RemoveElement
<1>7. CASE ~HasConn(call[c], s) /\ HasConn(r, s)
  <2>1. V = U \cup {c} /\ c \notin U
    BY <1>0, <1>1, <1>7
  <2> QED
    BY <1>2, <1>3, <1>7, <2>1, FS_AddElement
<1> QED
  BY <1>5, <1>6, <1>7

-----------------------------------------------------------------------------
(***************************************************************************)
(* A step of a call on its way: it stays with its servers and comes        *)
(* further, or it turns to the next server and has tried one more.         *)
(***************************************************************************)
Order == [p \in {"select", "get", "auth", "send", "receive", "forward", "done"} |->
             CASE p = "select" -> 6 [] p = "get" -> 5 [] p = "auth" -> 4 [] p = "send" -> 3
               [] p \in {"receive", "forward"} -> 2 [] p = "done" -> 1]

Onward(k, r) ==
    \/ r.tried = k.tried /\ Order[r.pc] < Order[k.pc]
    \/ r.pc = "select" /\ r.tried = k.tried \cup {k.server} /\ k.server \notin k.tried

LEMMA AheadValue ==
    ASSUME NEW k \in Busy
    PROVE  /\ Ahead(k) = Order[k.pc] + 6 * Cardinality(Server \ k.tried)
           /\ Order[k.pc] \in 1 .. 6
<1>1. k # Idle
  BY BusyIsNotIdle
<1>2. k.pc \in {"select", "get", "auth", "send", "receive", "forward", "done"}
  BY DEF Busy
<1>3. [select |-> 6, get |-> 5, auth |-> 4, send |-> 3, receive |-> 2,
       forward |-> 2, done |-> 1][k.pc] = Order[k.pc]
  BY <1>2 DEF Order
<1>4. Order[k.pc] \in 1 .. 6
  BY <1>2 DEF Order
<1> QED
  BY <1>1, <1>3, <1>4 DEF Ahead

\* A finite set without one of its elements is one smaller.
LEMMA RemoveOne ==
    ASSUME NEW S, IsFiniteSet(S), NEW x \in S
    PROVE  Cardinality(S \ {x}) = Cardinality(S) - 1
BY FS_RemoveElement

LEMMA OnwardIsNearer ==
    ASSUME NEW k \in Busy, NEW r \in Busy, Onward(k, r)
    PROVE  Ahead(r) < Ahead(k)
<1> DEFINE K == Server \ k.tried
           R == Server \ r.tried
<1>1. IsFiniteSet(Server) /\ IsFiniteSet(K) /\ IsFiniteSet(R)
  <2>1. IsFiniteSet(Server)
    BY ClientApiAssumption, FS_Union DEF Server
  <2> QED
    BY <2>1, FS_Subset
<1>2. Cardinality(K) \in Nat /\ Cardinality(R) \in Nat
  BY <1>1, FS_CardinalityType
<1>3. CASE r.tried = k.tried /\ Order[r.pc] < Order[k.pc]
  BY <1>2, <1>3, AheadValue
<1>4. CASE r.pc = "select" /\ r.tried = k.tried \cup {k.server} /\ k.server \notin k.tried
  <2>1. R = K \ {k.server} /\ k.server \in K
    BY <1>4 DEF Busy
  <2>2. Cardinality(R) = Cardinality(K) - 1
    <3>1. Cardinality(K \ {k.server}) = Cardinality(K) - 1
      BY <1>1, <2>1, RemoveOne, Zenon
    <3> QED
      BY <2>1, <3>1, Zenon
  <2>3. Ahead(r) = Order[r.pc] + 6 * Cardinality(R) /\ Order[r.pc] \in 1 .. 6
    BY AheadValue
  <2>4. Ahead(k) = Order[k.pc] + 6 * Cardinality(K) /\ Order[k.pc] \in 1 .. 6
    BY AheadValue
  <2>5. Order[r.pc] = 6
    BY <1>4 DEF Order
  <2> QED
    BY <1>2, <2>2, <2>3, <2>4, <2>5
<1> QED
  BY <1>3, <1>4 DEF Onward

\* To the next server: what was tried did not have the file, or failed.
LEMMA NextServerInv ==
    ASSUME NEW k \in Busy, SearchInv(k), k.pc \in {"get"} \cup Connected,
           Looking(k) => k.server \notin Holder,
           k.op \in Failover \cap Uploads => k.stored = {}
    PROVE  /\ NextServer(k) \in Busy
           /\ Onward(k, NextServer(k))
           /\ k.op \notin Uploads \/ k.op \in Failover => CallInv(NextServer(k))
<1> DEFINE r == NextServer(k)
<1>1. r \in Busy
  BY CallTypes
<1>2. CASE k.op \in Failover
  <2>1. r = [k EXCEPT !.pc = "select", !.tried = @ \cup {k.server}]
    BY <1>2 DEF NextServer
  <2>2. /\ r.pc = "select" /\ r.tried = k.tried \cup {k.server}
        /\ r.op = k.op /\ r.from = k.from /\ r.stored = k.stored /\ r.hit = k.hit
    BY <2>1 DEF Busy
  <2>3. Onward(k, r)
    BY <2>2 DEF Onward, SearchInv
  <2>4. SearchInv(r)
    BY <2>2 DEF SearchInv, Looking, Connected
  <2>5. UploadInv(r)
    BY <1>2, <2>2 DEF UploadInv
  <2> QED
    BY <1>1, <2>3, <2>4, <2>5 DEF CallInv
<1>3. CASE k.op \notin Failover
  <2>1. r = [k EXCEPT !.pc = "done", !.result = "error", !.alive = TRUE]
    BY <1>3 DEF NextServer, Finished
  <2>2. /\ r.pc = "done" /\ r.tried = k.tried /\ r.op = k.op /\ r.from = k.from
        /\ r.hit = k.hit
    BY <2>1 DEF Busy
  <2>3. Order["done"] < Order[k.pc]
    BY DEF Order, Connected
  <2>4. Onward(k, r)
    BY <2>2, <2>3 DEF Onward
  <2>5. k.op \notin Uploads => CallInv(r)
    BY <1>3, <2>2 DEF SearchInv, UploadInv, CallInv, Looking, Connected, Failover
  <2> QED
    BY <1>1, <1>3, <2>4, <2>5
<1> QED
  BY <1>2, <1>3

LEMMA HitInv ==
    ASSUME NEW k \in Busy, SearchInv(k)
    PROVE  /\ Hit(k) \in Busy /\ SearchInv(Hit(k))
           /\ Hit(k).pc = k.pc /\ Hit(k).op = k.op /\ Hit(k).stored = k.stored
           /\ Hit(k).server = k.server /\ Hit(k).tried = k.tried /\ ~Looking(Hit(k))
<1>1. Hit(k) \in Busy
  BY CallTypes
<1>2. /\ Hit(k).pc = k.pc /\ Hit(k).op = k.op /\ Hit(k).stored = k.stored
      /\ Hit(k).server = k.server /\ Hit(k).tried = k.tried /\ Hit(k).from = k.from
      /\ Hit(k).hit = TRUE
  BY DEF Busy, Hit
<1> QED
  BY <1>1, <1>2 DEF SearchInv, Looking

LEMMA SameOnward ==
    ASSUME NEW k, NEW m, NEW r, m.pc = k.pc, m.tried = k.tried, m.server = k.server,
           Onward(m, r)
    PROVE  Onward(k, r)
  BY DEF Onward

\* Candidates are servers the call may ask: storage servers it did not try.
LEMMA CandidatesAreNew ==
    ASSUME TypeOK, NEW k \in Busy
    PROVE  Candidates(k) \subseteq Storage \ k.tried
<1>1. \A s \in k.tried : IsExcluded(k, s)
  BY DEF IsExcluded
<1>2. known \subseteq Storage /\ Static \subseteq Storage
  BY ClientApiAssumption DEF TypeOK
<1> QED
  BY <1>1, <1>2 DEF Candidates, Registered

\* No candidate left: whatever was in reach was tried.
LEMMA NothingInReach ==
    ASSUME NEW k \in Busy, SearchInv(k), Looking(k), Candidates(k) = {}
    PROVE  InReach(k) = {}
<1>1. Registered(k) = {} /\ \A s \in Static : IsExcluded(k, s)
  BY DEF Candidates
<1>2. ASSUME NEW s \in InReach(k) PROVE FALSE
  <2>1. /\ s \in Holder
        /\ s \in Static \/ (s \in k.from /\ k.group \in {AnyGroup, Group[s]})
        /\ \A x \in k.tried \ {s} : Id[x] # Id[s]
    BY <1>2 DEF InReach
  <2>2. IsExcluded(k, s)
    BY <1>1, <2>1 DEF Registered, SearchInv, Looking, Uploads
  <2>3. s \in k.tried
    BY <2>1, <2>2 DEF IsExcluded
  <2> QED
    BY <2>1, <2>3 DEF SearchInv
<1> QED
  BY <1>2

LEMMA SelectInv ==
    ASSUME IInv, NEW c \in Caller, NEW k \in Busy, k = call[c], CallInv(k),
           SelectStorageServer(c)
    PROVE  \E r \in Busy : Set(c, r) /\ CallInv(r) /\ Onward(k, r)
<1>1. PICK s \in Candidates(k) :
          Set(c, [k EXCEPT !.pc = IF k.op \in Proxied THEN "forward" ELSE "get", !.server = s])
  BY DEF SelectStorageServer
<1> DEFINE p == IF k.op \in Proxied THEN "forward" ELSE "get"
           r == [k EXCEPT !.pc = p, !.server = s]
<1>2. s \in Storage /\ s \notin k.tried /\ k.pc = "select"
  BY CandidatesAreNew DEF IInv, SelectStorageServer
<1>3. p \in {"forward", "get"} /\ (p = "forward" <=> k.op \in Proxied)
  OBVIOUS
<1> HIDE DEF p
<1>4. r \in Busy
  BY <1>2, <1>3 DEF Busy, Server
<1>5. /\ r.pc = p /\ r.server = s /\ r.op = k.op /\ r.tried = k.tried /\ r.from = k.from
      /\ r.stored = k.stored /\ r.hit = k.hit
  BY DEF Busy
<1> HIDE DEF r
<1>6. SearchInv(r)
  BY <1>2, <1>3, <1>5 DEF CallInv, SearchInv, Looking, Connected
<1>7. UploadInv(r)
  BY <1>2, <1>3, <1>5 DEF CallInv, UploadInv
<1>8. Onward(k, r)
  <2>1. Order[p] < Order["select"]
    BY <1>3 DEF Order
  <2> QED
    BY <1>2, <1>5, <2>1 DEF Onward
<1> QED
  BY <1>1, <1>4, <1>6, <1>7, <1>8 DEF CallInv, p, r

\* The end of a call, when what it says of the upload and the search is true.
LEMMA FinishedInv ==
    ASSUME NEW k \in Busy, SearchInv(k), k.pc # "done", NEW res \in {"ok", "error", "blank"},
           k.op \in Uploads => k.stored \subseteq {k.server},
           k.op \in Uploads /\ res = "ok" => k.stored = {k.server},
           Looking(k) /\ res = "error" => InReach(k) = {}
    PROVE  /\ Finished(k, res) \in Busy
           /\ CallInv(Finished(k, res))
           /\ Onward(k, Finished(k, res))
<1> DEFINE r == Finished(k, res)
<1>1. r \in Busy
  BY CallTypes
<1>2. /\ r.pc = "done" /\ r.result = res /\ r.server = k.server /\ r.op = k.op
      /\ r.tried = k.tried /\ r.from = k.from /\ r.stored = k.stored /\ r.hit = k.hit
      /\ r.group = k.group
  BY DEF Busy, Finished
<1> HIDE DEF r
<1>3. InReach(r) = InReach(k)
  BY <1>2 DEF InReach
<1>4. SearchInv(r)
  BY <1>2, <1>3 DEF SearchInv, Looking, Connected
<1>5. UploadInv(r)
  BY <1>2 DEF UploadInv
<1>6. Onward(k, r)
  <2>1. k.pc \in {"select", "get", "auth", "send", "receive", "forward"}
    BY DEF Busy
  <2>2. Order["done"] < Order[k.pc]
    BY <2>1 DEF Order
  <2> QED
    BY <1>2, <2>2 DEF Onward
<1> QED
  BY <1>1, <1>4, <1>5, <1>6 DEF CallInv, r

\* Coming further with the same server.
LEMMA FurtherInv ==
    ASSUME NEW k \in Busy, CallInv(k), k.pc \in {"get"} \cup Connected,
           NEW r \in Busy, r.pc \in Connected, Order[r.pc] < Order[k.pc],
           r.tried = k.tried, r.server = k.server, r.op = k.op, r.from = k.from,
           r.stored = k.stored, k.hit => r.hit
    PROVE  CallInv(r) /\ Onward(k, r)
  BY DEF CallInv, SearchInv, UploadInv, Looking, Onward, Connected

LEMMA GetConnectionInv ==
    ASSUME NEW c \in Caller, NEW k \in Busy, k = call[c], CallInv(k), GetConnection(c)
    PROVE  \E r \in Busy : Set(c, r) /\ CallInv(r) /\ Onward(k, r)
<1>1. /\ k.pc = "get" /\ Order["send"] < Order["get"] /\ Order["auth"] < Order["get"]
  BY DEF GetConnection, Order
<1>2. CASE Set(c, [k EXCEPT !.pc = "send", !.alive = TRUE])
  <2> DEFINE r == [k EXCEPT !.pc = "send", !.alive = TRUE]
  <2>1. /\ r \in Busy /\ r.pc = "send" /\ r.tried = k.tried /\ r.server = k.server
        /\ r.op = k.op /\ r.from = k.from /\ r.stored = k.stored /\ r.hit = k.hit
    BY DEF Busy
  <2> HIDE DEF r
  <2>2. CallInv(r) /\ Onward(k, r)
    BY <1>1, <2>1, FurtherInv DEF Connected
  <2> QED
    BY <1>2, <2>1, <2>2 DEF r
<1>3. CASE Set(c, [Hit(k) EXCEPT !.pc = "send", !.alive = FALSE])
  <2> DEFINE r == [Hit(k) EXCEPT !.pc = "send", !.alive = FALSE]
  <2>1. /\ r \in Busy /\ r.pc = "send" /\ r.tried = k.tried /\ r.server = k.server
        /\ r.op = k.op /\ r.from = k.from /\ r.stored = k.stored /\ r.hit = TRUE
    BY DEF Busy, Hit
  <2> HIDE DEF r
  <2>2. CallInv(r) /\ Onward(k, r)
    BY <1>1, <2>1, FurtherInv DEF Connected
  <2> QED
    BY <1>3, <2>1, <2>2 DEF r
<1>4. CASE Set(c, [k EXCEPT !.pc = "auth", !.alive = TRUE])
  <2> DEFINE r == [k EXCEPT !.pc = "auth", !.alive = TRUE]
  <2>1. /\ r \in Busy /\ r.pc = "auth" /\ r.tried = k.tried /\ r.server = k.server
        /\ r.op = k.op /\ r.from = k.from /\ r.stored = k.stored /\ r.hit = k.hit
    BY DEF Busy
  <2> HIDE DEF r
  <2>2. CallInv(r) /\ Onward(k, r)
    BY <1>1, <2>1, FurtherInv DEF Connected
  <2> QED
    BY <1>4, <2>1, <2>2 DEF r
<1> QED
  BY <1>2, <1>3, <1>4 DEF GetConnection

\* Authenticate and Send: on with the connection.
LEMMA GotoInv ==
    ASSUME NEW c \in Caller, NEW k \in Busy, k = call[c], CallInv(k),
           Authenticate(c) \/ Send(c)
    PROVE  \E r \in Busy : Set(c, r) /\ CallInv(r) /\ Onward(k, r)
<1>1. PICK p \in {"send", "receive"} :
         k.pc \in Connected /\ Goto(c, p) /\ Order[p] < Order[k.pc]
  <2>1. CASE Authenticate(c)
    BY <2>1 DEF Authenticate, Connected, Order
  <2>2. CASE Send(c)
    BY <2>2 DEF Send, Connected, Order
  <2> QED
    BY <2>1, <2>2
<1> DEFINE r == [k EXCEPT !.pc = p]
<1>2. /\ r \in Busy /\ r.pc = p /\ r.tried = k.tried /\ r.server = k.server
      /\ r.op = k.op /\ r.from = k.from /\ r.stored = k.stored /\ r.hit = k.hit
  BY DEF Busy
<1>3. Set(c, r)
  BY <1>1 DEF Goto
<1> HIDE DEF r
<1>4. CallInv(r) /\ Onward(k, r)
  BY <1>1, <1>2, FurtherInv DEF Connected
<1> QED
  BY <1>2, <1>3, <1>4

\* A failure before the request was sent: the next server.
LEMMA FailedInv ==
    ASSUME NEW c \in Caller, NEW k \in Busy, k = call[c], CallInv(k),
           k.pc \in {"get", "auth"}, Set(c, NextServer(Hit(k)))
    PROVE  \E r \in Busy : Set(c, r) /\ CallInv(r) /\ Onward(k, r)
<1> DEFINE m == Hit(k)
           r == NextServer(m)
<1>1. /\ m \in Busy /\ SearchInv(m) /\ m.pc = k.pc /\ m.op = k.op /\ m.stored = k.stored
      /\ m.server = k.server /\ m.tried = k.tried /\ ~Looking(m)
  BY HitInv DEF CallInv
<1>2. k.op \in Uploads => k.stored = {} /\ k.op \in Failover
  BY DEF CallInv, SearchInv, UploadInv, Uploads, Proxied, Failover, Connected
<1> HIDE DEF m
<1>3. r \in Busy /\ Onward(m, r) /\ CallInv(r)
  BY <1>1, <1>2, NextServerInv DEF Connected
<1> HIDE DEF r
<1>4. Onward(k, r)
  BY <1>1, <1>3, SameOnward
<1> QED
  BY <1>3, <1>4 DEF r, m

\* A failure after the request was sent: an upload may have been stored.
LEMMA AfterSendInv ==
    ASSUME NEW m \in Busy, SearchInv(m), m.pc \in Connected,
           m.op = "upload" => m.stored \subseteq {m.server},
           Looking(m) => m.server \notin Holder
    PROVE  /\ AfterSend(m) \in Busy
           /\ CallInv(AfterSend(m))
           /\ Onward(m, AfterSend(m))
<1>1. m.op \notin Proxied
  BY DEF SearchInv
<1>2. CASE m.op = "upload"
  <2>1. AfterSend(m) = Finished(m, "error") /\ ~Looking(m) /\ m.pc # "done"
    BY <1>2 DEF AfterSend, Looking, Connected
  <2> QED
    BY <1>2, <2>1, FinishedInv
<1>3. CASE m.op # "upload"
  <2>1. AfterSend(m) = NextServer(m) /\ m.op \notin Uploads
    BY <1>1, <1>3 DEF AfterSend, Uploads, Proxied
  <2> QED
    BY <2>1, NextServerInv
<1> QED
  BY <1>2, <1>3

LEMMA SendFailsInv ==
    ASSUME NEW c \in Caller, NEW k \in Busy, k = call[c], CallInv(k), SendFails(c)
    PROVE  \E r \in Busy : Set(c, r) /\ CallInv(r) /\ Onward(k, r)
<1> DEFINE m == Hit(k)
           r == AfterSend(m)
<1>1. /\ m \in Busy /\ SearchInv(m) /\ m.pc = k.pc /\ m.op = k.op /\ m.stored = k.stored
      /\ m.server = k.server /\ m.tried = k.tried /\ ~Looking(m)
  BY HitInv DEF CallInv
<1>2. Set(c, r) /\ k.pc = "send"
  BY DEF SendFails
<1>3. k.op \in Uploads => k.stored = {}
  BY <1>2 DEF CallInv, UploadInv
<1> HIDE DEF m
<1>4. r \in Busy /\ CallInv(r) /\ Onward(m, r)
  BY <1>1, <1>2, <1>3, AfterSendInv DEF Connected, Uploads
<1> HIDE DEF r
<1>5. Onward(k, r)
  BY <1>1, <1>4, SameOnward
<1> QED
  BY <1>2, <1>4, <1>5

LEMMA ReceiveInv ==
    ASSUME NEW c \in Caller, NEW k \in Busy, k = call[c], CallInv(k), Receive(c)
    PROVE  \E r \in Busy : Set(c, r) /\ CallInv(r) /\ Onward(k, r)
<1> DEFINE m == IF k.op = "upload" THEN [k EXCEPT !.stored = @ \cup {k.server}] ELSE k
           r == Finished(m, "ok")
<1>1. Set(c, r) /\ k.pc = "receive"
  BY DEF Receive
<1>2. SearchInv(k) /\ k.op \notin Proxied
  BY <1>1 DEF CallInv, SearchInv, Connected
<1>3. k.op = "upload" => k.stored = {} /\ k.server \in Storage
  BY <1>1 DEF CallInv, UploadInv, Uploads
<1>4. /\ m \in Busy /\ m.pc = k.pc /\ m.op = k.op /\ m.server = k.server
      /\ m.tried = k.tried /\ m.from = k.from /\ m.hit = k.hit
      /\ k.op = "upload" => m.stored = {k.server}
  BY <1>3 DEF Busy
<1> HIDE DEF m
<1>5. SearchInv(m)
  BY <1>1, <1>2, <1>4 DEF SearchInv, Looking
<1>6. r \in Busy /\ CallInv(r) /\ Onward(m, r)
  BY <1>1, <1>2, <1>4, <1>5, FinishedInv DEF Uploads, Proxied
<1> HIDE DEF r
<1>7. Onward(k, r)
  BY <1>4, <1>6, SameOnward
<1> QED
  BY <1>1, <1>6, <1>7

LEMMA ReceiveNotFoundInv ==
    ASSUME NEW c \in Caller, NEW k \in Busy, k = call[c], CallInv(k), ReceiveNotFound(c)
    PROVE  \E r \in Busy : Set(c, r) /\ CallInv(r) /\ Onward(k, r)
<1>1. /\ Set(c, NextServer(k)) /\ k.pc = "receive" /\ k.op = "query"
      /\ k.server \notin Holder
  BY DEF ReceiveNotFound, Served
<1>2. NextServer(k) \in Busy /\ CallInv(NextServer(k)) /\ Onward(k, NextServer(k))
  BY <1>1, NextServerInv DEF CallInv, Connected, Uploads
<1> QED
  BY <1>1, <1>2

LEMMA ReceiveFailsInv ==
    ASSUME NEW c \in Caller, NEW k \in Busy, k = call[c], CallInv(k), ReceiveFails(c)
    PROVE  \E r \in Busy : Set(c, r) /\ CallInv(r) /\ Onward(k, r)
<1> DEFINE closes == k.op \in {"download", "downloadFrom"} /\ ~Served(k)
           Met(st) == [k EXCEPT !.stored = @ \cup st, !.hit = @ \/ ~closes \/ ~k.alive]
<1>1. PICK st \in SUBSET {k.server} :
         /\ st # {} => k.op = "upload" /\ k.alive
         /\ Set(c, AfterSend(Met(st)))
  BY DEF ReceiveFails
<1>2. k.pc = "receive"
  BY DEF ReceiveFails
<1> DEFINE m == Met(st)
           h == k.hit \/ ~closes \/ ~k.alive
           r == AfterSend(m)
<1>3. k.op = "upload" => k.stored = {} /\ k.server \in Storage
  BY <1>2 DEF CallInv, UploadInv, Uploads
<1>4. h \in BOOLEAN /\ (k.hit => h) /\ (~h => closes)
  BY DEF Busy
<1>5. m = [k EXCEPT !.stored = @ \cup st, !.hit = h]
  OBVIOUS
<1> HIDE DEF h, m
<1>6. /\ m.pc = k.pc /\ m.op = k.op /\ m.server = k.server
      /\ m.tried = k.tried /\ m.from = k.from /\ m.hit = h
      /\ k.op = "upload" => m.stored \subseteq {k.server}
  BY <1>1, <1>3, <1>5 DEF Busy
<1>7. m \in Busy
  <2> DEFINE new == k.stored \cup st
  <2>1. new \subseteq Storage
    BY <1>1, <1>3 DEF Busy
  <2>2. m = [k EXCEPT !.stored = new, !.hit = h]
    BY <1>5
  <2> HIDE DEF new
  <2> QED
    BY <1>4, <2>1, <2>2 DEF Busy
<1>8. SearchInv(m)
  BY <1>2, <1>4, <1>6 DEF CallInv, SearchInv, Looking
<1>9. Looking(m) => m.server \notin Holder
  BY <1>4, <1>6 DEF Looking, Served
<1> HIDE DEF closes
<1>10. r \in Busy /\ CallInv(r) /\ Onward(m, r)
  BY <1>2, <1>6, <1>7, <1>8, <1>9, AfterSendInv DEF Connected
<1>11. Set(c, r)
  BY <1>1 DEF m
<1> HIDE DEF r
<1>12. Onward(k, r)
  BY <1>6, <1>10, SameOnward
<1> QED
  BY <1>10, <1>11, <1>12

LEMMA ForwardInv ==
    ASSUME NEW c \in Caller, NEW k \in Busy, k = call[c], CallInv(k), Forward(c)
    PROVE  \E r \in Busy : Set(c, r) /\ CallInv(r) /\ Onward(k, r)
<1>1. k.pc = "forward" /\ k.op \in Proxied /\ SearchInv(k)
  BY DEF Forward, CallInv, SearchInv
<1>2. k.op = "proxyUpload" => k.stored = {} /\ k.server \in Storage
  BY <1>1 DEF CallInv, UploadInv, Uploads
<1>3. ASSUME NEW m \in Busy, NEW res \in {"ok", "error", "blank"}, Set(c, Finished(m, res)),
             m.pc = k.pc, m.op = k.op, m.server = k.server, m.tried = k.tried,
             m.from = k.from, k.hit => m.hit,
             m.op = "proxyUpload" => m.stored \subseteq {m.server},
             m.op = "proxyUpload" /\ res = "ok" => m.stored = {m.server}
      PROVE  \E r \in Busy : Set(c, r) /\ CallInv(r) /\ Onward(k, r)
  <2>1. SearchInv(m) /\ ~Looking(m)
    BY <1>1, <1>3 DEF SearchInv, Looking, Proxied, Connected
  <2>2. m.pc # "done" /\ (m.op \in Uploads => m.op = "proxyUpload")
    BY <1>1, <1>3 DEF Uploads, Proxied
  <2> DEFINE r == Finished(m, res)
  <2>3. r \in Busy /\ CallInv(r) /\ Onward(m, r)
    BY <1>3, <2>1, <2>2, FinishedInv
  <2> HIDE DEF r
  <2>4. Onward(k, r)
    BY <1>3, <2>3, SameOnward
  <2> QED
    BY <1>3, <2>3, <2>4 DEF r
<1>4. CASE Set(c, Finished(IF k.op = "proxyUpload"
                           THEN [k EXCEPT !.stored = @ \cup {k.server}] ELSE k, "ok"))
  <2> DEFINE m == IF k.op = "proxyUpload" THEN [k EXCEPT !.stored = @ \cup {k.server}] ELSE k
  <2>1. /\ m \in Busy /\ m.pc = k.pc /\ m.op = k.op /\ m.server = k.server
        /\ m.tried = k.tried /\ m.from = k.from /\ m.hit = k.hit
        /\ k.op = "proxyUpload" => m.stored = {k.server}
    BY <1>2 DEF Busy
  <2>2. Set(c, Finished(m, "ok"))
    BY <1>4
  <2> HIDE DEF m
  <2> QED
    BY <1>3, <2>1, <2>2
<1>5. CASE \E st \in SUBSET {k.server}, res \in {"error", "blank"} :
              /\ st # {} => k.op = "proxyUpload"
              /\ Set(c, Finished([Hit(k) EXCEPT !.stored = @ \cup st], res))
  <2>1. PICK st \in SUBSET {k.server}, res \in {"error", "blank"} :
              /\ st # {} => k.op = "proxyUpload"
              /\ Set(c, Finished([Hit(k) EXCEPT !.stored = @ \cup st], res))
    BY <1>5
  <2> DEFINE m == [Hit(k) EXCEPT !.stored = @ \cup st]
  <2>2. /\ m \in Busy /\ m.pc = k.pc /\ m.op = k.op /\ m.server = k.server
        /\ m.tried = k.tried /\ m.from = k.from /\ m.hit = TRUE
        /\ k.op = "proxyUpload" => m.stored \subseteq {k.server}
    BY <1>2, <2>1 DEF Busy, Hit
  <2>3. Set(c, Finished(m, res))
    BY <2>1
  <2> HIDE DEF m
  <2> QED
    BY <1>3, <2>1, <2>2, <2>3
<1> QED
  BY <1>4, <1>5 DEF Forward

\* A request that cannot be made leaves the call what it was, or chooses again.
LEMMA RequestFailsInv ==
    ASSUME NEW c \in Caller, NEW k \in Busy, k = call[c], CallInv(k), RequestFails(c)
    PROVE  \E r \in Busy : /\ Set(c, r) /\ CallInv(r)
                           /\ r.pc \in {"select", "forward"} /\ k.pc = "forward"
<1> DEFINE p == IF k.op = "proxyUpload" THEN "select" ELSE "forward"
           r == [Hit(k) EXCEPT !.pc = p]
<1>1. k.pc = "forward" /\ k.op \in Proxied /\ SearchInv(k) /\ Set(c, r)
  BY DEF RequestFails, CallInv, SearchInv
<1>2. p \in {"select", "forward"} /\ (k.op = "proxyUpload" => k.stored = {})
  BY <1>1 DEF CallInv, UploadInv, Uploads
<1>3. k.op = "proxyUpload" => k.server \in Storage
  BY <1>1 DEF CallInv, UploadInv, Uploads
<1> HIDE DEF p
<1>4. Hit(k) \in Busy
  BY CallTypes
<1>5. /\ r \in Busy /\ r.pc = p /\ r.op = k.op /\ r.tried = k.tried
      /\ r.server = k.server /\ r.from = k.from /\ r.stored = k.stored /\ r.hit = TRUE
  BY <1>2, <1>4 DEF Hit, Busy
<1> HIDE DEF r
<1>6. SearchInv(r)
  BY <1>1, <1>2, <1>5 DEF SearchInv, Looking, Connected
<1>7. UploadInv(r)
  BY <1>1, <1>2, <1>3, <1>5 DEF UploadInv, Uploads, Proxied
<1> QED
  BY <1>1, <1>2, <1>5, <1>6, <1>7 DEF CallInv

(***************************************************************************)
(* Every step of a call: the call goes onward, keeping what it carries, or *)
(* was done and is forgotten; only a request that cannot be made does not  *)
(* bring it further.                                                       *)
(***************************************************************************)
LEMMA StepInv ==
    ASSUME IInv, NEW c \in Caller, CallStep(c), NEW k, k = call[c]
    PROVE  /\ k \in Busy /\ CallInv(k)
           /\ \/ k.pc = "done" /\ Set(c, Idle)
              \/ \E r \in Busy : /\ Set(c, r) /\ CallInv(r)
                                 /\ Onward(k, r) \/ RequestFails(c)
<1>1. k.pc # "idle"
  BY DEF CallStep, SelectStorageServer, NoStorageServer, GetConnection, GetConnectionFails,
         Authenticate, AuthenticateFails, Send, SendFails, Receive, ReceiveNotFound,
         ReceiveFails, Forward, RequestFails, Return
<1>2. k \in Busy /\ CallInv(k)
  BY <1>1, BusyOrIdle DEF IInv
<1>3. CASE SelectStorageServer(c)
  BY <1>2, <1>3, SelectInv
<1>4. CASE NoStorageServer(c)
  <2> DEFINE res == IF k.op \in Proxied THEN "blank" ELSE "error"
  <2>1. /\ Set(c, Finished(k, res)) /\ k.pc = "select" /\ Candidates(k) = {}
        /\ res \in {"error", "blank"}
    BY <1>4 DEF NoStorageServer
  <2>2. k.op \in Uploads => k.stored = {}
    BY <1>2, <2>1 DEF CallInv, UploadInv
  <2>3. Looking(k) => InReach(k) = {}
    BY <1>2, <2>1, NothingInReach DEF CallInv
  <2> HIDE DEF res
  <2>4. Finished(k, res) \in Busy /\ CallInv(Finished(k, res)) /\ Onward(k, Finished(k, res))
    BY <1>2, <2>1, <2>2, <2>3, FinishedInv DEF CallInv
  <2> QED
    BY <1>2, <2>1, <2>4
<1>5. CASE GetConnection(c)
  BY <1>2, <1>5, GetConnectionInv
<1>6. CASE GetConnectionFails(c)
  BY <1>2, <1>6, FailedInv DEF GetConnectionFails
<1>7. CASE Authenticate(c) \/ Send(c)
  BY <1>2, <1>7, GotoInv
<1>8. CASE AuthenticateFails(c)
  BY <1>2, <1>8, FailedInv DEF AuthenticateFails
<1>9. CASE SendFails(c)
  BY <1>2, <1>9, SendFailsInv
<1>10. CASE Receive(c)
  BY <1>2, <1>10, ReceiveInv
<1>11. CASE ReceiveNotFound(c)
  BY <1>2, <1>11, ReceiveNotFoundInv
<1>12. CASE ReceiveFails(c)
  BY <1>2, <1>12, ReceiveFailsInv
<1>13. CASE Forward(c)
  BY <1>2, <1>13, ForwardInv
<1>14. CASE Return(c)
  BY <1>2, <1>14 DEF Return
<1>15. CASE RequestFails(c)
  BY <1>2, <1>15, RequestFailsInv
<1> QED
  BY <1>3, <1>4, <1>5, <1>6, <1>7, <1>8, <1>9, <1>10, <1>11, <1>12, <1>13, <1>14, <1>15
     DEF CallStep

\* In either case the step gives its call one next state.
LEMMA StepGoes ==
    ASSUME IInv, NEW c \in Caller, CallStep(c)
    PROVE  \E r \in Call : Set(c, r) /\ (r # Idle => CallInv(r))
<1>1. \/ call[c].pc = "done" /\ Set(c, Idle)
      \/ \E r \in Busy : /\ Set(c, r) /\ CallInv(r)
                         /\ Onward(call[c], r) \/ RequestFails(c)
  BY StepInv
<1>2. Busy \subseteq Call /\ Idle \in Call
  BY DEF Call
<1>3. CASE Set(c, Idle)
  BY <1>2, <1>3
<1>4. CASE \E r \in Busy : Set(c, r) /\ CallInv(r)
  BY <1>2, <1>4
<1> QED
  BY <1>1, <1>3, <1>4

LEMMA BeginInv ==
    ASSUME IInv, NEW c \in Caller, BeginCall(c)
    PROVE  /\ call[c] = Idle
           /\ \E r \in Busy : Set(c, r) /\ CallInv(r) /\ r.pc \notin Connected
<1>1. known \subseteq Storage /\ AnyServer \in Server /\ Tracker \subseteq Server
  BY ClientApiAssumption DEF IInv, TypeOK, AnyServer, Server
<1>2. ASSUME NEW op \in Failover \cup Proxied \cup Direct, NEW g \in Groups \cup {AnyGroup},
             NEW p \in {"select", "forward", "get"}, NEW s \in Server, Begin(c, op, g, p, s),
             p = "forward" => op = "proxyDownload",
             p = "get" => op \in Direct
      PROVE  /\ call[c] = Idle
             /\ \E r \in Busy : Set(c, r) /\ CallInv(r) /\ r.pc \notin Connected
  <2> DEFINE f == IF op \in {"download", "query"} THEN known ELSE {}
             r == [pc |-> p, op |-> op, group |-> g, server |-> s, tried |-> {},
                   from |-> f, stored |-> {}, hit |-> FALSE, alive |-> TRUE, result |-> "none"]
  <2>1. Set(c, r) /\ call[c] = Idle
    BY <1>2, BusyOrIdle DEF Begin, IInv
  <2>2. f \subseteq known /\ f \subseteq Storage
    BY <1>1
  <2> HIDE DEF f
  <2>3. r \in Busy
    BY <2>2 DEF Busy
  <2>4. /\ r.pc = p /\ r.op = op /\ r.tried = {} /\ r.from = f /\ r.stored = {}
        /\ r.result = "none"
    OBVIOUS
  <2> HIDE DEF r
  <2>5. SearchInv(r)
    BY <1>2, <2>2, <2>4 DEF SearchInv, Looking, Connected, Proxied, Direct
  <2>6. UploadInv(r)
    BY <1>2, <2>4 DEF UploadInv, Uploads, Direct
  <2>7. r.pc \notin Connected
    BY <2>4 DEF Connected
  <2> QED
    BY <2>1, <2>3, <2>5, <2>6, <2>7 DEF CallInv
<1>3. /\ Uploads \subseteq Failover \cup Proxied \cup Direct
      /\ {"download", "proxyDownload", "query"} \subseteq Failover \cup Proxied \cup Direct
      /\ {"downloadFrom", "syncBinlog", "callTracker"} \subseteq Direct
      /\ Storage \subseteq Server
  BY DEF Uploads, Failover, Proxied, Direct, Server
<1> QED
  BY <1>1, <1>2, <1>3 DEF BeginCall

-----------------------------------------------------------------------------
\* The part of the invariant that a step of a call or of a server must balance.
PoolOK ==
    /\ pool \in [Server -> [open : 0 .. MaxConns, idle : 0 .. MaxConns, dead : 0 .. MaxConns]]
    /\ lost \in [Server -> Nat]
    /\ PoolConserved

\* What is taken from and added to the pool of one server is what the call
\* of one caller takes and gives.
LEMMA Balance ==
    ASSUME IInv, NEW c \in Caller, NEW r \in Call, Set(c, r),
           DOMAIN pool' = Server, DOMAIN lost' = Server,
           pool' = [s \in Server |-> pool'[s]], lost' = [s \in Server |-> lost'[s]],
           \A s \in Server :
              /\ pool'[s] \in [open : Int, idle : Nat, dead : Nat] /\ lost'[s] \in Nat
              /\ pool'[s].open <= MaxConns
              /\ pool'[s].open - pool'[s].idle - pool'[s].dead - lost'[s]
                    - (IF HasConn(r, s) THEN 1 ELSE 0)
                 = pool[s].open - pool[s].idle - pool[s].dead - lost[s]
                    - (IF HasConn(call[c], s) THEN 1 ELSE 0)
    PROVE  PoolOK'
<1> USE ClientApiAssumption
<1>1. ASSUME NEW s \in Server
      PROVE  /\ pool'[s] \in [open : 0 .. MaxConns, idle : 0 .. MaxConns, dead : 0 .. MaxConns]
             /\ pool'[s].open = pool'[s].idle + pool'[s].dead + lost'[s]
                                + Cardinality(Users(s)')
  <2> DEFINE U == Cardinality(Users(s))
             V == Cardinality(Users(s)')
             p == pool[s]
             q == pool'[s]
             u == IF HasConn(call[c], s) THEN 1 ELSE 0
             v == IF HasConn(r, s) THEN 1 ELSE 0
  <2>1. U \in Nat /\ V \in Nat /\ V = U - u + v
    BY UsingChanges DEF IInv
  <2>2. p \in [open : 0 .. MaxConns, idle : 0 .. MaxConns, dead : 0 .. MaxConns]
        /\ lost[s] \in Nat
    BY DEF IInv, TypeOK
  <2>3. p.open = p.idle + p.dead + lost[s] + U
    BY DEF IInv, PoolConserved
  <2>4. q \in [open : Int, idle : Nat, dead : Nat] /\ lost'[s] \in Nat /\ q.open <= MaxConns
    OBVIOUS
  <2>5. q.open - q.idle - q.dead - lost'[s] - v = p.open - p.idle - p.dead - lost[s] - u
    OBVIOUS
  <2>6. u \in {0, 1} /\ v \in {0, 1}
    OBVIOUS
  <2> HIDE DEF U, V, p, q, u, v
  <2>7. q.open = q.idle + q.dead + lost'[s] + V
    BY <2>1, <2>2, <2>3, <2>4, <2>5, <2>6
  <2>8. q.open \in 0 .. MaxConns /\ q.idle \in 0 .. MaxConns /\ q.dead \in 0 .. MaxConns
    BY <2>1, <2>4, <2>7
  <2>9. q \in [open : 0 .. MaxConns, idle : 0 .. MaxConns, dead : 0 .. MaxConns]
    BY <2>4, <2>8
  <2> QED
    BY <2>7, <2>9 DEF V, q
<1>2. pool' \in [Server -> [open : 0 .. MaxConns, idle : 0 .. MaxConns, dead : 0 .. MaxConns]]
  BY <1>1
<1>3. lost' \in [Server -> Nat]
  OBVIOUS
<1> QED
  BY <1>1, <1>2, <1>3 DEF PoolOK, PoolConserved

LEMMA PoolKept ==
    ASSUME IInv, NEW c \in Caller, NEW r \in Call, Set(c, r), UNCHANGED <<pool, lost>>,
           \A s \in Server : HasConn(call[c], s) <=> HasConn(r, s)
    PROVE  PoolOK'
<1>1. ASSUME NEW s \in Server
      PROVE  /\ pool[s] \in [open : 0 .. MaxConns, idle : 0 .. MaxConns, dead : 0 .. MaxConns]
             /\ lost[s] \in Nat
  BY DEF IInv, TypeOK
<1>2. /\ pool = [s \in Server |-> pool[s]] /\ DOMAIN pool = Server
      /\ lost = [s \in Server |-> lost[s]] /\ DOMAIN lost = Server
  BY DEF IInv, TypeOK
<1>3. MaxConns \in Nat
  BY ClientApiAssumption
<1> QED
  BY <1>1, <1>2, <1>3, Balance

\* A connection given back or left behind.
LEMMA PoolGivenBack ==
    ASSUME IInv, NEW c \in Caller, NEW r \in Call, Set(c, r),
           call[c].pc \in Connected, r.pc \notin Connected, NEW k, k = call[c],
           \/ /\ \E healthy, alive \in BOOLEAN : pool' = Returned(k.server, healthy, alive)
              /\ UNCHANGED lost
           \/ /\ lost' = [lost EXCEPT ![k.server] = @ + 1]
              /\ UNCHANGED pool
    PROVE  PoolOK'
<1> USE ClientApiAssumption
<1>1. k.server \in Server
  BY BusyOrIdle DEF IInv, Connected, Busy
<1>2. \A s \in Server : ~HasConn(r, s) /\ (HasConn(k, s) <=> s = k.server)
  BY DEF HasConn, Connected
<1>3. /\ pool \in [Server -> [open : 0 .. MaxConns, idle : 0 .. MaxConns, dead : 0 .. MaxConns]]
      /\ lost \in [Server -> Nat]
  BY DEF IInv, TypeOK
<1>4. ASSUME NEW s \in Server
      PROVE  /\ pool[s] \in [open : 0 .. MaxConns, idle : 0 .. MaxConns, dead : 0 .. MaxConns]
             /\ lost[s] \in Nat
  BY <1>3
<1>5. CASE /\ \E healthy, alive \in BOOLEAN : pool' = Returned(k.server, healthy, alive)
           /\ UNCHANGED lost
  <2>1. \/ pool' = [pool EXCEPT ![k.server].open = @ - 1]
        \/ pool' = [pool EXCEPT ![k.server].idle = @ + 1]
        \/ pool' = [pool EXCEPT ![k.server].dead = @ + 1]
    BY <1>5 DEF Returned
  <2>2. ASSUME NEW s \in Server
        PROVE  /\ pool'[s] \in [open : Int, idle : Nat, dead : Nat]
               /\ pool'[s].open <= MaxConns
               /\ pool'[s].open - pool'[s].idle - pool'[s].dead
                  = pool[s].open - pool[s].idle - pool[s].dead
                    - (IF s = k.server THEN 1 ELSE 0)
    <3>1. CASE pool' = [pool EXCEPT ![k.server].open = @ - 1]
      <4>1. CASE s = k.server
        <5>1. pool'[s] = [pool[s] EXCEPT !.open = @ - 1]
          BY <1>3, <3>1, <4>1
        <5> QED
          BY <1>4, <4>1, <5>1
      <4>2. CASE s # k.server
        BY <1>3, <1>4, <3>1, <4>2
      <4> QED
        BY <4>1, <4>2
    <3>2. CASE pool' = [pool EXCEPT ![k.server].idle = @ + 1]
      <4>1. CASE s = k.server
        <5>1. pool'[s] = [pool[s] EXCEPT !.idle = @ + 1]
          BY <1>3, <3>2, <4>1
        <5> QED
          BY <1>4, <4>1, <5>1
      <4>2. CASE s # k.server
        BY <1>3, <1>4, <3>2, <4>2
      <4> QED
        BY <4>1, <4>2
    <3>3. CASE pool' = [pool EXCEPT ![k.server].dead = @ + 1]
      <4>1. CASE s = k.server
        <5>1. pool'[s] = [pool[s] EXCEPT !.dead = @ + 1]
          BY <1>3, <3>3, <4>1
        <5> QED
          BY <1>4, <4>1, <5>1
      <4>2. CASE s # k.server
        BY <1>3, <1>4, <3>3, <4>2
      <4> QED
        BY <4>1, <4>2
    <3> QED
      BY <2>1, <3>1, <3>2, <3>3
  <2>3. /\ DOMAIN pool' = Server /\ pool' = [s \in Server |-> pool'[s]]
        /\ DOMAIN lost' = Server /\ lost' = [s \in Server |-> lost'[s]]
    BY <1>3, <1>5, <2>1
  <2>4. ASSUME NEW s \in Server
        PROVE  /\ pool'[s] \in [open : Int, idle : Nat, dead : Nat] /\ lost'[s] \in Nat
               /\ pool'[s].open <= MaxConns
               /\ pool'[s].open - pool'[s].idle - pool'[s].dead - lost'[s]
                     - (IF HasConn(r, s) THEN 1 ELSE 0)
                  = pool[s].open - pool[s].idle - pool[s].dead - lost[s]
                     - (IF HasConn(call[c], s) THEN 1 ELSE 0)
    <3>1. lost'[s] = lost[s]
      BY <1>5
    <3> QED
      BY <1>2, <1>4, <2>2, <3>1
  <2> QED
    BY <2>3, <2>4, Balance
<1>6. CASE /\ lost' = [lost EXCEPT ![k.server] = @ + 1]
           /\ UNCHANGED pool
  <2>1. /\ DOMAIN pool' = Server /\ pool' = [s \in Server |-> pool'[s]]
        /\ DOMAIN lost' = Server /\ lost' = [s \in Server |-> lost'[s]]
    BY <1>3, <1>6
  <2>2. ASSUME NEW s \in Server
        PROVE  /\ pool'[s] \in [open : Int, idle : Nat, dead : Nat] /\ lost'[s] \in Nat
               /\ pool'[s].open <= MaxConns
               /\ pool'[s].open - pool'[s].idle - pool'[s].dead - lost'[s]
                     - (IF HasConn(r, s) THEN 1 ELSE 0)
                  = pool[s].open - pool[s].idle - pool[s].dead - lost[s]
                     - (IF HasConn(call[c], s) THEN 1 ELSE 0)
    <3>1. pool'[s] = pool[s] /\ lost'[s] = lost[s] + (IF s = k.server THEN 1 ELSE 0)
      BY <1>1, <1>3, <1>6
    <3> QED
      BY <1>2, <1>4, <3>1
  <2> QED
    BY <2>1, <2>2, Balance
<1> QED
  BY <1>5, <1>6

LEMMA PoolTaken ==
    ASSUME IInv, NEW c \in Caller, NEW r \in Call, Set(c, r), GetConnection(c)
    PROVE  PoolOK'
<1> USE ClientApiAssumption
<1> DEFINE k == call[c]
           e == k.server
<1>1. k \in Busy /\ e \in Server /\ k.pc = "get"
  BY BusyOrIdle DEF IInv, GetConnection, Busy
<1>2. /\ pool \in [Server -> [open : 0 .. MaxConns, idle : 0 .. MaxConns, dead : 0 .. MaxConns]]
      /\ lost \in [Server -> Nat] /\ lost' = lost
  BY DEF IInv, TypeOK, GetConnection
<1>3. ASSUME NEW s \in Server
      PROVE  /\ pool[s] \in [open : 0 .. MaxConns, idle : 0 .. MaxConns, dead : 0 .. MaxConns]
             /\ lost[s] \in Nat
  BY <1>2
<1>4. call'[c] = r
  BY DEF Set, IInv, TypeOK
<1>5. r.pc \in Connected /\ r.server = e
  <2>1. \/ call'[c] = [k EXCEPT !.pc = "send", !.alive = TRUE]
        \/ call'[c] = [Hit(k) EXCEPT !.pc = "send", !.alive = FALSE]
        \/ call'[c] = [k EXCEPT !.pc = "auth", !.alive = TRUE]
    BY DEF GetConnection, Set, IInv, TypeOK
  <2>2. CASE call'[c] = [Hit(k) EXCEPT !.pc = "send", !.alive = FALSE]
    BY <1>1, <1>4, <2>2 DEF Busy, Hit, Connected
  <2>3. CASE call'[c] = [k EXCEPT !.pc = "send", !.alive = TRUE]
    BY <1>1, <1>4, <2>3 DEF Busy, Connected
  <2>4. CASE call'[c] = [k EXCEPT !.pc = "auth", !.alive = TRUE]
    BY <1>1, <1>4, <2>4 DEF Busy, Connected
  <2> QED
    BY <2>1, <2>2, <2>3, <2>4
<1>6. \A s \in Server : ~HasConn(k, s) /\ (HasConn(r, s) <=> s = e)
  BY <1>1, <1>5 DEF HasConn, Connected
<1>7. \/ pool[e].idle > 0 /\ pool' = [pool EXCEPT ![e].idle = @ - 1]
      \/ pool[e].dead > 0 /\ pool' = [pool EXCEPT ![e].dead = @ - 1]
      \/ pool[e].open < MaxConns /\ pool' = [pool EXCEPT ![e].open = @ + 1]
  BY DEF GetConnection
<1> HIDE DEF e
<1>8. ASSUME NEW s \in Server
      PROVE  /\ pool'[s] \in [open : Int, idle : Nat, dead : Nat]
             /\ pool'[s].open <= MaxConns
             /\ pool'[s].open - pool'[s].idle - pool'[s].dead
                = pool[s].open - pool[s].idle - pool[s].dead + (IF s = e THEN 1 ELSE 0)
  <2>1. CASE s # e
    <3>1. pool'[s] = pool[s]
      BY <1>2, <1>7, <2>1
    <3> QED
      BY <1>3, <2>1, <3>1
  <2>2. CASE s = e
    <3>1. \/ pool[s].idle > 0 /\ pool'[s] = [pool[s] EXCEPT !.idle = @ - 1]
          \/ pool[s].dead > 0 /\ pool'[s] = [pool[s] EXCEPT !.dead = @ - 1]
          \/ pool[s].open < MaxConns /\ pool'[s] = [pool[s] EXCEPT !.open = @ + 1]
      BY <1>2, <1>7, <2>2
    <3> QED
      BY <1>3, <2>2, <3>1
  <2> QED
    BY <2>1, <2>2
<1>9. /\ DOMAIN pool' = Server /\ pool' = [s \in Server |-> pool'[s]]
      /\ DOMAIN lost' = Server /\ lost' = [s \in Server |-> lost'[s]]
  BY <1>2, <1>7
<1>10. ASSUME NEW s \in Server
       PROVE  /\ pool'[s] \in [open : Int, idle : Nat, dead : Nat] /\ lost'[s] \in Nat
              /\ pool'[s].open <= MaxConns
              /\ pool'[s].open - pool'[s].idle - pool'[s].dead - lost'[s]
                    - (IF HasConn(r, s) THEN 1 ELSE 0)
                 = pool[s].open - pool[s].idle - pool[s].dead - lost[s]
                    - (IF HasConn(call[c], s) THEN 1 ELSE 0)
  <2>1. lost'[s] = lost[s]
    BY <1>2
  <2> QED
    BY <1>3, <1>6, <1>8, <2>1
<1> QED
  BY <1>9, <1>10, Balance

\* Where a call is that was given its next state by one of the helpers.
LEMMA GoneFrom ==
    ASSUME NEW k \in Busy
    PROVE  /\ \A r \in {"ok", "error", "blank"} : Finished(k, r).pc = "done"
           /\ NextServer(k).pc \in {"select", "done"}
           /\ AfterSend(k).pc \in {"select", "done"}
<1>1. \A r \in {"ok", "error", "blank"} : Finished(k, r).pc = "done"
  BY DEF Finished, Busy
<1>2. NextServer(k).pc \in {"select", "done"}
  <2>1. CASE k.op \in Failover
    BY <2>1 DEF NextServer, Busy
  <2>2. CASE k.op \notin Failover
    BY <1>1, <2>2 DEF NextServer
  <2> QED
    BY <2>1, <2>2
<1> QED
  BY <1>1, <1>2 DEF AfterSend

LEMMA PoolStep ==
    ASSUME IInv, NEW c \in Caller, CallStep(c), NEW r \in Call, Set(c, r)
    PROVE  PoolOK'
<1> DEFINE k == call[c]
<1>1. k \in Busy /\ call'[c] = r
  BY StepInv DEF IInv, TypeOK, Set
<1>2. \A x : Set(c, x) => r = x
  BY DEF IInv, TypeOK, Set
<1>3. CASE \/ SelectStorageServer(c) \/ NoStorageServer(c) \/ GetConnectionFails(c)
           \/ Forward(c) \/ RequestFails(c) \/ Return(c)
  <2>1. UNCHANGED <<pool, lost>> /\ k.pc \notin Connected
    BY <1>3 DEF SelectStorageServer, NoStorageServer, GetConnectionFails, Forward,
                RequestFails, Return, Connected
  <2>2. r.pc \notin Connected
    <3>1. CASE SelectStorageServer(c)
      BY <1>1, <1>2, <3>1 DEF SelectStorageServer, Connected, Busy
    <3>2. CASE NoStorageServer(c)
      BY <1>1, <1>2, <3>2, GoneFrom DEF NoStorageServer, Connected
    <3>3. CASE GetConnectionFails(c)
      <4>1. Set(c, NextServer(Hit(k))) /\ Hit(k) \in Busy
        BY <1>1, <3>3, CallTypes DEF GetConnectionFails
      <4> QED
        BY <1>2, <4>1, GoneFrom DEF Connected
    <3>4. CASE Forward(c)
      <4>1. \E m \in Busy, res \in {"ok", "error", "blank"} : Set(c, Finished(m, res))
        <5>1. k.op = "proxyUpload" => k.server \in Storage
          BY <1>1, <3>4, StepInv DEF CallInv, UploadInv, Uploads, Forward
        <5>2. ASSUME NEW st \in SUBSET {k.server}, st # {} => k.op = "proxyUpload"
              PROVE  /\ [k EXCEPT !.stored = @ \cup st] \in Busy
                     /\ [Hit(k) EXCEPT !.stored = @ \cup st] \in Busy
          BY <1>1, <5>1, <5>2 DEF Busy, Hit
        <5>3. CASE Set(c, Finished(IF k.op = "proxyUpload"
                                   THEN [k EXCEPT !.stored = @ \cup {k.server}] ELSE k, "ok"))
          BY <1>1, <5>2, <5>3
        <5>4. CASE \E st \in SUBSET {k.server}, res \in {"error", "blank"} :
                      /\ st # {} => k.op = "proxyUpload"
                      /\ Set(c, Finished([Hit(k) EXCEPT !.stored = @ \cup st], res))
          BY <5>2, <5>4
        <5> QED
          BY <3>4, <5>3, <5>4 DEF Forward
      <4> QED
        BY <1>2, <4>1, GoneFrom DEF Connected
    <3>5. CASE Return(c)
      BY <1>2, <3>5 DEF Return, Idle, Connected
    <3>6. CASE RequestFails(c)
      BY <1>1, <1>2, <3>6, StepInv, RequestFailsInv DEF Connected
    <3> QED
      BY <1>3, <3>1, <3>2, <3>3, <3>4, <3>5, <3>6
  <2>3. \A s \in Server : ~HasConn(k, s) /\ ~HasConn(r, s)
    BY <2>1, <2>2 DEF HasConn, Connected
  <2> QED
    BY <2>1, <2>3, PoolKept
<1>4. CASE Authenticate(c) \/ Send(c)
  <2>1. PICK p \in {"send", "receive"} : k.pc \in Connected /\ Goto(c, p)
    BY <1>4 DEF Authenticate, Send, Connected
  <2>2. r.pc = p /\ r.server = k.server
    BY <1>1, <1>2, <2>1 DEF Goto, Busy
  <2>3. UNCHANGED <<pool, lost>>
    BY <1>4 DEF Authenticate, Send
  <2>4. \A s \in Server : HasConn(k, s) <=> HasConn(r, s)
    BY <2>1, <2>2 DEF HasConn, Connected
  <2> QED
    BY <2>3, <2>4, PoolKept
<1>5. CASE GetConnection(c)
  BY <1>5, PoolTaken
<1>6. CASE \/ AuthenticateFails(c) \/ SendFails(c) \/ Receive(c) \/ ReceiveNotFound(c)
           \/ ReceiveFails(c)
  <2>1. k.pc \in Connected
    BY <1>6 DEF AuthenticateFails, SendFails, Receive, ReceiveNotFound, ReceiveFails, Connected
  <2>2. ASSUME GiveBackBroken(c, k)
        PROVE  \/ /\ \E healthy, alive \in BOOLEAN : pool' = Returned(k.server, healthy, alive)
                  /\ UNCHANGED lost
               \/ /\ lost' = [lost EXCEPT ![k.server] = @ + 1]
                  /\ UNCHANGED pool
    BY <2>2 DEF GiveBackBroken
  <2>3. \/ /\ \E healthy, alive \in BOOLEAN : pool' = Returned(k.server, healthy, alive)
           /\ UNCHANGED lost
        \/ /\ lost' = [lost EXCEPT ![k.server] = @ + 1]
           /\ UNCHANGED pool
    BY <1>6, <2>2 DEF AuthenticateFails, SendFails, Receive, ReceiveNotFound, ReceiveFails
  <2>4. r.pc \notin Connected
    <3>1. \E m \in Busy : \/ Set(c, NextServer(m)) \/ Set(c, AfterSend(m))
                          \/ Set(c, Finished(m, "ok"))
      <4>1. Hit(k) \in Busy
        BY <1>1, CallTypes
      <4>2. CASE AuthenticateFails(c)
        BY <4>1, <4>2 DEF AuthenticateFails
      <4>3. CASE SendFails(c)
        BY <4>1, <4>3 DEF SendFails
      <4>4. k.op = "upload" /\ k.pc = "receive" => k.server \in Storage
        BY StepInv DEF CallInv, UploadInv, Uploads
      <4>5. CASE Receive(c)
        <5>1. (IF k.op = "upload" THEN [k EXCEPT !.stored = @ \cup {k.server}] ELSE k) \in Busy
          BY <1>1, <4>4, <4>5 DEF Receive, Busy
        <5> QED
          BY <4>5, <5>1 DEF Receive
      <4>6. CASE ReceiveNotFound(c)
        BY <1>1, <4>6 DEF ReceiveNotFound
      <4>7. CASE ReceiveFails(c)
        <5> DEFINE closes == k.op \in {"download", "downloadFrom"} /\ ~Served(k)
                   h == k.hit \/ ~closes \/ ~k.alive
        <5>1. PICK st \in SUBSET {k.server} :
                 /\ st # {} => k.op = "upload" /\ k.alive
                 /\ Set(c, AfterSend([k EXCEPT !.stored = @ \cup st, !.hit = h]))
          BY <4>7 DEF ReceiveFails
        <5>2. h \in BOOLEAN /\ (st # {} => k.server \in Storage)
          BY <1>1, <4>4, <4>7, <5>1 DEF Busy, ReceiveFails
        <5> HIDE DEF h
        <5>3. [k EXCEPT !.stored = @ \cup st, !.hit = h] \in Busy
          BY <1>1, <5>2 DEF Busy
        <5> QED
          BY <5>1, <5>3
      <4> QED
        BY <1>6, <4>2, <4>3, <4>5, <4>6, <4>7
    <3> QED
      BY <1>2, <3>1, GoneFrom DEF Connected
  <2> QED
    BY <2>1, <2>3, <2>4, PoolGivenBack
<1> QED
  BY <1>3, <1>4, <1>5, <1>6 DEF CallStep

LEMMA PoolRestart ==
    ASSUME IInv, NEW e \in Server, ServerRestarts(e)
    PROVE  PoolOK'
<1> USE ClientApiAssumption
<1>1. /\ pool \in [Server -> [open : 0 .. MaxConns, idle : 0 .. MaxConns, dead : 0 .. MaxConns]]
      /\ lost \in [Server -> Nat] /\ lost' = lost /\ call' = call
      /\ pool' = [pool EXCEPT ![e].idle = 0, ![e].dead = @ + pool[e].idle]
  BY DEF IInv, TypeOK, ServerRestarts
<1>2. ASSUME NEW s \in Server
      PROVE  /\ pool'[s] \in [open : 0 .. MaxConns, idle : 0 .. MaxConns, dead : 0 .. MaxConns]
             /\ pool'[s].open = pool'[s].idle + pool'[s].dead + lost'[s]
                                + Cardinality(Users(s)')
  <2> DEFINE n == Cardinality(Users(s))
             p == pool[s]
  <2>1. Users(s)' = Users(s)
    BY <1>1 DEF Users
  <2>2. n \in Nat
    <3>1. IsFiniteSet(Users(s))
      BY FS_Subset DEF Users
    <3> QED
      BY <3>1, FS_CardinalityType
  <2>3. /\ p \in [open : 0 .. MaxConns, idle : 0 .. MaxConns, dead : 0 .. MaxConns]
        /\ lost[s] \in Nat /\ p.open = p.idle + p.dead + lost[s] + n
    BY <1>1 DEF IInv, PoolConserved
  <2> HIDE DEF n
  <2>4. CASE s # e
    <3>1. pool'[s] = pool[s]
      BY <1>1, <2>4
    <3> QED
      BY <1>1, <2>1, <2>3, <3>1 DEF n
  <2>5. CASE s = e
    <3>1. pool'[s] = [p EXCEPT !.idle = 0, !.dead = @ + p.idle]
      BY <1>1, <2>5
    <3>2. pool'[s].open = p.open /\ pool'[s].idle = 0 /\ pool'[s].dead = p.dead + p.idle
      BY <2>3, <3>1
    <3>3. p.dead + p.idle \in 0 .. MaxConns
      BY <2>2, <2>3
    <3>4. pool'[s] \in [open : 0 .. MaxConns, idle : 0 .. MaxConns, dead : 0 .. MaxConns]
      <4> DEFINE m == p.dead + p.idle
      <4>1. pool'[s] = [p EXCEPT !.idle = 0, !.dead = m]
        BY <3>1
      <4>2. 0 \in 0 .. MaxConns
        OBVIOUS
      <4> HIDE DEF m, p
      <4> QED
        BY <2>3, <3>3, <4>1, <4>2 DEF m
    <3>5. pool'[s].open = pool'[s].idle + pool'[s].dead + lost'[s] + n
      BY <1>1, <2>2, <2>3, <3>2
    <3> QED
      BY <2>1, <3>4, <3>5 DEF n
  <2> QED
    BY <2>4, <2>5
<1>3. pool' \in [Server -> [open : 0 .. MaxConns, idle : 0 .. MaxConns, dead : 0 .. MaxConns]]
  BY <1>1, <1>2
<1> QED
  BY <1>1, <1>2, <1>3 DEF PoolOK, PoolConserved

-----------------------------------------------------------------------------
LEMMA InitIInv == Init => IInv
<1> SUFFICES ASSUME Init PROVE IInv
  OBVIOUS
<1>1. TypeOK
  BY ClientApiAssumption DEF Init, TypeOK, Call
<1>2. \A c \in Caller : call[c] = Idle
  BY DEF Init
<1>3. PoolConserved
  <2>1. ASSUME NEW s \in Server PROVE Cardinality(Users(s)) = 0
    <3>1. Users(s) = {}
      BY <1>2 DEF Users, HasConn, Idle
    <3> QED
      BY <3>1, FS_EmptySet
  <2> QED
    BY <2>1 DEF Init, PoolConserved
<1> QED
  BY <1>1, <1>2, <1>3 DEF IInv

\* What a call carries stays true while servers arrive.
LEMMA CallInvStays ==
    ASSUME NEW k, CallInv(k), known \subseteq known'
    PROVE  CallInv(k)'
  BY DEF CallInv, SearchInv, UploadInv, Looking, InReach

\* The variables that a step may change whoever takes it.
LEMMA RestTypes ==
    ASSUME IInv, [Next]_vars
    PROVE  /\ known \subseteq known' /\ known' \subseteq Storage
           /\ weights' \in [Ids -> Nat]
           /\ calls' \in Nat /\ trouble' \in Nat
<1>0. TypeOK
  BY DEF IInv
<1>1. CASE UNCHANGED vars
  BY <1>0, <1>1 DEF vars, TypeOK
<1>2. ASSUME NEW c \in Caller, BeginCall(c)
      PROVE  UNCHANGED <<known, weights, trouble>> /\ calls' = calls + 1
  BY <1>2 DEF BeginCall, Begin
<1>3. ASSUME NEW c \in Caller, SelectStorageServer(c)
      PROVE  UNCHANGED <<known, calls, trouble>> /\ weights' \in [Ids -> Nat]
  <2>1. Candidates(call[c]) \subseteq Storage
    BY <1>0, <1>3, BusyOrIdle, CandidatesAreNew DEF SelectStorageServer
  <2>2. PICK s \in Candidates(call[c]) : weights' = [weights EXCEPT ![Id[s]] = @ + 1]
    BY <1>3 DEF SelectStorageServer
  <2>3. Id[s] \in Ids
    BY <2>1 DEF Ids
  <2> QED
    BY <1>0, <1>3, <2>2, <2>3 DEF SelectStorageServer, TypeOK
<1>4. ASSUME NEW c \in Caller, CallStep(c), ~SelectStorageServer(c)
      PROVE  /\ UNCHANGED <<known, weights, calls>>
             /\ trouble' = trouble \/ trouble' = trouble + 1
  BY <1>4 DEF CallStep, NoStorageServer, GetConnection, GetConnectionFails,
         Authenticate, AuthenticateFails, Send, SendFails, Receive, ReceiveNotFound,
         ReceiveFails, Forward, RequestFails, Return, Trouble
<1>5. ASSUME NEW s \in Storage, InstanceArrives(s)
      PROVE  UNCHANGED <<weights, calls, trouble>> /\ known' = known \cup {s}
  BY <1>5 DEF InstanceArrives
<1>6. ASSUME NEW s \in Server, ServerRestarts(s)
      PROVE  UNCHANGED <<known, weights, calls>> /\ trouble' = trouble + 1
  BY <1>6 DEF ServerRestarts, Trouble
<1> QED
  BY <1>0, <1>1, <1>2, <1>3, <1>4, <1>5, <1>6 DEF Next, TypeOK

LEMMA StepIInv == IInv /\ [Next]_vars => IInv'
<1> SUFFICES ASSUME IInv, [Next]_vars PROVE IInv'
  OBVIOUS
<1>1. /\ known \subseteq known' /\ known' \subseteq Storage
      /\ weights' \in [Ids -> Nat]
      /\ calls' \in Nat /\ trouble' \in Nat
  BY RestTypes
<1>2. ASSUME call' \in [Caller -> Call], PoolOK',
             \A c \in Caller : (call[c] # Idle => CallInv(call[c]))'
      PROVE  IInv'
  BY <1>1, <1>2 DEF IInv, TypeOK, PoolOK
<1>3. ASSUME NEW k, k # Idle => CallInv(k), NEW c \in Caller, call'[c] = k
      PROVE  (call[c] # Idle => CallInv(call[c]))'
  <2>1. CASE k = Idle
    BY <1>3, <2>1
  <2>2. CASE k # Idle
    <3>1. CallInv(k)'
      BY <1>1, <1>3, <2>2, CallInvStays
    <3> QED
      BY <1>3, <3>1 DEF CallInv, SearchInv, UploadInv, Looking, InReach
  <2> QED
    BY <2>1, <2>2
<1>4. ASSUME NEW c \in Caller, NEW r \in Call, Set(c, r), r # Idle => CallInv(r)
      PROVE  /\ call' \in [Caller -> Call]
             /\ \A d \in Caller : (call[d] # Idle => CallInv(call[d]))'
  <2>1. call' \in [Caller -> Call] /\ call'[c] = r
        /\ \A d \in Caller : d # c => call'[d] = call[d]
    BY <1>4 DEF IInv, TypeOK, Set
  <2>2. ASSUME NEW d \in Caller PROVE (call[d] # Idle => CallInv(call[d]))'
    <3>1. CASE d = c
      BY <1>3, <1>4, <2>1, <3>1
    <3>2. CASE d # c
      <4>1. PICK k : k = call[d]
        OBVIOUS
      <4>2. (k # Idle => CallInv(k)) /\ call'[d] = k
        BY <2>1, <3>2, <4>1 DEF IInv
      <4> QED
        BY <1>3, <4>2
    <3> QED
      BY <3>1, <3>2
  <2> QED
    BY <2>1, <2>2
<1>5. Busy \subseteq Call /\ Idle \in Call
  BY DEF Call
<1>6. ASSUME NEW c \in Caller, BeginCall(c) PROVE IInv'
  <2>1. PICK r \in Busy : Set(c, r) /\ CallInv(r) /\ r.pc \notin Connected
    BY <1>6, BeginInv
  <2>2. call[c] = Idle /\ UNCHANGED <<pool, lost>>
    BY <1>6, BeginInv DEF BeginCall, Begin
  <2>3. \A s \in Server : ~HasConn(call[c], s) /\ ~HasConn(r, s)
    BY <2>1, <2>2 DEF HasConn, Idle, Connected
  <2>4. PoolOK'
    BY <1>5, <2>1, <2>2, <2>3, PoolKept
  <2> QED
    BY <1>2, <1>4, <1>5, <2>1, <2>4
<1>7. ASSUME NEW c \in Caller, CallStep(c) PROVE IInv'
  <2>1. PICK r \in Call : Set(c, r) /\ (r # Idle => CallInv(r))
    BY <1>7, StepGoes
  <2>2. PoolOK'
    BY <1>7, <2>1, PoolStep
  <2> QED
    BY <1>2, <1>4, <2>1, <2>2
<1>8. ASSUME call' = call
      PROVE  /\ call' \in [Caller -> Call]
             /\ \A c \in Caller : (call[c] # Idle => CallInv(call[c]))'
  <2>1. call' \in [Caller -> Call]
    BY <1>8 DEF IInv, TypeOK
  <2>2. ASSUME NEW c \in Caller PROVE (call[c] # Idle => CallInv(call[c]))'
    <3>1. PICK k : k = call[c]
      OBVIOUS
    <3>2. (k # Idle => CallInv(k)) /\ call'[c] = k
      BY <1>8, <3>1 DEF IInv
    <3> QED
      BY <1>3, <3>2
  <2> QED
    BY <2>1, <2>2
<1>9. ASSUME UNCHANGED <<pool, lost, call>> PROVE PoolOK'
  BY <1>9 DEF IInv, TypeOK, PoolOK, PoolConserved, Users
<1>10. ASSUME NEW s \in Storage, InstanceArrives(s) PROVE IInv'
  BY <1>2, <1>8, <1>9, <1>10 DEF InstanceArrives
<1>11. ASSUME NEW s \in Server, ServerRestarts(s) PROVE IInv'
  BY <1>2, <1>8, <1>11, PoolRestart DEF ServerRestarts
<1>12. CASE UNCHANGED vars
  BY <1>2, <1>8, <1>9, <1>12 DEF vars
<1> QED
  BY <1>6, <1>7, <1>10, <1>11, <1>12 DEF Next

\* The inductive invariant holds of every reachable state.
THEOREM ClientInvariant == Spec => []IInv
  BY InitIInv, StepIInv, PTL DEF Spec

\* Every variable keeps its type; a pool never counts more connections, open
\* or idle, than the limit.
THEOREM ClientTypes == Spec => []TypeOK
<1>1. IInv => TypeOK
  BY DEF IInv
<1> QED
  BY <1>1, ClientInvariant, PTL

\* The pools' account: what is open is idle, in use by a call, or was left
\* behind by one of the calls that do not give a broken connection back.
THEOREM ConnectionsConserved == Spec => []PoolConserved
<1>1. IInv => PoolConserved
  BY DEF IInv
<1> QED
  BY <1>1, ClientInvariant, PTL

\* An upload is stored at one server at most and is reported done only when
\* it is stored there, whatever fails and however often a server is chosen.
THEOREM UploadStoredOnce == Spec => []UploadOnce
<1>1. IInv => UploadOnce
  <2> SUFFICES ASSUME IInv, NEW c \in Caller, call[c].pc = "done", call[c].op \in Uploads
               PROVE  /\ Cardinality(call[c].stored) <= 1
                      /\ call[c].result = "ok" => call[c].stored = {call[c].server}
    BY DEF UploadOnce
  <2> DEFINE k == call[c]
  <2>1. k.stored \subseteq {k.server} /\ (k.result = "ok" => k.stored = {k.server})
    BY DEF IInv, CallInv, UploadInv, Idle
  <2>2. k.stored = {} \/ k.stored = {k.server}
    BY <2>1
  <2>3. Cardinality({}) = 0 /\ Cardinality({k.server}) = 1
    BY FS_EmptySet, FS_Singleton
  <2> QED
    BY <2>1, <2>2, <2>3
<1> QED
  BY <1>1, ClientInvariant, PTL

\* A download or query that met no failure and ends with an error had no
\* server in reach that has the file.
THEOREM SearchFinds == Spec => []FindsFile
<1>1. IInv => FindsFile
  BY DEF IInv, CallInv, SearchInv, Looking, FindsFile, Idle
<1> QED
  BY <1>1, ClientInvariant, PTL

\* Every step of a call brings it nearer to its end, however many servers
\* there are and whatever they answer, but for an agent's request that
\* cannot be made.
THEOREM EveryCallAdvances == Spec => CallsAdvance
<1>1. ASSUME IInv, [Next]_vars, NEW c \in Caller, call[c] # Idle, call'[c] # call[c],
             ~RequestFails(c)
      PROVE  Ahead(call'[c]) < Ahead(call[c])
  <2> DEFINE k == call[c]
  <2>1. \A d \in Caller : \A x : Set(d, x) => call' = [call EXCEPT ![d] = x]
    BY DEF Set
  <2>2. CallStep(c)
    <3>1. ASSUME NEW d \in Caller, BeginCall(d) PROVE d # c /\ call'[c] = call[c]
      BY <1>1, <3>1, BeginInv DEF Set, IInv, TypeOK
    <3>2. ASSUME NEW d \in Caller, CallStep(d), d # c PROVE call'[c] = call[c]
      <4>1. PICK r \in Call : Set(d, r)
        BY <1>1, <3>2, StepGoes
      <4> QED
        BY <1>1, <3>2, <4>1 DEF Set, IInv, TypeOK
    <3> QED
      BY <1>1, <3>1, <3>2 DEF Next, InstanceArrives, ServerRestarts, vars
  <2>3. k \in Busy /\ CallInv(k)
    BY <1>1, <2>2, StepInv
  <2>4. CASE k.pc = "done" /\ Set(c, Idle)
    <3>1. call'[c] = Idle
      BY <1>1, <2>4 DEF Set, IInv, TypeOK
    <3>2. IsFiniteSet(Server \ k.tried)
      <4>1. IsFiniteSet(Server)
        BY ClientApiAssumption, FS_Union DEF Server
      <4> QED
        BY <4>1, FS_Subset
    <3>3. Cardinality(Server \ k.tried) \in Nat
      BY <3>2, FS_CardinalityType
    <3>4. Ahead(k) > 0
      BY <2>3, <3>3, AheadValue
    <3>5. Ahead(Idle) = 0
      BY DEF Ahead
    <3> QED
      BY <3>1, <3>4, <3>5
  <2>5. CASE \E r \in Busy : Set(c, r) /\ CallInv(r) /\ Onward(k, r)
    <3>1. PICK r \in Busy : Set(c, r) /\ Onward(k, r)
      BY <2>5
    <3>2. call'[c] = r
      BY <1>1, <3>1 DEF Set, IInv, TypeOK
    <3> QED
      BY <2>3, <3>1, <3>2, OnwardIsNearer
  <2> QED
    BY <1>1, <2>2, <2>4, <2>5, StepInv
<1>2. IInv /\ [Next]_vars
      => [\A c \in Caller : call[c] # Idle /\ call'[c] # call[c]
             => Ahead(call'[c]) < Ahead(call[c]) \/ RequestFails(c)]_vars
  BY <1>1
<1> QED
  BY <1>2, ClientInvariant, PTL DEF Spec, CallsAdvance

=============================================================================
