------------------------------ MODULE ClientApi -----------------------------
(***************************************************************************)
(* The client of storage servers and trackers (api/client_api.go), used by *)
(* the command line, by storage servers among themselves and, for the      *)
(* choice of a server only, by the agent (svc/agent_http_server.go).       *)
(*                                                                         *)
(* Upload, Download and Query choose a server themselves and may go on to  *)
(* another one; DownloadFrom, SyncInstances, PushBinlog and SyncBinlog are *)
(* given their server.  All take a connection from the pool of the server, *)
(* which several callers share and which is bounded.  The pool is a        *)
(* library: it counts a connection until it is given back.                 *)
(***************************************************************************)
EXTENDS Integers, FiniteSets

CONSTANTS
    Caller,        \* goroutines that call the client
    Storage,       \* storage servers
    Tracker,       \* trackers
    Static,        \* storage servers that are configured, not synchronized
    Id,            \* Id[s]: the InstanceId of s as the client knows it
    Group,         \* Group[s]: its group
    AnyGroup,      \* the empty name of a group
    Readonly,      \* storage servers that take no uploads
    Holder,        \* storage servers that have the file that is asked for
    MaxConns,      \* MaxConnectionsPerServer
    MaxCalls,      \* bound: calls
    MaxTrouble     \* bound: failures of the network and of servers

ASSUME ClientApiAssumption ==
    /\ Static \subseteq Storage /\ Readonly \subseteq Storage /\ Holder \subseteq Storage
    /\ Storage \cap Tracker = {} /\ Storage \cup Tracker # {}
    /\ IsFiniteSet(Caller) /\ IsFiniteSet(Storage) /\ IsFiniteSet(Tracker)
    /\ MaxConns \in Nat \ {0}

VARIABLES
    known,     \* the storage servers in syncInstances
    weights,   \* weights[i]: how often a server with InstanceId i was chosen
    pool,      \* pool[s]: connections that are open, idle, and idle but dead
    call,      \* call[c]: what caller c is doing
    lost,      \* history: lost[s]: connections nobody will give back
    calls, trouble

vars == <<known, weights, pool, call, lost, calls, trouble>>

Server == Storage \cup Tracker
Ids    == {Id[s] : s \in Storage}
Groups == {Group[s] : s \in Storage}

Failover == {"upload", "download", "query"}
Proxied  == {"proxyUpload", "proxyDownload"}
Direct   == {"downloadFrom", "callTracker", "syncBinlog"}
Uploads  == {"upload", "proxyUpload"}

(***************************************************************************)
(* SyncInstances and PushBinlog are both callTracker: they treat their     *)
(* connection alike.  tried: the servers of the exclude list; from: those  *)
(* that were known at the beginning; stored: those that stored the upload; *)
(* hit: some failure met this call; alive: the connection in use works.    *)
(***************************************************************************)
Idle == [pc |-> "idle"]
Busy ==
    [pc : {"select", "get", "auth", "send", "receive", "forward", "done"},
     op : Failover \cup Proxied \cup Direct, group : Groups \cup {AnyGroup},
     tried : SUBSET Server, from : SUBSET Storage, stored : SUBSET Storage,
     server : Server, hit : BOOLEAN, alive : BOOLEAN,
     result : {"none", "ok", "error", "blank"}]
Call == {Idle} \cup Busy

TypeOK ==
    /\ known \subseteq Storage
    /\ weights \in [Ids -> Nat]
    /\ pool \in [Server -> [open : 0 .. MaxConns, idle : 0 .. MaxConns, dead : 0 .. MaxConns]]
    /\ call \in [Caller -> Call]
    /\ lost \in [Server -> Nat]
    /\ calls \in Nat /\ trouble \in Nat

Init ==
    /\ known = {}
    /\ weights = [i \in Ids |-> 0]
    /\ pool = [s \in Server |-> [open |-> 0, idle |-> 0, dead |-> 0]]
    /\ call = [c \in Caller |-> Idle]
    /\ lost = [s \in Server |-> 0]
    /\ calls = 0 /\ trouble = 0

Trouble ==
    /\ trouble < MaxTrouble
    /\ trouble' = trouble + 1

Set(c, r)       == call' = [call EXCEPT ![c] = r]
Goto(c, p)      == Set(c, [call[c] EXCEPT !.pc = p])
Finished(k, r)  == [k EXCEPT !.pc = "done", !.result = r, !.alive = TRUE]
Hit(k)          == [k EXCEPT !.hit = TRUE]

-----------------------------------------------------------------------------
(***************************************************************************)
(* A call begins.  proxyHttpDownload goes to the source of a young file    *)
(* first, if it is known.                                                  *)
(***************************************************************************)
Begin(c, op, g, p, s) ==
    /\ call[c].pc = "idle"
    /\ calls < MaxCalls
    /\ calls' = calls + 1
    /\ Set(c, [pc |-> p, op |-> op, group |-> g, server |-> s, tried |-> {},
               from |-> IF op \in {"download", "query"} THEN known ELSE {},
               stored |-> {}, hit |-> FALSE, alive |-> TRUE, result |-> "none"])
    /\ UNCHANGED <<known, weights, pool, lost, trouble>>

AnyServer == CHOOSE s \in Server : TRUE

BeginCall(c) ==
    \/ \E g \in Groups \cup {AnyGroup}, op \in Uploads : Begin(c, op, g, "select", AnyServer)
    \/ \E g \in Groups, op \in {"download", "proxyDownload"} :
          Begin(c, op, g, "select", AnyServer)
    \/ Begin(c, "query", AnyGroup, "select", AnyServer)
    \/ \E g \in Groups, s \in known : Begin(c, "proxyDownload", g, "forward", s)
    \/ \E s \in known, op \in {"downloadFrom", "syncBinlog"} : Begin(c, op, AnyGroup, "get", s)
    \/ \E t \in Tracker : Begin(c, "callTracker", AnyGroup, "get", t)

(***************************************************************************)
(* SelectStorageServer, under its lock.  Servers are told apart by their   *)
(* InstanceId; configured ones are asked when no other candidate is left,  *)
(* whatever the group.                                                     *)
(***************************************************************************)
IsExcluded(k, s) == \E x \in k.tried : Id[x] = Id[s]

Registered(k) ==
    {s \in known : /\ k.op \in Uploads => s \notin Readonly
                   /\ k.group \in {AnyGroup, Group[s]}
                   /\ ~IsExcluded(k, s)}

\* Mutant of Candidates: configured servers only if no other is known.
CandidatesKnown(k) ==
    IF known # {} THEN Registered(k)
    ELSE {s \in Static : ~IsExcluded(k, s)}

Candidates(k) ==
    IF Registered(k) # {} THEN Registered(k)
    ELSE {s \in Static : ~IsExcluded(k, s)}

SelectStorageServer(c) ==
    LET k == call[c] IN
    /\ k.pc = "select"
    /\ Candidates(k) # {}
    /\ \E s \in Candidates(k) :
          /\ \A x \in Candidates(k) : weights[Id[s]] <= weights[Id[x]]
          /\ weights' = [weights EXCEPT ![Id[s]] = @ + 1]
          /\ Set(c, [k EXCEPT !.pc = IF k.op \in Proxied THEN "forward" ELSE "get",
                              !.server = s])
    /\ UNCHANGED <<known, pool, lost, calls, trouble>>

\* NoStorageServerErr or the last error; the agent answers neither.
NoStorageServer(c) ==
    LET k == call[c] IN
    /\ k.pc = "select"
    /\ Candidates(k) = {}
    /\ Set(c, Finished(k, IF k.op \in Proxied THEN "blank" ELSE "error"))
    /\ UNCHANGED <<known, weights, pool, lost, calls, trouble>>

-----------------------------------------------------------------------------
\* Mutant of Returned: lastConn is not cleared and given back at the end again.
ReturnedTwice(s, healthy, alive) ==
    IF ~healthy THEN [pool EXCEPT ![s].open = @ - 2]
    ELSE IF alive THEN [pool EXCEPT ![s].idle = @ + 1]
    ELSE [pool EXCEPT ![s].dead = @ + 1]

\* What a caller leaves of its connection to the server.
Returned(s, healthy, alive) ==
    IF ~healthy THEN [pool EXCEPT ![s].open = @ - 1]
    ELSE IF alive THEN [pool EXCEPT ![s].idle = @ + 1]
    ELSE [pool EXCEPT ![s].dead = @ + 1]

\* Mutant of NextServer: the server that failed is not excluded.
NextServerAny(k) ==
    IF k.op \in Failover THEN [k EXCEPT !.pc = "select"] ELSE Finished(k, "error")

\* After a failure: the next server, or the error if the server was given.
NextServer(k) ==
    IF k.op \in Failover
    THEN [k EXCEPT !.pc = "select", !.tried = @ \cup {k.server}]
    ELSE Finished(k, "error")

\* Mutant of GiveBackBroken: the return before the retry is missing.
GiveBackForgotten(c, k) ==
    IF k.op \in Failover THEN UNCHANGED <<pool, lost>>
    ELSE pool' = Returned(k.server, FALSE, FALSE) /\ UNCHANGED lost

\* ReturnConnection of a broken connection; some calls do not care for it.
GiveBackBroken(c, k) ==
    IF k.op \in {"callTracker", "syncBinlog"}
    THEN lost' = [lost EXCEPT ![k.server] = @ + 1] /\ UNCHANGED pool
    ELSE pool' = Returned(k.server, FALSE, FALSE) /\ UNCHANGED lost

GetConnection(c) ==
    LET k == call[c]  p == pool[call[c].server] IN
    /\ k.pc = "get"
    /\ \/ /\ p.idle > 0
          /\ pool' = [pool EXCEPT ![k.server].idle = @ - 1]
          /\ Set(c, [k EXCEPT !.pc = "send", !.alive = TRUE])
       \/ /\ p.dead > 0
          /\ pool' = [pool EXCEPT ![k.server].dead = @ - 1]
          /\ Set(c, [Hit(k) EXCEPT !.pc = "send", !.alive = FALSE])
       \/ /\ p.idle + p.dead = 0 /\ p.open < MaxConns
          /\ pool' = [pool EXCEPT ![k.server].open = @ + 1]
          /\ Set(c, [k EXCEPT !.pc = "auth", !.alive = TRUE])
    /\ UNCHANGED <<known, weights, lost, calls, trouble>>

\* Mutant of GetConnectionFails: a pool at its limit is waited for.
GetConnectionWaits(c) ==
    LET k == call[c]  p == pool[call[c].server] IN
    /\ k.pc = "get"
    /\ p.idle + p.dead = 0 /\ p.open < MaxConns
    /\ Trouble
    /\ Set(c, NextServer(Hit(k)))
    /\ UNCHANGED <<known, weights, pool, lost, calls>>

\* No connection: the pool is at its limit, or the server does not answer.
GetConnectionFails(c) ==
    LET k == call[c]  p == pool[call[c].server] IN
    /\ k.pc = "get"
    /\ p.idle + p.dead = 0
    /\ IF p.open < MaxConns THEN Trouble ELSE UNCHANGED trouble
    /\ Set(c, NextServer(Hit(k)))
    /\ UNCHANGED <<known, weights, pool, lost, calls>>

Authenticate(c) ==
    /\ call[c].pc = "auth"
    /\ Goto(c, "send")
    /\ UNCHANGED <<known, weights, pool, lost, calls, trouble>>

AuthenticateFails(c) ==
    LET k == call[c] IN
    /\ k.pc = "auth"
    /\ Trouble
    /\ GiveBackBroken(c, k)
    /\ Set(c, NextServer(Hit(k)))
    /\ UNCHANGED <<known, weights, calls>>

\* What is sent on a dead connection may not be noticed before the answer.
Send(c) ==
    /\ call[c].pc = "send"
    /\ Goto(c, "receive")
    /\ UNCHANGED <<known, weights, pool, lost, calls, trouble>>

\* Mutant of AfterSend: an upload fails over like a download.
AfterSendRetried(k) == NextServer(k)

\* The source of an upload can be read once: it ends with the first failure.
AfterSend(k) == IF k.op = "upload" THEN Finished(k, "error") ELSE NextServer(k)

SendFails(c) ==
    LET k == call[c] IN
    /\ k.pc = "send"
    /\ IF k.alive THEN Trouble ELSE UNCHANGED trouble
    /\ GiveBackBroken(c, k)
    /\ Set(c, AfterSend(Hit(k)))
    /\ UNCHANGED <<known, weights, calls>>

(***************************************************************************)
(* The answer.  storageClientConnHandler answers what its handlers return  *)
(* and closes the connection on an error: a file that is not there is      *)
(* NOT_FOUND to a query, but no answer to a download.                      *)
(***************************************************************************)
Served(k) == k.op \in {"download", "downloadFrom", "query"} => k.server \in Holder

Receive(c) ==
    LET k == call[c] IN
    /\ k.pc = "receive"
    /\ k.alive /\ Served(k)
    /\ pool' = Returned(k.server, TRUE, TRUE)
    /\ Set(c, Finished(IF k.op = "upload" THEN [k EXCEPT !.stored = @ \cup {k.server}] ELSE k,
                       "ok"))
    /\ UNCHANGED <<known, weights, lost, calls, trouble>>

\* Query is answered NOT_FOUND: the connection stays good.
ReceiveNotFound(c) ==
    LET k == call[c] IN
    /\ k.pc = "receive" /\ k.op = "query"
    /\ k.alive /\ ~Served(k)
    /\ pool' = Returned(k.server, TRUE, TRUE)
    /\ Set(c, NextServer(k))
    /\ UNCHANGED <<known, weights, lost, calls, trouble>>

\* No answer, and an upload may have been stored all the same.  SyncBinlog
\* gives its connection back as a good one.
ReceiveFails(c) ==
    LET k == call[c]
        closes == k.op \in {"download", "downloadFrom"} /\ ~Served(k)
    IN
    /\ k.pc = "receive"
    /\ IF k.alive /\ ~closes THEN Trouble ELSE UNCHANGED trouble
    /\ IF k.op = "syncBinlog"
       THEN pool' = Returned(k.server, TRUE, FALSE) /\ UNCHANGED lost
       ELSE GiveBackBroken(c, k)
    /\ \E st \in SUBSET {k.server} :
          /\ st # {} => k.op = "upload" /\ k.alive
          /\ Set(c, AfterSend([k EXCEPT !.stored = @ \cup st, !.hit = @ \/ ~closes \/ ~k.alive]))
    /\ UNCHANGED <<known, weights, calls>>

\* The agent hands the request to the server and its answer to the client,
\* an error status too; to a request that fails it answers nothing.
Forward(c) ==
    LET k == call[c] IN
    /\ k.pc = "forward"
    /\ \/ /\ UNCHANGED trouble
          /\ Set(c, Finished(IF k.op = "proxyUpload"
                             THEN [k EXCEPT !.stored = @ \cup {k.server}] ELSE k, "ok"))
       \/ /\ Trouble
          /\ \E st \in SUBSET {k.server}, r \in {"error", "blank"} :
                /\ st # {} => k.op = "proxyUpload"
                /\ Set(c, Finished([Hit(k) EXCEPT !.stored = @ \cup st], r))
    /\ UNCHANGED <<known, weights, pool, lost, calls>>

(***************************************************************************)
(* The agent cannot make the request (http.NewRequest fails): its loop     *)
(* goes on, an upload with the next choice, which is not kept from being   *)
(* the same one, a download with the same server.                          *)
(***************************************************************************)
RequestFails(c) ==
    LET k == call[c] IN
    /\ k.pc = "forward"
    /\ Trouble
    /\ Set(c, [Hit(k) EXCEPT !.pc = IF k.op = "proxyUpload" THEN "select" ELSE "forward"])
    /\ UNCHANGED <<known, weights, pool, lost, calls>>

Return(c) ==
    /\ call[c].pc = "done"
    /\ Set(c, Idle)
    /\ UNCHANGED <<known, weights, pool, lost, calls, trouble>>

-----------------------------------------------------------------------------
\* tracks adds a server while calls are under way.
InstanceArrives(s) ==
    /\ s \notin known \cup Static
    /\ known' = known \cup {s}
    /\ UNCHANGED <<weights, pool, call, lost, calls, trouble>>

\* A server restarts: its connections in the pool are dead.
ServerRestarts(s) ==
    /\ pool[s].idle > 0
    /\ Trouble
    /\ pool' = [pool EXCEPT ![s].idle = 0, ![s].dead = @ + pool[s].idle]
    /\ UNCHANGED <<known, weights, call, lost, calls>>

CallStep(c) ==
    \/ SelectStorageServer(c) \/ NoStorageServer(c)
    \/ GetConnection(c) \/ GetConnectionFails(c)
    \/ Authenticate(c) \/ AuthenticateFails(c)
    \/ Send(c) \/ SendFails(c)
    \/ Receive(c) \/ ReceiveNotFound(c) \/ ReceiveFails(c)
    \/ Forward(c) \/ RequestFails(c)
    \/ Return(c)

Next ==
    \/ \E c \in Caller : BeginCall(c) \/ CallStep(c)
    \/ \E s \in Storage : InstanceArrives(s)
    \/ \E s \in Server : ServerRestarts(s)

Spec == Init /\ [][Next]_vars

-----------------------------------------------------------------------------
(***************************************************************************)
(* No failure of the network or of a server makes Upload, DownloadFrom or  *)
(* Query keep a connection or give one back twice, whichever retries       *)
(* follow: what is open is idle, in use, or was left behind by             *)
(* SyncInstances, PushBinlog or SyncBinlog, which do lose theirs when they *)
(* fail.  A panic in the caller's reader or writer is no such failure and  *)
(* not modelled: Upload keeps the connection then.                         *)
(***************************************************************************)
HasConn(k, s) == k.pc \in {"auth", "send", "receive"} /\ k.server = s
Users(s)      == {c \in Caller : HasConn(call[c], s)}

PoolConserved ==
    \A s \in Server :
        pool[s].open = pool[s].idle + pool[s].dead + lost[s] + Cardinality(Users(s))

(***************************************************************************)
(* An upload is stored at one server at most, whatever fails and however   *)
(* it is retried, and one that is reported done is stored.                 *)
(***************************************************************************)
UploadOnce ==
    \A c \in Caller : call[c].pc = "done" /\ call[c].op \in Uploads =>
        /\ Cardinality(call[c].stored) <= 1
        /\ call[c].result = "ok" => call[c].stored = {call[c].server}

(***************************************************************************)
(* A download or query that met no failure finds the file if a server that *)
(* was known at its beginning, or is configured, has it: those without it  *)
(* do not end the search, nor do servers that appear meanwhile.  Excepted  *)
(* is a server with the InstanceId of another one, as all configured       *)
(* servers have the empty one: excluding one excludes all.                 *)
(***************************************************************************)
InReach(k) ==
    {s \in Holder : /\ s \in Static \/ (s \in k.from /\ k.group \in {AnyGroup, Group[s]})
                    /\ \A x \in k.tried \ {s} : Id[x] # Id[s]}

FindsFile ==
    \A c \in Caller :
        LET k == call[c] IN
        k.pc = "done" /\ k.op \in {"download", "query"} /\ ~k.hit /\ k.result = "error"
            => InReach(k) = {}

(***************************************************************************)
(* Every step of a call brings it nearer to its end: a failure takes a     *)
(* server off the candidates, so that one that fails, or whose pool is at  *)
(* its limit and never gets its connections back, is not asked for ever.   *)
(* Excepted is the agent that cannot make its request: it excludes nobody  *)
(* and may go on like that without end.                                    *)
(***************************************************************************)
Ahead(k) ==
    LET steps == [select |-> 6, get |-> 5, auth |-> 4, send |-> 3, receive |-> 2,
                  forward |-> 2, done |-> 1]
    IN  IF k = Idle THEN 0 ELSE steps[k.pc] + 6 * Cardinality(Server \ k.tried)

CallsAdvance ==
    [][\A c \in Caller : call[c] # Idle /\ call'[c] # call[c]
           => Ahead(call'[c]) < Ahead(call[c]) \/ RequestFails(c)]_vars

(***************************************************************************)
(* No step waits for another caller, not even one that finds the pool at   *)
(* its limit, as GetConnection fails at once.  A step may take as long as  *)
(* a silent server lets it: the calls have no deadlines.                   *)
(***************************************************************************)
CallsGoOn == \A c \in Caller : call[c] # Idle => ENABLED CallStep(c)
=============================================================================
