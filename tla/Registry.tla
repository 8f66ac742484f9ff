------------------------------- MODULE Registry -----------------------------
(***************************************************************************)
(* reg/registry.go and the connection handler of a tracker                 *)
(* (svc/tracker_tcp_handler.go, authenticationHandler).  A storage server  *)
(* dials a tracker and sends its Instance with the CONNECT request; the    *)
(* handler Puts it into the registry, and Frees it when the connection     *)
(* ends.  A timer deletes instances that have been free for 30 s.          *)
(*                                                                         *)
(* A server keeps a pool of connections to every tracker, used by the      *)
(* timers of SyncInstances and PushBinlog, so that several handlers may    *)
(* stand for one instance.  A connection is what the handler sees of it    *)
(* and whether the server still holds its end.                             *)
(***************************************************************************)
EXTENDS Naturals, FiniteSets

CONSTANTS
    Tracker, Node,
    Addr,           \* addresses a server may be configured with
    Secret,         \* secrets a server may be configured with
    Slots,          \* Slots[n]: connections n keeps to one tracker
    MaxTrouble      \* bound: stops, broken connections, tracker restarts

ASSUME RegistryAssumption == Slots \in [Node -> Nat]

VARIABLES
    entry,   \* entry[t][n]: the Instance n in instanceSet of tracker t
    conn,    \* conn[t][n][s]: a connection of n to t
    up,      \* the servers that run
    me,      \* me[n]: the Instance that n announces, fixed by its start
    robbed,  \* history: Free hit n while another connection of it was open
    trouble  \* counts what MaxTrouble bounds

regVars == <<entry, conn, up, me, robbed, trouble>>

Instance == [addr : Addr, secrets : SUBSET Secret]

\* due: RegisterTime is ExpirationTime or more ago.
Absent == [state |-> "none"]
Entry  == {Absent} \cup [state : {"hold", "free"}, ins : Instance, due : BOOLEAN]

(***************************************************************************)
(* none   no connection                                                    *)
(* open   dialled, CONNECT is sent; the handler has not read it            *)
(* late   as open, but the server's end is closed                          *)
(* up     the handler has registered the instance                          *)
(* gone   as up, but the server's end is closed                            *)
(***************************************************************************)
NoConn == [st |-> "none"]
Conn   == {NoConn} \cup [st : {"open", "late", "up", "gone"}, ins : Instance]

RegTypeOK ==
    /\ entry \in [Tracker -> [Node -> Entry]]
    /\ DOMAIN conn = Tracker
    /\ \A t \in Tracker :
         /\ DOMAIN conn[t] = Node
         /\ \A n \in Node : conn[t][n] \in [1 .. Slots[n] -> Conn]
    /\ up \subseteq Node
    /\ me \in [Node -> Instance]
    /\ robbed \subseteq Node
    /\ trouble \in Nat

RegInit ==
    /\ entry = [t \in Tracker |-> [n \in Node |-> Absent]]
    /\ conn = [t \in Tracker |-> [n \in Node |-> [s \in 1 .. Slots[n] |-> NoConn]]]
    /\ up = Node
    /\ me \in [Node -> Instance]
    /\ robbed = {}
    /\ trouble = 0

Trouble ==
    /\ trouble < MaxTrouble
    /\ trouble' = trouble + 1

SetConn(t, n, s, c) == conn' = [conn EXCEPT ![t][n][s] = c]
SetEntry(t, n, e)   == entry' = [entry EXCEPT ![t][n] = e]

\* The server's end of a connection is closed; the handler does not know yet.
Closed(c) ==
    CASE c.st = "open" -> [c EXCEPT !.st = "late"]
      [] c.st = "up"   -> [c EXCEPT !.st = "gone"]
      [] OTHER         -> c

Registered(c) == c.st \in {"up", "gone"}

-----------------------------------------------------------------------------
NodeStops(n) ==
    /\ n \in up
    /\ Trouble
    /\ up' = up \ {n}
    /\ conn' = [t \in Tracker |->
                  [conn[t] EXCEPT ![n] = [s \in DOMAIN @ |-> Closed(@[s])]]]
    /\ UNCHANGED <<entry, me, robbed>>

\* It starts again, maybe with another address or secrets.
NodeStarts(n, ins) ==
    /\ n \notin up
    /\ up' = up \cup {n}
    /\ me' = [me EXCEPT ![n] = ins]
    /\ UNCHANGED <<entry, conn, robbed, trouble>>

(***************************************************************************)
(* GetConnection dials and authenticate sends the Instance.  A slot can be *)
(* dialled again once its connection is over.  The pool of the code is not *)
(* always that lucky: SyncInstances and PushBinlog do not return a         *)
(* connection that failed, so that its place stays taken until the next    *)
(* boot (ClientApi); the slots are the places that are left.               *)
(***************************************************************************)
Dial(t, n, s) ==
    /\ n \in up
    /\ conn[t][n][s] = NoConn
    /\ SetConn(t, n, s, [st |-> "open", ins |-> me[n]])
    /\ UNCHANGED <<entry, up, me, robbed, trouble>>

\* A connection breaks: the server learns of it, the handler does not yet.
Break(t, n, s) ==
    /\ conn[t][n][s].st \in {"open", "up"}
    /\ Trouble
    /\ SetConn(t, n, s, Closed(conn[t][n][s]))
    /\ UNCHANGED <<entry, up, me, robbed>>

\* Mutant of IsInstanceConflict: an id that is free may be taken over.
IsHeldConflict(t, n, ins) ==
    /\ entry[t][n].state = "hold"
    /\ entry[t][n].ins.addr # ins.addr

IsInstanceConflict(t, n, ins) ==
    /\ entry[t][n] # Absent
    /\ entry[t][n].ins.addr # ins.addr

(***************************************************************************)
(* The handler reads CONNECT.  On a conflict it closes the connection with *)
(* registeredInstance nil, so nothing is freed.                            *)
(***************************************************************************)
Put(t, n, s) ==
    LET c == conn[t][n][s] IN
    /\ c.st \in {"open", "late"}
    /\ ~IsInstanceConflict(t, n, c.ins)
    /\ SetEntry(t, n, [state |-> "hold", ins |-> c.ins, due |-> FALSE])
    /\ SetConn(t, n, s, [c EXCEPT !.st = IF c.st = "open" THEN "up" ELSE "gone"])
    /\ UNCHANGED <<up, me, robbed>>

Refuse(t, n, s) ==
    LET c == conn[t][n][s] IN
    /\ c.st \in {"open", "late"}
    /\ IsInstanceConflict(t, n, c.ins)
    /\ SetConn(t, n, s, NoConn)
    /\ UNCHANGED <<entry, up, me, robbed, trouble>>

\* Mutant of Freed: that the entry has expired is not noticed.
FreedUnchecked(e) == [e EXCEPT !.state = "free", !.due = FALSE]

\* What Free does to an entry: it is free from now on.
Freed(e) == IF e = Absent THEN e ELSE [e EXCEPT !.state = "free", !.due = FALSE]

\* Mutant of HandlerEnds: the last connection frees, one that only opens counts.
HandlerEndsLast(t, n, s) ==
    /\ conn[t][n][s].st \in {"late", "gone"}
    /\ IF \A x \in DOMAIN conn[t][n] \ {s} : conn[t][n][x] = NoConn
       THEN SetEntry(t, n, Freed(entry[t][n]))
       ELSE UNCHANGED entry
    /\ SetConn(t, n, s, NoConn)
    /\ UNCHANGED <<up, me, robbed, trouble>>

\* Receive fails and the handler ends; its deferred Free goes by InstanceId.
HandlerEnds(t, n, s) ==
    LET others == {x \in DOMAIN conn[t][n] \ {s} : conn[t][n][x].st = "up"} IN
    /\ conn[t][n][s].st \in {"late", "gone"}
    /\ IF Registered(conn[t][n][s])
       THEN /\ SetEntry(t, n, Freed(entry[t][n]))
            /\ robbed' = IF others # {} THEN robbed \cup {n} ELSE robbed
       ELSE UNCHANGED <<entry, robbed>>
    /\ SetConn(t, n, s, NoConn)
    /\ UNCHANGED <<up, me, trouble>>

\* 30 s pass since n was freed at t.
TimePasses(t, n) ==
    /\ entry[t][n].state = "free"
    /\ ~entry[t][n].due
    /\ entry' = [entry EXCEPT ![t][n].due = TRUE]
    /\ UNCHANGED <<conn, up, me, robbed, trouble>>

\* Mutant of Overdue: the times are compared the wrong way round.
OverdueInverted(e) == e.state = "free" /\ ~e.due

Overdue(e) == e.state = "free" /\ e.due

\* One run of the timer task of expirationDetection.
ExpirationDetection(t) ==
    /\ \E n \in Node : Overdue(entry[t][n])
    /\ entry' = [entry EXCEPT ![t] =
                   [n \in Node |-> IF Overdue(@[n]) THEN Absent ELSE @[n]]]
    /\ UNCHANGED <<conn, up, me, robbed, trouble>>

\* The registry is in memory only.
TrackerRestarts(t) ==
    /\ Trouble
    /\ entry' = [entry EXCEPT ![t] = [n \in Node |-> Absent]]
    /\ conn' = [conn EXCEPT ![t] = [n \in Node |-> [s \in 1 .. Slots[n] |-> NoConn]]]
    /\ UNCHANGED <<up, me, robbed>>

-----------------------------------------------------------------------------
(***************************************************************************)
(* An instance that is held has a handler that will free it: if the server *)
(* goes away for good, the entry cannot stay.  Put, Free and the ends of   *)
(* overlapping connections must balance for it (tracker_tcp_handler.go:73).*)
(***************************************************************************)
HeldHasHandler ==
    \A t \in Tracker, n \in Node :
        entry[t][n].state = "hold" =>
            \E s \in 1 .. Slots[n] : Registered(conn[t][n][s])

Ids == Tracker \X Node

\* An entry as a lease on its id, held by the address of the instance.
LeaseOf(e) ==
    IF e = Absent THEN [held |-> FALSE]
    ELSE [holder |-> e.ins.addr, held |-> e.state = "hold"]

Leases == [k \in Ids |-> LeaseOf(entry[k[1]][k[2]])]

(***************************************************************************)
(* Each tracker's instanceSet is a table of leases on InstanceIds held by  *)
(* addresses (isInstanceConflict, Free, expirationDetection): an id never  *)
(* goes from one address to another without having expired in between.     *)
(***************************************************************************)
Lease == INSTANCE LeaseTable WITH
    Key    <- Ids,
    Holder <- Addr,
    Group  <- {{t} \X Node : t \in Tracker},
    table  <- Leases

ImplementsLease == Lease!LeaseSpec
=============================================================================
