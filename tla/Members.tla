-------------------------------- MODULE Members -----------------------------
(***************************************************************************)
(* How servers learn of each other (api/instance_synchronizer.go,          *)
(* SyncInstances) and of each other's secrets (StoreSecrets and            *)
(* loadHistorySecret of util/config_validator.go, util/alias.go).  For     *)
(* every tracker a server runs a timer that fetches a snapshot of its      *)
(* registry and merges it into syncInstances and into its secrets.  Names  *)
(* of files are encrypted with the secret of the server that stored them,  *)
(* so that every member needs the secrets of all, the old ones included.   *)
(*                                                                         *)
(* StoreSecrets runs under storeSecretLock: it adds new secrets to memory, *)
(* then to the config map, and what is in memory is never stored again.    *)
(***************************************************************************)
EXTENDS Registry

CONSTANTS
    Watcher,     \* servers whose own view is modelled
    First,       \* First[n]: the configuration n is first started with
    Conf,        \* Conf[n]: configurations it may be started with later
    Allowance,   \* rounds an instance is kept unrefreshed (2 of 45 s, and 5 s)
    MaxAge       \* bound: rounds that are counted

ASSUME MembersAssumption ==
    /\ Watcher \subseteq Node
    /\ Node \cap Tracker = {}
    /\ MaxAge \in Nat
    /\ First \in [Node -> [addr : Addr, secret : Secret]]
    /\ Conf \in [Node -> SUBSET [addr : Addr, secret : Secret]]

VARIABLES
    known,     \* known[m]: syncInstances
    answer,    \* answer[t][m]: a snapshot on its way to m
    disk,      \* disk[p]: the secrets in the config map of p
    mem,       \* mem[p]: CusterSecret
    keys,      \* keys[p]: historyAesEncDecKeys
    used,      \* history: the secrets a server was started with
    unsaved    \* history: the processes that ran into a save that failed

memVars == <<known, answer, disk, mem, keys, used, unsaved>>
vars == <<regVars, memVars>>

Process == Node \cup Tracker

Unknown  == [age |-> 0, kind |-> "unknown"]
Known    == {Unknown} \cup [age : 0 .. MaxAge, kind : {"known"}, ins : Instance]
NoAnswer == [n \in {} |-> {}]
Answer   == UNION {[N -> Instance] : N \in SUBSET Node}

TypeOK ==
    /\ RegTypeOK
    /\ known \in [Watcher -> [Node -> Known]]
    /\ answer \in [Tracker -> [Watcher -> Answer]]
    /\ disk \in [Process -> SUBSET Secret]
    /\ mem \in [Process -> SUBSET Secret]
    /\ keys \in [Process -> SUBSET Secret]
    /\ used \in [Node -> SUBSET Secret]
    /\ unsaved \subseteq Process

Init ==
    /\ RegInit
    /\ \A n \in Node : me[n] = [addr |-> First[n].addr, secrets |-> {First[n].secret}]
    /\ known = [m \in Watcher |-> [n \in Node |-> Unknown]]
    /\ answer = [t \in Tracker |-> [m \in Watcher |-> NoAnswer]]
    /\ used = [n \in Node |-> me[n].secrets]
    /\ disk = [p \in Process |-> IF p \in Node THEN me[p].secrets ELSE {}]
    /\ mem = disk /\ keys = disk
    /\ unsaved = {}

\* Mutant of StoreSecrets: what is new is looked up after memory has it.
StoreSecretsLate(p, S) ==
    /\ mem' = [mem EXCEPT ![p] = @ \cup S]
    /\ keys' = [keys EXCEPT ![p] = @ \cup S]
    /\ disk' = [disk EXCEPT ![p] = @ \cup (S \ mem'[p])]
    /\ UNCHANGED <<unsaved, trouble>>

(***************************************************************************)
(* StoreSecrets at p of the secrets S, in one call for each instance that  *)
(* has some.  Only those that are not in memory are put into the config    *)
(* map, which may fail: then only those of other calls are saved.          *)
(***************************************************************************)
StoreSecrets(p, S) ==
    LET new == S \ mem[p] IN
    /\ mem' = [mem EXCEPT ![p] = @ \cup S]
    /\ keys' = [keys EXCEPT ![p] = @ \cup new]
    /\ \/ disk' = [disk EXCEPT ![p] = @ \cup new] /\ UNCHANGED <<unsaved, trouble>>
       \/ /\ Trouble
          /\ \E saved \in SUBSET new :
                saved # new /\ disk' = [disk EXCEPT ![p] = @ \cup saved]
          /\ unsaved' = unsaved \cup {p}

-----------------------------------------------------------------------------
\* Mutant of Start: the old secrets are not read from the config map.
StartCurrent(n, c) ==
    /\ NodeStarts(n, [addr |-> c.addr, secrets |-> {c.secret}])
    /\ disk' = [disk EXCEPT ![n] = @ \cup {c.secret}]
    /\ mem' = [mem EXCEPT ![n] = {c.secret}]
    /\ keys' = [keys EXCEPT ![n] = {c.secret}]
    /\ used' = [used EXCEPT ![n] = @ \cup {c.secret}]
    /\ UNCHANGED <<known, answer, unsaved>>

(***************************************************************************)
(* A server starts.  loadHistorySecret stores its own secret, which fails  *)
(* the start if it fails, and reads all secrets from the config map; these *)
(* are what the server announces for as long as it runs.                   *)
(***************************************************************************)
Start(n, c) ==
    LET stored == disk[n] \cup {c.secret} IN
    /\ NodeStarts(n, [addr |-> c.addr, secrets |-> stored])
    /\ disk' = [disk EXCEPT ![n] = stored]
    /\ mem' = [mem EXCEPT ![n] = {c.secret}]
    /\ keys' = [keys EXCEPT ![n] = stored]
    /\ used' = [used EXCEPT ![n] = @ \cup {c.secret}]
    /\ UNCHANGED <<known, answer, unsaved>>

\* Instances, secrets in memory and answers on their way are gone.
Stop(n) ==
    /\ NodeStops(n)
    /\ known' = [m \in Watcher |-> IF m = n THEN [x \in Node |-> Unknown] ELSE known[m]]
    /\ answer' = [t \in Tracker |->
                    [m \in Watcher |-> IF m = n THEN NoAnswer ELSE answer[t][m]]]
    /\ mem' = [mem EXCEPT ![n] = {}]
    /\ keys' = [keys EXCEPT ![n] = {}]
    /\ UNCHANGED <<disk, used, unsaved>>

\* Put also stores the secrets of the instance at the tracker.
Register(t, n, s) ==
    /\ Put(t, n, s)
    /\ StoreSecrets(t, conn[t][n][s].ins.secrets)
    /\ UNCHANGED <<known, answer, used>>

RestartTracker(t) ==
    /\ TrackerRestarts(t)
    /\ mem' = [mem EXCEPT ![t] = {}]
    /\ keys' = [keys EXCEPT ![t] = disk[t]]
    /\ answer' = [answer EXCEPT ![t] = [m \in Watcher |-> NoAnswer]]
    /\ UNCHANGED <<known, disk, used, unsaved>>

\* InstanceSetSnapshot has all entries, the free ones too.
InstanceSetSnapshot(t) ==
    [n \in {x \in Node : entry[t][x] # Absent} |-> entry[t][n].ins]

\* The handler answers the SyncInstances of m, on a registered connection.
SynchronizeInstances(t, m) ==
    /\ \E s \in 1 .. Slots[m] : conn[t][m][s].st = "up"
    /\ answer[t][m] = NoAnswer
    /\ InstanceSetSnapshot(t) # NoAnswer
    /\ answer' = [answer EXCEPT ![t][m] = InstanceSetSnapshot(t)]
    /\ UNCHANGED <<regVars, known, disk, mem, keys, used, unsaved>>

\* Mutant of Tracks: an instance that is known stays as it is.
TracksOnce(t, m) ==
    LET ins == answer[t][m] IN
    /\ ins # NoAnswer
    /\ known' = [known EXCEPT ![m] =
                   [n \in Node |-> IF n \in DOMAIN ins /\ @[n] = Unknown
                                   THEN [age |-> 0, kind |-> "known", ins |-> ins[n]]
                                   ELSE @[n]]]
    /\ answer' = [answer EXCEPT ![t][m] = NoAnswer]
    /\ StoreSecrets(m, UNION {ins[n].secrets : n \in DOMAIN ins})
    /\ UNCHANGED <<entry, conn, up, me, robbed, used>>

(***************************************************************************)
(* tracks merges an answer under syncLock: what it has replaces what was   *)
(* known, and its secrets are stored, which may fail.                      *)
(***************************************************************************)
Tracks(t, m) ==
    LET ins == answer[t][m] IN
    /\ ins # NoAnswer
    /\ known' = [known EXCEPT ![m] =
                   [n \in Node |-> IF n \in DOMAIN ins
                                   THEN [age |-> 0, kind |-> "known", ins |-> ins[n]]
                                   ELSE @[n]]]
    /\ answer' = [answer EXCEPT ![t][m] = NoAnswer]
    /\ StoreSecrets(m, UNION {ins[n].secrets : n \in DOMAIN ins})
    /\ UNCHANGED <<entry, conn, up, me, robbed, used>>

\* The answer is lost with its connection: SyncInstances returns an error.
AnswerLost(t, m) ==
    /\ answer[t][m] # NoAnswer
    /\ Trouble
    /\ answer' = [answer EXCEPT ![t][m] = NoAnswer]
    /\ UNCHANGED <<entry, conn, up, me, robbed, known, disk, mem, keys, used, unsaved>>

(***************************************************************************)
(* expired(): now + Allowance < fetchTime, in rounds.  Its fetchTime is in *)
(* the past, so it never holds.                                            *)
(***************************************************************************)
Expired(k) == k.kind = "known" /\ k.age + Allowance < 0

Older(k) == IF k.kind = "known" /\ k.age < MaxAge THEN [k EXCEPT !.age = @ + 1] ELSE k

\* A round passes and expireDetection runs.
ExpireDetection(m) ==
    /\ known' = [known EXCEPT ![m] =
                   [n \in Node |-> IF Expired(Older(@[n])) THEN Unknown ELSE Older(@[n])]]
    /\ UNCHANGED <<regVars, answer, disk, mem, keys, used, unsaved>>

-----------------------------------------------------------------------------
SlotStep(t, n, s) ==
    \/ Dial(t, n, s) /\ UNCHANGED memVars
    \/ Break(t, n, s) /\ UNCHANGED memVars
    \/ Register(t, n, s)
    \/ Refuse(t, n, s) /\ UNCHANGED memVars
    \/ HandlerEnds(t, n, s) /\ UNCHANGED memVars

TrackerStep(t) ==
    \/ \E n \in Node : TimePasses(t, n) /\ UNCHANGED memVars
    \/ ExpirationDetection(t) /\ UNCHANGED memVars
    \/ RestartTracker(t)

WatcherStep(t, m) ==
    \/ SynchronizeInstances(t, m)
    \/ Tracks(t, m)
    \/ AnswerLost(t, m)

Next ==
    \/ \E n \in Node : Stop(n) \/ \E c \in Conf[n] : Start(n, c)
    \/ \E t \in Tracker, n \in Node : \E s \in 1 .. Slots[n] : SlotStep(t, n, s)
    \/ \E t \in Tracker : TrackerStep(t)
    \/ \E t \in Tracker, m \in Watcher : WatcherStep(t, m)
    \/ \E m \in Watcher : ExpireDetection(m)

Spec == Init /\ [][Next]_vars

(***************************************************************************)
(* The timers of servers and trackers fire and handlers run; servers need  *)
(* not start, stop or break connections.                                   *)
(***************************************************************************)
Fairness ==
    /\ \A t \in Tracker, n \in Node : \A s \in 1 .. Slots[n] :
         /\ WF_vars(Dial(t, n, s) /\ UNCHANGED memVars)
         /\ WF_vars(Register(t, n, s) \/ (Refuse(t, n, s) /\ UNCHANGED memVars))
         /\ WF_vars(HandlerEnds(t, n, s) /\ UNCHANGED memVars)
    /\ \A t \in Tracker :
         /\ \A n \in Node : WF_vars(TimePasses(t, n) /\ UNCHANGED memVars)
         /\ WF_vars(ExpirationDetection(t) /\ UNCHANGED memVars)
    /\ \A t \in Tracker, m \in Watcher :
         /\ WF_vars(SynchronizeInstances(t, m))
         /\ WF_vars(Tracks(t, m))
    /\ \A m \in Watcher : WF_vars(ExpireDetection(m))

FairSpec == Spec /\ Fairness

-----------------------------------------------------------------------------
(***************************************************************************)
(* A server that runs can decrypt the names it made under every secret it  *)
(* was ever started with: its own past is on its disk, whatever was stored *)
(* for other members in between (loadHistorySecret, StoreSecrets).         *)
(***************************************************************************)
OwnSecretsUsable ==
    \A n \in up : used[n] \subseteq keys[n] /\ used[n] \subseteq disk[n]

(***************************************************************************)
(* As long as no save failed, a secret that a process uses is one that it  *)
(* will find again after a restart: memory, where StoreSecrets looks first,*)
(* never runs ahead of the config map.                                     *)
(***************************************************************************)
MemoryOnDisk ==
    \A p \in Process \ unsaved : mem[p] \subseteq keys[p] /\ keys[p] \subseteq disk[p]

Gone(n) == n \notin up

(***************************************************************************)
(* A server that stays away leaves every registry: its connections end,    *)
(* their handlers free it and the timer deletes it.                        *)
(***************************************************************************)
GoneExpires ==
    \A n \in Node, t \in Tracker :
        (<>[]Gone(n)) => <>[](entry[t][n] = Absent)

(***************************************************************************)
(* A server that stays up gets known to every watcher that stays up, at    *)
(* its present address and with all its secrets, for good.  One exception  *)
(* is a server that a handler freed although it had another connection.    *)
(* The other is outside of this module: a slot can be dialled again when   *)
(* its connection is over, while the pool of the code loses those that     *)
(* fail in SyncInstances and PushBinlog, so that a server whose pool has   *)
(* run out of them can neither register nor ask until its next boot.       *)
(***************************************************************************)
KnowsWell(m, n) ==
    /\ known[m][n].kind = "known"
    /\ known[m][n].ins = me[n]
    /\ used[n] \subseteq keys[m]

BecomesKnown ==
    \A m \in Watcher, n \in Node :
        (<>[](m \in up /\ n \in up)) => <>[](n \in robbed \/ m \in robbed \/ KnowsWell(m, n))
=============================================================================
