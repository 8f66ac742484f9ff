# TLA+ models of godfs

godfs is a distributed file store. *Storage* servers keep files and form groups
whose members hold copies of each other's files; *trackers* keep a registry of
live servers and a set of known files; clients, agents and the storage servers
themselves learn the registry from the trackers.  What ties the servers together
is the *binlog*: every server appends a line for every file it learns of to its
own log, and three readers follow logs from persisted positions.

```
 client --upload--> storage A --push (pusher)-----------> tracker (dataset)
                      |  ^ binlog A                        ^   |
   sync binlog (watch)|  |                     authenticate|   |instances
                      v  |                                 |   v
                    storage B --download file (file sync)--+  api.syncInstances
```

## Inventory

| Component | State it keeps | Operations | Interacts with | Hard behaviour | What makes it correct |
|---|---|---|---|---|---|
| Binlog manager, `binlog/` | numbered files, `binlog.map` counts, open file, `binlogSize`, `currentIndex` | `Write`, `Read`, `GetCurrentIndex`, boot repair | all three readers; `Write` from uploads and watchers | crash inside an append, failing calls, rolling, a full map | crashes cost no acknowledged record and invent none; a failing call costs or invents at most one; counts never too high; files only grow at the end |
| Binlog pusher, `svc/binlog_pusher.go` | `binlog_index_<id>`, `binlog_pos_<id>` in the config map | timer round: read, push, save | `Read`, tracker handler, peers that push the same records | stale `GetCurrentIndex`, lost answers, restart between push and save, aliased trackers, a position read in two transactions | position valid, only forward, behind what was acknowledged; no record left behind in an earlier file; records pushed in the end |
| Tracker push handler, `svc/tracker_tcp_handler.go` | dataset of fileIds | add a batch | pushers of all storage servers | batch partly known | the tracker knows what it acknowledged |
| Binlog synchronizer, `svc/binlog_synchronizer.go` | position per member (memory and config map), change flags, watched members | watch round, saver timer | `syncBinlogHandler`, `Write`, dataset | two assignments without a lock, saver in between, partial failure, several watchers | position behind the dataset; members converge; positions saved |
| File synchronizer, `svc/file_synchronizer.go` | download position, failed positions, files under way | download loop, retry loop | `Read`, `DownloadFrom`, file store | the two loops meet; partial failure of a batch; what counts as finished; which noted positions a retry gets to | a file behind the position is there or scheduled; one download of a file at a time; files arrive in the end |
| Registry, `reg/registry.go`, and the tracker's connection handler | instances, state hold/free, time; a registered instance per connection | `Put`, `Free`, expiry, snapshot | servers with several connections each | an old connection ends after a new one registered; conflict of ids; expiry against renewal | an id is leased to one address at a time; what is held has a connection that will free it; gone servers expire |
| Instance synchronization, `api/instance_synchronizer.go` | fetched instances and times | `tracks`, `expireDetection`, filters | `SyncInstances`, secrets | answers that arrive after a change, several trackers, expiry against refresh | servers that stay get known as they are now; gone ones are forgotten |
| File store, `svc/storage_tcp_handler.go`, `svc/storage_http_server.go`, `svc/common_tcp_handler.go` | target files with a reference count tail | upload (TCP, HTTP form), download, inspect, the body of a synchronizer download | binlog and dataset | same content at once, cut transfers, count without a lock, failure in the middle of a form | what was acknowledged is served; names never precede files; the count is that of the fileIds that refer to the file; ranges never reach the tail |
| Client API, `api/client_api.go`; the agent | exclusion lists, weights, connection pool | upload, download, query with failover; calls of a given server | servers, pool (library), `FilterInstances` | retry over servers, dead connections, a full pool, instances that arrive during a call | calls end; a file in reach is found; an upload is stored once; connections come back |
| Config map, `common/type_def.go` | bolt buckets | put, get, batch | everything persisted | atomic batches (external) | – |
| Dataset, `svc/dataset.go` | set of fileIds (library) | add, contains, `DoIfNotExist` | synchronizer, upload, tracker | lock released before the add | – |
| Secrets, `util/config_validator.go`, `util/alias.go` | secrets in memory and in the config map, decryption keys | `StoreSecrets`, `loadHistorySecret` | instance synchronization, registry | memory ahead of the disk, failing saves, restarts with another secret | a server can read the names it made; memory is on disk |
| Tracker HTTP server, command line, codec, digests, logging | none of their own | – | – | – | – |

`PROJECT.json` lists every component with its status, and every hazard with the
line where it bites.

## Modules

| Module | Models | Kind |
|---|---|---|
| `BinlogFormat` | the text of a file as lines and a torn tail; `Read` on it | operators |
| `LogFeed` | what the manager promises to readers | abstract specification |
| `Binlog` | `localBinlogManager` and `XBinlogMapManager` | detailed; implements `LogFeed` |
| `BinlogPush` | `binlogPusher`, `pushStorageBinLogHandler` | composed with `LogFeed` |
| `BinlogSync` | `watch`, the saver, `syncBinlogHandler`, the end of `uploadFileHandler` | group of servers |
| `FileSync` | the two loops of `file_synchronizer.go` | composed with `LogFeed` |
| `LeaseTable` | what a registry promises to its readers | abstract specification |
| `Registry` | `reg/registry.go` and the connection handler of a tracker | detailed; implements `LeaseTable` |
| `Members` | `tracks`, `expireDetection`, `StoreSecrets`, start and stop of servers and trackers | extends `Registry` |
| `FileStore` | handlers that store and read files | concurrent handlers on one disk |
| `ClientApi` | the client API and the agent's choice of a server | callers sharing pools |
| `MCBinlogPush`, `MCBinlogSync`, `MCFileSync`, `MCMembers`, `MCFileStore`, `MCClientApi` | instances for TLC and the claims that fail (`Binlog` needs none) | model checking |
| `BinlogProofs`, `BinlogPushProofs`, `BinlogSyncProofs`, `FileSyncProofs`, `MembersProofs`, `FileStoreProofs`, `ClientApiProofs` | theorems, each about the module it is named after | proofs |
| `LogFeedProofs` | lemmas about `Read` and growing files, for the readers of `LogFeed` | proofs |

### How they correspond to the code

**BinlogFormat.** A record is `EncLen` base64 digits and a newline (136 in the
code, 4 in the runs: all that matters is the length modulo 4, which decides
whether a torn line decodes).  A line is the record, or the *class* of what a
reader makes of it: `Skip` (wrong size), `Bad` (does not decode: `Read` fails),
`Garbage` (decodes to the right size, but nobody wrote it).  A decodable line of
the right size that two torn records add up to is why `Garbage` exists.  Offsets
count lines, since `Read` only returns offsets at the end of a line.

**Binlog.** `Write` is taken apart where a crash or an error can fall:
`WriteHere`, `WriteReopen`, `WriteRoll` and `WriteOpenFails` stand for the
choice of the file; `AppendRecord` and `AppendFails` for the one `write(2)`,
line by line, since a crash may cut it anywhere; `Count`, `CountFails` and
`CountOverflows` for `SetRecords`.  `pc` is where the holder of `writeLock` is;
other writers wait, which is the `pc = "idle"` guard of the next `Write`.  The
`Restart...` actions are a crash plus `NewXBinlogManager`, with
`TryFixBinlogFile` succeeding or failing at each of its steps (its error is
dropped by the code).  `pc = "stuck"` is the lock that `SetRecords` takes twice,
`"dead"` the panic at index 1000 where it ends the process.  In the handler of an
upload net/http recovers it, the deferred unlocks run, and the process goes on
writing to that file (`CountOverflows` goes to either); in both cases
`binlog.map` has become longer than a boot accepts (`overlong`), so that there
is no restart after it.

**LogFeed.** Readers need three facts only: complete lines are appended to the
newest file, `GetCurrentIndex` is zero after a restart and the newest index
after a `Write` opened a file, and restarts may add one line or one file.
Binlog is shown to implement it (`RefinesLogFeed`: `files` and `cur` map to
themselves), so the readers are modelled against it and not against `Binlog`.

**BinlogPush.** Each goroutine has a `pc` with one action between two accesses
to shared state: read the saved offset (`GetPosition`), read the saved index
(`GetIndex`), read the file, push, compare with `GetCurrentIndex`, save.
`getPusherStatus` has a transaction for each of its two reads, and one more for
each "0" it writes into what nobody has written yet (`unset`, `PutPosition0`,
`PutIndex0`); the two parts are saved together.  The values a goroutine read
before are locals (`fi`, `off`, `rest`, `end`) and may be stale, and may be an
offset of one file with the index of another.  An offset is a number of bytes,
and where one of another file leads to is left open (`Landing`): between any two
lines, inside one, whose remainder is then skipped, undecodable or garbage
(`rest`, `Seen`), or beyond the end.  The history `mixed` has the files that were
so taken up.  `Target(p)` is the tracker that `&s` really points to.
`PushFails` covers a lost request, an error from the tracker after some records,
and a lost answer.  `PeerPush` is another member of the group that pushes the
same record first.  The history `late` names the one gap of a reader: at a roll,
the lines of the file that a pusher has read to its end, found empty and not yet
compared with `GetCurrentIndex`, as far as it has not seen them (`AtItsEnd`,
`Unseen`).  `FileSync` has the same history, `BinlogSync` one per watcher and
member.

**BinlogSync.** A watcher's round is: the request is served (`Fetch`), the rest
of the handler and the watcher's filter (`Answered`), `Write`, `Add`, and the
two assignments that move the position.  The saver writes all positions of a
server at the time it runs.  Lookups of one answer are one step, and a torn
`Write` is left to `Binlog`.  The records an answer leaves to be written stand
in the order of the answer (`InOrder`, the loop over `ret.Logs`).  The history
`missed` holds the records whose `Write` failed: the code goes on to add them to
the dataset.

**FileSync.** `loop["sync"]` and `loop["retry"]` hold the locals of the two
timer goroutines, which run the same `fromBinlogPos`: `ReadBatch`, `CheckIndex`
(its `GetCurrentIndex` comes after `Read`, as in the pusher), then one file
after the other.  That a file is missing (`FindMissing`, ExistsFile), its
registration (`RegisterDownloadingFile`) and the end of its transfer are three
steps with nothing locked over them: the other loop can meet a file under way,
and one that it has finished in between is downloaded again.
`SaveDownloadState` is the one bolt update of both position and failed position.
`PassOver` are the two ways in which `syncFile` returns nil without the file: the
other loop downloads it, or no member of the group is left in the list.  The
retry loop loads the noted positions from the `offset`-th on, in the order of their
keys (`RetryLoad`, `Rank`), visits them in that order (`RetryPick`), removes the
finished ones of this and all earlier rounds (`donePos`, never cleared) and takes
the length of that list from the offset (`RetryRemoves`).

**Registry, Members.** A connection is a slot `conn[t][n][s]` with two ends:
what the handler of the tracker has done with it (`open` or `up`) and whether
the server still holds its end (`late`, `gone` when not).  So a server may stop,
move and dial again while handlers of its old connections still wait in
`Receive`; `Register` (the CONNECT request: `Put` and `StoreSecrets` at the
tracker) and `HandlerEnds` (the deferred `Free`, by InstanceId) come in any
order.  Time is the bit `due` of an entry, set by `TimePasses` and read by
`ExpirationDetection`.  `SynchronizeInstances` takes the snapshot, `Tracks`
merges it later: in between it is stale.  An instance's address and secrets are
fixed when its process starts (`me`, as `authenticate` sends them).  `mem` is
`CusterSecret`, `keys` is `historyAesEncDecKeys`, `disk` is the entry `secrets`
of the config map.  `LeaseTable` is the registry as its readers see it; the
`held` and `free` states map to leases held or given back.  A slot can be dialled
again when its connection is over, which is easier than the code: its pool loses
connections that fail in `SyncInstances` and `PushBinlog` (`lost` in
`ClientApi`), and a server that has lost all of them can neither register nor
ask until its next boot.  `BecomesKnown` is stated without that.

**FileStore.** Each handler has a `pc` with one action between two accesses to
the disk: does the target exist (`Look`), `MoveFile`, or reading and writing the
count (`ReadCount`, `WriteCount`: two steps, no lock; a file moved over an open
one takes the write with it, `stale`), then `WriteBinlog`, `Add`, and the answer
or the next file of the form (`NextPart`, `Reply`).  `Fail` and `Crash` may end
it anywhere.  Content and digest are one model value; `Piece[c]` is what a cut
transfer leaves of `c`: of an upload it is another upload, since the name is
computed from what came; a download by the synchronizer gives it the name of
`c`.  `SeekRead` is the arithmetic of `seekRead` on the size of the file, tail
included, with sums that wrap at `IntMax`.  `CountSound` compares the count with
the fileIds that refer to the file: those of uploads in the binlog or about to be
written there, and those that were downloaded (`fetched`).  What the code counts
beyond these is named `surplus`: an upload whose binlog write fails after the
file was counted, and a second upload or download under one fileId.

**ClientApi.** A call's `pc` follows the loops of `Upload`, `DownloadFrom` and
`Query`: select under the lock, get a connection (idle, dead, or new up to the
limit; at the limit an error), authenticate a new one, send, receive.  `op` says
which call it is, and so what a failure does: next server, error, and whether
the connection is given back.  `callTracker` stands for `SyncInstances` and
`PushBinlog`, which treat it alike.  `storageClientConnHandler` closes the
connection when a handler returns an error, so that a file that is not there is
NOT_FOUND to a query but no answer to a download (`Served`, `ReceiveFails`).
`proxyUpload` and `proxyDownload` are the agent: it selects in the same way, and
`Forward` hands on what the server says; when the request fails, or there is no
server, it writes no answer at all, which the client sees as an empty 200
(`blank`).  When the request cannot even be made, its loop goes on with no server
excluded, a download with the server it has (`RequestFails`).

## Runs

| Run | Asks | Bounds |
|---|---|---|
| `binlog` | do crashes and failing calls lose or invent more records than there were faults, confuse which file is written, what is counted, what is full, or show readers anything but `LogFeed`? | 2 records, batches of 2, 2 files that are full after 1 write; the third write overflows the map; 3 crashes, 2 faults |
| `push_one` | does the saved position ever go back, and is everything pushed in the end? | 1 tracker, 2 files of 2 lines, 2 restarts, 2 faults |
| `push_pair` | do two pushers on one position, read in two transactions, spoil it or leave a record behind, in files that nobody took up with the offset of another one? | 2 pushers, 3 files of one line (that of the first is the newline of the boot), pushes of 1 record, a restart, a fault |
| `sync_safe` | does a position ever run ahead of the dataset, in its file or in those before, or the dataset of the binlog? | 2 servers, 2 files of 2 records, fetches of 2, 2 restarts, 2 faults |
| `sync_live` | do members converge and positions get saved? | 2 servers watching each other, a restart |
| `file_safe` | do the loops stay apart, and is every file behind the position there or noted? | 1 record, undecodable and unparsable lines, 2 files of 2 lines, fetches of 2; a restart and a fault, or 2 faults |
| `file_live` | do the files arrive in the end, unless the retry loop is stuck? | 2 records and an unparsable line between them, 1 file of 4 lines (the first is the newline of the boot), fetches of 1, so that every line has a position of its own; 3 faults or restarts, one restart at most |
| `members` | are ids leased soundly, do servers that left expire, and do servers that stay get known with all their secrets? | 1 tracker, a server with 2 connections that moves and changes its secret, one that watches; 2 stops, broken connections, failing saves, lost answers or tracker restarts |
| `store` | is what was acknowledged served, and counted as often as it is referred to, whatever races, fails or is cut? | 2 uploads (up to 2 files in a form) and 2 downloads, a content and a piece of it, 2 fileIds here and 1 at another member, 3 stores, 2 failures, cuts or crashes |
| `client` | do calls end, find their file, store once and give connections back? | 2 callers and 2 calls, 2 synchronized servers (one read only), a static one, 1 tracker, pools of 1, 2 failures or restarts |
| `push_drop`, `members_stale` | claims of the repository that the code breaks | as small as shows it |

The bounds are counters in guards (`MaxWrites`, `MaxRestarts`, `MaxFaults`,
`MaxReboots`, `MaxTrouble`, `MaxStores`, `MaxCalls`) or sizes (`MaxFiles`,
`MaxLines`, `MaxLog`, `MaxParts`, `MaxConns`, `IntMax`, `MaxAge`).  Each is
large enough for the case it bounds to occur more than once, or in both orders:
two crashes are needed to have two torn records add up to one; two files for a
roll; one restart at any step for every lost piece of volatile state; two
connections of one server for the end of an old one to meet a new one; two
handlers for every race of two steps on one file; a pool of one for a caller to
find it full.  `binlog` has two records so that one that was lost and one that is
there differ, and two faults so that the damage of one adds to that of the
other; `DamageBounded` itself is proved for any of these numbers.  `push_pair` needs three
files for a pusher to be two behind, and one line in each is enough, since a file
is at its end or not.  In `file_live` three positions are noted, so that the
arithmetic of the retry loop gets stuck (`Starved`);
with one position for the whole file it never would.  `MaxConns = 1` makes the
pool full as soon as one connection is lost, and a third failure would only
repeat the step of the second on the third server.  `CHECK_DEADLOCK` is off
because every instance stops when its bounds are used up, and a stuck or dead
writer is a state of `Binlog`; that callers never wait on each other is
`CallsGoOn`.

Every property of a passing run has a mutant: a definition with a plausible bug,
written next to the one it replaces and named in `PROJECT.json`, under which the
property fails.

### Fairness

Timers in the code are periodic and goroutines are scheduled, so a pusher's next
step, a watcher's next step, the saver and both loops of `FileSync` are weakly
fair; so is `SyncInstances` telling a tracker's id (`Learn`).  No fairness is
assumed for uploads, writes, restarts or failures, and the failures are finitely
many.  `RecordsPushed`, `FilesArrive` and `Converges` are stated for one binlog
file per server, because the test of `GetCurrentIndex` after `Read` makes
readers leave a file too early, and the first two for files without an
undecodable line, which no reader gets past.  `FilesArrive` asks besides that the
retry loop is time and again not stuck: with `n` entries in `donePos` a round
comes to be the last `n` of the noted positions, and those before them wait for
as long as there are more.

In `Members` the timers of servers and trackers fire (`Dial` and
`SynchronizeInstances` from `SYNCHRONIZE_INTERVAL`, `ExpirationDetection`,
`ExpireDetection`), time passes, and handlers that can read a request or the end
of a connection do so; no server need start, stop or lose a connection, and
those are finitely many.  `ClientApi` needs no fairness: `CallsAdvance` is a
variant that goes down with every step of a call but `RequestFails`, and
`CallsGoOn` says that there always is one: no call waits for another.  It does
not say that a server answers; calls have no deadlines, and a silent server
holds its caller for as long as it likes.

## What the code does that its texts do not say

Found by runs that expect a violation:

* `push_drop`: the tracker answers SUCCESS but ignores a batch from the first
  known fileId on.
* `members_stale`: `expired()` asks whether now plus two intervals is *before*
  the time of the fetch; it never is, so a server that left stays a candidate of
  every selection for as long as the process runs.

Met while modelling, without a run of their own:

* Binlog: a crash after `4k + 1` digits leaves a line on which `Read` fails, and
  no reader gets past it; a failing `SetRecords` locks its own mutex, so `Write`
  hangs and with it every later one (`pc = "stuck"`); a batch counts as one
  record in `binlog.map`; after an append that failed half way the next record
  is glued to the torn digits and lost.
* Readers: lines appended between `Read` and a roll are skipped, by all three
  (`late`, which no other line is in);
  all pushers push to the last configured tracker (`Target`), so with two the
  first is never fed; with two, a save of one pusher between the two reads of the
  other's `getPusherStatus` makes that one read a new file from the offset of an
  old one, and whatever it saves there passes records over (`mixed`); after a
  restart with a position in a later file a pusher's
  round does not end before the first `Write`.
* Binlog synchronizer: records are added to the dataset although writing them to
  the binlog failed (`missed`); a record announced by two members can be written to the
  binlog twice; after a failed save positions stay unsaved until the next
  change.
* File synchronizer: a file is passed over for good when the other loop's
  download of it fails later, or when the group has no member left at that
  moment (`PassOver`); a failed position is removed as soon as the dataset has
  its fileIds, although the files are missing (`dropped`); a file that one loop has
  finished after the other looked for it is downloaded again; the offset into the
  noted positions goes down by the length of a list that is never emptied, so
  that positions starve behind one at the end that never succeeds (`Starved`).
* Registry: when an old connection of a server ends after a new one registered,
  the live server is marked free and expires until it dials again (`robbed`).
* Secrets: a secret whose save failed is in memory and so never saved again
  (`unsaved`).
* File store: two uploads of one content can lose a reference (`raced`); an upload
  that fails after it was counted leaves the count too high for good, and so does
  a second copy under one fileId (`surplus`); a record of another member whose
  file is there already is not counted at all; a
  transfer cut short counts as complete, and what a download left of a file
  takes its place and is never fetched again (`damaged`); `inspect` reports the
  size with the tail; a range whose sum overflows is served with the tail.
* Client: `SyncInstances`, `PushBinlog` and `SyncBinlog` do not give back a
  connection that failed to authenticate or to send, the first two nor one that
  failed to receive (`lost`), so that after `MaxConnectionsPerServer` failures a
  tracker cannot be reached any more; `SyncBinlog` gives one back as good after
  a failed receive; all configured servers share the empty InstanceId, so
  excluding one excludes all; the agent answers nothing when its request fails,
  and repeats without end when it cannot make one (`RequestFails`); when the reader
  of an upload panics its connection is kept.

The properties that hold except exactly these cases: by a history variable that
marks them (`late`, `mixed`, `missed`, `skipped`, `dropped`, `robbed`, `unsaved`,
`raced`, `surplus`, `damaged`, `lost`), by a state or step that is named
(`Starved`, `RequestFails`), or by counting them (`DamageBounded` bounds what is lost or
made up by the number of faults).

## Proofs

| Theorem | Says | Argument |
|---|---|---|
| `FilesCorrect` (`BinlogProofs`) | `TypeOK`, `AppendsToNewest`, `SealedFull`, `CountNeverOver` | Together they are almost inductive. The strengthening adds `OpenIsNewest` (an open or closed file in the manager is the newest), `SizeIsCount` (`binlogSize` is the entry of the open file in the map) and `Progress` (the `Write` in progress has added a line that is not yet counted). |
| `BinlogImplementsLogFeed` | `Spec => RefinesLogFeed` | Each action maps to a step of `LogFeed` or a stutter; that an append goes to the newest file needs `FilesCorrect`. |
| `FaultsBoundDamage` | `DamageBounded` | `DamageInv`: the records lost so far, those of the `Write` in progress that are glued already, the records nobody wrote, and one more when digits stand after the last newline, are together never more than the faults. A failed append leaves at most one torn tail; the line that a record or a repair makes of it turns that into one lost or one made-up record (`ExtendReadable`, `ExtendPhantoms`, `LostEnds`). |
| `AckedSurvivesCrashes` | while no call failed, every acknowledged record is readable and there is no made-up one, however many crashes | The case `faults = 0` of the same invariant, which crashes do not count in. |
| `PushedBeforeSaved` (`BinlogPushProofs`) | `TypeOK`, `CursorValid`, `AckedBeforeCursor` | `Reached`: a position that a pusher holds is in a file that exists and, unless the file is in `mixed`, at the end of a line with all before it acknowledged. A pusher inherits that from the cursor; between its two reads it has it for the file whose offset it read, and the index makes it a position of another file only if that file gets into `mixed` with the same step, or the offset is 0 (`InReached`). Files and `mixed` only grow, so a stale position stays true; after the push the batch is added to it. Holds for any number of pushers of one tracker. |
| `FilesPushedWhole` | `NothingLeftBehind` | An empty `Read` has seen the whole file (`EmptyReadsAll`), and only the newest file grows (`OldFilesKept`): `PusherLeft` says of a pusher that found nothing that, once another file follows, all of its file was acknowledged but for the lines in `late`, or the file is in `mixed`. |
| `MembersTypes` (`MembersProofs`) | `TypeOK` of `Members` and `Registry` | Every action sets at most one entry, one connection (`EntrySet`, `ConnSet`) and the secrets of one process (`SecretsStored`). |
| `HeldAreServed` | `HeldHasHandler` | Inductive with the types: a step leaves an id alone, or frees it, or registers the very connection that serves it; a handler that ends before it registered frees nothing and served nobody. |
| `RegistryImplementsLeases` | `Spec => ImplementsLease` | Setting one entry sets one lease (`LeaseSet`); `Put` maps to `Grant`, the end of a handler to `Release` or a stutter, the timer to `Reclaim` of what is overdue, a restart of a tracker to `Forget`. |
| `OwnSecretsKept`, `SecretsFoundAgain` | `OwnSecretsUsable`, `MemoryOnDisk` | `OwnSecretsUsable` says nothing of a server that is down, so it is kept with `UsedOnDisk`: what a server was ever started with stays on its disk, which its next start reads. |
| `PositionOnlyForward` (`BinlogPushProofs`) | `Spec => CursorForward` | With one tracker the pusher in a round is at the saved position, or between its two reads holds the saved offset (`Sole`), for only its own saves change it, and a "0" is only written where nothing is; `Read` returns no offset before the one it was given (`ReadEndBounds`). |
| `PositionsNeverAhead`, `DatasetsAreLogged`, `GroupTypes` (`BinlogSyncProofs`) | `PositionsSound`, `DatasetInLog`, `TypeOK` | The two positions alone are not inductive. `Sound` adds, for every watcher, what is true of the position it is about to reach: before the add all that is wanted of the file before it is in the dataset *or among the records held*, after the add in the dataset; and the new offset is that of the same file or zero, so that it is good with the old index, too, when the saver or a restart comes between the two assignments. `LoggedFirst` adds that records are in the binlog before they are added. Both survive other watchers because binlogs and datasets only grow (`CoveredStays`). `PositionsSound` is about all earlier files, too: `LeftInv` carries, for every position a watcher holds, that nothing is left before its file, and for one that was told that its file is at the end, that all of it is covered once another file follows, except `late` lines. `DatasetInLog` needs no premise about faults: what a failed `Write` did not get to is in `missed`. |
| `NeverTwoDownloads`, `FailedAreNoted`, `PlacesExist`, `FileSyncTypes` (`FileSyncProofs`) | `OneDownload`, `NothingForgotten`, `PositionsValid`, `TypeOK` | `LoopInv`: what a goroutine works on was there when it read it, a `Read` of the same position would return it again however the file has grown (`ReadEndGrows`), and as long as no file failed, all lines behind it are settled. What it found missing it registers later without looking again: `OneDownload` needs only that nobody is registered twice. When a round ends, its lines are either settled or in the window of the position that is noted in the same update. `LeftInv` joins the rounds: the first goroutine works at the saved position (`SyncAt`), and goes to the next file only when there is one and nothing but `late` lines is left in this one (`SyncLeft`); so all files before the position are handled, not only the batch that was saved last. |
| `NamesFollowFiles`, `CountsSound`, `AckedIsServed`, `StoreTypes` (`FileStoreProofs`) | `FileBeforeName`, `CountSound`, `AckedServed`, `TypeOK` | `HandlerInv`: what a handler is past is done (in place, in the binlog, in the dataset), and files and names only grow. `PlaceInv`: unless two handlers ever placed a content at once (`raced`), one handler does so now, and the count is not below the references, and what the handler has read is the count. The other half holds in a race, too: unless the content is in `surplus`, neither the count nor what any handler has read of it is above the references, and the step that writes one more adds a reference (`RefsPlaced`). |
| `RangesServed` | `RangeServed` | Arithmetic on `SeekRead` by cases, where sums stay below `IntMax` (`WrappedKeeps`); of the invariant it needs the types, and that an acknowledged file is there. |
| `ConnectionsConserved`, `ClientTypes` (`ClientApiProofs`) | `PoolConserved`, `TypeOK` | One caller's call changes at a time, so the number of calls that hold a connection to a server changes by at most one (`UsingChanges`), and the pool by the opposite. |
| `UploadStoredOnce`, `SearchFinds` | `UploadOnce`, `FindsFile` | `UploadInv`: nothing is stored before the last step. `SearchInv`: the server a call turns to is one it has not tried, instances are never forgotten, and without a failure no server that has the file is among the tried ones. |
| `EveryCallAdvances` | `Spec => CallsAdvance` | The variant is the number of servers not yet tried, then the place in the round (`Onward`); a step goes on in the round, or tries one server more (`OnwardIsNearer`), or is `RequestFails`. |

`BinlogTypes`, `NewestAppended`, `RolledAreFull`, `PushTypes` and
`PositionInFile` are corollaries that state the conjuncts one by one;
`GroupInvariant`, `SyncInvariant`, `StoreInvariant` and `ClientInvariant` state
the inductive invariants of their modules.  The three `LeftInv` are inductive
relative to these and are proved on top of them.

The theorems hold for every value of the constants that satisfies the
`ASSUME`s:

* `EncLen` a positive multiple of 4, `Record` apart from the line classes, sizes
  of files, batches and fetches positive.  In particular for the code's 136
  digits, `2 << 20` records and 1000 files, which no run can reach.
* `Members`: servers are not trackers and are configured with addresses and
  secrets.
* `BinlogSync`: a record has one server it was uploaded to, and no server
  watches itself.
* `FileStore`: a cut transfer leaves some content; every file with its tail has
  a size within the integers (`SizeAssumption`), which is so of what lies on a
  disk.  Contents and offsets asked for are any.
* `ClientApi`: callers and servers are finite sets, there is a server, and a
  pool takes at least one connection.

Only model-checked: the liveness properties `RecordsPushed`, `Converges`,
`PositionsSaved`, `FilesArrive`, `GoneExpires` and `BecomesKnown`, and
`CallsGoOn`, which says that a step is enabled: fairness and `ENABLED` are out of
the prover's reach.  Every other property of a passing run is stated by a theorem.

## Plan

1. *Done:* binlog, pusher, binlog synchronizer; proofs of the first two.
2. *Done:* `FileSync`, composed with `LogFeed` as `BinlogPush` is.
3. *Done:* `Registry`, which implements `LeaseTable`, and `Members` on top of
   it.
4. *Done:* `FileStore`, with `SeekRead` against a reference definition.
5. *Done:* `ClientApi`; secrets as part of `Members`.
6. *Done:* proofs of the safety properties of `Members`.
7. *Done:* proofs of the safety properties of `FileStore`, `ClientApi`,
   `BinlogSync` and `FileSync`, and of `CursorForward`.
8. *Done:* the gaps of the readers named (`late`, `missed`), the damage of
   faults counted, and the theorems stated for all earlier files.
9. *Done:* the accesses of the code that are two, as two steps: the cursor of a
   pusher, the look and the registration of a download; the offset of the retry
   loop; the references of a file counted by name; the agent's endless loop.
10. Proofs left: the steps of the liveness arguments that are action properties:
   that a round of a watcher or of a loop with a changed answer moves its
   position.

## Not modelled, and why

Alias encryption, digests, tokens of private files, text fields of HTTP forms,
the command line, validation of the configuration and logging have no state
whose interleaving matters. bolt, the hash file behind the dataset, the timers,
the connection pool and framing, and the serving of HTTP ranges are libraries:
they appear as atomic steps that may fail, as the code uses them.  The pool's
timeout of idle connections is left out: it only does what `ServerRestarts` does
more often.  `unWatch` and `reg.Remove` are never reached.  A tracker that
registers with other trackers is a server without secrets and adds no step to
`Members`.  Byte offsets, base64 text and JSON are abstracted as described
above.  Data races on Go maps (`historyAesEncDecKeys` is read without the lock
it is written under, the saver walks the positions without any) end the process,
which is the restart of the models.
