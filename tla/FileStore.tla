------------------------------- MODULE FileStore ----------------------------
(***************************************************************************)
(* How a storage server stores files and reads them: uploadFileHandler,    *)
(* downFileHandler and inspectFileHandler (svc/storage_tcp_handler.go),    *)
(* httpUpload1 and httpDownload (svc/storage_http_server.go), the body of  *)
(* a download by the file synchronizer, updateFileReferenceCount and       *)
(* seekRead (svc/common_tcp_handler.go).                                   *)
(*                                                                         *)
(* A file is kept once per content, at a path made of its digests, with a  *)
(* tail of 4 bytes that counts the references to it.  All handlers run     *)
(* concurrently and take no lock.  Content and digest are one thing here:  *)
(* a content is a model value, and Piece[c] is what is left of c when the  *)
(* connection ends in the middle of the transfer, which io.Copy takes for  *)
(* the end of the file.                                                    *)
(***************************************************************************)
EXTENDS Integers, FiniteSets

CONSTANTS
    Upload,       \* handlers of uploads
    Sync,         \* goroutines of the file synchronizer
    Content,      \* contents; each is also the name of its place
    Piece,        \* Piece[c]: c cut short
    Length,       \* Length[c]: its bytes
    Local,        \* fileIds of uploads at this server
    Remote,       \* fileIds of uploads at other members of the group
    IntMax,       \* bound of int64
    MaxParts,     \* bound: files of one HTTP form
    MaxStores,    \* bound: stores that are begun
    MaxTrouble    \* bound: failing steps, cut transfers, crashes

FileId == Local \cup Remote

ASSUME FileStoreAssumption ==
    /\ Piece \in [Content -> Content]
    /\ Length \in [Content -> Nat]
    /\ \A f \in FileId : f.content \in Content
    /\ Local \cap Remote = {}
    /\ IsFiniteSet(Upload \cup Sync) /\ IsFiniteSet(FileId)
    /\ IntMax \in Nat /\ MaxParts \in Nat

\* Bytes of a file on disk after its content; the size of all is an int64.
Tail == 4

ASSUME SizeAssumption == \A c \in Content : Length[c] + Tail <= IntMax

VARIABLES
    target,    \* target[c]: the file at the place of content c
    logged,    \* fileIds in the binlog
    data,      \* fileIds in the dataset
    req,       \* what every handler is doing
    acked,     \* history: fileIds of uploads that were answered SUCCESS
    fetched,   \* history: fileIds whose download placed a file or counted one
    surplus,   \* history: contents counted for an upload that then failed, or
               \* again for the same fileId
    raced,     \* history: contents that two handlers were placing at once
    damaged,   \* history: contents placed by a download that was cut
    begun, trouble

vars == <<target, logged, data, req, acked, fetched, surplus, raced, damaged, begun,
          trouble>>

Worker == Upload \cup Sync

Missing == [count |-> 0, exists |-> FALSE]
File    == {Missing} \cup [bytes : Content, count : Nat, exists : {TRUE}]

(***************************************************************************)
(* fid: the fileId to store; bytes: what the temporary file has; n: the    *)
(* reference count read; stale: another file was moved over the one that   *)
(* is open; parts: files of the form still to come; done: those stored.    *)
(***************************************************************************)
Idle    == [pc |-> "idle", done |-> {}]
Handler ==
    [pc : {"register", "look", "move", "count", "write", "log", "add", "part"},
     kind : {"upload", "sync"}, fid : FileId, bytes : Content, n : Nat,
     stale : BOOLEAN, parts : 0 .. MaxParts, done : SUBSET FileId]
Request == {Idle} \cup Handler

TypeOK ==
    /\ target \in [Content -> File]
    /\ logged \subseteq FileId /\ data \subseteq FileId
    /\ req \in [Worker -> Request]
    /\ acked \subseteq FileId
    /\ fetched \subseteq Remote
    /\ surplus \subseteq Content /\ raced \subseteq Content /\ damaged \subseteq Content
    /\ begun \in Nat /\ trouble \in Nat

Init ==
    /\ target = [c \in Content |-> Missing]
    /\ logged = {} /\ data = {}
    /\ acked = {} /\ fetched = {} /\ surplus = {} /\ raced = {} /\ damaged = {}
    /\ req = [w \in Worker |-> Idle]
    /\ begun = 0 /\ trouble = 0

Trouble ==
    /\ trouble < MaxTrouble
    /\ trouble' = trouble + 1

Set(w, r)  == req' = [req EXCEPT ![w] = r]
Goto(w, p) == Set(w, [req[w] EXCEPT !.pc = p])
Place(w)   == req[w].fid.content

Disk == <<target, logged, data>>
History == <<acked, fetched, surplus, raced, damaged>>

-----------------------------------------------------------------------------
(***************************************************************************)
(* Receiving a file into a temporary file and writing its tail.  An upload *)
(* is named after the bytes that came, so that one that was cut is simply  *)
(* an upload of the piece: Piece[c] is among the contents to choose from.  *)
(* An upload over TCP has one file, a form over HTTP has parts more.       *)
(***************************************************************************)
Handling(p, kind, f, b, parts, done) ==
    [pc |-> p, kind |-> kind, fid |-> f, bytes |-> b, n |-> 0, stale |-> FALSE,
     parts |-> parts, done |-> done]

Received(w, kind, f, b, parts, done) == Set(w, Handling("look", kind, f, b, parts, done))

BeginStore ==
    /\ begun < MaxStores
    /\ begun' = begun + 1

BeginUpload(w) ==
    /\ req[w].pc = "idle"
    /\ BeginStore
    /\ \E f \in Local, parts \in 0 .. MaxParts :
          Received(w, "upload", f, f.content, parts, {})
    /\ UNCHANGED <<Disk, History, trouble>>

\* Mutant of NextPart: the end of the form is not noticed.
NextPartAlways(w) ==
    /\ req[w].pc = "part"
    /\ \E f \in Local :
          Received(w, "upload", f, f.content, req[w].parts - 1, req[w].done)
    /\ UNCHANGED <<Disk, History, begun, trouble>>

\* The next file of an HTTP form.
NextPart(w) ==
    /\ req[w].pc = "part"
    /\ req[w].parts > 0
    /\ \E f \in Local :
          Received(w, "upload", f, f.content, req[w].parts - 1, req[w].done)
    /\ UNCHANGED <<Disk, History, begun, trouble>>

\* syncFile of a record of the binlog: nothing is done for a file that is there.
BeginSync(w) ==
    /\ req[w].pc = "idle"
    /\ BeginStore
    /\ \E f \in Remote \cap logged :
          /\ ~target[f.content].exists
          /\ Set(w, Handling("register", "sync", f, f.content, 0, {}))
    /\ UNCHANGED <<Disk, History, trouble>>

(***************************************************************************)
(* registerDownloadingFile: nothing is done for a fileId that the other    *)
(* goroutine downloads at the moment; whether the file has come to be      *)
(* there is not asked again.  DownloadFrom hands over what came; its       *)
(* digest is not compared with the name.                                   *)
(***************************************************************************)
Downloads(v, f) == req[v].pc \notin {"idle", "register"} /\ req[v].fid = f

RegisterDownloadingFile(w) ==
    LET f == req[w].fid IN
    /\ req[w].pc = "register"
    /\ \/ /\ \E v \in Sync : Downloads(v, f)
          /\ Set(w, Idle)
          /\ UNCHANGED trouble
       \/ /\ ~\E v \in Sync : Downloads(v, f)
          /\ \/ Received(w, "sync", f, f.content, 0, {}) /\ UNCHANGED trouble
             \/ Received(w, "sync", f, Piece[f.content], 0, {}) /\ Trouble
    /\ UNCHANGED <<Disk, History, begun>>

\* The binlog synchronizer writes and adds a record of another member.
WatchAdds(f) ==
    /\ f \in Remote
    /\ \/ f \notin logged /\ logged' = logged \cup {f} /\ UNCHANGED data
       \/ f \in logged \ data /\ data' = data \cup {f} /\ UNCHANGED logged
    /\ UNCHANGED <<target, req, History, begun, trouble>>

(***************************************************************************)
(* Does the target file exist?  A download that finds its fileId in the    *)
(* dataset leaves the file as it is.                                       *)
(***************************************************************************)
Placing(w) == req[w].pc \in {"move", "count", "write"}

\* Mutant of Look: the binlog is written as soon as the name is known.
LookNames(w) ==
    /\ req[w].pc = "look"
    /\ IF ~target[Place(w)].exists THEN Goto(w, "move") ELSE Goto(w, "count")
    /\ logged' = logged \cup {req[w].fid}
    /\ UNCHANGED <<target, data, History, begun, trouble>>

Look(w) ==
    LET others == {v \in Worker \ {w} : Placing(v) /\ Place(v) = Place(w)} IN
    /\ req[w].pc = "look"
    /\ IF ~target[Place(w)].exists THEN Goto(w, "move")
       ELSE IF req[w].kind = "sync" /\ req[w].fid \in data THEN Set(w, Idle)
       ELSE Goto(w, "count")
    /\ raced' = IF others # {} THEN raced \cup {Place(w)} ELSE raced
    /\ UNCHANGED <<Disk, acked, fetched, surplus, damaged, begun, trouble>>

\* Mutant of Placed: a file that is there already is not named again.
PlacedOnce(w) ==
    IF req[w].kind = "sync" THEN Idle
    ELSE IF req[w].pc = "move" THEN [req[w] EXCEPT !.pc = "log"]
    ELSE [req[w] EXCEPT !.pc = "part", !.done = @ \cup {req[w].fid}]

\* Where a handler goes when its file is in place.
Placed(w) == IF req[w].kind = "sync" THEN Idle ELSE [req[w] EXCEPT !.pc = "log"]

\* A download is a reference of its fileId; a second one is none.
NoteFetched(w) ==
    IF req[w].kind = "upload" THEN UNCHANGED <<fetched, surplus>>
    ELSE /\ fetched' = fetched \cup {req[w].fid}
         /\ surplus' = IF req[w].fid \in fetched THEN surplus \cup {Place(w)} ELSE surplus

\* Mutant of MoveFile: the tail of the temporary file is zero.
MoveFileUncounted(w) ==
    LET c == Place(w) IN
    /\ req[w].pc = "move"
    /\ target' = [target EXCEPT ![c] =
                    [bytes |-> req[w].bytes, count |-> 0, exists |-> TRUE]]
    /\ Set(w, Placed(w))
    /\ NoteFetched(w)
    /\ UNCHANGED <<logged, data, acked, raced, damaged, begun, trouble>>

\* MoveFile replaces a file that has come to be there in the meantime; who
\* has that one open does not notice.
MoveFile(w) ==
    LET c == Place(w) IN
    /\ req[w].pc = "move"
    /\ target' = [target EXCEPT ![c] =
                    [bytes |-> req[w].bytes, count |-> 1, exists |-> TRUE]]
    /\ req' = [v \in Worker |->
                 IF v = w THEN Placed(w)
                 ELSE IF req[v].pc = "write" /\ Place(v) = c
                      THEN [req[v] EXCEPT !.stale = TRUE]
                 ELSE req[v]]
    /\ NoteFetched(w)
    /\ damaged' = IF req[w].bytes = c THEN damaged ELSE damaged \cup {c}
    /\ UNCHANGED <<logged, data, acked, raced, begun, trouble>>

\* updateFileReferenceCount: read the tail, then write it, without a lock.
ReadCount(w) ==
    /\ req[w].pc = "count"
    /\ Set(w, [req[w] EXCEPT !.pc = "write", !.n = target[Place(w)].count])
    /\ UNCHANGED <<Disk, History, begun, trouble>>

WriteCount(w) ==
    LET c == Place(w) IN
    /\ req[w].pc = "write"
    /\ target' = IF req[w].stale THEN target
                 ELSE [target EXCEPT ![c].count = req[w].n + 1]
    /\ NoteFetched(w)
    /\ Set(w, Placed(w))
    /\ UNCHANGED <<logged, data, acked, raced, damaged, begun, trouble>>

WriteBinlog(w) ==
    /\ req[w].pc = "log"
    /\ logged' = logged \cup {req[w].fid}
    /\ surplus' = IF req[w].fid \in logged THEN surplus \cup {Place(w)} ELSE surplus
    /\ Goto(w, "add")
    /\ UNCHANGED <<target, data, acked, fetched, raced, damaged, begun, trouble>>

Add(w) ==
    /\ req[w].pc = "add"
    /\ data' = data \cup {req[w].fid}
    /\ Set(w, [req[w] EXCEPT !.pc = "part", !.done = @ \cup {req[w].fid}])
    /\ UNCHANGED <<target, logged, History, begun, trouble>>

\* The answer, after the only file or the last one of the form.
Reply(w) ==
    /\ req[w].pc = "part"
    /\ req[w].parts = 0
    /\ acked' = acked \cup req[w].done
    /\ Set(w, Idle)
    /\ UNCHANGED <<Disk, fetched, surplus, raced, damaged, begun, trouble>>

\* Any call of a handler may fail: it gives up, and what it did stays done.
Unnamed(ws) == {Place(w) : w \in {v \in ws : req[v].pc = "log"}}

Fail(w) ==
    /\ req[w].pc # "idle"
    /\ Trouble
    /\ Set(w, Idle)
    /\ surplus' = surplus \cup Unnamed({w})
    /\ UNCHANGED <<Disk, acked, fetched, raced, damaged, begun>>

Crash ==
    /\ Trouble
    /\ \E w \in Worker : req[w] # Idle
    /\ req' = [w \in Worker |-> Idle]
    /\ surplus' = surplus \cup Unnamed(Worker)
    /\ UNCHANGED <<Disk, acked, fetched, raced, damaged, begun>>

StoreStep(w) ==
    \/ RegisterDownloadingFile(w)
    \/ Look(w)
    \/ MoveFile(w)
    \/ ReadCount(w)
    \/ WriteCount(w)
    \/ WriteBinlog(w)
    \/ Add(w)
    \/ NextPart(w)
    \/ Reply(w)
    \/ Fail(w)

Next ==
    \/ \E w \in Upload : BeginUpload(w)
    \/ \E w \in Sync : BeginSync(w)
    \/ \E f \in Remote : WatchAdds(f)
    \/ \E w \in Worker : StoreStep(w)
    \/ Crash

Spec == Init /\ [][Next]_vars

-----------------------------------------------------------------------------
(***************************************************************************)
(* Reading.  A file on disk is its content and a tail.  seekRead adds in   *)
(* int64: Wrapped is what is left of a sum.                                *)
(***************************************************************************)
Wrapped(n) == ((n + IntMax + 1) % (2 * IntMax + 2)) - IntMax - 1

NotFound == [found |-> FALSE]

\* Mutant of SeekRead: the tail counts as content.
SeekReadTail(size, offset, length) ==
    LET from == IF offset >= size THEN size ELSE offset
        n    == IF length = -1 \/ Wrapped(from + length) >= size
                THEN size - from ELSE length
    IN  [from |-> from, declared |-> n,
         to |-> IF n > size - from THEN size ELSE from + n]

\* The reader is limited to n bytes, and ends with the file of this size.
SeekRead(size, offset, length) ==
    LET end  == size - Tail
        from == IF offset >= end THEN end ELSE offset
        n    == IF length = -1 \/ Wrapped(from + length) >= end
                THEN end - from ELSE length
    IN  [from |-> from, declared |-> n,
         to |-> IF n > size - from THEN size ELSE from + n]

\* downFileHandler: the bytes from .. to - 1 of the file at the place of f.
Download(f, offset, length) ==
    LET t == target[f.content] IN
    IF ~t.exists THEN NotFound
    ELSE LET r == SeekRead(Length[t.bytes] + Tail, offset, length) IN
         [found |-> TRUE, bytes |-> t.bytes, from |-> r.from, to |-> r.to,
          declared |-> r.declared]

\* httpDownload of the whole file.
HttpDownload(f) ==
    LET t == target[f.content] IN
    IF f \notin data \/ ~t.exists THEN NotFound
    ELSE [found |-> TRUE, bytes |-> t.bytes, from |-> 0, to |-> Length[t.bytes],
          declared |-> Length[t.bytes]]

\* inspectFileHandler answers the size of the file on disk.
Inspect(f) ==
    LET t == target[f.content] IN
    IF t.exists THEN Length[t.bytes] + Tail ELSE -1

-----------------------------------------------------------------------------
(***************************************************************************)
(* What an upload was answered for is there in every later state, through  *)
(* failures, crashes, races of uploads and downloads: the group can learn  *)
(* of it from the binlog, HTTP and TCP serve it, and serve the same, also  *)
(* to who asks for the length that inspect reports, tail included.  Its    *)
(* bytes are the uploaded ones unless a download that was cut replaced     *)
(* them (MoveFile overwrites what another handler placed since Look).      *)
(***************************************************************************)
AckedServed ==
    \A f \in acked :
        /\ f \in logged
        /\ HttpDownload(f).found
        /\ Download(f, 0, -1) = HttpDownload(f)
        /\ Download(f, 0, Inspect(f)) = HttpDownload(f)
        /\ f.content \notin damaged =>
               HttpDownload(f).bytes = f.content

(***************************************************************************)
(* A fileId of this server never gets ahead of its file: who finds it in   *)
(* the binlog, as other members do, can download it, and what the dataset  *)
(* has is in the binlog.                                                   *)
(***************************************************************************)
FileBeforeName ==
    \A f \in Local :
        /\ f \in data => f \in logged
        /\ f \in logged => target[f.content].exists

(***************************************************************************)
(* The reference count in the tail agrees with the fileIds that refer to   *)
(* the file: those of uploads in the binlog, or about to be, and those     *)
(* that were downloaded.  Unless handlers were placing the content at the  *)
(* same time ("must add lock", common_tcp_handler.go:125) it is not below  *)
(* them, so that the file outlives every fileId; and it is not above them  *)
(* but for what the code does count and never takes back: an upload that   *)
(* fails between its file and its binlog, and a second upload or download  *)
(* under one fileId.  (A record of another member whose file is there      *)
(* already is not counted: syncFile returns before.)                       *)
(***************************************************************************)
Referring(c) == {f \in (logged \cap Local) \cup fetched : f.content = c}
Underway(c)  == {w \in Worker : req[w].pc = "log" /\ Place(w) = c}
Refs(c)      == Cardinality(Referring(c)) + Cardinality(Underway(c))

CountSound ==
    \A c \in Content :
        /\ c \notin raced => Refs(c) <= target[c].count
        /\ c \notin surplus => target[c].count <= Refs(c)

(***************************************************************************)
(* A range that can be added up without overflow is served as the slice it *)
(* names, cut off at the end of the content, for every offset: never a     *)
(* byte of the tail, and as many bytes as the answer declares.             *)
(***************************************************************************)
Least(a, b) == IF a < b THEN a ELSE b

RangeServed ==
    \A f \in acked, offset \in 0 .. IntMax, length \in -1 .. IntMax :
        LET r    == Download(f, offset, length)
            all  == Length[target[f.content].bytes]
            from == Least(offset, all)
        IN  from + length <= IntMax =>
                /\ r.from = from
                /\ r.to = IF length = -1 THEN all ELSE Least(from + length, all)
                /\ r.declared = r.to - r.from
=============================================================================
