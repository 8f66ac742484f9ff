------------------------------- MODULE LogFeed ------------------------------
(***************************************************************************)
(* What a binlog manager promises to the readers of its files: the tracker *)
(* pusher (binlog_pusher.go), the SyncBinlog handler of a storage server   *)
(* and the retry loop of the file synchronizer.                            *)
(*                                                                         *)
(* Readers see numbered files of complete lines and the index that         *)
(* GetCurrentIndex returns.  File indexes are those of the code, 0, 1, ... *)
(* and files[i + 1] holds the lines of the file of index i.  Three things  *)
(* happen to them: the manager appends a line to the last file, it opens   *)
(* the last file or a new one for writing, or the process restarts.        *)
(***************************************************************************)
EXTENDS BinlogFormat

VARIABLES
    files,    \* files[i + 1]: the complete lines of the file of index i
    cur       \* what GetCurrentIndex returns

feedVars == <<files, cur>>

Last == Len(files) - 1      \* index of the newest file

FeedTypeOK ==
    /\ files \in Seq(Seq(Line))
    /\ files # <<>>
    /\ cur \in Nat

(***************************************************************************)
(* After the first boot: TryFixBinlogFile has created the first file and   *)
(* put a newline in it.                                                    *)
(***************************************************************************)
FeedInit ==
    /\ files = << <<Skip>> >>
    /\ cur = 0

\* Part of a Write: one more complete line in the file opened for writing,
\* which is the newest file.
AppendLine(l) ==
    /\ cur = Last
    /\ files' = [files EXCEPT ![Len(files)] = Append(@, l)]
    /\ UNCHANGED cur

\* A Write opens the newest file: from now on GetCurrentIndex names it.
OpenLast ==
    /\ cur' = Last
    /\ UNCHANGED files

\* A Write creates a file because the newest one is full.
Roll ==
    /\ files' = Append(files, <<>>)
    /\ cur' = Len(files)

(***************************************************************************)
(* A restart.  GetCurrentIndex is zero until the first Write.              *)
(* TryFixBinlogFile ends the line a torn append left, or puts an empty     *)
(* line in the newest file, or in a new one when that file is full; it may *)
(* also fail before it creates the file or before it writes the newline.   *)
(***************************************************************************)
RebootFix(l) ==
    /\ files' = [files EXCEPT ![Len(files)] = Append(@, l)]
    /\ cur' = 0

RebootRoll(ls) ==
    /\ files' = Append(files, ls)
    /\ cur' = 0

RebootOnly ==
    /\ cur' = 0
    /\ UNCHANGED files

Reboot ==
    \/ \E l \in Line : RebootFix(l)
    \/ \E ls \in {<<>>, <<Skip>>} : RebootRoll(ls)
    \/ RebootOnly

FeedNext ==
    \/ \E l \in Line : AppendLine(l)
    \/ OpenLast
    \/ Roll
    \/ Reboot

FeedSpec == FeedInit /\ [][FeedNext]_feedVars
=============================================================================
