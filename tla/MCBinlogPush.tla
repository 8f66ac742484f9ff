----------------------------- MODULE MCBinlogPush ---------------------------
(***************************************************************************)
(* Small instances of BinlogPush for TLC, and what the repository says of  *)
(* it that does not hold.                                                  *)
(***************************************************************************)
EXTENDS BinlogPush

(***************************************************************************)
(* "syncStorageBinLog saves storage server binlog" (tracker_tcp_handler.go *)
(* :151): the tracker knows every record it answered SUCCESS for.          *)
(***************************************************************************)
TrackerComplete == \A t \in Tracker : acked[t] \subseteq dataset[t]
=============================================================================
