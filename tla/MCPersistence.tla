--------------------------- MODULE MCPersistence ---------------------------
(* Two clients, each writing a key of its own. *)
EXTENDS Persistence

OwnKeys ==
  [p \in Client |->
     IF p = "c1" THEN {[key |-> "a", op |-> op] : op \in {"incr", "del"}}
     ELSE {[key |-> "b", op |-> op] : op \in {"incr", "get"}}]

Config(log, policy, snapshots) == [aof |-> log, fsync |-> policy, rdb |-> snapshots]

LogOrSnapshots ==
  {Config(TRUE, "always", FALSE), Config(TRUE, "everysec", FALSE), Config(FALSE, "no", TRUE)}

(* Snapshots only at first, and the append-only file beside them later. *)
LogAddedLater == {Config(FALSE, "no", TRUE), Config(TRUE, "everysec", TRUE)}

(* No log, or one that ends in a cut record: the next one is an element of  *)
(* it, or the head of the next one completes the name.                     *)
OldLogs ==
  {NoFile} \cup
  {<<[key |-> "a", op |-> "incr"], cut>> :
     cut \in {[after |-> 2, rest |-> "none"], [after |-> 1, rest |-> "joins", op |-> "incr"]}}
=============================================================================
