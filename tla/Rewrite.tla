------------------------------ MODULE Rewrite ------------------------------
(***************************************************************************)
(* Rewriting the append-only file while the server runs: the keys are      *)
(* listed and copied one at a time into a temporary file, which is renamed *)
(* over the log that the AOF task has open.  Rewrites fail and leave their *)
(* file behind; the process is killed and started again.                   *)
(*                                                                         *)
(* PersistenceManager::rewrite_aof is for whoever holds the manager; no    *)
(* command calls it.  A value is the serial number of the SET that wrote   *)
(* it.  Every key has a client of its own: two that share one may execute  *)
(* in another order than they logged.  Records are whole (Persistence cuts *)
(* them), deadlines are left out (Encodings has them).  Bound: one rewrite *)
(* runs at a time.                                                         *)
(***************************************************************************)
EXTENDS Integers, Sequences, FiniteSets

CONSTANTS Key,
          MaxWrites,     \* bound on the commands ever sent
          MaxRewrites,   \* bound on the rewrites ever begun
          NoFile         \* a name that no file has

ASSUME BoundsAssumption == MaxWrites \in Nat /\ MaxRewrites \in Nat
ASSUME NoFileAssumption == NoFile \notin Nat

VARIABLES stage,             \* the process is down or runs
          data,              \* StoreInner.data
          pending,           \* the write each connection task has logged
          channel,           \* records sent to the AOF task
          writer,            \* the file that AofWriter has open
          aof, temp,         \* the files under the two names
          content,           \* the records of every file
          rw,                \* the rewrite under way
          writes, rewrites,  \* history, for bounds
          fresh, stale,      \* history: the rewrite began with an empty file;
                             \* the keys that have changed since it passed them
          clean, missed      \* the same of the file that was renamed last

store   == <<data, pending, channel>>
files   == <<writer, aof, temp, content>>
counts  == <<writes, rewrites>>
history == <<fresh, stale, clean, missed>>
vars    == <<stage, store, files, rw, counts, history>>

File == 1 .. 3           \* two names, and the one that lost its name

Absent == 0
NoWrite == -1
Empty == [k \in Key |-> Absent]
Nobody == [k \in Key |-> NoWrite]
Idle == [at |-> "idle", todo |-> {}, found |-> {}]

(* A SET of a value, or a DEL. *)
Rec(k, v) == [key |-> k, val |-> v]

Init ==
  /\ stage = "down"
  /\ data = Empty /\ pending = Nobody /\ channel = <<>>
  /\ writer = NoFile /\ aof = NoFile /\ temp = NoFile
  /\ content = [f \in File |-> <<>>]
  /\ rw = Idle
  /\ writes = 0 /\ rewrites = 0
  /\ fresh = TRUE /\ stale = {} /\ clean = TRUE /\ missed = {}

-----------------------------------------------------------------------------
(* replay executes every record: each key has the value of its last one. *)
Names(records, k) == \E i \in 1 .. Len(records) : records[i].key = k

Leaves(records, k, v) ==
  \/ v = Absent /\ ~Names(records, k)
  \/ \E i \in 1 .. Len(records) :
       records[i] = Rec(k, v) /\ \A j \in i + 1 .. Len(records) : records[j].key # k

Replays(records) == {d \in [Key -> 0 .. writes] : \A k \in Key : Leaves(records, k, d[k])}

(* A file that has neither a name nor a descriptor is gone. *)
Reaped(kept) == content' = [f \in File |-> IF f \in kept THEN content[f] ELSE <<>>]

Unnamed == CHOOSE f \in File : f \notin {aof, temp, writer}

(* PersistenceManager::new opens the log, and creates it if it is missing;   *)
(* then load_on_startup replays it.                                        *)
Uncreated == aof     \* bug: create(true) is missing
OpenedLog == IF aof = NoFile THEN Unnamed ELSE aof

Start ==
  /\ stage = "down" /\ stage' = "run"
  /\ writer' = OpenedLog /\ aof' = OpenedLog
  /\ data' \in Replays(IF aof = NoFile THEN <<>> ELSE content[aof])
  /\ clean' = TRUE /\ missed' = {}
  /\ UNCHANGED <<pending, channel, temp, content, rw, counts, fresh, stale>>

(* The process ends, orderly or not. *)
Kill ==
  /\ stage = "run" /\ stage' = "down"
  /\ data' = Empty /\ pending' = Nobody /\ channel' = <<>>
  /\ writer' = NoFile /\ rw' = Idle
  /\ Reaped({aof, temp})
  /\ UNCHANGED <<aof, temp, counts, history>>

-----------------------------------------------------------------------------
(* handle_connection: a write is sent to the channel... *)
Log(k) ==
  /\ stage = "run" /\ pending[k] = NoWrite /\ writes < MaxWrites
  /\ \E v \in {Absent, writes + 1} :
       /\ pending' = [pending EXCEPT ![k] = v]
       /\ channel' = Append(channel, Rec(k, v))
  /\ writes' = writes + 1
  /\ UNCHANGED <<stage, data, files, rw, rewrites, history>>

(* What a rewrite has still to look at *)
Ahead == rw.todo \cup rw.found

(* ... and executed. *)
Execute(k) ==
  /\ pending[k] # NoWrite
  /\ data' = [data EXCEPT ![k] = pending[k]]
  /\ pending' = [pending EXCEPT ![k] = NoWrite]
  /\ stale' = IF k \in Ahead THEN stale ELSE stale \cup {k}
  /\ missed' = IF writer = aof THEN missed ELSE missed \cup {k}
  /\ UNCHANGED <<stage, channel, files, rw, counts, fresh, clean>>

(* start_aof_processor: append, to the file that was opened at the start *)
Write ==
  /\ channel # <<>>
  /\ content' = [content EXCEPT ![writer] = Append(@, Head(channel))]
  /\ channel' = Tail(channel)
  /\ UNCHANGED <<stage, data, pending, writer, aof, temp, rw, counts, history>>

-----------------------------------------------------------------------------
(* rewrite_aof: AofWriter::new opens the temporary file for appending, with  *)
(* what an earlier rewrite left in it.                                     *)
TempFile == IF temp = NoFile THEN Unnamed ELSE temp

Begin ==
  /\ stage = "run" /\ rw = Idle /\ rewrites < MaxRewrites
  /\ temp' = TempFile
  /\ rw' = [Idle EXCEPT !.at = "list", !.todo = Key]
  /\ rewrites' = rewrites + 1
  /\ fresh' = (content[TempFile] = <<>>) /\ stale' = {}
  /\ UNCHANGED <<stage, store, writer, aof, content, writes, clean, missed>>

(* keys: the map is listed shard by shard while commands run. *)
List ==
  /\ rw.at = "list"
  /\ \E k \in rw.todo :
       rw' = [at    |-> IF rw.todo = {k} THEN "copy" ELSE "list",
              todo  |-> rw.todo \ {k},
              found |-> IF data[k] = Absent THEN rw.found ELSE rw.found \cup {k}]
  /\ UNCHANGED <<stage, store, files, counts, history>>

(* get_for_restore: a key that is gone by now is passed over. *)
Commands(k) == IF data[k] = Absent THEN <<>> ELSE <<Rec(k, data[k])>>

Copy ==
  /\ rw.at = "copy"
  /\ \E k \in rw.found :
       /\ content' = [content EXCEPT ![temp] = @ \o Commands(k)]
       /\ rw' = [rw EXCEPT !.found = @ \ {k}]
  /\ UNCHANGED <<stage, store, writer, aof, temp, counts, history>>

(* rename replaces the log; the AOF task keeps the file it has open. *)
NearlyCopied == Cardinality(rw.found) <= 1     \* bug: renamed one key early
Copied == rw.found = {}

Rename ==
  /\ rw.at = "copy" /\ Copied
  /\ aof' = temp /\ temp' = NoFile
  /\ Reaped({temp, writer})
  /\ rw' = Idle
  /\ clean' = fresh /\ missed' = stale
  /\ UNCHANGED <<stage, store, writer, counts, fresh, stale>>

(* Any write, the sync or the rename may fail: the temporary file stays. *)
Fail ==
  /\ rw # Idle
  /\ rw' = Idle
  /\ UNCHANGED <<stage, store, files, counts, history>>

Next ==
  \/ Start \/ Kill
  \/ \E k \in Key : Log(k) \/ Execute(k)
  \/ Write \/ Begin \/ List \/ Copy \/ Rename \/ Fail

Spec == Init /\ [][Next]_vars

-----------------------------------------------------------------------------
Values == 0 .. MaxWrites
Record == [key: Key, val: Values]

TypeOK ==
  /\ stage \in {"down", "run"}
  /\ data \in [Key -> Values] /\ pending \in [Key -> Values \cup {NoWrite}]
  /\ channel \in Seq(Record)
  /\ {writer, aof, temp} \subseteq File \cup {NoFile}
  /\ stage = "run" => writer \in File /\ aof \in File
  /\ content \in [File -> Seq(Record)]
  /\ rw \in [at: {"idle", "list", "copy"}, todo: SUBSET Key, found: SUBSET Key]
  /\ rw # Idle => temp \in File /\ stage = "run"
  /\ writes \in 0 .. MaxWrites /\ rewrites \in 0 .. MaxRewrites
  /\ fresh \in BOOLEAN /\ clean \in BOOLEAN /\ {stale, missed} \subseteq SUBSET Key

(* Nothing of the key is logged and not executed, or sent and not written. *)
Settled(k) == pending[k] = NoWrite /\ ~Names(channel, k)

(* What survives a rewrite.  The log under its name, rewritten or not, has   *)
(* the value of every key, except the keys that changed after the rewrite  *)
(* had passed them or after its rename, until the process starts again;    *)
(* and nothing is said of a rewrite that began with the rest of another.   *)
SettledKeysAreLogged ==
  stage = "run" /\ clean =>
    \A k \in Key \ missed : Settled(k) => Leaves(content[aof], k, data[k])
=============================================================================
