---------------------------- MODULE Persistence ----------------------------
(***************************************************************************)
(* The life of a write beyond the store: the connection task sends it to   *)
(* the channel of the append-only file before it executes it, a task moves *)
(* it to the file, another one syncs the file, a third saves snapshots,    *)
(* and the server is interrupted or killed, configured anew and restarted. *)
(*                                                                         *)
(* A stored value is a number, a record of the file is a command.  Bound:  *)
(* one save runs at a time.                                                *)
(***************************************************************************)
EXTENDS Integers, Sequences

CONSTANTS Client, Key,
          Stray,       \* the name a key that was cut in two is read as
          Commands,    \* the commands each client may send
          Configs,     \* the PersistenceConfigs the server is started with
          NoFile,      \* stands for a file that is missing
          Logs,        \* the logs that may have been left from before
          MaxSent      \* bound on the number of commands ever sent

ASSUME CommandsAssumption ==
  Commands \in [Client -> SUBSET [key: Key, op: {"incr", "del", "get"}]]
ASSUME ConfigsAssumption ==
  Configs \subseteq [aof: BOOLEAN, fsync: {"always", "everysec", "no"}, rdb: BOOLEAN]
ASSUME BoundAssumption == MaxSent \in Nat
ASSUME StrayAssumption == Stray \notin Key

VARIABLES stage,     \* what Server::run is doing
          cfg,       \* the configuration of this run
          kv,        \* the store
          pc, cmd,   \* the command each connection task is running
          channel,   \* commands sent to the AOF task
          current,   \* what the AOF task is doing with the command it took
          aof,       \* the records of the append-only file, NoFile if missing
          synced,    \* how many of them sync_all has covered
          rdb,       \* the store in the RDB file, NoFile if missing
          saving,    \* the save under way, its copy and the keys left to copy
          dirty,     \* dirty_counter
          failed,    \* the last sync_all was an error

          (* history, for bounds and properties *)
          sent,      \* the number of commands sent
          fresh,     \* this run has created the log
          logged,    \* what the last log loaded and all writes logged since give
          past,      \* what it and the first so many of them give
          thinned,   \* what it and some of them, in their order, give
          broken,    \* it was not read to its end, or an append failed since
          window,    \* the stores there were during the save under way
          kept       \* the stores there were during the save in the RDB file

server  == <<stage, cfg>>
clients == <<kv, pc, cmd>>
writer  == <<channel, current, aof, synced, failed>>
saver   == <<rdb, saving, dirty, window, kept>>
history == <<logged, past, thinned, broken>>
vars    == <<server, clients, writer, saver, history, sent, fresh>>

-----------------------------------------------------------------------------
Names   == Key \cup {Stray}
Store   == [Names -> Nat]
Nothing == [k \in Names |-> 0]     \* 0: the key is not there

NoSave == [by |-> "nobody", kv |-> Nothing, left |-> {}]
Off    == [aof |-> FALSE, fsync |-> "no", rdb |-> FALSE]  \* PersistenceConfig::disabled
NoTask == [at |-> "recv", record |-> <<>>]
NoCommand == [key |-> Stray, op |-> "none"]

(* A record has three tokens: the head of an array, the name and the key.   *)
(* Of one that was cut the first `after` are there, and of the next one    *)
(* nothing; or so much that the head of what is written behind it, "*2",   *)
(* is just what is missing; or a part which that does not complete.        *)
Entry  == [key: Key, op: {"incr", "del"}]
Cut    == [after: {0, 1}, rest: {"breaks"}] \cup [after: {1, 2}, rest: {"none"}]
          \cup [after: {1, 2}, rest: {"joins"}, op: {"incr", "del"}]
Record == Entry \cup Cut
CutsOf(c) == {r \in Cut : r.rest = "joins" => r.op = c.op}

ASSUME NoFileAssumption == NoFile \notin Seq(Record)
ASSUME LogsAssumption == Logs \subseteq Seq(Record) \cup {NoFile}

Apply(store, c) ==
  CASE c.op = "incr" -> [store EXCEPT ![c.key] = @ + 1]
    [] c.op = "del"  -> [store EXCEPT ![c.key] = 0]
    [] OTHER         -> store

-----------------------------------------------------------------------------
(* The loop of replay and its decoder: what was executed, how many elements *)
(* the value being decoded still wants (they may be arrays, and may want    *)
(* elements), the string whose last bytes are to come, and whether the     *)
(* loop is still running.                                                  *)
Reader == [kv: Store, open: Nat, waits: {"no", "string", "incr", "del"}, ok: BOOLEAN]

Tokens(r) == IF r \in Entry THEN 3 ELSE r.after
Rest(r)  == IF r \in Entry THEN "none" ELSE r.rest

(* The head of a record ends the string that waits, or is itself an element *)
(* and wants two; the strings behind it are elements, or ignored.          *)
Wanted(s, r) ==
  LET open == IF s.waits # "no" THEN s.open - 1
              ELSE IF s.open > 0 THEN s.open + 1 ELSE 2
  IN  IF open > Tokens(r) - 1 THEN open - (Tokens(r) - 1) ELSE 0

(* A whole command is executed, and one whose key is a string that waited;  *)
(* Command::try_from rejects whatever has an array for an argument.        *)
Executed(s, r) ==
  CASE s.waits \in {"incr", "del"} -> Apply(s.kv, [key |-> Stray, op |-> s.waits])
    [] s.open = 0 /\ r \in Entry  -> Apply(s.kv, r)
    [] OTHER                       -> s.kv

Read(s, r) ==
  IF ~s.ok \/ Tokens(r) = 0 THEN [s EXCEPT !.ok = FALSE]
  ELSE [kv    |-> Executed(s, r),
        open  |-> IF Wanted(s, r) = 0 /\ Rest(r) = "joins" THEN 1 ELSE Wanted(s, r),
        waits |-> CASE Rest(r) # "joins" -> "no"
                    [] Rest(r) = "joins" /\ r.after = 2 /\ s.open = 0 -> r.op
                    [] OTHER -> "string",
        ok    |-> Rest(r) # "breaks"]

After(store, records) ==
  LET after[i \in 0 .. Len(records)] ==
        IF i = 0 THEN [kv |-> store, open |-> 0, waits |-> "no", ok |-> TRUE]
        ELSE Read(after[i - 1], records[i])
  IN  after

ReplayOn(store, records) == After(store, records)[Len(records)].kv
Replay(records) == ReplayOn(Nothing, records)

(* The reader is where a record may begin. *)
AtRest(s) == s.ok /\ s.open = 0

Records == IF aof = NoFile THEN <<>> ELSE aof

(* Everything on its way to the file, in the order it was sent. *)
Pending == Records \o current.record \o channel

Init ==
  /\ stage = "down" /\ cfg = Off
  /\ kv = Nothing
  /\ pc = [p \in Client |-> "idle"]
  /\ cmd = [p \in Client |-> NoCommand]
  /\ channel = <<>> /\ current = NoTask
  /\ aof \in Logs /\ synced = 0 /\ failed = FALSE
  /\ rdb = NoFile /\ saving = NoSave /\ dirty = 0 /\ window = {} /\ kept = {}
  /\ logged = Replay(Records) /\ past = {logged} /\ thinned = {logged}
  /\ broken = ~AtRest(After(Nothing, Records)[Len(Records)])
  /\ sent = 0 /\ fresh = FALSE

-----------------------------------------------------------------------------
(* sync_all, whose errors are logged and passed over *)
SyncAll ==
  \/ synced' = Len(aof) /\ failed' = FALSE
  \/ synced' = synced /\ failed' = TRUE

(* PersistenceManager::new opens the file for appending, and creates it. *)
Start ==
  /\ stage = "down" /\ stage' = "load"
  /\ cfg' \in Configs
  /\ fresh' = (aof = NoFile)
  /\ aof' = IF cfg'.aof THEN Records ELSE aof
  /\ UNCHANGED <<clients, channel, current, synced, failed, saver, history, sent>>

(* load_on_startup: where there is a log, nobody looks at the snapshot. *)
LoadBoth ==     \* bug: the log is replayed on top of the snapshot
  IF cfg.aof THEN ReplayOn(IF rdb = NoFile THEN Nothing ELSE rdb, aof)
  ELSE IF rdb = NoFile THEN Nothing ELSE rdb
Loaded ==
  IF cfg.aof /\ aof # NoFile THEN Replay(aof)
  ELSE IF cfg.rdb /\ rdb # NoFile THEN rdb
  ELSE Nothing

Load ==
  /\ stage = "load" /\ stage' = "run"
  /\ kv' = Loaded
  /\ fresh' = FALSE
  /\ IF cfg.aof
     THEN /\ logged' = kv' /\ past' = {kv'} /\ thinned' = {kv'}
          /\ broken' = ~AtRest(After(Nothing, aof)[Len(aof)])
     ELSE UNCHANGED history
  /\ UNCHANGED <<cfg, pc, cmd, writer, saver, sent>>

(* ctrl_c leaves the accept loop and calls PersistenceManager::shutdown:    *)
(* a last fsync, a last save, and a second of sleep during which all tasks *)
(* go on.                                                                  *)
Interrupt ==
  /\ stage = "run"
  /\ stage' = IF cfg.rdb THEN "last_save" ELSE "linger"
  /\ IF cfg.aof THEN SyncAll ELSE UNCHANGED <<synced, failed>>
  /\ UNCHANGED <<cfg, clients, channel, current, aof, saver, history, sent, fresh>>

(* The process ends.  The record being written may be cut in two. *)
Stop ==
  /\ stage' = "down"
  /\ kv' = Nothing
  /\ pc' = [p \in Client |-> "idle"]
  /\ cmd' = [p \in Client |-> NoCommand]
  /\ channel' = <<>> /\ current' = NoTask
  /\ \/ UNCHANGED aof
     \/ current.at = "write" /\ \E r \in CutsOf(Head(current.record)) : aof' = Append(aof, r)
  /\ saving' = NoSave /\ window' = {} /\ dirty' = 0
  /\ failed' = FALSE /\ fresh' = FALSE /\ cfg' = Off
  /\ UNCHANGED <<synced, rdb, kept, history, sent>>

Exit == stage = "linger" /\ Stop
Kill == stage # "down" /\ Stop

-----------------------------------------------------------------------------
ShouldLogSome(c) == c.op = "incr"     \* bug: DEL taken for a reader
ShouldLogAll(c) == c.op \in {"incr", "del", "get"}    \* bug: readers too
ShouldLog(c) == c.op # "get"

(* handle_connection: a write is sent to the channel and counted... *)
Log(p) ==
  /\ stage \notin {"down", "load"}
  /\ pc[p] = "idle" /\ sent < MaxSent
  /\ \E c \in Commands[p] :
       /\ cmd' = [cmd EXCEPT ![p] = c]
       /\ dirty' = IF (cfg.aof \/ cfg.rdb) /\ ShouldLog(c) THEN dirty + 1 ELSE dirty
       /\ IF cfg.aof /\ ShouldLog(c)
          THEN /\ channel' = Append(channel, c)
               /\ logged' = Apply(logged, c)
               /\ past' = past \cup {logged'}
               /\ thinned' = thinned \cup {Apply(s, c) : s \in thinned}
          ELSE UNCHANGED <<channel, logged, past, thinned>>
  /\ pc' = [pc EXCEPT ![p] = "execute"]
  /\ sent' = sent + 1
  /\ UNCHANGED <<server, kv, current, aof, synced, failed, rdb, saving, window, kept, broken, fresh>>

(* ... and then executed *)
Execute(p) ==
  /\ pc[p] = "execute"
  /\ kv' = Apply(kv, cmd[p])
  /\ window' = IF saving.by = "nobody" THEN {} ELSE window \cup {kv'}
  /\ pc' = [pc EXCEPT ![p] = "idle"]
  /\ cmd' = [cmd EXCEPT ![p] = NoCommand]
  /\ UNCHANGED <<server, writer, rdb, saving, dirty, kept, history, sent, fresh>>

-----------------------------------------------------------------------------
(* start_aof_processor: recv, append, and with "always" sync_all *)
Take ==
  /\ current.at = "recv" /\ channel # <<>>
  /\ current' = [at |-> "write", record |-> <<Head(channel)>>]
  /\ channel' = Tail(channel)
  /\ UNCHANGED <<server, clients, aof, synced, failed, saver, history, sent, fresh>>

Write ==
  /\ current.at = "write"
  /\ aof' = aof \o current.record
  /\ current' = [at |-> IF cfg.fsync = "always" THEN "sync" ELSE "recv", record |-> <<>>]
  /\ UNCHANGED <<server, clients, channel, synced, failed, saver, history, sent, fresh>>

(* An error is logged, and the task goes on with the next command. *)
WriteFails ==
  /\ current.at = "write"
  /\ aof' \in {aof} \cup {Append(aof, r) : r \in CutsOf(Head(current.record))}
  /\ current' = NoTask
  /\ broken' = TRUE
  /\ UNCHANGED <<server, clients, channel, synced, failed, saver, logged, past, thinned, sent, fresh>>

SyncEach ==
  /\ current.at = "sync"
  /\ SyncAll
  /\ current' = NoTask
  /\ UNCHANGED <<server, clients, channel, aof, saver, history, sent, fresh>>

(* start_aof_fsync, started once the data is loaded *)
NoTimer == FALSE     \* bug: the task is not started
Timer == cfg.aof /\ cfg.fsync = "everysec"

SyncTimer ==
  /\ stage \notin {"down", "load"} /\ Timer
  /\ SyncAll
  /\ UNCHANGED <<server, clients, channel, current, aof, saver, history, sent, fresh>>

-----------------------------------------------------------------------------
(* The autosave task finds enough changes; shutdown saves whatever it finds. *)
SaveBegin(by) ==
  /\ cfg.rdb /\ saving.by = "nobody"
  /\ CASE by = "autosave" -> stage \notin {"down", "load"} /\ dirty > 0
       [] by = "shutdown" -> stage = "last_save"
  /\ saving' = [by |-> by, kv |-> Nothing, left |-> Names]
  /\ window' = {kv}
  /\ UNCHANGED <<server, clients, writer, rdb, dirty, kept, history, sent, fresh>>

(* Store::snapshot walks the map while commands run. *)
Copy(k) ==
  /\ k \in saving.left
  /\ saving' = [by |-> saving.by, kv |-> [saving.kv EXCEPT ![k] = kv[k]], left |-> saving.left \ {k}]
  /\ UNCHANGED <<server, clients, writer, rdb, dirty, window, kept, history, sent, fresh>>

(* rename, and the counter starts anew; or an error is logged *)
SaveEnd ==
  /\ saving.by # "nobody" /\ saving.left = {}
  /\ \/ rdb' = saving.kv /\ kept' = window /\ dirty' = 0
     \/ UNCHANGED <<rdb, kept, dirty>>
  /\ stage' = IF saving.by = "shutdown" THEN "linger" ELSE stage
  /\ saving' = NoSave /\ window' = {}
  /\ UNCHANGED <<cfg, clients, writer, history, sent, fresh>>

-----------------------------------------------------------------------------
Next ==
  \/ Start \/ Load \/ Interrupt \/ Exit \/ Kill
  \/ \E p \in Client : Log(p) \/ Execute(p)
  \/ Take \/ Write \/ WriteFails \/ SyncEach \/ SyncTimer
  \/ \E by \in {"autosave", "shutdown"} : SaveBegin(by)
  \/ \E k \in Names : Copy(k)
  \/ SaveEnd

(* The AOF task and the timer run as long as the server does, whatever      *)
(* comes of what they try; clients send what they like, and nothing has to *)
(* be saved, stopped or started.                                           *)
Fairness == WF_vars(Take) /\ WF_vars(Write \/ WriteFails) /\ WF_vars(SyncEach)
            /\ WF_vars(SyncTimer)

Spec == Init /\ [][Next]_vars /\ Fairness

-----------------------------------------------------------------------------
TypeOK ==
  /\ stage \in {"down", "load", "run", "last_save", "linger"}
  /\ cfg \in Configs \cup {Off}
  /\ kv \in Store
  /\ pc \in [Client -> {"idle", "execute"}]
  /\ \A p \in Client : cmd[p] \in Commands[p] \cup {NoCommand}
  /\ channel \in Seq(Entry)
  /\ current.at \in {"recv", "write", "sync"} /\ current.record \in Seq(Entry)
  /\ aof = NoFile \/ aof \in Seq(Record)
  /\ synced \in 0 .. Len(Records) /\ failed \in BOOLEAN
  /\ rdb = NoFile \/ rdb \in Store
  /\ saving \in [by: {"nobody", "autosave", "shutdown"}, kv: Store, left: SUBSET Names]
  /\ dirty \in Nat /\ sent \in 0 .. MaxSent

(* Where the log was read to its end, and no append failed since, it and    *)
(* what is on its way to it replay to the store the server has, over any   *)
(* number of kills and restarts, cut records that swallowed others         *)
(* included: whenever no command is between its logging and its execution  *)
(* and the clients write keys of their own.                                *)
ReplayRestores ==
  stage \notin {"down", "load"} /\ cfg.aof /\ ~broken /\ (\A p \in Client : pc[p] = "idle")
  => Replay(Pending) = kv

(* A restart loses only the end.  Loaded from the log: what the log last    *)
(* gave, and of the writes logged since the first so many.  If the end of   *)
(* the log could not be read then, or an append failed since, some of      *)
(* them: a cut record and a hole cost writes logged since, of any age, but *)
(* nothing that was loaded before, and they reorder and repeat nothing.    *)
(* (A key of no client is left out: a cut key may be taken for one.)       *)
(* Loaded from a snapshot: each key as it was at some time of that save.   *)
RecoveryIsPast ==
  [][stage = "load" /\ stage' = "run" =>
       /\ cfg.aof /\ ~broken => kv' \in past
       /\ cfg.aof => \E s \in thinned : \A k \in Key : kv'[k] = s[k]
       /\ ~cfg.aof /\ cfg.rdb /\ rdb # NoFile => \A k \in Names : \E s \in kept : kv'[k] = s[k]]_vars

(* With "always" or "everysec", whatever is on its way to the file is on    *)
(* disk some day, unless the server stops, a failed write leaves a hole or  *)
(* a cut record, or sync_all fails, and no later one succeeds: "everysec"   *)
(* tries again every second, "always" only if some client writes again.    *)
(* (What an earlier run left unsynced waits for a write under "always".)   *)
WritesReachTheDisk ==
  \/ \A n \in 1 .. MaxSent :
       (stage = "run" /\ cfg.aof /\ cfg.fsync # "no" /\ n \in Len(Records) + 1 .. Len(Pending))
         ~> (synced >= n \/ stage # "run" \/ n > Len(Pending) \/ Pending[n] \in Cut)
  \/ <>[]failed

(* TRADEOFFS.md: "RDB acts as a fallback when AOF is disabled or missing." *)
RdbIsTheFallback ==
  [][stage = "load" /\ stage' = "run" /\ cfg.rdb /\ rdb # NoFile /\ (~cfg.aof \/ fresh)
       => kv' = rdb]_vars
=============================================================================
