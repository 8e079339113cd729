------------------------------ MODULE Snapshot ------------------------------
(***************************************************************************)
(* Saving the store to the RDB file while clients write to it: the copy of *)
(* the two maps key by key, the temporary file that the autosave task and  *)
(* the final save of a shutdown share, the rename, the dirty counter, and  *)
(* what a restart loads.  A value is the serial number of the SET that     *)
(* wrote it.  A file that two savers write at the same time is torn: what  *)
(* it holds is any mixture.  The process may be killed, the machine does   *)
(* not crash.                                                              *)
(***************************************************************************)
EXTENDS Integers, Sequences

CONSTANTS Client, Key,
          Changes,     \* rdb_save_conditions: changes that make autosave save
          MaxWrites,   \* bound on the commands ever sent
          MaxTime,     \* bound on the clock
          NoFile       \* a name that no file has

ASSUME ChangesAssumption == Changes \in Nat \ {0}
ASSUME BoundAssumption == MaxWrites \in Nat /\ MaxTime \in Nat
ASSUME NoFileAssumption == NoFile \notin Nat

VARIABLES stage,             \* what Server::run is doing
          now,               \* Instant::now(), and the wall clock
          data, ttl,         \* StoreInner.data and .expirations
          pc, cmd,           \* what each connection task is running
          dirty, failed,     \* dirty_counter; rdb_last_save_status is an error
          save,              \* the save each saver is at
          temp, dump,        \* the file under either name
          content,           \* the cells of every file
          writes, clean, missed    \* history, for bounds and properties

store   == <<data, ttl>>
clients == <<pc, cmd>>
stats   == <<dirty, failed>>
files   == <<temp, dump, content>>
history == <<writes, clean, missed>>
vars    == <<stage, now, store, clients, stats, save, files, history>>

Savers == {"autosave", "shutdown"}
File == 1 .. 3           \* two names, and what another saver still writes

NoTtl  == -1
Absent == 0
Empty  == [k \in Key |-> Absent]
NoTtls == [k \in Key |-> NoTtl]
NoCmd  == [key |-> "none", op |-> "none"]

Magic == [t |-> "magic"]
Eof   == [t |-> "eof"]
Torn  == [t |-> "torn"]     \* the bytes of two savers, in any mixture
Entry(k, v, d) == [t |-> "entry", key |-> k, val |-> v, ttl |-> d]

Idle == [at |-> "idle", file |-> NoFile, todo |-> {},
         data |-> Empty, ttl |-> NoTtls, alone |-> FALSE, touched |-> {}]

Init ==
  /\ stage = "down" /\ now = 0
  /\ data = Empty /\ ttl = NoTtls
  /\ pc = [p \in Client |-> "idle"] /\ cmd = [p \in Client |-> NoCmd]
  /\ dirty = 0 /\ failed = FALSE
  /\ save = [s \in Savers |-> Idle]
  /\ temp = NoFile /\ dump = NoFile /\ content = [f \in File |-> <<>>]
  /\ writes = 0 /\ clean = TRUE /\ missed = {}

Expired(d) == d # NoTtl /\ d <= now

-----------------------------------------------------------------------------
(* load_from_file: the entries up to the end marker, or to the end of the   *)
(* file; one whose deadline has passed is left out.                        *)
Entries(cells) ==
  {i \in DOMAIN cells : cells[i].t = "entry" /\ \A j \in 1 .. i : cells[j] # Eof}

Live(cells, k) ==
  {i \in Entries(cells) : cells[i].key = k /\ ~Expired(cells[i].ttl)}

(* Insertions in the order of the file: the last one for a key stays. *)
Latest(is) == CHOOSE i \in is : \A j \in is : j <= i

Restored(cells) ==
  LET Dated(k) == {i \in Live(cells, k) : cells[i].ttl # NoTtl}
  IN  [data |-> [k \in Key |-> IF Live(cells, k) = {} THEN Absent
                               ELSE cells[Latest(Live(cells, k))].val],
       ttl |-> [k \in Key |-> IF Dated(k) = {} THEN NoTtl ELSE cells[Latest(Dated(k))].ttl]]

Cells(f)  == IF f = NoFile THEN <<>> ELSE content[f]
Loaded(f) == Restored(Cells(f))

IsTorn(f) == f # NoFile /\ content[f] = <<Torn>>

(* What a load may leave in the store; of a torn file, any old values. *)
Loads(f) ==
  IF IsTorn(f)
  THEN [data: [Key -> 0 .. writes], ttl: [Key -> {NoTtl, now + 1}]]
  ELSE IF f = NoFile \/ (content[f] \o <<Eof>>)[1] = Magic THEN {Loaded(f)} ELSE {}

(* run: load_on_startup, then the server serves. *)
Start ==
  /\ stage = "down" /\ stage' = "run"
  /\ \E s \in Loads(dump) : data' = s.data /\ ttl' = s.ttl
  /\ missed' = {}
  /\ UNCHANGED <<now, clients, stats, save, files, writes, clean>>

(* A file without its header, or that breaks off in an entry, ends the      *)
(* start.                                                                  *)
StartFails ==
  /\ stage = "down" /\ (IsTorn(dump) \/ Loads(dump) = {})
  /\ UNCHANGED vars

(* ctrl_c leaves the accept loop; PersistenceManager::shutdown saves. *)
Interrupt ==
  /\ stage = "run" /\ stage' = "last_save"
  /\ UNCHANGED <<now, store, clients, stats, save, files, history>>

(* A file without a name that no saver has open is gone. *)
Reaped(kept) == content' = [f \in File |-> IF f \in kept THEN content[f] ELSE <<>>]

(* The process ends, orderly or not; its named files stay as they are. *)
Stop ==
  /\ stage' = "down"
  /\ data' = Empty /\ ttl' = NoTtls
  /\ pc' = [p \in Client |-> "idle"] /\ cmd' = [p \in Client |-> NoCmd]
  /\ dirty' = 0 /\ failed' = FALSE
  /\ save' = [s \in Savers |-> Idle]
  /\ Reaped({temp, dump})
  /\ UNCHANGED <<now, temp, dump, history>>

Exit == stage = "linger" /\ Stop
Kill == stage # "down" /\ Stop

Tick ==
  /\ now < MaxTime /\ now' = now + 1
  /\ UNCHANGED <<stage, store, clients, stats, save, files, history>>

-----------------------------------------------------------------------------
(* A save remembers the keys that others work on until it is renamed; then  *)
(* missed does, until the counter is reset.                                *)
Noted(s, keys) ==
  IF save[s].alone /\ save[s].at # "reset" THEN [save[s] EXCEPT !.touched = @ \cup keys]
  ELSE save[s]

Missed(keys) ==
  IF \E s \in Savers : save[s].at = "reset" THEN missed \cup keys ELSE missed

(* evict_expired, by the evictor or at the start of a snapshot; Store has   *)
(* its steps.                                                              *)
Overdue == {k \in Key : Expired(ttl[k])}

Sweep ==
  /\ data' = [k \in Key |-> IF k \in Overdue THEN Absent ELSE data[k]]
  /\ ttl'  = [k \in Key |-> IF k \in Overdue THEN NoTtl ELSE ttl[k]]
  /\ missed' = Missed(Overdue)

Evict ==
  /\ stage # "down" /\ Overdue # {}
  /\ Sweep
  /\ save' = [s \in Savers |-> Noted(s, Overdue)]
  /\ UNCHANGED <<stage, now, clients, stats, files, writes, clean>>

(* handle_connection counts the write before it executes it... *)
Record(p) ==
  /\ stage # "down" /\ pc[p] = "idle" /\ writes < MaxWrites
  /\ \E k \in Key, op \in {"set", "setex", "del"} :
       /\ cmd' = [cmd EXCEPT ![p] = [key |-> k, op |-> op]]
       /\ save' = [s \in Savers |-> Noted(s, {k})]
       /\ missed' = Missed({k})
  /\ pc' = [pc EXCEPT ![p] = "data"]
  /\ dirty' = dirty + 1 /\ writes' = writes + 1
  /\ UNCHANGED <<stage, now, store, failed, files, clean>>

(* ... set and del change the data first... *)
ChangeData(p) ==
  /\ pc[p] = "data" /\ pc' = [pc EXCEPT ![p] = "ttl"]
  /\ data' = [data EXCEPT ![cmd[p].key] = IF cmd[p].op = "del" THEN Absent ELSE writes]
  /\ UNCHANGED <<stage, now, ttl, cmd, stats, save, files, history>>

(* ... and then the deadline. *)
ChangeTtl(p) ==
  /\ pc[p] = "ttl" /\ pc' = [pc EXCEPT ![p] = "idle"]
  /\ ttl' = [ttl EXCEPT ![cmd[p].key] = IF cmd[p].op = "setex" THEN now + 1 ELSE NoTtl]
  /\ cmd' = [cmd EXCEPT ![p] = NoCmd]
  /\ UNCHANGED <<stage, now, data, stats, save, files, history>>

-----------------------------------------------------------------------------
At(s, label) == save[s].at = label

(* start_rdb_autosave finds its condition met; the seconds since the last   *)
(* save may be any.                                                        *)
DueLate == dirty > Changes     \* bug: one change too many
Due == dirty >= Changes

Wanted(s) ==
  CASE s = "autosave" -> stage # "down" /\ Due
    [] s = "shutdown" -> stage = "last_save"

Busy == {cmd[p].key : p \in {q \in Client : pc[q] # "idle"}}

(* File::create: the temporary file, emptied if it is there. *)
Unnamed ==
  CHOOSE f \in File : f \notin {temp, dump} \cup {save[s].file : s \in Savers}
TempFile == IF temp = NoFile THEN Unnamed ELSE temp

Opened(f) == content[f]     \* bug: the file is opened for appending
Truncated(f) == <<>>

Create(s) ==
  /\ At(s, "idle") /\ Wanted(s)
  /\ temp' = TempFile
  /\ LET others == {o \in Savers : save[o].file = TempFile}
         alone == others = {}
     IN  /\ save' = [o \in Savers |->
                       IF o = s
                       THEN [Idle EXCEPT !.at = "header", !.file = TempFile, !.alone = alone,
                                         !.touched = IF alone THEN Busy ELSE {}]
                       ELSE IF o \in others
                       THEN [save[o] EXCEPT !.alone = FALSE, !.touched = {}]
                       ELSE save[o]]
         /\ content' = [content EXCEPT ![TempFile] =
                           IF alone THEN Truncated(TempFile) ELSE <<Torn>>]
  /\ UNCHANGED <<stage, now, store, clients, stats, dump, history>>

(* write_all; into a file that others write too, it makes no difference. *)
WriteCell(s, c) ==
  content' = IF save[s].alone THEN [content EXCEPT ![save[s].file] = Append(@, c)]
             ELSE content

(* The header, then snapshot: evict_expired, the data map, the expirations   *)
(* map, one entry at a time.                                               *)
WriteHeader(s) ==
  /\ At(s, "header")
  /\ WriteCell(s, Magic)
  /\ Sweep
  /\ save' = [o \in Savers |->
                IF o = s THEN [save[s] EXCEPT !.at = "copy_data", !.todo = Key]
                ELSE Noted(o, Overdue)]
  /\ UNCHANGED <<stage, now, clients, stats, temp, dump, writes, clean>>

CopyData(s) ==
  /\ At(s, "copy_data")
  /\ \E k \in save[s].todo :
       LET last == save[s].todo = {k}
       IN  save' = [save EXCEPT ![s].data[k] = data[k],
                                ![s].todo = IF last THEN Key ELSE @ \ {k},
                                ![s].at = IF last THEN "copy_ttl" ELSE @]
  /\ UNCHANGED <<stage, now, store, clients, stats, files, history>>

Kept(copy) == {k \in Key : copy[k] # Absent}

CopyTtl(s) ==
  /\ At(s, "copy_ttl")
  /\ \E k \in save[s].todo :
       LET last == save[s].todo = {k}
       IN  save' = [save EXCEPT ![s].ttl[k] = IF save[s].data[k] = Absent THEN NoTtl ELSE ttl[k],
                                ![s].todo = IF last THEN Kept(save[s].data) ELSE @ \ {k},
                                ![s].at = IF last THEN "write" ELSE @]
  /\ UNCHANGED <<stage, now, store, clients, stats, files, history>>

(* One key of the copy, in any order; one that has expired is skipped. *)
WriteEntry(s) ==
  /\ At(s, "write")
  /\ \E k \in save[s].todo :
       LET d == save[s].ttl[k]
       IN  IF Expired(d)
           THEN /\ save' = [save EXCEPT ![s].todo = @ \ {k}]
                /\ UNCHANGED content
           ELSE /\ save' = [save EXCEPT ![s].todo = @ \ {k}]
                /\ WriteCell(s, Entry(k, save[s].data[k], d))
  /\ UNCHANGED <<stage, now, store, clients, stats, temp, dump, history>>

WriteEof(s) ==
  /\ At(s, "write") /\ save[s].todo = {}
  /\ WriteCell(s, Eof)
  /\ save' = [save EXCEPT ![s].at = "rename", ![s].data = Empty, ![s].ttl = NoTtls]
  /\ UNCHANGED <<stage, now, store, clients, stats, temp, dump, history>>

(* rename gives the file the name dump, whoever wrote it *)
Rename(s) ==
  /\ At(s, "rename") /\ temp # NoFile
  /\ dump' = temp /\ temp' = NoFile
  /\ clean' = (save[s].alone /\ save[s].file = temp)
  /\ missed' = save[s].touched
  /\ save' = [save EXCEPT ![s] = [Idle EXCEPT !.at = "reset"]]
  /\ Reaped({temp} \cup {save[o].file : o \in Savers \ {s}})
  /\ UNCHANGED <<stage, now, store, clients, stats, writes>>

-----------------------------------------------------------------------------
(* save: the counter starts anew only after a success. *)
ResetAlways(ok) == 0     \* bug: a failed save resets the counter too
CountDown(ok) == IF ok THEN dirty - Changes ELSE dirty  \* bug: takes off the condition
CountAfter(ok) == IF ok THEN 0 ELSE dirty

Finish(s, ok) ==
  /\ dirty' = CountAfter(ok)
  /\ failed' = ~ok
  /\ save' = [save EXCEPT ![s] = Idle]
  /\ Reaped({temp, dump} \cup {save[o].file : o \in Savers \ {s}})
  /\ stage' = IF s = "shutdown" THEN "linger" ELSE stage

Reset(s) ==
  /\ At(s, "reset")
  /\ Finish(s, TRUE)
  /\ UNCHANGED <<now, store, clients, temp, dump, history>>

(* Any write may fail, and the rename when the file has got away; the       *)
(* temporary file stays.                                                   *)
Fail(s) ==
  /\ save[s].at \notin {"idle", "reset"}
  /\ Finish(s, FALSE)
  /\ UNCHANGED <<now, store, clients, temp, dump, history>>

SaveStep(s) ==
  \/ Create(s) \/ WriteHeader(s) \/ CopyData(s) \/ CopyTtl(s)
  \/ WriteEntry(s) \/ WriteEof(s) \/ Rename(s) \/ Reset(s)

Next ==
  \/ Start \/ StartFails \/ Interrupt \/ Exit \/ Kill \/ Tick \/ Evict
  \/ \E p \in Client : Record(p) \/ ChangeData(p) \/ ChangeTtl(p)
  \/ \E s \in Savers : SaveStep(s) \/ Fail(s)

(* The autosave task checks its condition every second and a save goes on   *)
(* as long as the process does.  Clients, interrupts and kills are free.   *)
Fairness == \A s \in Savers : WF_vars(SaveStep(s) \/ Fail(s))

Spec == Init /\ [][Next]_vars /\ Fairness

-----------------------------------------------------------------------------
Cell == {Magic, Eof, Torn} \cup [t: {"entry"}, key: Key, val: Nat \ {0}, ttl: Nat \cup {NoTtl}]
Labels == {"idle", "header", "copy_data", "copy_ttl", "write", "rename", "reset"}

TypeOK ==
  /\ stage \in {"down", "run", "last_save", "linger"}
  /\ now \in 0 .. MaxTime
  /\ data \in [Key -> Nat] /\ ttl \in [Key -> Nat \cup {NoTtl}]
  /\ pc \in [Client -> {"idle", "data", "ttl"}]
  /\ cmd \in [Client -> [key: Key, op: {"set", "setex", "del"}] \cup {NoCmd}]
  /\ dirty \in Nat /\ failed \in BOOLEAN
  /\ save \in [Savers -> [at: Labels, file: File \cup {NoFile}, todo: SUBSET Key,
                          data: [Key -> Nat], ttl: [Key -> Nat \cup {NoTtl}],
                          alone: BOOLEAN, touched: SUBSET Key]]
  /\ {temp, dump} \subseteq File \cup {NoFile}
  /\ content \in [File -> Seq(Cell)]
  /\ writes \in 0 .. MaxWrites /\ clean \in BOOLEAN /\ missed \subseteq Key

(* "Atomic rename": the file under its final name is a whole save, its       *)
(* header first, every key once, the end marker last, whatever kills and   *)
(* failed saves left in the temporary file, unless the save that renamed   *)
(* it shared the temporary file with another one.                          *)
Whole(cells) ==
  /\ Len(cells) >= 2 /\ cells[1] = Magic /\ cells[Len(cells)] = Eof
  /\ \A i, j \in 2 .. Len(cells) - 1 :
       cells[i].t = "entry" /\ (i # j => cells[i].key # cells[j].key)

SavedFileIsWhole == dump # NoFile /\ clean => Whole(content[dump])

(* What is lost at a restart.  When no change is counted, every key is in   *)
(* the file with its value and its deadline, except one that a command or   *)
(* the evictor worked on while that save ran: the copy is not of one       *)
(* instant (a key evicted between its two halves is saved for ever), and   *)
(* the counter is reset after it.                                          *)
Visible(s, k) ==
  IF s.data[k] = Absent \/ Expired(s.ttl[k]) THEN <<Absent, NoTtl>>
  ELSE <<s.data[k], s.ttl[k]>>

OnlyRacedWritesAreUnsaved ==
  stage # "down" /\ dirty = 0 /\ clean /\ (\A p \in Client : pc[p] = "idle") =>
    \A k \in Key \ missed :
      Visible(Loaded(dump), k) = Visible([data |-> data, ttl |-> ttl], k)

(* Enough changes are saved some day, unless the server is stopped or saves *)
(* fail.                                                                   *)
ChangesAreSaved ==
  (stage = "run" /\ dirty >= Changes) ~> (dirty < Changes \/ stage # "run" \/ failed)
=============================================================================
