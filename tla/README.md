# TLA+ models of fire-redis

fire-redis is a Redis-compatible server in Rust: an asynchronous TCP server whose
connection tasks run commands on one shared, concurrent keyspace, with expiry, an
append-only file, RDB snapshots and metrics.  This directory models its core,
model-checks it on small instances with TLC and proves what matters most with TLAPS.

## 1. The system

| component | code | state it keeps | operations |
|---|---|---|---|
| keyspace store | `src/store/mod.rs`, `string.rs` | two `DashMap`s: `data` (key to value) and `expirations` (key to deadline) | GET, SET, INCR, APPEND, DEL, EXISTS, TYPE, EXPIRE, TTL, KEYS, FLUSHALL; `check_expiration`, `evict_expired`, `snapshot`, `restore` |
| collection values | `src/store/{list,set,hash,sorted_set}.rs` | the value under one key; a sorted set is kept twice (`scores`, `tree`) | pushes, pops, adds, removes, ranges, counts |
| command handlers | `src/commands/data.rs` | none | `ensure_type`, conditions of SET, loops over keys and values |
| command parsing | `src/commands/mod.rs` | none | arity, conversions and options: arguments to `Command` |
| server | `src/server.rs` | accept loop, connection tasks, shutdown broadcast, evictor task | accept, run commands one by one, QUIT, shutdown |
| append-only file | `src/persistence/aof.rs`, `manager.rs` | unbounded channel, writer with its descriptor, the file | log, append, fsync by policy, rewrite, replay |
| RDB snapshots | `src/persistence/rdb.rs`, `manager.rs` | dirty counter, last save, temporary file, file | autosave, save, load |
| RESP codec | `src/resp.rs` | the read buffer | decode, encode |
| metrics | `src/metrics.rs` | counters and gauges, each an atomic | count, snapshot, INFO |
| HTTP, tracing, binaries | `src/http.rs`, `observability.rs`, `bin/` | none | export, start-up, measurement |

**How they interact.**  Each connection is a task that reads a command, sends it to
the AOF channel when it is a write, executes it synchronously on the shared `Store`,
and answers.  The runtime has several threads, so commands of different connections
interleave between any two operations on the maps.  A `DashMap` operation locks one
shard; no lock is held from one operation to the next, and there is no lock over the
two maps together.  The evictor task sweeps deadlines on a timer.  The AOF task
drains the channel into the file, and the autosave task snapshots the store while
commands run.

**What is hard.**  (a) A command is several map operations: the deadline is copied,
then judged, then the data goes, then the deadline; the type is checked under one lock
and the operation works under another; a remover that empties a collection releases
the entry before it removes the key; SET writes the value and then its deadline.
(b) The sweep collects keys first and removes them later.  (c) The value of a sorted
set is kept twice.  (d) Indices are signed, lengths unsigned.  (e) Persistence:
records logged before execution, a rewrite under a live descriptor, a snapshot of two
maps, crashes.  (f) Requests that arrive in fragments and in piles, clients that close half of
a connection, handlers that panic.  (g) Shutdown with work in flight.  `PROJECT.json` lists
each hazard at its line, with the property that covers it or the reason none does.

**What makes each component correct.**

* Store: no value changes type in place; no empty collection stays; no deadline
  outlives its key when one client works alone; an expired key goes some day; a command
  that involves no deadline is atomic.
* Collections: both halves of a sorted set agree; an emptied value leaves no key; ranges
  and counts answer what Redis does, except where the call panics (LRANGE with a stop far
  before the first entry, ZCOUNT with bounds out of order: see section 3).
* AOF: replay of a log that is read to its end gives the store that wrote it, for clients
  with keys of their own; a crash costs the end of the log, and cut records and holes cost
  only writes logged since the last load; what is on its way to the disk arrives some day,
  if syncs succeed; a rewrite keeps what nobody changes meanwhile, and what it writes for a
  value replays to that value.
* RDB: the renamed file is a whole save; loading it gives the saved keys, each as it was
  during the save; what is not counted as dirty is in the file; enough changes are saved
  some day.
* Server: each request gets its own answer, in order; no request and no dead connection
  is left waiting; the gauge of connections balances; a snapshot of the counters adds up.
* Parsing: SET takes exactly the options its documentation gives.

## 2. Modules

| module | models | notes |
|---|---|---|
| `Values` | `StoredValue`, `Command`, replies, and what one operation on an entry does to a value | pure operators |
| `Keyspace` | the abstract promise: a map on which each command acts at one instant | abstract specification |
| `Store` | the store with its two maps, concurrent clients, the evictor | one action per map operation |
| `MCStore` | mixes of commands for TLC | definitions for the configurations only |
| `StoreProofs` | theorems about `Store` | TLAPS |
| `Ranges` | index arithmetic of LRANGE, ZRANGE and LINDEX | pure operators, with Redis' definition beside them |
| `Collections` | lists, sets, hashes and sorted sets with their contents, one command at a time | checks that `Values` has the sizes right |
| `CollectionsProofs` | theorems about sorted sets, counts, ranges, sizes and types | TLAPS |
| `Encodings` | what a value becomes in an RDB file and in a rewritten log, and what is read back | extends `Collections`, whose values it encodes |
| `EncodingsProofs` | theorems about lengths, deadlines, rewritten values and saved files | TLAPS |
| `Persistence` | the life of a write beyond the store: log, files, saves, start-up, shutdown and kills | what a restart recovers |
| `MCPersistence` | clients and configurations for TLC | definitions for the configurations only |
| `PersistenceProofs` | theorems about types, recovery and replay | TLAPS |
| `Snapshot` | a save in detail: the copy of the two maps beside running commands, the temporary file two savers share, the rename, the dirty counter | the steps of a file being written, which is one step in `Persistence` |
| `SnapshotProofs` | theorems about the saved file, its types and what it lacks | TLAPS |
| `Rewrite` | a rewrite of the log beside running commands and the AOF task, with failures and restarts | what survives it, and what does not |
| `RewriteProofs` | theorems about `Rewrite` | TLAPS |
| `Resp` | the decoder on a read buffer of tokens | pure operators |
| `Parsing` | `Command::try_from` over classes of arguments | pure operators, with the grammar of SET beside them |
| `Server` | accept loop, connection tasks, counters, shutdown | composes `Resp` and `Parsing` |
| `MCServer` | the requests of two clients for TLC | definitions for the configurations only |
| `ServerProofs` | theorems about the gauge, the snapshots, the decoder, the types and the answers | TLAPS |
| `Recursion` | induction stated with a set, and the existence of recursively defined functions | lemmas for the other proofs, TLAPS |

### Store

`data` and `expirations` are total functions; `Absent` and `NoTtl` stand for a key
that is not in a map.  A value is a kind and a number: the number a string holds, or
the size of a collection.  These are all that the control of a command depends on.
`now` is `Instant::now()`.  For each task, `pc` names the map operation that comes
next; `seen` is the copied deadline; `todo` and `found` are the keys of its loop;
`left` counts the values a push has still to push; `reply` is what it will answer.

| action | code |
|---|---|
| `Begin`, `Return` | `handle_connection` dispatches and answers; the evictor's tick |
| `ReadTtl`, `Judge`, `DropTtl` | the three map operations of `check_expiration` |
| `EnsureType` | `ensure_type` / `type_of` |
| `DecideSet` | NX and XX in `handle_set` |
| `FindKey`, `GetTtl` | `contains_key` of `expire` and `pttl`, and the second look at the deadline |
| `Operate` | the operation on the entry: get, INCR, APPEND, pushes, adds, pops, removes, lengths |
| `SetData`, `SetTtl` | `set`, in a loop for MSET; `set_expiration` for EXPIRE |
| `DelData`, `DelTtl` | `data.remove`, `expirations.remove` of DEL, of the sweep, of a remover that emptied its collection |
| `Scan` | the collecting loop of `evict_expired`, for the evictor and for KEYS |
| `ClearData`, `ClearTtl` | `flush_all`, key by key in any order since `clear` goes shard by shard |
| `Tick` | time passes |

Merged or left out, because nothing can tell: the clock is read in the same step as the
map operation that follows it in `set_expiration` and as the comparison in
`check_expiration`; MGET and EXISTS of several keys are repeated single reads; TYPE is
the look `ensure_type` takes; the list of KEYS after its sweep is a pure read; readers of
members and fields are `LEN`, which takes the same steps; the order in which a loop over
several keys goes is any order.

### Collections

`value` is what `data` holds under one key, with its real contents, and each action one
complete command on it, as its entry is locked throughout.  `Keep` is the removal of an
emptied key.  The order in which a hash set iterates is any order: SPOP takes any
members, ZRANGE walks a bucket in any order (`Walks`).  A field's value and the bytes of
a member play no part.  `usize` has the width `UsizeSize`, so that the cast of a negative
sum wraps as it does on the machine.

### Persistence

`stage` is what `Server::run` does (`down`, `load`, `run`, `last_save`, `linger`), `cfg`
the `PersistenceConfig` of this run, chosen anew at every start.  `kv` is the store.  A
client's command has two steps: `Log` sends it to the channel and counts it, `Execute`
runs it (`handle_connection` does them in this order and other tasks run in between).
`channel`, `current` and `aof` are where a record can be: sent, taken, in the file.  `synced`
counts the records `sync_all` has covered, `failed` says that the last one was an error.
`saving` is the save under way, with what it copied and the keys left to copy, `rdb` what
its rename left.  The rest is history: `logged`, `past` and `thinned` are what the log that
was loaded gives with all, with the first so many and with some of the writes logged since;
`broken` says that it was not read to its end or that an append failed since; `window` and
`kept` are the stores there were during a save.

| action | code |
|---|---|
| `Start`, `Load` | `PersistenceManager::new`, which creates the log; `load_on_startup` |
| `Log`, `Execute` | the AOF branch and the execution in `handle_connection` |
| `Take`, `Write`, `WriteFails`, `SyncEach` | `start_aof_processor` and `AofWriter::append` with its policies |
| `SyncTimer` | `start_aof_fsync`; `SyncAll` (here, in `SyncEach` and in `Interrupt`) succeeds or fails, and an error is only logged |
| `SaveBegin`, `Copy`, `SaveEnd` | `save`, of the autosave task or of `shutdown`: the copy goes key by key while commands run, then the rename and the dirty counter, or an error |
| `Read`, `After`, `Replay` | the loop of `replay_with_metrics` and its decoder |
| `Interrupt`, `Exit` | ctrl-c, the last fsync and save, a second of sleep, the end of the process |
| `Kill` | the process ends at any time; the record being written may be cut in two |

A value is a number under INCR and DEL, which do not commute; a reader is there because
`should_log_to_aof` must tell it apart.

**Cut records.**  A kill or a failed write may leave the beginning of a record, and the next
append goes behind it.  `parse_array` takes any value for an element, so the decoder may
take whole records behind a cut one for its elements, drop the array that comes of it, since
`Command::try_from` rejects it, and go on with the record behind.  A record is three tokens
here (the head of the array, the name, the key), and a reader (`Reader`) knows how many
elements it still wants, whether it is inside a string, and whether its loop has ended.  A
cut record (`Cut`) has some whole tokens and then nothing, so that the next record is an
element; or lacks just the last four bytes of a string (two of its own and the line end),
so that the head of the next record (`*2` and its line end) completes it, and the strings
behind that head are elements or, where none is wanted, values of their own that the loop
ignores; or a part that what follows does not complete, where the decoder stops with an
error.  A name completed in this way is no command's; a key is, and the command runs on a
key of no client, `Stray`.  What a reader still wants at the end of the file is `Ok(None)`,
the end of the loop.  Simplified: where bytes of a string are missing, it may also end at a
later line end of the records behind (six bytes on, twelve, ...), where the reader goes on
or stops as it does here; and a SET cut in its value, which would be given a value made of
the bytes that follow, is not among the commands.

**Snapshots.**  `Copy` takes one key at a time, in any order, while commands run: what is
saved may be a store that never was.  (Keys in one shard of the map are in fact copied
together, keys of different shards are not.)  The deadlines, and two saves at a time, are in
`Snapshot`; one save runs at a time here.

`Write` is the moment at which the bytes are in the file.  The process dies but the machine
does not, so what was written to a file stays in it: the documents promise nothing more
(`docs/TRADEOFFS.md`, crash consistency).  Relative deadlines and SPOP, whose replay differs
from their execution, are left out.

### Snapshot

A value is the serial number of the SET that wrote it, so that an old value is told from a
new one.  `save` has a record for each of the two savers, the autosave task and the final
save of `shutdown`: what it does next, the file it has open, the keys still to copy or to
write, and its copy of the two maps.  A file has an identity of its own (`File`); `temp`
and `dump` are what the two names refer to, as `File::create` empties a file that another
saver may have open and `rename` takes whatever has the name.

| action | code |
|---|---|
| `Create`, `WriteHeader` | `save_to_file` up to the snapshot; `start_rdb_autosave`'s condition in `Wanted` |
| `Sweep` (in `WriteHeader`), `CopyData`, `CopyTtl` | `Store::snapshot`: `evict_expired`, then the one map, then the other, key by key |
| `WriteEntry`, `WriteEof`, `Rename` | the loop, the end marker, the rename |
| `Reset`, `Fail` | the two arms of `save`: the counter starts anew, or it does not |
| `Record`, `ChangeData`, `ChangeTtl` | a write: `record_write`, then `set` or `del` on the one map, then on the other |
| `Start`, `StartFails` | `load_on_startup`: `Loaded`, which says what is left of entries restored one after the other (the last of each key that had not expired), or an error that ends the process |
| `Evict`, `Tick`, `Interrupt`, `Exit`, `Kill` | the evictor's sweep; time; the end of the process in its ways |

A file that two savers write to holds any mixture (`Torn`), and loads as any old values or
not at all.  A condition of autosave counts with any time since the last save.  `missed`,
`touched` and `alone` are history: the keys somebody worked on while a save ran, and
whether it had its file to itself.  The process dies, the machine does not: `rename`
without `fsync` is safe here, and would not be in a power failure.

### Rewrite

`PersistenceManager::rewrite_aof` is called by whoever holds the manager (as
`tests/persistence.rs` does beside a running server); no command and no task calls it.
Files have identities as in `Snapshot`; `writer` is the one the AOF task has open.

| action | code |
|---|---|
| `Log`, `Execute` | `handle_connection`, as in `Persistence` |
| `Write` | `start_aof_processor`: `append` to the open file |
| `Begin`, `List`, `Copy`, `Rename`, `Fail` | `rewrite_aof`: `AofWriter::new` on the temporary path; `keys`, shard by shard; `get_for_restore` and a command for each key; `rename`; any error |
| `Start`, `Kill` | `PersistenceManager::new` and `load_on_startup`; the end of the process |

A replay is defined by what it leaves (`Leaves`): each key has the value of its last
record.  Records are SET and DEL, and whole; cut ones are in `Persistence`, the other types
and the deadlines in `Encodings`.  Each key has a client of its own, as two that share one
may execute in another order than they logged (`Persistence`).

### Encodings

`WriteLength` and `ReadLength` work on bytes; everything else on cells: an opcode, a
length, a string, a deadline.  A cell has a fixed size or begins with its length, so that
a cut inside a cell reads like a missing one.  `FileOf` is the file of `save_to_file`, written
piece by piece (`Pieces`: the header, then an entry for each key, in any order the iterators
may have); `LoadFile` is `load_from_file`, `Turn` one turn of its loop, on a file that may end
at any cell.  The run saves the value of `Collections` between two strings.  `ValueToCommands` is the rewrite's
`value_to_commands`, `Run` what the handlers make of its commands.  Lengths go up to 31
bits: the upper bytes of the long form are 0.

### Resp, Parsing and Server

A request is a sequence of tokens: the header of an array or a whole scalar.  The network
delivers any part of what is under way (`ReadMore`), so that a request may be cut between
any two of its tokens and several may arrive together; bytes that are cut within a token
read like an end of the buffer.  The descent of `parse_value` into arrays is a count: an
array's elements are added to the values that are still needed (`Ends`, by position and
need), which reads the same tokens in the same order.  `Decode` advances the buffer over a
whole value or not at all.  `Word` are the classes of scalars clients may send, and a
request of `Menu` is whole (`WholeRequest`): it decodes to the end with an answer that
follows from its items, or is something that cannot begin a value.  An argument is a class of values (the text of an option, other text, a numeral that
fits this or that integer, a RESP integer, something else), and `Parse` answers whether
`Command::try_from` makes a command of it.

`Server` is `Server::run` and one `handle_connection` for each client: `at` is what the task
does next, and the branches of its `select!` are `NextFrame`, `ReadMore`, `ProtocolError`,
`EndOfStream` (the stream) and `SayGoodbye` (the broadcast).  After a request come
`CountTotal`, `CountName`, `Execute`, for INFO the four reads of `Metrics::snapshot`,
`CountLatency`, `CountBucket` and `Send`.  What a task does on the way out is `Close`;
`Panic` is the way out that skips it.

What the code does and the model therefore too: `max_connections` is compared with nothing;
QUIT is answered like any other command and the connection stays; ctrl-C is listened to
only next to `accept`, so that one during the pause after an error is lost; the product in
EXPIRE wraps in a release build and panics in a debug build; an array header with more
elements than a `Vec` may have panics.  Simplified: a latency above the last threshold,
which counts in no bucket, does not occur; `command_counts` is kept as its sum; the counters
of hits, errors and bytes are left out.  The counters are `Relaxed`: that a name is not seen
before its command is due to the lock of `command_counts`; for the buckets the model takes
a machine that keeps the order of loads and of atomic additions (x86-64).

## 3. Runs

| run | instance | checks |
|---|---|---|
| `store_races` | 2 clients, evictor, 1 key, 2 instants, 6 commands | `TypeOK`, `EmptyIsClaimed`, `TypeNeverFlips`, `ExpiredKeysGoAway` (liveness) |
| `store_atomic` | 2 clients, 2 keys, 10 commands, no time | `CommandsAreAtomic`: `Store` implements `Keyspace` |
| `store_solo` | 1 client, 2 keys, 22 commands, 4 instants | `NoOrphanTtl` |
| `collections` | 3 members, 3 scores, lists up to 4, indices -7..7, lengths to 17000 | `TypeOK`, `HalvesAgree`, `CountFollowsScores`, `RangesAreRedis`, `SizesFollowValues`; `LengthsReadBack`, `SavedFilesLoad`, `RewritesReplay` of `Encodings` |
| `persistence` | 2 clients with a key each, 2 commands in all; the log under "always" or "everysec", or snapshots; no log or one with a cut record at first; any number of kills and restarts | `TypeOK`, `ReplayRestores`, `RecoveryIsPast`, `WritesReachTheDisk` (liveness) |
| `snapshot` | 1 client, 1 key, 2 writes, 2 instants, a save after every change, any number of failures, kills and restarts | `TypeOK`, `SavedFileIsWhole`, `OnlyRacedWritesAreUnsaved`, `ChangesAreSaved` (liveness) |
| `rewrite` | 2 keys with a client each, 3 writes, 2 rewrites, any number of kills and restarts | `TypeOK`, `SettledKeysAreLogged` |
| `server` | 2 clients, one with 2 requests that may stop or leave, one with 1 | `TypeOK`, `AnswersFollowRequests`, `GaugeCountsConnections`, `SnapshotAddsUp`, `SetFollowsItsGrammar`, `TasksKeepUp` (liveness) |
| `store_queue` | 2 clients, 1 list | finds `CommandsAreAtomic` violated |
| `store_overwrite` | 1 client, evictor, 1 key | finds `ExpiryTakesOnlyTheExpired` violated |
| `collections_range` | as `collections` | finds `LRangeIsRedis` violated |
| `persistence_fallback` | snapshots first, then the log beside them | finds `RdbIsTheFallback` violated |

**Bounds and why they suffice.**  `MaxTime` bounds the clock: two instants are enough for
a deadline to pass between any two steps, the four of `store_solo` for one to be
renewed after it passed and to pass again.  `MaxLen` bounds collections (in `Room`, at the start of an addition):
with 2, a collection is created, grows, empties and is created anew, which are the cases
its size distinguishes.  Two clients and the evictor are three tasks on one key: every
race listed above needs two tasks and one key, and the third task is there to
interfere with both.  Counters have an `i64` of 3 values, so that both ends are reached.
In `Collections`, 3 members and 3 scores let a member move between shared and single
buckets; indices reach beyond a list of 4 on both sides.

In `Persistence`, `MaxSent` bounds the commands of a whole behaviour, and `Logs` says what
earlier runs of the server left: no file, or a log with a whole record and a cut one behind
it, cut at its key or in its name.  With two commands behind it, the cut record swallows the
first and the loop goes on with the second (the log resynchronises).  Without an old log, a
record is cut, in any way, or lost with another before or behind it, a cut key is completed
by the next record and `Stray` is loaded, a record waits behind one whose sync fails, and a snapshot
copies one key before a command and the other after a later one, so that a store that never
was is loaded.  The three configurations of the run (0.93 million states) alternate, so that
the log and the snapshot each grow stale while the other is kept.

In `Snapshot`, one client and one key let a write fall before, into and behind each step of
both savers; two writes let a save be followed by another with a different value, and one
tick lets a deadline pass between any two steps.  (Its invariants were also checked with 2
keys, 9.7 million states, and with 2 clients, 1.4 million.)  In `Rewrite`, two keys let one
be passed and the other still be ahead; two rewrites let the second follow one that failed
or one that succeeded.  In `Server`, one connection has all that fragments and breaks, the
other the commands that panic, the odd headers and INFO, so that its snapshot runs beside
the counting of the first.  The options of SET are checked for every sequence of up to four
arguments, lengths across both boundaries of their three widths.

**What `Persistence` says where.**  `ReplayRestores` compares the log with the store, so it
asks for clients that write keys of their own: two that share a key may execute in the
other order than they logged.  It holds as long as the log was read to its end when it was
loaded and no append failed since: cut records that swallow others, and whose losses the
load has seen, do not matter to it.  `RecoveryIsPast` says what a start gives.  From a log
that was read to its end at the last load, with no failed append since: what was loaded
then, with the first so many of the writes logged since, which is a store that the server
had, or would have had with the logged commands in this order.  From any other log: what
was loaded then, with *some* of the writes logged since, in their order.  A torn INCR of
`a`, a restart, then INCR `a` and INCR `b`, and another restart give `a` 0 and `b` 1, since the
cut record takes the next one for an element; this is no beginning of the log, but nothing
is repeated, reordered, invented, or taken from what was loaded before (but for the stray
key).  From a snapshot: each key as it was at some time of that save, which is not one store.
`WritesReachTheDisk` excepts servers that stop, records that a failed write cost, and syncs
of which none succeeds any more.  Under "always" that last case is one failed sync behind
which no client writes: `append` returns the error, it is logged, and nothing tries again.

**What the others say where.**  `OnlyRacedWritesAreUnsaved` holds of every key but those that
a command or the evictor worked on during the save, as the copy is not of one instant and
the counter is reset after it: a write made during a save is not counted any more.  A key
evicted between the two halves of the copy is saved without its deadline.  Both persistence
invariants ask that the save (or rewrite) did not share or inherit its temporary file.
`SettledKeysAreLogged` is false without its two exceptions, and they are what a rewrite
beside a running server loses.  A write that executes after the rewrite has passed its key,
and every write after the rename, is appended to the file that lost its name and is gone at
the next start (`aof.rs:201`).  And the temporary file is opened for appending
(`aof.rs:172`): a rewrite fails, a key it copied is deleted, the next rewrite appends to
what the first left, and the deleted key is in the log again.
`GaugeCountsConnections` counts the tasks that panicked as connections for ever, which is
what the code does.  `AnswersFollowRequests` follows a connection up to its end, and a
client that went away is answered into the void.

**What `CommandsAreAtomic` says where.**  With strings, sets that only grow, and DEL,
and no deadlines, each command takes effect at the instant of its operation on the
entry; the refinement maps `data` to the abstract map, empty collections counting
as absent, and the progress of a client to pending or done.  It says nothing about
deadlines (`Keyspace` has none), MSET or FLUSHALL (several keys), and it is false with
pops: see `store_queue`.

**Findings.**

* `store_queue`: client 1 pops the last entry and releases the lock; client 2 pushes
  and gets its answer; client 1 removes the key and the pushed value with it.
* `store_overwrite`: the key's deadline passes and the evictor collects it; the client
  sets the key anew, without a deadline; the evictor removes it.
* `collections_range`: `LRANGE k 0 -5` on a list of 3: `len + stop` is -2, cast to a huge
  `usize`, and `list.range` panics, closing the connection.  Redis answers an empty list.
  (ZRANGE clamps the huge index and answers every member; `RangesAreRedis` therefore
  states agreement with Redis where the sum is not negative.)
* `persistence_fallback`: with snapshots only, a save leaves a file; the server is
  restarted with the log enabled, creates it empty, finds it, replays nothing and ignores
  the snapshot.

Without a run of its own: `ZCOUNT k 2 1` on a sorted set panics (`tree.range` takes no
bounds out of order), and the connection ends without an answer, where Redis answers 0 and
`docs/COMPATIBILITY.md` lists ZCOUNT as supported.  `ZCount` has the panic, and
`CountFollowsScores` states it beside the counting: no answer where the minimum is above the
maximum, and nowhere else.

**Fairness.**  A command handler is synchronous code without an await, so a started
command runs to its end: `WF(Step)` for each task.  The evictor's `tokio` interval keeps
ticking while the server runs: `WF(Begin)` for evictors.  Clients need not send
anything.  `Tick` has no fairness: `ExpiredKeysGoAway` starts from a deadline that has
already passed.  In `Persistence` the AOF task and the sync timer have weak fairness: they
run as long as the server, but whether a write or a sync succeeds is open; clients, saves,
interrupts, kills and starts have none.  In
`Snapshot` the steps of each saver have it together (`SaveStep \/ Fail`): the autosave task
looks at its condition every second and a save, once begun, goes on or fails; so
`ChangesAreSaved` promises a save or a failure.  In `Server` each connection's task has it:
the runtime polls every task that can go on; clients, the network up to the first byte, and
the user who interrupts have none.

Deadlock is checked in every run but `server`: a client can always send a command, and a
server that is down can always be started.  In `server` the process ends for good.

## 4. Proofs

Everything below is proved for any values of the constants, from the assumptions named
in the modules, which TLC evaluates in every run.  They say: commands are well-formed
(`CommandsAssumption` of `Store` and of `Persistence`, `ConfigsAssumption`); an evictor is not
a client (`TasksAssumption`); there is a key (`KeyAssumption`); there are finitely many
clients (`ClientAssumption`); scores are integers (`ScoreAssumption`); a command names finitely
many elements, and lengths and indices are `i64`, half of a `usize`, which is not empty
(`ElemAssumption`, `LengthAssumption`, `UsizeAssumption`); the name no file has is none
(`NoFileAssumption`), nor is the key of no client a client's (`StrayAssumption`); a log that earlier runs left is
no file or a sequence of records, whole or cut (`LogsAssumption`); bounds are
numbers, and a save condition asks for a change
(`BoundAssumption`, `BoundsAssumption`, `MaxLengthAssumption`, `ChangesAssumption`); an argument may be
anything (`WordAssumption`); what clients send are whole requests and what cannot begin one
(`MenuAssumption`; pieces of a request are what `StopSending` makes of them).  Two theorems of
`Store` and one of `Persistence` have a hypothesis besides; each is what a run instantiates,
and without it the property is false.

* `TypeCorrect`: `Spec => [](TypeOK /\ Control)`.  `TypeOK` is not inductive: `Operate`
  writes the value an effect leaves, which has the right shape only if the command of a
  task at `body` is one of those `Effect` is for, and `data` stays among the stored values
  only if SET's type is a string's.  `Control` adds which commands may be at which step.
* `EmptyCollectionsAreClaimed`: `Spec => []EmptyIsClaimed`.  Inductive with `TypeOK /\
  Control`: the only step that leaves an empty collection is a remover's, which claims the
  key in the same step; a claim ends with the removal of that key; a claim by another
  task survives any step of this one, and a step that writes the claimed key either
  leaves it non-empty or claims it again.
* `TypesDoNotFlip`: `Spec => TypeNeverFlips`, from the same invariant, action by action.
* `LoneClientLeavesNoOrphans`: `Spec => []NoOrphanTtl` for one client and no evictor, as in the run
  `store_solo` (with a second task it is false: the other one creates the key between the two
  removals).  The invariant `OrphansAreTaken` says of every step of every command which
  deadlines may be without a key: those the command has still to remove.
* `PlainCommandsAreAtomic`: `Spec => CommandsAreAtomic` for commands that set no deadline, name one
  key, remove no members, and agree on the type of each key, as the mix `PlainMix` of the run
  `store_atomic` (the others fail: `store_queue`, a wrong type seen by `ensure_type` and gone
  at the operation).  `PlainInv`: no deadline is anywhere, the register at each step is what the
  command put there, a client's reply is there exactly after its operation.  Then the
  operation maps to the abstract step, which has the same effect, and every other step to a
  stutter.
* `SortedSetHalvesAgree`: `Spec => []HalvesAgree` for `Collections`, inductive by itself: a
  lemma for members that leave (`LeaveAgrees`) and one for a member that joins
  (`JoinAgrees`), which leaves first.
* `CollectionsTypeCorrect`, `CountsAgreeWithScores`, `RangesAnswerLikeRedis`, `SizesAreAllowed`: the four
  other properties of `Collections`.  `Shape` is inductive: a list within its bound, a set or a
  hash of elements, a sorted set whose halves agree, none of them empty.  The count walks
  disjoint buckets, so a lemma on cardinalities adds them up; that bounds out of order, and
  only those, get no answer is the case beside it.  The ranges are arithmetic over every width: each cast is a remainder, which is its argument or off by one `usize`.  The sizes
  follow command by command from how many elements a set operation adds or takes.
* `LengthsAreReadBack`, `DeadlinesAreRoundedUp`: for every length of up to 31 bits, case by
  case over the three widths, from what division and remainder give back; for every
  remaining time, the seconds of a rewritten deadline are no earlier and less than one later.
* `RewriteComesBack`, `RewritesRestoreValues`: the commands of a rewrite restore every value, of any size,
  whatever the order of its iterator, and `Spec => []RewritesReplay`.  An order passes every
  member once (`OrdersCover`), so that what is built of the first members is the value on those
  members, one more with every pair (`HashComesBack`, `SortedComesBack`); a sorted set is known by its
  scores, as `HalvesAgree` is an invariant.
* `FileComesBack`, `SavedFilesAreLoaded`: the file of a save loads as what was saved and has not
  expired; of a file that ends early a load takes the entries up to the last whole one, or
  refuses it; for any number of keys and values of any size, and `Spec => []SavedFilesLoad`.
  A turn of the loop at a piece of the file reads the whole piece, or notices that the file ends
  in it (`Reads`, for the header and both kinds of entry); the places at which the pieces
  end (`Laid`) say how many turns a load takes before that one (`TurnsEnd`).
* `GaugeIsExact`: `Spec => []GaugeCountsConnections`.  The gauge is a cardinality, so each
  step says which task joins or leaves the set of those served or lost, and the lemmas on
  finite sets do the counting.
* `SnapshotsAddUp`: `Spec => []SnapshotAddsUp`.  The invariant: `total - names` is the number of
  tasks between the two additions (`latencies - buckets` likewise), hence never negative;
  the counters only grow; and a task that has read the part has read it before the whole.
* `ServerTypeCorrect`: `Spec => []TypeOK` for `Server`.  A frame holds words because the decoder's items
  do, which is a fact about its recursion (below); the gauge is no negative number
  because it is a sum of two cardinalities.
* `RequestsAreAnswered`: `Spec => []AnswersFollowRequests` for `Server`, with any clients, any whole
  requests and every way to cut them into reads.  The invariant `Conversations` says what the
  next reply will be, at each step of the task, and that buffer and wire together hold the
  requests that are not answered yet, one behind the other, with a piece of one more at most
  (`Holds`).  That decoding such a buffer gives the first request, or nothing yet, rests on
  `DecodeExtends`: what the decoder once decides, no later byte changes.
* `OptionsOfAnyLength`, `SetTakesItsGrammar`: the loop of `parse_set` takes a sequence of arguments
  exactly if the grammar writes it, for sequences of any length.  What the loop has set only
  grows, and with both an expiry and a condition set it takes nothing more, so that two
  turns decide; that the loop is the function it seems to be is again a fact about recursion.
* `PersistenceTypeCorrect`: `Spec => []TypeOK` for `Persistence`.  `Shape` relates the files, the
  queue and the save to the stage: only a server with a log has records for it, and only a
  running one saves.
* `RecoveryLoadsThePast`: `Spec => RecoveryIsPast`, from three invariants.  `LogInv`, of a log that
  was read to its end: behind every record still on its way the reader is where a record may
  begin, what is executed up to there is in `past`, and the whole gives `logged`.  `ThinInv`, of
  any log: there is a chain of sets of stores along the queue (`Thinning`), the first with what
  the file replays to, each with what the record does to the stores of the one before, and
  with those stores themselves, the last among `thinned`; a record that gets into the file
  shortens the chain, whether it is executed, swallowed, cut or lost (`ReadAnywhere`:
  wherever the reader is, it executes the record or nothing that concerns a client's key).
  `SnapInv`: the keys copied so far are each from a store of the save's time.
* `ReplayRestoresTheStore`: `Spec => []ReplayRestores` for clients that write keys of their own, as in the
  run (`OwnKeys`).  `Ahead`: what was logged is, for each key, what the store holds, after the one
  command on it that is logged and not executed, if there is one; `LogInv` says that the log
  and what is under way replay to just that.
* `SavedFilesAreWhole`: `Spec => []SavedFileIsWhole` for `Snapshot`.  The invariant says of a saver
  that has its file to itself how far the file has got (`Progress`), that no other saver has
  that file open nor the one a clean save left under the final name (`Apart`), and so the
  file that is renamed is whole.  What a save copied plays no part, so that no type of the
  store is needed.
* `SnapshotTypeCorrect`, `OnlyRacedWritesCanBeUnsaved`: `Spec => []TypeOK` and
  `[]OnlyRacedWritesAreUnsaved` for `Snapshot`.  `Typed` adds to the types what a saver has still to
  write.  `Sound` says that what a saver copied, and what is in the file under its
  name, shows every key as the store does, but for the keys worked on since, and that the
  counter of changes is zero only if no change was counted since that save was reset.
* `SettledKeysSurvive`, `RewriteTypeCorrect`: `Spec => []SettledKeysAreLogged` and `[]TypeOK` for
  `Rewrite`.  The invariant has a part for each stage of the log: before a rename, log and
  channel end with the last write of every key (`LogHolds`); a rewrite has copied what it
  has passed (`RewriteHolds`); and after the rename the log has what has not changed since
  (`RenamedHolds`).  `AppendLeaves` and `TailLeaves` say what a record at the end of a file or
  the head of the channel changes.

**Induction over data.**  The library's induction theorems take an operator as a parameter,
which the provers cannot instantiate.  `Recursion` states induction with a set instead, and
proves it from the one theorem of the library that does: a well-founded order has minimal
elements.  From it follows that a function with a recursive definition exists, so that the
`CHOOSE` in `f[n \in Nat] == ...` has the value that is written there.  On it rest what the proofs
say of the decoder (`Ends`), of the loop over SET's options (`Loop`), of replays (`Replay`, a
walk of the reader over the log), of the loops over a value's pairs (`PutAll`), and of the file that a save
writes and a load reads (`Written`, `LoadFile`).

Only model-checked: `ExpiredKeysGoAway`, `WritesReachTheDisk`, `ChangesAreSaved` and `TasksKeepUp`
(liveness, out of the prover's reach), and what the runs that find a violation are about.

## 5. Not modelled

* RESP: the bytes within a token and the encoder.  INFO's rendering; the counters that no
  other counter is related to; the task that refreshes gauges of the system; the HTTP
  endpoint, which serves the same snapshot; tracing; binaries; benchmarks.  They are pure
  input and output, or start-up.
* Persistence: a crash of the machine (the documents promise nothing for it); two
  `rewrite_aof` at once; `AofWriter::truncate` and `Store::clear_all`, which nothing calls; the
  replay of SPOP and of relative deadlines, which is another pop and another deadline.
* `Store` and `Keyspace` share the effects of `Values`, so that an error in the arithmetic at the
  ends of `i64` would be in both.  `Panic` of `Server` stands for the panics of two requests;
  those of LRANGE and ZCOUNT (section 3) end a task in the same way.
* Server: `Server::shutdown(&self)`, which nobody can call while `run(&mut self)` serves.
* The composition of `Snapshot` with the removers of `Store`: a copy between the last pop and
  the removal of the key saves a collection without members.

## 6. Plan

1. `Store` with the conditions of SET under two clients, as its own run.
2. `Snapshot` with collections that become empty.
