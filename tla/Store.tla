------------------------------- MODULE Store -------------------------------
(***************************************************************************)
(* The shared keyspace of fire-redis: two concurrent maps, data and        *)
(* expirations, that the connection tasks and the expiration evictor use   *)
(* at the same time.  Each operation on a map is atomic; a command is a    *)
(* sequence of them, and every action here is one such operation, so every *)
(* interleaving of commands the runtime can produce is a behaviour.        *)
(***************************************************************************)
EXTENDS Values, FiniteSets

CONSTANTS Client,     \* connection tasks
          Evictors,   \* {} when eviction_interval_ms = 0, else one task
          Commands,   \* the commands the clients may send
          MaxTime,    \* bound on the clock
          MaxLen      \* bound on the size of a collection

ASSUME CommandsAssumption == \A c \in Commands : c \in Command
ASSUME TasksAssumption == Client \cap Evictors = {}
ASSUME KeyAssumption == Key # {}

VARIABLES data,         \* StoreInner.data
          expirations,  \* StoreInner.expirations, the deadline of a key
          now,          \* Instant::now()
          pc, phase,    \* where each task is; phase "type": in ensure_type
          cmd, at,      \* the command it runs, and the key it works on
          seen,         \* deadline read by check_expiration, or the sweep's now
          todo, found,  \* keys its loop has still to visit; expired keys found
          left,         \* values a multi-value push has still to push
          reply         \* what it will answer

maps  == <<data, expirations, now>>
loops == <<todo, found, left>>
vars  == <<maps, pc, phase, cmd, at, seen, loops, reply>>

Task == Client \cup Evictors

(* The sweep of evict_expired, by the evictor task or inside KEYS. *)
Sweep == [name |-> "KEYS", key |-> CHOOSE k \in Key : TRUE, keys |-> {},
          type |-> "string", n |-> 0, ttl |-> NoTtl, cond |-> "always"]

Labels == {"idle", "read_ttl", "judge", "drop_ttl", "type_of", "body", "get_ttl",
           "set_data", "set_ttl", "del_data", "del_ttl", "scan",
           "clear_data", "clear_ttl", "done"}

TypeOK ==
  /\ data \in [Key -> StoredValue]
  /\ expirations \in [Key -> Nat \cup {NoTtl}]
  /\ now \in Nat
  /\ pc \in [Task -> Labels]
  /\ phase \in [Task -> {"type", "op"}]
  /\ cmd \in [Task -> Command]
  /\ at \in [Task -> Key]
  /\ seen \in [Task -> Nat \cup {NoTtl}]
  /\ todo \in [Task -> SUBSET Key]
  /\ found \in [Task -> SUBSET Key]
  /\ left \in [Task -> Int]
  /\ reply \in [Task -> Reply]

Init ==
  /\ data = [k \in Key |-> Absent]
  /\ expirations = [k \in Key |-> NoTtl]
  /\ now = 0
  /\ pc = [p \in Task |-> "idle"]
  /\ phase = [p \in Task |-> "op"]
  /\ cmd = [p \in Task |-> Sweep]
  /\ at = [p \in Task |-> Sweep.key]
  /\ seen = [p \in Task |-> NoTtl]
  /\ todo = [p \in Task |-> {}]
  /\ found = [p \in Task |-> {}]
  /\ left = [p \in Task |-> 0]
  /\ reply = [p \in Task |-> NoReply]

Goto(p, label)    == pc' = [pc EXCEPT ![p] = label]
Answer(p, r)      == reply' = [reply EXCEPT ![p] = r]
Write(k, v)       == data' = [data EXCEPT ![k] = v]

KeepDeadline(k, t) ==   \* bug: a removal of the deadline forgotten
  expirations' = IF t = NoTtl THEN expirations ELSE [expirations EXCEPT ![k] = t]
SetDeadline(k, t) == expirations' = [expirations EXCEPT ![k] = t]

-----------------------------------------------------------------------------
(* Bound: a collection is added to only while it stays within MaxLen, the   *)
(* additions under way included.                                           *)
Room(c) ==
  c.name = "ADD" =>
    LET adding == {p \in Task : pc[p] # "idle" /\ cmd[p].name = "ADD"}
    IN  data[c.key].n + c.n * (Cardinality(adding) + 1) <= MaxLen

(* First step of each handler. *)
Entry(c) ==
  CASE c.name = "MSET"       -> "set_data"
    [] c.name = "DEL"        -> "del_data"
    [] c.name = "KEYS"       -> "scan"
    [] c.name = "FLUSHALL"   -> "clear_data"
    [] OTHER                 -> "read_ttl"

(* Keys the loop of a command visits. *)
LoopKeys(c) ==
  CASE c.name \in {"SET", "MSET", "DEL"}  -> c.keys
    [] c.name \in {"KEYS", "FLUSHALL"}    -> Key
    [] OTHER                              -> {}

(* handle_connection hands a parsed command to its handler; the evictor's   *)
(* interval ticks.                                                         *)
Begin(p) ==
  /\ pc[p] = "idle"
  /\ \E c \in (IF p \in Evictors THEN {Sweep} ELSE Commands) :
       /\ Room(c)
       /\ cmd' = [cmd EXCEPT ![p] = c]
       /\ at' = [at EXCEPT ![p] = c.key]
       /\ phase' = [phase EXCEPT ![p] = IF c.name \in Typed THEN "type" ELSE "op"]
       /\ todo' = [todo EXCEPT ![p] = LoopKeys(c)]
       /\ left' = [left EXCEPT ![p] = IF c.name = "ADD" /\ c.type # "set" THEN c.n ELSE 1]
       /\ seen' = [seen EXCEPT ![p] = IF c.name = "KEYS" THEN now ELSE NoTtl]
       /\ Goto(p, Entry(c))
  /\ UNCHANGED <<maps, found, reply>>

(* framed.send(response) *)
Return(p) ==
  /\ pc[p] = "done"
  /\ Goto(p, "idle")
  /\ cmd' = [cmd EXCEPT ![p] = Sweep]
  /\ at' = [at EXCEPT ![p] = Sweep.key]
  /\ phase' = [phase EXCEPT ![p] = "op"]
  /\ seen' = [seen EXCEPT ![p] = NoTtl]
  /\ todo' = [todo EXCEPT ![p] = {}]
  /\ left' = [left EXCEPT ![p] = 0]
  /\ Answer(p, NoReply)
  /\ UNCHANGED <<maps, found>>

-----------------------------------------------------------------------------
(* check_expiration: copy the deadline out of the map, ... *)
Alive(p) == IF phase[p] = "type" THEN "type_of" ELSE "body"

ReadTtl(p) ==
  /\ pc[p] = "read_ttl"
  /\ seen' = [seen EXCEPT ![p] = expirations[at[p]]]
  /\ Goto(p, IF expirations[at[p]] = NoTtl THEN Alive(p) ELSE "judge")
  /\ UNCHANGED <<maps, phase, cmd, at, loops, reply>>

(* ... then compare the copy with the clock and remove the data ... *)
Judge(p) ==
  /\ pc[p] = "judge"
  /\ IF now >= seen[p]
     THEN Write(at[p], Absent) /\ Goto(p, "drop_ttl")
     ELSE UNCHANGED data /\ Goto(p, Alive(p))
  /\ UNCHANGED <<expirations, now, phase, cmd, at, seen, loops, reply>>

(* ... then remove the deadline.  The caller learns that the key is gone:   *)
(* ensure_type passes, a writer goes on to create the key, a reader        *)
(* answers nil.                                                            *)
WhenGone(p) ==
  IF phase[p] = "type" THEN "read_ttl"
  ELSE CASE cmd[p].name \in Creators -> "body"
         [] cmd[p].name = "SET" /\ cmd[p].cond # "xx" -> "set_data"
         [] OTHER -> "done"

DropTtl(p) ==
  /\ pc[p] = "drop_ttl"
  /\ SetDeadline(at[p], NoTtl)
  /\ phase' = [phase EXCEPT ![p] = "op"]
  /\ Goto(p, WhenGone(p))
  /\ IF WhenGone(p) = "done" THEN Answer(p, Nil) ELSE UNCHANGED reply
  /\ UNCHANGED <<data, now, cmd, at, seen, loops>>

(* type_of's look at the value, and ensure_type's verdict *)
EnsureType(p) ==
  LET actual   == TypeName(data[at[p]])
      expected == cmd[p].type
  IN  /\ pc[p] = "type_of"
      /\ phase' = [phase EXCEPT ![p] = "op"]
      /\ IF actual \in {"none", expected}
         THEN Goto(p, "read_ttl") /\ UNCHANGED reply
         ELSE Goto(p, "done") /\ Answer(p, Error)
      /\ UNCHANGED <<maps, cmd, at, seen, loops>>

-----------------------------------------------------------------------------
(* handle_set: NX and XX are decided on contains_key, before store.set *)
DecideSet(p) ==
  LET exists == data[at[p]] # Absent
      refuse == (cmd[p].cond = "nx" /\ exists) \/ (cmd[p].cond = "xx" /\ ~exists)
  IN  /\ pc[p] = "body" /\ cmd[p].name = "SET"
      /\ IF refuse THEN Goto(p, "done") /\ Answer(p, Nil)
                   ELSE Goto(p, "set_data") /\ UNCHANGED reply
      /\ UNCHANGED <<maps, phase, cmd, at, seen, loops>>

(* expire: contains_key, before set_expiration; pttl: exists, before the    *)
(* deadline is read again                                                  *)
FindKey(p) ==
  /\ pc[p] = "body" /\ cmd[p].name \in {"EXPIRE", "TTL"}
  /\ IF data[at[p]] = Absent
     THEN Goto(p, "done") /\ Answer(p, Nil)
     ELSE /\ Goto(p, IF cmd[p].name = "EXPIRE" THEN "set_ttl" ELSE "get_ttl")
          /\ UNCHANGED reply
  /\ UNCHANGED <<maps, phase, cmd, at, seen, loops>>

GetTtl(p) ==
  /\ pc[p] = "get_ttl"
  /\ Goto(p, "done")
  /\ LET deadline == expirations[at[p]]
     IN  Answer(p, IF deadline = NoTtl THEN Count(-1)
                   ELSE IF deadline < now THEN Count(0) ELSE Count(deadline - now))
  /\ UNCHANGED <<maps, phase, cmd, at, seen, loops>>

(* Does the entry's operation leave should_remove set? *)
EmptiedBySet(c, v) ==   \* bug: l_pop and r_pop keep the key of an emptied list
  c.name = "REM" /\ c.type # "list" /\ IsEmpty(v)
Emptied(c, v) == c.name = "REM" /\ IsEmpty(v)

(* The operation on the entry itself.  A remover that empties a collection  *)
(* has released the entry before it removes the key; a push of several     *)
(* values starts over for each of them.                                    *)
Operate(p) ==
  LET c == cmd[p]
  IN  /\ pc[p] = "body" /\ c.name \notin {"SET", "EXPIRE", "TTL"}
      /\ \E e \in Effect(c, data[at[p]]) :
           LET emptied == Emptied(c, e.val)
               again   == c.name = "ADD" /\ left[p] > 1
           IN  /\ Write(at[p], e.val)
               /\ Answer(p, e.reply)
               /\ todo' = [todo EXCEPT ![p] = IF emptied THEN {at[p]} ELSE {}]
               /\ Goto(p, CASE emptied -> "del_data"
                            [] again   -> "read_ttl"
                            [] OTHER   -> "done")
      /\ left' = [left EXCEPT ![p] = @ - 1]
      /\ UNCHANGED <<expirations, now, phase, cmd, at, seen, found>>

-----------------------------------------------------------------------------
(* set: insert the value, then set or clear the deadline; MSET repeats it *)
SetData(p) ==
  /\ pc[p] = "set_data"
  /\ \E k \in todo[p] :
       /\ Write(k, NewString(cmd[p]))
       /\ at' = [at EXCEPT ![p] = k]
       /\ todo' = [todo EXCEPT ![p] = @ \ {k}]
  /\ Answer(p, Ok)
  /\ Goto(p, "set_ttl")
  /\ UNCHANGED <<expirations, now, phase, cmd, seen, found, left>>

(* set_expiration *)
SetTtl(p) ==
  LET ttl == cmd[p].ttl
  IN  /\ pc[p] = "set_ttl"
      /\ SetDeadline(at[p], IF ttl = NoTtl THEN NoTtl ELSE now + ttl)
      /\ Answer(p, Ok)
      /\ Goto(p, IF todo[p] = {} THEN "done" ELSE "set_data")
      /\ UNCHANGED <<data, now, phase, cmd, at, seen, loops>>

(* data.remove(key).is_some() *)
Named(k)   == 1   \* bug: DEL counts the keys it was given
Removed(k) == IF data[k] = Absent THEN 0 ELSE 1

(* The loop of del, of evict_expired over the keys it found, and of a       *)
(* remover that emptied its collection: data first, ...                    *)
DelData(p) ==
  /\ pc[p] = "del_data"
  /\ \E k \in todo[p] :
       /\ Write(k, Absent)
       /\ at' = [at EXCEPT ![p] = k]
       /\ todo' = [todo EXCEPT ![p] = @ \ {k}]
       /\ IF cmd[p].name = "DEL"
          THEN Answer(p, Count(reply[p].n + Removed(k)))
          ELSE UNCHANGED reply
  /\ Goto(p, "del_ttl")
  /\ UNCHANGED <<expirations, now, phase, cmd, seen, found, left>>

(* ... then the deadline *)
DelTtl(p) ==
  /\ pc[p] = "del_ttl"
  /\ SetDeadline(at[p], NoTtl)
  /\ Goto(p, IF todo[p] = {} THEN "done" ELSE "del_data")
  /\ UNCHANGED <<data, now, phase, cmd, at, seen, loops, reply>>

-----------------------------------------------------------------------------
IsExpired(k, t) == expirations[k] # NoTtl /\ t >= expirations[k]

CollectsData(k, t) ==   \* bug: walks the data map, missing a deadline without a key
  data[k] # Absent /\ IsExpired(k, t)
Collects(k, t) == IsExpired(k, t)

(* evict_expired collects the keys whose deadline has passed at the time it *)
(* started, one entry of the map at a time.                                *)
Scan(p) ==
  /\ pc[p] = "scan"
  /\ \E k \in todo[p] :
       LET rest    == todo[p] \ {k}
           expired == IF Collects(k, seen[p]) THEN found[p] \cup {k} ELSE found[p]
           last    == rest = {}
       IN  /\ todo' = [todo EXCEPT ![p] = IF last THEN expired ELSE rest]
           /\ found' = [found EXCEPT ![p] = IF last THEN {} ELSE expired]
           /\ Goto(p, IF ~last THEN "scan"
                      ELSE IF expired = {} THEN "done" ELSE "del_data")
  /\ UNCHANGED <<maps, phase, cmd, at, seen, left, reply>>

(* flush_all: DashMap::clear empties one shard after the other *)
ClearData(p) ==
  /\ pc[p] = "clear_data"
  /\ \E k \in todo[p] :
       /\ Write(k, Absent)
       /\ LET last == todo[p] = {k}
          IN  /\ todo' = [todo EXCEPT ![p] = IF last THEN Key ELSE @ \ {k}]
              /\ Goto(p, IF last THEN "clear_ttl" ELSE "clear_data")
  /\ UNCHANGED <<expirations, now, phase, cmd, at, seen, found, left, reply>>

ClearTtl(p) ==
  /\ pc[p] = "clear_ttl"
  /\ \E k \in todo[p] :
       /\ SetDeadline(k, NoTtl)
       /\ todo' = [todo EXCEPT ![p] = @ \ {k}]
       /\ Goto(p, IF todo[p] = {k} THEN "done" ELSE "clear_ttl")
  /\ UNCHANGED <<data, now, phase, cmd, at, seen, found, left, reply>>

-----------------------------------------------------------------------------
Tick ==
  /\ now < MaxTime
  /\ now' = now + 1
  /\ UNCHANGED <<data, expirations, pc, phase, cmd, at, seen, loops, reply>>

(* A step of the command a task is running. *)
Step(p) ==
  \/ ReadTtl(p) \/ Judge(p) \/ DropTtl(p) \/ EnsureType(p)
  \/ DecideSet(p) \/ FindKey(p) \/ GetTtl(p) \/ Operate(p)
  \/ SetData(p) \/ SetTtl(p) \/ DelData(p) \/ DelTtl(p)
  \/ Scan(p) \/ ClearData(p) \/ ClearTtl(p) \/ Return(p)

Next == Tick \/ \E p \in Task : Begin(p) \/ Step(p)

(* A handler is synchronous code: once started it runs to its end.  The     *)
(* evictor's interval keeps ticking.  Clients need not send anything.      *)
Fairness ==
  /\ \A p \in Task : WF_vars(Step(p))
  /\ \A p \in Evictors : WF_vars(Begin(p))

Spec == Init /\ [][Next]_vars /\ Fairness

-----------------------------------------------------------------------------
(* A remover empties a collection, releases the entry, and only then        *)
(* removes the key: an empty collection is in the map only while some task *)
(* is about to remove just that key.  None is left when all are idle.      *)
EmptyIsClaimed ==
  \A k \in Key : IsEmpty(data[k]) =>
    \E p \in Task : pc[p] = "del_data" /\ todo[p] = {k}

(* ensure_type looks at the type of a key one lock earlier than the command *)
(* works on it.  Whatever happens in between, a value of one type is never *)
(* turned into another type in place, SET and MSET overwriting it apart.   *)
TypeNeverFlips ==
  [][\A k \in Key :
       \/ TypeName(data'[k]) \in {TypeName(data[k]), "none"}
       \/ data[k] = Absent
       \/ \E p \in Task : pc[p] = "set_data" /\ k \in todo[p]]_vars

(* The evictor owes every deadline that has passed its removal, whoever set *)
(* it and in whatever order the two maps were written: an expired key or a *)
(* deadline without a key does not stay for ever, even if no client looks. *)
ExpiredKeysGoAway ==
  \A k \in Key : IsExpired(k, now) ~> ~IsExpired(k, now)

(* With one client and no evictor the two maps agree between commands: a    *)
(* deadline always belongs to a key, so that a key created later by INCR,  *)
(* APPEND or a push cannot inherit the deadline of a dead one.             *)
NoOrphanTtl ==
  (\A p \in Task : pc[p] = "idle") =>
    \A k \in Key : expirations[k] # NoTtl => data[k] # Absent

(* evict_expired: "Remove all expired keys".  A key with data that a sweep  *)
(* or a lazy check removes has a deadline, and it has passed.              *)
ExpiryTakesOnlyTheExpired ==
  [][\A k \in Key, p \in Task :
       /\ data[k] # Absent /\ data'[k] = Absent /\ at'[p] = k
       /\ \/ pc[p] = "judge" /\ pc'[p] = "drop_ttl"
          \/ pc[p] = "del_data" /\ cmd[p].name = "KEYS" /\ pc'[p] = "del_ttl"
       => IsExpired(k, now)]_vars

-----------------------------------------------------------------------------
(***************************************************************************)
(* The promise of "concurrency-safe primitives": a command on one key acts *)
(* at one instant between its request and its reply, on what the other     *)
(* commands left.  A collection with no member counts as absent.           *)
(***************************************************************************)
Visible == [k \in Key |-> IF IsEmpty(data[k]) THEN Absent ELSE data[k]]

Calls ==
  [p \in Client |->
     [stage |-> IF pc[p] = "idle" THEN "idle"
                ELSE IF reply[p] = NoReply THEN "pending" ELSE "done",
      cmd |-> cmd[p], reply |-> reply[p]]]

Atomic == INSTANCE Keyspace WITH kv <- Visible, call <- Calls, NoCommand <- Sweep

CommandsAreAtomic == Atomic!Spec
=============================================================================
