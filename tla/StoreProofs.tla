---------------------------- MODULE StoreProofs ----------------------------
(* Theorems about Store, for every set of clients, keys and commands.      *)
EXTENDS Store, TLAPS

(* What an operation on an entry leaves is a stored value again, and what   *)
(* it answers is a reply.                                                  *)
LEMMA EffectType ==
  ASSUME NEW c \in Command, NEW v \in StoredValue, NEW e \in Effect(c, v)
  PROVE  e.val \in StoredValue /\ e.reply \in Reply
<1> USE DEF StoredValue, Reply, Stored, Kinds, Collections, Outcome, Absent
<1>1. CASE c.name = "INCR"
  BY <1>1 DEF Effect, Adjust, Error, Command
<1>2. CASE c.name = "APPEND"
  BY <1>2 DEF Effect, AppendTo, Ok, Count
<1>3. CASE c.name = "ADD"
  BY <1>3 DEF Effect, AddTo, SizesAfterAdd, Ok, Count, Command
<1>4. CASE c.name = "REM"
  BY <1>4 DEF Effect, RemFrom, SizesAfterRem, Ok, Nil, Command
<1>5. CASE c.name \notin {"INCR", "APPEND", "ADD", "REM"}
  BY <1>5 DEF Effect, ReadOf, Ok, Nil, Count
<1> QED BY <1>1, <1>2, <1>3, <1>4, <1>5

(* The operation on an entry keeps the type of a value it finds. *)
LEMMA EffectKeepsType ==
  ASSUME NEW c \in Command, NEW v \in StoredValue, NEW e \in Effect(c, v), v # Absent
  PROVE  TypeName(e.val) = TypeName(v)
<1> USE DEF TypeName, Stored, Outcome
<1>1. CASE c.name = "INCR"
  BY <1>1 DEF Effect, Adjust
<1>2. CASE c.name = "APPEND"
  BY <1>2 DEF Effect, AppendTo
<1>3. CASE c.name = "ADD"
  BY <1>3 DEF Effect, AddTo
<1>4. CASE c.name = "REM"
  BY <1>4 DEF Effect, RemFrom
<1>5. CASE c.name \notin {"INCR", "APPEND", "ADD", "REM"}
  BY <1>5 DEF Effect
<1> QED BY <1>1, <1>2, <1>3, <1>4, <1>5

(* Only a removal can leave a collection empty that was not empty. *)
LEMMA OnlyRemEmpties ==
  ASSUME NEW c \in Command, NEW v \in StoredValue, NEW e \in Effect(c, v),
         IsEmpty(e.val), c.name # "REM"
  PROVE  IsEmpty(v)
<1> USE DEF IsEmpty, Stored, Outcome
<1>1. CASE c.name = "INCR"
  BY <1>1 DEF Effect, Adjust, Collections
<1>2. CASE c.name = "APPEND"
  BY <1>2 DEF Effect, AppendTo, Collections
<1>3. CASE c.name = "ADD"
  BY <1>3 DEF Effect, AddTo, SizesAfterAdd, StoredValue, Absent, Collections
<1>4. CASE c.name \notin {"INCR", "APPEND", "ADD", "REM"}
  BY <1>4 DEF Effect
<1> QED BY <1>1, <1>2, <1>3, <1>4

-----------------------------------------------------------------------------
LEMMA SweepIsCommand == Sweep \in Command /\ Sweep.key \in Key
  BY KeyAssumption DEF Sweep, Command, Names, Readers, Creators, Collections, NoTtl

LEMMA CommandFields ==
  ASSUME NEW c \in Command
  PROVE  /\ c.key \in Key /\ c.keys \in SUBSET Key /\ c.n \in Int
         /\ c.ttl \in Nat \cup {NoTtl} /\ LoopKeys(c) \in SUBSET Key
         /\ c.name \in {"SET", "MSET"} => NewString(c) \in StoredValue
  BY DEF Command, LoopKeys, NewString, Stored, StoredValue, Kinds, Collections

LEMMA ReplyTypes ==
  /\ NoReply \in Reply /\ Nil \in Reply /\ Ok \in Reply /\ Error \in Reply
  /\ \A n \in Int : Count(n) \in Reply
  /\ Absent \in StoredValue
  BY DEF NoReply, Nil, Ok, Error, Count, Absent, Stored, Reply, StoredValue, Kinds, Collections

-----------------------------------------------------------------------------
(* Where a task may be for the command it runs: the write of a string is    *)
(* reached by SET and MSET only.  TypeOK is not inductive without it, since *)
(* what is written is taken from the command.                              *)
Control ==
  \A p \in Task :
    /\ pc[p] = "set_data" => cmd[p].name \in {"SET", "MSET"}
    /\ pc[p] = "set_ttl" => cmd[p].name \in {"SET", "MSET", "EXPIRE"}
    /\ cmd[p].name = "EXPIRE" => todo[p] = {}

LEMMA TypeInit == Init => TypeOK /\ Control
<1>1. ASSUME Init PROVE TypeOK
  BY <1>1, SweepIsCommand, ReplyTypes DEF Init, TypeOK, Labels
<1>2. ASSUME Init PROVE Control
  BY <1>2 DEF Init, Control, Sweep
<1> QED BY <1>1, <1>2

(* Every step of a task keeps the types of the two maps and of its registers. *)
LEMMA TypeStep ==
  ASSUME TypeOK, Control, NEW p \in Task, Begin(p) \/ Step(p)
  PROVE  TypeOK'
<1> USE DEF TypeOK, Goto, Labels, NoTtl
<1>1. CASE Begin(p)
  BY <1>1, CommandFields, SweepIsCommand, CommandsAssumption DEF Begin, Entry, maps
<1>2. CASE ReadTtl(p)
  BY <1>2 DEF ReadTtl, Alive, maps, loops
<1>3. CASE Judge(p)
  BY <1>3, ReplyTypes DEF Judge, Alive, Write, loops
<1>4. CASE DropTtl(p)
  BY <1>4, ReplyTypes DEF DropTtl, WhenGone, SetDeadline, Answer, loops
<1>5. CASE EnsureType(p)
  BY <1>5, ReplyTypes DEF EnsureType, Answer, maps, loops
<1>6. CASE DecideSet(p)
  BY <1>6, ReplyTypes DEF DecideSet, Answer, maps, loops
<1>7. CASE FindKey(p)
  BY <1>7, ReplyTypes DEF FindKey, Answer, maps, loops
<1>8. CASE GetTtl(p)
  BY <1>8, ReplyTypes DEF GetTtl, Answer, maps, loops
<1>9. CASE Operate(p)
  BY <1>9, EffectType DEF Operate, Write, Answer
<1>10. CASE SetData(p)
  BY <1>10, ReplyTypes, CommandFields DEF SetData, Write, Answer, Control
<1>11. CASE SetTtl(p)
  BY <1>11, ReplyTypes, CommandFields DEF SetTtl, SetDeadline, Answer, loops
<1>12. CASE DelData(p)
  <2>1. PICK k \in todo[p] : DelData(p)!2!(k)
    BY <1>12 DEF DelData
  <2>2. reply[p].n + Removed(k) \in Int
    BY DEF Reply, Removed
  <2> QED BY <1>12, <2>1, <2>2, ReplyTypes DEF DelData, Write, Answer
<1>13. CASE DelTtl(p)
  BY <1>13 DEF DelTtl, SetDeadline, loops
<1>14. CASE Scan(p)
  BY <1>14 DEF Scan, maps
<1>15. CASE ClearData(p)
  BY <1>15, ReplyTypes DEF ClearData, Write
<1>16. CASE ClearTtl(p)
  BY <1>16 DEF ClearTtl, SetDeadline
<1>17. CASE Return(p)
  BY <1>17, ReplyTypes, SweepIsCommand DEF Return, Answer, maps
<1> QED BY <1>1, <1>2, <1>3, <1>4, <1>5, <1>6, <1>7, <1>8, <1>9, <1>10, <1>11, <1>12, <1>13, <1>14, <1>15, <1>16, <1>17 DEF Step

(* Every step of a task keeps it where its command may be. *)
LEMMA ControlStep ==
  ASSUME TypeOK, Control, NEW p \in Task, Begin(p) \/ Step(p)
  PROVE  Control'
<1> USE DEF TypeOK, Control, Goto
<1>1. CASE Begin(p)
  BY <1>1 DEF Begin, Entry, LoopKeys
<1>2. CASE ReadTtl(p)
  BY <1>2 DEF ReadTtl, Alive, loops
<1>3. CASE Judge(p)
  BY <1>3 DEF Judge, Alive, loops
<1>4. CASE DropTtl(p)
  BY <1>4 DEF DropTtl, WhenGone, loops
<1>5. CASE EnsureType(p)
  BY <1>5 DEF EnsureType, loops
<1>6. CASE DecideSet(p)
  BY <1>6 DEF DecideSet, loops
<1>7. CASE FindKey(p)
  BY <1>7 DEF FindKey, loops
<1>8. CASE GetTtl(p)
  BY <1>8 DEF GetTtl, loops
<1>9. CASE Operate(p)
  BY <1>9 DEF Operate
<1>10. CASE SetData(p)
  BY <1>10 DEF SetData
<1>11. CASE SetTtl(p)
  BY <1>11 DEF SetTtl, loops
<1>12. CASE DelData(p)
  BY <1>12 DEF DelData
<1>13. CASE DelTtl(p)
  BY <1>13 DEF DelTtl, loops
<1>14. CASE Scan(p)
  BY <1>14 DEF Scan
<1>15. CASE ClearData(p)
  BY <1>15 DEF ClearData
<1>16. CASE ClearTtl(p)
  BY <1>16 DEF ClearTtl
<1>17. CASE Return(p)
  BY <1>17 DEF Return, Sweep
<1> QED BY <1>1, <1>2, <1>3, <1>4, <1>5, <1>6, <1>7, <1>8, <1>9, <1>10, <1>11, <1>12, <1>13, <1>14, <1>15, <1>16, <1>17 DEF Step

-----------------------------------------------------------------------------
LEMMA TypeTick == ASSUME TypeOK, Control, Tick PROVE TypeOK' /\ Control'
  BY DEF TypeOK, Control, Tick, loops

LEMMA TypeStutter ==
  ASSUME TypeOK, Control, UNCHANGED vars PROVE TypeOK' /\ Control'
  BY DEF TypeOK, Control, vars, maps, loops

(* Whatever the clients send and however their steps interleave with each   *)
(* other and with the evictor, both maps and every register of every task  *)
(* keep their types, and no task strays from the labels of its command.    *)
THEOREM TypeCorrect == Spec => [](TypeOK /\ Control)
<1>1. TypeOK /\ Control /\ [Next]_vars => (TypeOK /\ Control)'
  BY TypeStep, ControlStep, TypeTick, TypeStutter DEF Next
<1> QED BY <1>1, TypeInit, PTL DEF Spec

-----------------------------------------------------------------------------
LEMMA StringsAreNotEmpty ==
  /\ ~IsEmpty(Absent)
  /\ \A c \in Command : c.name \in {"SET", "MSET"} => ~IsEmpty(NewString(c))
  BY DEF IsEmpty, Absent, NewString, Stored, Collections, Command

(* A task that is not removing a key leaves the claims of the others alone; *)
(* so a step that writes no empty collection keeps EmptyIsClaimed.         *)
LEMMA ClaimsKept ==
  ASSUME EmptyIsClaimed, NEW p \in Task, pc[p] # "del_data",
         \A q \in Task \ {p} : pc'[q] = pc[q] /\ todo'[q] = todo[q],
         NEW k \in Key, IsEmpty(data[k])
  PROVE  \E q \in Task : pc'[q] = "del_data" /\ todo'[q] = {k}
  BY DEF EmptyIsClaimed

LEMMA EmptyStep ==
  ASSUME TypeOK, Control, EmptyIsClaimed, NEW p \in Task, Begin(p) \/ Step(p)
  PROVE  EmptyIsClaimed'
<1> SUFFICES ASSUME NEW k \in Key, IsEmpty(data'[k])
             PROVE  \E q \in Task : pc'[q] = "del_data" /\ todo'[q] = {k}
  BY DEF EmptyIsClaimed
<1> USE DEF TypeOK, Goto, Write
<1>1. CASE /\ data' = data
           /\ pc[p] # "del_data"
           /\ \A q \in Task \ {p} : pc'[q] = pc[q] /\ todo'[q] = todo[q]
  BY <1>1, ClaimsKept
<1>2. CASE Begin(p) \/ ReadTtl(p) \/ DropTtl(p) \/ EnsureType(p) \/ DecideSet(p) \/ FindKey(p)
           \/ GetTtl(p) \/ SetTtl(p) \/ DelTtl(p) \/ Scan(p) \/ ClearTtl(p) \/ Return(p)
  BY <1>2, <1>1 DEF Begin, ReadTtl, DropTtl, EnsureType, DecideSet, FindKey, GetTtl, SetTtl, DelTtl, Scan, ClearTtl, Return, maps, loops
<1>3. CASE Judge(p)
  BY <1>3, ClaimsKept, StringsAreNotEmpty DEF Judge, loops
<1>4. CASE SetData(p)
  <2>1. PICK w \in todo[p] : data' = [data EXCEPT ![w] = NewString(cmd[p])]
    BY <1>4 DEF SetData
  <2>2. ~IsEmpty(NewString(cmd[p]))
    BY <1>4, StringsAreNotEmpty DEF SetData, Control
  <2>3. IsEmpty(data[k])
    BY <2>1, <2>2
  <2> QED BY <1>4, <2>3, ClaimsKept DEF SetData
<1>5. CASE ClearData(p)
  BY <1>5, ClaimsKept, StringsAreNotEmpty DEF ClearData
<1>6. CASE DelData(p)
  <2>1. PICK d \in todo[p] : data' = [data EXCEPT ![d] = Absent]
    BY <1>6 DEF DelData
  <2>2. k # d /\ IsEmpty(data[k])
    BY <2>1, StringsAreNotEmpty
  <2>3. PICK q \in Task : pc[q] = "del_data" /\ todo[q] = {k}
    BY <2>2 DEF EmptyIsClaimed
  <2>4. q # p
    BY <2>1, <2>2, <2>3
  <2> QED BY <1>6, <2>3, <2>4 DEF DelData
<1>7. CASE Operate(p)
  <2>1. PICK e \in Effect(cmd[p], data[at[p]]) :
          /\ data' = [data EXCEPT ![at[p]] = e.val]
          /\ cmd[p].name = "REM" /\ IsEmpty(e.val) =>
               pc' = [pc EXCEPT ![p] = "del_data"] /\ todo' = [todo EXCEPT ![p] = {at[p]}]
    BY <1>7 DEF Operate, Emptied
  <2>2. CASE k = at[p] /\ cmd[p].name = "REM"
    BY <2>1, <2>2
  <2>3. CASE k # at[p] \/ cmd[p].name # "REM"
    <3>1. IsEmpty(data[k])
      BY <2>1, <2>3, OnlyRemEmpties
    <3>2. \A q \in Task \ {p} : pc'[q] = pc[q] /\ todo'[q] = todo[q]
      BY <1>7 DEF Operate
    <3> QED BY <1>7, <3>1, <3>2, ClaimsKept DEF Operate
  <2> QED BY <2>2, <2>3
<1> QED BY <1>2, <1>3, <1>4, <1>5, <1>6, <1>7 DEF Step

(* However removers, pushers, deletions and the evictor interleave, an      *)
(* empty collection in the data map has a task about to remove its key: no *)
(* history of commands leaves one behind for readers to find.              *)
THEOREM EmptyCollectionsAreClaimed == Spec => []EmptyIsClaimed
<1>1. Init => EmptyIsClaimed
  BY StringsAreNotEmpty DEF Init, EmptyIsClaimed
<1>2. TypeOK /\ Control /\ EmptyIsClaimed /\ [Next]_vars => EmptyIsClaimed'
  <2>1. ASSUME EmptyIsClaimed, Tick \/ UNCHANGED vars PROVE EmptyIsClaimed'
    BY <2>1 DEF EmptyIsClaimed, Tick, vars, maps, loops
  <2> QED BY <2>1, EmptyStep DEF Next
<1> QED BY <1>1, <1>2, TypeCorrect, PTL DEF Spec

-----------------------------------------------------------------------------
(* The step that may change the type of a key without removing it first is  *)
(* the insertion of SET and MSET.                                          *)
FlipOnlyBySet ==
  \A k \in Key :
    \/ TypeName(data'[k]) \in {TypeName(data[k]), "none"}
    \/ data[k] = Absent
    \/ \E p \in Task : pc[p] = "set_data" /\ k \in todo[p]

LEMMA FlipStep ==
  ASSUME TypeOK, NEW p \in Task, Begin(p) \/ Step(p)
  PROVE  FlipOnlyBySet
<1> USE DEF TypeOK, FlipOnlyBySet, Write
<1>1. TypeName(Absent) = "none"
  BY DEF TypeName, Absent, Stored
<1>2. CASE data' = data
  BY <1>2
<1>3. CASE Judge(p) \/ DelData(p) \/ ClearData(p)
  BY <1>1, <1>3 DEF Judge, DelData, ClearData
<1>4. CASE SetData(p)
  BY <1>4 DEF SetData
<1>5. CASE Operate(p)
  <2>1. PICK e \in Effect(cmd[p], data[at[p]]) : data' = [data EXCEPT ![at[p]] = e.val]
    BY <1>5 DEF Operate
  <2> QED BY <2>1, EffectKeepsType
<1> QED
  BY <1>2, <1>3, <1>4, <1>5
  DEF Step, maps, Begin, ReadTtl, DropTtl, EnsureType, DecideSet, FindKey, GetTtl, SetTtl, DelTtl, Scan, ClearTtl, Return

(* A command that passed ensure_type and finds another type when it gets to *)
(* the entry leaves the value as it is: on no run does a value of one type *)
(* become a value of another type in place, SET and MSET apart.            *)
THEOREM TypesDoNotFlip == Spec => TypeNeverFlips
<1>1. TypeOK /\ [Next]_vars => [FlipOnlyBySet]_vars
  <2>1. ASSUME Tick PROVE FlipOnlyBySet
    BY <2>1 DEF Tick, FlipOnlyBySet
  <2> QED BY <2>1, FlipStep DEF Next
<1>2. Spec => [][FlipOnlyBySet]_vars
  BY <1>1, TypeCorrect, PTL DEF Spec
<1> QED BY <1>2 DEF TypeNeverFlips, FlipOnlyBySet

-----------------------------------------------------------------------------
(* Orphans: deadlines without a key.  While a lone client runs a command,    *)
(* only the removal of one key, data first, or of all of them may leave    *)
(* some, and it is about to take just these deadlines away.                *)
Orphans == {k \in Key : expirations[k] # NoTtl /\ data[k] = Absent}

OrphansOf(p) ==
  CASE pc[p] \in {"drop_ttl", "del_ttl"} -> {at[p]}
    [] pc[p] = "clear_data"              -> Key
    [] pc[p] = "clear_ttl"               -> todo[p]
    [] OTHER                             -> {}

OrphansAreTaken ==
  \A p \in Task :
    /\ Orphans \subseteq OrphansOf(p)
    /\ pc[p] = "set_ttl" => data[at[p]] # Absent

LEMMA EffectKeepsPresence ==
  ASSUME NEW c \in Command, NEW v \in StoredValue, NEW e \in Effect(c, v), v # Absent
  PROVE  e.val # Absent
<1> USE DEF Stored, Outcome, Absent
<1>1. CASE c.name = "INCR"
  BY <1>1 DEF Effect, Adjust
<1>2. CASE c.name = "APPEND"
  BY <1>2 DEF Effect, AppendTo
<1>3. CASE c.name = "ADD"
  BY <1>3 DEF Effect, AddTo, Command, Collections
<1>4. CASE c.name = "REM"
  BY <1>4 DEF Effect, RemFrom, Command, Collections
<1>5. CASE c.name \notin {"INCR", "APPEND", "ADD", "REM"}
  BY <1>5 DEF Effect
<1> QED BY <1>1, <1>2, <1>3, <1>4, <1>5

(* One step of the only task there is. *)
LEMMA OrphanStep ==
  ASSUME TypeOK, Control, OrphansAreTaken,
         NEW p \in Task, \A q \in Task : q = p,
         Begin(p) \/ Step(p)
  PROVE  OrphansAreTaken'
<1> SUFFICES /\ Orphans' \subseteq OrphansOf(p)'
             /\ pc'[p] = "set_ttl" => data'[at'[p]] # Absent
  BY DEF OrphansAreTaken
<1> USE DEF TypeOK, OrphansAreTaken, Orphans, OrphansOf, Goto, Write, SetDeadline
<1>1. CASE Begin(p)
  BY <1>1 DEF Begin, Entry, maps
<1>2. CASE ReadTtl(p) \/ EnsureType(p) \/ DecideSet(p) \/ FindKey(p) \/ GetTtl(p)
  BY <1>2 DEF ReadTtl, Alive, EnsureType, DecideSet, FindKey, GetTtl, maps
<1>3. CASE Judge(p)
  BY <1>3 DEF Judge, Alive
<1>4. CASE DropTtl(p)
  BY <1>4 DEF DropTtl, WhenGone
<1>5. CASE Operate(p)
  <2>1. PICK e \in Effect(cmd[p], data[at[p]]) : data' = [data EXCEPT ![at[p]] = e.val]
    BY <1>5 DEF Operate
  <2>2. data[at[p]] # Absent => e.val # Absent
    BY EffectKeepsPresence
  <2>3. pc[p] = "body" /\ expirations' = expirations /\ pc'[p] \in {"del_data", "read_ttl", "done"}
    BY <1>5 DEF Operate
  <2> QED BY <2>1, <2>2, <2>3
<1>6. CASE SetData(p)
  <2>1. NewString(cmd[p]) # Absent
    BY <1>6 DEF SetData, Control, NewString, Absent, Stored, Command
  <2> QED BY <1>6, <2>1 DEF SetData
<1>7. CASE SetTtl(p)
  BY <1>7 DEF SetTtl
<1>8. CASE DelData(p)
  BY <1>8 DEF DelData
<1>9. CASE DelTtl(p)
  BY <1>9 DEF DelTtl
<1>10. CASE Scan(p)
  BY <1>10 DEF Scan, maps
<1>11. CASE ClearData(p)
  BY <1>11 DEF ClearData
<1>12. CASE ClearTtl(p)
  BY <1>12 DEF ClearTtl
<1>13. CASE Return(p)
  BY <1>13 DEF Return, maps
<1> QED BY <1>1, <1>2, <1>3, <1>4, <1>5, <1>6, <1>7, <1>8, <1>9, <1>10, <1>11, <1>12, <1>13 DEF Step

(* With one client and no evictor, whatever it sends: between its commands  *)
(* no deadline is without a key, so none is left for a key created later.  *)
(* The hypothesis is what the run store_solo instantiates; with a second   *)
(* task the statement is false.                                            *)
THEOREM LoneClientLeavesNoOrphans ==
  ASSUME NEW client, Client = {client}, Evictors = {}
  PROVE  Spec => []NoOrphanTtl
<1>1. client \in Task /\ \A p, q \in Task : p = q
  BY DEF Task
<1>2. Init => OrphansAreTaken
  BY DEF Init, OrphansAreTaken, Orphans
<1>3. TypeOK /\ Control /\ OrphansAreTaken /\ [Next]_vars => OrphansAreTaken'
  <2>1. ASSUME OrphansAreTaken, Tick \/ UNCHANGED vars PROVE OrphansAreTaken'
    BY <2>1 DEF OrphansAreTaken, Orphans, OrphansOf, Tick, vars, maps, loops
  <2> QED BY <1>1, <2>1, OrphanStep DEF Next
<1>4. OrphansAreTaken => NoOrphanTtl
  BY <1>1 DEF OrphansAreTaken, Orphans, OrphansOf, NoOrphanTtl
<1> QED BY <1>2, <1>3, <1>4, TypeCorrect, PTL DEF Spec

-----------------------------------------------------------------------------
(* A plain command works on one key and with no deadline, and its work is    *)
(* one operation on the entry, or one insertion or removal.                *)
Plain(c) ==
  /\ c.name \in {"GET", "EXISTS", "LEN", "INCR", "APPEND", "ADD", "SET", "DEL"}
  /\ c.name \in {"SET", "DEL"} => c.keys = {c.key}
  /\ c.name = "SET" => c.ttl = NoTtl /\ c.cond = "always"
  /\ c.name = "ADD" => c.n <= 1 \/ c.type = "set"

(* The clients agree on what type a key has. *)
Agrees(c, type) ==
  /\ c.name \in Typed => c.type = type
  /\ c.name \in {"GET", "SET", "INCR", "APPEND"} => type = "string"

(* The invariant the refinement needs: no deadline and no empty collection  *)
(* is in the maps, every value is of the type of its key, and a command    *)
(* has its reply exactly from its instant on.                              *)
Before(p) == pc[p] \in {"read_ttl", "type_of", "body", "set_data", "del_data"}
After(p)  == pc[p] \in {"set_ttl", "del_ttl", "done"}

DataFits(kind) ==
  \A k \in Key :
    /\ expirations[k] = NoTtl
    /\ data[k] = Absent \/ (TypeName(data[k]) = kind[k] /\ ~IsEmpty(data[k]))

ClientFits(p) ==
  /\ pc[p] = "idle" => cmd[p] = Sweep /\ reply[p] = NoReply
  /\ pc[p] # "idle" =>
       /\ cmd[p] \in Commands /\ at[p] = cmd[p].key
       /\ Before(p) \/ After(p)
       /\ Before(p) <=> reply[p] = NoReply
  /\ phase[p] = "type" => cmd[p].name \in Typed
  /\ pc[p] = "type_of" => cmd[p].name \in Typed
  /\ pc[p] \in {"read_ttl", "type_of", "body"} => cmd[p].name # "DEL"
  /\ pc[p] \in {"set_data", "set_ttl"} => cmd[p].name = "SET"
  /\ pc[p] \in {"del_data", "del_ttl"} => cmd[p].name = "DEL"
  /\ cmd[p].name \in {"SET", "DEL"} => todo[p] = IF Before(p) THEN {cmd[p].key} ELSE {}
  /\ left[p] <= 1
  /\ pc[p] = "set_ttl" => reply[p] = Ok

EvictorFits(p) == pc[p] \in {"idle", "scan", "done"} /\ found[p] = {}

PlainInv(kind) ==
  /\ DataFits(kind)
  /\ \A p \in Client : ClientFits(p)
  /\ \A p \in Evictors : EvictorFits(p)

(* The value an operation of a plain command leaves is of the type of the     *)
(* key, and not an empty collection.                                       *)
LEMMA PlainEffect ==
  ASSUME NEW c \in Command, Plain(c), c.name \notin {"SET", "DEL"}, NEW type, Agrees(c, type),
         NEW v \in StoredValue, v = Absent \/ (TypeName(v) = type /\ ~IsEmpty(v)),
         NEW e \in Effect(c, v)
  PROVE  /\ e.val = Absent \/ (TypeName(e.val) = type /\ ~IsEmpty(e.val))
         /\ e.reply # NoReply
<1> USE DEF Plain, Agrees, Typed, Stored, Outcome, Absent, TypeName, IsEmpty, NoReply, Collections
<1>1. CASE c.name = "INCR"
  BY <1>1 DEF Effect, Adjust, Error
<1>2. CASE c.name = "APPEND"
  BY <1>2 DEF Effect, AppendTo, Ok, Count
<1>3. CASE c.name = "ADD"
  BY <1>3 DEF Effect, AddTo, SizesAfterAdd, Ok, Count, Command, StoredValue
<1>4. CASE c.name \in {"GET", "EXISTS", "LEN"}
  BY <1>4 DEF Effect, ReadOf, Ok, Nil, Count, StoredValue, Kinds
<1> QED BY <1>1, <1>2, <1>3, <1>4

LEMMA OthersFit ==
  ASSUME NEW q \in Client, ClientFits(q),
         pc'[q] = pc[q], phase'[q] = phase[q], cmd'[q] = cmd[q], at'[q] = at[q],
         todo'[q] = todo[q], left'[q] = left[q], reply'[q] = reply[q]
  PROVE  ClientFits(q)'
  BY DEF ClientFits, Before, After

LEMMA ClientStepFits ==
  ASSUME TypeOK, NEW kind, PlainInv(kind), \A c \in Commands : Plain(c) /\ Agrees(c, kind[c.key]),
         NEW p \in Client, Begin(p) \/ Step(p)
  PROVE  DataFits(kind)' /\ ClientFits(p)'
<1> USE DEF PlainInv, DataFits
<1> DEFINE c == cmd[p]
<1>1. p \in Task /\ ClientFits(p) /\ p \notin Evictors
  BY TasksAssumption DEF Task
<1>2. ASSUME pc[p] # "idle" PROVE c \in Command /\ c.key \in Key /\ Plain(c) /\ Agrees(c, kind[c.key])
  BY <1>1, <1>2, CommandsAssumption DEF ClientFits, Command
<1>3. CASE Begin(p)
  <2>1. PICK b \in Commands :
          /\ cmd'[p] = b /\ at'[p] = b.key /\ pc'[p] = Entry(b)
          /\ phase'[p] = IF b.name \in Typed THEN "type" ELSE "op"
          /\ todo'[p] = LoopKeys(b)
          /\ left'[p] = IF b.name = "ADD" /\ b.type # "set" THEN b.n ELSE 1
    BY <1>1, <1>3 DEF Begin, TypeOK, Goto
  <2>2. pc[p] = "idle" /\ reply' = reply /\ UNCHANGED <<data, expirations>>
    BY <1>3 DEF Begin, maps
  <2>3. Plain(b) /\ b \in Command /\ reply'[p] = NoReply
    BY <1>1, <2>2, CommandsAssumption DEF ClientFits
  <2>4. pc'[p] = IF b.name = "DEL" THEN "del_data" ELSE "read_ttl"
    BY <2>1, <2>3 DEF Entry, Plain
  <2>5. b.name \in {"SET", "DEL"} => LoopKeys(b) = {b.key}
    BY <2>3 DEF LoopKeys, Plain
  <2>6. left'[p] <= 1
    BY <2>1, <2>3 DEF Plain
  <2> QED BY <2>1, <2>2, <2>3, <2>4, <2>5, <2>6 DEF ClientFits, Before, After
<1>4. CASE pc[p] # "idle" /\ UNCHANGED <<data, expirations, cmd, at, left, todo>>
           /\ (ReadTtl(p) \/ EnsureType(p) \/ DecideSet(p) \/ FindKey(p))
  <2>1. ClientFits(p)'
    <3>1. CASE ReadTtl(p)
      <4>1. expirations[at[p]] = NoTtl
        BY <1>1 DEF TypeOK
      <4>2. /\ pc[p] = "read_ttl" /\ UNCHANGED <<reply, phase>>
            /\ pc'[p] = IF phase[p] = "type" THEN "type_of" ELSE "body"
        BY <1>1, <3>1, <4>1 DEF ReadTtl, Alive, TypeOK, Goto
      <4> QED BY <1>1, <1>4, <4>2 DEF ClientFits, Before, After
    <3>2. CASE EnsureType(p)
      <4>1. pc[p] = "type_of" /\ at[p] = c.key /\ c.name \in Typed
        BY <1>1, <3>2 DEF EnsureType, ClientFits
      <4>2. TypeName(data[at[p]]) \in {"none", c.type}
        BY <1>2, <4>1 DEF Agrees, TypeName, Absent, Stored
      <4>3. pc'[p] = "read_ttl" /\ phase'[p] = "op" /\ UNCHANGED reply
        BY <1>1, <3>2, <4>2 DEF EnsureType, Goto, TypeOK
      <4> QED BY <1>1, <1>4, <4>1, <4>3 DEF ClientFits, Before, After, Typed
    <3>3. CASE DecideSet(p)
      <4>1. pc[p] = "body" /\ c.name = "SET" /\ c.cond = "always"
        BY <1>2, <3>3 DEF DecideSet, Plain
      <4>2. pc'[p] = "set_data" /\ UNCHANGED <<reply, phase>>
        BY <1>1, <3>3, <4>1 DEF DecideSet, Goto, TypeOK
      <4> QED BY <1>1, <1>4, <4>1, <4>2 DEF ClientFits, Before, After
    <3>4. CASE FindKey(p)
      BY <1>1, <1>2, <1>4, <3>4 DEF FindKey, Plain
    <3> QED BY <1>4, <3>1, <3>2, <3>3, <3>4
  <2> QED BY <1>4, <2>1
<1>5. CASE Operate(p)
  <2>1. pc[p] = "body" /\ c.name \notin {"SET", "DEL"} /\ at[p] = c.key /\ c \in Commands
    BY <1>1, <1>5 DEF Operate, ClientFits
  <2>2. PICK e \in Effect(c, data[c.key]) :
          /\ data' = [data EXCEPT ![c.key] = e.val] /\ reply'[p] = e.reply
          /\ pc'[p] = CASE Emptied(c, e.val) -> "del_data"
                        [] c.name = "ADD" /\ left[p] > 1 -> "read_ttl"
                        [] OTHER -> "done"
    BY <1>1, <1>5, <2>1 DEF Operate, Write, Answer, Goto, TypeOK
  <2>3. /\ e.val = Absent \/ (TypeName(e.val) = kind[c.key] /\ ~IsEmpty(e.val))
        /\ e.reply # NoReply
    BY <1>2, <2>1, PlainEffect DEF TypeOK
  <2>4. pc'[p] = "done"
    BY <1>1, <1>2, <2>1, <2>2 DEF ClientFits, Emptied, Plain, TypeOK
  <2>5. UNCHANGED <<expirations, cmd, at, phase>> /\ left'[p] = left[p] - 1
    BY <1>1, <1>5 DEF Operate, TypeOK
  <2>6. DataFits(kind)'
    BY <2>2, <2>3, <2>5 DEF TypeOK
  <2>7. ClientFits(p)'
    <3>1. reply'[p] # NoReply
      BY <2>2, <2>3
    <3>2. left'[p] <= 1
      BY <1>1, <2>5 DEF ClientFits, TypeOK
    <3> QED BY <1>1, <2>1, <2>4, <2>5, <3>1, <3>2 DEF ClientFits, Before, After
  <2> QED BY <2>6, <2>7
<1>6. CASE SetData(p)
  <2>1. /\ c.name = "SET" /\ todo[p] = {c.key} /\ at[p] = c.key /\ c \in Commands
    BY <1>1, <1>6 DEF SetData, ClientFits, Before
  <2>2. /\ data' = [data EXCEPT ![c.key] = NewString(c)] /\ reply'[p] = Ok
        /\ pc'[p] = "set_ttl" /\ at'[p] = c.key /\ todo'[p] = {}
        /\ UNCHANGED <<expirations, cmd, phase, left>>
    <3>1. PICK k \in todo[p] :
            /\ data' = [data EXCEPT ![k] = NewString(c)] /\ at' = [at EXCEPT ![p] = k]
            /\ todo' = [todo EXCEPT ![p] = @ \ {k}]
      BY <1>6 DEF SetData, Write
    <3>2. k = c.key
      BY <2>1, <3>1
    <3> QED BY <1>1, <1>6, <2>1, <3>1, <3>2 DEF SetData, Answer, Goto, TypeOK
  <2>3. TypeName(NewString(c)) = kind[c.key] /\ ~IsEmpty(NewString(c))
    BY <1>2, <1>6, <2>1 DEF SetData, Agrees, NewString, TypeName, IsEmpty, Collections, Stored, Command
  <2>4. DataFits(kind)'
    BY <2>2, <2>3 DEF TypeOK
  <2>5. ClientFits(p)'
    <3>1. reply'[p] # NoReply
      BY <2>2 DEF Ok, NoReply, Stored
    <3> QED BY <1>1, <2>1, <2>2, <3>1 DEF ClientFits, Before, After
  <2> QED BY <2>4, <2>5
<1>7. CASE SetTtl(p)
  <2>1. c.name = "SET" /\ todo[p] = {} /\ at[p] = c.key /\ c \in Commands /\ c.ttl = NoTtl
    BY <1>1, <1>2, <1>7 DEF SetTtl, ClientFits, Before, Plain
  <2>2. /\ expirations' = [expirations EXCEPT ![c.key] = NoTtl] /\ reply'[p] = Ok
        /\ pc'[p] = "done" /\ UNCHANGED <<data, cmd, at, todo, phase, left>>
    BY <1>1, <1>7, <2>1 DEF SetTtl, SetDeadline, Answer, Goto, TypeOK, loops
  <2>3. DataFits(kind)'
    BY <2>2 DEF TypeOK
  <2>4. ClientFits(p)'
    BY <1>1, <2>1, <2>2 DEF ClientFits, Before, After, TypeOK, Ok, NoReply, Stored
  <2> QED BY <2>3, <2>4
<1>8. CASE DelData(p)
  <2>1. c.name = "DEL" /\ todo[p] = {c.key} /\ at[p] = c.key /\ c \in Commands
    BY <1>1, <1>8 DEF DelData, ClientFits, Before
  <2>2. /\ data' = [data EXCEPT ![c.key] = Absent] /\ reply'[p] = Count(reply[p].n + Removed(c.key))
        /\ pc'[p] = "del_ttl" /\ at'[p] = c.key /\ todo'[p] = {}
        /\ UNCHANGED <<expirations, cmd, phase, left>>
    <3>1. PICK k \in todo[p] :
            /\ data' = [data EXCEPT ![k] = Absent] /\ at' = [at EXCEPT ![p] = k]
            /\ todo' = [todo EXCEPT ![p] = @ \ {k}]
            /\ reply' = [reply EXCEPT ![p] = Count(reply[p].n + Removed(k))]
      BY <1>8, <2>1 DEF DelData, Write, Answer
    <3>2. k = c.key
      BY <2>1, <3>1
    <3> QED BY <1>1, <1>8, <2>1, <3>1, <3>2 DEF DelData, Goto, TypeOK
  <2>3. DataFits(kind)'
    BY <2>2 DEF TypeOK
  <2>4. ClientFits(p)'
    <3>1. reply'[p] # NoReply
      BY <2>2 DEF Count, NoReply, Stored
    <3> QED BY <1>1, <2>1, <2>2, <3>1 DEF ClientFits, Before, After
  <2> QED BY <2>3, <2>4
<1>9. CASE DelTtl(p)
  <2>1. c.name = "DEL" /\ todo[p] = {} /\ at[p] = c.key /\ c \in Commands
    BY <1>1, <1>9 DEF DelTtl, ClientFits, Before
  <2>2. /\ expirations' = [expirations EXCEPT ![c.key] = NoTtl]
        /\ pc'[p] = "done" /\ UNCHANGED <<data, cmd, at, todo, phase, left, reply>>
    BY <1>1, <1>9, <2>1 DEF DelTtl, SetDeadline, Goto, TypeOK, loops
  <2>3. DataFits(kind)'
    BY <2>2 DEF TypeOK
  <2>4. ClientFits(p)'
    BY <1>1, <1>9, <2>1, <2>2 DEF DelTtl, ClientFits, Before, After, TypeOK
  <2> QED BY <2>3, <2>4
<1>10. CASE Return(p)
  <2>1. /\ UNCHANGED <<data, expirations>> /\ cmd'[p] = Sweep /\ reply'[p] = NoReply
        /\ pc'[p] = "idle" /\ todo'[p] = {} /\ phase'[p] = "op" /\ left'[p] = 0
    BY <1>1, <1>10 DEF Return, Answer, Goto, TypeOK, maps
  <2> QED BY <2>1 DEF ClientFits, Sweep, Before
<1>11. pc[p] \in {"idle", "read_ttl", "type_of", "body", "set_data", "set_ttl", "del_data", "del_ttl", "done"}
  BY <1>1 DEF ClientFits, Before, After
<1> QED
  BY <1>3, <1>4, <1>5, <1>6, <1>7, <1>8, <1>9, <1>10, <1>11
  DEF Step, ReadTtl, Judge, DropTtl, EnsureType, DecideSet, FindKey, GetTtl, Scan, ClearData, ClearTtl, maps, loops

LEMMA OtherTask ==
  ASSUME TypeOK, NEW p \in Task, Begin(p) \/ Step(p), NEW q \in Task, q # p
  PROVE  /\ pc'[q] = pc[q] /\ phase'[q] = phase[q] /\ cmd'[q] = cmd[q] /\ at'[q] = at[q]
         /\ todo'[q] = todo[q] /\ found'[q] = found[q] /\ left'[q] = left[q]
         /\ reply'[q] = reply[q]
<1> USE DEF TypeOK, Goto, Answer, loops
<1>1. CASE Begin(p) \/ Return(p)
  BY <1>1 DEF Begin, Return
<1>2. CASE ReadTtl(p) \/ Judge(p) \/ DropTtl(p) \/ EnsureType(p)
  BY <1>2 DEF ReadTtl, Judge, DropTtl, EnsureType
<1>3. CASE DecideSet(p) \/ FindKey(p) \/ GetTtl(p)
  BY <1>3 DEF DecideSet, FindKey, GetTtl
<1>4. CASE Operate(p)
  BY <1>4 DEF Operate
<1>5. CASE SetData(p) \/ SetTtl(p)
  BY <1>5 DEF SetData, SetTtl
<1>6. CASE DelData(p) \/ DelTtl(p)
  BY <1>6 DEF DelData, DelTtl
<1>7. CASE Scan(p) \/ ClearData(p) \/ ClearTtl(p)
  BY <1>7 DEF Scan, ClearData, ClearTtl
<1> QED BY <1>1, <1>2, <1>3, <1>4, <1>5, <1>6, <1>7 DEF Step

(* With no deadline anywhere, the evictor sweeps and finds nothing. *)
LEMMA EvictorStepFits ==
  ASSUME TypeOK, NEW kind, PlainInv(kind), NEW p \in Evictors, Begin(p) \/ Step(p)
  PROVE  UNCHANGED <<data, expirations>> /\ EvictorFits(p)'
<1> USE DEF TypeOK, Goto
<1>1. p \in Task /\ EvictorFits(p)
  BY DEF PlainInv, Task
<1>2. CASE Begin(p)
  BY <1>1, <1>2 DEF Begin, Entry, Sweep, EvictorFits, maps
<1>3. CASE Scan(p)
  <2>1. PICK k \in todo[p] :
          LET rest    == todo[p] \ {k}
              expired == IF Collects(k, seen[p]) THEN found[p] \cup {k} ELSE found[p]
              last    == rest = {}
          IN  /\ found' = [found EXCEPT ![p] = IF last THEN {} ELSE expired]
              /\ Goto(p, IF ~last THEN "scan"
                         ELSE IF expired = {} THEN "done" ELSE "del_data")
    BY <1>3 DEF Scan
  <2>2. ~Collects(k, seen[p])
    BY <1>1, <2>1 DEF PlainInv, DataFits, Collects, IsExpired
  <2> QED BY <1>1, <1>3, <2>1, <2>2 DEF Scan, EvictorFits, maps
<1>4. CASE Return(p)
  BY <1>1, <1>4 DEF Return, EvictorFits, maps
<1>5. pc[p] \in {"idle", "scan", "done"}
  BY <1>1 DEF EvictorFits
<1> QED
  BY <1>2, <1>3, <1>4, <1>5
  DEF Step, ReadTtl, Judge, DropTtl, EnsureType, DecideSet, FindKey, GetTtl, Operate, SetData, SetTtl, DelData, DelTtl, ClearData, ClearTtl

LEMMA PlainStep ==
  ASSUME TypeOK, NEW kind, PlainInv(kind), \A c \in Commands : Plain(c) /\ Agrees(c, kind[c.key]),
         [Next]_vars
  PROVE  PlainInv(kind)'
<1>1. CASE Tick \/ UNCHANGED vars
  BY <1>1 DEF Tick, vars, maps, loops, PlainInv, DataFits, ClientFits, Before, After, EvictorFits
<1>2. ASSUME NEW p \in Task, Begin(p) \/ Step(p) PROVE PlainInv(kind)'
  <2>1. DataFits(kind)'
    <3>1. CASE p \in Client
      BY <1>2, <3>1, ClientStepFits
    <3>2. CASE p \in Evictors
      BY <1>2, <3>2, EvictorStepFits DEF PlainInv, DataFits
    <3> QED BY <3>1, <3>2 DEF Task
  <2>2. ASSUME NEW q \in Client PROVE ClientFits(q)'
    <3>1. CASE q = p
      BY <1>2, <3>1, ClientStepFits
    <3>2. CASE q # p
      BY <1>2, <3>2, OtherTask, OthersFit DEF PlainInv, Task
    <3> QED BY <3>1, <3>2
  <2>3. ASSUME NEW q \in Evictors PROVE EvictorFits(q)'
    <3>1. CASE q = p
      BY <1>2, <3>1, EvictorStepFits
    <3>2. CASE q # p
      <4>1. EvictorFits(q) /\ pc'[q] = pc[q] /\ found'[q] = found[q]
        BY <1>2, <3>2, OtherTask DEF PlainInv, Task
      <4> QED BY <4>1 DEF EvictorFits
    <3> QED BY <3>1, <3>2
  <2> QED BY <2>1, <2>2, <2>3 DEF PlainInv
<1> QED BY <1>1, <1>2 DEF Next

-----------------------------------------------------------------------------
(* What the abstract specification sees of one client. *)
CallOf(p) ==
  [stage |-> IF pc[p] = "idle" THEN "idle"
             ELSE IF reply[p] = NoReply THEN "pending" ELSE "done",
   cmd |-> cmd[p], reply |-> reply[p]]

LEMMA VisibleIsData ==
  ASSUME TypeOK, NEW kind, DataFits(kind)
  PROVE  Visible = data
BY DEF TypeOK, DataFits, Visible, IsEmpty, Absent, Stored, Collections

LEMMA SameNoReply == Atomic!NoReply = NoReply
  BY DEF Atomic!NoReply, NoReply, Atomic!Stored, Stored

LEMMA EffectIsAtomic == \A c, v : Atomic!Effect(c, v) = Effect(c, v)
  BY DEF Atomic!Effect, Effect, Atomic!Adjust, Adjust, Atomic!AppendTo, AppendTo, Atomic!AddTo, AddTo,
         Atomic!SizesAfterAdd, SizesAfterAdd, Atomic!RemFrom, RemFrom, Atomic!SizesAfterRem, SizesAfterRem,
         Atomic!ReadOf, ReadOf, Atomic!Outcome, Outcome, Atomic!Stored, Stored, Atomic!Absent, Absent,
         Atomic!Nil, Nil, Atomic!Ok, Ok, Atomic!Error, Error, Atomic!Count, Count, Atomic!TypeName, TypeName

(* The instant of a command is its operation on the entry, the insertion of *)
(* SET, the removal of DEL.                                                *)
LEMMA PerformStep ==
  ASSUME TypeOK, NEW p \in Client, NEW kind,
         NEW c \in Command, c = cmd[p], c.key \in Key, Plain(c), Agrees(c, kind[c.key]), DataFits(kind),
         pc[p] # "idle", reply[p] = NoReply,
         NEW e,
         e \in CASE c.name = "SET" -> {Outcome(NewString(c), Ok)}
                 [] c.name = "DEL" -> {Outcome(Absent, Count(Removed(c.key)))}
                 [] OTHER -> Effect(c, data[c.key]),
         ~IsEmpty(e.val), e.reply # NoReply,
         Visible = data, Visible' = [data EXCEPT ![c.key] = e.val],
         Calls' = [Calls EXCEPT ![p] = [stage |-> "done", cmd |-> c, reply |-> e.reply]]
  PROVE  Atomic!Perform(p)
<1>1. Calls[p] = [stage |-> "pending", cmd |-> c, reply |-> NoReply]
  BY DEF Calls
<1>2. e \in Atomic!Results(c, data[c.key])
  <2>1. ~(c.name \in Typed /\ TypeName(data[c.key]) \notin {"none", c.type})
    BY DEF Agrees, DataFits, TypeName, Absent, Stored
  <2>2. CASE c.name = "SET"
    BY <2>1, <2>2 DEF Plain, Atomic!Results, Outcome, NewString, Ok, Atomic!Outcome, Atomic!NewString, Atomic!Ok,
           Atomic!Typed, Typed, Stored, Atomic!Stored
  <2>3. CASE c.name = "DEL"
    BY <2>1, <2>3 DEF Atomic!Results, Outcome, Removed, Count, Absent, Atomic!Outcome, Atomic!Count, Atomic!Absent,
           Atomic!Typed, Typed, Stored, Atomic!Stored
  <2>4. CASE c.name \notin {"SET", "DEL"}
    <3>1. Atomic!Results(c, data[c.key]) = Atomic!Effect(c, data[c.key])
      BY <2>1, <2>4 DEF Atomic!Results, Atomic!Typed, Typed, Atomic!TypeName, TypeName
    <3>2. e \in Effect(c, data[c.key])
      BY <2>4
    <3> QED BY <3>1, <3>2, EffectIsAtomic
  <2> QED BY <2>2, <2>3, <2>4
<1>3. Atomic!Normal(e.val) = e.val
  BY DEF Atomic!Normal, Atomic!IsEmpty, IsEmpty, Atomic!Collections, Collections
<1>4. [[Calls EXCEPT ![p].stage = "done"] EXCEPT ![p].reply = e.reply]
        = [Calls EXCEPT ![p] = [stage |-> "done", cmd |-> c, reply |-> e.reply]]
  BY <1>1 DEF Calls
<1>5. Visible' = [Visible EXCEPT ![c.key] = Atomic!Normal(e.val)]
  BY <1>3
<1>6. Calls' = [Calls EXCEPT ![p].stage = "done", ![p].reply = e.reply]
  BY <1>4
<1>7. Calls[p].stage = "pending" /\ Calls[p].cmd = c /\ e \in Atomic!Results(c, Visible[c.key])
  BY <1>1, <1>2
<1> QED BY <1>5, <1>6, <1>7 DEF Atomic!Perform

LEMMA AtomicStep ==
  ASSUME TypeOK, TypeOK', NEW kind, PlainInv(kind), PlainInv(kind)',
         \A c \in Commands : Plain(c) /\ Agrees(c, kind[c.key]),
         NEW p \in Client, Begin(p) \/ Step(p)
  PROVE  Atomic!Next \/ UNCHANGED <<Visible, Calls>>
<1> DEFINE c == cmd[p]
<1>1. p \in Task /\ p \notin Evictors /\ ClientFits(p) /\ ClientFits(p)'
  BY TasksAssumption DEF Task, PlainInv
<1>2. Visible = data /\ Visible' = data'
  BY VisibleIsData DEF PlainInv, TypeOK, DataFits, Visible, IsEmpty, Absent, Stored, Collections
<1>3. Calls' = [Calls EXCEPT ![p] = CallOf(p)']
  <2>1. ASSUME NEW q \in Client, q # p PROVE pc'[q] = pc[q] /\ cmd'[q] = cmd[q] /\ reply'[q] = reply[q]
    BY <1>1, <2>1, OtherTask DEF Task
  <2> QED BY <2>1 DEF Calls, CallOf
<1>4. Calls[p] = CallOf(p)
  BY DEF Calls, CallOf
<1>5. ASSUME pc[p] # "idle"
      PROVE  c \in Command /\ c.key \in Key /\ Plain(c) /\ Agrees(c, kind[c.key]) /\ at[p] = c.key
  BY <1>1, <1>5, CommandsAssumption DEF ClientFits, Command
<1>6. CASE Begin(p)
  <2>1. PICK b \in Commands : cmd'[p] = b /\ pc'[p] = Entry(b)
    BY <1>1, <1>6 DEF Begin, Goto, TypeOK
  <2>2. /\ pc[p] = "idle" /\ reply[p] = NoReply /\ reply'[p] = NoReply /\ data' = data
        /\ pc'[p] # "idle"
    BY <1>1, <1>6, <2>1 DEF Begin, maps, ClientFits, Entry
  <2>3. Calls[p].stage = "idle"
    BY <1>4, <2>2 DEF CallOf
  <2>4. CallOf(p)' = [stage |-> "pending", cmd |-> b, reply |-> Atomic!NoReply]
    BY <2>1, <2>2, SameNoReply DEF CallOf
  <2>5. Atomic!Invoke(p)
    BY <1>2, <1>3, <2>2, <2>3, <2>4 DEF Atomic!Invoke
  <2> QED BY <2>5 DEF Atomic!Next
<1>7. CASE /\ data' = data /\ cmd' = cmd /\ reply'[p] = reply[p]
           /\ pc[p] # "idle" /\ pc'[p] # "idle"
  BY <1>2, <1>3, <1>4, <1>7 DEF CallOf, Calls
<1>8. ASSUME pc[p] # "idle", pc'[p] # "idle", reply[p] = NoReply, cmd' = cmd, NEW e,
             e \in CASE c.name = "SET" -> {Outcome(NewString(c), Ok)}
                     [] c.name = "DEL" -> {Outcome(Absent, Count(Removed(c.key)))}
                     [] OTHER -> Effect(c, data[c.key]),
             e.reply # NoReply, reply'[p] = e.reply, data' = [data EXCEPT ![c.key] = e.val]
      PROVE  Atomic!Next
  <2>1. ~IsEmpty(e.val)
    <3>1. data'[c.key] = e.val
      BY <1>5, <1>8 DEF TypeOK
    <3> QED BY <1>5, <1>8, <3>1 DEF PlainInv, DataFits, IsEmpty, Absent, Stored, Collections
  <2>2. CallOf(p)' = [stage |-> "done", cmd |-> c, reply |-> e.reply]
    BY <1>8 DEF CallOf
  <2>3. Atomic!Perform(p)
    BY <1>2, <1>3, <1>5, <1>8, <2>1, <2>2, PerformStep DEF PlainInv
  <2> QED BY <2>3 DEF Atomic!Next
<1>9. CASE Operate(p)
  <2>1. PICK e \in Effect(c, data[at[p]]) :
          data' = [data EXCEPT ![at[p]] = e.val] /\ reply' = [reply EXCEPT ![p] = e.reply]
    BY <1>9 DEF Operate, Write, Answer
  <2>2. pc[p] = "body" /\ c.name \notin {"SET", "DEL"} /\ cmd' = cmd /\ pc'[p] # "idle"
    BY <1>1, <1>9 DEF Operate, ClientFits, Goto, TypeOK
  <2>3. e.reply # NoReply
    BY <1>5, <2>1, <2>2, PlainEffect DEF PlainInv, DataFits, TypeOK
  <2> QED BY <1>1, <1>5, <1>8, <2>1, <2>2, <2>3 DEF ClientFits, Before, TypeOK
<1>10. CASE SetData(p)
  <2>1. c.name = "SET" /\ todo[p] = {c.key} /\ reply[p] = NoReply /\ cmd' = cmd /\ pc'[p] # "idle" /\ pc[p] # "idle"
    BY <1>1, <1>10 DEF SetData, ClientFits, Before, Goto, TypeOK
  <2>2. data' = [data EXCEPT ![c.key] = NewString(c)] /\ reply'[p] = Ok
    BY <1>1, <1>10, <2>1 DEF SetData, Write, Answer, TypeOK
  <2>3. Ok # NoReply
    BY DEF Ok, NoReply, Stored
  <2> DEFINE e == Outcome(NewString(c), Ok)
  <2>5. e.val = NewString(c) /\ e.reply = Ok
    BY DEF Outcome
  <2>6. e \in CASE c.name = "SET" -> {Outcome(NewString(c), Ok)}
                [] c.name = "DEL" -> {Outcome(Absent, Count(Removed(c.key)))}
                [] OTHER -> Effect(c, data[c.key])
    BY <2>1
  <2> HIDE DEF e
  <2> QED BY <1>8, <2>1, <2>2, <2>3, <2>5, <2>6
<1>11. CASE DelData(p)
  <2>1. c.name = "DEL" /\ todo[p] = {c.key} /\ reply[p] = NoReply /\ cmd' = cmd /\ pc'[p] # "idle" /\ pc[p] # "idle"
    BY <1>1, <1>11 DEF DelData, ClientFits, Before, Goto, TypeOK
  <2>2. data' = [data EXCEPT ![c.key] = Absent] /\ reply'[p] = Count(reply[p].n + Removed(c.key))
    <3>1. PICK k \in todo[p] : /\ data' = [data EXCEPT ![k] = Absent]
                             /\ reply' = [reply EXCEPT ![p] = Count(reply[p].n + Removed(k))]
      BY <1>11, <2>1 DEF DelData, Write, Answer
    <3>2. k = c.key
      BY <2>1, <3>1
    <3> QED BY <1>1, <3>1, <3>2 DEF TypeOK
  <2>3. reply'[p] = Count(Removed(c.key)) /\ Count(Removed(c.key)) # NoReply
    BY <2>1, <2>2 DEF Count, NoReply, Stored, Removed
  <2> DEFINE e == Outcome(Absent, Count(Removed(c.key)))
  <2>4. e.val = Absent /\ e.reply = Count(Removed(c.key))
    BY DEF Outcome
  <2>5. e \in CASE c.name = "SET" -> {Outcome(NewString(c), Ok)}
                [] c.name = "DEL" -> {Outcome(Absent, Count(Removed(c.key)))}
                [] OTHER -> Effect(c, data[c.key])
    BY <2>1
  <2> HIDE DEF e
  <2> QED BY <1>8, <2>1, <2>2, <2>3, <2>4, <2>5
<1>12. CASE Return(p)
  <2>1. pc[p] = "done" /\ reply[p] # NoReply /\ data' = data
    BY <1>1, <1>12 DEF Return, maps, ClientFits, Before
  <2>2. pc'[p] = "idle" /\ cmd'[p] = Sweep /\ reply'[p] = NoReply
    BY <1>1, <1>12 DEF Return, Goto, Answer, TypeOK
  <2>3. Calls[p].stage = "done"
    BY <1>4, <2>1 DEF CallOf
  <2>4. CallOf(p)' = Atomic!Idle
    BY <2>2, SameNoReply DEF CallOf, Atomic!Idle
  <2>5. Atomic!Respond(p)
    BY <1>2, <1>3, <2>1, <2>3, <2>4 DEF Atomic!Respond
  <2> QED BY <2>5 DEF Atomic!Next
<1>13. CASE ReadTtl(p) \/ EnsureType(p) \/ DecideSet(p) \/ FindKey(p) \/ SetTtl(p) \/ DelTtl(p)
  <2>1. data' = data /\ cmd' = cmd /\ pc[p] # "idle" /\ pc'[p] # "idle"
    BY <1>1, <1>13 DEF ReadTtl, Alive, EnsureType, DecideSet, FindKey, SetTtl, DelTtl, maps, Goto, TypeOK
  <2>2. reply'[p] = reply[p]
    <3>1. CASE ReadTtl(p) \/ DelTtl(p)
      BY <3>1 DEF ReadTtl, DelTtl
    <3>2. CASE SetTtl(p)
      BY <1>1, <3>2 DEF SetTtl, ClientFits, Answer, TypeOK
    <3>3. CASE EnsureType(p)
      <4>1. pc[p] = "type_of" /\ c.name \in Typed
        BY <1>1, <3>3 DEF EnsureType, ClientFits
      <4>2. TypeName(data[at[p]]) \in {"none", c.type}
        BY <1>5, <4>1 DEF PlainInv, DataFits, Agrees, TypeName, Absent, Stored
      <4> QED BY <3>3, <4>2 DEF EnsureType
    <3>4. CASE DecideSet(p) \/ FindKey(p)
      BY <1>5, <3>4 DEF DecideSet, FindKey, Plain
    <3> QED BY <1>13, <3>1, <3>2, <3>3, <3>4
  <2> QED BY <1>7, <2>1, <2>2
<1>14. pc[p] \in {"idle", "read_ttl", "type_of", "body", "set_data", "set_ttl", "del_data", "del_ttl", "done"}
  BY <1>1 DEF ClientFits, Before, After
<1> QED
  BY <1>6, <1>9, <1>10, <1>11, <1>12, <1>13, <1>14
  DEF Step, Judge, DropTtl, GetTtl, Scan, ClearData, ClearTtl

(* Commands on one key that set no deadline take effect at one instant      *)
(* each: Store implements Keyspace.  However many connections send them,   *)
(* every run of their lock-by-lock steps is a run of an atomic map.  The   *)
(* hypothesis keeps each key to one type (EXISTS and DEL may name any) and *)
(* leaves out NX and XX, deadlines, removals of members and commands on    *)
(* several keys: they take a second lock, and with them it is false.       *)
THEOREM PlainCommandsAreAtomic ==
  ASSUME NEW kind, \A c \in Commands : Plain(c) /\ Agrees(c, kind[c.key])
  PROVE  Spec => CommandsAreAtomic
<1>1. Init => PlainInv(kind)
  BY DEF Init, PlainInv, DataFits, ClientFits, EvictorFits, Task, Before, After, Sweep
<1>2. TypeOK /\ PlainInv(kind) /\ [Next]_vars => PlainInv(kind)'
  BY PlainStep
<1>3. Init => Atomic!Init
  <2> SUFFICES ASSUME Init PROVE Atomic!Init
    OBVIOUS
  <2>1. Visible = [k \in Key |-> Atomic!Absent]
    BY DEF Init, Visible, Absent, IsEmpty, Stored, Collections, Atomic!Absent, Atomic!Stored
  <2>2. Calls = [p \in Client |-> Atomic!Idle]
    BY SameNoReply DEF Init, Calls, Task, Atomic!Idle
  <2> QED BY <2>1, <2>2 DEF Atomic!Init
<1>4. TypeOK /\ TypeOK' /\ PlainInv(kind) /\ PlainInv(kind)' /\ [Next]_vars => [Atomic!Next]_(Atomic!vars)
  <2>1. ASSUME TypeOK, TypeOK', PlainInv(kind), PlainInv(kind)', [Next]_vars
        PROVE  Atomic!Next \/ UNCHANGED <<Visible, Calls>>
    <3>1. CASE Tick \/ UNCHANGED vars
      BY <3>1 DEF Tick, vars, maps, Visible, Calls
    <3>2. ASSUME NEW p \in Client, Begin(p) \/ Step(p) PROVE Atomic!Next \/ UNCHANGED <<Visible, Calls>>
      BY <2>1, <3>2, AtomicStep
    <3>3. ASSUME NEW p \in Evictors, Begin(p) \/ Step(p) PROVE UNCHANGED <<Visible, Calls>>
      <4>1. data' = data
        BY <2>1, <3>3, EvictorStepFits
      <4>2. ASSUME NEW q \in Client PROVE pc'[q] = pc[q] /\ cmd'[q] = cmd[q] /\ reply'[q] = reply[q]
        BY <2>1, <3>3, OtherTask, TasksAssumption DEF Task
      <4> QED BY <4>1, <4>2 DEF Visible, Calls
    <3> QED BY <2>1, <3>1, <3>2, <3>3 DEF Next, Task
  <2> QED BY <2>1 DEF Atomic!vars
<1> QED BY <1>1, <1>2, <1>3, <1>4, TypeCorrect, PTL DEF Spec, CommandsAreAtomic, Atomic!Spec
=============================================================================
