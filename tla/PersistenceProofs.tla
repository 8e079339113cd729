------------------------- MODULE PersistenceProofs -------------------------
(* Theorems about Persistence, for every set of clients, keys, commands and *)
(* configurations, and any number of runs of the server.                   *)
EXTENDS Persistence, Recursion, SequenceTheorems

LEMMA ApplyType == ASSUME NEW s \in Store, NEW c PROVE Apply(s, c) \in Store
<1>1. CASE c.op = "incr"
  <2>1. Apply(s, c) = [s EXCEPT ![c.key] = s[c.key] + 1]
    BY <1>1 DEF Apply
  <2>2. CASE c.key \in Names
    BY <2>1, <2>2 DEF Store
  <2>3. CASE c.key \notin Names
    BY <2>1, <2>3 DEF Store
  <2> QED BY <2>2, <2>3
<1>2. CASE c.op = "del"
  BY <1>2 DEF Apply, Store
<1> QED BY <1>1, <1>2 DEF Apply

LEMMA ApplyAt ==
  ASSUME NEW s \in Store, NEW c, NEW k \in Names
  PROVE  /\ c.key # k => Apply(s, c)[k] = s[k]
         /\ c.op = "get" => Apply(s, c) = s
         /\ \A t \in Store : t[k] = s[k] => Apply(t, c)[k] = Apply(s, c)[k]
<1>1. CASE c.op = "incr"
  BY <1>1 DEF Apply, Store
<1>2. CASE c.op = "del"
  BY <1>2 DEF Apply, Store
<1>3. CASE c.op \notin {"incr", "del"}
  BY <1>3 DEF Apply
<1> QED BY <1>1, <1>2, <1>3

LEMMA NothingType == Nothing \in Store
  BY DEF Nothing, Store

LEMMA RecordTypes ==
  /\ \A r \in Entry : r \notin Cut /\ r \in Record /\ r.op \in {"incr", "del"} /\ r.key \in Key
  /\ \A r \in Cut : r \in Record /\ r.after \in 0 .. 2 /\ r.rest \in {"none", "joins", "breaks"}
  /\ \A r \in Cut : r.rest = "joins" => r.after \in 1 .. 2 /\ r.op \in {"incr", "del"}
  /\ \A s : s \in Seq(Entry) => s \in Seq(Record)
<1>1. \A r \in Entry : r \in Record /\ r.op \in {"incr", "del"} /\ r.key \in Key
  BY DEF Entry, Record
<1>2. \A r \in Cut : r \in Record /\ r.after \in 0 .. 2 /\ r.rest \in {"none", "joins", "breaks"}
  BY DEF Cut, Record
<1>3. \A r \in Cut : r.rest = "joins" => r.after \in 1 .. 2 /\ r.op \in {"incr", "del"}
  BY DEF Cut
<1>4. \A r \in Entry : r \notin Cut
  <2>1. \A r \in Entry : DOMAIN r = {"key", "op"}
    BY DEF Entry
  <2>2. \A r \in Cut : "after" \in DOMAIN r
    BY DEF Cut
  <2> QED BY <2>1, <2>2
<1>5. ASSUME NEW s \in Seq(Entry) PROVE s \in Seq(Record)
  <2>1. Entry \subseteq Record
    BY DEF Record
  <2> QED BY <2>1
<1> QED BY <1>1, <1>2, <1>3, <1>4, <1>5

-----------------------------------------------------------------------------
(* The reader of the log.  A string that waits is an element to come.        *)
Readers == {s \in Reader : s.waits # "no" => s.open > 0}

LEMMA WantedType ==
  ASSUME NEW s \in Readers, NEW r \in Record
  PROVE  Wanted(s, r) \in Nat
<1>1. s.open \in Nat /\ (s.waits # "no" => s.open > 0)
  BY DEF Readers, Reader
<1>2. Tokens(r) \in 0 .. 3
  BY RecordTypes DEF Tokens, Record
<1>3. PICK n : n = IF s.waits # "no" THEN s.open - 1 ELSE IF s.open > 0 THEN s.open + 1 ELSE 2
  OBVIOUS
<1>4. n \in Nat
  BY <1>1, <1>3
<1>5. Wanted(s, r) = IF n > Tokens(r) - 1 THEN n - (Tokens(r) - 1) ELSE 0
  BY <1>3 DEF Wanted
<1> QED BY <1>2, <1>4, <1>5

LEMMA ReadType ==
  ASSUME NEW s \in Readers, NEW r \in Record PROVE Read(s, r) \in Readers
<1>1. s.kv \in Store /\ s.open \in Nat /\ s.ok \in BOOLEAN /\ Wanted(s, r) \in Nat
  BY WantedType DEF Readers, Reader
<1>2. CASE ~s.ok \/ Tokens(r) = 0
  BY <1>2 DEF Read, Readers, Reader
<1>3. CASE s.ok /\ Tokens(r) # 0
  <2>1. PICK kv1, open1, waits1, ok1 :
          /\ kv1 = Executed(s, r)
          /\ open1 = IF Wanted(s, r) = 0 /\ Rest(r) = "joins" THEN 1 ELSE Wanted(s, r)
          /\ waits1 = CASE Rest(r) # "joins" -> "no"
                        [] Rest(r) = "joins" /\ r.after = 2 /\ s.open = 0 -> r.op
                        [] OTHER -> "string"
          /\ ok1 = (Rest(r) # "breaks")
    OBVIOUS
  <2>2. Read(s, r) = [kv |-> kv1, open |-> open1, waits |-> waits1, ok |-> ok1]
    BY <1>3, <2>1 DEF Read
  <2>3. kv1 \in Store
    BY <1>1, <2>1, ApplyType DEF Executed
  <2>4. open1 \in Nat /\ (Rest(r) = "joins" => open1 > 0)
    BY <1>1, <2>1
  <2>5. Rest(r) = "joins" => r.op \in {"incr", "del"}
    BY RecordTypes DEF Rest, Record
  <2>6. waits1 \in {"no", "string", "incr", "del"} /\ (waits1 # "no" => Rest(r) = "joins")
    BY <2>1, <2>5
  <2>7. ok1 \in BOOLEAN
    BY <2>1
  <2> QED BY <2>2, <2>3, <2>4, <2>6, <2>7 DEF Readers, Reader
<1> QED BY <1>2, <1>3

LEMMA AtRestType ==
  ASSUME NEW s \in Readers, AtRest(s) PROVE s.ok /\ s.open = 0 /\ s.waits = "no"
  BY DEF AtRest, Readers, Reader

(* Between two records a whole one is executed, and a cut one is not. *)
LEMMA ReadAtRest ==
  ASSUME NEW s \in Readers, AtRest(s)
  PROVE  /\ \A c \in Entry : AtRest(Read(s, c)) /\ Read(s, c).kv = Apply(s.kv, c)
         /\ \A r \in Cut : Read(s, r).kv = s.kv
<1>1. s.ok /\ s.open = 0 /\ s.waits = "no"
  BY AtRestType
<1>2. ASSUME NEW c \in Entry PROVE AtRest(Read(s, c)) /\ Read(s, c).kv = Apply(s.kv, c)
  <2>1. Tokens(c) = 3 /\ Rest(c) = "none"
    BY DEF Tokens, Rest
  <2>2. Wanted(s, c) = 0
    BY <1>1, <2>1 DEF Wanted
  <2>3. Executed(s, c) = Apply(s.kv, c)
    BY <1>1 DEF Executed
  <2>4. Tokens(c) # 0 /\ Rest(c) # "joins"
    BY <2>1
  <2>5. PICK kv1, open1, waits1, ok1 :
          /\ Read(s, c) = [kv |-> kv1, open |-> open1, waits |-> waits1, ok |-> ok1]
          /\ kv1 = Executed(s, c)
          /\ open1 = IF Wanted(s, c) = 0 /\ Rest(c) = "joins" THEN 1 ELSE Wanted(s, c)
          /\ ok1 = (Rest(c) # "breaks")
    BY <1>1, <2>4 DEF Read
  <2>6. ok1 /\ open1 = 0 /\ kv1 = Apply(s.kv, c)
    BY <2>1, <2>2, <2>3, <2>5
  <2>7. Read(s, c).ok = ok1 /\ Read(s, c).open = open1 /\ Read(s, c).kv = kv1
    BY <2>5
  <2> QED BY <2>6, <2>7 DEF AtRest
<1>3. ASSUME NEW r \in Cut PROVE Read(s, r).kv = s.kv
  <2>1. Executed(s, r) = s.kv
    BY <1>1, RecordTypes DEF Executed
  <2> QED BY <2>1 DEF Read, Readers, Reader
<1> QED BY <1>2, <1>3

(* Wherever the reader is, it executes the record, or nothing that concerns *)
(* the clients' keys.                                                      *)
SameKeys(s, t) == \A k \in Key : s[k] = t[k]

LEMMA ReadAnywhere ==
  ASSUME NEW s \in Readers, NEW r \in Record, NEW t \in Store, SameKeys(t, s.kv)
  PROVE  SameKeys(t, Read(s, r).kv) \/ (r \in Entry /\ SameKeys(Apply(t, r), Read(s, r).kv))
<1>1. s.kv \in Store /\ Key \subseteq Names
  BY DEF Readers, Reader, Names
<1>2. Read(s, r).kv \in {s.kv, Executed(s, r)}
  BY DEF Read, Readers, Reader
<1>3. CASE s.waits \in {"incr", "del"}
  <2>1. PICK c : c = [key |-> Stray, op |-> s.waits]
    OBVIOUS
  <2>2. Executed(s, r) = Apply(s.kv, c)
    <3>1. s.open # 0
      BY <1>3 DEF Readers, Reader
    <3> QED BY <1>3, <2>1, <3>1 DEF Executed
  <2>3. \A k \in Key : c.key # k
    BY <2>1, StrayAssumption
  <2>4. SameKeys(t, Executed(s, r))
    BY <1>1, <2>2, <2>3, ApplyAt DEF SameKeys
  <2> QED BY <1>2, <2>4
<1>4. CASE s.waits \notin {"incr", "del"} /\ s.open = 0 /\ r \in Entry
  <2>1. Executed(s, r) = Apply(s.kv, r)
    BY <1>4 DEF Executed
  <2>2. SameKeys(Apply(t, r), Apply(s.kv, r))
    BY <1>1, ApplyAt DEF SameKeys
  <2> QED BY <1>2, <1>4, <2>1, <2>2
<1>5. CASE s.waits \notin {"incr", "del"} /\ ~(s.open = 0 /\ r \in Entry)
  BY <1>2, <1>5 DEF Executed
<1> QED BY <1>3, <1>4, <1>5

-----------------------------------------------------------------------------
(* The recursive definition of After says what it seems to say. *)
First(s) == [kv |-> s, open |-> 0, waits |-> "no", ok |-> TRUE]

LEMMA FirstType == ASSUME NEW s \in Store PROVE First(s) \in Readers
  BY DEF First, Readers, Reader

LEMMA AfterUnfolds ==
  ASSUME NEW s \in Store, NEW r \in Seq(Record)
  PROVE  /\ After(s, r) \in [0 .. Len(r) -> Readers]
         /\ After(s, r)[0] = First(s)
         /\ \A i \in 1 .. Len(r) : After(s, r)[i] = Read(After(s, r)[i - 1], r[i])
<1> DEFINE n == Len(r)
           step == [y \in Readers \X (1 .. n) |-> Read(y[1], r[y[2]])]
           Body(g) == [i \in 0 .. n |->
                         IF i = 0 THEN [kv |-> s, open |-> 0, waits |-> "no", ok |-> TRUE]
                         ELSE Read(g[i - 1], r[i])]
<1>1. n \in Nat /\ First(s) \in Readers
  BY FirstType
<1>2. step \in [Readers \X (1 .. n) -> Readers]
  BY ReadType
<1>3. PICK f \in [0 .. n -> Readers] : Iterates(f, First(s), step, n)
  <2> HIDE DEF step, n
  <2> QED BY <1>1, <1>2, RecursiveFunction
<1>4. ASSUME NEW i \in 1 .. n PROVE f[i] = Read(f[i - 1], r[i])
  <2>1. f[i - 1] \in Readers
    OBVIOUS
  <2>2. step[<<f[i - 1], i>>] = Read(f[i - 1], r[i])
    <3> HIDE DEF n
    <3> QED BY <2>1
  <2> QED BY <1>3, <2>2 DEF Iterates
<1>5. f = Body(f)
  <2>1. ASSUME NEW i \in 0 .. n PROVE f[i] = Body(f)[i]
    BY <1>3, <1>4 DEF Iterates, First
  <2> QED BY <2>1
<1>6. After(s, r) = CHOOSE g : g = Body(g)
  BY DEF After
<1>7. After(s, r) = Body(After(s, r))
  <2> HIDE DEF Body
  <2> QED BY <1>5, <1>6
<1>8. ASSUME NEW g, g = Body(g)
      PROVE  g \in [0 .. n -> Readers] /\ g[0] = First(s) /\ \A i \in 1 .. n : g[i] = Read(g[i - 1], r[i])
  <2>1. DOMAIN g = 0 .. n /\ g = [i \in 0 .. n |-> g[i]]
    BY <1>8
  <2>2. g[0] = First(s)
    BY <1>1, <1>8 DEF First
  <2>3. ASSUME NEW i \in 1 .. n PROVE g[i] = Read(g[i - 1], r[i])
    <3>1. i \in 0 .. n /\ i # 0
      BY <1>1
    <3>2. Body(g)[i] = Read(g[i - 1], r[i])
      BY <3>1
    <3> HIDE DEF Body
    <3> QED BY <1>8, <3>2
  <2> DEFINE T == {i \in 0 .. n : g[i] \in Readers}
  <2>4. 0 \in T
    BY <1>1, <2>2
  <2>5. ASSUME NEW i \in 1 .. n, i - 1 \in T PROVE i \in T
    <3>1. g[i - 1] \in Readers /\ r[i] \in Record
      BY <2>5
    <3> QED BY <2>3, <3>1, ReadType
  <2>6. \A i \in 0 .. n : i \in T
    <3> HIDE DEF T, n
    <3>1. Inductive(T, n)
      BY <2>4, <2>5 DEF Inductive
    <3> QED BY <1>1, <3>1, InductionUpTo
  <2> QED BY <2>1, <2>2, <2>3, <2>6
<1> QED
  <2> HIDE DEF Body
  <2> QED BY <1>7, <1>8

(* What is executed up to a record depends on the records up to it only. *)
LEMMA AfterIsLocal ==
  ASSUME NEW s \in Store, NEW r1 \in Seq(Record), NEW r2 \in Seq(Record), NEW n \in Nat,
         n <= Len(r1), n <= Len(r2), \A i \in 1 .. n : r1[i] = r2[i]
  PROVE  After(s, r1)[n] = After(s, r2)[n]
<1> DEFINE T == {i \in 0 .. n : After(s, r1)[i] = After(s, r2)[i]}
<1>1. 0 \in T
  BY AfterUnfolds
<1>2. ASSUME NEW i \in 1 .. n, i - 1 \in T PROVE i \in T
  <2>1. i \in 1 .. Len(r1) /\ i \in 1 .. Len(r2)
    OBVIOUS
  <2>2. r1[i] = r2[i] /\ After(s, r1)[i - 1] = After(s, r2)[i - 1]
    BY <1>2
  <2> QED BY <2>1, <2>2, AfterUnfolds
<1>3. n \in T
  <2> HIDE DEF T
  <2>1. Inductive(T, n)
    BY <1>1, <1>2 DEF Inductive
  <2> QED BY <2>1, InductionUpTo
<1> QED BY <1>3

(* The reader behind n records of a log, and behind all of them. *)
At(r, n) == After(Nothing, r)[n]
Final(r) == At(r, Len(r))

LEMMA AtType ==
  ASSUME NEW r \in Seq(Record)
  PROVE  /\ \A n \in 0 .. Len(r) : At(r, n) \in Readers
         /\ Final(r) \in Readers /\ Replay(r) = Final(r).kv /\ Replay(r) \in Store
<1>1. Len(r) \in Nat
  OBVIOUS
<1>2. \A n \in 0 .. Len(r) : At(r, n) \in Readers
  BY AfterUnfolds, NothingType DEF At
<1>3. Final(r) \in Readers /\ Replay(r) = Final(r).kv
  BY <1>1, <1>2 DEF Final, At, Replay, ReplayOn
<1> QED BY <1>2, <1>3 DEF Readers, Reader

LEMMA AtOfPrefix ==
  ASSUME NEW q \in Seq(Record), NEW r \in Seq(Record), NEW n \in Nat,
         n <= Len(r), n <= Len(q), \A i \in 1 .. n : r[i] = q[i]
  PROVE  At(r, n) = At(q, n)
  BY AfterIsLocal, NothingType DEF At

LEMMA AtOfAppend ==
  ASSUME NEW r \in Seq(Record), NEW c \in Record
  PROVE  /\ \A n \in 0 .. Len(r) : At(Append(r, c), n) = At(r, n)
         /\ Final(Append(r, c)) = Read(Final(r), c)
<1> DEFINE q == Append(r, c)
           n == Len(r)
<1>1. q \in Seq(Record) /\ Len(q) = n + 1 /\ q[n + 1] = c /\ n \in Nat /\ \A i \in 1 .. n : q[i] = r[i]
  OBVIOUS
<1> HIDE DEF q
<1>2. ASSUME NEW m \in 0 .. n PROVE At(q, m) = At(r, m)
  <2>1. m \in Nat /\ m <= Len(q) /\ m <= Len(r) /\ \A i \in 1 .. m : q[i] = r[i]
    BY <1>1
  <2> QED BY <1>1, <2>1, AtOfPrefix
<1>3. Final(q) = Read(At(q, n), c)
  <2>1. n + 1 \in 1 .. Len(q) /\ (n + 1) - 1 = n
    BY <1>1
  <2> QED BY <1>1, <2>1, AfterUnfolds, NothingType DEF Final, At
<1>4. n \in 0 .. n
  BY <1>1
<1> QED BY <1>2, <1>3, <1>4 DEF q, Final

-----------------------------------------------------------------------------
(* The types are not inductive alone: only a running server that has a log  *)
(* open has commands for it, and only a running one saves.                 *)
Running == stage \notin {"down", "load"}

Shape ==
  /\ cfg.aof /\ stage # "down" => aof # NoFile
  /\ channel # <<>> \/ current # NoTask => cfg.aof /\ Running
  /\ current = [at |-> current.at, record |-> current.record]
  /\ current.at = "write" => \E e \in Entry : current.record = <<e>>
  /\ current.at # "write" => current.record = <<>>
  /\ cmd = [p \in Client |-> cmd[p]]
  /\ saving.by # "nobody" => Running
  /\ saving.by = "shutdown" => stage = "last_save"
  /\ \A p \in Client : pc[p] = "execute" => cmd[p] \in Commands[p] /\ Running

Typed == TypeOK /\ Shape

LEMMA NoFileIsNoLog == \A s : s \in Seq(Record) => s # NoFile
  BY NoFileAssumption

LEMMA RecordsType == ASSUME TypeOK PROVE Records \in Seq(Record) /\ Len(Records) \in Nat
  BY DEF TypeOK, Records

LEMMA CommandType ==
  ASSUME NEW p \in Client, NEW c \in Commands[p]
  PROVE  /\ c.op \in {"incr", "del", "get"} /\ c.key \in Key
         /\ ShouldLog(c) => c \in Entry
  BY CommandsAssumption DEF ShouldLog, Entry

LEMMA TypedInit == Init => Typed
<1> SUFFICES ASSUME Init PROVE Typed
  OBVIOUS
<1>1. saving \in [by: {"nobody", "autosave", "shutdown"}, kv: Store, left: SUBSET Names]
  BY NothingType DEF Init, NoSave
<1>2. sent \in 0 .. MaxSent /\ (aof = NoFile \/ aof \in Seq(Record)) /\ synced \in 0 .. Len(Records)
  BY BoundAssumption, LogsAssumption DEF Init, Records
<1>3. failed \in BOOLEAN /\ cfg \in Configs \cup {Off}
  BY DEF Init
<1>4. TypeOK
  BY <1>1, <1>2, <1>3, NothingType DEF Init, TypeOK, NoTask
<1>5. Shape
  BY DEF Init, Shape, NoTask, NoSave
<1> QED BY <1>4, <1>5 DEF Typed

(* What the file becomes when a write is cut. *)
LEMMA CutLog ==
  ASSUME aof \in Seq(Record), NEW c, NEW r \in CutsOf(c), aof' = Append(aof, r)
  PROVE  /\ r \in Cut /\ aof # NoFile /\ aof' # NoFile /\ aof' \in Seq(Record)
         /\ Len(aof) \in Nat /\ Len(aof') = Len(aof) + 1
         /\ Records = aof /\ Records' = Append(Records, r)
<1>1. r \in Cut /\ r \in Record
  BY RecordTypes DEF CutsOf
<1>2. aof' \in Seq(Record) /\ Len(aof') = Len(aof) + 1 /\ Len(aof) \in Nat
  BY <1>1
<1>3. aof # NoFile /\ aof' # NoFile
  BY <1>2, NoFileIsNoLog
<1> QED BY <1>1, <1>2, <1>3 DEF Records

LEMMA WriterHasLog ==
  ASSUME Typed, current # NoTask
  PROVE  aof \in Seq(Record) /\ aof # NoFile /\ Records = aof /\ cfg.aof /\ Running
  BY DEF Typed, TypeOK, Shape, Running, Records

LEMMA WritingIsTask == ASSUME current.at # "recv" PROVE current # NoTask
  BY DEF NoTask

LEMMA SyncAllType ==
  ASSUME SyncAll, aof \in Seq(Record), synced \in 0 .. Len(aof)
  PROVE  synced' \in 0 .. Len(aof) /\ failed' \in BOOLEAN
<1>1. Len(aof) \in Nat
  OBVIOUS
<1>2. synced' \in 0 .. Len(aof)
  BY <1>1 DEF SyncAll
<1>3. failed' \in BOOLEAN
  BY DEF SyncAll
<1> QED BY <1>2, <1>3

LEMMA ServerSteps ==
  ASSUME Typed, Start \/ Load \/ Interrupt \/ Stop PROVE Typed'
<1> USE DEF Typed, TypeOK, Shape, Running, Records, server, clients, writer, saver
<1>1. CASE Start
  <2>1. Records \in Seq(Record) /\ Records # NoFile
    BY NoFileAssumption
  <2>2. cfg' \in [aof: BOOLEAN, fsync: {"always", "everysec", "no"}, rdb: BOOLEAN]
    BY <1>1, ConfigsAssumption DEF Start
  <2> QED BY <1>1, <2>1, <2>2 DEF Start
<1>2. CASE Load
  <2>1. Loaded \in Store
    BY AtType, NothingType DEF Loaded
  <2> QED BY <1>2, <2>1 DEF Load
<1>3. CASE Interrupt
  <2>1. synced' \in 0 .. Len(Records') /\ failed' \in BOOLEAN /\ aof' = aof
    <3>1. CASE cfg.aof
      <4>1. SyncAll /\ aof' = aof /\ aof \in Seq(Record) /\ aof # NoFile /\ synced \in 0 .. Len(aof)
        BY <1>3, <3>1 DEF Interrupt
      <4> QED BY <4>1, SyncAllType
    <3>2. CASE ~cfg.aof
      BY <1>3, <3>2 DEF Interrupt
    <3> QED BY <3>1, <3>2
  <2>2. UNCHANGED <<cfg, clients, channel, current, saver, sent>> /\ stage = "run"
        /\ stage' = IF cfg.rdb THEN "last_save" ELSE "linger"
    BY <1>3 DEF Interrupt
  <2> HIDE DEF Records
  <2> QED BY <2>1, <2>2
<1>4. CASE Stop
  <2>1. aof' = aof \/ (current.at = "write" /\ \E r \in CutsOf(Head(current.record)) : aof' = Append(aof, r))
    BY <1>4 DEF Stop
  <2>2. (aof' = NoFile \/ aof' \in Seq(Record)) /\ synced \in 0 .. Len(Records')
    <3>1. CASE aof' = aof
      BY <3>1
    <3>2. CASE current.at = "write" /\ \E r \in CutsOf(Head(current.record)) : aof' = Append(aof, r)
      <4>1. aof \in Seq(Record) /\ Records = aof
        BY <3>2, WritingIsTask, WriterHasLog
      <4>2. aof' \in Seq(Record) /\ Records' = aof' /\ Len(aof') = Len(aof) + 1 /\ Len(aof) \in Nat
        BY <3>2, <4>1, CutLog
      <4>3. synced \in 0 .. Len(aof)
        BY <4>1
      <4> QED BY <4>2, <4>3
    <3> QED BY <2>1, <3>1, <3>2
  <2> HIDE DEF Records
  <2>3. saving' \in [by: {"nobody", "autosave", "shutdown"}, kv: Store, left: SUBSET Names]
    BY <1>4, NothingType DEF Stop, NoSave
  <2>4. kv' \in Store /\ failed' \in BOOLEAN
    BY <1>4, NothingType DEF Stop
  <2>5. TypeOK'
    BY <1>4, <2>2, <2>3, <2>4 DEF Stop, NoTask
  <2>6. Shape'
    BY <1>4 DEF Stop, NoTask, NoSave, Off
  <2> QED BY <2>5, <2>6
<1> QED BY <1>1, <1>2, <1>3, <1>4

LEMMA ClientSteps ==
  ASSUME Typed, NEW p \in Client, Log(p) \/ Execute(p) PROVE Typed'
<1> USE DEF Typed, TypeOK, Shape, Running, Records, server, clients, writer, saver
<1>1. CASE Log(p)
  <2>1. PICK c \in Commands[p] :
          /\ cmd' = [cmd EXCEPT ![p] = c]
          /\ dirty' = IF (cfg.aof \/ cfg.rdb) /\ ShouldLog(c) THEN dirty + 1 ELSE dirty
          /\ channel' = IF cfg.aof /\ ShouldLog(c) THEN Append(channel, c) ELSE channel
    BY <1>1 DEF Log
  <2>2. channel' \in Seq(Entry)
    <3>1. CASE cfg.aof /\ ShouldLog(c)
      <4>1. Append(channel, c) \in Seq(Entry)
        BY <3>1, CommandType
      <4> QED BY <2>1, <3>1, <4>1
    <3>2. CASE ~(cfg.aof /\ ShouldLog(c))
      BY <2>1, <3>2
    <3> QED BY <3>1, <3>2
  <2>3. channel' # <<>> => channel # <<>> \/ cfg.aof
    BY <2>1
  <2>4. UNCHANGED <<stage, cfg, kv, current, aof, synced, failed, rdb, saving>> /\ Running
        /\ pc' = [pc EXCEPT ![p] = "execute"] /\ sent' = sent + 1 /\ sent < MaxSent
    BY <1>1 DEF Log
  <2>5. \A q \in Client : cmd'[q] \in Commands[q] \cup {NoCommand}
    BY <2>1
  <2>6. dirty' \in Nat /\ sent' \in 0 .. MaxSent
    BY <2>1, <2>4, BoundAssumption
  <2>7. pc' \in [Client -> {"idle", "execute"}]
    BY <2>4
  <2>8. TypeOK'
    BY <2>2, <2>4, <2>5, <2>6, <2>7
  <2>9. cmd' = [q \in Client |-> cmd'[q]] /\ \A q \in Client : pc'[q] = "execute" => cmd'[q] \in Commands[q]
    BY <2>1, <2>4
  <2>10. Shape'
    BY <2>3, <2>4, <2>9
  <2> QED BY <2>8, <2>10
<1>2. CASE Execute(p)
  BY <1>2, ApplyType DEF Execute
<1> QED BY <1>1, <1>2

LEMMA WriterSteps ==
  ASSUME Typed, Take \/ Write \/ WriteFails \/ SyncEach \/ SyncTimer PROVE Typed'
<1> USE DEF Typed, TypeOK, Shape, Running, server, clients, writer, saver
<1>1. CASE Take
  <2>1. Head(channel) \in Entry /\ <<Head(channel)>> \in Seq(Entry) /\ Tail(channel) \in Seq(Entry)
    BY <1>1 DEF Take
  <2> QED BY <1>1, <2>1 DEF Take, Records
<1>2. CASE Write
  <2>1. current # NoTask
    BY <1>2, WritingIsTask DEF Write
  <2>2. aof \in Seq(Record) /\ aof # NoFile /\ Records = aof /\ current.record \in Seq(Record)
    BY <2>1, WriterHasLog, RecordTypes
  <2>3. aof \o current.record \in Seq(Record) /\ Len(aof \o current.record) >= Len(aof)
    BY <2>2
  <2>4. aof' \in Seq(Record) /\ Len(aof') >= Len(aof) /\ aof' # NoFile /\ Records' = aof'
    BY <1>2, <2>2, <2>3, NoFileIsNoLog DEF Write, Records
  <2>5. synced \in 0 .. Len(Records')
    BY <2>2, <2>4
  <2> QED BY <1>2, <2>1, <2>4, <2>5 DEF Write
<1>3. CASE WriteFails
  <2>1. current # NoTask /\ aof \in Seq(Record) /\ Records = aof /\ aof # NoFile
    BY <1>3, WritingIsTask, WriterHasLog DEF WriteFails
  <2>2. aof' \in Seq(Record) /\ aof' # NoFile /\ synced \in 0 .. Len(Records')
    <3>1. CASE aof' = aof
      BY <2>1, <3>1 DEF Records
    <3>2. CASE \E r \in CutsOf(Head(current.record)) : aof' = Append(aof, r)
      <4>1. aof' \in Seq(Record) /\ aof' # NoFile /\ Len(aof') = Len(aof) + 1 /\ Len(aof) \in Nat /\ Records' = aof'
        BY <2>1, <3>2, CutLog
      <4>2. synced \in 0 .. Len(aof)
        BY <2>1
      <4> QED BY <4>1, <4>2
    <3> QED BY <1>3, <3>1, <3>2 DEF WriteFails
  <2> QED BY <1>3, <2>1, <2>2 DEF WriteFails, NoTask
<1>4. CASE SyncEach
  <2>1. current # NoTask /\ aof \in Seq(Record) /\ aof # NoFile /\ Records = aof /\ SyncAll /\ aof' = aof
    BY <1>4, WritingIsTask, WriterHasLog DEF SyncEach
  <2>2. synced' \in 0 .. Len(aof) /\ failed' \in BOOLEAN /\ Records' = aof
    BY <2>1, SyncAllType DEF Records
  <2> QED BY <1>4, <2>1, <2>2 DEF SyncEach, NoTask
<1>5. CASE SyncTimer
  <2>1. aof \in Seq(Record) /\ aof # NoFile /\ Records = aof /\ SyncAll /\ aof' = aof
    BY <1>5 DEF SyncTimer, Timer, Records
  <2>2. synced' \in 0 .. Len(aof) /\ failed' \in BOOLEAN /\ Records' = aof
    BY <2>1, SyncAllType DEF Records
  <2> QED BY <1>5, <2>1, <2>2 DEF SyncTimer
<1> QED BY <1>1, <1>2, <1>3, <1>4, <1>5

LEMMA SaverSteps ==
  ASSUME Typed, SaveEnd \/ (\E by \in {"autosave", "shutdown"} : SaveBegin(by)) \/ \E k \in Names : Copy(k)
  PROVE  Typed'
<1> USE DEF Typed, TypeOK, Shape, Running, Records, server, clients, writer, saver
<1>1. CASE SaveEnd
  <2>1. rdb' = saving.kv \/ rdb' = rdb
    BY <1>1 DEF SaveEnd
  <2>2. saving' \in [by: {"nobody", "autosave", "shutdown"}, kv: Store, left: SUBSET Names]
    BY <1>1, NothingType DEF SaveEnd, NoSave
  <2>3. stage' \in {stage, "linger"} /\ dirty' \in Nat /\ (stage' = "linger" \/ stage' = stage)
    BY <1>1 DEF SaveEnd
  <2>4. saving.by = "shutdown" => stage \notin {"down", "load"}
    OBVIOUS
  <2>5. saving'.by = "nobody"
    BY <1>1 DEF SaveEnd, NoSave
  <2>6. stage = "last_save" \/ stage' = stage
    BY <1>1 DEF SaveEnd
  <2>7. TypeOK'
    BY <1>1, <2>1, <2>2, <2>3, <2>4 DEF SaveEnd
  <2>8. Shape'
    BY <1>1, <2>3, <2>5, <2>6 DEF SaveEnd
  <2> QED BY <2>7, <2>8
<1>2. CASE \E by \in {"autosave", "shutdown"} : SaveBegin(by)
  <2>1. PICK by \in {"autosave", "shutdown"} : SaveBegin(by)
    BY <1>2
  <2>2. saving' = [by |-> by, kv |-> Nothing, left |-> Names] /\ Running /\ (by = "shutdown" => stage = "last_save")
    BY <2>1 DEF SaveBegin
  <2> QED BY <2>1, <2>2, NothingType DEF SaveBegin
<1>3. CASE \E k \in Names : Copy(k)
  <2>1. PICK k \in Names : Copy(k)
    BY <1>3
  <2>2. [saving.kv EXCEPT ![k] = kv[k]] \in Store
    BY DEF Store
  <2>3. saving'.by = saving.by /\ saving' \in [by: {"nobody", "autosave", "shutdown"}, kv: Store, left: SUBSET Names]
    BY <2>1, <2>2 DEF Copy
  <2> QED BY <2>1, <2>3 DEF Copy
<1> QED BY <1>1, <1>2, <1>3

LEMMA TypedStep == Typed /\ [Next]_vars => Typed'
<1>1. ASSUME Typed, UNCHANGED vars PROVE Typed'
  BY <1>1 DEF Typed, TypeOK, Shape, Running, Records, vars, server, clients, writer, saver
<1> QED BY <1>1, ServerSteps, ClientSteps, WriterSteps, SaverSteps DEF Next, Exit, Kill

(* Any clients, configurations, kills and restarts: every variable keeps    *)
(* its type, no more of the file counts as synced than there is, and only  *)
(* writes are on their way to it.                                          *)
THEOREM PersistenceTypeCorrect == Spec => []TypeOK
<1>1. Typed => TypeOK
  BY DEF Typed
<1> QED BY <1>1, TypedInit, TypedStep, PTL DEF Spec

-----------------------------------------------------------------------------
(* What is on its way to the file. *)
LEMMA PendingType ==
  ASSUME Typed
  PROVE  /\ Pending \in Seq(Record) /\ current.record \in Seq(Record) /\ channel \in Seq(Record)
         /\ Records \in Seq(Record) /\ Len(Records) \in Nat /\ Len(Records) <= Len(Pending)
         /\ \A i \in 1 .. Len(Records) : Pending[i] = Records[i]
<1>1. Records \in Seq(Record) /\ current.record \in Seq(Record) /\ channel \in Seq(Record)
  BY RecordsType, RecordTypes DEF Typed, TypeOK
<1>2. Records \o current.record \in Seq(Record)
  BY <1>1, ConcatProperties
<1>3. Pending \in Seq(Record)
  BY <1>1, <1>2, ConcatProperties DEF Pending
<1>4. Len(Records) \in Nat /\ Len(Records) <= Len(Pending)
  BY <1>1, <1>2 DEF Pending
<1>5. \A i \in 1 .. Len(Records) : Pending[i] = Records[i]
  BY <1>1, <1>2, <1>4 DEF Pending
<1> QED BY <1>1, <1>3, <1>4, <1>5

(* What moves no record but from one place on its way to the next. *)
Moves ==
  \/ Start \/ Load \/ Interrupt \/ Take \/ Write \/ SyncEach \/ SyncTimer \/ SaveEnd
  \/ (\E by \in {"autosave", "shutdown"} : SaveBegin(by))
  \/ (\E k \in Names : Copy(k)) \/ (\E p \in Client : Execute(p)) \/ UNCHANGED vars

LEMMA WriteMoves ==
  ASSUME Typed, Write
  PROVE  /\ current.record \in Seq(Record) /\ Records' = Records \o current.record
         /\ current'.record = <<>> /\ channel' = channel /\ Len(Records') >= Len(Records)
<1>1. aof \in Seq(Record) /\ Records = aof /\ current.record \in Seq(Record)
  BY WriterHasLog, WritingIsTask, PendingType DEF Write
<1>2. aof' = aof \o current.record /\ aof' \in Seq(Record)
  BY <1>1, ConcatProperties DEF Write
<1>3. Records' = Records \o current.record
  BY <1>1, <1>2, NoFileIsNoLog DEF Records
<1>4. Len(aof \o current.record) >= Len(aof)
  BY <1>1
<1> QED BY <1>1, <1>3, <1>4 DEF Write

LEMMA WriteRuns == ASSUME Typed, Write PROVE Running
  BY WritingIsTask, WriterHasLog DEF Write

LEMMA PendingKept ==
  ASSUME Typed, Moves
  PROVE  Pending' = Pending /\ Len(Records') >= Len(Records) /\ (Write \/ Records' = Records)
<1> USE DEF server, clients, writer, saver, history
<1>1. Records \in Seq(Record) /\ current.record \in Seq(Record) /\ channel \in Seq(Record) /\ <<>> \in Seq(Record)
      /\ Len(Records) \in Nat
  BY PendingType, EmptySeq
<1>2. CASE Take
  <2>1. current.record = <<>> /\ channel # <<>> /\ Records' = Records
    BY <1>2 DEF Take, Typed, Shape, Records
  <2>2. Head(channel) \in Record /\ Tail(channel) \in Seq(Record) /\ channel = <<Head(channel)>> \o Tail(channel)
    BY <1>1, <2>1, HeadTailProperties, SeqEqual
  <2>3. <<Head(channel)>> \in Seq(Record)
    BY <2>2
  <2>4. Pending' = (Records \o <<Head(channel)>>) \o Tail(channel)
    BY <1>2 DEF Take, Pending, Records
  <2>5. Pending' = Records \o channel
    BY <1>1, <2>2, <2>3, <2>4, ConcatAssociative
  <2> QED BY <1>1, <2>1, <2>5, ConcatEmptySeq DEF Pending
<1>3. CASE Write
  <2>1. Records \o current.record \in Seq(Record)
    BY <1>1, ConcatProperties
  <2> QED BY <1>3, <2>1, WriteMoves, ConcatEmptySeq DEF Pending
<1>4. CASE SyncEach
  BY <1>1, <1>4 DEF SyncEach, NoTask, Typed, Shape, Pending, Records
<1>5. CASE Start
  <2>1. Records' = Records
    BY <1>1, <1>5, NoFileIsNoLog DEF Start, Records
  <2> QED BY <1>1, <1>5, <2>1 DEF Start, Pending
<1>6. CASE Load \/ Interrupt \/ SyncTimer \/ SaveEnd \/ (\E by \in {"autosave", "shutdown"} : SaveBegin(by))
           \/ (\E k \in Names : Copy(k)) \/ (\E p \in Client : Execute(p)) \/ UNCHANGED vars
  <2>1. UNCHANGED <<aof, current, channel>>
    BY <1>6 DEF Load, Interrupt, SyncTimer, SaveEnd, SaveBegin, Copy, Execute, vars
  <2> QED BY <1>1, <2>1 DEF Pending, Records
<1> QED BY <1>2, <1>3, <1>4, <1>5, <1>6 DEF Moves

LEMMA PendingGrows ==
  ASSUME Typed, NEW c \in Entry, channel' = Append(channel, c), UNCHANGED <<aof, current>>
  PROVE  Pending' = Append(Pending, c) /\ Records' = Records
<1>1. c \in Record /\ Records \in Seq(Record) /\ current.record \in Seq(Record) /\ channel \in Seq(Record)
      /\ Pending \in Seq(Record)
  BY PendingType, RecordTypes
<1>2. Records \o current.record \in Seq(Record) /\ <<c>> \in Seq(Record)
  BY <1>1, ConcatProperties
<1>3. Pending' = (Records \o current.record) \o Append(channel, c) /\ Records' = Records
  BY DEF Pending, Records
<1>4. Append(channel, c) = channel \o <<c>> /\ Append(Pending, c) = Pending \o <<c>>
  BY <1>1, AppendIsConcat
<1>5. Pending = (Records \o current.record) \o channel
  BY DEF Pending
<1>6. (Records \o current.record) \o (channel \o <<c>>) = ((Records \o current.record) \o channel) \o <<c>>
  <2> DEFINE front == Records \o current.record
             last  == <<c>>
  <2>1. front \in Seq(Record) /\ channel \in Seq(Record) /\ last \in Seq(Record)
    BY <1>1, <1>2
  <2> HIDE DEF front, last
  <2>2. (front \o channel) \o last = front \o (channel \o last)
    BY <2>1, ConcatAssociative
  <2> QED BY <2>2 DEF front, last
<1> QED BY <1>3, <1>4, <1>5, <1>6

(* The end of the process leaves the file, and maybe a record cut in two. *)
LEMMA PendingDropped ==
  ASSUME Typed, Stop
  PROVE  /\ Pending' = Records' /\ channel' = <<>> /\ current'.record = <<>>
         /\ Records' = Records
            \/ (current # NoTask /\ \E r \in Cut : Records' = Append(Records, r))
<1>1. Pending' = Records' /\ channel' = <<>> /\ current'.record = <<>>
  <2>1. channel' = <<>> /\ current'.record = <<>>
    BY DEF Stop, NoTask
  <2>2. TypeOK'
    BY ServerSteps DEF Typed
  <2>3. Records' \in Seq(Record)
    BY <2>2, RecordsType DEF TypeOK, Records
  <2> QED BY <2>1, <2>3, ConcatEmptySeq, EmptySeq DEF Pending
<1>2. CASE aof' = aof
  BY <1>1, <1>2 DEF Records
<1>3. CASE current.at = "write" /\ \E r \in CutsOf(Head(current.record)) : aof' = Append(aof, r)
  <2>1. current # NoTask /\ aof \in Seq(Record)
    BY <1>3, WritingIsTask, WriterHasLog
  <2> QED BY <1>1, <1>3, <2>1, CutLog
<1> QED BY <1>2, <1>3 DEF Stop

(* What is on its way between runs, and at a start, is the file. *)
LEMMA PendingIsLog ==
  ASSUME Typed, current = NoTask, channel = <<>> PROVE Pending = Records
<1>1. Records \in Seq(Record) /\ current.record = <<>>
  BY PendingType DEF NoTask
<1> QED BY <1>1, ConcatEmptySeq, EmptySeq DEF Pending

LEMMA LoadedType == ASSUME Typed, Load PROVE kv' \in Store /\ kv' = Loaded /\ Typed'
  BY ServerSteps DEF Load, Typed, TypeOK

(* What a server with a log loads. *)
LEMMA LoadedFromLog ==
  ASSUME Typed, Load, cfg.aof
  PROVE  /\ Pending = Records /\ Records = aof /\ aof \in Seq(Record)
         /\ kv' = Final(Records).kv /\ logged' = kv' /\ past' = {kv'} /\ thinned' = {kv'}
         /\ broken' = ~AtRest(Final(Records))
<1>1. current = NoTask /\ channel = <<>> /\ aof # NoFile /\ aof \in Seq(Record) /\ Records = aof
  BY DEF Load, Typed, TypeOK, Shape, Running, Records
<1>2. Loaded = Replay(aof) /\ Replay(aof) = Final(aof).kv
  BY <1>1, AtType DEF Loaded
<1>3. logged' = kv' /\ past' = {kv'} /\ thinned' = {kv'} /\ broken' = ~AtRest(Final(aof)) /\ kv' = Loaded
  BY DEF Load, Final, At
<1> QED BY <1>1, <1>2, <1>3, PendingIsLog

(* What the connection sends. *)
LEMMA Logged ==
  ASSUME Typed, NEW p \in Client, Log(p)
  PROVE  \/ /\ UNCHANGED <<channel, logged, past, thinned>> /\ Pending' = Pending
            /\ ~cfg.aof \/ cmd'[p].op = "get"
         \/ /\ cfg.aof /\ cmd'[p] \in Entry /\ channel' = Append(channel, cmd'[p])
            /\ Pending' = Append(Pending, cmd'[p])
            /\ logged' = Apply(logged, cmd'[p]) /\ past' = past \cup {logged'}
            /\ thinned' = thinned \cup {Apply(s, cmd'[p]) : s \in thinned}
<1>1. PICK c \in Commands[p] :
        /\ cmd' = [cmd EXCEPT ![p] = c]
        /\ IF cfg.aof /\ ShouldLog(c)
           THEN /\ channel' = Append(channel, c)
                /\ logged' = Apply(logged, c)
                /\ past' = past \cup {logged'}
                /\ thinned' = thinned \cup {Apply(s, c) : s \in thinned}
           ELSE UNCHANGED <<channel, logged, past, thinned>>
  BY DEF Log
<1>2. cmd'[p] = c /\ UNCHANGED <<aof, current>>
  BY <1>1 DEF Log, Typed, Shape
<1>3. CASE cfg.aof /\ ShouldLog(c)
  <2>1. c \in Entry /\ channel' = Append(channel, c)
    BY <1>1, <1>3, CommandType
  <2>2. Pending' = Append(Pending, c)
    BY <1>2, <2>1, PendingGrows
  <2> QED BY <1>1, <1>2, <1>3, <2>1, <2>2
<1>4. CASE ~(cfg.aof /\ ShouldLog(c))
  <2>1. UNCHANGED <<channel, logged, past, thinned>>
    BY <1>1, <1>4
  <2>2. Pending' = Pending
    BY <1>2, <2>1 DEF Pending, Records
  <2> QED BY <1>2, <1>4, <2>1, <2>2 DEF ShouldLog
<1> QED BY <1>3, <1>4
-----------------------------------------------------------------------------
(* The log of a run that was read to its end: behind every record that is   *)
(* still on its way a record may begin, what is executed up to there is in  *)
(* the past, and all of them give what was logged.                         *)
OnItsWay == Len(Records) .. Len(Pending)

LogInv ==
  /\ logged \in Store /\ past \subseteq Store
  /\ ~broken => \A n \in OnItsWay : At(Pending, n).kv \in past
  /\ ~broken /\ cfg.aof /\ Running =>
       (\A n \in OnItsWay : AtRest(At(Pending, n))) /\ Final(Pending).kv = logged

LEMMA LogInit == Init => LogInv
<1> SUFFICES ASSUME Init PROVE LogInv
  OBVIOUS
<1>1. Typed /\ current = NoTask /\ channel = <<>>
  BY TypedInit DEF Init
<1>2. Pending = Records /\ Records \in Seq(Record) /\ Len(Records) \in Nat
  BY <1>1, PendingIsLog, PendingType
<1>3. logged = Final(Records).kv /\ past = {logged} /\ logged \in Store
  BY <1>2, AtType DEF Init
<1>4. \A n \in OnItsWay : At(Pending, n).kv \in past
  <2>1. \A n \in OnItsWay : n = Len(Records)
    BY <1>2 DEF OnItsWay
  <2> QED BY <1>2, <1>3, <2>1 DEF Final
<1>5. ~Running
  BY DEF Init, Running
<1> QED BY <1>3, <1>4, <1>5 DEF LogInv

LEMMA LogMoves ==
  ASSUME Typed, LogInv, Moves, ~Load, ~Start PROVE LogInv'
<1> USE DEF server, clients, writer, saver, history
<1>1. Pending' = Pending /\ Len(Records') >= Len(Records)
  BY PendingKept
<1>2. UNCHANGED <<cfg, history>> /\ (Running' => Running)
  BY DEF Moves, Interrupt, Take, Write, SyncEach, SyncTimer, SaveEnd, SaveBegin, Copy, Execute,
         vars, Running, Typed, Shape
<1>3. OnItsWay' \subseteq OnItsWay
  <2>1. Len(Records) \in Nat /\ Len(Records)' \in Nat /\ Len(Pending) \in Nat
    <3>1. Typed'
      BY TypedStep DEF Moves, Next
    <3> QED BY <3>1, PendingType, RecordsType DEF Typed
  <2> QED BY <1>1, <2>1 DEF OnItsWay
<1> QED BY <1>1, <1>2, <1>3 DEF LogInv

LEMMA LogStart == ASSUME Typed, LogInv, Start PROVE LogInv'
<1>1. Pending' = Pending /\ Records' = Records /\ UNCHANGED history /\ ~Running'
  BY PendingKept, WriteRuns DEF Moves, Start, Running
<1> QED BY <1>1 DEF LogInv, OnItsWay, history

LEMMA LogLoad == ASSUME Typed, LogInv, Load PROVE LogInv'
<1>1. Pending' = Pending /\ Records' = Records
  BY PendingKept, WriteRuns DEF Moves, Load, Running
<1>2. kv' \in Store
  BY LoadedType
<1>3. CASE cfg.aof
  <2>1. Pending = Records /\ kv' = Final(Records).kv /\ logged' = kv' /\ past' = {kv'}
        /\ broken' = ~AtRest(Final(Records)) /\ Len(Records) \in Nat
    BY <1>3, LoadedFromLog, PendingType
  <2>2. \A n \in Len(Records) .. Len(Records) : n = Len(Records)
    BY <2>1
  <2>3. OnItsWay' = Len(Records) .. Len(Records)
    BY <1>1, <2>1 DEF OnItsWay
  <2>4. \A n \in OnItsWay' : At(Pending', n) = Final(Records)
    BY <1>1, <2>1, <2>2, <2>3 DEF Final
  <2>5. Final(Pending)' = Final(Records)
    BY <1>1, <2>1
  <2> QED BY <1>2, <2>1, <2>4, <2>5 DEF LogInv
<1>4. CASE ~cfg.aof
  <2>1. UNCHANGED <<history, cfg>>
    BY <1>4 DEF Load
  <2> QED BY <1>1, <1>4, <2>1 DEF LogInv, OnItsWay, history
<1> QED BY <1>3, <1>4

LEMMA LogStop == ASSUME Typed, LogInv, Stop PROVE LogInv'
<1>1. UNCHANGED history /\ ~Running'
  BY DEF Stop, Running
<1>2. logged' \in Store /\ past' \subseteq Store
  BY <1>1 DEF history, LogInv
<1>3. ASSUME ~broken' PROVE \A n \in OnItsWay' : At(Pending', n).kv \in past'
  <2>1. Pending' = Records' /\ ~broken /\ past' = past
    BY <1>1, <1>3, PendingDropped DEF history
  <2>2. Len(Records) \in OnItsWay /\ At(Pending, Len(Records)) = Final(Records)
    <3>1. Len(Records) \in Nat /\ Len(Pending) \in Nat /\ Len(Records) <= Len(Pending)
      BY PendingType
    <3>2. At(Records, Len(Records)) = At(Pending, Len(Records))
      BY <3>1, PendingType, AtOfPrefix
    <3> QED BY <3>1, <3>2 DEF OnItsWay, Final
  <2>3. Final(Records).kv \in past
    BY <2>1, <2>2 DEF LogInv
  <2>4. Final(Records').kv \in past
    <3>1. CASE Records' = Records
      BY <2>3, <3>1
    <3>2. CASE current # NoTask /\ \E r \in Cut : Records' = Append(Records, r)
      <4>1. cfg.aof /\ Running
        BY <3>2, WriterHasLog
      <4>2. AtRest(Final(Records)) /\ Final(Records) \in Readers
        BY <2>1, <2>2, <4>1, PendingType, AtType DEF LogInv
      <4>3. PICK r \in Cut : Records' = Append(Records, r)
        BY <3>2
      <4>4. Final(Records') = Read(Final(Records), r)
        BY <4>3, PendingType, RecordTypes, AtOfAppend
      <4> QED BY <2>3, <4>2, <4>4, ReadAtRest
    <3> QED BY <3>1, <3>2, PendingDropped
  <2>5. \A n \in OnItsWay' : n = Len(Records')
    <3>1. Len(Records') \in Nat
      BY ServerSteps, RecordsType DEF Typed
    <3> QED BY <2>1, <3>1 DEF OnItsWay
  <2> QED BY <2>1, <2>4, <2>5 DEF Final
<1> QED BY <1>1, <1>2, <1>3 DEF LogInv

LEMMA LogLog == ASSUME Typed, LogInv, NEW p \in Client, Log(p) PROVE LogInv'
<1>1. UNCHANGED <<cfg, aof, broken, stage>> /\ Running /\ Records' = Records
  BY DEF Log, server, Running, Records
<1>2. CASE UNCHANGED <<channel, logged, past, thinned>> /\ Pending' = Pending
  BY <1>1, <1>2 DEF LogInv, OnItsWay, Running
<1>3. CASE /\ cfg.aof /\ cmd'[p] \in Entry /\ Pending' = Append(Pending, cmd'[p])
           /\ logged' = Apply(logged, cmd'[p]) /\ past' = past \cup {logged'}
  <2> DEFINE c == cmd'[p]
             q == Append(Pending, c)
  <2>1. c \in Record /\ Pending \in Seq(Record) /\ Len(Pending) \in Nat /\ Len(Records) \in Nat
        /\ Len(Records) <= Len(Pending) /\ Len(q) = Len(Pending) + 1
    BY <1>3, RecordTypes, PendingType
  <2>2. logged' \in Store /\ past' \subseteq Store
    BY <1>3, ApplyType DEF LogInv
  <2> SUFFICES ASSUME ~broken
               PROVE  /\ \A n \in OnItsWay' : At(q, n).kv \in past' /\ AtRest(At(q, n))
                      /\ Final(q).kv = logged'
    BY <1>1, <1>3, <2>2 DEF LogInv
  <2>3. Final(Pending) \in Readers /\ AtRest(Final(Pending)) /\ Final(Pending).kv = logged
    <3>1. Len(Pending) \in OnItsWay
      BY <2>1 DEF OnItsWay
    <3> QED BY <1>1, <1>3, <2>1, <3>1, AtType DEF LogInv, Final
  <2>4. Final(q) = Read(Final(Pending), c) /\ \A n \in 0 .. Len(Pending) : At(q, n) = At(Pending, n)
    BY <2>1, AtOfAppend
  <2>5. AtRest(Final(q)) /\ Final(q).kv = logged'
    BY <1>3, <2>3, <2>4, ReadAtRest
  <2>6. ASSUME NEW n \in OnItsWay' PROVE At(q, n).kv \in past' /\ AtRest(At(q, n))
    <3>1. n = Len(q) \/ (n \in OnItsWay /\ n \in 0 .. Len(Pending))
      <4> HIDE DEF q
      <4>1. OnItsWay' = Len(Records) .. Len(q)
        BY <1>1, <1>3 DEF OnItsWay, q
      <4> QED BY <2>1, <4>1 DEF OnItsWay
    <3>2. CASE n = Len(q)
      BY <1>3, <2>5, <3>2 DEF Final
    <3>3. CASE n \in OnItsWay /\ n \in 0 .. Len(Pending)
      BY <1>1, <1>3, <2>4, <3>3 DEF LogInv
    <3> QED BY <3>1, <3>2, <3>3
  <2> QED BY <2>5, <2>6
<1> QED BY <1>2, <1>3, Logged

LEMMA LogStep == ASSUME Typed, LogInv, [Next]_vars PROVE LogInv'
<1>1. CASE WriteFails
  <2>1. broken' /\ UNCHANGED <<logged, past>>
    BY <1>1 DEF WriteFails
  <2> QED BY <2>1 DEF LogInv
<1> QED BY <1>1, LogMoves, LogStart, LogLoad, LogStop, LogLog DEF Next, Moves, Exit, Kill
-----------------------------------------------------------------------------
(* Any log, also one with cuts and holes.  f[i] holds what the file and some *)
(* of the first i commands that are queued for it give, up to keys of no    *)
(* client: with the whole queue, that is among what was thinned.           *)
Queue == current.record \o channel

Thinning(f, q) ==
  /\ f \in [0 .. Len(q) -> SUBSET Store]
  /\ \A i \in 1 .. Len(q) : \A s \in f[i - 1] : s \in f[i] /\ Apply(s, q[i]) \in f[i]

ThinInv ==
  /\ thinned \subseteq Store
  /\ \E f : /\ Thinning(f, Queue) /\ f[Len(Queue)] \subseteq thinned
            /\ \E s \in f[0] : SameKeys(s, Replay(Records))

LEMMA QueueType ==
  ASSUME Typed
  PROVE  /\ Queue \in Seq(Entry) /\ Len(Queue) \in Nat
         /\ current.record = <<>> => Queue = channel
<1>1. current.record \in Seq(Entry) /\ channel \in Seq(Entry)
  BY DEF Typed, TypeOK
<1>2. Queue \in Seq(Entry)
  BY <1>1, ConcatProperties DEF Queue
<1>3. Len(Queue) \in Nat
  BY <1>2
<1> QED BY <1>1, <1>2, <1>3, ConcatEmptySeq DEF Queue

LEMMA ThinningOfNone ==
  ASSUME NEW T \in SUBSET Store PROVE \E f : Thinning(f, <<>>) /\ f[0] = T
<1> DEFINE f == [i \in 0 .. 0 |-> T]
<1>1. Len(<<>>) = 0 /\ f \in [0 .. 0 -> SUBSET Store] /\ f[0] = T
  OBVIOUS
<1>2. Thinning(f, <<>>)
  BY <1>1 DEF Thinning
<1> QED BY <1>1, <1>2

LEMMA ThinningEnds ==
  ASSUME NEW q \in Seq(Entry), NEW f, Thinning(f, q) PROVE f[0] \subseteq f[Len(q)]
<1> DEFINE T == {i \in 0 .. Len(q) : f[0] \subseteq f[i]}
<1>1. Len(q) \in Nat
  OBVIOUS
<1>2. 0 \in T
  BY <1>1
<1>3. ASSUME NEW i \in 1 .. Len(q), i - 1 \in T PROVE i \in T
  <2>1. f[i - 1] \subseteq f[i] /\ f[0] \subseteq f[i - 1] /\ i \in 0 .. Len(q)
    BY <1>1, <1>3 DEF Thinning
  <2> QED BY <2>1
<1>4. Len(q) \in T
  <2> HIDE DEF T
  <2>1. Inductive(T, Len(q))
    BY <1>2, <1>3 DEF Inductive
  <2> QED BY <1>1, <2>1, InductionUpTo
<1> QED BY <1>4

LEMMA ThinningGrows ==
  ASSUME NEW q \in Seq(Entry), NEW c \in Entry, NEW f, Thinning(f, q),
         NEW T \in SUBSET Store, f[Len(q)] \subseteq T
  PROVE  \E g : /\ Thinning(g, Append(q, c)) /\ g[0] = f[0]
                /\ g[Len(Append(q, c))] = T \cup {Apply(s, c) : s \in T}
<1> DEFINE n == Len(q)
           r == Append(q, c)
           U == T \cup {Apply(s, c) : s \in T}
           g == [i \in 0 .. n + 1 |-> IF i = n + 1 THEN U ELSE f[i]]
<1>1. n \in Nat /\ r \in Seq(Entry) /\ Len(r) = n + 1 /\ r[n + 1] = c /\ \A i \in 1 .. n : r[i] = q[i]
  OBVIOUS
<1>2. U \in SUBSET Store
  BY ApplyType
<1>3. f \in [0 .. n -> SUBSET Store] /\ \A i \in 1 .. n : \A s \in f[i - 1] : s \in f[i] /\ Apply(s, q[i]) \in f[i]
  BY DEF Thinning
<1> HIDE DEF n, r, U
<1>4. g \in [0 .. n + 1 -> SUBSET Store]
  BY <1>1, <1>2, <1>3
<1>5. g[n + 1] = U /\ \A i \in 0 .. n : g[i] = f[i]
  BY <1>1
<1> HIDE DEF g
<1>6. ASSUME NEW i \in 1 .. n + 1, NEW s \in g[i - 1] PROVE s \in g[i] /\ Apply(s, r[i]) \in g[i]
  <2>1. CASE i = n + 1
    <3>1. s \in f[n]
      BY <1>1, <1>5, <2>1
    <3>2. s \in T
      BY <3>1 DEF n
    <3> QED BY <1>1, <1>5, <2>1, <3>2 DEF U
  <2>2. CASE i # n + 1
    <3>1. i \in 1 .. n /\ i \in 0 .. n /\ i - 1 \in 0 .. n
      BY <1>1, <2>2
    <3> QED BY <1>1, <1>3, <1>5, <3>1
  <2> QED BY <2>1, <2>2
<1>7. Thinning(g, r)
  BY <1>1, <1>4, <1>6 DEF Thinning
<1>8. g[0] = f[0]
  BY <1>1, <1>5
<1> QED BY <1>1, <1>5, <1>7, <1>8 DEF r, U

LEMMA ThinningDrops ==
  ASSUME NEW q \in Seq(Entry), NEW c \in Entry, NEW f, Thinning(f, <<c>> \o q)
  PROVE  \E g : /\ Thinning(g, q) /\ g[Len(q)] = f[Len(<<c>> \o q)]
                /\ \A s \in f[0] : s \in g[0] /\ Apply(s, c) \in g[0]
<1> DEFINE n == Len(q)
           r == <<c>> \o q
           g == [i \in 0 .. n |-> f[i + 1]]
<1>1. n \in Nat /\ Len(r) = n + 1 /\ r[1] = c /\ \A i \in 1 .. n : r[i + 1] = q[i]
  OBVIOUS
<1> HIDE DEF n, r
<1>2. f \in [0 .. n + 1 -> SUBSET Store]
      /\ \A i \in 1 .. n + 1 : \A s \in f[i - 1] : s \in f[i] /\ Apply(s, r[i]) \in f[i]
  BY <1>1 DEF Thinning, r
<1>3. g \in [0 .. n -> SUBSET Store] /\ g[n] = f[n + 1] /\ g[0] = f[1]
  BY <1>1, <1>2
<1>4. ASSUME NEW i \in 1 .. n, NEW s \in g[i - 1] PROVE s \in g[i] /\ Apply(s, q[i]) \in g[i]
  <2>1. g[i - 1] = f[i] /\ g[i] = f[i + 1] /\ i + 1 \in 1 .. n + 1 /\ (i + 1) - 1 = i /\ r[i + 1] = q[i]
    BY <1>1
  <2> QED BY <1>2, <1>4, <2>1
<1>5. Thinning(g, q)
  BY <1>3, <1>4 DEF Thinning, n
<1>6. \A s \in f[0] : s \in g[0] /\ Apply(s, c) \in g[0]
  <2>1. 1 \in 1 .. n + 1 /\ 1 - 1 = 0
    BY <1>1
  <2> QED BY <1>1, <1>2, <1>3, <2>1
<1>7. g[n] = f[Len(r)]
  BY <1>1, <1>3
<1> QED BY <1>5, <1>6, <1>7 DEF n, r

LEMMA ThinInit == Init => ThinInv
<1> SUFFICES ASSUME Init PROVE ThinInv
  OBVIOUS
<1>1. Queue = <<>> /\ Len(Queue) = 0
  BY ConcatEmptySeq, EmptySeq DEF Init, Queue, NoTask
<1>2. Replay(Records) \in Store
  BY TypedInit, PendingType, AtType
<1>3. thinned = {Replay(Records)} /\ thinned \in SUBSET Store
  BY <1>2 DEF Init
<1>4. PICK f : Thinning(f, <<>>) /\ f[0] = thinned
  BY <1>3, ThinningOfNone
<1> QED BY <1>1, <1>3, <1>4 DEF ThinInv, SameKeys

LEMMA ThinSame ==
  ASSUME ThinInv, Queue' = Queue, Records' = Records, thinned' = thinned PROVE ThinInv'
  BY DEF ThinInv

LEMMA ThinMoves == ASSUME Typed, ThinInv, Moves, ~Load, ~Write PROVE ThinInv'
<1> USE DEF server, clients, writer, saver, history
<1>1. Records' = Records
  BY PendingKept
<1>2. thinned' = thinned
  BY DEF Moves, Start, Interrupt, Take, SyncEach, SyncTimer, SaveEnd, SaveBegin, Copy, Execute, vars
<1>3. Queue' = Queue
  <2>1. CASE Take
    <3>1. current.record = <<>> /\ channel # <<>> /\ channel \in Seq(Entry)
      BY <2>1 DEF Take, Typed, TypeOK, Shape
    <3>2. channel = <<Head(channel)>> \o Tail(channel)
      BY <3>1, HeadTailProperties, SeqEqual
    <3>3. Queue' = <<Head(channel)>> \o Tail(channel)
      BY <2>1 DEF Take, Queue
    <3> QED BY <3>1, <3>2, <3>3, QueueType
  <2>2. CASE SyncEach
    BY <2>2 DEF SyncEach, NoTask, Typed, Shape, Queue
  <2>3. CASE UNCHANGED <<current, channel>>
    BY <2>3 DEF Queue
  <2> QED BY <2>1, <2>2, <2>3
       DEF Moves, Start, Interrupt, SyncTimer, SaveEnd, SaveBegin, Copy, Execute, vars
<1> QED BY <1>1, <1>2, <1>3, ThinSame

LEMMA ThinLoad == ASSUME Typed, ThinInv, Load PROVE ThinInv'
<1>1. Records' = Records /\ Queue' = Queue
  BY DEF Load, Records, Queue, writer
<1>2. CASE cfg.aof
  <2>1. thinned' = {kv'} /\ thinned' \in SUBSET Store /\ Replay(Records) = kv'
    BY <1>2, LoadedFromLog, LoadedType, AtType
  <2>2. Queue = <<>> /\ Len(Queue) = 0
    <3>1. current = NoTask /\ channel = <<>>
      BY DEF Load, Typed, Shape, Running
    <3> QED BY <3>1, QueueType DEF NoTask
  <2>3. PICK f : Thinning(f, <<>>) /\ f[0] = thinned'
    BY <2>1, ThinningOfNone
  <2> QED BY <1>1, <2>1, <2>2, <2>3 DEF ThinInv, SameKeys
<1>3. CASE ~cfg.aof
  BY <1>1, <1>3, ThinSame DEF Load, history
<1> QED BY <1>2, <1>3

(* A record in the file, whole or cut, is executed or costs nothing. *)
LEMMA ThinRead ==
  ASSUME NEW q \in Seq(Record), NEW r \in Record, NEW s \in Store, SameKeys(s, Replay(q))
  PROVE  SameKeys(s, Replay(Append(q, r))) \/ (r \in Entry /\ SameKeys(Apply(s, r), Replay(Append(q, r))))
<1>1. Final(q) \in Readers /\ Replay(q) = Final(q).kv
  BY AtType
<1>2. Append(q, r) \in Seq(Record) /\ Final(Append(q, r)) = Read(Final(q), r)
  BY AtOfAppend
<1>3. Replay(Append(q, r)) = Read(Final(q), r).kv
  BY <1>2, AtType
<1> QED BY <1>1, <1>3, ReadAnywhere

LEMMA ThinWrites == ASSUME Typed, ThinInv, Write \/ WriteFails PROVE ThinInv'
<1> USE DEF clients, server
<1>1. PICK e \in Entry : current.record = <<e>>
  BY DEF Typed, Shape, Write, WriteFails
<1>2. channel \in Seq(Entry) /\ channel' = channel /\ thinned' = thinned /\ Queue = <<e>> \o channel
  BY <1>1 DEF Write, WriteFails, history, Typed, TypeOK, Queue
<1>3. Queue' = channel
  <2>1. current'.record = <<>>
    BY DEF Write, WriteFails, NoTask
  <2> QED BY <1>2, <2>1, ConcatEmptySeq DEF Queue
<1>4. PICK f : /\ Thinning(f, <<e>> \o channel) /\ f[Len(<<e>> \o channel)] \subseteq thinned
               /\ \E s \in f[0] : SameKeys(s, Replay(Records))
  BY <1>2 DEF ThinInv
<1>5. PICK g : /\ Thinning(g, channel) /\ g[Len(channel)] = f[Len(<<e>> \o channel)]
               /\ \A s \in f[0] : s \in g[0] /\ Apply(s, e) \in g[0]
  BY <1>2, <1>4, ThinningDrops
<1>6. PICK s \in f[0] : SameKeys(s, Replay(Records))
  BY <1>4
<1>7. s \in Store
  <2>1. Len(<<e>> \o channel) \in Nat
    BY <1>2
  <2> QED BY <1>4, <2>1 DEF Thinning
<1>8. Records \in Seq(Record)
  BY PendingType
<1>9. \E t \in g[0] : SameKeys(t, Replay(Records'))
  <2>1. CASE Write
    <3>1. Records' = Append(Records, e) /\ e \in Record
      <4>1. Records' = Records \o <<e>>
        BY <1>1, <2>1, WriteMoves
      <4> QED BY <1>8, <4>1, AppendIsConcat, RecordTypes
    <3> QED BY <1>5, <1>6, <1>7, <1>8, <3>1, ThinRead
  <2>2. CASE WriteFails
    <3>1. Records' = Records \/ \E r \in Cut : Records' = Append(Records, r)
      <4>1. aof \in Seq(Record)
        BY <2>2, WritingIsTask, WriterHasLog DEF WriteFails
      <4>2. CASE aof' = aof
        BY <4>2 DEF Records
      <4>3. CASE \E r \in CutsOf(Head(current.record)) : aof' = Append(aof, r)
        BY <4>1, <4>3, CutLog
      <4> QED BY <2>2, <4>2, <4>3 DEF WriteFails
    <3>2. ASSUME NEW r \in Cut, Records' = Append(Records, r) PROVE SameKeys(s, Replay(Records'))
      BY <1>6, <1>7, <1>8, <3>2, RecordTypes, ThinRead
    <3> QED BY <1>5, <1>6, <3>1, <3>2
  <2> QED BY <2>1, <2>2
<1>10. Thinning(g, Queue') /\ g[Len(Queue')] \subseteq thinned'
  BY <1>2, <1>3, <1>4, <1>5
<1> QED BY <1>2, <1>9, <1>10 DEF ThinInv

LEMMA ThinStop == ASSUME Typed, ThinInv, Stop PROVE ThinInv'
<1>1. thinned' = thinned /\ thinned \in SUBSET Store
  BY DEF Stop, history, ThinInv
<1>2. PICK s \in thinned : SameKeys(s, Replay(Records))
  BY QueueType, ThinningEnds DEF ThinInv
<1>3. SameKeys(s, Replay(Records'))
  <2>1. CASE Records' = Records
    BY <1>2, <2>1
  <2>2. CASE \E r \in Cut : Records' = Append(Records, r)
    BY <1>1, <1>2, <2>2, PendingType, RecordTypes, ThinRead
  <2> QED BY <2>1, <2>2, PendingDropped
<1>4. Queue' = <<>> /\ Len(Queue') = 0
  <2>1. channel' = <<>> /\ current'.record = <<>>
    BY PendingDropped
  <2> QED BY <2>1, ConcatEmptySeq, EmptySeq DEF Queue
<1>5. PICK f : Thinning(f, <<>>) /\ f[0] = thinned
  BY <1>1, ThinningOfNone
<1> QED BY <1>1, <1>3, <1>4, <1>5 DEF ThinInv

LEMMA ThinLog == ASSUME Typed, ThinInv, NEW p \in Client, Log(p) PROVE ThinInv'
<1>1. UNCHANGED <<aof, current>> /\ Records' = Records
  BY DEF Log, Records
<1>2. CASE UNCHANGED <<channel, logged, past, thinned>>
  BY <1>1, <1>2, ThinSame DEF Queue
<1>3. CASE /\ cmd'[p] \in Entry /\ channel' = Append(channel, cmd'[p])
           /\ thinned' = thinned \cup {Apply(s, cmd'[p]) : s \in thinned}
  <2>1. PICK c \in Entry : /\ channel' = Append(channel, c)
                           /\ thinned' = thinned \cup {Apply(s, c) : s \in thinned}
    BY <1>3
  <2>2. Queue' = Append(Queue, c)
    <3> DEFINE last == <<c>>
    <3>1. current.record \in Seq(Entry) /\ channel \in Seq(Entry) /\ last \in Seq(Entry) /\ Queue \in Seq(Entry)
      BY QueueType DEF Typed, TypeOK
    <3>2. Append(channel, c) = channel \o last /\ Append(Queue, c) = Queue \o last
      BY <3>1, AppendIsConcat
    <3>3. Queue' = current.record \o (channel \o last)
      BY <1>1, <2>1, <3>2 DEF Queue
    <3>4. ASSUME NEW front \in Seq(Entry), NEW back \in Seq(Entry), NEW end \in Seq(Entry)
          PROVE  front \o (back \o end) = (front \o back) \o end
      BY ConcatAssociative
    <3> HIDE DEF last
    <3>5. current.record \o (channel \o last) = (current.record \o channel) \o last
      BY <3>1, <3>4
    <3> QED BY <3>2, <3>3, <3>5 DEF Queue
  <2>3. thinned \in SUBSET Store /\ thinned' \subseteq Store
    BY <2>1, ApplyType DEF ThinInv
  <2>4. PICK f : /\ Thinning(f, Queue) /\ f[Len(Queue)] \subseteq thinned
                 /\ \E s \in f[0] : SameKeys(s, Replay(Records))
    BY DEF ThinInv
  <2>5. \E g : /\ Thinning(g, Append(Queue, c)) /\ g[0] = f[0]
               /\ g[Len(Append(Queue, c))] = thinned \cup {Apply(s, c) : s \in thinned}
    <3>1. ASSUME NEW q \in Seq(Entry), Thinning(f, q), NEW T \in SUBSET Store, f[Len(q)] \subseteq T
          PROVE  \E g : /\ Thinning(g, Append(q, c)) /\ g[0] = f[0]
                        /\ g[Len(Append(q, c))] = T \cup {Apply(s, c) : s \in T}
      BY <3>1, ThinningGrows, SMTT(60)
    <3> QED BY <2>3, <2>4, <3>1, QueueType
  <2>6. PICK g : /\ Thinning(g, Queue') /\ g[0] = f[0] /\ g[Len(Queue')] = thinned'
    BY <2>1, <2>2, <2>5
  <2> QED BY <1>1, <2>3, <2>4, <2>6 DEF ThinInv
<1> QED BY <1>2, <1>3, Logged

LEMMA ThinStep == ASSUME Typed, ThinInv, [Next]_vars PROVE ThinInv'
  BY ThinMoves, ThinLoad, ThinWrites, ThinStop, ThinLog DEF Next, Moves, Exit, Kill
-----------------------------------------------------------------------------
(* A snapshot takes every key from a store of the time of its save. *)
SnapInv ==
  /\ saving.by # "nobody" =>
       kv \in window /\ \A k \in Names \ saving.left : \E s \in window : saving.kv[k] = s[k]
  /\ rdb # NoFile => \A k \in Names : \E s \in kept : rdb[k] = s[k]

LEMMA SnapStep == ASSUME Typed, SnapInv, [Next]_vars PROVE SnapInv'
<1> USE DEF server, clients, writer, saver
<1>1. CASE \E k \in Names : Copy(k)
  <2>1. PICK k \in Names : Copy(k)
    BY <1>1
  <2>2. /\ saving'.by = saving.by /\ saving'.left = saving.left \ {k}
        /\ saving'.kv = [saving.kv EXCEPT ![k] = kv[k]] /\ UNCHANGED <<kv, window, rdb, kept>>
    BY <2>1 DEF Copy
  <2>3. saving.kv \in Store
    BY DEF Typed, TypeOK
  <2>4. saving'.kv[k] = kv[k] /\ \A j \in Names : j # k => saving'.kv[j] = saving.kv[j]
    BY <2>2, <2>3 DEF Store
  <2> QED BY <2>2, <2>4 DEF SnapInv
<1>2. CASE \E by \in {"autosave", "shutdown"} : SaveBegin(by)
  <2>1. saving'.left = Names /\ window' = {kv} /\ UNCHANGED <<kv, rdb, kept>>
    BY <1>2 DEF SaveBegin
  <2> QED BY <2>1 DEF SnapInv
<1>3. CASE SaveEnd
  <2>1. saving.by # "nobody" /\ saving.left = {} /\ saving'.by = "nobody"
        /\ ((rdb' = saving.kv /\ kept' = window) \/ UNCHANGED <<rdb, kept>>)
    BY <1>3 DEF SaveEnd, NoSave
  <2> QED BY <2>1 DEF SnapInv
<1>4. CASE Stop
  <2>1. saving'.by = "nobody" /\ UNCHANGED <<rdb, kept>>
    BY <1>4 DEF Stop, NoSave
  <2> QED BY <2>1 DEF SnapInv
<1>5. CASE Load
  <2>1. saving.by = "nobody" /\ UNCHANGED <<saving, rdb, kept>>
    BY <1>5 DEF Load, Typed, Shape, Running
  <2> QED BY <2>1 DEF SnapInv
<1>6. CASE \E p \in Client : Execute(p)
  <2>1. UNCHANGED <<saving, rdb, kept>> /\ (saving.by # "nobody" => window' = window \cup {kv'})
    BY <1>6 DEF Execute
  <2> QED BY <2>1 DEF SnapInv
<1>7. CASE UNCHANGED <<kv, saving, window, rdb, kept>>
  BY <1>7 DEF SnapInv
<1> QED BY <1>1, <1>2, <1>3, <1>4, <1>5, <1>6, <1>7
     DEF Next, Start, Interrupt, Exit, Kill, Log, Take, Write, WriteFails, SyncEach, SyncTimer, vars

(* Over any number of kills, restarts and changes of configuration, records *)
(* cut in two, failed writes, and commands that run while a snapshot is     *)
(* taken: a start loads the last log and a beginning of what was logged     *)
(* since or, where the log has a cut or a hole, a part of it in its order;  *)
(* or keys that were together during one save.                             *)
THEOREM RecoveryLoadsThePast == Spec => RecoveryIsPast
<1> DEFINE Inv == LogInv /\ ThinInv /\ SnapInv
           Loads ==
             stage = "load" /\ stage' = "run" =>
               /\ cfg.aof /\ ~broken => kv' \in past
               /\ cfg.aof => \E s \in thinned : \A k \in Key : kv'[k] = s[k]
               /\ ~cfg.aof /\ cfg.rdb /\ rdb # NoFile => \A k \in Names : \E s \in kept : kv'[k] = s[k]
<1>1. Init => Inv
  <2> SUFFICES ASSUME Init PROVE Inv
    OBVIOUS
  <2>1. SnapInv
    BY DEF Init, SnapInv, NoSave
  <2> QED BY <2>1, LogInit, ThinInit
<1>2. Typed /\ Inv /\ [Next]_vars => Inv'
  BY LogStep, ThinStep, SnapStep
<1>3. Typed /\ Inv /\ [Next]_vars => [Loads]_vars
  <2> SUFFICES ASSUME Typed, Inv, Next, stage = "load", stage' = "run" PROVE Loads
    BY DEF vars, server
  <2>1. Load
    BY DEF Next, Start, Interrupt, Exit, Kill, Stop, Log, Execute, Take, Write, WriteFails,
           SyncEach, SyncTimer, SaveEnd, SaveBegin, Copy, server, Typed, Shape, Running
  <2>2. ASSUME cfg.aof, ~broken PROVE kv' \in past
    <3>1. Pending = Records /\ kv' = Final(Records).kv /\ Len(Records) \in Nat
      BY <2>1, <2>2, LoadedFromLog, PendingType
    <3>2. Len(Records) \in OnItsWay /\ At(Pending, Len(Records)) = Final(Records)
      BY <3>1 DEF OnItsWay, Final
    <3> QED BY <2>2, <3>1, <3>2 DEF LogInv
  <2>3. ASSUME cfg.aof PROVE \E s \in thinned : \A k \in Key : kv'[k] = s[k]
    <3>1. kv' = Replay(Records)
      BY <2>1, <2>3, LoadedFromLog, AtType, PendingType
    <3> QED BY <3>1, QueueType, ThinningEnds DEF ThinInv, SameKeys
  <2>4. ASSUME ~cfg.aof, cfg.rdb, rdb # NoFile PROVE \A k \in Names : \E s \in kept : kv'[k] = s[k]
    <3>1. kv' = rdb
      BY <2>1, <2>4 DEF Load, Loaded
    <3> QED BY <2>4, <3>1 DEF SnapInv
  <2> QED BY <2>2, <2>3, <2>4
<1>4. Spec => [][Loads]_vars
  BY <1>1, <1>2, <1>3, TypedInit, TypedStep, PTL DEF Spec
<1> QED BY <1>4 DEF RecoveryIsPast

-----------------------------------------------------------------------------
(* Between its logging and its execution a command is in the log and not in *)
(* the store.  Key by key, the log is ahead of the store by the command    *)
(* under way on that key; there is one at most, the client's own.          *)
Ahead ==
  Running /\ cfg.aof =>
    \A k \in Names :
      /\ (\A p \in Client : pc[p] = "execute" => cmd[p].key # k) => logged[k] = kv[k]
      /\ \A p \in Client : pc[p] = "execute" /\ cmd[p].key = k => logged[k] = Apply(kv, cmd[p])[k]

KeysAreOwn ==
  \A p, q \in Client : p # q => \A c \in Commands[p], d \in Commands[q] : c.key # d.key

LEMMA AheadAfterLog ==
  ASSUME Typed, LogInv, Ahead, KeysAreOwn, NEW p \in Client, Log(p) PROVE Ahead'
<1> USE DEF server, clients, writer, saver, history
<1> SUFFICES ASSUME Running, cfg.aof, NEW k \in Names
    PROVE  /\ (\A q \in Client : pc'[q] = "execute" => cmd'[q].key # k) => logged'[k] = kv[k]
           /\ \A q \in Client : pc'[q] = "execute" /\ cmd'[q].key = k => logged'[k] = Apply(kv, cmd'[q])[k]
  BY DEF Ahead, Log, Running
<1>1. PICK c \in Commands[p] : cmd' = [cmd EXCEPT ![p] = c]
  BY DEF Log
<1>2. pc[p] = "idle" /\ pc' = [pc EXCEPT ![p] = "execute"]
  BY DEF Log
<1>3. \A q \in Client : q # p => pc'[q] = pc[q] /\ cmd'[q] = cmd[q]
  BY <1>1, <1>2 DEF Typed, TypeOK, Shape
<1>4. pc'[p] = "execute" /\ cmd'[p] = c
  BY <1>1, <1>2 DEF Typed, TypeOK, Shape
<1>5. c.op \in {"incr", "del", "get"} /\ kv \in Store /\ logged \in Store
  BY CommandType DEF Typed, TypeOK, LogInv
<1>6. logged' = Apply(logged, c)
  BY <1>4, <1>5, Logged, ApplyAt
<1>7. CASE k = c.key
  <2>1. \A q \in Client : q # p /\ pc[q] = "execute" => cmd[q].key # k
    BY <1>7 DEF KeysAreOwn, Typed, Shape
  <2>2. logged[k] = kv[k]
    BY <1>2, <2>1 DEF Ahead
  <2>3. logged'[k] = Apply(kv, c)[k]
    BY <1>5, <1>6, <2>2, ApplyAt
  <2> QED BY <1>3, <1>4, <1>7, <2>1, <2>3
<1>8. CASE k # c.key
  <2>1. logged'[k] = logged[k]
    BY <1>5, <1>6, <1>8, ApplyAt
  <2> QED BY <1>2, <1>3, <1>4, <1>8, <2>1 DEF Ahead
<1> QED BY <1>7, <1>8

LEMMA AheadAfterExecute ==
  ASSUME Typed, Ahead, KeysAreOwn, NEW p \in Client, Execute(p) PROVE Ahead'
<1> USE DEF server, clients, writer, saver, history
<1> SUFFICES ASSUME Running, cfg.aof, NEW k \in Names
    PROVE  /\ (\A q \in Client : pc'[q] = "execute" => cmd'[q].key # k) => logged[k] = kv'[k]
           /\ \A q \in Client : pc'[q] = "execute" /\ cmd'[q].key = k => logged[k] = Apply(kv', cmd'[q])[k]
  BY DEF Ahead, Execute, Running
<1> DEFINE c == cmd[p]
<1>1. pc[p] = "execute" /\ kv' = Apply(kv, c) /\ c \in Commands[p]
  BY DEF Execute, Typed, Shape
<1>2. kv \in Store /\ kv' \in Store
  BY <1>1, ApplyType DEF Typed, TypeOK
<1>3. \A q \in Client : q # p => pc'[q] = pc[q] /\ cmd'[q] = cmd[q]
  BY DEF Execute, Typed, TypeOK, Shape
<1>4. pc'[p] = "idle"
  BY DEF Execute, Typed, TypeOK
<1>5. CASE k = c.key
  <2>1. \A q \in Client : q # p /\ pc[q] = "execute" => cmd[q].key # k
    BY <1>1, <1>5 DEF KeysAreOwn, Typed, Shape
  <2>2. logged[k] = kv'[k]
    BY <1>1, <1>5 DEF Ahead
  <2> QED BY <1>3, <1>4, <2>1, <2>2
<1>6. CASE k # c.key
  <2>1. kv'[k] = kv[k]
    BY <1>1, <1>2, <1>6, ApplyAt
  <2>2. ASSUME NEW q \in Client, pc'[q] = "execute", cmd'[q].key = k
        PROVE  logged[k] = Apply(kv', cmd'[q])[k]
    <3>1. q # p /\ pc[q] = "execute" /\ cmd'[q] = cmd[q]
      BY <1>3, <1>4, <2>2
    <3>2. logged[k] = Apply(kv, cmd[q])[k]
      BY <2>2, <3>1 DEF Ahead
    <3>3. Apply(kv', cmd[q])[k] = Apply(kv, cmd[q])[k]
      BY <1>2, <2>1, ApplyAt
    <3> QED BY <3>1, <3>2, <3>3
  <2>3. ASSUME \A q \in Client : pc'[q] = "execute" => cmd'[q].key # k
        PROVE  logged[k] = kv'[k]
    <3>1. \A q \in Client : pc[q] = "execute" => cmd[q].key # k
      BY <1>3, <1>6, <2>3
    <3> QED BY <2>1, <3>1 DEF Ahead
  <2> QED BY <2>2, <2>3
<1> QED BY <1>5, <1>6

LEMMA AheadStep ==
  ASSUME Typed, LogInv, Ahead, KeysAreOwn, [Next]_vars PROVE Ahead'
<1> USE DEF server, clients, writer, saver, history
<1>1. CASE UNCHANGED <<cfg, kv, pc, cmd, logged>> /\ (Running' => Running)
  BY <1>1 DEF Ahead
<1>2. CASE Load
  <2>1. \A p \in Client : pc'[p] # "execute"
    BY <1>2 DEF Load, Typed, Shape, Running
  <2>2. cfg.aof => logged' = kv'
    BY <1>2 DEF Load
  <2> QED BY <1>2, <2>1, <2>2 DEF Load, Ahead
<1>3. CASE Start \/ Stop
  BY <1>3 DEF Start, Stop, Running, Ahead
<1>4. CASE SaveEnd
  <2>1. Running' => Running
    BY <1>4 DEF SaveEnd, Typed, Shape, Running
  <2> QED BY <1>1, <1>4, <2>1 DEF SaveEnd
<1> QED BY <1>1, <1>2, <1>3, <1>4, AheadAfterLog, AheadAfterExecute
     DEF Next, Exit, Kill, Interrupt, Take, Write, WriteFails, SyncEach, SyncTimer, SaveBegin, Copy, vars, Running

(* Clients that write keys of their own: whenever no command is under way,   *)
(* a log that was read to its end, and what is queued for it, replay to     *)
(* just the store the server has.  Without the hypothesis it is false,     *)
(* since a connection logs its write before it executes it, and two of     *)
(* them may do so crosswise.                                               *)
THEOREM ReplayRestoresTheStore ==
  ASSUME KeysAreOwn
  PROVE  Spec => []ReplayRestores
<1>1. Init => LogInv
  BY LogInit
<1>2. Init => Ahead
  BY DEF Init, Ahead, Running
<1>3. Typed /\ LogInv /\ Ahead /\ [Next]_vars => Ahead'
  BY AheadStep
<1>4. Typed /\ LogInv /\ Ahead => ReplayRestores
  <2> SUFFICES ASSUME Typed, LogInv, Ahead, Running, cfg.aof, ~broken, \A p \in Client : pc[p] = "idle"
               PROVE  Replay(Pending) = kv
    BY DEF ReplayRestores, Running
  <2>1. \A k \in Names : logged[k] = kv[k]
    BY DEF Ahead
  <2>2. logged = kv
    BY <2>1 DEF Typed, TypeOK, LogInv, Store
  <2>3. Replay(Pending) = Final(Pending).kv
    BY PendingType, AtType
  <2> QED BY <2>2, <2>3 DEF LogInv
<1> QED BY <1>1, <1>2, <1>3, <1>4, TypedInit, TypedStep, LogStep, PTL DEF Spec
=============================================================================
