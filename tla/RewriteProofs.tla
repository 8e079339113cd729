---------------------------- MODULE RewriteProofs ----------------------------
(***************************************************************************)
(* What survives a rewrite of the append-only file beside a running         *)
(* server, for any set of keys and any numbers of commands and rewrites.    *)
(***************************************************************************)
EXTENDS Rewrite, TLAPS

(* The write of a key that was logged last. *)
Latest(k) == IF pending[k] = NoWrite THEN data[k] ELSE pending[k]

(* Every file has a name or a descriptor, or is empty; the temporary file is *)
(* neither the log nor the file the AOF task writes to.                    *)
Apart ==
  /\ temp # NoFile => temp # aof /\ temp # writer
  /\ \A f \in File \ {aof, temp, writer} : content[f] = <<>>
  /\ stage = "down" => writer = NoFile /\ pending = Nobody /\ channel = <<>>

(* Until a rewrite is renamed, the log and the channel end with the last     *)
(* write of every key;                                                     *)
LogHolds ==
  stage = "run" /\ writer = aof =>
    \A k \in Key : IF Names(channel, k) THEN Leaves(channel, k, Latest(k))
                   ELSE Leaves(content[aof], k, Latest(k))

(* from then on, the log has the keys that have not changed since they were  *)
(* copied;                                                                 *)
RenamedHolds ==
  stage = "run" /\ writer # aof /\ clean =>
    \A k \in Key \ missed : Leaves(content[aof], k, data[k])

(* and a rewrite under way has copied what it has passed. *)
RewriteHolds ==
  /\ rw.at = "copy" => rw.todo = {}
  /\ rw # Idle /\ fresh =>
       \A k \in Key \ stale : IF k \in Ahead THEN ~Names(content[temp], k)
                              ELSE Leaves(content[temp], k, data[k])

Inv == TypeOK /\ Apart /\ LogHolds /\ RenamedHolds /\ RewriteHolds

-----------------------------------------------------------------------------
(* What a record at the end of a file changes. *)
LEMMA AppendLeaves ==
  ASSUME NEW S, NEW s \in Seq(S), NEW r \in S, NEW k, NEW v
  PROVE  /\ Append(s, r) \in Seq(S)
         /\ Names(Append(s, r), k) <=> Names(s, k) \/ r.key = k
         /\ r.key # k /\ Leaves(s, k, v) => Leaves(Append(s, r), k, v)
         /\ r = Rec(k, v) => Leaves(Append(s, r), k, v)
<1> DEFINE t == Append(s, r)
<1>1. /\ t \in Seq(S) /\ Len(s) \in Nat /\ Len(t) = Len(s) + 1
      /\ t[Len(s) + 1] = r /\ \A i \in 1 .. Len(s) : t[i] = s[i]
  OBVIOUS
<1> HIDE DEF t
<1>2. Names(t, k) <=> Names(s, k) \/ r.key = k
  <2>1. ASSUME Names(t, k) PROVE Names(s, k) \/ r.key = k
    BY <1>1, <2>1 DEF Names
  <2>2. ASSUME Names(s, k) PROVE Names(t, k)
    BY <1>1, <2>2 DEF Names
  <2>3. ASSUME r.key = k PROVE Names(t, k)
    <3>1. Len(s) + 1 \in 1 .. Len(t)
      BY <1>1
    <3> QED BY <1>1, <2>3, <3>1 DEF Names
  <2> QED BY <2>1, <2>2, <2>3
<1>3. ASSUME r.key # k, Leaves(s, k, v) PROVE Leaves(t, k, v)
  <2>1. CASE v = Absent /\ ~Names(s, k)
    BY <1>2, <1>3, <2>1 DEF Leaves
  <2>2. CASE \E i \in 1 .. Len(s) : s[i] = Rec(k, v) /\ \A j \in i + 1 .. Len(s) : s[j].key # k
    <3>1. PICK i \in 1 .. Len(s) : s[i] = Rec(k, v) /\ \A j \in i + 1 .. Len(s) : s[j].key # k
      BY <2>2
    <3>2. i \in 1 .. Len(t) /\ t[i] = Rec(k, v)
      BY <1>1, <3>1
    <3>3. \A j \in i + 1 .. Len(t) : t[j].key # k
      BY <1>1, <1>3, <3>1
    <3> QED BY <3>2, <3>3 DEF Leaves
  <2> QED BY <1>3, <2>1, <2>2 DEF Leaves
<1>4. ASSUME r = Rec(k, v) PROVE Leaves(t, k, v)
  <2>1. Len(s) + 1 \in 1 .. Len(t) /\ t[Len(s) + 1] = Rec(k, v)
    BY <1>1, <1>4
  <2>2. \A j \in (Len(s) + 1) + 1 .. Len(t) : t[j].key # k
    BY <1>1
  <2> QED BY <2>1, <2>2 DEF Leaves
<1> QED BY <1>1, <1>2, <1>3, <1>4 DEF t

(* What the first record of the channel leaves behind it. *)
LEMMA TailLeaves ==
  ASSUME NEW S, NEW s \in Seq(S), s # <<>>, NEW k, NEW v
  PROVE  /\ Tail(s) \in Seq(S) /\ Head(s) \in S
         /\ Names(s, k) <=> Head(s).key = k \/ Names(Tail(s), k)
         /\ Names(Tail(s), k) /\ Leaves(s, k, v) => Leaves(Tail(s), k, v)
         /\ Names(s, k) /\ ~Names(Tail(s), k) /\ Leaves(s, k, v) => Head(s) = Rec(k, v)
<1> DEFINE t == Tail(s)
<1>1. /\ t \in Seq(S) /\ Len(s) \in Nat \ {0} /\ Len(t) = Len(s) - 1
      /\ Head(s) = s[1] /\ s[1] \in S /\ \A i \in 1 .. Len(t) : t[i] = s[i + 1]
  OBVIOUS
<1> HIDE DEF t
<1>2. \A i \in 2 .. Len(s) : i - 1 \in 1 .. Len(t) /\ t[i - 1] = s[i]
  BY <1>1
<1>3. Names(s, k) <=> Head(s).key = k \/ Names(t, k)
  <2>1. ASSUME Names(s, k) PROVE Head(s).key = k \/ Names(t, k)
    <3>1. PICK i \in 1 .. Len(s) : s[i].key = k
      BY <2>1 DEF Names
    <3>2. CASE i = 1
      BY <1>1, <3>1, <3>2
    <3>3. CASE i # 1
      <4>1. i \in 2 .. Len(s)
        BY <1>1, <3>1, <3>3
      <4> QED BY <1>2, <3>1, <4>1 DEF Names
    <3> QED BY <3>2, <3>3
  <2>2. ASSUME Names(t, k) PROVE Names(s, k)
    <3>1. PICK i \in 1 .. Len(t) : t[i].key = k
      BY <2>2 DEF Names
    <3>2. i + 1 \in 1 .. Len(s) /\ s[i + 1].key = k
      BY <1>1, <3>1
    <3> QED BY <3>2 DEF Names
  <2>3. ASSUME Head(s).key = k PROVE Names(s, k)
    <3>1. 1 \in 1 .. Len(s) /\ s[1].key = k
      BY <1>1, <2>3
    <3> QED BY <3>1 DEF Names
  <2> QED BY <2>1, <2>2, <2>3
<1>4. ASSUME Names(s, k), Leaves(s, k, v)
      PROVE  Leaves(t, k, v) \/ (~Names(t, k) /\ Head(s) = Rec(k, v))
  <2>1. PICK i \in 1 .. Len(s) : s[i] = Rec(k, v) /\ \A j \in i + 1 .. Len(s) : s[j].key # k
    BY <1>4 DEF Leaves
  <2>2. CASE i = 1
    <3>1. \A j \in 1 .. Len(t) : t[j].key # k
      BY <1>1, <2>1, <2>2
    <3> QED BY <1>1, <2>1, <2>2, <3>1 DEF Names
  <2>3. CASE i # 1
    <3>1. i - 1 \in 1 .. Len(t) /\ t[i - 1] = Rec(k, v)
      BY <1>1, <1>2, <2>1, <2>3
    <3>2. \A j \in (i - 1) + 1 .. Len(t) : t[j].key # k
      BY <1>1, <2>1
    <3> QED BY <3>1, <3>2 DEF Leaves
  <2> QED BY <2>2, <2>3
<1>5. ASSUME Leaves(t, k, v), ~Names(t, k), Names(s, k), Leaves(s, k, v)
      PROVE  Head(s) = Rec(k, v)
  <2>1. PICK i \in 1 .. Len(s) : s[i] = Rec(k, v) /\ \A j \in i + 1 .. Len(s) : s[j].key # k
    BY <1>5 DEF Leaves
  <2>2. CASE i # 1
    <3>1. i - 1 \in 1 .. Len(t) /\ t[i - 1].key = k
      BY <1>1, <1>2, <2>1, <2>2 DEF Rec
    <3> QED BY <1>5, <3>1 DEF Names
  <2> QED BY <1>1, <2>1, <2>2
<1> QED BY <1>1, <1>3, <1>4, <1>5 DEF t

LEMMA EmptyLeaves ==
  ASSUME NEW k
  PROVE  ~Names(<<>>, k) /\ Leaves(<<>>, k, Absent)
BY DEF Names, Leaves

(* There is always a file without a name. *)
LEMMA UnnamedIsApart ==
  ASSUME aof = NoFile \/ temp = NoFile
  PROVE  Unnamed \in File /\ Unnamed \notin {aof, temp, writer}
<1>1. \E f \in File : f \notin {aof, temp, writer}
  BY NoFileAssumption DEF File
<1> QED BY <1>1 DEF Unnamed

-----------------------------------------------------------------------------
(* Every variable keeps its type. *)
LEMMA TypeCorrect ==
  ASSUME Inv, [Next]_vars
  PROVE  TypeOK'
<1> USE BoundsAssumption, NoFileAssumption DEF TypeOK, Values
<1>1. TypeOK
  BY DEF Inv
<1>2. CASE Start
  <2>1. OpenedLog \in File
    BY <1>1, UnnamedIsApart DEF OpenedLog
  <2>2. data' \in [Key -> Values]
    BY <1>1, <1>2 DEF Start, Replays
  <2> QED BY <1>1, <1>2, <2>1, <2>2 DEF Start, counts, Idle
<1>3. CASE Kill
  <2>1. content' \in [File -> Seq(Record)]
    <3>1. <<>> \in Seq(Record)
      OBVIOUS
    <3> QED BY <1>1, <1>3, <3>1 DEF Kill, Reaped
  <2> QED BY <1>1, <1>3, <2>1 DEF Kill, counts, history, Idle, Empty, Nobody, Absent, NoWrite
<1>4. ASSUME NEW k \in Key, Log(k) PROVE TypeOK'
  <2>1. PICK v \in {Absent, writes + 1} : /\ pending' = [pending EXCEPT ![k] = v]
                                         /\ channel' = Append(channel, Rec(k, v))
    BY <1>4 DEF Log
  <2>2. v \in Values /\ Rec(k, v) \in Record /\ writes' \in 0 .. MaxWrites
    BY <1>1, <1>4, <2>1 DEF Log, Absent, Rec, Record
  <2> QED BY <1>1, <1>4, <2>1, <2>2 DEF Log, files, history
<1>5. ASSUME NEW k \in Key, Execute(k) PROVE TypeOK'
  <2>1. pending[k] \in Values
    BY <1>1, <1>5 DEF Execute
  <2>2. stale' \subseteq Key /\ missed' \subseteq Key
    BY <1>1, <1>5 DEF Execute
  <2> QED BY <1>1, <1>5, <2>1, <2>2 DEF Execute, files, counts
<1>6. CASE Write
  <2>1. Head(channel) \in Record /\ Tail(channel) \in Seq(Record)
    BY <1>1, <1>6 DEF Write
  <2>2. content' \in [File -> Seq(Record)]
    <3>1. writer \in File
      BY <1>1, <1>6 DEF Write, Inv, Apart
    <3>2. Append(content[writer], Head(channel)) \in Seq(Record)
      BY <1>1, <2>1, <3>1
    <3> QED BY <1>1, <1>6, <3>1, <3>2 DEF Write
  <2> QED BY <1>1, <1>6, <2>1, <2>2 DEF Write, counts, history
<1>7. CASE Begin
  <2>1. TempFile \in File
    BY <1>1, UnnamedIsApart DEF TempFile
  <2>2. rw' = [at |-> "list", todo |-> Key, found |-> {}]
    BY <1>7 DEF Begin, Idle
  <2>3. rw' \in [at : {"idle", "list", "copy"}, todo : SUBSET Key, found : SUBSET Key]
    BY <2>2
  <2>4. stage' = "run" /\ writer' = writer /\ aof' = aof /\ temp' \in File
    BY <1>7, <2>1 DEF Begin
  <2>5. rewrites' \in 0 .. MaxRewrites /\ fresh' \in BOOLEAN /\ stale' = {}
    BY <1>1, <1>7 DEF Begin
  <2> QED BY <1>1, <1>7, <2>3, <2>4, <2>5 DEF Begin, store
<1>8. CASE List
  BY <1>1, <1>8 DEF List, store, files, counts, history, Idle
<1>9. CASE Copy
  <2>1. PICK k \in rw.found : /\ content' = [content EXCEPT ![temp] = @ \o Commands(k)]
                              /\ rw' = [rw EXCEPT !.found = @ \ {k}]
    BY <1>9 DEF Copy
  <2>2. Commands(k) \in Seq(Record)
    <3>1. k \in Key /\ data[k] \in Values
      BY <1>1
    <3>2. Rec(k, data[k]) \in Record
      BY <3>1 DEF Rec, Record
    <3>3. <<>> \in Seq(Record) /\ <<Rec(k, data[k])>> \in Seq(Record)
      BY <3>2
    <3> QED BY <3>3 DEF Commands
  <2>4. rw # Idle
    BY <1>9 DEF Copy, Idle
  <2>3. content' \in [File -> Seq(Record)]
    <3>1. temp \in File
      BY <1>1, <2>4
    <3>2. content[temp] \o Commands(k) \in Seq(Record)
      BY <1>1, <2>2, <3>1
    <3> QED BY <1>1, <2>1, <3>1, <3>2
  <2> QED BY <1>1, <1>9, <2>1, <2>3, <2>4 DEF Copy, store, counts, history
<1>10. CASE Rename
  <2>1. content' \in [File -> Seq(Record)]
    <3>1. <<>> \in Seq(Record)
      OBVIOUS
    <3> QED BY <1>1, <1>10, <3>1 DEF Rename, Reaped
  <2> QED BY <1>1, <1>10, <2>1 DEF Rename, store, counts, Idle
<1>11. CASE Fail
  BY <1>1, <1>11 DEF Fail, store, files, counts, history, Idle
<1>12. CASE UNCHANGED vars
  BY <1>1, <1>12 DEF vars, store, files, counts, history
<1> QED BY <1>2, <1>3, <1>4, <1>5, <1>6, <1>7, <1>8, <1>9, <1>10, <1>11, <1>12 DEF Next

-----------------------------------------------------------------------------
(* Every file has a name or a descriptor, or is empty. *)
LEMMA ApartKept ==
  ASSUME Inv, [Next]_vars
  PROVE  Apart'
<1>0. NoFile \notin File
  BY NoFileAssumption DEF File
<1>1. TypeOK /\ Apart
  BY DEF Inv
<1>2. CASE Start
  <2>1. OpenedLog = aof \/ OpenedLog \in File \ {aof, temp, writer}
    BY <1>0, <1>1, UnnamedIsApart DEF OpenedLog
  <2> QED BY <1>0, <1>1, <1>2, <2>1 DEF Start, Apart, TypeOK, OpenedLog
<1>3. CASE Kill
  BY <1>0, <1>1, <1>3 DEF Kill, Reaped, Apart, TypeOK
<1>4. ASSUME NEW k \in Key, Log(k) \/ Execute(k) PROVE Apart'
  <2>1. files' = files
    BY <1>4 DEF Log, Execute
  <2>2. stage' = stage /\ stage # "down"
    BY <1>0, <1>1, <1>4 DEF Log, Execute, Apart, Nobody
  <2> QED BY <1>0, <1>1, <2>1, <2>2 DEF Apart, files
<1>5. CASE Write
  <2>1. stage # "down" /\ writer \in File
    BY <1>0, <1>1, <1>5 DEF Write, Apart, TypeOK
  <2>2. \A f \in File \ {writer} : content'[f] = content[f]
    BY <1>0, <1>1, <1>5, <2>1 DEF Write, TypeOK
  <2> QED BY <1>0, <1>1, <1>5, <2>1, <2>2 DEF Write, Apart
<1>6. CASE Begin
  <2>1. TempFile = temp \/ TempFile \in File \ {aof, temp, writer}
    BY <1>0, <1>1, UnnamedIsApart DEF TempFile
  <2> QED BY <1>0, <1>1, <1>6, <2>1 DEF Begin, Apart, TempFile, store
<1>7. CASE Copy
  <2>1. temp \in File /\ stage # "down"
    BY <1>0, <1>1, <1>7 DEF Copy, TypeOK, Idle
  <2>2. \A f \in File \ {temp} : content'[f] = content[f]
    BY <1>0, <1>1, <1>7, <2>1 DEF Copy, TypeOK
  <2> QED BY <1>0, <1>1, <1>7, <2>1, <2>2 DEF Copy, Apart, store
<1>8. CASE Rename
  BY <1>0, <1>1, <1>8 DEF Rename, Reaped, Apart, TypeOK, Idle, store
<1>9. CASE List \/ Fail \/ UNCHANGED vars
  BY <1>0, <1>1, <1>9 DEF List, Fail, vars, Apart, store, files
<1> QED BY <1>2, <1>3, <1>4, <1>5, <1>6, <1>7, <1>8, <1>9 DEF Next

(* The log and the channel end with the last write of every key. *)
LEMMA LogKept ==
  ASSUME Inv, [Next]_vars
  PROVE  LogHolds'
<1>0. NoFile \notin File
  BY NoFileAssumption DEF File
<1>1. TypeOK /\ Apart /\ LogHolds
  BY DEF Inv
<1> SUFFICES ASSUME stage' = "run", writer' = aof', NEW k \in Key
             PROVE  IF Names(channel', k) THEN Leaves(channel', k, Latest(k)')
                    ELSE Leaves(content'[aof'], k, Latest(k)')
  BY DEF LogHolds
<1> DEFINE Kept == IF Names(channel, k) THEN Leaves(channel, k, Latest(k))
                   ELSE Leaves(content[aof], k, Latest(k))
<1>2. stage = "run" /\ writer = aof => Kept
  BY <1>1 DEF LogHolds
<1> HIDE DEF Kept
<1>3. CASE Start
  <2>1. channel' = <<>> /\ pending' = Nobody
    BY <1>1, <1>3 DEF Start, Apart
  <2>2. Latest(k)' = data'[k]
    BY <2>1 DEF Latest, Nobody
  <2>3. Leaves(IF aof = NoFile THEN <<>> ELSE content[aof], k, data'[k])
    BY <1>3 DEF Start, Replays
  <2>4. content'[aof'] = IF aof = NoFile THEN <<>> ELSE content[aof]
    BY <1>0, <1>1, <1>3, UnnamedIsApart DEF Start, OpenedLog, Apart
  <2> QED BY <2>1, <2>2, <2>3, <2>4, EmptyLeaves
<1>4. CASE Kill
  BY <1>4 DEF Kill
<1>5. ASSUME NEW o \in Key, Log(o) PROVE IF Names(channel', k) THEN Leaves(channel', k, Latest(k)')
                                        ELSE Leaves(content'[aof'], k, Latest(k)')
  <2>1. PICK v \in {Absent, writes + 1} : /\ pending' = [pending EXCEPT ![o] = v]
                                         /\ channel' = Append(channel, Rec(o, v))
    BY <1>5 DEF Log
  <2>2. v \in Nat /\ channel \in Seq(Record \cup {Rec(o, v)})
    <3>1. v \in Nat
      BY <1>1 DEF TypeOK, Absent
    <3>2. Seq(Record) \subseteq Seq(Record \cup {Rec(o, v)})
      OBVIOUS
    <3> QED BY <1>1, <3>1, <3>2 DEF TypeOK
  <2>3. UNCHANGED <<data, writer, aof, content, stage>>
    BY <1>5 DEF Log, files
  <2>4. CASE o = k
    <3>1. Latest(k)' = v
      BY <1>1, <2>1, <2>2, <2>4 DEF Latest, TypeOK, NoWrite
    <3>2. Names(channel', k) /\ Leaves(channel', k, v)
      BY <2>1, <2>2, <2>4, AppendLeaves DEF Rec
    <3> QED BY <3>1, <3>2
  <2>5. CASE o # k
    <3>1. Latest(k)' = Latest(k)
      BY <1>1, <2>1, <2>3, <2>5 DEF Latest, TypeOK
    <3>2. Rec(o, v).key # k
      BY <2>5 DEF Rec
    <3>3. /\ Names(channel', k) <=> Names(channel, k)
          /\ Leaves(channel, k, Latest(k)) => Leaves(channel', k, Latest(k))
      BY <2>1, <2>2, <3>2, AppendLeaves
    <3> QED BY <1>2, <2>3, <3>1, <3>3 DEF Kept
  <2> QED BY <2>4, <2>5
<1>6. ASSUME NEW o \in Key, Execute(o) PROVE IF Names(channel', k) THEN Leaves(channel', k, Latest(k)')
                                            ELSE Leaves(content'[aof'], k, Latest(k)')
  <2>1. UNCHANGED <<channel, writer, aof, content, stage>>
    BY <1>6 DEF Execute, files
  <2>2. Latest(k)' = Latest(k)
    BY <1>1, <1>6 DEF Execute, Latest, TypeOK
  <2> QED BY <1>2, <2>1, <2>2 DEF Kept
<1>7. CASE Write
  <2>1. channel \in Seq(Record) /\ channel # <<>> /\ content[aof] \in Seq(Record)
    BY <1>1, <1>7 DEF Write, TypeOK
  <2>2. /\ channel' = Tail(channel) /\ content'[aof'] = Append(content[aof], Head(channel))
        /\ writer = aof /\ stage = "run"
    BY <1>1, <1>7 DEF Write, TypeOK
  <2>3. Latest(k)' = Latest(k)
    BY <1>7 DEF Write, Latest
  <2>4. Head(channel) \in Record
    BY <2>1, TailLeaves
  <2>5. CASE Names(channel', k)
    <3>1. Names(channel, k) /\ Leaves(channel, k, Latest(k))
      BY <1>2, <2>1, <2>2, <2>5, TailLeaves DEF Kept
    <3> QED BY <2>1, <2>2, <2>3, <2>5, <3>1, TailLeaves
  <2>6. CASE ~Names(channel', k) /\ Names(channel, k)
    <3>1. Head(channel) = Rec(k, Latest(k))
      BY <1>2, <2>1, <2>2, <2>6, TailLeaves DEF Kept
    <3> QED BY <2>1, <2>2, <2>3, <2>4, <2>6, <3>1, AppendLeaves
  <2>7. CASE ~Names(channel', k) /\ ~Names(channel, k)
    <3>1. Head(channel).key # k /\ Leaves(content[aof], k, Latest(k))
      BY <1>2, <2>1, <2>2, <2>7, TailLeaves DEF Kept
    <3> QED BY <2>1, <2>2, <2>3, <2>4, <2>7, <3>1, AppendLeaves
  <2> QED BY <2>5, <2>6, <2>7
<1>8. CASE Copy
  <2>1. content'[aof'] = content[aof] /\ UNCHANGED <<data, pending, channel, writer, aof, stage>>
    BY <1>0, <1>1, <1>8 DEF Copy, TypeOK, Apart, Idle, store
  <2> QED BY <1>2, <2>1 DEF Kept, Latest
<1>9. CASE Rename
  BY <1>0, <1>1, <1>9 DEF Rename, Apart, TypeOK, Idle
<1>10. CASE Begin \/ List \/ Fail \/ UNCHANGED vars
  <2>1. UNCHANGED <<data, pending, channel, content, writer, aof, stage>>
    BY <1>10 DEF Begin, List, Fail, vars, store, files
  <2> QED BY <1>2, <2>1 DEF Kept, Latest
<1> QED BY <1>3, <1>4, <1>5, <1>6, <1>7, <1>8, <1>9, <1>10 DEF Next

(* The renamed log has the keys that have not changed since. *)
LEMMA RenamedKept ==
  ASSUME Inv, [Next]_vars
  PROVE  RenamedHolds'
<1>0. NoFile \notin File
  BY NoFileAssumption DEF File
<1>1. TypeOK /\ Apart /\ RenamedHolds /\ RewriteHolds
  BY DEF Inv
<1> SUFFICES ASSUME stage' = "run", writer' # aof', clean', NEW k \in Key \ missed'
             PROVE  Leaves(content'[aof'], k, data'[k])
  BY DEF RenamedHolds
<1>2. stage = "run" /\ writer # aof /\ clean /\ k \notin missed => Leaves(content[aof], k, data[k])
  BY <1>1 DEF RenamedHolds
<1>3. CASE Start \/ Kill
  BY <1>3 DEF Start, Kill
<1>4. ASSUME NEW o \in Key, Log(o) \/ Execute(o) PROVE Leaves(content'[aof'], k, data'[k])
  <2>1. UNCHANGED <<writer, aof, content, stage, clean>>
    BY <1>4 DEF Log, Execute, files, history
  <2>2. k \notin missed /\ data'[k] = data[k]
    BY <1>1, <1>4, <2>1 DEF Log, Execute, TypeOK, history
  <2> QED BY <1>2, <2>1, <2>2
<1>5. CASE Write
  <2>1. content'[aof] = content[aof] /\ UNCHANGED <<writer, aof, data, stage, clean, missed>>
    BY <1>1, <1>5 DEF Write, TypeOK, history
  <2> QED BY <1>2, <2>1
<1>6. CASE Copy
  <2>1. content'[aof] = content[aof] /\ UNCHANGED <<writer, aof, data, stage, clean, missed>>
    BY <1>0, <1>1, <1>6 DEF Copy, TypeOK, Apart, Idle, store, history
  <2> QED BY <1>2, <2>1
<1>7. CASE Rename
  <2>1. rw # Idle /\ fresh /\ k \in Key \ stale /\ k \notin Ahead
    BY <1>1, <1>7 DEF Rename, Copied, RewriteHolds, Ahead, Idle
  <2>2. Leaves(content[temp], k, data[k])
    BY <1>1, <2>1 DEF RewriteHolds
  <2>3. content'[aof'] = content[temp] /\ data' = data
    BY <1>1, <1>7, <2>1 DEF Rename, Reaped, TypeOK, store
  <2> QED BY <2>2, <2>3
<1>8. CASE Begin \/ List \/ Fail \/ UNCHANGED vars
  <2>1. UNCHANGED <<data, content, writer, aof, stage, clean, missed>>
    BY <1>8 DEF Begin, List, Fail, vars, store, files, history
  <2> QED BY <1>2, <2>1
<1> QED BY <1>3, <1>4, <1>5, <1>6, <1>7, <1>8 DEF Next

(* A rewrite has copied what it has passed. *)
LEMMA RewriteKept ==
  ASSUME Inv, [Next]_vars
  PROVE  RewriteHolds'
<1>0. NoFile \notin File
  BY NoFileAssumption DEF File
<1>1. TypeOK /\ Apart /\ RewriteHolds
  BY DEF Inv
<1>2. rw'.at = "copy" => rw'.todo = {}
  <2>1. CASE List
    <3>1. PICK o \in rw.todo :
            rw' = [at    |-> IF rw.todo = {o} THEN "copy" ELSE "list",
                   todo  |-> rw.todo \ {o},
                   found |-> IF data[o] = Absent THEN rw.found ELSE rw.found \cup {o}]
      BY <2>1 DEF List
    <3> QED BY <3>1
  <2>2. CASE Copy
    <3>1. PICK o \in rw.found : rw' = [rw EXCEPT !.found = @ \ {o}]
      BY <2>2 DEF Copy
    <3>2. rw'.at = rw.at /\ rw'.todo = rw.todo
      BY <1>1, <3>1 DEF TypeOK
    <3> QED BY <1>1, <3>2 DEF RewriteHolds
  <2>3. CASE Begin
    BY <2>3 DEF Begin, Idle
  <2>4. CASE Kill \/ Rename \/ Fail
    BY <2>4 DEF Kill, Rename, Fail, Idle
  <2>5. ASSUME rw' = rw PROVE rw'.at = "copy" => rw'.todo = {}
    BY <1>1, <2>5 DEF RewriteHolds
  <2>6. CASE Start \/ Write \/ UNCHANGED vars \/ \E o \in Key : Log(o) \/ Execute(o)
    BY <2>5, <2>6 DEF Start, Write, Log, Execute, vars
  <2> QED BY <2>1, <2>2, <2>3, <2>4, <2>6 DEF Next
<1> SUFFICES ASSUME rw' # Idle, fresh', NEW k \in Key \ stale'
             PROVE  IF k \in Ahead' THEN ~Names(content'[temp'], k)
                    ELSE Leaves(content'[temp'], k, data'[k])
  BY <1>2 DEF RewriteHolds
<1> DEFINE Kept == IF k \in Ahead THEN ~Names(content[temp], k)
                   ELSE Leaves(content[temp], k, data[k])
<1>3. rw # Idle /\ fresh /\ k \notin stale => Kept
  BY <1>1 DEF RewriteHolds
<1>4. rw # Idle => stage = "run" /\ temp \in File /\ temp # aof /\ temp # writer
  BY <1>0, <1>1 DEF TypeOK, Apart
<1> HIDE DEF Kept
<1>5. CASE Start
  BY <1>4, <1>5 DEF Start
<1>6. CASE Kill \/ Rename \/ Fail
  BY <1>6 DEF Kill, Rename, Fail
<1>7. ASSUME NEW o \in Key, Log(o) PROVE IF k \in Ahead' THEN ~Names(content'[temp'], k)
                                        ELSE Leaves(content'[temp'], k, data'[k])
  BY <1>3, <1>7 DEF Log, files, history, Kept, Ahead
<1>8. ASSUME NEW o \in Key, Execute(o) PROVE IF k \in Ahead' THEN ~Names(content'[temp'], k)
                                            ELSE Leaves(content'[temp'], k, data'[k])
  <2>1. UNCHANGED <<rw, fresh, content, temp>> /\ k \notin stale
    BY <1>8 DEF Execute, files
  <2>2. k \in Ahead \/ data'[k] = data[k]
    BY <1>1, <1>8 DEF Execute, TypeOK
  <2> QED BY <1>3, <2>1, <2>2 DEF Kept, Ahead
<1>9. CASE Write
  <2>1. UNCHANGED <<rw, fresh, temp, stale, data>>
    BY <1>9 DEF Write, history
  <2>2. content'[temp] = content[temp]
    BY <1>1, <1>4, <1>9, <2>1 DEF Write, TypeOK
  <2> QED BY <1>3, <2>1, <2>2 DEF Kept, Ahead
<1>10. CASE Begin
  <2>1. content'[temp'] = <<>> /\ k \in Ahead'
    BY <1>10 DEF Begin, Ahead, Idle
  <2> QED BY <2>1, EmptyLeaves
<1>11. CASE List
  <2>0. rw # Idle
    BY <1>11 DEF List, Idle
  <2>1. rw # Idle /\ UNCHANGED <<fresh, temp, stale, data, content>>
    BY <1>11, <2>0 DEF List, store, files, history
  <2>2. PICK o \in rw.todo :
          rw' = [at    |-> IF rw.todo = {o} THEN "copy" ELSE "list",
                 todo  |-> rw.todo \ {o},
                 found |-> IF data[o] = Absent THEN rw.found ELSE rw.found \cup {o}]
    BY <1>11 DEF List
  <2>3. CASE k \in Ahead' \/ k \notin Ahead
    BY <1>3, <2>1, <2>2, <2>3 DEF Kept, Ahead
  <2>4. CASE k \notin Ahead' /\ k \in Ahead
    <3>1. k = o /\ data[k] = Absent
      BY <2>2, <2>4 DEF Ahead
    <3> QED BY <1>3, <2>1, <2>4, <3>1 DEF Kept, Leaves
  <2> QED BY <2>3, <2>4
<1>12. CASE Copy
  <2>0. rw # Idle
    BY <1>12 DEF Copy, Idle
  <2>1. rw # Idle /\ rw.todo = {} /\ UNCHANGED <<fresh, temp, stale, data>>
    BY <1>1, <1>12, <2>0 DEF Copy, store, history, RewriteHolds
  <2>2. PICK o \in rw.found : /\ content' = [content EXCEPT ![temp] = @ \o Commands(o)]
                              /\ rw' = [rw EXCEPT !.found = @ \ {o}]
    BY <1>12 DEF Copy
  <2>3. Ahead = rw.found /\ Ahead' = rw.found \ {o} /\ rw.found \subseteq Key
    BY <1>1, <2>1, <2>2 DEF Ahead, TypeOK
  <2>4. content[temp] \in Seq(Record) /\ content'[temp] = content[temp] \o Commands(o)
    BY <1>1, <1>4, <2>1, <2>2 DEF TypeOK
  <2>5. CASE data[o] = Absent
    <3>1. content'[temp] = content[temp]
      BY <2>4, <2>5 DEF Commands
    <3> QED BY <1>3, <2>1, <2>3, <2>5, <3>1 DEF Kept, Leaves
  <2>6. CASE data[o] # Absent
    <3>1. Rec(o, data[o]) \in Record
      BY <1>1, <2>3 DEF Rec, Record, TypeOK
    <3>2. content'[temp] = Append(content[temp], Rec(o, data[o]))
      BY <2>4, <2>6, <3>1 DEF Commands
    <3>3. CASE k = o
      <4>1. Leaves(content'[temp], k, data[k])
        BY <2>4, <3>1, <3>2, <3>3, AppendLeaves
      <4> QED BY <2>1, <2>3, <3>3, <4>1
    <3>4. CASE k # o
      <4>1. Rec(o, data[o]).key # k
        BY <3>4 DEF Rec
      <4> DEFINE cells == content[temp]
                 r == Rec(o, data[o])
      <4>2. cells \in Seq(Record) /\ r \in Record /\ r.key # k /\ content'[temp] = Append(cells, r)
        BY <2>4, <3>1, <3>2, <4>1
      <4> HIDE DEF cells, r
      <4>3. /\ Names(content'[temp], k) <=> Names(cells, k)
            /\ Leaves(cells, k, data[k]) => Leaves(content'[temp], k, data[k])
        BY <4>2, AppendLeaves
      <4> QED BY <1>3, <2>1, <2>3, <3>4, <4>3 DEF Kept, cells
    <3> QED BY <3>3, <3>4
  <2> QED BY <2>5, <2>6
<1>13. CASE UNCHANGED vars
  BY <1>3, <1>13 DEF vars, store, files, history, Kept, Ahead
<1> QED BY <1>5, <1>6, <1>7, <1>8, <1>9, <1>10, <1>11, <1>12, <1>13 DEF Next

-----------------------------------------------------------------------------
LEMMA Invariant == Spec => []Inv
<1>1. Init => Inv
  <2> SUFFICES ASSUME Init PROVE Inv
    OBVIOUS
  <2>1. TypeOK
    <3>1. <<>> \in Seq(Record)
      OBVIOUS
    <3> QED BY <3>1, BoundsAssumption DEF Init, TypeOK, Values, Idle, Empty, Nobody, Absent, NoWrite
  <2>2. Apart /\ LogHolds /\ RenamedHolds /\ RewriteHolds
    BY DEF Init, Apart, LogHolds, RenamedHolds, RewriteHolds, Idle
  <2> QED BY <2>1, <2>2 DEF Inv
<1>2. Inv /\ [Next]_vars => Inv'
  BY TypeCorrect, ApartKept, LogKept, RenamedKept, RewriteKept DEF Inv
<1> QED BY <1>1, <1>2, PTL DEF Spec

(* What survives a rewrite beside a running server, for any set of keys and  *)
(* any numbers of writes, failed rewrites, kills and restarts: every       *)
(* settled key that has not changed since the rewrite passed it.           *)
THEOREM SettledKeysSurvive == Spec => []SettledKeysAreLogged
<1>1. Inv => SettledKeysAreLogged
  <2> SUFFICES ASSUME Inv, stage = "run", clean, NEW k \in Key \ missed, Settled(k)
               PROVE  Leaves(content[aof], k, data[k])
    BY DEF SettledKeysAreLogged
  <2>1. CASE writer = aof
    BY <2>1 DEF Inv, LogHolds, Settled, Latest
  <2>2. CASE writer # aof
    BY <2>2 DEF Inv, RenamedHolds
  <2> QED BY <2>1, <2>2
<1> QED BY <1>1, Invariant, PTL

(* Every variable keeps its type; in particular whoever runs has a log open *)
(* and a rewrite its temporary file.                                       *)
THEOREM RewriteTypeCorrect == Spec => []TypeOK
<1>1. Inv => TypeOK
  BY DEF Inv
<1> QED BY <1>1, Invariant, PTL
=============================================================================
