---------------------------- MODULE ServerProofs ----------------------------
(* The gauge of connections, the snapshots of the counters, the decoder,     *)
(* types, the answers, and the options of SET, for any number of clients   *)
(* and any requests.                                                       *)
EXTENDS Server, Recursion, SequenceTheorems

Labels == {"away"} \cup Live \cup Ended

AtOK == at \in [Client -> Labels]

-----------------------------------------------------------------------------
(* Part 1: the gauge.  A task is served, lost, or neither, by its label.     *)
GaugeInv == AtOK /\ active \in Int /\ GaugeCountsConnections

LEMMA FiniteGroups == IsFiniteSet(Served) /\ IsFiniteSet(Lost)
  BY ClientAssumption, FS_Subset DEF Served, Lost

(* A step after which the same tasks are served and lost *)
LEMMA SameGroups ==
  ASSUME GaugeInv, at' \in [Client -> Labels],
         \A c \in Client : /\ at[c] \in Live <=> at'[c] \in Live
                           /\ at[c] = "panicked" <=> at'[c] = "panicked",
         active' = active, stage' = "ended" \/ stage # "ended" \/ stage' = stage
  PROVE  GaugeInv'
<1>1. Served' = Served /\ Lost' = Lost
  BY DEF Served, Lost
<1>2. GaugeCountsConnections'
  BY <1>1 DEF GaugeInv, GaugeCountsConnections
<1> QED BY <1>2 DEF GaugeInv, AtOK

(* A served task that goes on *)
LEMMA GoesOn ==
  ASSUME GaugeInv, NEW c \in Client, at[c] \in Live,
         NEW label \in Live, Goto(c, label), active' = active, stage' = stage
  PROVE  GaugeInv'
<1>1. at' \in [Client -> Labels] /\ \A d \in Client : d # c => at'[d] = at[d]
  BY DEF GaugeInv, AtOK, Goto, Labels
<1>2. at'[c] \in Live
  BY DEF GaugeInv, AtOK, Goto
<1>3. at[c] # "panicked" /\ at'[c] # "panicked"
  BY <1>2 DEF Live
<1> QED BY <1>1, <1>2, <1>3, SameGroups

LEMMA Accepted == ASSUME GaugeInv, NEW c \in Client, Accept(c) PROVE GaugeInv'
<1>1. at' \in [Client -> Labels] /\ at'[c] = "poll" /\ \A d \in Client : d # c => at'[d] = at[d]
  BY DEF GaugeInv, AtOK, Goto, Labels, Live, Accept
<1>2. c \notin Served /\ c \notin Lost
  BY DEF Accept, At, Served, Lost, Live
<1>3. Served' = Served \cup {c} /\ Lost' = Lost
  BY <1>1, <1>2 DEF Served, Lost, Live
<1>4. Cardinality(Served') = Cardinality(Served) + 1
  BY <1>2, <1>3, FiniteGroups, FS_AddElement
<1>5. Cardinality(Served) \in Nat /\ Cardinality(Lost) \in Nat
  BY FiniteGroups, FS_CardinalityType
<1>6. active' = active + 1 /\ stage = "accept" /\ stage' = "accept"
  BY DEF Accept, Opened
<1> QED BY <1>1, <1>3, <1>4, <1>5, <1>6 DEF GaugeInv, AtOK, GaugeCountsConnections

(* Whoever panics stays counted. *)
LEMMA Panicked == ASSUME GaugeInv, NEW c \in Client, Panic(c) PROVE GaugeInv'
<1>1. /\ at' \in [Client -> Labels] /\ at'[c] = "panicked"
      /\ \A d \in Client : d # c => at'[d] = at[d]
  BY DEF GaugeInv, AtOK, Goto, Labels, Ended, Panic
<1>2. c \in Served /\ c \notin Lost
  BY DEF Panic, Polls, At, Served, Lost, Live
<1>3. Served' = Served \ {c} /\ Lost' = Lost \cup {c}
  BY <1>1, <1>2 DEF Served, Lost, Live
<1>4. Cardinality(Served') = Cardinality(Served) - 1 /\ Cardinality(Lost') = Cardinality(Lost) + 1
  BY <1>2, <1>3, FiniteGroups, FS_AddElement, FS_RemoveElement
<1>5. Cardinality(Served) \in Nat /\ Cardinality(Lost) \in Nat
  BY FiniteGroups, FS_CardinalityType
<1>6. active' = active /\ stage' = stage
  BY DEF Panic
<1> QED BY <1>1, <1>3, <1>4, <1>5, <1>6 DEF GaugeInv, AtOK, GaugeCountsConnections

LEMMA Finished == ASSUME GaugeInv, NEW c \in Client, Close(c) PROVE GaugeInv'
<1>1. /\ at' \in [Client -> Labels] /\ at'[c] = "closed"
      /\ \A d \in Client : d # c => at'[d] = at[d]
  BY DEF GaugeInv, AtOK, Goto, Labels, Ended, Close
<1>2. c \in Served /\ c \notin Lost
  BY DEF Close, At, Served, Lost, Live
<1>3. Served' = Served \ {c} /\ Lost' = Lost
  BY <1>1, <1>2 DEF Served, Lost, Live
<1>4. Cardinality(Served') = Cardinality(Served) - 1
  BY <1>2, <1>3, FiniteGroups, FS_RemoveElement
<1>5. Cardinality(Served) \in Nat /\ Cardinality(Lost) \in Nat
  BY FiniteGroups, FS_CardinalityType
<1>6. active' = active - 1 /\ stage' = stage
  BY DEF Close, Closed
<1> QED BY <1>1, <1>3, <1>4, <1>5, <1>6 DEF GaugeInv, AtOK, GaugeCountsConnections

(* Every other step of a task keeps it served. *)
LEMMA TaskKeepsGauge == ASSUME GaugeInv, NEW c \in Client, Task(c) PROVE GaugeInv'
<1>1. CASE ReadMore(c)
  <2>1. at' = at /\ active' = active /\ stage' = stage
    BY <1>1 DEF ReadMore
  <2> QED BY <2>1, SameGroups DEF GaugeInv, AtOK
<1>2. ASSUME NEW from \in Live, NEW to \in Live,
             at[c] = from, Goto(c, to), active' = active, stage' = stage
      PROVE  GaugeInv'
  BY <1>2, GoesOn
<1>3. CASE NextFrame(c)
  <2>1. /\ at[c] = "poll" /\ active' = active /\ stage' = stage
        /\ Goto(c, "count") \/ Goto(c, "send")
    BY <1>3 DEF NextFrame, Polls, At, Answer
  <2> QED BY <2>1, <1>2 DEF Live
<1>4. CASE ProtocolError(c)
  <2>1. at[c] = "poll" /\ active' = active /\ stage' = stage /\ Goto(c, "send")
    BY <1>4 DEF ProtocolError, AtEnd, Polls, At, Answer
  <2> QED BY <2>1, <1>2 DEF Live
<1>5. CASE EndOfStream(c) \/ SayGoodbye(c)
  <2>1. at[c] = "poll" /\ active' = active /\ stage' = stage /\ Goto(c, "close")
    BY <1>5 DEF EndOfStream, SayGoodbye, AtEnd, Polls, At
  <2> QED BY <2>1, <1>2 DEF Live
<1>6. CASE CountTotal(c) \/ CountName(c) \/ CountLatency(c) \/ CountBucket(c)
  <2>1. /\ active' = active /\ stage' = stage
        /\ \/ at[c] = "count" /\ Goto(c, "name")
           \/ at[c] = "name" /\ Goto(c, "execute")
           \/ at[c] = "latency" /\ Goto(c, "bucket")
           \/ at[c] = "bucket" /\ Goto(c, "send")
    BY <1>6 DEF CountTotal, CountName, CountLatency, CountBucket, At
  <2> QED BY <2>1, <1>2 DEF Live
<1>7. CASE Execute(c)
  <2>1. /\ at[c] = "execute" /\ active' = active /\ stage' = stage
        /\ Goto(c, "read_names") \/ Goto(c, "latency")
    BY <1>7 DEF Execute, At
  <2> QED BY <2>1, <1>2 DEF Live
<1>8. CASE Snapshot(c)
  <2>1. PICK from \in Live, to \in Live :
          at[c] = from /\ Goto(c, to) /\ active' = active /\ stage' = stage
    BY <1>8 DEF Snapshot, ReadCounter, At, Live
  <2> QED BY <2>1, <1>2
<1>9. CASE Send(c)
  <2>1. /\ at[c] = "send" /\ active' = active /\ stage' = stage
        /\ Goto(c, "poll") \/ Goto(c, "close")
    BY <1>9 DEF Send, AfterSend, At
  <2> QED BY <2>1, <1>2 DEF Live
<1> QED
  BY <1>1, <1>3, <1>4, <1>5, <1>6, <1>7, <1>8, <1>9, Panicked, Finished DEF Task

LEMMA RestKeepsGauge ==
  ASSUME GaugeInv,
         \/ AcceptFails \/ TryAgain \/ Interrupt \/ Exit
         \/ \E c \in Client : Ask(c) \/ StopSending(c) \/ Leave(c)
         \/ UNCHANGED vars
  PROVE  GaugeInv'
<1>1. CASE Exit
  <2>1. at' \in [Client -> Labels] /\ active' = active /\ stage' = "ended"
    BY <1>1 DEF Exit, GaugeInv, AtOK, Labels, Ended
  <2> QED BY <2>1 DEF GaugeInv, AtOK, GaugeCountsConnections
<1>2. CASE AcceptFails \/ TryAgain \/ Interrupt
  <2>1. at' = at /\ active' = active /\ stage # "ended" /\ stage' # "ended"
    BY <1>2 DEF AcceptFails, TryAgain, Interrupt
  <2> QED BY <2>1, SameGroups DEF GaugeInv, AtOK
<1>3. CASE (\E c \in Client : Ask(c) \/ StopSending(c) \/ Leave(c)) \/ UNCHANGED vars
  <2>1. at' = at /\ active' = active /\ stage' = stage
    BY <1>3 DEF Ask, StopSending, Leave, vars
  <2> QED BY <2>1, SameGroups DEF GaugeInv, AtOK
<1> QED BY <1>1, <1>2, <1>3

LEMMA GaugeStarts == Init => GaugeInv
<1> SUFFICES ASSUME Init PROVE GaugeInv
  OBVIOUS
<1>1. Served = {} /\ Lost = {}
  BY DEF Init, Served, Lost, Live
<1>2. Cardinality(Served) = 0 /\ Cardinality(Lost) = 0
  BY <1>1, FS_EmptySet
<1> QED BY <1>2 DEF Init, GaugeInv, AtOK, Labels, GaugeCountsConnections

LEMMA GaugeStep == GaugeInv /\ [Next]_vars => GaugeInv'
  BY Accepted, TaskKeepsGauge, RestKeepsGauge DEF Next

(* For any number of clients, whatever they send and however connections      *)
(* end: active_connections is the number of connections that are served    *)
(* plus the number of tasks that panicked.                                 *)
THEOREM GaugeIsExact == Spec => []GaugeCountsConnections
<1>1. GaugeInv => GaugeCountsConnections
  BY DEF GaugeInv
<1> QED BY <1>1, GaugeStarts, GaugeStep, PTL DEF Spec

-----------------------------------------------------------------------------
(* Part 2: the snapshots.  A task between its two counters is ahead by one.  *)
Between(label) == {c \in Client : at[c] = label}

CountsInv ==
  /\ AtOK
  /\ {names, total, buckets, latencies} \subseteq Nat
  /\ names + Cardinality(Between("name")) <= total
  /\ buckets + Cardinality(Between("bucket")) <= latencies

(* What was read of a sum is no more than the sum, and the totals are the    *)
(* last that a snapshot reads.                                             *)
HasTotal     == {"read_latencies", "latency", "bucket", "send"}
HasLatencies == {"latency", "bucket", "send"}

SeenInv ==
  /\ seen \in [Client -> [names: Int, buckets: Int, total: Int, latencies: Int]]
  /\ \A c \in Client :
       /\ seen[c].names <= names /\ seen[c].buckets <= buckets
       /\ seen[c].total >= 0 => at[c] \in HasTotal
       /\ seen[c].latencies >= 0 => at[c] \in HasLatencies
  /\ SnapshotAddsUp

LEMMA FiniteBetween ==
  ASSUME NEW label
  PROVE  IsFiniteSet(Between(label)) /\ Cardinality(Between(label)) \in Nat
  BY ClientAssumption, FS_Subset, FS_CardinalityType DEF Between

(* A step that counts nothing, after which no more tasks are ahead *)
LEMMA CountsNothing ==
  ASSUME CountsInv, at' \in [Client -> Labels], UNCHANGED <<commands, times>>,
         \A c \in Client : /\ at'[c] = "name" => at[c] = "name"
                           /\ at'[c] = "bucket" => at[c] = "bucket"
  PROVE  CountsInv'
<1>1. Between("name")' \subseteq Between("name") /\ Between("bucket")' \subseteq Between("bucket")
  BY DEF Between
<1>2. /\ Cardinality(Between("name")') <= Cardinality(Between("name"))
      /\ Cardinality(Between("bucket")') <= Cardinality(Between("bucket"))
      /\ Cardinality(Between("name")') \in Nat /\ Cardinality(Between("bucket")') \in Nat
  BY <1>1, FiniteBetween, FS_Subset, FS_CardinalityType
<1>3. Cardinality(Between("name")) \in Nat /\ Cardinality(Between("bucket")) \in Nat
  BY FiniteBetween
<1> QED BY <1>2, <1>3 DEF CountsInv, AtOK, commands, times

LEMMA CountStep ==
  ASSUME CountsInv, NEW c \in Client,
         CountTotal(c) \/ CountName(c) \/ CountLatency(c) \/ CountBucket(c)
  PROVE  CountsInv'
<1> USE FiniteBetween, FS_AddElement, FS_RemoveElement
<1>1. at' \in [Client -> Labels] /\ \A d \in Client : d # c => at'[d] = at[d]
  BY DEF CountsInv, AtOK, Labels, Live, Goto, CountTotal, CountName, CountLatency, CountBucket
<1>2. Cardinality(Between("name")) \in Nat /\ Cardinality(Between("bucket")) \in Nat
  OBVIOUS
<1>3. CASE CountTotal(c)
  <2>1. at[c] = "count" /\ at'[c] = "name"
    BY <1>3 DEF CountsInv, AtOK, CountTotal, At, Goto
  <2>2. /\ Between("name")' = Between("name") \cup {c} /\ c \notin Between("name")
        /\ Between("bucket")' = Between("bucket")
    BY <1>1, <2>1 DEF Between
  <2>3. Cardinality(Between("name")') = Cardinality(Between("name")) + 1
    BY <2>2
  <2> QED BY <1>1, <1>2, <1>3, <2>2, <2>3 DEF CountsInv, AtOK, CountTotal, times
<1>4. CASE CountName(c)
  <2>1. at[c] = "name" /\ at'[c] = "execute"
    BY <1>4 DEF CountsInv, AtOK, CountName, At, Goto
  <2>2. /\ Between("name")' = Between("name") \ {c} /\ c \in Between("name")
        /\ Between("bucket")' = Between("bucket")
    BY <1>1, <2>1 DEF Between
  <2>3. Cardinality(Between("name")') = Cardinality(Between("name")) - 1
    BY <2>2
  <2> QED BY <1>1, <1>2, <1>4, <2>2, <2>3 DEF CountsInv, AtOK, CountName, times
<1>5. CASE CountLatency(c)
  <2>1. at[c] = "latency" /\ at'[c] = "bucket"
    BY <1>5 DEF CountsInv, AtOK, CountLatency, At, Goto
  <2>2. /\ Between("bucket")' = Between("bucket") \cup {c} /\ c \notin Between("bucket")
        /\ Between("name")' = Between("name")
    BY <1>1, <2>1 DEF Between
  <2>3. Cardinality(Between("bucket")') = Cardinality(Between("bucket")) + 1
    BY <2>2
  <2> QED BY <1>1, <1>2, <1>5, <2>2, <2>3 DEF CountsInv, AtOK, CountLatency, commands
<1>6. CASE CountBucket(c)
  <2>1. at[c] = "bucket" /\ at'[c] = "send"
    BY <1>6 DEF CountsInv, AtOK, CountBucket, At, Goto
  <2>2. /\ Between("bucket")' = Between("bucket") \ {c} /\ c \in Between("bucket")
        /\ Between("name")' = Between("name")
    BY <1>1, <2>1 DEF Between
  <2>3. Cardinality(Between("bucket")') = Cardinality(Between("bucket")) - 1
    BY <2>2
  <2> QED BY <1>1, <1>2, <1>6, <2>2, <2>3 DEF CountsInv, AtOK, CountBucket, commands
<1> QED BY <1>3, <1>4, <1>5, <1>6

(* A step that reads no counter; whoever has read the totals keeps them     *)
(* until its answer is sent.                                               *)
LEMMA ReadsNothing ==
  ASSUME SeenInv, CountsInv,
         names' \in Nat, buckets' \in Nat, names <= names', buckets <= buckets',
         seen' \in [Client -> [names: Int, buckets: Int, total: Int, latencies: Int]],
         \A c \in Client :
           \/ seen'[c] = Unread
           \/ /\ seen'[c] = seen[c]
              /\ at[c] \in HasTotal => at'[c] \in HasTotal
              /\ at[c] \in HasLatencies => at'[c] \in HasLatencies
  PROVE  SeenInv'
<1>1. ASSUME NEW c \in Client
      PROVE  /\ seen'[c].names <= names' /\ seen'[c].buckets <= buckets'
             /\ seen'[c].total >= 0 => at'[c] \in HasTotal
             /\ seen'[c].latencies >= 0 => at'[c] \in HasLatencies
             /\ seen'[c].names >= 0 /\ seen'[c].total >= 0 => seen'[c].names <= seen'[c].total
             /\ seen'[c].buckets >= 0 /\ seen'[c].latencies >= 0
                  => seen'[c].buckets <= seen'[c].latencies
  <2>1. CASE seen'[c] = Unread
    BY <2>1 DEF Unread
  <2>2. CASE seen'[c] # Unread
    BY <2>2 DEF SeenInv, CountsInv, SnapshotAddsUp
  <2> QED BY <2>1, <2>2
<1> QED BY <1>1 DEF SeenInv, SnapshotAddsUp

LEMMA SnapshotReads ==
  ASSUME SeenInv, CountsInv, NEW c \in Client, Snapshot(c)
  PROVE  SeenInv' /\ CountsInv'
<1> USE DEF ReadCounter, At, Goto
<1>1. PICK from \in Live, to \in Live, name \in {"names", "buckets", "total", "latencies"},
           value \in Nat : ReadCounter(c, from, to, name, value)
  BY DEF Snapshot, Live, CountsInv
<1>2. /\ at' \in [Client -> Labels] /\ at'[c] \in {"read_buckets", "read_total", "read_latencies", "latency"}
      /\ at[c] \in {"read_names", "read_buckets", "read_total", "read_latencies"}
      /\ \A d \in Client : d # c => at'[d] = at[d] /\ seen'[d] = seen[d]
      /\ UNCHANGED <<commands, times>>
  BY DEF Snapshot, CountsInv, SeenInv, AtOK, Labels, Live
<1>3. CountsInv'
  <2>1. \A d \in Client : /\ at'[d] = "name" => at[d] = "name"
                          /\ at'[d] = "bucket" => at[d] = "bucket"
    BY <1>2
  <2> QED BY <1>2, <2>1, CountsNothing
<1>4. seen' \in [Client -> [names: Int, buckets: Int, total: Int, latencies: Int]]
  BY <1>1 DEF SeenInv
<1>5. UNCHANGED <<names, total, buckets, latencies>>
  BY <1>2 DEF commands, times
<1> DEFINE Fine(s, label) ==
      /\ s.names <= names /\ s.buckets <= buckets
      /\ s.total >= 0 => label \in HasTotal
      /\ s.latencies >= 0 => label \in HasLatencies
      /\ s.names >= 0 /\ s.total >= 0 => s.names <= s.total
      /\ s.buckets >= 0 /\ s.latencies >= 0 => s.buckets <= s.latencies
<1>6. \A d \in Client : Fine(seen[d], at[d])
  BY DEF SeenInv, SnapshotAddsUp
<1>7. seen[c] \in [names: Int, buckets: Int, total: Int, latencies: Int] /\ Fine(seen[c], at[c])
  BY <1>6 DEF SeenInv
<1>8. names <= total /\ buckets <= latencies /\ {names, total, buckets, latencies} \subseteq Nat
  BY FiniteBetween DEF CountsInv
<1>9. Fine(seen'[c], at'[c])
  <2>1. CASE ReadCounter(c, "read_names", "read_buckets", "names", names)
    <3>1. seen'[c] = [seen[c] EXCEPT !.names = names] /\ at'[c] = "read_buckets" /\ at[c] = "read_names"
      BY <2>1 DEF SeenInv, CountsInv, AtOK
    <3> QED BY <3>1, <1>7, <1>8 DEF HasTotal, HasLatencies
  <2>2. CASE ReadCounter(c, "read_buckets", "read_total", "buckets", buckets)
    <3>1. seen'[c] = [seen[c] EXCEPT !.buckets = buckets] /\ at'[c] = "read_total" /\ at[c] = "read_buckets"
      BY <2>2 DEF SeenInv, CountsInv, AtOK
    <3> QED BY <3>1, <1>7, <1>8 DEF HasTotal, HasLatencies
  <2>3. CASE ReadCounter(c, "read_total", "read_latencies", "total", total)
    <3>1. seen'[c] = [seen[c] EXCEPT !.total = total] /\ at'[c] = "read_latencies" /\ at[c] = "read_total"
      BY <2>3 DEF SeenInv, CountsInv, AtOK
    <3> QED BY <3>1, <1>7, <1>8 DEF HasTotal, HasLatencies
  <2>4. CASE ReadCounter(c, "read_latencies", "latency", "latencies", latencies)
    <3>1. seen'[c] = [seen[c] EXCEPT !.latencies = latencies] /\ at'[c] = "latency" /\ at[c] = "read_latencies"
      BY <2>4 DEF SeenInv, CountsInv, AtOK
    <3> QED BY <3>1, <1>7, <1>8 DEF HasTotal, HasLatencies
  <2> QED BY <2>1, <2>2, <2>3, <2>4 DEF Snapshot
<1>10. \A d \in Client : Fine(seen'[d], at'[d])
  BY <1>2, <1>6, <1>9
<1>11. SeenInv'
  BY <1>4, <1>5, <1>10 DEF SeenInv, SnapshotAddsUp
<1> QED BY <1>3, <1>11

(* The label of one task moves, nothing is counted, and its snapshot is kept  *)
(* or thrown away.                                                         *)
LEMMA OneMoves ==
  ASSUME SeenInv, CountsInv, NEW c \in Client, NEW label \in Labels,
         at' = [at EXCEPT ![c] = label], label \notin {"name", "bucket"},
         UNCHANGED <<commands, times>>,
         \/ seen' = [seen EXCEPT ![c] = Unread]
         \/ seen' = seen /\ at[c] \notin HasTotal
  PROVE  SeenInv' /\ CountsInv'
<1>1. /\ at' \in [Client -> Labels] /\ at'[c] = label
      /\ \A d \in Client : d # c => at'[d] = at[d]
  BY DEF CountsInv, AtOK
<1>2. CountsInv'
  BY <1>1, CountsNothing
<1>3. names' = names /\ buckets' = buckets /\ names \in Nat /\ buckets \in Nat
  BY DEF commands, times, CountsInv
<1>4. /\ seen' \in [Client -> [names: Int, buckets: Int, total: Int, latencies: Int]]
      /\ \A d \in Client : d # c => seen'[d] = seen[d]
      /\ seen'[c] = Unread \/ (seen'[c] = seen[c] /\ at[c] \notin HasTotal /\ at[c] \notin HasLatencies)
  BY DEF SeenInv, Unread, HasTotal, HasLatencies
<1>5. SeenInv'
  BY <1>1, <1>3, <1>4, ReadsNothing
<1> QED BY <1>2, <1>5

LEMMA TaskKeepsCounts ==
  ASSUME SeenInv, CountsInv, NEW c \in Client, Task(c)
  PROVE  SeenInv' /\ CountsInv'
<1> USE DEF At, Goto
<1>1. CASE ReadMore(c)
  <2>1. UNCHANGED <<at, seen, commands, times>>
    BY <1>1 DEF ReadMore, work
  <2>2. CountsInv'
    BY <2>1, CountsNothing DEF CountsInv, AtOK
  <2>3. names' = names /\ buckets' = buckets /\ names \in Nat /\ buckets \in Nat
    BY <2>1 DEF commands, times, CountsInv
  <2>4. SeenInv'
    BY <2>1, <2>3, ReadsNothing DEF SeenInv
  <2> QED BY <2>2, <2>4
<1>2. CASE NextFrame(c) \/ ProtocolError(c) \/ EndOfStream(c) \/ SayGoodbye(c)
  <2>1. /\ UNCHANGED <<seen, commands, times>> /\ at[c] = "poll"
        /\ \/ at' = [at EXCEPT ![c] = "count"] \/ at' = [at EXCEPT ![c] = "send"]
           \/ at' = [at EXCEPT ![c] = "close"]
    BY <1>2 DEF NextFrame, ProtocolError, EndOfStream, SayGoodbye, AtEnd, Polls, Answer, work
  <2> QED BY <2>1, OneMoves DEF Labels, Live, HasTotal
<1>3. CASE Execute(c)
  <2>1. /\ UNCHANGED <<seen, commands, times>> /\ at[c] = "execute"
        /\ at' = [at EXCEPT ![c] = "read_names"] \/ at' = [at EXCEPT ![c] = "latency"]
    BY <1>3 DEF Execute
  <2> QED BY <2>1, OneMoves DEF Labels, Live, HasTotal
<1>4. CASE Panic(c) \/ Close(c)
  <2>1. /\ UNCHANGED <<commands, times>>
        /\ at' = [at EXCEPT ![c] = "panicked"] \/ at' = [at EXCEPT ![c] = "closed"]
        /\ seen' = [d \in Client |-> IF d \in {c} THEN Unread ELSE seen[d]]
    BY <1>4 DEF Panic, Close, Drop
  <2>2. seen' = [seen EXCEPT ![c] = Unread]
    BY <2>1 DEF SeenInv
  <2> QED BY <2>1, <2>2, OneMoves DEF Labels, Ended
<1>5. CASE Send(c)
  <2>1. /\ UNCHANGED <<commands, times>> /\ seen' = [seen EXCEPT ![c] = Unread]
        /\ at' = [at EXCEPT ![c] = "poll"] \/ at' = [at EXCEPT ![c] = "close"]
    BY <1>5 DEF Send, AfterSend
  <2> QED BY <2>1, OneMoves DEF Labels, Live
<1>6. CASE CountTotal(c) \/ CountName(c) \/ CountLatency(c) \/ CountBucket(c)
  <2>1. CountsInv'
    BY <1>6, CountStep
  <2>2. /\ seen' = seen /\ names' \in {names, names + 1} /\ buckets' \in {buckets, buckets + 1}
        /\ names \in Nat /\ buckets \in Nat
    <3>1. names \in Nat /\ buckets \in Nat
      BY DEF CountsInv
    <3>2. CASE CountTotal(c)
      BY <3>1, <3>2 DEF CountTotal, work, times
    <3>3. CASE CountName(c)
      BY <3>1, <3>3 DEF CountName, work, times
    <3>4. CASE CountLatency(c)
      BY <3>1, <3>4 DEF CountLatency, work, commands
    <3>5. CASE CountBucket(c)
      BY <3>1, <3>5 DEF CountBucket, work, commands
    <3> QED BY <1>6, <3>2, <3>3, <3>4, <3>5
  <2>3. /\ names' \in Nat /\ buckets' \in Nat /\ names <= names' /\ buckets <= buckets'
    BY <2>2
  <2>4. /\ at[c] \in HasTotal => at'[c] \in HasTotal
        /\ at[c] \in HasLatencies => at'[c] \in HasLatencies
        /\ \A d \in Client : d # c => at'[d] = at[d]
    BY <1>6 DEF CountTotal, CountName, CountLatency, CountBucket, HasTotal, HasLatencies,
                CountsInv, AtOK
  <2>5. SeenInv'
    BY <2>2, <2>3, <2>4, ReadsNothing DEF SeenInv
  <2> QED BY <2>1, <2>5
<1> QED BY <1>1, <1>2, <1>3, <1>4, <1>5, <1>6, SnapshotReads DEF Task

LEMMA RestKeepsCounts ==
  ASSUME SeenInv, CountsInv,
         \/ AcceptFails \/ TryAgain \/ Interrupt \/ Exit
         \/ \E c \in Client : Accept(c) \/ Ask(c) \/ StopSending(c) \/ Leave(c)
         \/ UNCHANGED vars
  PROVE  SeenInv' /\ CountsInv'
<1>1. ASSUME NEW c \in Client, Accept(c) PROVE SeenInv' /\ CountsInv'
  <2>1. /\ UNCHANGED <<seen, commands, times>> /\ at[c] = "away"
        /\ at' = [at EXCEPT ![c] = "poll"]
    BY <1>1 DEF Accept, At, Goto, work
  <2> QED BY <2>1, OneMoves DEF Labels, Live, HasTotal
<1>2. CASE Exit
  <2>1. /\ at' \in [Client -> Labels] /\ UNCHANGED <<commands, times>>
        /\ \A c \in Client : at'[c] \in Ended
    BY <1>2 DEF Exit, CountsInv, AtOK, Labels, Ended
  <2>2. CountsInv'
    BY <2>1, CountsNothing DEF Ended
  <2>3. /\ seen' \in [Client -> [names: Int, buckets: Int, total: Int, latencies: Int]]
        /\ \A c \in Client : seen'[c] = Unread
    BY <1>2 DEF Exit, Drop, Unread
  <2>4. names' = names /\ buckets' = buckets /\ names \in Nat /\ buckets \in Nat
    BY <2>1 DEF commands, times, CountsInv
  <2>5. SeenInv'
    BY <2>3, <2>4, ReadsNothing
  <2> QED BY <2>2, <2>5
<1>3. CASE \/ AcceptFails \/ TryAgain \/ Interrupt \/ UNCHANGED vars
           \/ \E c \in Client : Ask(c) \/ StopSending(c) \/ Leave(c)
  <2>1. UNCHANGED <<at, seen, commands, times>>
    BY <1>3 DEF AcceptFails, TryAgain, Interrupt, Ask, StopSending, Leave, vars, work
  <2>2. CountsInv'
    BY <2>1, CountsNothing DEF CountsInv, AtOK
  <2>3. names' = names /\ buckets' = buckets /\ names \in Nat /\ buckets \in Nat
    BY <2>1 DEF commands, times, CountsInv
  <2>4. SeenInv'
    BY <2>1, <2>3, ReadsNothing DEF SeenInv
  <2> QED BY <2>2, <2>4
<1> QED BY <1>1, <1>2, <1>3

LEMMA CountsStart == Init => SeenInv /\ CountsInv
<1> SUFFICES ASSUME Init PROVE SeenInv /\ CountsInv
  OBVIOUS
<1>1. Between("name") = {} /\ Between("bucket") = {}
  BY DEF Init, Between
<1>2. Cardinality(Between("name")) = 0 /\ Cardinality(Between("bucket")) = 0
  BY <1>1, FS_EmptySet
<1>3. AtOK
  BY DEF Init, AtOK, Labels
<1> QED BY <1>2, <1>3 DEF Init, SeenInv, CountsInv, SnapshotAddsUp, Unread

LEMMA CountsStep == (SeenInv /\ CountsInv) /\ [Next]_vars => (SeenInv /\ CountsInv)'
  BY TaskKeepsCounts, RestKeepsCounts DEF Next

(* For any number of clients that count while others take their snapshots:    *)
(* no snapshot shows more commands by name, or more latencies in buckets,  *)
(* than its totals.                                                        *)
THEOREM SnapshotsAddUp == Spec => []SnapshotAddsUp
<1>1. SeenInv /\ CountsInv => SnapshotAddsUp
  BY DEF SeenInv
<1> QED BY <1>1, CountsStart, CountsStep, PTL DEF Spec

-----------------------------------------------------------------------------
(* Part 3: the decoder.                                                    *)
Outcomes == [st: {"ok", "more", "error", "panic"}, next: Nat]

(* The row of Ends for position p, from the row for the next position *)
Row(input, p, later) ==
  [need \in Nat |->
    IF need = 0 THEN [st |-> "ok", next |-> p]
    ELSE IF p > Len(input) THEN [st |-> "more", next |-> 0]
    ELSE IF input[p] = Bad THEN [st |-> "error", next |-> 0]
    ELSE IF input[p] = Huge THEN [st |-> "panic", next |-> 0]
    ELSE later[need - 1 + Elements(input[p])]]

LEMMA ElementsType == ASSUME NEW token \in Tokens PROVE Elements(token) \in Nat
<1>1. CASE IsArray(token)
  <2>1. token \in [t: {"array"}, n: Int]
    BY <1>1 DEF Tokens, Bad, Huge, IsArray
  <2> QED BY <2>1, <1>1 DEF IsArray, Elements
<1> QED BY <1>1 DEF Elements

LEMMA RowType ==
  ASSUME NEW input \in Seq(Tokens), NEW p \in 1 .. Len(input) + 1, NEW later \in [Nat -> Outcomes]
  PROVE  Row(input, p, later) \in [Nat -> Outcomes]
<1> SUFFICES ASSUME NEW need \in Nat PROVE Row(input, p, later)[need] \in Outcomes
  BY DEF Row
<1>1. CASE need = 0 \/ p > Len(input)
  BY <1>1 DEF Row, Outcomes
<1>2. CASE need # 0 /\ p \in 1 .. Len(input)
  <2>1. need - 1 + Elements(input[p]) \in Nat
    BY <1>2, ElementsType
  <2>2. later[need - 1 + Elements(input[p])] \in Outcomes
    BY <2>1
  <2>3. CASE input[p] = Bad \/ input[p] = Huge
    BY <1>2, <2>3 DEF Row, Outcomes
  <2>4. CASE input[p] # Bad /\ input[p] # Huge
    BY <1>2, <2>2, <2>4 DEF Row
  <2> QED BY <2>3, <2>4
<1> QED BY <1>1, <1>2

(* The recursive definition of Ends says what it seems to say. *)
LEMMA EndsUnfolds ==
  ASSUME NEW input \in Seq(Tokens)
  PROVE  /\ Ends(input) \in [1 .. Len(input) + 1 -> [Nat -> Outcomes]]
         /\ \A p \in 1 .. Len(input) + 1 : Ends(input)[p] = Row(input, p, Ends(input)[p + 1])
<1> DEFINE n == Len(input)
           X == [Nat -> Outcomes]
           step == [y \in X \X (1 .. n) |-> Row(input, n + 1 - y[2], y[1])]
           first == [need \in Nat |-> IF need = 0 THEN [st |-> "ok", next |-> n + 1]
                                      ELSE [st |-> "more", next |-> 0]]
           Body(g) == [p \in 1 .. n + 1 |-> Row(input, p, g[p + 1])]
<1>1. n \in Nat
  OBVIOUS
<1>2. first \in X
  BY DEF Outcomes
<1>3. step \in [X \X (1 .. n) -> X]
  <2>1. ASSUME NEW y \in X \X (1 .. n) PROVE Row(input, n + 1 - y[2], y[1]) \in X
    BY RowType
  <2> QED BY <2>1
<1>4. PICK g \in [0 .. n -> X] : Iterates(g, first, step, n)
  <2> HIDE DEF step, n, X, first
  <2> QED BY <1>1, <1>2, <1>3, RecursiveFunction
<1> DEFINE f == [p \in 1 .. n + 1 |-> g[n + 1 - p]]
<1>5. f \in [1 .. n + 1 -> X]
  OBVIOUS
<1>6. ASSUME NEW p \in 1 .. n + 1 PROVE f[p] = Row(input, p, f[p + 1])
  <2>1. CASE p = n + 1
    <3>1. f[p] = first
      BY <2>1, <1>4 DEF Iterates
    <3>2. ASSUME NEW need \in Nat PROVE Row(input, p, f[p + 1])[need] = first[need]
      BY <2>1 DEF Row
    <3>3. Row(input, p, f[p + 1]) = first
      <4> HIDE DEF f
      <4> QED BY <3>2 DEF Row
    <3> QED BY <3>1, <3>3
  <2>2. CASE p # n + 1
    <3>1. n + 1 - p \in 1 .. n /\ f[p] = g[n + 1 - p] /\ f[p + 1] = g[(n + 1 - p) - 1]
      BY <2>2
    <3>2. f[p] = step[<<f[p + 1], n + 1 - p>>]
      BY <3>1, <1>4 DEF Iterates
    <3>3. f[p + 1] \in X
      <4>1. p + 1 \in 1 .. n + 1
        BY <2>2
      <4> HIDE DEF f, X
      <4> QED BY <4>1, <1>5
    <3>4. n + 1 - (n + 1 - p) = p
      OBVIOUS
    <3> HIDE DEF f, n, X
    <3> QED BY <3>1, <3>2, <3>3, <3>4
  <2> QED BY <2>1, <2>2
<1>7. f = Body(f)
  <2> HIDE DEF f
  <2> QED BY <1>5, <1>6
<1>8. Ends(input) = CHOOSE h : h = Body(h)
  BY DEF Ends, Row
<1>9. Ends(input) = Body(Ends(input))
  <2> HIDE DEF Body, f
  <2> QED BY <1>7, <1>8
<1>10. \A p \in 1 .. n + 1 : Ends(input)[p] = Row(input, p, Ends(input)[p + 1])
  BY <1>9
<1> DEFINE T == {p \in 1 .. n + 1 : Ends(input)[p] \in X}
<1>11. n + 1 \in T
  <2>1. ASSUME NEW need \in Nat PROVE Row(input, n + 1, Ends(input)[(n + 1) + 1])[need] = first[need]
    BY DEF Row
  <2>2. Row(input, n + 1, Ends(input)[(n + 1) + 1]) = first
    BY <2>1 DEF Row
  <2>3. Ends(input)[n + 1] = first
    BY <1>10, <2>2
  <2> HIDE DEF X, first
  <2> QED BY <1>2, <2>3
<1>12. ASSUME NEW p \in 1 .. n, p + 1 \in T PROVE p \in T
  <2>1. Row(input, p, Ends(input)[p + 1]) \in X
    BY <1>12, RowType
  <2> HIDE DEF X
  <2> QED BY <1>10, <2>1
<1>13. \A p \in 1 .. n + 1 : p \in T
  <2> HIDE DEF T, n
  <2> QED BY <1>1, <1>11, <1>12, InductionDown
<1>14. ASSUME NEW p \in 1 .. n + 1 PROVE Ends(input)[p] \in X
  BY <1>13
<1>15. Ends(input) \in [1 .. n + 1 -> X]
  <2> HIDE DEF X
  <2> QED BY <1>9, <1>14
<1> QED BY <1>10, <1>15

(* One token: what Ends says at a position, from what it says at the next *)
LEMMA EndsStep ==
  ASSUME NEW input \in Seq(Tokens), NEW p \in 1 .. Len(input), input[p] # Bad, input[p] # Huge
  PROVE  /\ Elements(input[p]) \in Nat
         /\ \A need \in Nat \ {0} : Ends(input)[p][need] = Ends(input)[p + 1][need - 1 + Elements(input[p])]
<1>1. Elements(input[p]) \in Nat
  BY ElementsType
<1>2. Ends(input)[p] = Row(input, p, Ends(input)[p + 1])
  BY EndsUnfolds
<1> QED BY <1>1, <1>2 DEF Row

LEMMA EndsStops ==
  ASSUME NEW input \in Seq(Tokens)
  PROVE  /\ \A p \in 1 .. Len(input) + 1 : Ends(input)[p][0].st = "ok" /\ Ends(input)[p][0].next = p
         /\ \A need \in Nat \ {0} : Ends(input)[Len(input) + 1][need].st = "more"
         /\ \A p \in 1 .. Len(input) : \A need \in Nat \ {0} :
              /\ input[p] = Bad => Ends(input)[p][need].st = "error"
              /\ input[p] = Huge => Ends(input)[p][need].st = "panic"
<1>1. ASSUME NEW p \in 1 .. Len(input) + 1, NEW need \in Nat
      PROVE  Ends(input)[p][need] = Row(input, p, Ends(input)[p + 1])[need]
  BY EndsUnfolds
<1>2. Bad # Huge
  BY DEF Bad, Huge
<1>3. ASSUME NEW p \in 1 .. Len(input) + 1
      PROVE  Ends(input)[p][0].st = "ok" /\ Ends(input)[p][0].next = p
  <2>1. Ends(input)[p][0] = [st |-> "ok", next |-> p]
    BY <1>1 DEF Row
  <2> QED BY <2>1
<1>4. ASSUME NEW need \in Nat \ {0} PROVE Ends(input)[Len(input) + 1][need].st = "more"
  <2>1. Ends(input)[Len(input) + 1][need] = Row(input, Len(input) + 1, Ends(input)[(Len(input) + 1) + 1])[need]
    BY <1>1
  <2> QED BY <2>1 DEF Row
<1>5. ASSUME NEW p \in 1 .. Len(input), NEW need \in Nat \ {0}
      PROVE  /\ input[p] = Bad => Ends(input)[p][need].st = "error"
             /\ input[p] = Huge => Ends(input)[p][need].st = "panic"
  <2>1. Ends(input)[p][need] = Row(input, p, Ends(input)[p + 1])[need]
    BY <1>1
  <2> QED BY <1>2, <2>1 DEF Row
<1> QED BY <1>3, <1>4, <1>5

(* An outcome without an end is known by its kind. *)
LEMMA EndsUndone ==
  ASSUME NEW input \in Seq(Tokens)
  PROVE  \A p \in 1 .. Len(input) + 1 : \A need \in Nat :
           /\ Ends(input)[p][need] \in Outcomes
           /\ Ends(input)[p][need].st # "ok" => Ends(input)[p][need].next = 0
<1> DEFINE Good(p, need) == Ends(input)[p][need].st # "ok" => Ends(input)[p][need].next = 0
           T == {p \in 1 .. Len(input) + 1 : \A need \in Nat : Good(p, need)}
<1>1. ASSUME NEW p \in 1 .. Len(input) + 1, NEW need \in Nat
      PROVE  Ends(input)[p][need] = Row(input, p, Ends(input)[p + 1])[need]
  BY EndsUnfolds
<1>2. Len(input) + 1 \in T
  <2>1. ASSUME NEW need \in Nat PROVE Good(Len(input) + 1, need)
    <3>1. Ends(input)[Len(input) + 1][need] = Row(input, Len(input) + 1, Ends(input)[(Len(input) + 1) + 1])[need]
      BY <1>1
    <3> QED BY <3>1 DEF Row
  <2> HIDE DEF Good
  <2> QED BY <2>1
<1>3. ASSUME NEW p \in 1 .. Len(input), p + 1 \in T PROVE p \in T
  <2>1. ASSUME NEW need \in Nat PROVE Good(p, need)
    <3>1. Ends(input)[p][need] = Row(input, p, Ends(input)[p + 1])[need]
      BY <1>1
    <3>2. CASE need = 0 \/ input[p] = Bad \/ input[p] = Huge
      BY <3>1, <3>2 DEF Row
    <3>3. CASE need # 0 /\ input[p] # Bad /\ input[p] # Huge
      <4>1. need - 1 + Elements(input[p]) \in Nat
        BY <3>3, ElementsType
      <4>2. Good(p + 1, need - 1 + Elements(input[p]))
        BY <1>3, <4>1
      <4> QED BY <3>3, <4>1, <4>2, EndsStep
    <3> QED BY <3>2, <3>3
  <2> HIDE DEF Good
  <2> QED BY <2>1
<1>4. \A p \in 1 .. Len(input) + 1 : p \in T
  <2>1. Len(input) \in Nat
    OBVIOUS
  <2> HIDE DEF T
  <2> QED BY <1>2, <1>3, <2>1, InductionDown
<1> QED BY <1>4, EndsUnfolds

(* The end of some values lies in the buffer; that of fewer, before it. *)
InOrder(input, p, need) ==
  Ends(input)[p][need].st = "ok"
    => /\ Ends(input)[p][need].next \in p .. Len(input) + 1
       /\ \A m \in 0 .. need : /\ Ends(input)[p][m].st = "ok"
                               /\ m # need => Ends(input)[p][m].next < Ends(input)[p][need].next

LEMMA EndsOrdered ==
  ASSUME NEW input \in Seq(Tokens)
  PROVE  \A p \in 1 .. Len(input) + 1 : \A need \in Nat : InOrder(input, p, need)
<1> DEFINE T == {p \in 1 .. Len(input) + 1 : \A need \in Nat : InOrder(input, p, need)}
<1>1. ASSUME NEW p \in 1 .. Len(input) + 1 PROVE InOrder(input, p, 0)
  BY EndsStops DEF InOrder
<1>2. Len(input) + 1 \in T
  <2>1. ASSUME NEW need \in Nat, need # 0 PROVE InOrder(input, Len(input) + 1, need)
    BY <2>1, EndsStops DEF InOrder
  <2> QED BY <1>1, <2>1
<1>3. ASSUME NEW p \in 1 .. Len(input), p + 1 \in T PROVE p \in T
  <2> SUFFICES ASSUME NEW need \in Nat \ {0}, Ends(input)[p][need].st = "ok" PROVE InOrder(input, p, need)
    BY <1>1 DEF InOrder
  <2>1. input[p] # Bad /\ input[p] # Huge
    BY EndsStops
  <2> DEFINE k == Elements(input[p])
  <2>2. k \in Nat /\ \A j \in Nat \ {0} : Ends(input)[p][j] = Ends(input)[p + 1][j - 1 + k]
    BY <2>1, EndsStep
  <2> HIDE DEF k
  <2>3. InOrder(input, p + 1, need - 1 + k)
    BY <1>3, <2>2
  <2>4. Ends(input)[p][need] = Ends(input)[p + 1][need - 1 + k]
    BY <2>2
  <2>5. Ends(input)[p][need].next \in p + 1 .. Len(input) + 1
    BY <2>3, <2>4 DEF InOrder
  <2>6. ASSUME NEW m \in 0 .. need
        PROVE  /\ Ends(input)[p][m].st = "ok"
               /\ m # need => Ends(input)[p][m].next < Ends(input)[p][need].next
    <3>1. CASE m = 0
      BY <2>5, <3>1, EndsStops
    <3>2. CASE m # 0
      <4>1. m - 1 + k \in 0 .. need - 1 + k /\ (m # need => m - 1 + k # need - 1 + k)
        BY <2>2, <3>2
      <4>2. Ends(input)[p][m] = Ends(input)[p + 1][m - 1 + k]
        BY <2>2, <3>2
      <4> QED BY <2>3, <2>4, <4>1, <4>2 DEF InOrder
    <3> QED BY <3>1, <3>2
  <2> QED BY <2>5, <2>6 DEF InOrder
<1>4. \A p \in 1 .. Len(input) + 1 : p \in T
  <2>1. Len(input) \in Nat
    OBVIOUS
  <2> HIDE DEF T
  <2> QED BY <1>2, <1>3, <2>1, InductionDown
<1> QED BY <1>4

(* What comes behind a decided buffer decides nothing. *)
Decided(input, ext, p, need) ==
  Ends(input)[p][need].st # "more" => Ends(ext)[p][need] = Ends(input)[p][need]

LEMMA EndsExtend ==
  ASSUME NEW input \in Seq(Tokens), NEW ext \in Seq(Tokens), Len(input) <= Len(ext),
         \A p \in 1 .. Len(input) : ext[p] = input[p]
  PROVE  \A p \in 1 .. Len(input) + 1 : \A need \in Nat : Decided(input, ext, p, need)
<1> DEFINE T == {p \in 1 .. Len(input) + 1 : \A need \in Nat : Decided(input, ext, p, need)}
<1>1. ASSUME NEW p \in 1 .. Len(input) + 1 PROVE Decided(input, ext, p, 0)
  <2>1. p \in 1 .. Len(ext) + 1
    OBVIOUS
  <2>2. /\ Ends(ext)[p][0].st = Ends(input)[p][0].st /\ Ends(ext)[p][0].next = Ends(input)[p][0].next
    BY <2>1, EndsStops
  <2>3. Ends(ext)[p][0] \in Outcomes /\ Ends(input)[p][0] \in Outcomes
    BY <2>1, EndsUndone
  <2>4. Ends(ext)[p][0] = Ends(input)[p][0]
    BY <2>2, <2>3 DEF Outcomes
  <2> QED BY <2>4 DEF Decided
<1>2. Len(input) + 1 \in T
  <2>1. ASSUME NEW need \in Nat, need # 0 PROVE Decided(input, ext, Len(input) + 1, need)
    BY <2>1, EndsStops DEF Decided
  <2> QED BY <1>1, <2>1
<1>3. ASSUME NEW p \in 1 .. Len(input), p + 1 \in T PROVE p \in T
  <2> SUFFICES ASSUME NEW need \in Nat \ {0} PROVE Decided(input, ext, p, need)
    BY <1>1
  <2>1. p \in 1 .. Len(ext) /\ ext[p] = input[p]
    OBVIOUS
  <2>2. CASE input[p] = Bad \/ input[p] = Huge
    <3>1. p \in 1 .. Len(input) + 1 /\ p \in 1 .. Len(ext) + 1 /\ p <= Len(input) /\ p <= Len(ext)
      BY <2>1
    <3>2. /\ Ends(ext)[p][need].st = Ends(input)[p][need].st /\ Ends(input)[p][need].st # "ok"
          /\ Ends(ext)[p][need].next = 0 /\ Ends(input)[p][need].next = 0
      BY <2>1, <2>2, <3>1, EndsStops, EndsUndone
    <3>3. Ends(ext)[p][need] \in Outcomes /\ Ends(input)[p][need] \in Outcomes
      BY <3>1, EndsUndone
    <3>4. Ends(ext)[p][need] = Ends(input)[p][need]
      BY <3>2, <3>3 DEF Outcomes
    <3> QED BY <3>4 DEF Decided
  <2>3. CASE input[p] # Bad /\ input[p] # Huge
    <3> DEFINE k == Elements(input[p])
    <3>1. k \in Nat /\ Ends(input)[p][need] = Ends(input)[p + 1][need - 1 + k]
      BY <2>3, EndsStep
    <3>2. Ends(ext)[p][need] = Ends(ext)[p + 1][need - 1 + k]
      BY <2>1, <2>3, EndsStep
    <3> HIDE DEF k
    <3>3. Decided(input, ext, p + 1, need - 1 + k)
      BY <1>3, <3>1
    <3> QED BY <3>1, <3>2, <3>3 DEF Decided
  <2> QED BY <2>2, <2>3
<1>4. \A p \in 1 .. Len(input) + 1 : p \in T
  <2>1. Len(input) \in Nat
    OBVIOUS
  <2> HIDE DEF T
  <2> QED BY <1>2, <1>3, <2>1, InductionDown
<1> QED BY <1>4

-----------------------------------------------------------------------------
(* The elements of a whole array are where Items looks for them. *)
LEMMA ItemsThere ==
  ASSUME NEW input \in Seq(Tokens), Ends(input)[1][1].st = "ok"
  PROVE  /\ input # <<>> /\ Ends(input)[1][1].next - 1 \in 1 .. Len(input)
         /\ IsArray(input[1]) =>
              /\ input[1].n \in Nat
              /\ \A i \in 1 .. input[1].n :
                   /\ Ends(input)[2][i - 1].st = "ok"
                   /\ Ends(input)[2][i - 1].next \in 1 .. Len(input)
<1> DEFINE end == Ends(input)[1][1]
<1>1. InOrder(input, 1, 1)
  BY EndsOrdered
<1>2. end.next \in 1 .. Len(input) + 1 /\ Ends(input)[1][0].next < end.next
  BY <1>1 DEF InOrder
<1>3. end.next - 1 \in 1 .. Len(input)
  BY <1>2, EndsStops
<1>4. ASSUME IsArray(input[1]), NEW i \in 1 .. input[1].n
      PROVE  Ends(input)[2][i - 1].st = "ok" /\ Ends(input)[2][i - 1].next \in 1 .. Len(input)
  <2>1. input[1] # Bad /\ input[1] # Huge
    BY <1>4 DEF IsArray, Bad, Huge
  <2>2. Elements(input[1]) = input[1].n /\ input[1].n \in Nat
    BY <1>3, <1>4, ElementsType DEF Elements
  <2>3. 1 \in 1 .. Len(input) /\ 1 \in Nat \ {0} /\ 2 \in 1 .. Len(input) + 1
    BY <1>3
  <2>4. end = Ends(input)[1 + 1][1 - 1 + Elements(input[1])]
    BY <2>1, <2>3, EndsStep
  <2>5. end = Ends(input)[2][input[1].n]
    BY <2>2, <2>4
  <2>6. InOrder(input, 2, input[1].n) /\ InOrder(input, 2, i - 1)
    BY <2>2, <2>3, EndsOrdered
  <2>7. Ends(input)[2][i - 1].st = "ok" /\ Ends(input)[2][i - 1].next < end.next
    BY <2>2, <2>5, <2>6 DEF InOrder
  <2>8. Ends(input)[2][i - 1].next \in 2 .. Len(input) + 1
    BY <2>6, <2>7 DEF InOrder
  <2> QED BY <1>2, <2>7, <2>8
<1>5. IsArray(input[1]) => input[1].n \in Nat
  BY <1>3, ElementsType DEF Elements
<1> QED BY <1>3, <1>4, <1>5

LEMMA ItemsType ==
  ASSUME NEW input \in Seq(Tokens), Ends(input)[1][1].st = "ok", IsArray(input[1])
  PROVE  Items(input) \in Seq(Word)
<1>1. input[1].n \in Nat
  BY ItemsThere
<1>2. ASSUME NEW i \in 1 .. input[1].n PROVE Items(input)[i] \in Word
  <2> DEFINE p == Ends(input)[2][i - 1].next
             token == input[p]
  <2>1. p \in 1 .. Len(input)
    BY ItemsThere
  <2>2. token \in Tokens
    BY <2>1
  <2>3. Items(input)[i] = IF token.t = "scalar" THEN token.v ELSE "other"
    BY <1>1 DEF Items, Skip
  <2> HIDE DEF token
  <2>4. token.t = "scalar" => token.v \in Word
    BY <2>2 DEF Tokens, Bad, Huge
  <2>5. CASE token.t = "scalar"
    BY <2>3, <2>4, <2>5
  <2>6. CASE token.t # "scalar"
    BY <2>3, <2>6, WordAssumption
  <2> QED BY <2>5, <2>6
<1>3. Items(input) \in [1 .. input[1].n -> Word]
  BY <1>2 DEF Items
<1> QED BY <1>1, <1>3

LEMMA DecodeType ==
  ASSUME NEW input \in Seq(Tokens)
  PROVE  /\ Decode(input).st \in {"ok", "more", "error", "panic"}
         /\ Decode(input).used \in 0 .. Len(input)
         /\ Decode(input).items \in Seq(Word)
         /\ Decode(input).st # "ok" => Decode(input).used = 0
         /\ Decode(input).st = "ok" => Decode(input).used # 0
         /\ input = <<>> => Decode(input).st = "more"
<1> DEFINE end == Ends(input)[1][1]
<1>1. end \in Outcomes
  BY EndsUnfolds
<1>2. CASE end.st # "ok"
  <2>1. Decode(input) = Nothing(end.st, 0)
    BY <1>2 DEF Decode, Skip
  <2>2. input = <<>> => end.st = "more"
    <3>1. Ends(input)[Len(input) + 1][1].st = "more"
      BY EndsStops
    <3> QED BY <3>1
  <2> QED BY <1>1, <1>2, <2>1, <2>2 DEF Nothing, Outcomes
<1>3. CASE end.st = "ok"
  <2>1. input # <<>> /\ end.next - 1 \in 1 .. Len(input)
    BY <1>3, ItemsThere
  <2> DEFINE items == IF IsArray(input[1]) THEN Items(input) ELSE <<>>
  <2>2. Decode(input) = [st |-> "ok", used |-> end.next - 1, array |-> IsArray(input[1]), items |-> items]
    BY <1>3 DEF Decode, Skip
  <2>3. items \in Seq(Word)
    <3>1. IsArray(input[1]) => Items(input) \in Seq(Word)
      BY <1>3, ItemsType
    <3> QED BY <3>1
  <2> HIDE DEF items, end
  <2> QED BY <2>1, <2>2, <2>3
<1> QED BY <1>2, <1>3

LEMMA DecodeExtends ==
  ASSUME NEW input \in Seq(Tokens), NEW ext \in Seq(Tokens), Len(input) <= Len(ext),
         \A p \in 1 .. Len(input) : ext[p] = input[p], Decode(input).st # "more"
  PROVE  Decode(ext) = Decode(input)
<1>1. Ends(input)[1][1].st # "more"
  BY DEF Decode, Skip, Nothing
<1>2. Ends(ext)[1][1] = Ends(input)[1][1]
  BY <1>1, EndsExtend DEF Decided
<1>3. CASE Ends(input)[1][1].st # "ok"
  BY <1>2, <1>3 DEF Decode, Skip
<1>4. CASE Ends(input)[1][1].st = "ok"
  <2>1. input # <<>> /\ ext[1] = input[1]
    BY <1>4, ItemsThere
  <2>2. ASSUME IsArray(input[1]) PROVE Items(ext) = Items(input)
    <3>1. input[1].n \in Nat /\ 2 \in 1 .. Len(input) + 1
      BY <1>4, <2>1, <2>2, ItemsThere
    <3>2. ASSUME NEW i \in 1 .. input[1].n
          PROVE  /\ Skip(ext, 2, i - 1).next = Skip(input, 2, i - 1).next
                 /\ Skip(input, 2, i - 1).next \in 1 .. Len(input)
      <4>1. Ends(input)[2][i - 1].st = "ok" /\ Ends(input)[2][i - 1].next \in 1 .. Len(input)
        BY <1>4, <2>2, ItemsThere
      <4>2. i - 1 \in Nat
        BY <3>1
      <4>3. Decided(input, ext, 2, i - 1)
        BY <3>1, <4>2, EndsExtend
      <4> QED BY <4>1, <4>3 DEF Decided, Skip
    <3>3. ASSUME NEW i \in 1 .. input[1].n
          PROVE  ext[Skip(ext, 2, i - 1).next] = input[Skip(input, 2, i - 1).next]
      BY <3>2
    <3> QED BY <2>1, <3>3 DEF Items
  <2> QED BY <1>2, <2>1, <2>2 DEF Decode, Skip
<1> QED BY <1>3, <1>4

-----------------------------------------------------------------------------
(* Part 4: types.                                                          *)
StreamTypes ==
  /\ peer \in [Client -> {"sends", "silent", "gone"}]
  /\ errored \in [Client -> BOOLEAN] /\ torn \in [Client -> BOOLEAN]
  /\ wire \in [Client -> Seq(Tokens)] /\ buf \in [Client -> Seq(Tokens)]
  /\ frame \in [Client -> Seq(Word)] /\ out \in [Client -> Answers]
  /\ asked = [c \in Client |-> asked[c]] /\ \A c \in Client : asked[c] \in Seq(Menu[c])
  /\ replies \in [Client -> Seq(Answers \cup {"closing"})]

ControlTypes ==
  /\ AtOK /\ told \in [Client -> BOOLEAN]
  /\ stage \in {"accept", "backoff", "linger", "ended"}
  /\ stage = "ended" => \A c \in Client : at[c] \in Ended
  /\ active \in Nat

LEMMA TokensOf ==
  ASSUME NEW c \in Client, NEW r \in Menu[c]
  PROVE  r.tokens \in Seq(Tokens)
  BY MenuAssumption DEF WholeRequest

LEMMA ReplyType == ASSUME NEW items PROVE Reply(items) \in Answers \ {"none"}
  BY DEF Reply, Answers

LEMMA AdvancedType ==
  ASSUME StreamTypes, NEW c \in Client
  PROVE  Advanced(c) \in Seq(Tokens)
<1>1. buf[c] \in Seq(Tokens) /\ Decode(buf[c]).used \in 0 .. Len(buf[c])
  BY DecodeType DEF StreamTypes
<1> QED BY <1>1 DEF Advanced

LEMMA DropTypes ==
  ASSUME StreamTypes, NEW ended \in SUBSET Client, Drop(ended)
  PROVE  StreamTypes'
<1> USE DEF Drop, StreamTypes
<1>1. /\ peer' \in [Client -> {"sends", "silent", "gone"}]
      /\ errored' \in [Client -> BOOLEAN] /\ torn' \in [Client -> BOOLEAN]
  OBVIOUS
<1>2. wire' \in [Client -> Seq(Tokens)] /\ buf' \in [Client -> Seq(Tokens)]
  OBVIOUS
<1>3. frame' \in [Client -> Seq(Word)] /\ out' \in [Client -> Answers]
  BY DEF Answers
<1>4. asked' = [c \in Client |-> asked'[c]] /\ \A c \in Client : asked'[c] \in Seq(Menu[c])
  <2>1. \A c \in Client : asked'[c] = asked[c] \/ asked'[c] = <<>>
    OBVIOUS
  <2>2. \A c \in Client : asked[c] \in Seq(Menu[c]) /\ <<>> \in Seq(Menu[c])
    OBVIOUS
  <2>3. asked' = [c \in Client |-> asked'[c]]
    OBVIOUS
  <2> QED BY <2>1, <2>2, <2>3
<1>5. replies' \in [Client -> Seq(Answers \cup {"closing"})]
  OBVIOUS
<1> QED BY <1>1, <1>2, <1>3, <1>4, <1>5

LEMMA GotTypes ==
  ASSUME StreamTypes, NEW c \in Client, NEW reply \in Answers \cup {"closing"}, Got(c, reply)
  PROVE  replies' \in [Client -> Seq(Answers \cup {"closing"})]
  BY DEF Got, StreamTypes

LEMMA ClientKeepsTypes ==
  ASSUME StreamTypes, NEW c \in Client, Ask(c) \/ StopSending(c) \/ Leave(c)
  PROVE  StreamTypes'
<1> USE DEF framed, work
<1>1. CASE Ask(c)
  <2>1. PICK r \in Menu[c] : /\ asked' = [asked EXCEPT ![c] = Append(@, r)]
                             /\ wire' = [wire EXCEPT ![c] = @ \o r.tokens]
    BY <1>1 DEF Ask
  <2>2. wire' \in [Client -> Seq(Tokens)]
    <3>1. wire[c] \o r.tokens \in Seq(Tokens)
      BY TokensOf DEF StreamTypes
    <3> QED BY <2>1, <3>1 DEF StreamTypes
  <2>3. asked' = [d \in Client |-> asked'[d]] /\ \A d \in Client : asked'[d] \in Seq(Menu[d])
    <3>1. Append(asked[c], r) \in Seq(Menu[c])
      BY DEF StreamTypes
    <3> QED BY <2>1, <3>1 DEF StreamTypes
  <2> QED BY <1>1, <2>2, <2>3 DEF Ask, StreamTypes
<1>2. CASE StopSending(c)
  <2>1. PICK r \in Menu[c] : \E n \in 0 .. Len(r.tokens) - 1 :
          /\ wire' = [wire EXCEPT ![c] = @ \o SubSeq(r.tokens, 1, n)]
          /\ torn' = [torn EXCEPT ![c] = n > 0]
    BY <1>2 DEF StopSending
  <2>2. PICK n \in 0 .. Len(r.tokens) - 1 :
          /\ wire' = [wire EXCEPT ![c] = @ \o SubSeq(r.tokens, 1, n)]
          /\ torn' = [torn EXCEPT ![c] = n > 0]
    BY <2>1
  <2>3. wire[c] \o SubSeq(r.tokens, 1, n) \in Seq(Tokens)
    BY TokensOf DEF StreamTypes
  <2>4. wire' \in [Client -> Seq(Tokens)]
    BY <2>2, <2>3 DEF StreamTypes
  <2>5. torn' \in [Client -> BOOLEAN]
    BY <2>2 DEF StreamTypes
  <2>6. peer' \in [Client -> {"sends", "silent", "gone"}]
    BY <1>2 DEF StopSending, StreamTypes
  <2> QED BY <1>2, <2>4, <2>5, <2>6 DEF StopSending, StreamTypes
<1>3. CASE Leave(c)
  <2>1. asked' = [d \in Client |-> asked'[d]] /\ \A d \in Client : asked'[d] \in Seq(Menu[d])
    <3>1. \A d \in Client : asked'[d] = asked[d] \/ asked'[d] = <<>>
      BY <1>3 DEF Leave, StreamTypes
    <3>2. \A d \in Client : asked[d] \in Seq(Menu[d]) /\ <<>> \in Seq(Menu[d])
      BY DEF StreamTypes
    <3>3. asked' = [d \in Client |-> asked'[d]]
      BY <1>3 DEF Leave, StreamTypes
    <3> QED BY <3>1, <3>2, <3>3
  <2>2. replies' \in [Client -> Seq(Answers \cup {"closing"})]
    BY <1>3 DEF Leave, StreamTypes
  <2> QED BY <1>3, <2>1, <2>2 DEF Leave, StreamTypes
<1> QED BY <1>1, <1>2, <1>3

LEMMA TaskKeepsTypes ==
  ASSUME StreamTypes, NEW c \in Client, Task(c)
  PROVE  StreamTypes'
<1> USE DEF framed, work, stream, history
<1>1. CASE ReadMore(c)
  <2>1. PICK n \in 1 .. Len(wire[c]) :
          /\ buf' = [buf EXCEPT ![c] = Advanced(c) \o SubSeq(wire[c], 1, n)]
          /\ wire' = [wire EXCEPT ![c] = SubSeq(@, n + 1, Len(@))]
    BY <1>1 DEF ReadMore
  <2>2. wire[c] \in Seq(Tokens)
    BY DEF StreamTypes
  <2>3. SubSeq(wire[c], 1, n) \in Seq(Tokens) /\ SubSeq(wire[c], n + 1, Len(wire[c])) \in Seq(Tokens)
    BY <2>2
  <2>4. Advanced(c) \o SubSeq(wire[c], 1, n) \in Seq(Tokens)
    BY <2>3, AdvancedType
  <2>5. buf' \in [Client -> Seq(Tokens)] /\ wire' \in [Client -> Seq(Tokens)]
    BY <2>1, <2>3, <2>4 DEF StreamTypes
  <2> QED BY <1>1, <2>5 DEF ReadMore, StreamTypes
<1>2. CASE NextFrame(c)
  <2>1. buf[c] \in Seq(Tokens) /\ Decode(buf[c]).items \in Seq(Word)
    BY DecodeType DEF StreamTypes
  <2>2. buf' \in [Client -> Seq(Tokens)]
    BY <1>2, AdvancedType DEF NextFrame, StreamTypes
  <2>3. frame' \in [Client -> Seq(Word)] /\ out' \in [Client -> Answers]
    BY <1>2, <2>1 DEF NextFrame, StreamTypes, Answer, Answers
  <2> QED BY <1>2, <2>2, <2>3 DEF NextFrame, StreamTypes
<1>3. CASE ProtocolError(c)
  BY <1>3 DEF ProtocolError, Answer, Answers, StreamTypes
<1>4. CASE EndOfStream(c)
  BY <1>4 DEF EndOfStream, StreamTypes
<1>5. CASE Panic(c) \/ Close(c)
  BY <1>5, DropTypes DEF Panic, Close
<1>6. CASE SayGoodbye(c)
  <2>1. replies' \in [Client -> Seq(Answers \cup {"closing"})]
    BY <1>6, GotTypes DEF SayGoodbye
  <2> QED BY <1>6, <2>1 DEF SayGoodbye, StreamTypes
<1>7. CASE CountTotal(c) \/ CountName(c) \/ CountLatency(c) \/ CountBucket(c)
  BY <1>7 DEF CountTotal, CountName, CountLatency, CountBucket, StreamTypes
<1>8. CASE Execute(c)
  <2>1. out' \in [Client -> Answers]
    BY <1>8, ReplyType DEF Execute, StreamTypes
  <2> QED BY <1>8, <2>1 DEF Execute, StreamTypes
<1>9. CASE Snapshot(c)
  BY <1>9 DEF Snapshot, ReadCounter, StreamTypes
<1>10. CASE Send(c)
  <2>1. replies' \in [Client -> Seq(Answers \cup {"closing"})]
    BY <1>10, GotTypes DEF Send, StreamTypes
  <2>2. frame' \in [Client -> Seq(Word)] /\ out' \in [Client -> Answers]
    BY <1>10 DEF Send, StreamTypes, Answers
  <2> QED BY <1>10, <2>1, <2>2 DEF Send, StreamTypes
<1> QED BY <1>1, <1>2, <1>3, <1>4, <1>5, <1>6, <1>7, <1>8, <1>9, <1>10 DEF Task

LEMMA StepKeepsTypes == ASSUME StreamTypes, [Next]_vars PROVE StreamTypes'
<1>1. CASE Exit
  BY <1>1, DropTypes DEF Exit
<1>2. CASE AcceptFails \/ TryAgain \/ Interrupt \/ (\E c \in Client : Accept(c)) \/ UNCHANGED vars
  <2>1. UNCHANGED <<peer, wire, buf, errored, frame, out, asked, torn, replies>>
    BY <1>2 DEF AcceptFails, TryAgain, Interrupt, Accept, vars, stream, framed, work, history
  <2> QED BY <2>1 DEF StreamTypes
<1> QED BY <1>1, <1>2, ClientKeepsTypes, TaskKeepsTypes DEF Next

LEMMA EndedDoNothing ==
  ASSUME NEW c \in Client, at[c] \in Ended
  PROVE  ~Task(c)
  BY DEF Ended, Task, ReadMore, NextFrame, ProtocolError, EndOfStream, Panic, SayGoodbye, CountTotal,
         CountName, Execute, Snapshot, ReadCounter, CountLatency, CountBucket, Send, Close, At, Polls, AtEnd

LEMMA TaskKeepsStage ==
  ASSUME NEW c \in Client, Task(c)
  PROVE  stage' = stage
  BY DEF Task, ReadMore, NextFrame, ProtocolError, EndOfStream, Panic, SayGoodbye, CountTotal,
         CountName, Execute, Snapshot, ReadCounter, CountLatency, CountBucket, Send, Close

LEMMA ToldType == ASSUME told \in [Client -> BOOLEAN], [Next]_vars PROVE told' \in [Client -> BOOLEAN]
<1>1. ASSUME NEW c \in Client, Task(c) PROVE told' \in [Client -> BOOLEAN]
  BY <1>1 DEF Task, ReadMore, NextFrame, ProtocolError, EndOfStream, Panic, SayGoodbye, CountTotal,
     CountName, Execute, Snapshot, ReadCounter, CountLatency, CountBucket, Send, Close, Drop
<1>2. CASE Interrupt
  <2>1. told' = [c \in Client |-> at[c] \in Live]
    BY <1>2 DEF Interrupt
  <2>2. \A c \in Client : (at[c] \in Live) \in BOOLEAN
    OBVIOUS
  <2> HIDE DEF Live
  <2> QED BY <2>1, <2>2
<1>3. CASE Exit
  BY <1>3 DEF Exit, Drop
<1>4. CASE \/ AcceptFails \/ TryAgain \/ UNCHANGED vars
           \/ \E c \in Client : Accept(c) \/ Ask(c) \/ StopSending(c) \/ Leave(c)
  BY <1>4 DEF AcceptFails, TryAgain, Accept, Ask, StopSending, Leave, vars
<1> QED BY <1>1, <1>2, <1>3, <1>4 DEF Next

LEMMA StepKeepsControl ==
  ASSUME GaugeInv, GaugeInv', ControlTypes, [Next]_vars
  PROVE  ControlTypes'
<1>1. AtOK' /\ told' \in [Client -> BOOLEAN]
  BY ToldType DEF GaugeInv, ControlTypes
<1>2. CASE stage = "ended"
  <2>1. \A c \in Client : ~Task(c) /\ at[c] \notin Live /\ at[c] # "away"
    BY <1>2, EndedDoNothing DEF ControlTypes, Ended, Live
  <2>2. UNCHANGED <<stage, at, active>>
    BY <1>2, <2>1 DEF Next, vars, AcceptFails, TryAgain, Interrupt, Exit, Accept, Ask, StopSending,
                      Leave, Sending
  <2> QED BY <1>1, <1>2, <2>2 DEF ControlTypes
<1>3. CASE Exit
  BY <1>1, <1>3 DEF Exit, ControlTypes, Ended
<1>4. CASE stage # "ended" /\ ~Exit
  <2>1. stage' \in {"accept", "backoff", "linger"}
    BY <1>4, TaskKeepsStage DEF ControlTypes, Next, vars, AcceptFails, TryAgain, Interrupt, Accept, Ask,
                                StopSending, Leave
  <2>2. active' = Cardinality(Served') + Cardinality(Lost')
    BY <2>1 DEF GaugeInv, GaugeCountsConnections
  <2>3. IsFiniteSet(Served') /\ IsFiniteSet(Lost')
    BY ClientAssumption, FS_Subset DEF Served, Lost
  <2>4. Cardinality(Served') \in Nat /\ Cardinality(Lost') \in Nat
    BY <2>3, FS_CardinalityType
  <2> QED BY <1>1, <2>1, <2>2, <2>4 DEF ControlTypes
<1> QED BY <1>2, <1>3, <1>4

ServerInv == GaugeInv /\ SeenInv /\ CountsInv /\ StreamTypes /\ ControlTypes

LEMMA ServerStarts == Init => ServerInv
<1> SUFFICES ASSUME Init PROVE ServerInv
  OBVIOUS
<1>1. StreamTypes
  <2>1. asked = [c \in Client |-> asked[c]] /\ \A c \in Client : asked[c] \in Seq(Menu[c])
    <3>1. asked = [c \in Client |-> asked[c]] /\ \A c \in Client : asked[c] = <<>>
      BY DEF Init
    <3>2. \A c \in Client : <<>> \in Seq(Menu[c])
      OBVIOUS
    <3> QED BY <3>1, <3>2
  <2> QED BY <2>1 DEF Init, StreamTypes, Answers
<1>2. ControlTypes
  BY DEF Init, ControlTypes, AtOK, Labels
<1> QED BY <1>1, <1>2, GaugeStarts, CountsStart DEF ServerInv

LEMMA ServerGoesOn == ServerInv /\ [Next]_vars => ServerInv'
<1> SUFFICES ASSUME ServerInv, [Next]_vars PROVE ServerInv'
  OBVIOUS
<1>1. GaugeInv'
  BY GaugeStep DEF ServerInv
<1>2. SeenInv' /\ CountsInv'
  BY CountsStep DEF ServerInv
<1>3. StreamTypes' /\ ControlTypes'
  BY <1>1, StepKeepsTypes, StepKeepsControl DEF ServerInv
<1> QED BY <1>1, <1>2, <1>3 DEF ServerInv

(* The types of everything the server keeps, for any number of clients and     *)
(* any requests: the buffers hold tokens, a frame holds words, the counters *)
(* are never negative, not even the gauge of connections.                  *)
THEOREM ServerTypeCorrect == Spec => []TypeOK
<1>1. ServerInv => TypeOK
  BY DEF ServerInv, SeenInv, CountsInv, StreamTypes, ControlTypes, AtOK, Labels, TypeOK
<1> QED BY <1>1, ServerStarts, ServerGoesOn, PTL DEF Spec

-----------------------------------------------------------------------------
(* Part 5: the answers.  Of a stream s, the requests from number k + 1 on     *)
(* stand one behind the other, cut[i] is where request i ends, and behind   *)
(* the last is nothing, or a piece of one more.                            *)
Stands(s, from, tokens) ==
  from + Len(tokens) <= Len(s) /\ \A p \in 1 .. Len(tokens) : s[from + p] = tokens[p]

EndsWell(s, from, piece, menu) ==
  IF piece
  THEN \E r \in menu : /\ from < Len(s) /\ Len(s) < from + Len(r.tokens)
                       /\ \A p \in 1 .. Len(s) - from : s[from + p] = r.tokens[p]
  ELSE from = Len(s)

Cuts(cut, s, requests, k, piece, menu) ==
  /\ cut[k] = 0 /\ \A i \in Nat : cut[i] \in Nat
  /\ \A i \in k + 1 .. Len(requests) :
       cut[i] = cut[i - 1] + Len(requests[i].tokens) /\ Stands(s, cut[i - 1], requests[i].tokens)
  /\ EndsWell(s, cut[Len(requests)], piece, menu)

Holds(s, requests, k, piece, menu) ==
  k <= Len(requests) /\ \E cut : Cuts(cut, s, requests, k, piece, menu)

IsMenu(menu) == \A r \in menu : WholeRequest(r)

LEMMA Longer ==
  ASSUME NEW s \in Seq(Tokens), NEW more \in Seq(Tokens)
  PROVE  /\ s \o more \in Seq(Tokens) /\ Len(s) \in Nat /\ Len(more) \in Nat
         /\ Len(s \o more) = Len(s) + Len(more)
         /\ \A p \in 1 .. Len(s) : (s \o more)[p] = s[p]
         /\ \A p \in 1 .. Len(more) : (s \o more)[Len(s) + p] = more[p]
  OBVIOUS

LEMMA StandsLonger ==
  ASSUME NEW s \in Seq(Tokens), NEW more \in Seq(Tokens), NEW from \in Nat,
         NEW tokens \in Seq(Tokens), Stands(s, from, tokens)
  PROVE  Stands(s \o more, from, tokens)
<1>1. Len(s \o more) = Len(s) + Len(more) /\ \A p \in 1 .. Len(s) : (s \o more)[p] = s[p]
  BY Longer
<1>2. \A p \in 1 .. Len(tokens) : from + p \in 1 .. Len(s)
  BY DEF Stands
<1> QED BY <1>1, <1>2 DEF Stands

(* One more whole request *)
LEMMA HoldsRequest ==
  ASSUME NEW menu, IsMenu(menu), NEW s \in Seq(Tokens), NEW requests \in Seq(menu), NEW k \in Nat,
         NEW r \in menu, Holds(s, requests, k, FALSE, menu)
  PROVE  Holds(s \o r.tokens, Append(requests, r), k, FALSE, menu)
<1>1. PICK cut : Cuts(cut, s, requests, k, FALSE, menu)
  BY DEF Holds
<1> DEFINE n == Len(requests)
           t == s \o r.tokens
           longer == Append(requests, r)
           new == [i \in Nat |-> IF i = n + 1 THEN cut[n] + Len(r.tokens) ELSE cut[i]]
<1>2. r.tokens \in Seq(Tokens)
  BY DEF IsMenu, WholeRequest
<1>3. /\ Len(t) = Len(s) + Len(r.tokens) /\ \A p \in 1 .. Len(r.tokens) : t[Len(s) + p] = r.tokens[p]
      /\ Len(s) \in Nat /\ Len(r.tokens) \in Nat
  BY <1>2
<1>4. n \in Nat /\ k <= n
  BY DEF Holds
<1>5. /\ Len(longer) = n + 1 /\ longer[n + 1] = r
      /\ \A i \in 1 .. n : longer[i] = requests[i]
  OBVIOUS
<1>6. \A i \in 1 .. n : requests[i].tokens \in Seq(Tokens)
  BY DEF IsMenu, WholeRequest
<1>7. \A i \in k + 1 .. n : cut[i] = cut[i - 1] + Len(requests[i].tokens)
                            /\ Stands(s, cut[i - 1], requests[i].tokens)
  BY <1>1 DEF Cuts
<1>8. cut[n] = Len(s) /\ cut[k] = 0 /\ \A i \in Nat : cut[i] \in Nat
  BY <1>1 DEF Cuts, EndsWell
<1> HIDE DEF n, longer
<1>9. new[n + 1] = Len(s) + Len(r.tokens) /\ \A i \in 0 .. n : new[i] = cut[i]
  BY <1>4, <1>8
<1>10. \A i \in Nat : new[i] \in Nat
  BY <1>3, <1>4, <1>8
<1>11. \A i \in k + 1 .. n : Stands(t, cut[i - 1], requests[i].tokens)
  <2> TAKE i \in k + 1 .. n
  <2>1. i \in 1 .. n /\ i - 1 \in Nat
    BY <1>4
  <2> QED BY <1>2, <1>6, <1>7, <1>8, <2>1, StandsLonger
<1>12. Stands(t, Len(s), r.tokens)
  BY <1>3 DEF Stands
<1> HIDE DEF new, t
<1>13. ASSUME NEW i \in k + 1 .. n + 1
       PROVE  new[i] = new[i - 1] + Len(longer[i].tokens) /\ Stands(t, new[i - 1], longer[i].tokens)
  <2>1. CASE i = n + 1
    <3>1. longer[i] = r /\ new[i - 1] = Len(s) /\ new[i] = Len(s) + Len(r.tokens)
      BY <1>4, <1>5, <1>8, <1>9, <2>1
    <3> QED BY <1>12, <3>1
  <2>2. CASE i # n + 1
    <3>1. i \in k + 1 .. n /\ i \in 1 .. n /\ i \in 0 .. n /\ i - 1 \in 0 .. n
      BY <1>4, <2>2
    <3>2. longer[i] = requests[i] /\ new[i] = cut[i] /\ new[i - 1] = cut[i - 1]
      BY <1>5, <1>9, <3>1
    <3> QED BY <1>7, <1>11, <3>1, <3>2
  <2> QED BY <2>1, <2>2
<1>14. EndsWell(t, new[Len(longer)], FALSE, menu)
  BY <1>3, <1>5, <1>9 DEF EndsWell
<1>15. new[k] = 0
  BY <1>4, <1>8, <1>9
<1>16. Cuts(new, t, longer, k, FALSE, menu)
  BY <1>5, <1>10, <1>13, <1>14, <1>15 DEF Cuts
<1>17. k <= Len(longer)
  BY <1>4, <1>5
<1>18. Holds(t, longer, k, FALSE, menu)
  BY <1>16, <1>17 DEF Holds
<1> QED BY <1>18 DEF t, longer

(* A piece of one more, or nothing *)
LEMMA HoldsPiece ==
  ASSUME NEW menu, IsMenu(menu), NEW s \in Seq(Tokens), NEW requests \in Seq(menu), NEW k \in Nat,
         NEW r \in menu, NEW n \in 0 .. Len(r.tokens) - 1, Holds(s, requests, k, FALSE, menu)
  PROVE  Holds(s \o SubSeq(r.tokens, 1, n), requests, k, n > 0, menu)
<1>1. PICK cut : Cuts(cut, s, requests, k, FALSE, menu)
  BY DEF Holds
<1> DEFINE piece == SubSeq(r.tokens, 1, n)
           t == s \o piece
<1>2. r.tokens \in Seq(Tokens) /\ k <= Len(requests)
  BY DEF IsMenu, WholeRequest, Holds
<1>3. piece \in Seq(Tokens) /\ Len(piece) = n /\ \A p \in 1 .. n : piece[p] = r.tokens[p]
  BY <1>2
<1> HIDE DEF piece
<1>4. /\ Len(t) = Len(s) + n /\ \A p \in 1 .. n : t[Len(s) + p] = r.tokens[p]
      /\ Len(s) \in Nat
  <2>1. Len(t) = Len(s) + Len(piece) /\ \A p \in 1 .. Len(piece) : t[Len(s) + p] = piece[p]
    BY <1>3
  <2> HIDE DEF t
  <2> QED BY <1>3, <2>1
<1>5. \A i \in 1 .. Len(requests) : requests[i].tokens \in Seq(Tokens)
  BY DEF IsMenu, WholeRequest
<1>6. /\ cut[Len(requests)] = Len(s) /\ cut[k] = 0 /\ \A i \in Nat : cut[i] \in Nat
      /\ \A i \in k + 1 .. Len(requests) :
           cut[i] = cut[i - 1] + Len(requests[i].tokens) /\ Stands(s, cut[i - 1], requests[i].tokens)
  BY <1>1 DEF Cuts, EndsWell
<1>7. ASSUME NEW i \in k + 1 .. Len(requests)
      PROVE  Stands(t, cut[i - 1], requests[i].tokens)
  <2>1. i \in 1 .. Len(requests) /\ i - 1 \in Nat
    OBVIOUS
  <2> QED BY <1>3, <1>5, <1>6, <2>1, StandsLonger
<1> HIDE DEF t
<1>8. EndsWell(t, Len(s), n > 0, menu)
  <2>1. CASE n > 0
    <3>1. /\ Len(s) < Len(t) /\ Len(t) < Len(s) + Len(r.tokens)
          /\ \A p \in 1 .. Len(t) - Len(s) : t[Len(s) + p] = r.tokens[p]
      BY <1>2, <1>4, <2>1
    <3> QED BY <2>1, <3>1 DEF EndsWell
  <2>2. CASE ~(n > 0)
    <3>1. Len(s) = Len(t)
      BY <1>4, <2>2
    <3> QED BY <2>2, <3>1 DEF EndsWell
  <2> QED BY <2>1, <2>2
<1>9. Cuts(cut, t, requests, k, n > 0, menu)
  BY <1>6, <1>7, <1>8 DEF Cuts
<1>10. Holds(t, requests, k, n > 0, menu)
  BY <1>2, <1>9 DEF Holds
<1> QED BY <1>10 DEF t, piece

(* What stands at the beginning of the stream is what is decoded. *)
LEMMA HoldsFirst ==
  ASSUME NEW menu, IsMenu(menu), NEW s \in Seq(Tokens), NEW requests \in Seq(menu), NEW k \in Nat,
         NEW piece \in BOOLEAN, Holds(s, requests, k, piece, menu)
  PROVE  /\ k < Len(requests) =>
              Decode(s) = Decode(requests[k + 1].tokens) /\ WholeRequest(requests[k + 1])
         /\ k = Len(requests) => Decode(s).st # "ok"
         /\ k = Len(requests) /\ ~piece => s = <<>>
<1>1. PICK cut : Cuts(cut, s, requests, k, piece, menu)
  BY DEF Holds
<1>2. ASSUME k < Len(requests)
      PROVE  Decode(s) = Decode(requests[k + 1].tokens) /\ WholeRequest(requests[k + 1])
  <2> DEFINE tokens == requests[k + 1].tokens
  <2>1. k + 1 \in k + 1 .. Len(requests) /\ requests[k + 1] \in menu /\ (k + 1) - 1 = k
    BY <1>2
  <2>2. tokens \in Seq(Tokens) /\ Decode(tokens).st # "more" /\ WholeRequest(requests[k + 1])
    BY <2>1 DEF IsMenu, WholeRequest
  <2>3. Stands(s, 0, tokens)
    BY <1>1, <2>1 DEF Cuts
  <2>4. Len(tokens) <= Len(s) /\ \A p \in 1 .. Len(tokens) : s[p] = tokens[p]
    BY <2>2, <2>3 DEF Stands
  <2> HIDE DEF tokens
  <2>5. Decode(s) = Decode(tokens)
    BY <2>2, <2>4, DecodeExtends
  <2> QED BY <2>2, <2>5 DEF tokens
<1>3. ASSUME k = Len(requests), ~piece PROVE s = <<>>
  BY <1>1, <1>3 DEF Cuts, EndsWell
<1>4. ASSUME k = Len(requests), piece PROVE Decode(s).st # "ok"
  <2>1. PICK r \in menu : /\ Len(s) < Len(r.tokens)
                          /\ \A p \in 1 .. Len(s) : s[p] = r.tokens[p]
    BY <1>1, <1>4 DEF Cuts, EndsWell
  <2>2. /\ r.tokens \in Seq(Tokens)
        /\ Decode(r.tokens).st = "ok" => Decode(r.tokens).used = Len(r.tokens)
    BY DEF IsMenu, WholeRequest
  <2>3. SUFFICES ASSUME Decode(s).st = "ok" PROVE FALSE
    OBVIOUS
  <2>4. Decode(r.tokens) = Decode(s)
    BY <2>1, <2>2, <2>3, DecodeExtends
  <2>5. Decode(s).used \in 0 .. Len(s)
    BY DecodeType
  <2> QED BY <2>1, <2>2, <2>3, <2>4, <2>5
<1>5. <<>> \in Seq(Tokens) => Decode(<<>>).st = "more"
  BY DecodeType
<1>6. k = Len(requests) => Decode(s).st # "ok"
  BY <1>3, <1>4, <1>5
<1> QED BY <1>2, <1>3, <1>6

LEMMA ShortOf ==
  ASSUME NEW n \in Nat, NEW from \in Nat, NEW left \in Nat, NEW one \in Nat,
         from >= n, from < n + left, n + left < from + one
  PROVE  from - n < left /\ left < (from - n) + one
  OBVIOUS

(* The first request is taken from the stream. *)
LEMMA HoldsRest ==
  ASSUME NEW menu, IsMenu(menu), NEW s \in Seq(Tokens), NEW requests \in Seq(menu), NEW k \in Nat,
         NEW piece \in BOOLEAN, Holds(s, requests, k, piece, menu), k < Len(requests),
         NEW rest \in Seq(Tokens), NEW n \in Nat, n = Len(requests[k + 1].tokens),
         Len(s) = n + Len(rest), \A p \in 1 .. Len(rest) : rest[p] = s[n + p]
  PROVE  Holds(rest, requests, k + 1, piece, menu)
<1>1. PICK cut : Cuts(cut, s, requests, k, piece, menu)
  BY DEF Holds
<1> DEFINE last == Len(requests)
           new == [i \in Nat |-> IF cut[i] >= n THEN cut[i] - n ELSE 0]
           T == {i \in k + 1 .. last : cut[i] >= n}
<1>2. \A i \in k + 1 .. last : /\ cut[i] = cut[i - 1] + Len(requests[i].tokens)
                               /\ Stands(s, cut[i - 1], requests[i].tokens)
  BY <1>1 DEF Cuts
<1>3. \A i \in 1 .. last : requests[i].tokens \in Seq(Tokens) /\ Len(requests[i].tokens) \in Nat
  BY DEF IsMenu, WholeRequest
<1>4. cut[k] = 0 /\ (\A i \in Nat : cut[i] \in Nat) /\ EndsWell(s, cut[last], piece, menu)
  BY <1>1 DEF Cuts
<1>5. last \in Nat /\ k < last
  OBVIOUS
<1>6. Len(s) \in Nat /\ Len(rest) \in Nat /\ Len(s) = n + Len(rest)
  OBVIOUS
<1> HIDE DEF last
<1>7. cut[k + 1] = n
  BY <1>2, <1>4, <1>5
<1>8. \A i \in k + 1 .. last : i \in T
  <2>1. k + 1 \in T
    BY <1>5, <1>7
  <2>2. ASSUME NEW i \in k + 1 .. last - 1, i \in T PROVE i + 1 \in T
    <3>1. i + 1 \in k + 1 .. last /\ i + 1 \in 1 .. last /\ (i + 1) - 1 = i /\ i \in Nat
      BY <1>5
    <3> DEFINE len == Len(requests[i + 1].tokens)
    <3>2. cut[i + 1] = cut[i] + len /\ len \in Nat
      BY <1>2, <1>3, <3>1
    <3> HIDE DEF len, T
    <3>3. cut[i] >= n /\ cut[i] \in Nat
      BY <1>4, <2>2, <3>1 DEF T
    <3>4. cut[i + 1] >= n
      BY <3>2, <3>3
    <3> QED BY <3>1, <3>4 DEF T
  <2> HIDE DEF T
  <2>3. \A i \in k + 1 .. last - 1 : i \in T => i + 1 \in T
    BY <2>2
  <2>4. k + 1 \in Nat /\ last \in Nat
    BY <1>5
  <2> QED BY <2>1, <2>3, <2>4, InductionFrom
<1>9. \A i \in k + 1 .. last : cut[i] >= n /\ cut[i] \in Nat /\ new[i] = cut[i] - n
  BY <1>4, <1>5, <1>8
<1>10. \A i \in Nat : new[i] \in Nat
  BY <1>4
<1> HIDE DEF new, T
<1>11. ASSUME NEW i \in (k + 1) + 1 .. last
      PROVE  new[i] = new[i - 1] + Len(requests[i].tokens) /\ Stands(rest, new[i - 1], requests[i].tokens)
  <2> DEFINE tokens == requests[i].tokens
             from == cut[i - 1]
  <2>1. i \in k + 1 .. last /\ i - 1 \in k + 1 .. last /\ i \in 1 .. last
    BY <1>5
  <2>2. cut[i] = from + Len(tokens) /\ Stands(s, from, tokens) /\ Len(tokens) \in Nat
    BY <1>2, <1>3, <2>1
  <2>3. new[i] = cut[i] - n /\ new[i - 1] = from - n /\ from >= n /\ from \in Nat
    BY <1>9, <2>1
  <2> HIDE DEF tokens, from
  <2>4. from + Len(tokens) <= Len(s) /\ \A p \in 1 .. Len(tokens) : s[from + p] = tokens[p]
    BY <2>2 DEF Stands
  <2>5. (from - n) + Len(tokens) <= Len(rest)
    BY <1>6, <2>2, <2>3, <2>4
  <2>6. ASSUME NEW p \in 1 .. Len(tokens) PROVE rest[(from - n) + p] = tokens[p]
    <3>1. (from - n) + p \in 1 .. Len(rest) /\ n + ((from - n) + p) = from + p
      BY <1>6, <2>2, <2>3, <2>5
    <3> QED BY <2>4, <3>1
  <2>7. Stands(rest, new[i - 1], tokens)
    BY <2>3, <2>5, <2>6 DEF Stands
  <2>8. new[i] = new[i - 1] + Len(tokens)
    BY <2>2, <2>3
  <2> QED BY <2>7, <2>8 DEF tokens
<1>12. EndsWell(rest, new[last], piece, menu)
  <2> DEFINE from == cut[last]
  <2>1. EndsWell(s, from, piece, menu)
    BY <1>4
  <2>2. new[last] = from - n /\ from >= n /\ from \in Nat
    BY <1>5, <1>9
  <2> HIDE DEF from
  <2>3. CASE ~piece
    <3>1. from - n = Len(rest)
      BY <1>6, <2>1, <2>2, <2>3 DEF EndsWell
    <3> QED BY <2>2, <2>3, <3>1 DEF EndsWell
  <2>4. CASE piece
    <3>1. PICK r \in menu : /\ from < Len(s) /\ Len(s) < from + Len(r.tokens)
                            /\ \A p \in 1 .. Len(s) - from : s[from + p] = r.tokens[p]
      BY <2>1, <2>4 DEF EndsWell
    <3>2. Len(r.tokens) \in Nat
      BY DEF IsMenu, WholeRequest
    <3>3. from - n < Len(rest) /\ Len(rest) < (from - n) + Len(r.tokens)
      <4>1. from < n + Len(rest) /\ n + Len(rest) < from + Len(r.tokens)
        BY <1>6, <3>1
      <4> QED BY <1>6, <2>2, <3>2, <4>1, ShortOf
    <3>4. ASSUME NEW p \in 1 .. Len(rest) - (from - n) PROVE rest[(from - n) + p] = r.tokens[p]
      <4>1. (from - n) + p \in 1 .. Len(rest) /\ n + ((from - n) + p) = from + p /\ p \in 1 .. Len(s) - from
        BY <1>6, <2>2, <3>3
      <4> QED BY <3>1, <4>1
    <3>5. EndsWell(rest, from - n, piece, menu)
      BY <2>4, <3>3, <3>4 DEF EndsWell
    <3> QED BY <2>2, <3>5
  <2> QED BY <2>3, <2>4
<1>13. new[k + 1] = 0
  <2>1. k + 1 \in k + 1 .. last
    BY <1>5
  <2>2. new[k + 1] = cut[k + 1] - n
    BY <1>9, <2>1
  <2> QED BY <1>7, <2>2
<1>14. Cuts(new, rest, requests, k + 1, piece, menu)
  BY <1>10, <1>11, <1>12, <1>13 DEF Cuts, last
<1>15. k + 1 <= Len(requests)
  OBVIOUS
<1> QED BY <1>14, <1>15 DEF Holds

-----------------------------------------------------------------------------
(* Part 6: the conversation.  What the replies are so far, what the next one  *)
(* will be, and what is still in the stream, wherever the task is.          *)
Handled  == {"count", "name", "execute"}
Executed == {"read_names", "read_buckets", "read_total", "read_latencies", "latency", "bucket", "send"}

IsAnswer(i, reply, requests, piece) ==
  \/ i <= Len(requests) /\ reply = requests[i].answer
  \/ i = Len(requests) + 1 /\ piece /\ reply = "protocol"

Due(c, reply) == IsAnswer(Len(replies[c]) + 1, reply, asked[c], torn[c])

Rests(c, k) == Holds(buf[c] \o wire[c], asked[c], k, torn[c], Menu[c])

SoFar(c) ==
  \A i \in 1 .. Len(replies[c]) :
    \/ IsAnswer(i, replies[c][i], asked[c], torn[c])
    \/ at[c] = "close" /\ i = Len(replies[c]) /\ told[c] /\ replies[c][i] = "closing"

ToCome(c) ==
  /\ at[c] \in Handled => Due(c, Reply(frame[c]))
  /\ at[c] \in Executed => Due(c, out[c])
  /\ at[c] = "poll" /\ ~errored[c] => Rests(c, Len(replies[c]))
  /\ at[c] \in Handled \cup Executed /\ ~errored[c] => Rests(c, Len(replies[c]) + 1)

Conversation(c) ==
  /\ at[c] \in Live /\ peer[c] # "gone" => SoFar(c) /\ ToCome(c)
  /\ at[c] \notin Live \/ peer[c] = "gone" => replies[c] = <<>>
  /\ peer[c] = "sends" => ~torn[c]
  /\ at[c] = "away" => /\ peer[c] = "sends" /\ ~errored[c]
                       /\ buf[c] = <<>> /\ wire[c] = <<>> /\ asked[c] = <<>>

(* What the others do changes nothing of this. *)
Same(c) ==
  /\ at'[c] = at[c] /\ peer'[c] = peer[c] /\ told'[c] = told[c]
  /\ wire'[c] = wire[c] /\ buf'[c] = buf[c] /\ errored'[c] = errored[c]
  /\ frame'[c] = frame[c] /\ out'[c] = out[c]
  /\ asked'[c] = asked[c] /\ torn'[c] = torn[c] /\ replies'[c] = replies[c]

LEMMA SameConversation ==
  ASSUME NEW c \in Client, Conversation(c), Same(c)
  PROVE  Conversation(c)'
<1>1. SoFar(c) => SoFar(c)'
  BY DEF Same, SoFar
<1>2. ToCome(c) => ToCome(c)'
  BY DEF Same, ToCome, Due, Rests
<1> QED BY <1>1, <1>2 DEF Same, Conversation

LEMMA OthersDoNothing ==
  ASSUME StreamTypes, ControlTypes, NEW c \in Client, NEW d \in Client, c # d,
         Accept(d) \/ Ask(d) \/ StopSending(d) \/ Leave(d) \/ Task(d)
  PROVE  Same(c)
<1> USE DEF StreamTypes, ControlTypes, AtOK, framed, work, stream, history, Goto, Same
<1>1. CASE Accept(d)
  BY <1>1 DEF Accept
<1>2. CASE Ask(d)
  BY <1>2 DEF Ask
<1>3. CASE StopSending(d)
  BY <1>3 DEF StopSending
<1>4. CASE Leave(d)
  BY <1>4 DEF Leave
<1>5. CASE ReadMore(d) \/ NextFrame(d) \/ ProtocolError(d) \/ EndOfStream(d)
  BY <1>5 DEF ReadMore, NextFrame, ProtocolError, EndOfStream, Answer, Polls, At, AtEnd
<1>6. CASE Panic(d) \/ Close(d)
  <2>1. Drop({d}) /\ at'[c] = at[c]
    BY <1>6 DEF Panic, Close
  <2>2. c \in Client /\ c \notin {d}
    OBVIOUS
  <2>3. /\ peer'[c] = peer[c] /\ told'[c] = told[c] /\ wire'[c] = wire[c]
        /\ buf'[c] = buf[c] /\ errored'[c] = errored[c] /\ frame'[c] = frame[c]
        /\ out'[c] = out[c] /\ asked'[c] = asked[c] /\ torn'[c] = torn[c]
        /\ replies'[c] = replies[c]
    BY <2>1, <2>2 DEF Drop
  <2> QED BY <2>1, <2>3
<1>7. CASE SayGoodbye(d) \/ Send(d)
  BY <1>7 DEF SayGoodbye, Send, Got
<1>8. CASE CountTotal(d) \/ CountName(d) \/ CountLatency(d) \/ CountBucket(d)
  BY <1>8 DEF CountTotal, CountName, CountLatency, CountBucket
<1>9. CASE Execute(d)
  BY <1>9 DEF Execute
<1>10. CASE Snapshot(d)
  BY <1>10 DEF Snapshot, ReadCounter
<1> QED BY <1>1, <1>2, <1>3, <1>4, <1>5, <1>6, <1>7, <1>8, <1>9, <1>10 DEF Task

LEMMA MenusAre == \A c \in Client : IsMenu(Menu[c])
  BY MenuAssumption DEF IsMenu

(* What is decided in the buffer is decided by the stream. *)
LEMMA BufferDecides ==
  ASSUME StreamTypes, NEW c \in Client, Decode(buf[c]).st # "more"
  PROVE  Decode(buf[c] \o wire[c]) = Decode(buf[c])
<1> DEFINE b == buf[c]
           s == buf[c] \o wire[c]
<1>1. b \in Seq(Tokens) /\ wire[c] \in Seq(Tokens)
  BY DEF StreamTypes
<1>2. s \in Seq(Tokens) /\ Len(b) <= Len(s) /\ \A p \in 1 .. Len(b) : s[p] = b[p]
  <2> DEFINE w == wire[c]
  <2>1. b \in Seq(Tokens) /\ w \in Seq(Tokens) /\ s = b \o w
    BY <1>1
  <2> HIDE DEF b, s, w
  <2> QED BY <2>1, Longer
<1> HIDE DEF b, s
<1>3. Decode(b).st # "more"
  BY DEF b
<1>4. Decode(s) = Decode(b)
  BY <1>1, <1>2, <1>3, DecodeExtends
<1> QED BY <1>4 DEF b, s

LEMMA StreamType ==
  ASSUME StreamTypes, NEW c \in Client
  PROVE  /\ buf[c] \in Seq(Tokens) /\ wire[c] \in Seq(Tokens) /\ buf[c] \o wire[c] \in Seq(Tokens)
         /\ asked[c] \in Seq(Menu[c]) /\ replies[c] \in Seq(Answers \cup {"closing"})
         /\ torn[c] \in BOOLEAN /\ Len(replies[c]) \in Nat
<1>1. buf[c] \in Seq(Tokens) /\ wire[c] \in Seq(Tokens) /\ replies[c] \in Seq(Answers \cup {"closing"})
  BY DEF StreamTypes
<1> QED BY <1>1 DEF StreamTypes

(* In the middle of a conversation: what decoding the buffer means *)
LEMMA WhatIsRead ==
  ASSUME StreamTypes, NEW c \in Client, NEW k \in Nat, Rests(c, k), Decode(buf[c]).st # "more"
  PROVE  /\ k < Len(asked[c]) => /\ Decode(buf[c]) = Decode(asked[c][k + 1].tokens)
                                 /\ WholeRequest(asked[c][k + 1])
         /\ k <= Len(asked[c])
         /\ k = Len(asked[c]) => torn[c] /\ Decode(buf[c]).st # "ok"
<1> DEFINE s == buf[c] \o wire[c]
<1>1. Decode(s) = Decode(buf[c])
  BY BufferDecides
<1>2. s \in Seq(Tokens) /\ asked[c] \in Seq(Menu[c]) /\ torn[c] \in BOOLEAN
  BY StreamType
<1>3. Holds(s, asked[c], k, torn[c], Menu[c])
  BY DEF Rests
<1> HIDE DEF s
<1>4. /\ k < Len(asked[c]) =>
           Decode(s) = Decode(asked[c][k + 1].tokens) /\ WholeRequest(asked[c][k + 1])
      /\ k = Len(asked[c]) => Decode(s).st # "ok"
      /\ k = Len(asked[c]) /\ ~torn[c] => s = <<>>
  BY <1>2, <1>3, MenusAre, HoldsFirst
<1>5. k <= Len(asked[c])
  BY <1>3 DEF Holds
<1>6. Decode(s).st # "more"
  BY <1>1
<1>7. s = <<>> => Decode(s).st = "more"
  BY <1>2, DecodeType
<1> QED BY <1>1, <1>4, <1>5, <1>6, <1>7

(* The end of the stream, with something before it *)
LEMMA WhatIsTorn ==
  ASSUME StreamTypes, NEW c \in Client, NEW k \in Nat, Rests(c, k), Decode(buf[c]).st = "more",
         wire[c] = <<>>, buf[c] # <<>>
  PROVE  k = Len(asked[c]) /\ torn[c]
<1> DEFINE s == buf[c]
<1>1. s \in Seq(Tokens) /\ asked[c] \in Seq(Menu[c]) /\ torn[c] \in BOOLEAN
  BY StreamType
<1>2. s \o <<>> = s
  BY <1>1
<1>3. Holds(s, asked[c], k, torn[c], Menu[c])
  BY <1>2 DEF Rests
<1>4. s # <<>> /\ Decode(s).st = "more"
  OBVIOUS
<1> HIDE DEF s
<1>5. /\ k < Len(asked[c]) =>
           Decode(s) = Decode(asked[c][k + 1].tokens) /\ WholeRequest(asked[c][k + 1])
      /\ k = Len(asked[c]) /\ ~torn[c] => s = <<>>
  BY <1>1, <1>3, MenusAre, HoldsFirst
<1>6. ~(k < Len(asked[c]))
  BY <1>4, <1>5 DEF WholeRequest
<1>7. k <= Len(asked[c]) /\ Len(asked[c]) \in Nat
  BY <1>1, <1>3 DEF Holds
<1> QED BY <1>4, <1>5, <1>6, <1>7

LEMMA Behind ==
  ASSUME NEW s \in Seq(Tokens), NEW t \in Seq(Tokens), NEW more \in Seq(Tokens)
  PROVE  s \o (t \o more) = (s \o t) \o more
  BY ConcatAssociative

(* The conversation goes on where nothing is answered or read. *)
LEMMA Continues ==
  ASSUME NEW c \in Client, Len(replies[c]) \in Nat, SoFar(c), ToCome(c),
         at'[c] = at[c], told'[c] = told[c], errored'[c] = errored[c], frame'[c] = frame[c],
         out'[c] = out[c], replies'[c] = replies[c],
         \A i \in Nat \ {0} : \A reply :
           IsAnswer(i, reply, asked[c], torn[c]) => IsAnswer(i, reply, asked'[c], torn'[c]),
         \A k \in Nat : Rests(c, k) =>
           Holds(buf'[c] \o wire'[c], asked'[c], k, torn'[c], Menu[c])
  PROVE  SoFar(c)' /\ ToCome(c)'
<1>1. SoFar(c)'
  BY DEF SoFar
<1>2. Len(replies[c]) + 1 \in Nat \ {0}
  OBVIOUS
<1>3. ToCome(c)'
  <2>1. at[c] \in Handled => Due(c, Reply(frame[c]))'
    BY <1>2 DEF ToCome, Due
  <2>2. at[c] \in Executed => Due(c, out[c])'
    BY <1>2 DEF ToCome, Due
  <2>3. at[c] = "poll" /\ ~errored[c] => Rests(c, Len(replies[c]))'
    BY DEF ToCome, Rests
  <2>4. at[c] \in Handled \cup Executed /\ ~errored[c] => Rests(c, Len(replies[c]) + 1)'
    BY DEF ToCome, Rests
  <2> QED BY <2>1, <2>2, <2>3, <2>4 DEF ToCome
<1> QED BY <1>1, <1>3

LEMMA AskedIsSpoken ==
  ASSUME StreamTypes, ControlTypes, NEW c \in Client, Ask(c), Conversation(c)
  PROVE  Conversation(c)'
<1> USE DEF framed, work
<1>1. PICK r \in Menu[c] : /\ asked' = [asked EXCEPT ![c] = Append(@, r)]
                           /\ wire' = [wire EXCEPT ![c] = @ \o r.tokens]
  BY DEF Ask
<1>2. asked'[c] = Append(asked[c], r) /\ wire'[c] = wire[c] \o r.tokens
  BY <1>1 DEF StreamTypes
<1>3. /\ at'[c] = at[c] /\ told'[c] = told[c] /\ errored'[c] = errored[c] /\ frame'[c] = frame[c]
      /\ out'[c] = out[c] /\ replies'[c] = replies[c] /\ peer'[c] = peer[c] /\ torn'[c] = torn[c]
      /\ buf'[c] = buf[c]
  BY DEF Ask
<1>4. at[c] \in Live /\ peer[c] = "sends" /\ ~torn[c] /\ SoFar(c) /\ ToCome(c)
  BY DEF Ask, Sending, Conversation
<1>5. asked[c] \in Seq(Menu[c]) /\ Len(replies[c]) \in Nat
  BY StreamType
<1>6. \A i \in Nat \ {0} : \A reply :
       IsAnswer(i, reply, asked[c], torn[c]) => IsAnswer(i, reply, asked'[c], torn'[c])
  <2>1. /\ Len(asked'[c]) = Len(asked[c]) + 1
        /\ \A i \in 1 .. Len(asked[c]) : asked'[c][i] = asked[c][i]
    BY <1>2, <1>5
  <2>2. Len(asked[c]) \in Nat
    BY <1>5
  <2> QED BY <1>4, <2>1, <2>2 DEF IsAnswer
<1>7. ASSUME NEW k \in Nat, Rests(c, k) PROVE Holds(buf'[c] \o wire'[c], asked'[c], k, torn'[c], Menu[c])
  <2> DEFINE s == buf[c] \o wire[c]
             requests == asked[c]
             menu == Menu[c]
  <2>1. s \in Seq(Tokens) /\ r.tokens \in Seq(Tokens) /\ requests \in Seq(menu) /\ IsMenu(menu)
    BY StreamType, TokensOf, MenusAre
  <2>2. Holds(s, requests, k, FALSE, menu)
    <3>1. torn[c] = FALSE
      BY <1>4, StreamType
    <3> QED BY <1>7, <3>1 DEF Rests
  <2>3. buf'[c] \o wire'[c] = s \o r.tokens
    <3>1. buf[c] \in Seq(Tokens) /\ wire[c] \in Seq(Tokens) /\ r.tokens \in Seq(Tokens)
      BY StreamType, TokensOf
    <3>2. buf[c] \o (wire[c] \o r.tokens) = s \o r.tokens
      BY <3>1, Behind
    <3> QED BY <1>2, <1>3, <3>2
  <2> HIDE DEF s, requests, menu
  <2>4. Holds(s \o r.tokens, Append(requests, r), k, FALSE, menu)
    <3>1. r \in menu
      BY DEF menu
    <3> QED BY <2>1, <2>2, <3>1, HoldsRequest
  <2>5. asked'[c] = Append(requests, r) /\ torn'[c] = FALSE
    BY <1>2, <1>3, <1>4, StreamType DEF requests
  <2> QED BY <2>3, <2>4, <2>5 DEF menu
<1>8. SoFar(c)' /\ ToCome(c)'
  BY <1>3, <1>4, <1>5, <1>6, <1>7, Continues
<1> QED BY <1>3, <1>4, <1>8 DEF Conversation, Live

LEMMA StoppedIsSpoken ==
  ASSUME StreamTypes, ControlTypes, NEW c \in Client, StopSending(c), Conversation(c)
  PROVE  Conversation(c)'
<1> USE DEF framed, work
<1>1. PICK r \in Menu[c] : \E n \in 0 .. Len(r.tokens) - 1 :
        /\ wire' = [wire EXCEPT ![c] = @ \o SubSeq(r.tokens, 1, n)]
        /\ torn' = [torn EXCEPT ![c] = n > 0]
  BY DEF StopSending
<1>2. PICK n \in 0 .. Len(r.tokens) - 1 :
        /\ wire' = [wire EXCEPT ![c] = @ \o SubSeq(r.tokens, 1, n)]
        /\ torn' = [torn EXCEPT ![c] = n > 0]
  BY <1>1
<1> DEFINE piece == SubSeq(r.tokens, 1, n)
<1>3. wire'[c] = wire[c] \o piece /\ torn'[c] = (n > 0)
  BY <1>2 DEF StreamTypes
<1>4. peer'[c] = "silent"
  BY DEF StopSending, StreamTypes
<1>5. /\ at'[c] = at[c] /\ told'[c] = told[c] /\ errored'[c] = errored[c] /\ frame'[c] = frame[c]
      /\ out'[c] = out[c] /\ replies'[c] = replies[c] /\ asked'[c] = asked[c] /\ buf'[c] = buf[c]
  BY DEF StopSending
<1>6. at[c] \in Live /\ peer[c] = "sends" /\ ~torn[c] /\ SoFar(c) /\ ToCome(c)
  BY DEF StopSending, Sending, Conversation
<1>7. Len(replies[c]) \in Nat
  BY StreamType
<1>8. \A i \in Nat \ {0} : \A reply :
       IsAnswer(i, reply, asked[c], torn[c]) => IsAnswer(i, reply, asked'[c], torn'[c])
  BY <1>5, <1>6 DEF IsAnswer
<1>9. ASSUME NEW k \in Nat, Rests(c, k) PROVE Holds(buf'[c] \o wire'[c], asked'[c], k, torn'[c], Menu[c])
  <2> DEFINE s == buf[c] \o wire[c]
             requests == asked[c]
             menu == Menu[c]
  <2>1. s \in Seq(Tokens) /\ requests \in Seq(menu) /\ IsMenu(menu) /\ r \in menu
    BY StreamType, MenusAre
  <2>2. Holds(s, requests, k, FALSE, menu)
    <3>1. torn[c] = FALSE
      BY <1>6, StreamType
    <3> QED BY <1>9, <3>1 DEF Rests
  <2>3. piece \in Seq(Tokens)
    BY TokensOf
  <2>4. buf'[c] \o wire'[c] = s \o piece
    <3> HIDE DEF piece
    <3>1. buf[c] \in Seq(Tokens) /\ wire[c] \in Seq(Tokens)
      BY StreamType
    <3>2. buf[c] \o (wire[c] \o piece) = s \o piece
      BY <2>3, <3>1, Behind
    <3> QED BY <1>3, <1>5, <3>2
  <2> HIDE DEF s, requests, menu
  <2>5. Holds(s \o piece, requests, k, n > 0, menu)
    BY <2>1, <2>2, HoldsPiece
  <2>6. asked'[c] = requests
    BY <1>5 DEF requests
  <2> HIDE DEF piece
  <2> QED BY <1>3, <2>4, <2>5, <2>6 DEF menu
<1>10. SoFar(c)' /\ ToCome(c)'
  BY <1>5, <1>6, <1>7, <1>8, <1>9, Continues
<1> QED BY <1>4, <1>5, <1>6, <1>10 DEF Conversation, Live

LEMMA LeftIsSpoken ==
  ASSUME StreamTypes, ControlTypes, NEW c \in Client, Leave(c), Conversation(c)
  PROVE  Conversation(c)'
<1>1. peer'[c] = "gone" /\ replies'[c] = <<>> /\ at'[c] = at[c] /\ at[c] \in Live
  BY DEF Leave, StreamTypes
<1> QED BY <1>1 DEF Conversation, Live

LEMMA AcceptedIsSpoken ==
  ASSUME StreamTypes, ControlTypes, NEW c \in Client, Accept(c), Conversation(c)
  PROVE  Conversation(c)'
<1> USE DEF stream, framed, work, history
<1>1. at'[c] = "poll" /\ at[c] = "away"
  BY DEF Accept, At, Goto, ControlTypes, AtOK
<1>2. /\ peer'[c] = "sends" /\ ~torn'[c] /\ ~errored'[c] /\ replies'[c] = <<>>
      /\ buf'[c] = <<>> /\ wire'[c] = <<>> /\ asked'[c] = <<>>
  BY <1>1 DEF Accept, Conversation, Live
<1>3. SoFar(c)'
  BY <1>2 DEF SoFar
<1>4. Holds(<<>>, <<>>, 0, FALSE, Menu[c])
  <2> DEFINE cut == [i \in Nat |-> 0]
  <2>1. Cuts(cut, <<>>, <<>>, 0, FALSE, Menu[c])
    BY DEF Cuts, EndsWell
  <2> HIDE DEF cut
  <2>2. 0 <= Len(<<>>)
    OBVIOUS
  <2> QED BY <2>1, <2>2 DEF Holds
<1>5. ToCome(c)'
  <2>1. <<>> \o <<>> = <<>> /\ Len(<<>>) = 0
    OBVIOUS
  <2>2. torn'[c] = FALSE
    BY <1>2 DEF Accept, StreamTypes
  <2>3. Rests(c, Len(replies[c]))'
    BY <1>2, <1>4, <2>1, <2>2 DEF Rests
  <2> QED BY <1>1, <2>3 DEF ToCome, Handled, Executed
<1> QED BY <1>1, <1>2, <1>3, <1>5 DEF Conversation, Live

(* A step of the task that neither reads nor answers *)
LEMMA MovesOn ==
  ASSUME NEW c \in Client, Conversation(c), at[c] \in Handled \cup Executed,
         at'[c] \in Handled \cup Executed,
         peer'[c] = peer[c], wire'[c] = wire[c], buf'[c] = buf[c], errored'[c] = errored[c],
         asked'[c] = asked[c], torn'[c] = torn[c], replies'[c] = replies[c],
         ToCome(c) /\ at'[c] \in Handled => Due(c, Reply(frame'[c])),
         ToCome(c) /\ at'[c] \in Executed => Due(c, out'[c])
  PROVE  Conversation(c)'
<1>1. at[c] \in Live /\ at'[c] \in Live /\ at[c] # "close" /\ at[c] # "poll" /\ at'[c] # "poll" /\ at'[c] # "away"
  BY DEF Handled, Executed, Live
<1>2. SoFar(c) => SoFar(c)'
  BY <1>1 DEF SoFar
<1>3. ToCome(c) => ToCome(c)'
  <2> SUFFICES ASSUME ToCome(c) PROVE ToCome(c)'
    OBVIOUS
  <2>1. ~errored[c] => Rests(c, Len(replies[c]) + 1)
    BY DEF ToCome
  <2>2. (~errored[c] => Rests(c, Len(replies[c]) + 1))'
    BY <2>1 DEF Rests
  <2>3. (at[c] \in Handled => Due(c, Reply(frame[c])))'
    BY DEF Due
  <2>4. (at[c] \in Executed => Due(c, out[c]))'
    BY DEF Due
  <2> QED BY <1>1, <2>2, <2>3, <2>4 DEF ToCome
<1> QED BY <1>1, <1>2, <1>3 DEF Conversation

LEMMA CountedIsSpoken ==
  ASSUME StreamTypes, ControlTypes, NEW c \in Client, Conversation(c),
         CountTotal(c) \/ CountName(c) \/ Execute(c) \/ Snapshot(c) \/ CountLatency(c) \/ CountBucket(c)
  PROVE  Conversation(c)'
<1> USE DEF framed, work, stream, history, At, Goto
<1>1. /\ peer'[c] = peer[c] /\ wire'[c] = wire[c] /\ buf'[c] = buf[c] /\ errored'[c] = errored[c]
      /\ asked'[c] = asked[c] /\ torn'[c] = torn[c] /\ replies'[c] = replies[c]
  BY DEF CountTotal, CountName, Execute, Snapshot, ReadCounter, CountLatency, CountBucket
<1>2. CASE CountTotal(c) \/ CountName(c)
  <2>1. at[c] \in Handled /\ at'[c] \in Handled /\ frame' = frame
    BY <1>2 DEF CountTotal, CountName, Handled, ControlTypes, AtOK
  <2>2. at'[c] \notin Executed
    BY <2>1 DEF Handled, Executed
  <2> QED BY <1>1, <2>1, <2>2, MovesOn DEF ToCome
<1>3. CASE Execute(c)
  <2>1. at[c] \in Handled /\ at'[c] \in Executed /\ out'[c] = Reply(frame[c])
    BY <1>3 DEF Execute, Handled, Executed, ControlTypes, AtOK, StreamTypes
  <2>2. at'[c] \notin Handled
    BY <2>1 DEF Handled, Executed
  <2> QED BY <1>1, <2>1, <2>2, MovesOn DEF ToCome
<1>4. CASE Snapshot(c) \/ CountLatency(c) \/ CountBucket(c)
  <2>1. at[c] \in Executed /\ at'[c] \in Executed /\ out' = out
    BY <1>4 DEF Snapshot, ReadCounter, CountLatency, CountBucket, Executed, ControlTypes, AtOK
  <2>2. at'[c] \notin Handled
    BY <2>1 DEF Handled, Executed
  <2> QED BY <1>1, <2>1, <2>2, MovesOn DEF ToCome
<1> QED BY <1>2, <1>3, <1>4

LEMMA DroppedIsSpoken ==
  ASSUME StreamTypes, ControlTypes, NEW c \in Client, NEW ended \in SUBSET Client, c \in ended, Drop(ended),
         at'[c] \in Ended
  PROVE  Conversation(c)'
<1>1. peer'[c] = "gone" /\ replies'[c] = <<>> /\ at'[c] # "away"
  BY DEF Drop, Ended
<1> QED BY <1>1 DEF Conversation, Live

LEMMA ReadIsSpoken ==
  ASSUME StreamTypes, ControlTypes, NEW c \in Client, ReadMore(c), Conversation(c)
  PROVE  Conversation(c)'
<1> USE DEF work, history
<1>1. PICK n \in 1 .. Len(wire[c]) :
        /\ buf' = [buf EXCEPT ![c] = Advanced(c) \o SubSeq(wire[c], 1, n)]
        /\ wire' = [wire EXCEPT ![c] = SubSeq(@, n + 1, Len(@))]
  BY DEF ReadMore
<1>2. /\ at'[c] = at[c] /\ told'[c] = told[c] /\ errored'[c] = errored[c] /\ frame'[c] = frame[c]
      /\ out'[c] = out[c] /\ replies'[c] = replies[c] /\ asked'[c] = asked[c] /\ torn'[c] = torn[c]
      /\ peer'[c] = peer[c] /\ at[c] = "poll"
  BY DEF ReadMore, Polls, At
<1>3. Advanced(c) = buf[c]
  <2>1. buf[c] \in Seq(Tokens) /\ Decode(buf[c]).used = 0
    BY DecodeType, StreamType DEF ReadMore, Polls
  <2> QED BY <2>1, SubSeqFull DEF Advanced
<1>4. buf'[c] = buf[c] \o SubSeq(wire[c], 1, n) /\ wire'[c] = SubSeq(wire[c], n + 1, Len(wire[c]))
  BY <1>1, <1>3 DEF StreamTypes
<1>5. buf'[c] \o wire'[c] = buf[c] \o wire[c]
  <2> DEFINE b == buf[c]
             w == wire[c]
  <2>1. b \in Seq(Tokens) /\ w \in Seq(Tokens)
    BY StreamType
  <2>2. n \in 1 .. Len(w)
    OBVIOUS
  <2> HIDE DEF b, w
  <2>3. SubSeq(w, 1, n) \o SubSeq(w, n + 1, Len(w)) = w
    <3>1. SubSeq(w, 1, n) \o SubSeq(w, n + 1, Len(w)) = SubSeq(w, 1, Len(w))
      BY <2>1, <2>2, ConcatAdjacentSubSeq
    <3> QED BY <2>1, <3>1, SubSeqFull
  <2> DEFINE read == SubSeq(w, 1, n)
             left == SubSeq(w, n + 1, Len(w))
  <2>4. read \in Seq(Tokens) /\ left \in Seq(Tokens)
    BY <2>1, <2>2
  <2> HIDE DEF read, left
  <2>5. b \o (read \o left) = (b \o read) \o left
    BY <2>1, <2>4, Behind
  <2>6. read \o left = w
    BY <2>3 DEF read, left
  <2> QED BY <1>4, <2>5, <2>6 DEF b, w, read, left
<1>6. \A k \in Nat : Rests(c, k) => Holds(buf'[c] \o wire'[c], asked'[c], k, torn'[c], Menu[c])
  BY <1>2, <1>5 DEF Rests
<1>7. Len(replies[c]) \in Nat
  BY StreamType
<1>8. SoFar(c) /\ ToCome(c) => SoFar(c)' /\ ToCome(c)'
  BY <1>2, <1>6, <1>7, Continues
<1> QED BY <1>2, <1>8 DEF Conversation, Live

LEMMA ClosingIsSpoken ==
  ASSUME StreamTypes, ControlTypes, NEW c \in Client, EndOfStream(c), Conversation(c)
  PROVE  Conversation(c)'
<1> USE DEF stream, framed, work, history
<1>1. /\ told'[c] = told[c] /\ replies'[c] = replies[c] /\ asked'[c] = asked[c] /\ torn'[c] = torn[c]
      /\ peer'[c] = peer[c] /\ at[c] = "poll" /\ at'[c] = "close"
  BY DEF EndOfStream, Polls, At, AtEnd, Goto, ControlTypes, AtOK
<1>2. SoFar(c) => SoFar(c)'
  BY <1>1 DEF SoFar
<1>3. ToCome(c)'
  BY <1>1 DEF ToCome, Handled, Executed
<1> QED BY <1>1, <1>2, <1>3 DEF Conversation, Live

LEMMA GoodbyeIsSpoken ==
  ASSUME StreamTypes, ControlTypes, NEW c \in Client, SayGoodbye(c), Conversation(c)
  PROVE  Conversation(c)'
<1> USE DEF stream, framed, work
<1>1. /\ told'[c] = told[c] /\ told[c] /\ asked'[c] = asked[c] /\ torn'[c] = torn[c]
      /\ peer'[c] = peer[c] /\ at[c] = "poll" /\ at'[c] = "close"
  BY DEF SayGoodbye, At, Goto, ControlTypes, AtOK
<1>2. replies'[c] = IF peer[c] = "gone" THEN replies[c] ELSE Append(replies[c], "closing")
  BY DEF SayGoodbye, Got, StreamTypes
<1>3. CASE peer[c] = "gone"
  BY <1>1, <1>2, <1>3 DEF Conversation, Live
<1>4. CASE peer[c] # "gone"
  <2> DEFINE old == replies[c]
             new == Append(old, "closing")
  <2>1. SoFar(c)
    BY <1>1, <1>4 DEF Conversation, Live
  <2>2. /\ Len(old) \in Nat /\ Len(new) = Len(old) + 1 /\ new[Len(old) + 1] = "closing"
        /\ \A i \in 1 .. Len(old) : new[i] = old[i]
    BY StreamType
  <2>3. replies'[c] = new
    BY <1>2, <1>4
  <2> HIDE DEF new
  <2>4. \A i \in 1 .. Len(old) : IsAnswer(i, old[i], asked[c], torn[c])
    BY <1>1, <2>1 DEF SoFar
  <2>5. SoFar(c)'
    <3> SUFFICES ASSUME NEW i \in 1 .. Len(new)
                 PROVE  \/ IsAnswer(i, new[i], asked'[c], torn'[c])
                        \/ at'[c] = "close" /\ i = Len(new) /\ told'[c] /\ new[i] = "closing"
      BY <2>3 DEF SoFar
    <3>1. CASE i = Len(new)
      BY <1>1, <2>2, <3>1
    <3>2. CASE i # Len(new)
      <4>1. i \in 1 .. Len(old)
        BY <2>2, <3>2
      <4> QED BY <1>1, <2>2, <2>4, <4>1
    <3> QED BY <3>1, <3>2
  <2>6. ToCome(c)'
    BY <1>1 DEF ToCome, Handled, Executed
  <2> QED BY <1>1, <1>4, <2>5, <2>6 DEF Conversation, Live
<1> QED BY <1>3, <1>4

LEMMA SentIsSpoken ==
  ASSUME StreamTypes, ControlTypes, NEW c \in Client, Send(c), Conversation(c)
  PROVE  Conversation(c)'
<1> USE DEF stream, framed
<1>1. /\ told'[c] = told[c] /\ asked'[c] = asked[c] /\ torn'[c] = torn[c]
      /\ buf'[c] = buf[c] /\ wire'[c] = wire[c] /\ errored'[c] = errored[c]
      /\ peer'[c] = peer[c] /\ at[c] = "send"
  BY DEF Send, At
<1>2. replies'[c] = IF peer[c] = "gone" THEN replies[c] ELSE Append(replies[c], out[c])
  BY DEF Send, Got, StreamTypes
<1>3. at'[c] \in {"poll", "close"} /\ (peer[c] # "gone" => at'[c] = "poll")
  BY DEF Send, AfterSend, Goto, ControlTypes, AtOK
<1>4. CASE peer[c] = "gone"
  BY <1>1, <1>2, <1>3, <1>4 DEF Conversation, Live
<1>5. CASE peer[c] # "gone"
  <2> DEFINE old == replies[c]
             new == Append(old, out[c])
  <2>1. SoFar(c) /\ ToCome(c)
    BY <1>1, <1>5 DEF Conversation, Live
  <2>2. /\ Len(old) \in Nat /\ Len(new) = Len(old) + 1 /\ new[Len(old) + 1] = out[c]
        /\ \A i \in 1 .. Len(old) : new[i] = old[i]
    BY StreamType
  <2>3. replies'[c] = new
    BY <1>2, <1>5
  <2>4. \A i \in 1 .. Len(old) : IsAnswer(i, old[i], asked[c], torn[c])
    BY <1>1, <2>1 DEF SoFar
  <2>5. IsAnswer(Len(old) + 1, out[c], asked[c], torn[c])
    BY <1>1, <2>1 DEF ToCome, Executed, Due
  <2>6. ~errored[c] => Rests(c, Len(old) + 1)
    BY <1>1, <2>1 DEF ToCome, Executed
  <2> HIDE DEF new, old
  <2>7. SoFar(c)'
    <3> SUFFICES ASSUME NEW i \in 1 .. Len(new) PROVE IsAnswer(i, new[i], asked'[c], torn'[c])
      BY <2>3 DEF SoFar
    <3>1. CASE i = Len(new)
      BY <1>1, <2>2, <2>5, <3>1
    <3>2. CASE i # Len(new)
      <4>1. i \in 1 .. Len(old)
        BY <2>2, <3>2
      <4> QED BY <1>1, <2>2, <2>4, <4>1
    <3> QED BY <3>1, <3>2
  <2>8. (~errored[c] => Rests(c, Len(replies[c])))'
    BY <1>1, <2>2, <2>3, <2>6 DEF Rests
  <2>9. ToCome(c)'
    BY <1>3, <1>5, <2>8 DEF ToCome, Handled, Executed
  <2> QED BY <1>1, <1>3, <1>5, <2>7, <2>9 DEF Conversation, Live
<1> QED BY <1>4, <1>5

LEMMA ErrorIsSpoken ==
  ASSUME StreamTypes, ControlTypes, NEW c \in Client, ProtocolError(c), Conversation(c)
  PROVE  Conversation(c)'
<1> USE DEF stream
<1>1. /\ told'[c] = told[c] /\ replies'[c] = replies[c] /\ asked'[c] = asked[c] /\ torn'[c] = torn[c]
      /\ peer'[c] = peer[c] /\ at[c] = "poll" /\ ~errored[c]
  BY DEF ProtocolError, Polls, At, AtEnd, history
<1>2. at'[c] = "send" /\ out'[c] = "protocol" /\ errored'[c] = TRUE
  BY DEF ProtocolError, Answer, Goto, ControlTypes, AtOK, StreamTypes
<1>3. CASE peer[c] = "gone"
  BY <1>1, <1>2, <1>3 DEF Conversation, Live
<1>4. CASE peer[c] # "gone"
  <2> DEFINE k == Len(replies[c])
  <2>1. SoFar(c) /\ Rests(c, k)
    BY <1>1, <1>4 DEF Conversation, Live, ToCome
  <2>2. k \in Nat
    BY StreamType
  <2>3. IsAnswer(k + 1, "protocol", asked[c], torn[c])
    <3>1. CASE Decode(buf[c]).st = "error"
      <4>1. CASE k < Len(asked[c])
        <5>1. Decode(asked[c][k + 1].tokens).st = "error" /\ WholeRequest(asked[c][k + 1])
          BY <2>1, <2>2, <3>1, <4>1, WhatIsRead
        <5>2. asked[c][k + 1].answer = "protocol"
          BY <5>1 DEF WholeRequest
        <5>3. k + 1 <= Len(asked[c])
          BY <2>2, <4>1, StreamType
        <5> QED BY <5>2, <5>3 DEF IsAnswer
      <4>2. CASE ~(k < Len(asked[c]))
        <5>1. k <= Len(asked[c]) /\ (k = Len(asked[c]) => torn[c])
          BY <2>1, <2>2, <3>1, WhatIsRead
        <5>2. k = Len(asked[c])
          BY <2>2, <4>2, <5>1, StreamType
        <5> QED BY <5>1, <5>2 DEF IsAnswer
      <4> QED BY <4>1, <4>2
    <3>2. CASE Decode(buf[c]).st # "error"
      <4>1. Decode(buf[c]).st = "more" /\ wire[c] = <<>> /\ buf[c] # <<>>
        BY <3>2 DEF ProtocolError, Polls, AtEnd
      <4>2. k = Len(asked[c]) /\ torn[c]
        BY <2>1, <2>2, <4>1, WhatIsTorn
      <4> QED BY <4>2 DEF IsAnswer
    <3> QED BY <3>1, <3>2
  <2>4. SoFar(c)'
    BY <1>1, <2>1 DEF SoFar
  <2>5. ToCome(c)'
    BY <1>1, <1>2, <2>3 DEF ToCome, Due, Handled, Executed
  <2> QED BY <1>1, <1>2, <1>4, <2>4, <2>5 DEF Conversation, Live
<1> QED BY <1>3, <1>4

(* The request at the beginning of the stream is taken from the buffer. *)
LEMMA TakenFromStream ==
  ASSUME StreamTypes, NEW c \in Client, NEW k \in Nat, Rests(c, k), Decode(buf[c]).st = "ok"
  PROVE  Holds(Advanced(c) \o wire[c], asked[c], k + 1, torn[c], Menu[c])
<1> DEFINE b == buf[c]
           w == wire[c]
           s == b \o w
           rest == Advanced(c) \o w
           n == Decode(b).used
           requests == asked[c]
           menu == Menu[c]
<1>1. b \in Seq(Tokens) /\ w \in Seq(Tokens) /\ s \in Seq(Tokens) /\ requests \in Seq(menu) /\ torn[c] \in BOOLEAN
  BY StreamType
<1>2. n \in 0 .. Len(b)
  BY <1>1, DecodeType
<1>3. k < Len(requests) /\ n = Len(requests[k + 1].tokens)
  <2>1. k < Len(requests)
    <3>1. k <= Len(requests) /\ k # Len(requests)
      BY WhatIsRead
    <3> QED BY <1>1, <3>1
  <2>2. Decode(b) = Decode(requests[k + 1].tokens) /\ WholeRequest(requests[k + 1])
    BY <2>1, WhatIsRead
  <2> QED BY <2>1, <2>2 DEF WholeRequest
<1>4. Advanced(c) = SubSeq(b, n + 1, Len(b))
  BY DEF Advanced
<1>5. Holds(s, requests, k, torn[c], menu)
  BY DEF Rests
<1> HIDE DEF b, w, n, requests, menu
<1>6. /\ Len(s) = Len(b) + Len(w)
      /\ \A p \in 1 .. Len(b) : s[p] = b[p]
      /\ \A p \in 1 .. Len(w) : s[Len(b) + p] = w[p]
  BY <1>1
<1> DEFINE tail == SubSeq(b, n + 1, Len(b))
<1>7. /\ tail \in Seq(Tokens) /\ Len(tail) = Len(b) - n
      /\ \A p \in 1 .. Len(b) - n : tail[p] = b[n + p]
  BY <1>1, <1>2
<1> HIDE DEF tail
<1>8. /\ tail \o w \in Seq(Tokens) /\ Len(tail \o w) = Len(tail) + Len(w)
      /\ \A p \in 1 .. Len(tail) : (tail \o w)[p] = tail[p]
      /\ \A p \in 1 .. Len(w) : (tail \o w)[Len(tail) + p] = w[p]
  BY <1>1, <1>7, Longer
<1>9. rest = tail \o w
  BY <1>4 DEF tail
<1>10. Len(b) \in Nat /\ Len(w) \in Nat
  BY <1>1
<1> HIDE DEF s, rest
<1>11. rest \in Seq(Tokens) /\ Len(s) = n + Len(rest) /\ n \in Nat
  BY <1>2, <1>6, <1>7, <1>8, <1>9, <1>10
<1>12. \A p \in 1 .. Len(rest) : rest[p] = s[n + p]
  <2> TAKE p \in 1 .. Len(rest)
  <2>1. CASE p <= Len(b) - n
    <3>1. p \in 1 .. Len(b) - n /\ n + p \in 1 .. Len(b)
      BY <1>2, <1>10, <2>1
    <3> QED BY <1>6, <1>7, <1>8, <1>9, <3>1
  <2>2. CASE ~(p <= Len(b) - n)
    <3> DEFINE q == p - (Len(b) - n)
    <3>1. q \in 1 .. Len(w) /\ Len(tail) + q = p /\ Len(b) + q = n + p
      BY <1>2, <1>7, <1>8, <1>9, <1>10, <2>2
    <3> HIDE DEF q
    <3>2. (tail \o w)[p] = w[q] /\ s[n + p] = w[q]
      BY <1>6, <1>8, <3>1
    <3> QED BY <1>9, <3>2
  <2> QED BY <2>1, <2>2
<1>13. IsMenu(menu)
  BY MenusAre DEF menu
<1>14. s \in Seq(Tokens)
  BY <1>1 DEF s
<1>15. Holds(rest, requests, k + 1, torn[c], menu)
  BY <1>1, <1>3, <1>5, <1>11, <1>12, <1>13, <1>14, HoldsRest
<1> QED BY <1>15 DEF rest, w, requests, menu

LEMMA FrameIsSpoken ==
  ASSUME StreamTypes, ControlTypes, NEW c \in Client, NextFrame(c), Conversation(c)
  PROVE  Conversation(c)'
<1> USE DEF stream, history
<1> DEFINE d == Decode(buf[c])
<1>1. /\ told'[c] = told[c] /\ replies'[c] = replies[c] /\ asked'[c] = asked[c] /\ torn'[c] = torn[c]
      /\ peer'[c] = peer[c] /\ wire'[c] = wire[c] /\ errored'[c] = errored[c]
      /\ at[c] = "poll" /\ ~errored[c] /\ d.st = "ok"
  BY DEF NextFrame, Polls, At
<1>2. buf'[c] = Advanced(c)
  BY DEF NextFrame, StreamTypes
<1>3. ~d.array => d.items = <<>>
  BY DEF Decode, Nothing
<1>4. \/ at'[c] = "count" /\ d.items # <<>> /\ frame'[c] = d.items
      \/ at'[c] = "send" /\ out'[c] = ReplyTo(d)
  BY <1>3 DEF NextFrame, Answer, Goto, ReplyTo, ControlTypes, AtOK, StreamTypes
<1> HIDE DEF d
<1>5. CASE peer[c] = "gone"
  BY <1>1, <1>4, <1>5 DEF Conversation, Live
<1>6. CASE peer[c] # "gone"
  <2> DEFINE k == Len(replies[c])
  <2>1. SoFar(c) /\ Rests(c, k)
    BY <1>1, <1>6 DEF Conversation, Live, ToCome
  <2>2. k \in Nat /\ Len(asked[c]) \in Nat
    BY StreamType
  <2>3. k < Len(asked[c]) /\ d = Decode(asked[c][k + 1].tokens) /\ WholeRequest(asked[c][k + 1])
    <3>1. k <= Len(asked[c]) /\ k # Len(asked[c])
      BY <1>1, <2>1, <2>2, WhatIsRead DEF d
    <3>2. k < Len(asked[c])
      BY <2>2, <3>1
    <3> QED BY <1>1, <2>1, <2>2, <3>2, WhatIsRead DEF d
  <2>4. asked[c][k + 1].answer = ReplyTo(d)
    BY <1>1, <2>3 DEF WholeRequest
  <2>5. IsAnswer(k + 1, ReplyTo(d), asked[c], torn[c])
    BY <2>2, <2>3, <2>4 DEF IsAnswer
  <2>6. Rests(c, Len(replies[c]) + 1)'
    BY <1>1, <1>2, <2>1, <2>2, TakenFromStream DEF Rests, d
  <2>7. SoFar(c)'
    BY <1>1, <2>1 DEF SoFar
  <2>8. ToCome(c)'
    <3>1. CASE at'[c] = "send" /\ out'[c] = ReplyTo(d)
      BY <1>1, <2>5, <2>6, <3>1 DEF ToCome, Due, Handled, Executed
    <3>2. CASE at'[c] = "count" /\ d.items # <<>> /\ frame'[c] = d.items
      <4>1. ReplyTo(d) = Reply(frame'[c])
        BY <3>2 DEF ReplyTo
      <4> QED BY <1>1, <2>5, <2>6, <3>2, <4>1 DEF ToCome, Due, Handled, Executed
    <3> QED BY <1>4, <3>1, <3>2
  <2> QED BY <1>1, <1>4, <1>6, <2>7, <2>8 DEF Conversation, Live
<1> QED BY <1>5, <1>6

Conversations == \A c \in Client : Conversation(c)

LEMMA OwnStepIsSpoken ==
  ASSUME StreamTypes, ControlTypes, NEW c \in Client, Conversation(c),
         Accept(c) \/ Ask(c) \/ StopSending(c) \/ Leave(c) \/ Task(c)
  PROVE  Conversation(c)'
<1>1. CASE Panic(c) \/ Close(c)
  <2>1. Drop({c}) /\ at'[c] \in Ended
    BY <1>1 DEF Panic, Close, Goto, Ended, ControlTypes, AtOK
  <2> QED BY <2>1, DroppedIsSpoken
<1> QED BY <1>1, AcceptedIsSpoken, AskedIsSpoken, StoppedIsSpoken, LeftIsSpoken, ReadIsSpoken, FrameIsSpoken,
           ErrorIsSpoken, ClosingIsSpoken, GoodbyeIsSpoken, CountedIsSpoken, SentIsSpoken DEF Task

LEMMA InterruptIsSpoken ==
  ASSUME StreamTypes, ControlTypes, NEW c \in Client, Conversation(c), Interrupt
  PROVE  Conversation(c)'
<1> USE DEF Interrupt, stream, framed, work, history
<1>1. told'[c] = (at[c] \in Live)
  OBVIOUS
<1>2. SoFar(c) => SoFar(c)'
  <2>1. at[c] = "close" => told'[c]
    BY <1>1 DEF Live
  <2> QED BY <2>1 DEF SoFar
<1>3. ToCome(c) => ToCome(c)'
  BY DEF ToCome, Due, Rests
<1> QED BY <1>2, <1>3 DEF Conversation

LEMMA StepIsSpoken ==
  ASSUME StreamTypes, ControlTypes, Conversations, [Next]_vars
  PROVE  Conversations'
<1> SUFFICES ASSUME NEW c \in Client PROVE Conversation(c)'
  BY DEF Conversations
<1>1. Conversation(c)
  BY DEF Conversations
<1>2. CASE AcceptFails \/ TryAgain \/ UNCHANGED vars
  <2>1. Same(c)
    BY <1>2 DEF AcceptFails, TryAgain, vars, stream, framed, work, history, Same
  <2> QED BY <1>1, <2>1, SameConversation
<1>3. CASE Interrupt
  BY <1>1, <1>3, InterruptIsSpoken
<1>4. CASE Exit
  <2>1. at'[c] \in Ended /\ Drop(Client)
    BY <1>4 DEF Exit, Ended
  <2> QED BY <2>1, DroppedIsSpoken
<1>5. ASSUME NEW d \in Client, Accept(d) \/ Ask(d) \/ StopSending(d) \/ Leave(d) \/ Task(d)
      PROVE  Conversation(c)'
  <2>1. CASE c = d
    BY <1>1, <1>5, <2>1, OwnStepIsSpoken
  <2>2. CASE c # d
    BY <1>1, <1>5, <2>2, OthersDoNothing, SameConversation
  <2> QED BY <2>1, <2>2
<1> QED BY <1>2, <1>3, <1>4, <1>5 DEF Next

AnswersInv == ServerInv /\ Conversations

(* However the stream is cut and piled up, with any number of clients and any   *)
(* requests that are whole (MenuAssumption): reply i answers request i, no     *)
(* request is answered twice or passed over, and what is no answer is the     *)
(* protocol error behind the last request or the notice of a shutdown.        *)
THEOREM RequestsAreAnswered == Spec => []AnswersFollowRequests
<1>1. Init => AnswersInv
  <2> SUFFICES ASSUME Init PROVE AnswersInv
    OBVIOUS
  <2>1. Conversations
    BY DEF Init, Conversations, Conversation, Live
  <2> QED BY <2>1, ServerStarts DEF AnswersInv
<1>2. AnswersInv /\ [Next]_vars => AnswersInv'
  BY ServerGoesOn, StepIsSpoken DEF AnswersInv, ServerInv
<1>3. AnswersInv => AnswersFollowRequests
  <2> SUFFICES ASSUME AnswersInv, NEW c \in Client, NEW i \in 1 .. Len(replies[c])
               PROVE  \/ i <= Len(asked[c]) /\ replies[c][i] = asked[c][i].answer
                      \/ i = Len(asked[c]) + 1 /\ torn[c] /\ replies[c][i] = "protocol"
                      \/ i = Len(replies[c]) /\ told[c] /\ replies[c][i] = "closing"
    BY DEF AnswersFollowRequests
  <2>1. Conversation(c)
    BY DEF AnswersInv, Conversations
  <2>2. CASE at[c] \in Live /\ peer[c] # "gone"
    BY <2>1, <2>2 DEF Conversation, SoFar, IsAnswer
  <2>3. CASE ~(at[c] \in Live /\ peer[c] # "gone")
    <3>1. replies[c] = <<>>
      BY <2>1, <2>3 DEF Conversation
    <3> QED BY <3>1
  <2> QED BY <2>2, <2>3
<1> QED BY <1>1, <1>2, <1>3, PTL DEF Spec

-----------------------------------------------------------------------------
(* Part 7: the options of SET.  The loop marks that it has an expiry and that *)
(* it has a condition, and goes on from the next option or the one behind. *)
Marks == SUBSET {"px", "condition"}
Verdicts == [Marks -> {"command", "error"}]

(* The value of Loop at an option, from those at the next two options *)
Verdict(args, idx, next, afterNext) ==
  [have \in Marks |->
    IF idx > Len(args) THEN "command"
    ELSE IF /\ args[idx] \in {"EX", "PX"} /\ ExpiryMayFollow(args, idx, have)
            /\ args[idx + 1] \in Amounts(args[idx])
         THEN afterNext[have \cup {"px"}]
    ELSE IF args[idx] \in {"NX", "XX"} /\ "condition" \notin have
         THEN next[have \cup {"condition"}]
    ELSE "error"]

LEMMA VerdictType ==
  ASSUME NEW args, NEW idx, NEW next \in Verdicts, NEW afterNext \in Verdicts
  PROVE  Verdict(args, idx, next, afterNext) \in Verdicts
<1> SUFFICES ASSUME NEW have \in Marks PROVE Verdict(args, idx, next, afterNext)[have] \in {"command", "error"}
  BY DEF Verdict, Verdicts
<1>1. have \cup {"px"} \in Marks /\ have \cup {"condition"} \in Marks
  BY DEF Marks
<1>2. /\ afterNext[have \cup {"px"}] \in {"command", "error"}
      /\ next[have \cup {"condition"}] \in {"command", "error"}
  BY <1>1 DEF Verdicts
<1> QED BY <1>2, Zenon DEF Verdict

(* Past the end the loop is done. *)
Done == [have \in Marks |-> "command"]

LEMMA VerdictDone ==
  ASSUME NEW args, NEW idx \in Int, Len(args) \in Nat, idx > Len(args), NEW next, NEW afterNext
  PROVE  Verdict(args, idx, next, afterNext) = Done
  BY DEF Verdict, Done

(* The recursive definition of Loop says what it seems to say. *)
LEMMA LoopUnfolds ==
  ASSUME NEW args \in Seq(Arg), NEW p \in 1 .. Len(args) + 2
  PROVE  Loop(args)[p] = Verdict(args, p, Loop(args)[p + 1], Loop(args)[p + 2])
<1> DEFINE n == Len(args)
           X == Verdicts \X Verdicts
           first == <<Done, Done>>
           step == [y \in X \X (1 .. n + 1) |-> <<Verdict(args, n + 2 - y[2], y[1][1], y[1][2]), y[1][1]>>]
           Body(h) == [idx \in 1 .. n + 2 |-> Verdict(args, idx, h[idx + 1], h[idx + 2])]
<1>1. n \in Nat /\ n + 1 \in Nat
  OBVIOUS
<1>2. first \in X
  BY DEF Done, Verdicts
<1>3. step \in [X \X (1 .. n + 1) -> X]
  <2>1. ASSUME NEW y \in X \X (1 .. n + 1)
        PROVE  <<Verdict(args, n + 2 - y[2], y[1][1], y[1][2]), y[1][1]>> \in X
    BY VerdictType
  <2> HIDE DEF X
  <2> QED BY <2>1
<1>4. PICK g \in [0 .. n + 1 -> X] : Iterates(g, first, step, n + 1)
  <2> HIDE DEF step, n, X, first
  <2> QED BY <1>1, <1>2, <1>3, RecursiveFunction
<1> DEFINE f == [idx \in 1 .. n + 2 |-> g[n + 2 - idx][1]]
<1>5. ASSUME NEW i \in 1 .. n + 1
      PROVE  /\ g[i][1] = Verdict(args, n + 2 - i, g[i - 1][1], g[i - 1][2])
             /\ g[i][2] = g[i - 1][1]
  <2>1. g[i - 1] \in X /\ <<g[i - 1], i>> \in X \X (1 .. n + 1)
    <3>1. i - 1 \in 0 .. n + 1
      OBVIOUS
    <3> HIDE DEF X
    <3> QED BY <3>1
  <2>2. g[i] = step[<<g[i - 1], i>>]
    BY <1>4 DEF Iterates
  <2>3. step[<<g[i - 1], i>>] = <<Verdict(args, n + 2 - i, g[i - 1][1], g[i - 1][2]), g[i - 1][1]>>
    <3> HIDE DEF X
    <3> QED BY <2>1
  <2>4. g[i] = <<Verdict(args, n + 2 - i, g[i - 1][1], g[i - 1][2]), g[i - 1][1]>>
    <3> HIDE DEF X, step, n
    <3> QED BY <2>2, <2>3
  <2> HIDE DEF X, step, n
  <2> QED BY <2>4
<1>6. ASSUME NEW idx \in 1 .. n + 2 PROVE f[idx] = Verdict(args, idx, f[idx + 1], f[idx + 2])
  <2>1. CASE idx = n + 2
    <3>1. f[idx] = g[0][1] /\ g[0] = <<Done, Done>>
      BY <2>1, <1>4 DEF Iterates
    <3>2. f[idx] = Done
      <4> HIDE DEF f
      <4> QED BY <3>1
    <3>3. Verdict(args, idx, f[idx + 1], f[idx + 2]) = Done
      <4> HIDE DEF f
      <4> QED BY <2>1, <1>1, VerdictDone
    <3> QED BY <3>2, <3>3
  <2>2. CASE idx = n + 1
    <3>1. f[idx] = Verdict(args, idx, g[0][1], g[0][2])
      <4>1. n + 2 - idx = 1 /\ n + 2 - 1 = idx /\ 1 - 1 = 0 /\ 1 \in 1 .. n + 1
        BY <2>2
      <4>2. f[idx] = g[1][1]
        BY <4>1
      <4>3. g[1][1] = Verdict(args, n + 2 - 1, g[1 - 1][1], g[1 - 1][2])
        BY <4>1, <1>5
      <4> HIDE DEF f, n
      <4> QED BY <4>1, <4>2, <4>3
    <3>2. idx > Len(args)
      BY <2>2
    <3> QED BY <3>1, <3>2, <1>1, VerdictDone
  <2>3. CASE idx \in 1 .. n
    <3>1. /\ n + 2 - idx \in 1 .. n + 1 /\ n + 1 - idx \in 1 .. n + 1
          /\ (n + 2 - idx) - 1 = n + 1 - idx /\ (n + 1 - idx) - 1 = n - idx
          /\ n + 2 - (n + 2 - idx) = idx /\ n + 2 - (idx + 1) = n + 1 - idx
          /\ n + 2 - (idx + 2) = n - idx /\ idx + 1 \in 1 .. n + 2 /\ idx + 2 \in 1 .. n + 2
      BY <2>3
    <3>2. f[idx] = g[n + 2 - idx][1] /\ f[idx + 1] = g[n + 1 - idx][1] /\ f[idx + 2] = g[n - idx][1]
      BY <3>1
    <3>3. g[n + 2 - idx][1] = Verdict(args, idx, g[n + 1 - idx][1], g[n + 1 - idx][2])
      <4> HIDE DEF n
      <4>1. g[n + 2 - idx][1] = Verdict(args, n + 2 - (n + 2 - idx), g[(n + 2 - idx) - 1][1], g[(n + 2 - idx) - 1][2])
        BY <3>1, <1>5
      <4> QED BY <4>1, <3>1
    <3>4. g[n + 1 - idx][2] = g[n - idx][1]
      <4> HIDE DEF n
      <4>1. g[n + 1 - idx][2] = g[(n + 1 - idx) - 1][1]
        BY <3>1, <1>5
      <4> QED BY <4>1, <3>1
    <3> HIDE DEF f, n
    <3> QED BY <3>2, <3>3, <3>4
  <2> QED BY <2>1, <2>2, <2>3
<1>7. f = Body(f)
  <2>1. f = [idx \in 1 .. n + 2 |-> f[idx]]
    OBVIOUS
  <2> HIDE DEF f
  <2> QED BY <2>1, <1>6
<1>8. Loop(args) = CHOOSE h : h = Body(h)
  BY DEF Loop, Verdict, Marks
<1>9. Loop(args) = Body(Loop(args))
  <2> HIDE DEF Body, f
  <2> QED BY <1>7, <1>8
<1> QED BY <1>9

(* What an expiry and a condition are at position p of some options *)
ExpiryAt(args, p) ==
  /\ p + 1 <= Len(args)
  /\ args[p] \in {"EX", "PX"} /\ args[p + 1] \in Amounts(args[p])
ConditionAt(args, p) == p <= Len(args) /\ args[p] \in {"NX", "XX"}

Accepts(args, p, have) == Loop(args)[p][have] = "command"

LEMMA AcceptsStep ==
  ASSUME NEW args \in Seq(Arg), NEW p \in 1 .. Len(args) + 2, NEW have \in Marks
  PROVE  Accepts(args, p, have)
           <=> \/ p > Len(args)
               \/ "px" \notin have /\ ExpiryAt(args, p) /\ Accepts(args, p + 2, have \cup {"px"})
               \/ /\ "condition" \notin have /\ ConditionAt(args, p)
                  /\ Accepts(args, p + 1, have \cup {"condition"})
<1>1. Loop(args)[p][have] = Verdict(args, p, Loop(args)[p + 1], Loop(args)[p + 2])[have]
  BY LoopUnfolds
<1>2. CASE p > Len(args)
  <2>1. Loop(args)[p][have] = "command"
    BY <1>1, <1>2 DEF Verdict
  <2> QED BY <2>1, <1>2 DEF Accepts
<1>3. CASE p <= Len(args)
  <2>1. CASE "px" \notin have /\ ExpiryAt(args, p)
    <3>1. Loop(args)[p][have] = Loop(args)[p + 2][have \cup {"px"}]
      BY <1>1, <1>3, <2>1 DEF Verdict, ExpiryAt, ExpiryMayFollow
    <3>2. ~ConditionAt(args, p)
      BY <2>1 DEF ExpiryAt, ConditionAt
    <3> QED BY <3>1, <3>2, <2>1, <1>3 DEF Accepts
  <2>2. CASE "condition" \notin have /\ ConditionAt(args, p)
    <3>1. Loop(args)[p][have] = Loop(args)[p + 1][have \cup {"condition"}]
      BY <1>1, <1>3, <2>2 DEF Verdict, ConditionAt
    <3>2. ~ExpiryAt(args, p)
      BY <2>2 DEF ExpiryAt, ConditionAt
    <3> QED BY <3>1, <3>2, <2>2, <1>3 DEF Accepts
  <2>3. CASE ~("px" \notin have /\ ExpiryAt(args, p)) /\ ~("condition" \notin have /\ ConditionAt(args, p))
    <3>1. Loop(args)[p][have] = "error"
      BY <1>1, <1>3, <2>3 DEF Verdict, ConditionAt, ExpiryAt, ExpiryMayFollow
    <3> QED BY <3>1, <2>3, <1>3 DEF Accepts
  <2> QED BY <2>1, <2>2, <2>3
<1> QED BY <1>2, <1>3

(* The five ways to write the options *)
Shape(args) ==
  \/ Len(args) = 0
  \/ Len(args) = 1 /\ ConditionAt(args, 1)
  \/ Len(args) = 2 /\ ExpiryAt(args, 1)
  \/ Len(args) = 3 /\ ExpiryAt(args, 1) /\ ConditionAt(args, 3)
  \/ Len(args) = 3 /\ ConditionAt(args, 1) /\ ExpiryAt(args, 2)

(* After an expiry and a condition nothing may follow, so that the loop is   *)
(* over after two turns, however many options there are.                   *)
LEMMA LoopTakesShapes == ASSUME NEW args \in Seq(Arg) PROVE SetOptions(args) <=> Shape(args)
<1> DEFINE n == Len(args)
<1>1. n \in Nat
  OBVIOUS
<1>0. /\ {} \cup {"px"} = {"px"} /\ {} \cup {"condition"} = {"condition"}
      /\ {"px"} \cup {"condition"} = {"px", "condition"}
      /\ {"condition"} \cup {"px"} = {"px", "condition"}
  OBVIOUS
<1> USE DEF Marks
<1>2. ASSUME NEW p \in 1 .. n + 2 PROVE Accepts(args, p, {"px", "condition"}) <=> p > n
  BY <1>0, AcceptsStep
<1>3. ASSUME NEW p \in 1 .. n + 2
      PROVE  Accepts(args, p, {"px"}) <=> p > n \/ (p = n /\ ConditionAt(args, p))
  <2>1. Accepts(args, p, {"px"}) <=> p > n \/ (ConditionAt(args, p) /\ Accepts(args, p + 1, {"px", "condition"}))
    BY <1>0, AcceptsStep
  <2>2. CASE p <= n
    <3>1. Accepts(args, p + 1, {"px", "condition"}) <=> p + 1 > n
      BY <1>2, <2>2
    <3> QED BY <2>1, <2>2, <3>1
  <2>3. CASE p > n
    BY <2>1, <2>3
  <2> QED BY <2>2, <2>3
<1>4. ASSUME NEW p \in 1 .. n + 2
      PROVE  Accepts(args, p, {"condition"}) <=> p > n \/ (p + 1 = n /\ ExpiryAt(args, p))
  <2>1. Accepts(args, p, {"condition"}) <=> p > n \/ (ExpiryAt(args, p) /\ Accepts(args, p + 2, {"px", "condition"}))
    BY <1>0, AcceptsStep
  <2>2. CASE p <= n
    <3>1. Accepts(args, p + 2, {"px", "condition"}) <=> p + 2 > n
      BY <1>2, <2>2
    <3>2. ExpiryAt(args, p) => p + 1 <= n
      BY DEF ExpiryAt
    <3> QED BY <2>1, <2>2, <3>1, <3>2
  <2>3. CASE p > n
    BY <2>1, <2>3
  <2> QED BY <2>2, <2>3
<1>5. SetOptions(args)
        <=> \/ 1 > n
            \/ ExpiryAt(args, 1) /\ Accepts(args, 3, {"px"})
            \/ ConditionAt(args, 1) /\ Accepts(args, 2, {"condition"})
  <2>1. SetOptions(args) <=> Accepts(args, 1, {})
    BY DEF SetOptions, Accepts
  <2>2. Accepts(args, 1, {})
          <=> \/ 1 > n
              \/ "px" \notin {} /\ ExpiryAt(args, 1) /\ Accepts(args, 1 + 2, {} \cup {"px"})
              \/ /\ "condition" \notin {} /\ ConditionAt(args, 1)
                 /\ Accepts(args, 1 + 1, {} \cup {"condition"})
    <3>1. 1 \in 1 .. Len(args) + 2 /\ {} \in Marks
      BY <1>1
    <3> QED BY <3>1, AcceptsStep
  <2>3. 1 + 2 = 3 /\ 1 + 1 = 2
    OBVIOUS
  <2> QED BY <1>0, <2>1, <2>2, <2>3
<1>6. CASE n = 0
  BY <1>5, <1>6 DEF Shape
<1>7. CASE n = 1
  <2>1. Accepts(args, 2, {"condition"}) /\ ~ExpiryAt(args, 1)
    BY <1>4, <1>7 DEF ExpiryAt
  <2> QED BY <1>5, <1>7, <2>1 DEF Shape, ExpiryAt
<1>8. CASE n >= 2
  <2>1. 3 \in 1 .. n + 2 /\ 2 \in 1 .. n + 2
    BY <1>8
  <2>2. Accepts(args, 3, {"px"}) <=> 3 > n \/ (3 = n /\ ConditionAt(args, 3))
    BY <1>3, <2>1
  <2>3. Accepts(args, 2, {"condition"}) <=> 2 > n \/ (2 + 1 = n /\ ExpiryAt(args, 2))
    BY <1>4, <2>1
  <2>4. CASE n = 2
    BY <1>5, <2>2, <2>3, <2>4 DEF Shape
  <2>5. CASE n = 3
    BY <1>5, <2>2, <2>3, <2>5 DEF Shape
  <2>6. CASE n > 3
    <3>1. ~(1 > n) /\ ~(2 > n) /\ ~(3 > n) /\ 3 # n /\ 2 + 1 # n
      <4> HIDE DEF n
      <4> QED BY <1>1, <2>6
    <3>2. ~SetOptions(args)
      BY <1>5, <2>2, <2>3, <3>1
    <3>3. n # 0 /\ n # 1 /\ n # 2 /\ n # 3
      <4> HIDE DEF n
      <4> QED BY <1>1, <2>6
    <3> QED BY <3>2, <3>3 DEF Shape
  <2>7. n = 2 \/ n = 3 \/ n > 3
    <3> HIDE DEF n
    <3> QED BY <1>1, <1>8
  <2> QED BY <2>4, <2>5, <2>6, <2>7
<1> QED BY <1>1, <1>6, <1>7, <1>8

LEMMA IsConcatenation ==
  ASSUME NEW args \in Seq(Arg), NEW s \in Seq(Arg), NEW t \in Seq(Arg)
  PROVE  args = s \o t
           <=> /\ Len(args) = Len(s) + Len(t)
               /\ \A i \in 1 .. Len(s) : args[i] = s[i]
               /\ \A i \in 1 .. Len(t) : args[Len(s) + i] = t[i]
<1>1. /\ s \o t \in Seq(Arg) /\ Len(s \o t) = Len(s) + Len(t)
      /\ \A i \in 1 .. Len(s) + Len(t) : (s \o t)[i] = IF i <= Len(s) THEN s[i] ELSE t[i - Len(s)]
  BY ConcatProperties
<1>2. Len(s) \in Nat /\ Len(t) \in Nat /\ Len(args) \in Nat
  OBVIOUS
<1> DEFINE w == s \o t
<1> DEFINE Reads == /\ Len(args) = Len(s) + Len(t)
                    /\ \A i \in 1 .. Len(s) : args[i] = s[i]
                    /\ \A i \in 1 .. Len(t) : args[Len(s) + i] = t[i]
<1>3. ASSUME args = w PROVE Reads
  <2>1. ASSUME NEW i \in 1 .. Len(s) PROVE args[i] = s[i]
    BY <1>1, <1>2, <1>3
  <2>2. ASSUME NEW i \in 1 .. Len(t) PROVE args[Len(s) + i] = t[i]
    <3>1. Len(s) + i \in 1 .. Len(s) + Len(t) /\ ~(Len(s) + i <= Len(s)) /\ (Len(s) + i) - Len(s) = i
      BY <1>2
    <3> HIDE DEF w
    <3> QED BY <1>1, <1>3, <3>1 DEF w
  <2> QED BY <1>1, <1>3, <2>1, <2>2
<1>4. ASSUME Reads PROVE args = w
  <2>1. ASSUME NEW i \in 1 .. Len(args) PROVE args[i] = w[i]
    <3>0. i \in 1 .. Len(s) + Len(t)
      BY <1>4
    <3>1. CASE i <= Len(s)
      <4>1. i \in 1 .. Len(s)
        BY <1>2, <3>1
      <4> QED BY <1>1, <1>4, <3>0, <3>1, <4>1
    <3>2. CASE i > Len(s)
      <4>1. i - Len(s) \in 1 .. Len(t) /\ Len(s) + (i - Len(s)) = i /\ ~(i <= Len(s))
        BY <1>2, <3>0, <3>2
      <4>2. args[i] = t[i - Len(s)]
        BY <1>4, <4>1
      <4>3. (s \o t)[i] = t[i - Len(s)]
        BY <1>1, <3>0, <4>1
      <4> QED BY <4>2, <4>3
    <3> QED BY <1>2, <3>0, <3>1, <3>2
  <2> QED BY <1>1, <1>4, <2>1, SeqEqual
<1> QED BY <1>3, <1>4

(* The grammar writes the options in these ways, and in no other. *)
LEMMA GrammarIsShapes == ASSUME NEW args \in Seq(Arg) PROVE args \in Grammar <=> Shape(args)
<1> DEFINE E == {"EX", "PX"}
           C == {"NX", "XX"}
<1>1. /\ Expiry \subseteq Seq(Arg) /\ Condition \subseteq Seq(Arg)
      /\ \A x \in Expiry : Len(x) = 0 \/ Len(x) = 2
      /\ \A c \in Condition : Len(c) = 0 \/ Len(c) = 1
  <2>1. {"EX", "PX", "NX", "XX", "num", ":num", "big"} \subseteq Arg
    BY DEF Arg, Text, Options
  <2>2. ASSUME NEW x \in Expiry PROVE x \in Seq(Arg) /\ (Len(x) = 0 \/ Len(x) = 2)
    <3>1. CASE x = <<>>
      BY <3>1
    <3>2. CASE x # <<>>
      <4>1. PICK o \in {"EX", "PX"}, a \in {"num", ":num", "big"} : x = <<o, a>>
        BY <3>2 DEF Expiry
      <4>2. o \in Arg /\ a \in Arg
        BY <2>1
      <4> QED BY <4>1, <4>2
    <3> QED BY <3>1, <3>2
  <2>3. ASSUME NEW c \in Condition PROVE c \in Seq(Arg) /\ (Len(c) = 0 \/ Len(c) = 1)
    <3>1. CASE c = <<>>
      BY <3>1
    <3>2. CASE c # <<>>
      <4>1. PICK o \in {"NX", "XX"} : c = <<o>>
        BY <3>2 DEF Condition
      <4>2. o \in Arg
        BY <2>1
      <4> QED BY <4>1, <4>2
    <3> QED BY <3>1, <3>2
  <2> QED BY <2>2, <2>3
<1>2. \A x \in Expiry : Len(x) = 2 => x[1] \in E /\ x[2] \in Amounts(x[1])
  <2>1. ASSUME NEW x \in Expiry, Len(x) = 2 PROVE x[1] \in E /\ x[2] \in Amounts(x[1])
    <3>1. x # <<>>
      <4>1. x = <<>> => Len(x) = 0
        OBVIOUS
      <4> QED BY <2>1, <4>1
    <3>2. CASE x = <<"PX", "big">>
      BY <3>2 DEF Amounts, Converts
    <3>3. CASE x # <<"PX", "big">>
      <4>1. PICK o \in E, a \in {"num", ":num"} : x = <<o, a>>
        BY <3>1, <3>3 DEF Expiry
      <4>2. x[1] = o /\ x[2] = a
        BY <4>1
      <4> QED BY <4>2 DEF Amounts, Converts
    <3> QED BY <3>2, <3>3
  <2> QED BY <2>1
<1>3. \A c \in Condition : Len(c) = 1 => c[1] \in C
  BY DEF Condition
<1>4. \A o \in E : \A a \in Amounts(o) : <<o, a>> \in Expiry
  BY DEF Expiry, Amounts, Converts
<1>5. \A o \in C : <<o>> \in Condition
  BY DEF Condition
<1>6. <<>> \in Expiry /\ <<>> \in Condition
  BY DEF Expiry, Condition
<1>7. ASSUME NEW x \in Expiry, NEW c \in Condition, args = x \o c PROVE Shape(args)
  <2>1. /\ Len(args) = Len(x) + Len(c)
        /\ \A i \in 1 .. Len(x) : args[i] = x[i]
        /\ \A i \in 1 .. Len(c) : args[Len(x) + i] = c[i]
    BY <1>1, <1>7, IsConcatenation
  <2>2. CASE Len(x) = 0 /\ Len(c) = 0
    BY <2>1, <2>2 DEF Shape
  <2>3. CASE Len(x) = 0 /\ Len(c) = 1
    BY <1>3, <2>1, <2>3 DEF Shape, ConditionAt
  <2>4. CASE Len(x) = 2 /\ Len(c) = 0
    BY <1>2, <2>1, <2>4 DEF Shape, ExpiryAt
  <2>5. CASE Len(x) = 2 /\ Len(c) = 1
    BY <1>2, <1>3, <2>1, <2>5 DEF Shape, ExpiryAt, ConditionAt
  <2> QED BY <1>1, <2>2, <2>3, <2>4, <2>5
<1>8. ASSUME NEW x \in Expiry, NEW c \in Condition, args = c \o x PROVE Shape(args)
  <2>1. /\ Len(args) = Len(c) + Len(x)
        /\ \A i \in 1 .. Len(c) : args[i] = c[i]
        /\ \A i \in 1 .. Len(x) : args[Len(c) + i] = x[i]
    BY <1>1, <1>8, IsConcatenation
  <2>2. CASE Len(x) = 0 /\ Len(c) = 0
    BY <2>1, <2>2 DEF Shape
  <2>3. CASE Len(x) = 0 /\ Len(c) = 1
    BY <1>3, <2>1, <2>3 DEF Shape, ConditionAt
  <2>4. CASE Len(x) = 2 /\ Len(c) = 0
    BY <1>2, <2>1, <2>4 DEF Shape, ExpiryAt
  <2>5. CASE Len(x) = 2 /\ Len(c) = 1
    BY <1>2, <1>3, <2>1, <2>5 DEF Shape, ExpiryAt, ConditionAt
  <2> QED BY <1>1, <2>2, <2>3, <2>4, <2>5
<1>9. ASSUME Shape(args)
      PROVE  \E x \in Expiry, c \in Condition : args = x \o c \/ args = c \o x
  <2>1. CASE Len(args) = 0
    BY <1>1, <1>6, <2>1, IsConcatenation
  <2>2. CASE Len(args) = 1 /\ ConditionAt(args, 1)
    <3>1. <<args[1]>> \in Condition
      BY <1>5, <2>2 DEF ConditionAt
    <3>2. args = <<>> \o <<args[1]>>
      BY <1>1, <1>6, <2>2, <3>1, IsConcatenation
    <3> QED BY <1>6, <3>1, <3>2
  <2>3. CASE Len(args) = 2 /\ ExpiryAt(args, 1)
    <3>1. <<args[1], args[2]>> \in Expiry
      BY <1>4, <2>3 DEF ExpiryAt
    <3>2. args = <<args[1], args[2]>> \o <<>>
      BY <1>1, <1>6, <2>3, <3>1, IsConcatenation
    <3> QED BY <1>6, <3>1, <3>2
  <2>4. CASE Len(args) = 3 /\ ExpiryAt(args, 1) /\ ConditionAt(args, 3)
    <3>1. <<args[1], args[2]>> \in Expiry /\ <<args[3]>> \in Condition
      BY <1>4, <1>5, <2>4 DEF ExpiryAt, ConditionAt
    <3>2. args = <<args[1], args[2]>> \o <<args[3]>>
      BY <1>1, <2>4, <3>1, IsConcatenation
    <3> QED BY <3>1, <3>2
  <2>5. CASE Len(args) = 3 /\ ConditionAt(args, 1) /\ ExpiryAt(args, 2)
    <3>1. <<args[2], args[3]>> \in Expiry /\ <<args[1]>> \in Condition
      BY <1>4, <1>5, <2>5 DEF ExpiryAt, ConditionAt
    <3>2. args = <<args[1]>> \o <<args[2], args[3]>>
      BY <1>1, <2>5, <3>1, IsConcatenation
    <3> QED BY <3>1, <3>2
  <2> QED BY <1>9, <2>1, <2>2, <2>3, <2>4, <2>5 DEF Shape
<1> DEFINE A == {e \o c : e \in Expiry, c \in Condition}
           B == {c \o e : e \in Expiry, c \in Condition}
<1>10. args \in A <=> \E x \in Expiry, c \in Condition : args = x \o c
  OBVIOUS
<1>11. args \in B <=> \E x \in Expiry, c \in Condition : args = c \o x
  OBVIOUS
<1>12. Grammar = A \cup B
  BY DEF Grammar
<1> HIDE DEF A, B
<1>13. args \in Grammar <=> args \in A \/ args \in B
  BY <1>12
<1>14. CASE Shape(args)
  <2>1. PICK x \in Expiry, c \in Condition : args = x \o c \/ args = c \o x
    BY <1>9, <1>14
  <2>2. args \in A \/ args \in B
    <3>1. CASE args = x \o c
      BY <1>10, <3>1
    <3>2. CASE args = c \o x
      BY <1>11, <3>2
    <3> QED BY <2>1, <3>1, <3>2
  <2> QED BY <1>13, <1>14, <2>2
<1>15. CASE ~Shape(args)
  <2>1. args \notin A
    BY <1>7, <1>10, <1>15
  <2>2. args \notin B
    BY <1>8, <1>11, <1>15
  <2> QED BY <1>13, <1>15, <2>1, <2>2
<1> QED BY <1>14, <1>15

(* Options of any length: the loop of parse_set takes what the documentation  *)
(* of SET writes and nothing else.                                         *)
THEOREM OptionsOfAnyLength == \A args \in Seq(Arg) : SetOptions(args) <=> args \in Grammar
  BY LoopTakesShapes, GrammarIsShapes

LEMMA TailsAreSequences == Tails \subseteq Seq(Arg)
<1> SUFFICES ASSUME NEW tail \in Tails PROVE tail \in Seq(Arg)
  OBVIOUS
<1>1. PICK n \in 0 .. 4 : tail \in [1 .. n -> Options \cup {"txt", "num", ":num", "big"}]
  BY DEF Tails
<1>2. Options \cup {"txt", "num", ":num", "big"} \subseteq Arg
  BY DEF Arg, Text
<1> QED BY <1>1, <1>2

(* The property of the run, which looks at options of up to four arguments,  *)
(* holds in every state.                                                   *)
THEOREM SetTakesItsGrammar == Spec => []SetFollowsItsGrammar
<1>1. SetFollowsItsGrammar
  BY OptionsOfAnyLength, TailsAreSequences DEF SetFollowsItsGrammar, OptionsFollowGrammar
<1> QED BY <1>1, PTL
=============================================================================
