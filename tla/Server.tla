------------------------------- MODULE Server -------------------------------
(***************************************************************************)
(* The server around the store: the accept loop, a task for each           *)
(* connection that reads requests from a stream, counts, executes and      *)
(* answers them, the counters that INFO reads, and shutdown.  The store     *)
(* plays no part: a command answers "ok", or "error" when it does not      *)
(* parse.                                                                  *)
(***************************************************************************)
EXTENDS Integers, FiniteSets, Sequences, Resp, Parsing

CONSTANTS Client,
          Menu,          \* Menu[c]: the requests client c may send
          MaxRequests,   \* bounds on the requests of each connection
          Quitters       \* the clients that stop in the middle, or go away

ASSUME ClientAssumption == IsFiniteSet(Client)

(* A request is the tokens a client sends and the answer it may expect: a    *)
(* whole value, and what the server answers to it; or something that cannot *)
(* begin a value.                                                          *)
Reply(items) == IF Parse(Head(items), Tail(items)) = "error" THEN "error" ELSE "ok"

ReplyTo(d) == IF d.items # <<>> THEN Reply(d.items) ELSE IF d.array THEN "empty" ELSE "format"

WholeRequest(r) ==
  LET d == Decode(r.tokens) IN
  /\ r.tokens \in Seq(Tokens)
  /\ d.st # "more"
  /\ d.st = "ok" => d.used = Len(r.tokens) /\ r.answer = ReplyTo(d)
  /\ d.st = "error" => r.answer = "protocol"

ASSUME MenuAssumption == \A c \in Client : \A r \in Menu[c] : WholeRequest(r)

VARIABLES stage,               \* where Server::run is
          at,                  \* what each connection's task does next
          told,                \* the shutdown broadcast waits for this task
          peer,                \* the client sends, sends no more, is gone
          wire, buf,           \* tokens under way; the read buffer of Framed
          errored,             \* Framed has returned an error
          frame, out,          \* the request being worked on, and its answer
          total, names,        \* total_commands, the sum of command_counts
          latencies, buckets,  \* latency_count, the sum of latency_buckets
          active,              \* active_connections
          seen,                \* the MetricsSnapshot a task is taking
          asked, torn, replies \* history: the whole requests each client sent,
                               \* whether a piece follows, and what it got

stream   == <<peer, wire>>
framed   == <<buf, errored>>
work     == <<frame, out, seen>>
commands == <<total, names>>
times    == <<latencies, buckets>>
history  == <<asked, torn, replies>>
vars == <<stage, at, told, stream, framed, work, commands, times, active, history>>

Ended == {"closed", "panicked", "cut"}
Live  == {"poll", "count", "name", "execute", "read_names", "read_buckets", "read_total",
          "read_latencies", "latency", "bucket", "send", "close"}

Unread == [names |-> -1, buckets |-> -1, total |-> -1, latencies |-> -1]

Init ==
  /\ stage = "accept"
  /\ at = [c \in Client |-> "away"] /\ told = [c \in Client |-> FALSE]
  /\ peer = [c \in Client |-> "sends"] /\ wire = [c \in Client |-> <<>>]
  /\ buf = [c \in Client |-> <<>>] /\ errored = [c \in Client |-> FALSE]
  /\ frame = [c \in Client |-> <<>>] /\ out = [c \in Client |-> "none"]
  /\ seen = [c \in Client |-> Unread]
  /\ total = 0 /\ names = 0 /\ latencies = 0 /\ buckets = 0 /\ active = 0
  /\ asked = [c \in Client |-> <<>>] /\ torn = [c \in Client |-> FALSE]
  /\ replies = [c \in Client |-> <<>>]

At(c, label) == at[c] = label
Goto(c, label) == at' = [at EXCEPT ![c] = label]

-----------------------------------------------------------------------------
(* What clients do: send requests one after the other without waiting, stop *)
(* between two or in the middle of one, go away.                           *)
Sending(c) == at[c] \in Live /\ peer[c] = "sends" /\ Len(asked[c]) < MaxRequests[c]

Ask(c) ==
  /\ Sending(c)
  /\ \E r \in Menu[c] :
       /\ asked' = [asked EXCEPT ![c] = Append(@, r)]
       /\ wire' = [wire EXCEPT ![c] = @ \o r.tokens]
  /\ UNCHANGED <<stage, at, told, peer, framed, work, commands, times, active, torn, replies>>

StopSending(c) ==
  /\ c \in Quitters /\ Sending(c)
  /\ \E r \in Menu[c] : \E n \in 0 .. Len(r.tokens) - 1 :
       /\ wire' = [wire EXCEPT ![c] = @ \o SubSeq(r.tokens, 1, n)]
       /\ torn' = [torn EXCEPT ![c] = n > 0]
  /\ peer' = [peer EXCEPT ![c] = "silent"]
  /\ UNCHANGED <<stage, at, told, framed, work, commands, times, active, asked, replies>>

Leave(c) ==
  /\ c \in Quitters /\ at[c] \in Live /\ peer[c] # "gone"
  /\ peer' = [peer EXCEPT ![c] = "gone"]
  /\ asked' = [asked EXCEPT ![c] = <<>>] /\ torn' = [torn EXCEPT ![c] = FALSE]
  /\ replies' = [replies EXCEPT ![c] = <<>>]
  /\ UNCHANGED <<stage, at, told, wire, framed, work, commands, times, active>>

-----------------------------------------------------------------------------
(* run: the accept loop.  A connection is counted and subscribes to the     *)
(* shutdown as it is accepted; nothing compares their number with          *)
(* max_connections.                                                        *)
Uncounted == active     \* bug: record_connection_opened is not called
Opened == active + 1

Accept(c) ==
  /\ stage = "accept" /\ At(c, "away")
  /\ active' = Opened
  /\ Goto(c, "poll")
  /\ UNCHANGED <<stage, told, stream, framed, work, commands, times, history>>

AcceptFails ==
  /\ stage = "accept" /\ stage' = "backoff"
  /\ UNCHANGED <<at, told, stream, framed, work, commands, times, active, history>>

TryAgain ==
  /\ stage = "backoff" /\ stage' = "accept"
  /\ UNCHANGED <<at, told, stream, framed, work, commands, times, active, history>>

(* ctrl_c is only listened to next to accept: one that comes during the     *)
(* pause after an error, or together with a connection, is lost.           *)
Interrupt ==
  /\ stage = "accept" /\ stage' = "linger"
  /\ told' = [c \in Client |-> at[c] \in Live]
  /\ UNCHANGED <<at, stream, framed, work, commands, times, active, history>>

(* What a task holds goes with it, and the history of its connection. *)
Drop(ended) ==
  LET without(f, nothing) == [c \in Client |-> IF c \in ended THEN nothing ELSE f[c]]
  IN  /\ wire' = without(wire, <<>>) /\ buf' = without(buf, <<>>)
      /\ errored' = without(errored, FALSE) /\ told' = without(told, FALSE)
      /\ peer' = without(peer, "gone")
      /\ frame' = without(frame, <<>>) /\ out' = without(out, "none")
      /\ seen' = without(seen, Unread)
      /\ asked' = without(asked, <<>>) /\ torn' = without(torn, FALSE)
      /\ replies' = without(replies, <<>>)

(* After the last save and a second for the connections the process ends,   *)
(* and what they still do with it.                                         *)
Exit ==
  /\ stage = "linger" /\ stage' = "ended"
  /\ at' = [c \in Client |-> IF at[c] \in Ended THEN at[c] ELSE "cut"]
  /\ Drop(Client)
  /\ UNCHANGED <<commands, times, active>>

-----------------------------------------------------------------------------
(* handle_connection waits for a request or the shutdown.  Framed decodes   *)
(* what it has, and reads when that is not enough; what a read returns is   *)
(* any part of what is under way.                                          *)
Polls(c, st) == At(c, "poll") /\ ~errored[c] /\ Decode(buf[c]).st = st

Advanced(c) == SubSeq(buf[c], Decode(buf[c]).used + 1, Len(buf[c]))

ReadMore(c) ==
  /\ Polls(c, "more")
  /\ \E n \in 1 .. Len(wire[c]) :
       /\ buf' = [buf EXCEPT ![c] = Advanced(c) \o SubSeq(wire[c], 1, n)]
       /\ wire' = [wire EXCEPT ![c] = SubSeq(@, n + 1, Len(@))]
  /\ UNCHANGED <<stage, at, told, peer, errored, work, commands, times, active, history>>

Answer(c, reply) == Goto(c, "send") /\ out' = [out EXCEPT ![c] = reply]

NextFrame(c) ==
  /\ Polls(c, "ok")
  /\ buf' = [buf EXCEPT ![c] = Advanced(c)]
  /\ LET d == Decode(buf[c]) IN
     \/ d.items # <<>> /\ Goto(c, "count") /\ frame' = [frame EXCEPT ![c] = d.items]
                       /\ UNCHANGED out
     \/ d.array /\ d.items = <<>> /\ Answer(c, "empty") /\ UNCHANGED frame
     \/ ~d.array /\ Answer(c, "format") /\ UNCHANGED frame
  /\ UNCHANGED <<stage, told, stream, errored, seen, commands, times, active, history>>

(* bug: a client that only closes its half of the connection is waited for *)
AtReset(c) == Polls(c, "more") /\ wire[c] = <<>> /\ peer[c] = "gone"
AtEnd(c) == Polls(c, "more") /\ wire[c] = <<>> /\ peer[c] # "sends"

(* Bytes that cannot be a request, or an end in the middle of one *)
ProtocolError(c) ==
  /\ Polls(c, "error") \/ (AtEnd(c) /\ buf[c] # <<>>)
  /\ errored' = [errored EXCEPT ![c] = TRUE]
  /\ Answer(c, "protocol")
  /\ UNCHANGED <<stage, told, stream, buf, frame, seen, commands, times, active, history>>

(* An end between requests; Framed also ends after an error. *)
EndOfStream(c) ==
  /\ (AtEnd(c) /\ buf[c] = <<>>) \/ (At(c, "poll") /\ errored[c])
     \/ (Polls(c, "more") /\ peer[c] = "gone")
  /\ Goto(c, "close")
  /\ UNCHANGED <<stage, told, stream, framed, work, commands, times, active, history>>

(* The task dies; the lines after handle_connection do not run. *)
Panic(c) ==
  /\ \/ Polls(c, "panic")
     \/ At(c, "execute") /\ Parse(Head(frame[c]), Tail(frame[c])) = "overflow"
  /\ Goto(c, "panicked") /\ Drop({c})
  /\ UNCHANGED <<stage, commands, times, active>>

Got(c, reply) == replies' = [replies EXCEPT ![c] = IF peer[c] = "gone" THEN @ ELSE Append(@, reply)]

SayGoodbye(c) ==
  /\ At(c, "poll") /\ told[c]
  /\ Got(c, "closing")
  /\ Goto(c, "close")
  /\ UNCHANGED <<stage, told, stream, framed, work, commands, times, active, asked, torn>>

-----------------------------------------------------------------------------
(* record_command_named: two counters, one after the other *)
CountTotal(c) ==
  /\ At(c, "count") /\ Goto(c, "name")
  /\ total' = total + 1
  /\ UNCHANGED <<stage, told, stream, framed, work, names, times, active, history>>

CountName(c) ==
  /\ At(c, "name") /\ Goto(c, "execute")
  /\ names' = names + 1
  /\ UNCHANGED <<stage, told, stream, framed, work, total, times, active, history>>

(* A release build wraps where a debug build panics. *)
Execute(c) ==
  /\ At(c, "execute")
  /\ out' = [out EXCEPT ![c] = Reply(frame[c])]
  /\ Goto(c, IF Head(frame[c]) = "INFO" THEN "read_names" ELSE "latency")
  /\ UNCHANGED <<stage, told, stream, framed, frame, seen, commands, times, active, history>>

(* snapshot: the counts by name, then the buckets, then the totals.  The     *)
(* counters are Relaxed: that a name is seen no earlier than its command   *)
(* is due to the lock of command_counts, for the buckets to a machine that *)
(* does not reorder loads, nor additions (x86-64, which the model takes).  *)
ReadCounter(c, from, to, name, value) ==
  /\ At(c, from) /\ Goto(c, to)
  /\ seen' = [seen EXCEPT ![c] = [@ EXCEPT ![name] = value]]
  /\ UNCHANGED <<stage, told, stream, framed, frame, out, commands, times, active, history>>

TotalFirst(c) ==    \* bug: the totals are read before what they are totals of
  \/ ReadCounter(c, "read_names", "read_buckets", "total", total)
  \/ ReadCounter(c, "read_buckets", "read_total", "buckets", buckets)
  \/ ReadCounter(c, "read_total", "read_latencies", "names", names)
  \/ ReadCounter(c, "read_latencies", "latency", "latencies", latencies)

Snapshot(c) ==
  \/ ReadCounter(c, "read_names", "read_buckets", "names", names)
  \/ ReadCounter(c, "read_buckets", "read_total", "buckets", buckets)
  \/ ReadCounter(c, "read_total", "read_latencies", "total", total)
  \/ ReadCounter(c, "read_latencies", "latency", "latencies", latencies)

(* record_latency: the count, then the bucket; a latency that is above the   *)
(* last threshold counts in none, and is left out.                         *)
CountLatency(c) ==
  /\ At(c, "latency") /\ Goto(c, "bucket")
  /\ latencies' = latencies + 1
  /\ UNCHANGED <<stage, told, stream, framed, work, commands, buckets, active, history>>

CountBucket(c) ==
  /\ At(c, "bucket") /\ Goto(c, "send")
  /\ buckets' = buckets + 1
  /\ UNCHANGED <<stage, told, stream, framed, work, commands, latencies, active, history>>

(* framed.send; to a client that went away it succeeds or fails.  QUIT is    *)
(* answered like any other.                                                *)
AfterSend(c) == IF peer[c] = "gone" THEN {"poll", "close"} ELSE {"poll"}

Send(c) ==
  /\ At(c, "send")
  /\ Got(c, out[c])
  /\ \E label \in AfterSend(c) : Goto(c, label)
  /\ frame' = [frame EXCEPT ![c] = <<>>] /\ out' = [out EXCEPT ![c] = "none"]
  /\ seen' = [seen EXCEPT ![c] = Unread]
  /\ UNCHANGED <<stage, told, stream, framed, commands, times, active, asked, torn>>

(* handle_connection returned, Ok or Err: record_connection_closed *)
ClosedOk(c) == IF peer[c] = "gone" THEN active ELSE active - 1   \* bug: only after Ok
Closed(c) == active - 1

Close(c) ==
  /\ At(c, "close") /\ Goto(c, "closed")
  /\ active' = Closed(c)
  /\ Drop({c})
  /\ UNCHANGED <<stage, commands, times>>

Task(c) ==
  \/ ReadMore(c) \/ NextFrame(c) \/ ProtocolError(c) \/ EndOfStream(c) \/ Panic(c)
  \/ SayGoodbye(c) \/ CountTotal(c) \/ CountName(c) \/ Execute(c) \/ Snapshot(c)
  \/ CountLatency(c) \/ CountBucket(c) \/ Send(c) \/ Close(c)

Next ==
  \/ AcceptFails \/ TryAgain \/ Interrupt \/ Exit
  \/ \E c \in Client : Accept(c) \/ Ask(c) \/ StopSending(c) \/ Leave(c) \/ Task(c)

(* The runtime polls every task that can go on.  Clients, the network up to *)
(* the first byte, and the user who interrupts are free.                   *)
Fairness == \A c \in Client : WF_<<at, buf>>(Task(c))

Spec == Init /\ [][Next]_vars /\ Fairness

-----------------------------------------------------------------------------
Answers == {"none", "empty", "format", "protocol", "ok", "error"}

TypeOK ==
  /\ stage \in {"accept", "backoff", "linger", "ended"}
  /\ at \in [Client -> {"away"} \cup Live \cup Ended]
  /\ peer \in [Client -> {"sends", "silent", "gone"}]
  /\ {told, errored, torn} \subseteq [Client -> BOOLEAN]
  /\ {wire, buf} \subseteq [Client -> Seq(Tokens)]
  /\ frame \in [Client -> Seq(Word)] /\ out \in [Client -> Answers]
  /\ {total, names, latencies, buckets, active} \subseteq Nat
  /\ seen \in [Client -> [names: Int, buckets: Int, total: Int, latencies: Int]]
  /\ \A c \in Client : asked[c] \in Seq(Menu[c])
  /\ replies \in [Client -> Seq(Answers \cup {"closing"})]

(* However the stream is cut into reads, and however requests are piled up,  *)
(* the answers are those to the requests that were sent, one for each, in   *)
(* their order; an error of the protocol answers what is no request, and    *)
(* comes last but for the notice of a shutdown.                            *)
AnswersFollowRequests ==
  \A c \in Client : \A i \in 1 .. Len(replies[c]) :
    \/ i <= Len(asked[c]) /\ replies[c][i] = asked[c][i].answer
    \/ i = Len(asked[c]) + 1 /\ torn[c] /\ replies[c][i] = "protocol"
    \/ i = Len(replies[c]) /\ told[c] /\ replies[c][i] = "closing"

(* Command::try_from takes of SET what its documentation says; there are no  *)
(* variables in this, so it is enough to evaluate it before any connection. *)
SetFollowsItsGrammar == (\A c \in Client : at[c] = "away") => OptionsFollowGrammar

(* active_connections is the number of connections that are served, plus    *)
(* those whose task panicked, which it never forgets; whichever way the     *)
(* others ended.                                                           *)
Served == {c \in Client : at[c] \in Live}
Lost   == {c \in Client : at[c] = "panicked"}

GaugeCountsConnections ==
  stage # "ended" => active = Cardinality(Served) + Cardinality(Lost)

(* In every snapshot that INFO takes while other connections count, the      *)
(* commands by name are no more than all commands, and the buckets no more  *)
(* than the latencies counted.                                             *)
SnapshotAddsUp ==
  \A c \in Client :
    /\ seen[c].names >= 0 /\ seen[c].total >= 0 => seen[c].names <= seen[c].total
    /\ seen[c].buckets >= 0 /\ seen[c].latencies >= 0 => seen[c].buckets <= seen[c].latencies

(* Every whole request is answered, and the task of a client that sends no   *)
(* more or went away ends, wherever it was.                                *)
Owes(c) == at[c] \in Live /\ (Len(replies[c]) < Len(asked[c]) \/ peer[c] # "sends")

TasksKeepUp == \A c \in Client : Owes(c) ~> ~Owes(c)
=============================================================================
