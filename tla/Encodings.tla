----------------------------- MODULE Encodings -----------------------------
(***************************************************************************)
(* What a stored value becomes in the RDB file and in a rewritten append-  *)
(* only file, and what is read back.  An RDB file is a sequence of cells:  *)
(* an opcode, a length, a string, a deadline.  Each has a fixed size or    *)
(* begins with its length, so that a cell that is cut reads like a missing *)
(* one.  Bound: a length fits 31 bits; the other bytes of its eight are 0. *)
(***************************************************************************)
EXTENDS Collections

Seqs == INSTANCE SequencesExt

CONSTANT MaxLength     \* the lengths whose encoding is checked go up to this

ASSUME MaxLengthAssumption == MaxLength \in Nat /\ MaxLength <= 2147483647

-----------------------------------------------------------------------------
(* write_length: 6 bits, 14 bits, or a marker and 8 bytes, the most          *)
(* significant first                                                       *)
ShortUpTo64(n) == n <= 64     \* bug: one length too many in 6 bits
Short(n) == n < 64

Marked(n) ==
  LET n1 == n \div 256
      n2 == n1 \div 256
      n3 == n2 \div 256
  IN  <<128, 0, 0, 0, 0, n3, n2 % 256, n1 % 256, n % 256>>

WriteLength(n) ==
  IF Short(n) THEN <<n>>
  ELSE IF n < 16384 THEN <<64 + n \div 256, n % 256>>
  ELSE Marked(n)

(* read_length at the start of some bytes: the length, and where it ends *)
Truncated == [len |-> -1, next |-> 0]

ReadLength(b) ==
  LET form  == b[1] \div 64
      low   == b[1] % 64
      width == IF form = 0 THEN 1 ELSE IF form = 1 THEN 2 ELSE 9
  IN  IF b = <<>> \/ form > 2 \/ Len(b) < width THEN Truncated
      ELSE [len |-> IF form = 0 THEN low
                    ELSE IF form = 1 THEN low * 256 + b[2]
                    ELSE ((b[6] * 256 + b[7]) * 256 + b[8]) * 256 + b[9],
            next |-> width + 1]

(* Whatever the width that is chosen for a length, what was written is read *)
(* back and nothing more, and what was cut is noticed; there are no         *)
(* variables in this, so it is enough to evaluate it in one state.         *)
ReadsBack(n) ==
  LET b == WriteLength(n)
  IN  /\ ReadLength(b) = [len |-> n, next |-> Len(b) + 1]
      /\ \A cut \in 0 .. Len(b) - 1 : ReadLength(SubSeq(b, 1, cut)) = Truncated

LengthsReadBack == value = NoKey => \A n \in 0 .. MaxLength : ReadsBack(n)

-----------------------------------------------------------------------------
NoTtl == -1
String(bytes) == [type |-> "string", bytes |-> bytes]
Stored(v, ttl) == [val |-> v, ttl |-> ttl]

(* The iterators over a value; those of hash sets and maps have any order. *)
Orders(v) ==
  CASE v.type = "string" -> {<<>>}
    [] v.type = "list" -> {v.list}
    [] v.type = "set"  -> Seqs!SetToSeqs(v.set)
    [] v.type = "hash" -> Seqs!SetToSeqs(DOMAIN v.map)
    [] v.type = "zset" -> Seqs!SetToSeqs(DOMAIN v.scores)

(* The items of a value in the order of the iteration *)
Alternating(s, t) ==
  [i \in 1 .. 2 * Len(s) |-> IF i % 2 = 1 THEN s[(i + 1) \div 2] ELSE t[i \div 2]]

Items(v, order) ==
  CASE v.type = "string" -> <<v.bytes>>
    [] v.type \in {"list", "set"} -> order
    [] v.type = "hash" -> Alternating(order, [i \in DOMAIN order |-> v.map[order[i]]])
    [] v.type = "zset" -> Alternating([i \in DOMAIN order |-> v.scores[order[i]]], order)

(* write_value *)
WriteValue(v, order) ==
  IF v.type = "string" THEN Items(v, order) ELSE <<Len(order)>> \o Items(v, order)

(* The deadline, if there is one, then the type, the key and the value *)
WriteEntry(key, e, order) ==
  (IF e.ttl = NoTtl THEN <<>> ELSE <<"expire_ms", e.ttl>>)
    \o <<e.val.type, key>> \o WriteValue(e.val, order)

(* save_to_file, piece by piece, in the order in which an iteration over the *)
(* snapshot comes to the keys; a value's members in the order of theirs.    *)
Preamble ==
  <<<<"aux", "redis-ver", "7.0.0">>, <<"aux", "redis-bits", "64">>, <<"aux", "ctime", "now">>,
    <<"select_db", 0>>, <<"resize_db", "keys", "deadlines">>>>

Written(pieces) ==
  LET file[i \in 0 .. Len(pieces)] == IF i = 0 THEN <<"magic">> ELSE file[i - 1] \o pieces[i]
  IN  file[Len(pieces)]

Pieces(keys, store, orders) ==
  Preamble \o [i \in DOMAIN keys |-> WriteEntry(keys[i], store[keys[i]], orders[keys[i]])]

FileOf(keys, store, orders) == Written(Pieces(keys, store, orders)) \o <<"eof">>

-----------------------------------------------------------------------------
(* read_value from cell p on: the value, and where it ends *)
Cut == [ok |-> FALSE, val |-> NoKey, next |-> 0]

Pairs(items) == [i \in 1 .. Len(items) \div 2 |-> <<items[2 * i - 1], items[2 * i]>>]

(* A pair into a hash or, by the file or by ZADD, into a sorted set *)
Put(how, v, p) ==
  CASE how = "HSET" -> Hash(With(v.map, p[1], p[2]))
    [] how = "load" -> JoinOnly(v, p[1], p[2])
    [] how = "ZADD" -> Join(v, p[1], p[2])

PutAll(how, v, pairs) ==
  LET after[i \in 0 .. Len(pairs)] == IF i = 0 THEN v ELSE Put(how, after[i - 1], pairs[i])
  IN  after[Len(pairs)]

Build(type, items) ==
  CASE type = "string" -> String(items[1])
    [] type = "list" -> List(items)
    [] type = "set"  -> Set(Seqs!ToSet(items))
    [] type = "hash" -> PutAll("HSET", New(type), Pairs(items))
    [] type = "zset" -> PutAll("load", New(type), Pairs(items))

(* The items that are read: from where, behind the number that a collection *)
(* begins with, and how many cells                                         *)
Start(p, type) == IF type = "string" THEN p ELSE p + 1

CountAt(cells, p, type) ==
  CASE type = "string" -> 1
    [] type \in {"list", "set"} -> cells[p]
    [] OTHER -> 2 * cells[p]

ReadValue(cells, p, type) ==
  LET first == Start(p, type)
      next  == first + CountAt(cells, p, type)
  IN  IF p > Len(cells) THEN Cut
      ELSE IF next - 1 > Len(cells) THEN Cut
      ELSE [ok |-> TRUE, val |-> Build(type, SubSeq(cells, first, next - 1)), next |-> next]

(* load_from_file, turn by turn: an error where a cell is missing (a panic,  *)
(* when it is the type behind a deadline), but an end of the file between   *)
(* two entries is the end.  An entry whose deadline has passed is dropped. *)
Arguments(op) == IF op = "select_db" THEN 1 ELSE 2

LapsedNever(ttl, now) == FALSE     \* bug: deadlines are not looked at
Lapsed(ttl, now) == ttl # NoTtl /\ ttl <= now

Turn(cells, now, r) ==
  LET over(how) == [r EXCEPT !.stage = how]
      op    == cells[r.at]
      dated == op = "expire_ms"
      at    == IF dated THEN r.at + 2 ELSE r.at
      v     == ReadValue(cells, at + 2, cells[at])
      ttl   == IF dated THEN cells[r.at + 1] ELSE NoTtl
  IN  IF r.stage # "reading" THEN r
      ELSE IF r.at > Len(cells) THEN over("loaded")
      ELSE IF op = "eof" THEN over("loaded")
      ELSE IF op \in {"aux", "select_db", "resize_db"}
      THEN IF r.at + Arguments(op) > Len(cells) THEN over("broken")
           ELSE [r EXCEPT !.at = r.at + Arguments(op) + 1]
      ELSE IF at > Len(cells) THEN over("broken")
      ELSE IF ~v.ok THEN over("broken")
      ELSE [at |-> v.next, stage |-> "reading",
            data |-> IF Lapsed(ttl, now) THEN r.data
                     ELSE With(r.data, cells[at + 1], Stored(v.val, ttl))]

(* A turn takes at least one cell, and the first cell is no turn's. *)
Opened(cells) ==
  [at |-> 2, data |-> <<>>, stage |-> IF cells = <<>> THEN "broken" ELSE "reading"]

LoadFile(cells, now) ==
  LET after[i \in 0 .. Len(cells)] ==
        IF i = 0 THEN Opened(cells) ELSE Turn(cells, now, after[i - 1])
  IN  after[Len(cells)]

(* What a load accepts of a file that may lack its end is what was saved, up *)
(* to the last whole entry; what had expired by then does not come back.   *)
Restored(keys, store, n, now) ==
  [k \in {keys[i] : i \in {j \in 1 .. n : ~(store[keys[j]].ttl \in 0 .. now)}} |-> store[k]]

LoadsBack(keys, store, orders, now) ==
  LET file == FileOf(keys, store, orders)
      Accepts(cells, n) == LET r == LoadFile(cells, now)
                           IN  r.stage = "loaded" /\ r.data = Restored(keys, store, n, now)
  IN  /\ Accepts(file, Len(keys))
      /\ \A cut \in 0 .. Len(file) :
           \/ LoadFile(SubSeq(file, 1, cut), now).stage = "broken"
           \/ \E n \in 0 .. Len(keys) : Accepts(SubSeq(file, 1, cut), n)

(* The value beside two strings, one of them with a deadline *)
SavedFilesLoad ==
  value # NoKey =>
    \A ttl \in {NoTtl, 1}, now \in 0 .. 2 : \A order \in Orders(value) :
      LoadsBack(<<"k1", "k2", "k3">>,
                [k1 |-> Stored(String("a"), 2), k2 |-> Stored(value, ttl),
                 k3 |-> Stored(String("b"), NoTtl)],
                [k1 |-> <<>>, k2 |-> order, k3 |-> <<>>], now)

-----------------------------------------------------------------------------
(* value_to_commands: one command that builds the value, none for a         *)
(* collection without members, and the deadline in whole seconds           *)
SecondsDown(ms) == ms \div 1000     \* bug: rounded down
Seconds(ms) == IF ms = 0 THEN 1 ELSE (ms + 999) \div 1000

Builder(type) ==
  CASE type = "string" -> "SET"
    [] type = "list" -> "RPUSH"
    [] type = "set"  -> "SADD"
    [] type = "hash" -> "HSET"
    [] type = "zset" -> "ZADD"

ValueToCommands(v, order, ms) ==
  LET items == Items(v, order)
  IN  (IF items = <<>> THEN <<>> ELSE <<[name |-> Builder(v.type), args |-> items]>>)
        \o (IF ms = NoTtl THEN <<>> ELSE <<[name |-> "EXPIRE", args |-> <<Seconds(ms)>>]>>)

(* A replay: the handlers on the key, with a deadline in milliseconds *)
Run(s, c) ==
  LET old(type) == IF s.val = NoKey THEN New(type) ELSE s.val
  IN  CASE c.name = "SET"   -> Stored(String(c.args[1]), NoTtl)
        [] c.name = "RPUSH" -> [s EXCEPT !.val = List(old("list").list \o c.args)]
        [] c.name = "SADD"  -> [s EXCEPT !.val = Set(old("set").set \cup Seqs!ToSet(c.args))]
        [] c.name = "HSET"  -> [s EXCEPT !.val = PutAll("HSET", old("hash"), Pairs(c.args))]
        [] c.name = "ZADD"  -> [s EXCEPT !.val = PutAll("ZADD", old("zset"), Pairs(c.args))]
        [] c.name = "EXPIRE" -> IF s.val = NoKey THEN s
                                ELSE [s EXCEPT !.ttl = 1000 * c.args[1]]

Replayed(commands) ==
  LET after[i \in 0 .. Len(commands)] ==
        IF i = 0 THEN Stored(NoKey, NoTtl) ELSE Run(after[i - 1], commands[i])
  IN  after[Len(commands)]

(* The commands that a rewrite makes of a value, in whatever order its       *)
(* members come, replay to that value; a deadline comes back, no earlier   *)
(* and less than a second later; and of a collection that lost its last    *)
(* member nothing comes back.                                              *)
RewritesReplay ==
  \A v \in {value, String("a")} \cup {New(t) : t \in {"list", "set", "hash", "zset"}} :
    v # NoKey =>
      \A ms \in {NoTtl} \cup {1, 999, 1000, 1001} : \A order \in Orders(v) :
        LET r == Replayed(ValueToCommands(v, order, ms))
        IN  IF v.type # "string" /\ Size(v) = 0 THEN r = Stored(NoKey, NoTtl)
            ELSE /\ r.val = v
                 /\ IF ms = NoTtl THEN r.ttl = NoTtl ELSE r.ttl - ms \in 0 .. 999
=============================================================================
