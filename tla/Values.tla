------------------------------- MODULE Values -------------------------------
(***************************************************************************)
(* Stored values and commands, and what one DashMap entry operation of a   *)
(* command does to the value under its key.                                *)
(*                                                                         *)
(* A value keeps what the concurrent behaviour depends on: its kind, the   *)
(* number a numeric string holds, or the size of a collection.  Which      *)
(* members a collection holds, and in which order, is left to Collections.   *)
(***************************************************************************)
EXTENDS Integers

CONSTANTS Key,             \* the keys clients use
          MinInt, MaxInt   \* bounds of the i64 of a counter

(* The expiration of a key that has none. *)
NoTtl == -1

Collections == {"list", "set", "hash", "zset"}
Kinds == Collections \cup {"none", "integer", "text"}

Stored(kind, n) == [kind |-> kind, n |-> n]

(* No entry in the data map. *)
Absent == Stored("none", 0)

(* store::StoredValue: a string is a number or some other text. *)
StoredValue ==
  {v \in [kind: Kinds, n: Int] : v.kind \in Collections => v.n >= 0}

(* Store::type_of on a present value *)
TypeName(v) == IF v.kind \in {"integer", "text"} THEN "string" ELSE v.kind

(* A collection left in the map with no member. *)
IsEmpty(v) == v.kind \in Collections /\ v.n = 0

-----------------------------------------------------------------------------
(* Replies have the shape of values; NoReply: not computed yet. *)
NoReply == Stored("pending", 0)
Nil     == Stored("nil", 0)
Ok      == Stored("ok", 0)
Error   == Stored("error", 0)
Count(n) == Stored("count", n)

Reply == [kind: Kinds \cup {"pending", "nil", "ok", "error", "count"}, n: Int]

-----------------------------------------------------------------------------
(***************************************************************************)
(* A parsed command.  ADD stands for LPUSH, RPUSH, SADD, HSET and ZADD;    *)
(* REM for LPOP, RPOP, SREM, SPOP, HDEL and ZREM; LEN for the readers of a *)
(* collection; INCR with n = -1 is DECR; KEYS is also the background       *)
(* sweep.  n is the number written (SET, MSET), added (INCR) or the number *)
(* of members named (ADD, REM).                                            *)
(***************************************************************************)
Readers  == {"GET", "LEN", "EXISTS", "TTL"}
Creators == {"INCR", "APPEND", "ADD"}
Names == Readers \cup Creators \cup
         {"REM", "SET", "MSET", "DEL", "EXPIRE", "KEYS", "FLUSHALL"}

(* commands whose handler begins with ensure_type *)
Typed == {"GET", "APPEND", "ADD", "REM", "LEN"}

Command ==
  {c \in [name: Names, key: Key, keys: SUBSET Key,
          type: Collections \cup {"string", "integer", "text"},
          n: Int, ttl: Nat \cup {NoTtl}, cond: {"always", "nx", "xx"}] :
     /\ c.name \in {"SET", "MSET", "DEL"} => c.key \in c.keys
     /\ c.name \in {"SET", "MSET"} => c.type \in {"integer", "text"}
     /\ c.name \in {"ADD", "REM", "LEN"} => c.type \in Collections}

(* SET and MSET write a string; EXPIRE leaves the value alone. *)
NewString(c) == Stored(c.type, c.n)

-----------------------------------------------------------------------------
(* What follows is done under the lock of one entry: each operator gives   *)
(* the possible pairs of the value left behind and the reply.              *)
Outcome(val, reply) == [val |-> val, reply |-> reply]

(* adjust_counter: a missing key counts from 0; checked_add refuses a sum   *)
(* outside i64.                                                            *)
Adjust(c, v) ==
  LET old == IF v = Absent THEN Stored("integer", 0) ELSE v
      sum == Stored("integer", old.n + c.n)
  IN  IF old.kind = "integer" /\ sum.n \in MinInt .. MaxInt
      THEN {Outcome(sum, sum)}
      ELSE {Outcome(v, Error)}

(* append, of a payload that is not a number *)
AppendTo(c, v) ==
  IF v = Absent \/ TypeName(v) = "string"
  THEN {Outcome(Stored("text", 0), Ok)}
  ELSE {Outcome(v, Count(0))}

(* The sizes an insertion can leave: SADD inserts all its members at once,  *)
(* the others one per call; only a list grows whatever it holds.           *)
SizesAfterAdd(c, n) ==
  IF c.type = "list" THEN {n + 1}
  ELSE {m \in n .. n + (IF c.type = "set" THEN c.n ELSE 1) : m > 0}

(* l_push, r_push, s_add, h_set, z_add; another type is left as it is *)
AddToAny(c, v) ==   \* bug: a value of another type is replaced
  LET old == IF v.kind = c.type THEN v ELSE Stored(c.type, 0)
  IN  {Outcome(Stored(c.type, m), Ok) : m \in SizesAfterAdd(c, old.n)}
AddTo(c, v) ==
  LET old == IF v = Absent THEN Stored(c.type, 0) ELSE v
  IN  IF old.kind = c.type
      THEN {Outcome(Stored(c.type, m), Ok) : m \in SizesAfterAdd(c, old.n)}
      ELSE {Outcome(v, Count(0))}

(* The sizes a removal can leave: a pop takes one entry, SREM, HDEL, ZREM   *)
(* and SPOP up to n.                                                       *)
PopUnchecked(c, n) ==   \* bug: pops from an emptied list
  IF c.type = "list" THEN {n - 1} ELSE {m \in 0 .. n : n - m <= c.n}
SizesAfterRem(c, n) ==
  IF c.type = "list" THEN {IF n = 0 THEN 0 ELSE n - 1}
  ELSE {m \in 0 .. n : n - m <= c.n}

(* l_pop, r_pop, s_rem, s_pop, h_del, z_rem, up to drop(entry) *)
RemFrom(c, v) ==
  IF v.kind = c.type
  THEN {Outcome(Stored(c.type, m), IF m = v.n THEN Nil ELSE Ok) :
          m \in SizesAfterRem(c, v.n)}
  ELSE {Outcome(v, Nil)}

(* get, exists, l_len, s_card, h_len, z_card *)
ReadOf(c, v) ==
  CASE c.name = "GET" -> IF TypeName(v) = "string" THEN v ELSE Nil
    [] c.name = "LEN" -> IF v.kind = c.type THEN Count(v.n) ELSE Count(0)
    [] OTHER          -> IF v = Absent THEN Nil ELSE Ok

Effect(c, v) ==
  CASE c.name = "INCR"   -> Adjust(c, v)
    [] c.name = "APPEND" -> AppendTo(c, v)
    [] c.name = "ADD"    -> AddTo(c, v)
    [] c.name = "REM"    -> RemFrom(c, v)
    [] OTHER             -> {Outcome(v, ReadOf(c, v))}
=============================================================================
