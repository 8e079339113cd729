------------------------------ MODULE MCStore ------------------------------
(* Small instances of Store: each *Mix is the set of commands the clients  *)
(* of one configuration send, on the keys "a" and "b".                     *)
EXTENDS Store

Cmd(name, k, type, n) ==
  [name |-> name, key |-> k, keys |-> {k}, type |-> type, n |-> n,
   ttl |-> NoTtl, cond |-> "always"]

SetInt(k) == Cmd("SET", k, "integer", 0)
SetEx(k) == [SetInt(k) EXCEPT !.ttl = 1]
SetIf(k, cond) == [SetInt(k) EXCEPT !.cond = cond]
Get(k) == Cmd("GET", k, "string", 0)
Incr(k) == Cmd("INCR", k, "string", 1)
Decr(k) == Cmd("INCR", k, "string", -1)
Append(k) == Cmd("APPEND", k, "string", 0)
Exists(k) == Cmd("EXISTS", k, "string", 0)
Del(k) == Cmd("DEL", k, "string", 0)
Expire(k) == [Cmd("EXPIRE", k, "string", 0) EXCEPT !.ttl = 1]
Ttl(k) == Cmd("TTL", k, "string", 0)
Push(k, n) == Cmd("ADD", k, "list", n)
Pop(k) == Cmd("REM", k, "list", 1)
Sadd(k, n) == Cmd("ADD", k, "set", n)
Srem(k, n) == Cmd("REM", k, "set", n)
Len(k, t) == Cmd("LEN", k, t, 0)
KeysAll(k) == Cmd("KEYS", k, "string", 0)
FlushAll(k) == Cmd("FLUSHALL", k, "string", 0)
Mset(k) == [Cmd("MSET", k, "integer", 0) EXCEPT !.keys = Key]
DelAll(k) == [Del(k) EXCEPT !.keys = Key]

(* Writers, poppers, expiry and deletion race on one key. *)
RacesMix == {SetEx("a"), Push("a", 1), Pop("a"), Incr("a"), Del("a"), Expire("a")}

(* Two clients, no deadline and no removal of members: strings on "a",     *)
(* sets on "b".                                                            *)
PlainMix ==
  {SetInt("a"), Get("a"), Incr("a"), Decr("a"), Append("a"), Exists("a"), Del("a"),
   Sadd("b", 1), Len("b", "set"), Del("b")}

(* Everything a client can send, one client at a time. *)
SoloMix ==
  {SetEx("a"), SetInt("a"), SetIf("a", "nx"), SetIf("a", "xx"), Get("a"), Incr("a"),
   Append("a"), Exists("a"), Del("a"), Expire("a"), Ttl("a"), Mset("a"), DelAll("a"),
   Push("b", 2), Pop("b"), Len("b", "list"), Sadd("b", 2), Srem("b", 2), Expire("b"),
   SetEx("b"), KeysAll("a"), FlushAll("a")}

(* Two clients push to and pop from one list. *)
QueueMix == {Push("a", 1), Pop("a")}

(* A key is given a deadline and is then overwritten without one. *)
OverwriteMix == {SetEx("a"), SetInt("a")}
=============================================================================
