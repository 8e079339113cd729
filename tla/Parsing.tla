------------------------------- MODULE Parsing -------------------------------
(***************************************************************************)
(* Command::try_from: from the values of a request to a command or an      *)
(* error.  An argument is a class of values: the text of an option, "txt"  *)
(* for other text, "num", "neg" and "float" for numerals, "big" for one    *)
(* that fits u64 and not i64 (its thousandfold does not fit u64), ":num"   *)
(* and ":neg" for RESP integers, the small ones, and "other" for what is   *)
(* neither text nor integer.  Error texts are left out.                    *)
(***************************************************************************)
EXTENDS Integers, Sequences, TLC

Options == {"EX", "PX", "NX", "XX"}
Text    == Options \cup {"txt", "num", "neg", "float", "big"}
Arg     == Text \cup {":num", ":neg", "other"}

(* bulk_to_string and bulk_to_bytes, _u64, _i64, _f64 *)
Converts(kind) ==
  CASE kind = "text"  -> Text
    [] kind = "u64"   -> {"num", "big", ":num"}
    [] kind = "i64"   -> {"num", "neg", ":num", ":neg"}
    [] kind = "f64"   -> {"num", "neg", "float", "big", ":num", ":neg"}

-----------------------------------------------------------------------------
(* What a command takes: fixed arguments, and then groups of arguments, at  *)
(* least one, unless rest is empty.                                        *)
Takes(fixed, rest) == [fixed |-> fixed, rest |-> rest]
Nullary == Takes(<<>>, <<>>)
OneKey  == Takes(<<"text">>, <<>>)
TwoTexts == Takes(<<"text", "text">>, <<>>)
KeyAndValues == Takes(<<"text">>, <<"text">>)
KeyAndPairs  == Takes(<<"text">>, <<"text", "text">>)
KeyAndRange  == Takes(<<"text", "i64", "i64">>, <<>>)

StringCommands ==
  [n \in {"ECHO", "GET", "TTL", "PTTL", "INCR", "DECR", "STRLEN", "TYPE", "KEYS"} |-> OneKey]
  @@ [n \in {"DEL", "EXISTS", "MGET"} |-> Takes(<<>>, <<"text">>)]
  @@ "EXPIRE" :> Takes(<<"text", "u64">>, <<>>)
  @@ "MSET"   :> Takes(<<>>, <<"text", "text">>)
  @@ "APPEND" :> TwoTexts
  @@ "FLUSHALL" :> Nullary

ListCommands ==
  [n \in {"LPUSH", "RPUSH"} |-> KeyAndValues]
  @@ [n \in {"LPOP", "RPOP", "LLEN"} |-> OneKey]
  @@ "LINDEX" :> Takes(<<"text", "i64">>, <<>>)
  @@ "LRANGE" :> KeyAndRange

SetCommands ==
  [n \in {"SADD", "SREM"} |-> KeyAndValues]
  @@ [n \in {"SMEMBERS", "SCARD"} |-> OneKey]
  @@ "SISMEMBER" :> TwoTexts

HashCommands ==
  [n \in {"HLEN", "HKEYS", "HVALS", "HGETALL"} |-> OneKey]
  @@ [n \in {"HGET", "HEXISTS"} |-> TwoTexts]
  @@ "HSET" :> KeyAndPairs
  @@ "HDEL" :> KeyAndValues

SortedSetCommands ==
  [n \in {"ZRANGE", "ZREVRANGE"} |-> KeyAndRange]
  @@ "ZADD"   :> Takes(<<"text">>, <<"f64", "text">>)
  @@ "ZSCORE" :> TwoTexts
  @@ "ZREM"   :> KeyAndValues
  @@ "ZCARD"  :> OneKey
  @@ "ZCOUNT" :> Takes(<<"text", "f64", "f64">>, <<>>)

Signature ==
  StringCommands @@ ListCommands @@ SetCommands @@ HashCommands @@ SortedSetCommands

ArityFits(sig, n) ==
  LET left == n - Len(sig.fixed)
      g == Len(sig.rest)
  IN  IF g = 0 THEN left = 0 ELSE left >= g /\ left % g = 0

(* The kind the argument at position i is converted to; pairs come from     *)
(* chunks(2).                                                              *)
KindAt(sig, i) ==
  IF i <= Len(sig.fixed) THEN sig.fixed[i]
  ELSE sig.rest[((i - Len(sig.fixed) - 1) % Len(sig.rest)) + 1]

Fits(sig, args) ==
  ArityFits(sig, Len(args)) /\ \A i \in 1 .. Len(args) : args[i] \in Converts(KindAt(sig, i))

-----------------------------------------------------------------------------
(* bug: nothing keeps a second EX or PX from replacing the first *)
LastExpiryWins(args, idx, seen) == idx + 1 <= Len(args)
ExpiryMayFollow(args, idx, seen) == "px" \notin seen /\ idx + 1 <= Len(args)

Amounts(option) == IF option = "EX" THEN Converts("u64") \ {"big"} ELSE Converts("u64")

(* What the loop makes of the rest from each option on, by what it has set *)
Loop(args) ==
  LET loop[idx \in 1 .. Len(args) + 2] ==
        [seen \in SUBSET {"px", "condition"} |->
          IF idx > Len(args) THEN "command"
          ELSE IF /\ args[idx] \in {"EX", "PX"} /\ ExpiryMayFollow(args, idx, seen)
                  /\ args[idx + 1] \in Amounts(args[idx])
               THEN loop[idx + 2][seen \cup {"px"}]
          ELSE IF args[idx] \in {"NX", "XX"} /\ "condition" \notin seen
               THEN loop[idx + 1][seen \cup {"condition"}]
          ELSE "error"]
  IN  loop

SetOptions(args) == Loop(args)[1][{}] = "command"

ParsesSet(args) ==
  /\ Len(args) >= 2 /\ args[1] \in Text /\ args[2] \in Text
  /\ SetOptions(SubSeq(args, 3, Len(args)))

ParsesSPop(args) == Fits(OneKey, args) \/ Fits(Takes(<<"text", "u64">>, <<>>), args)

(* try_from: PING, INFO and QUIT take anything.  The seconds of EXPIRE are  *)
(* multiplied without a check: a panic in a debug build.                   *)
Parse(name, args) ==
  CASE name \in {"PING", "INFO", "QUIT"} -> "command"
    [] name = "SET"  -> IF ParsesSet(args) THEN "command" ELSE "error"
    [] name = "SPOP" -> IF ParsesSPop(args) THEN "command" ELSE "error"
    [] name \in DOMAIN Signature ->
         IF ~Fits(Signature[name], args) THEN "error"
         ELSE IF name = "EXPIRE" /\ args[2] = "big" THEN "overflow" ELSE "command"
    [] OTHER -> "error"

-----------------------------------------------------------------------------
(* The grammar of SET's options as the documentation of the command gives   *)
(* it: [EX seconds | PX milliseconds] and [NX | XX], in either order.       *)
Expiry    == {<<>>} \cup {<<o, n>> : o \in {"EX", "PX"}, n \in {"num", ":num"}}
                    \cup {<<"PX", "big">>}
Condition == {<<>>, <<"NX">>, <<"XX">>}
Grammar   == {e \o c : e \in Expiry, c \in Condition} \cup {c \o e : e \in Expiry, c \in Condition}

Tails == UNION {[1 .. n -> Options \cup {"txt", "num", ":num", "big"}] : n \in 0 .. 4}

(* SET's loop over its options, with its index that moves by one or by two, *)
(* takes exactly what the grammar takes, over every sequence of up to four  *)
(* arguments.                                                              *)
OptionsFollowGrammar == \A tail \in Tails : SetOptions(tail) <=> tail \in Grammar
=============================================================================
