-------------------------------- MODULE Resp --------------------------------
(***************************************************************************)
(* The RESP decoder over a read buffer of tokens: the header of an array,   *)
(* or a whole scalar value.  A token is in the buffer when its last byte   *)
(* is; a line without its end and a bulk string shorter than its header    *)
(* says are read like the end of the buffer.                               *)
(***************************************************************************)
EXTENDS Integers, Sequences

CONSTANT Word      \* the classes of scalar values that a client may send

ASSUME WordAssumption == "other" \in Word

Header(n) == [t |-> "array", n |-> n]      \* "*n"; -1 is the null array
Scalar(v) == [t |-> "scalar", v |-> v]
Bad  == [t |-> "bad"]        \* an unknown type, or a length that is no number
Huge == [t |-> "huge"]       \* an array of more elements than a Vec can hold

Tokens == {Bad, Huge} \cup [t: {"array"}, n: Int] \cup [t: {"scalar"}, v: Word]

IsArray(token) == token.t = "array" /\ token.n >= 0
Elements(token) == IF IsArray(token) THEN token.n ELSE 0

(* parse_value: the end of `need` values from position p on.  An array asks   *)
(* for its elements before whatever follows it, so they are counted among   *)
(* the values that are still needed.                                       *)
Ends(buf) ==
  LET stop(st) == [st |-> st, next |-> 0]
      ends[p \in 1 .. Len(buf) + 1] ==
        [need \in Nat |->
          IF need = 0 THEN [st |-> "ok", next |-> p]
          ELSE IF p > Len(buf) THEN stop("more")
          ELSE IF buf[p] = Bad THEN stop("error")
          ELSE IF buf[p] = Huge THEN stop("panic")
          ELSE ends[p + 1][need - 1 + Elements(buf[p])]]
  IN  ends

Skip(buf, start, count) == Ends(buf)[start][count]

(* parse_array at the top: a value that is itself an array, or null, is of   *)
(* no use as an argument.                                                  *)
Items(buf) ==
  [i \in 1 .. buf[1].n |->
    LET p == Skip(buf, 2, i - 1).next IN IF buf[p].t = "scalar" THEN buf[p].v ELSE "other"]

Nothing(st, used) == [st |-> st, used |-> used, array |-> FALSE, items |-> <<>>]

(* bug: what was read of an unfinished value is taken from the buffer *)
DecodeAndDrop(buf) ==
  LET end == Skip(buf, 1, 1)
  IN  IF end.st # "ok" THEN Nothing(end.st, Len(buf))
      ELSE [st |-> "ok", used |-> end.next - 1, array |-> IsArray(buf[1]),
            items |-> IF IsArray(buf[1]) THEN Items(buf) ELSE <<>>]

(* decode: the buffer is advanced over a whole value, or not at all. *)
Decode(buf) ==
  LET end == Skip(buf, 1, 1)
  IN  IF end.st # "ok" THEN Nothing(end.st, 0)
      ELSE [st |-> "ok", used |-> end.next - 1, array |-> IsArray(buf[1]),
            items |-> IF IsArray(buf[1]) THEN Items(buf) ELSE <<>>]
=============================================================================
