------------------------------- MODULE Ranges -------------------------------
(* The index arithmetic LRANGE, ZRANGE and ZREVRANGE share: i64 arguments,  *)
(* cast to usize after clamping, and the slice that is taken with them.    *)
EXTENDS Integers, Sequences

CONSTANT UsizeSize        \* 2^64, or a smaller power of two

ASSUME UsizeAssumption == UsizeSize \in Nat \ {0}

(* i as usize *)
AsUsize(i) == i % UsizeSize

FromEnd(len, i) == IF i < 0 THEN len + i ELSE i

(* {...}.max(0) as usize *)
StartIndex(len, start) ==
  LET i == FromEnd(len, start) IN AsUsize(IF i < 0 THEN 0 ELSE i)

(* {...}.min(len - 1) as usize: a stop before the first element is still    *)
(* negative here, and becomes a huge index.                                *)
StopUnclamped(len, stop) == AsUsize(FromEnd(len, stop))  \* bug: no min(len - 1)
StopIndex(len, stop) ==
  LET i == FromEnd(len, stop) IN AsUsize(IF i < len THEN i ELSE len - 1)

Nothing(len, start, stop) ==
  StartIndex(len, start) > StopIndex(len, stop) \/ StartIndex(len, start) >= len

(* list.range(start..=stop) panics on an index past the end. *)
Panic == <<"panic">>

ListSlice(s, start, stop) ==
  LET len == Len(s)
      i == StartIndex(len, start)
      j == StopIndex(len, stop)
  IN  IF Nothing(len, start, stop) THEN <<>>
      ELSE IF j >= len THEN Panic ELSE SubSeq(s, i + 1, j + 1)

(* all_members[start..=stop.min(len - 1)] *)
MembersSlice(s, start, stop) ==
  LET len == Len(s)
      i == StartIndex(len, start)
      j == StopIndex(len, stop)
  IN  IF Nothing(len, start, stop) THEN <<>>
      ELSE SubSeq(s, i + 1, (IF j < len THEN j ELSE len - 1) + 1)

-----------------------------------------------------------------------------
(* What Redis documents: the elements whose index, counted from either end, *)
(* lies between start and stop.                                            *)
Redis(s, start, stop) ==
  LET len == Len(s)
      lo  == FromEnd(len, start)
      hi  == FromEnd(len, stop)
  IN  SubSeq(s, (IF lo < 0 THEN 0 ELSE lo) + 1, (IF hi < len THEN hi ELSE len - 1) + 1)
=============================================================================
