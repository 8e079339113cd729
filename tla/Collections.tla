---------------------------- MODULE Collections ----------------------------
(***************************************************************************)
(* Lists, sets, hashes and sorted sets in full: what the operations of     *)
(* store/{list,set,hash,sorted_set}.rs do to the value under one key while *)
(* they hold its entry, one command at a time.  Store keeps the kind and   *)
(* the size of a value only; that its sizes are right is checked here.     *)
(***************************************************************************)
EXTENDS Ranges, FiniteSets

CONSTANTS Elem,      \* list entries, members and hash fields
          Score,     \* scores of a sorted set
          MaxLen,    \* bound on the length of a list
          MaxIndex   \* bound on the index arguments that are tried

ASSUME ScoreAssumption == Score \subseteq Int

(* One command names finitely many elements; lengths and index arguments   *)
(* are i64, half of a usize.                                               *)
ASSUME ElemAssumption ==
  IsFiniteSet(Elem) /\ Cardinality(Elem) < UsizeSize
ASSUME LengthAssumption ==
  /\ MaxLen \in Nat /\ MaxLen < UsizeSize
  /\ MaxIndex \in Nat /\ MaxIndex < UsizeSize

VARIABLES value,     \* what data holds under the key
          reply      \* the number the last command answered

vars == <<value, reply>>

-----------------------------------------------------------------------------
(* StoredValue; NoKey: the key is not in the map. *)
NoKey       == [type |-> "none"]
List(s)     == [type |-> "list", list |-> s]
Set(S)      == [type |-> "set", set |-> S]
Hash(f)     == [type |-> "hash", map |-> f]
Sorted(scores, tree) == [type |-> "zset", scores |-> scores, tree |-> tree]

(* entry(key).or_insert_with(...) *)
New(type) ==
  CASE type = "list" -> List(<<>>)
    [] type = "set"  -> Set({})
    [] type = "hash" -> Hash(<<>>)
    [] type = "zset" -> Sorted(<<>>, <<>>)

Size(v) ==
  CASE v.type = "none" -> 0
    [] v.type = "list" -> Len(v.list)
    [] v.type = "set"  -> Cardinality(v.set)
    [] v.type = "hash" -> Cardinality(DOMAIN v.map)
    [] v.type = "zset" -> Cardinality(DOMAIN v.scores)

(* ensure_type, the other way round: the command may go on *)
Holds(type) == value.type \in {"none", type}
Entry(type) == IF value.type = "none" THEN New(type) ELSE value

(* drop(entry), and the key goes when nothing is left *)
KeepAlways(v) == value' = v   \* bug: an emptied collection stays
Keep(v) == value' = IF Size(v) = 0 THEN NoKey ELSE v

(* a function without some of its arguments, and with one more *)
Without(f, S) == [x \in DOMAIN f \ S |-> f[x]]
With(f, x, y) == [z \in DOMAIN f \cup {x} |-> IF z = x THEN y ELSE f[z]]

-----------------------------------------------------------------------------
(* handle_l_push hands the values to l_push from the last to the first *)
LPush(vals) ==
  /\ Holds("list") /\ Size(value) + Len(vals) <= MaxLen
  /\ value' = List(vals \o Entry("list").list)
  /\ reply' = Size(value')

RPush(vals) ==
  /\ Holds("list") /\ Size(value) + Len(vals) <= MaxLen
  /\ value' = List(Entry("list").list \o vals)
  /\ reply' = Size(value')

LPop ==
  /\ value.type = "list"
  /\ Keep(List(Tail(value.list)))
  /\ reply' = 1

RPop ==
  /\ value.type = "list"
  /\ Keep(List(SubSeq(value.list, 1, Len(value.list) - 1)))
  /\ reply' = 1

-----------------------------------------------------------------------------
SAdd(members) ==
  /\ Holds("set")
  /\ value' = Set(Entry("set").set \cup members)
  /\ reply' = Cardinality(members \ Entry("set").set)

SRem(members) ==
  /\ value.type = "set"
  /\ Keep(Set(value.set \ members))
  /\ reply' = Cardinality(value.set \cap members)

(* the members taken are whatever the iterator of the hash set finds first *)
SPop(count) ==
  /\ value.type = "set"
  /\ \E taken \in SUBSET value.set :
       /\ Cardinality(taken) = count \/ (taken = value.set /\ Cardinality(taken) < count)
       /\ Keep(Set(value.set \ taken))
       /\ reply' = Cardinality(taken)

-----------------------------------------------------------------------------
(* the value of a field is not told apart; is_none() of the old one is *)
HSet(field) ==
  /\ Holds("hash")
  /\ value' = Hash(With(Entry("hash").map, field, "value"))
  /\ reply' = IF field \in DOMAIN Entry("hash").map THEN 0 ELSE 1

HDel(fields) ==
  /\ value.type = "hash"
  /\ Keep(Hash(Without(value.map, fields)))
  /\ reply' = Cardinality(DOMAIN value.map \cap fields)

-----------------------------------------------------------------------------
(* scores.remove of each member, and of the member in the bucket of its    *)
(* score; a bucket that loses its last member goes.                        *)
Leave(v, members) ==
  LET gone(score) == {m \in members \cap DOMAIN v.scores : v.scores[m] = score}
      left == {s \in DOMAIN v.tree : gone(s) = {} \/ v.tree[s] \ gone(s) # {}}
  IN  Sorted(Without(v.scores, members), [s \in left |-> v.tree[s] \ gone(s)])

JoinOnly(v, score, m) ==   \* bug: the member is not taken out of its old bucket
  Sorted(With(v.scores, m, score),
         With(v.tree, score, IF score \in DOMAIN v.tree THEN v.tree[score] \cup {m} ELSE {m}))

(* z_add: out of the bucket of the old score, into that of the new one *)
Join(v, score, m) ==
  LET rest == Leave(v, {m})
  IN  Sorted(With(rest.scores, m, score),
             With(rest.tree, score,
                  IF score \in DOMAIN rest.tree THEN rest.tree[score] \cup {m} ELSE {m}))

ZAdd(score, m) ==
  /\ Holds("zset")
  /\ value' = Join(Entry("zset"), score, m)
  /\ reply' = IF m \in DOMAIN Entry("zset").scores THEN 0 ELSE 1

ZRem(members) ==
  /\ value.type = "zset"
  /\ Keep(Leave(value, members))
  /\ reply' = Cardinality(members \cap DOMAIN value.scores)

-----------------------------------------------------------------------------
(* DEL, or an expiry, frees the key for another type. *)
Del ==
  /\ value' = NoKey
  /\ reply' = IF value = NoKey THEN 0 ELSE 1

Init == value = NoKey /\ reply = 0

Add ==
  \/ \E e \in Elem : \/ LPush(<<e>>) \/ RPush(<<e>>)
                    \/ \E f \in Elem : LPush(<<e, f>>) \/ RPush(<<e, f>>)
  \/ \E e \in Elem : HSet(e) \/ \E s \in Score : ZAdd(s, e)
  \/ \E es \in (SUBSET Elem) \ {{}} : SAdd(es)

Remove ==
  \/ LPop \/ RPop \/ Del
  \/ \E n \in 0 .. Cardinality(Elem) : SPop(n)
  \/ \E es \in (SUBSET Elem) \ {{}} : SRem(es) \/ HDel(es) \/ ZRem(es)

Next == Add \/ Remove

Spec == Init /\ [][Next]_vars

-----------------------------------------------------------------------------
(* Readers *)
LRange(start, stop) == ListSlice(value.list, start, stop)

LIndex(i) ==
  LET idx == AsUsize(FromEnd(Len(value.list), i))
  IN  IF idx < Len(value.list) THEN <<value.list[idx + 1]>> ELSE <<>>

(* all_members: the tree in the order of its scores, each bucket in the     *)
(* order its hash set happens to have                                      *)
Members == UNION {value.tree[s] : s \in DOMAIN value.tree}
Bucket(m) == CHOOSE s \in DOMAIN value.tree : m \in value.tree[s]
Walks ==
  {w \in [1 .. Cardinality(Members) -> Members] :
     \A i, j \in DOMAIN w : i < j => w[i] # w[j] /\ Bucket(w[i]) <= Bucket(w[j])}

ZRange(walk, start, stop) == MembersSlice(walk, start, stop)

(* tree.range(min..=max), the lengths of the buckets added up: the replies  *)
(* the connection sends.  For min > max that is none, as range panics and  *)
(* the task dies.                                                          *)
ZCountBelow(min, max) ==   \* bug: an exclusive upper bound
  LET in == {s \in DOMAIN value.tree : min <= s /\ s < max}
  IN  IF min > max THEN <<>>
      ELSE <<Cardinality({p \in in \X Elem : p[2] \in value.tree[p[1]]})>>
ZCount(min, max) ==
  LET in == {s \in DOMAIN value.tree : min <= s /\ s <= max}
  IN  IF min > max THEN <<>>
      ELSE <<Cardinality({p \in in \X Elem : p[2] \in value.tree[p[1]]})>>

-----------------------------------------------------------------------------
TypeOK ==
  /\ reply \in Int
  /\ Size(value) = 0 => value = NoKey
  /\ CASE value.type = "none" -> value = NoKey
       [] value.type = "list" -> value.list \in Seq(Elem) /\ Len(value.list) <= MaxLen
       [] value.type = "set"  -> value.set \in SUBSET Elem
       [] value.type = "hash" -> DOMAIN value.map \subseteq Elem
       [] value.type = "zset" -> /\ DOMAIN value.scores \subseteq Elem
                                 /\ DOMAIN value.tree \subseteq Score

(* The two halves of a sorted set say the same: a member is in exactly the  *)
(* bucket of its score, and no bucket is empty.  ZSCORE reads one half and *)
(* ZRANGE and ZCOUNT the other.                                            *)
Agree(scores, tree) ==
  /\ \A s \in DOMAIN tree :
       tree[s] # {} /\ tree[s] = {m \in DOMAIN scores : scores[m] = s}
  /\ \A m \in DOMAIN scores : scores[m] \in DOMAIN tree

HalvesAgree == value.type = "zset" => Agree(value.scores, value.tree)

(* ZCOUNT counts, on the tree, the members whose ZSCORE is in the interval, *)
(* whatever its bounds; where they are out of order it gives no answer at   *)
(* all, as the range panics, and there alone.  (Redis counts no member      *)
(* then.)                                                                  *)
InRange(min, max) == {m \in DOMAIN value.scores : value.scores[m] \in min .. max}
CountFollowsScores ==
  value.type = "zset" =>
    \A min, max \in Score :
      ZCount(min, max) = IF min <= max THEN <<Cardinality(InRange(min, max))>> ELSE <<>>

(* Wherever the sum with the length is not negative, LRANGE and ZRANGE take *)
(* what Redis takes, and LINDEX finds what LRANGE i i does; the casts of   *)
(* negative sums to usize do no harm.                                      *)
Indices == -MaxIndex .. MaxIndex
RangesAreRedis ==
  \A i, j \in Indices :
    /\ value.type = "list" =>
         /\ FromEnd(Len(value.list), j) >= 0 => LRange(i, j) = Redis(value.list, i, j)
         /\ LIndex(i) = Redis(value.list, i, i)
    /\ value.type = "zset" =>
         \A w \in Walks :
           FromEnd(Len(w), j) >= 0 => ZRange(w, i, j) = Redis(w, i, j)

(* Store models these operations by the kind and the size of the value: the *)
(* detailed operation leaves one of the sizes that Values allows for it,   *)
(* and no key when nothing is left.                                        *)
V == INSTANCE Values WITH Key <- {"key"}, MinInt <- 0, MaxInt <- 0

Abstract(v) == V!Stored(v.type, Size(v))
Allows(name, type, n) ==
  \E o \in V!Effect([name |-> name, type |-> type, n |-> n], Abstract(value)) :
    Abstract(value') = IF V!IsEmpty(o.val) THEN V!Absent ELSE o.val

SizesFollowValues ==
  [][/\ LPop \/ RPop => Allows("REM", "list", 1)
     /\ \A e \in Elem :
          /\ LPush(<<e>>) \/ RPush(<<e>>) => Allows("ADD", "list", 1)
          /\ HSet(e) => Allows("ADD", "hash", 1)
          /\ \A s \in Score : ZAdd(s, e) => Allows("ADD", "zset", 1)
     /\ \A es \in (SUBSET Elem) \ {{}} :
          /\ SAdd(es) => Allows("ADD", "set", Cardinality(es))
          /\ SRem(es) => Allows("REM", "set", Cardinality(es))
          /\ HDel(es) => Allows("REM", "hash", Cardinality(es))
          /\ ZRem(es) => Allows("REM", "zset", Cardinality(es))
     /\ \A n \in 0 .. Cardinality(Elem) : SPop(n) => Allows("REM", "set", n)]_vars

(* COMPATIBILITY.md: LRANGE is supported, with negative indices. *)
LRangeIsRedis ==
  \A i, j \in Indices :
    value.type = "list" => LRange(i, j) = Redis(value.list, i, j)
=============================================================================
