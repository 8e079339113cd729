------------------------- MODULE CollectionsProofs -------------------------
(***************************************************************************)
(* What holds of the values of a key whatever the elements, the scores and *)
(* the bounds: their shape, the agreement of the two halves of a sorted    *)
(* set, the counts of a score interval, and the slices of an index range.  *)
(***************************************************************************)
EXTENDS Collections, FiniteSetTheorems, FunctionTheorems, SequenceTheorems, TLAPS

(* Members that leave take their place in their buckets with them. *)
LEMMA LeaveAgrees ==
  ASSUME NEW v, NEW members, Agree(v.scores, v.tree)
  PROVE  LET w == Leave(v, members) IN w.type = "zset" /\ Agree(w.scores, w.tree)
  BY DEF Leave, Without, Agree, Sorted

(* A member that joins leaves its old bucket first. *)
LEMMA JoinAgrees ==
  ASSUME NEW v, NEW score, NEW m, Agree(v.scores, v.tree)
  PROVE  LET w == Join(v, score, m) IN w.type = "zset" /\ Agree(w.scores, w.tree)
<1> DEFINE rest == Leave(v, {m})
           w    == Join(v, score, m)
<1>1. Agree(rest.scores, rest.tree) /\ m \notin DOMAIN rest.scores
  BY LeaveAgrees DEF Leave, Without, Sorted
<1>2. /\ w.type = "zset"
      /\ w.scores = With(rest.scores, m, score)
      /\ w.tree = With(rest.tree, score,
                       IF score \in DOMAIN rest.tree THEN rest.tree[score] \cup {m} ELSE {m})
  BY DEF Join, Sorted
<1> HIDE DEF rest, w
<1>3. Agree(w.scores, w.tree)
  BY <1>1, <1>2 DEF Agree, With
<1> QED BY <1>2, <1>3 DEF w

LEMMA EmptyAgrees == Agree(New("zset").scores, New("zset").tree)
  BY DEF New, Sorted, Agree

LEMMA AddKeepsAgreement == ASSUME HalvesAgree, Add PROVE HalvesAgree'
<1>1. CASE \E e \in Elem, s \in Score : ZAdd(s, e)
  <2>1. PICK e \in Elem, s \in Score : ZAdd(s, e)
    BY <1>1
  <2>2. Agree(Entry("zset").scores, Entry("zset").tree)
    BY <2>1, EmptyAgrees DEF ZAdd, Holds, Entry, HalvesAgree
  <2> QED BY <2>1, <2>2, JoinAgrees DEF ZAdd, HalvesAgree
<1>2. ASSUME NEW vals, LPush(vals) \/ RPush(vals) PROVE HalvesAgree'
  BY <1>2 DEF LPush, RPush, List, HalvesAgree
<1>3. ASSUME NEW e, HSet(e) PROVE HalvesAgree'
  BY <1>3 DEF HSet, Hash, HalvesAgree
<1>4. ASSUME NEW es, SAdd(es) PROVE HalvesAgree'
  BY <1>4 DEF SAdd, Set, HalvesAgree
<1>5. \/ \E vals : LPush(vals) \/ RPush(vals)
      \/ \E e \in Elem : HSet(e) \/ \E s \in Score : ZAdd(s, e)
      \/ \E es : SAdd(es)
  BY DEF Add
<1> QED BY <1>1, <1>2, <1>3, <1>4, <1>5, Zenon

LEMMA RemoveKeepsAgreement == ASSUME HalvesAgree, Remove PROVE HalvesAgree'
<1>1. CASE \E es \in (SUBSET Elem) \ {{}} : ZRem(es)
  <2>1. PICK es \in (SUBSET Elem) \ {{}} : ZRem(es)
    BY <1>1
  <2>2. Agree(value.scores, value.tree)
    BY <2>1 DEF ZRem, HalvesAgree
  <2>3. value' = NoKey \/ value' = Leave(value, es)
    BY <2>1 DEF ZRem, Keep
  <2> QED BY <2>2, <2>3, LeaveAgrees DEF HalvesAgree, NoKey
<1>2. CASE \/ LPop \/ RPop \/ Del
           \/ \E n \in 0 .. Cardinality(Elem) : SPop(n)
           \/ \E es \in (SUBSET Elem) \ {{}} : SRem(es) \/ HDel(es)
  <2> DEFINE Plain == value'.type \in {"none", "list", "hash", "set"}
  <2>1. ASSUME LPop \/ RPop \/ Del PROVE Plain
    BY <2>1 DEF LPop, RPop, Del, Keep, NoKey, List
  <2>2. ASSUME NEW n, SPop(n) PROVE Plain
    BY <2>2 DEF SPop, Keep, NoKey, Set
  <2>3. ASSUME NEW es, SRem(es) \/ HDel(es) PROVE Plain
    BY <2>3 DEF SRem, HDel, Keep, NoKey, Set, Hash
  <2>4. Plain
    BY <1>2, <2>1, <2>2, <2>3, Zenon
  <2> QED BY <2>4 DEF HalvesAgree
<1> QED BY <1>1, <1>2 DEF Remove

(* On every sequence of commands, for every set of members and scores, the  *)
(* score map and the score tree of a sorted set describe the same members  *)
(* and no bucket of the tree is empty.                                     *)
THEOREM SortedSetHalvesAgree == Spec => []HalvesAgree
<1>1. Init => HalvesAgree
  BY DEF Init, HalvesAgree, NoKey
<1>2. HalvesAgree /\ [Next]_vars => HalvesAgree'
  <2>1. ASSUME HalvesAgree, UNCHANGED vars PROVE HalvesAgree'
    BY <2>1 DEF vars, HalvesAgree
  <2> QED BY <2>1, AddKeepsAgreement, RemoveKeepsAgreement DEF Next
<1> QED BY <1>1, <1>2, PTL DEF Spec

-----------------------------------------------------------------------------
(* The contents a value can have, type by type. *)
IsList(v) == \E s \in Seq(Elem) : v = List(s) /\ Len(s) <= MaxLen
IsSet(v)  == \E S \in SUBSET Elem : v = Set(S)
IsHash(v) == \E D \in SUBSET Elem : \E f \in [D -> {"value"}] : v = Hash(f)
IsSorted(v) ==
  \E D \in SUBSET Elem : \E E \in SUBSET Score :
    \E f \in [D -> Score] : \E t \in [E -> SUBSET Elem] : v = Sorted(f, t)

Collected(v) == IsList(v) \/ IsSet(v) \/ IsHash(v) \/ IsSorted(v)

(* The inductive strengthening of TypeOK: a value that is kept has contents. *)
Shaped(v) == v = NoKey \/ (Collected(v) /\ Size(v) # 0)
Shape == Shaped(value) /\ reply \in Int

LEMMA FiniteElems == ASSUME NEW S \in SUBSET Elem
                     PROVE  /\ IsFiniteSet(S) /\ Cardinality(S) \in Nat
                            /\ Cardinality(S) <= Cardinality(Elem)
                            /\ Cardinality(S) = 0 <=> S = {}
  BY ElemAssumption, FS_Subset, FS_CardinalityType, FS_EmptySet

LEMMA Sizes ==
  /\ Size(NoKey) = 0
  /\ \A s : Size(List(s)) = Len(s)
  /\ \A S : Size(Set(S)) = Cardinality(S)
  /\ \A f : Size(Hash(f)) = Cardinality(DOMAIN f)
  /\ \A f, t : Size(Sorted(f, t)) = Cardinality(DOMAIN f)
  BY DEF Size, NoKey, List, Set, Hash, Sorted

(* The type of a value says which contents it has. *)
LEMMA ShapeByType ==
  ASSUME NEW v, Shaped(v)
  PROVE  /\ v.type = "none" => v = NoKey
         /\ v.type = "list" => IsList(v)
         /\ v.type = "set"  => IsSet(v)
         /\ v.type = "hash" => IsHash(v)
         /\ v.type = "zset" => IsSorted(v)
         /\ v.type \in {"none", "list", "set", "hash", "zset"}
  BY DEF Shaped, Collected, NoKey, IsList, IsSet, IsHash, IsSorted, List, Set, Hash, Sorted

LEMMA SizesAreNatural == ASSUME NEW v, v = NoKey \/ Collected(v) PROVE Size(v) \in Nat
<1>1. CASE v = NoKey \/ IsList(v) \/ IsSet(v)
  BY <1>1, Sizes, FiniteElems, LenProperties DEF IsList, IsSet
<1>2. CASE IsHash(v)
  <2>1. PICK D \in SUBSET Elem : \E f \in [D -> {"value"}] : v = Hash(f)
    BY <1>2 DEF IsHash
  <2> QED BY <2>1, Sizes, FiniteElems
<1>3. CASE IsSorted(v)
  <2>1. PICK D \in SUBSET Elem : \E E \in SUBSET Score :
          \E f \in [D -> Score] : \E t \in [E -> SUBSET Elem] : v = Sorted(f, t)
    BY <1>3 DEF IsSorted
  <2> QED BY <2>1, Sizes, FiniteElems
<1> QED BY <1>1, <1>2, <1>3 DEF Collected

LEMMA KeptIsShaped == ASSUME NEW v, Keep(v), Collected(v) PROVE Shaped(value)'
  BY DEF Keep, Shaped

(* entry(key).or_insert_with(...) gives contents of the type asked for. *)
LEMMA EntriesAreCollected ==
  ASSUME Shape
  PROVE  /\ Holds("list") => IsList(Entry("list")) /\ Size(value) = Len(Entry("list").list)
         /\ Holds("set")  => IsSet(Entry("set"))
         /\ Holds("hash") => IsHash(Entry("hash"))
         /\ Holds("zset") => IsSorted(Entry("zset"))
<1>0. <<>> \in Seq(Elem) /\ Len(<<>>) = 0 /\ \A T : <<>> \in [{} -> T]
  OBVIOUS
<1>1. New("list") = List(<<>>) /\ New("hash") = Hash(<<>>) /\ New("zset") = Sorted(<<>>, <<>>)
  BY DEF New
<1>2. IsList(New("list")) /\ Len(New("list").list) = 0
  <2>1. Len(<<>>) <= MaxLen
    BY <1>0, LengthAssumption
  <2>2. List(<<>>).list = <<>>
    BY DEF List
  <2> QED BY <1>0, <1>1, <2>1, <2>2, Zenon DEF IsList
<1>3. IsSet(New("set"))
  BY DEF New, Set, IsSet
<1>4. IsHash(New("hash"))
  BY <1>0, <1>1 DEF IsHash
<1>5. IsSorted(New("zset"))
  BY <1>0, <1>1 DEF IsSorted
<1>6. value.type = "list" => Size(value) = Len(value.list)
  BY DEF Size
<1>7. value.type = "none" => Size(value) = 0
  BY DEF Size
<1> QED BY <1>2, <1>3, <1>4, <1>5, <1>6, <1>7, ShapeByType DEF Shape, Holds, Entry

-----------------------------------------------------------------------------
(* One lemma for each type: its commands leave contents of that type. *)
LEMMA PushesKeepShape ==
  ASSUME Shape, NEW vals \in Seq(Elem), vals # <<>>, LPush(vals) \/ RPush(vals)
  PROVE  Shape'
<1>1. PICK s \in Seq(Elem) : Entry("list") = List(s)
  BY EntriesAreCollected DEF LPush, RPush, IsList
<1>2. Entry("list").list = s /\ Size(value) = Len(s)
  BY <1>1, EntriesAreCollected DEF LPush, RPush, List
<1>3. PICK t : (t = vals \o s \/ t = s \o vals) /\ value' = List(t) /\ reply' = Size(value')
  BY <1>2 DEF LPush, RPush
<1>4. t \in Seq(Elem) /\ Len(t) = Len(s) + Len(vals) /\ Len(t) \in Nat /\ Len(t) > 0
  <2>1. Len(vals) \in Nat /\ Len(vals) > 0 /\ Len(s) \in Nat
    BY EmptySeq, LenProperties
  <2>2. /\ vals \o s \in Seq(Elem) /\ Len(vals \o s) = Len(s) + Len(vals)
        /\ s \o vals \in Seq(Elem) /\ Len(s \o vals) = Len(s) + Len(vals)
    BY <2>1, ConcatProperties
  <2>3. t \in Seq(Elem) /\ Len(t) = Len(s) + Len(vals)
    BY <1>3, <2>2, Zenon
  <2> QED BY <2>1, <2>3
<1>5. Len(s) + Len(vals) <= MaxLen
  BY <1>2 DEF LPush, RPush
<1>6. IsList(List(t)) /\ Size(List(t)) # 0 /\ Size(List(t)) \in Int
  BY <1>4, <1>5, Sizes DEF IsList
<1> QED BY <1>3, <1>6 DEF Shape, Shaped, Collected

LEMMA PopsKeepShape == ASSUME Shape, LPop \/ RPop PROVE Shape'
<1>1. PICK s \in Seq(Elem) : value = List(s) /\ Len(s) <= MaxLen
  BY ShapeByType DEF Shape, LPop, RPop, IsList
<1>2. s # <<>> /\ value.list = s
  BY <1>1, Sizes, EmptySeq DEF Shape, Shaped, NoKey, List
<1>3. PICK t : Keep(List(t)) /\ t \in {Tail(s), SubSeq(s, 1, Len(s) - 1)}
  BY <1>2 DEF LPop, RPop
<1>4. t \in Seq(Elem) /\ Len(t) <= MaxLen
  <2>1. Tail(s) \in Seq(Elem) /\ Len(Tail(s)) = Len(s) - 1
    BY <1>2, HeadTailProperties
  <2>2. \A i \in 1 .. Len(s) - 1 : s[i] \in Elem
    BY ElementOfSeq, LenProperties
  <2>3. SubSeq(s, 1, Len(s) - 1) \in Seq(Elem) /\ Len(SubSeq(s, 1, Len(s) - 1)) <= Len(s)
    BY <2>2, SubSeqProperties, LenProperties
  <2> QED BY <1>1, <1>3, <2>1, <2>3, LengthAssumption, LenProperties
<1>5. Shaped(value)'
  BY <1>3, <1>4, KeptIsShaped DEF Collected, IsList
<1> QED BY <1>5 DEF Shape, LPop, RPop

LEMMA SetCommandsKeepShape ==
  ASSUME Shape,
         \/ \E es \in (SUBSET Elem) \ {{}} : SAdd(es) \/ SRem(es)
         \/ \E n \in 0 .. Cardinality(Elem) : SPop(n)
  PROVE  Shape'
<1>1. ASSUME NEW es \in (SUBSET Elem) \ {{}}, SAdd(es) PROVE Shape'
  <2>1. PICK S \in SUBSET Elem : Entry("set") = Set(S)
    BY <1>1, EntriesAreCollected DEF SAdd, IsSet
  <2>2. value' = Set(S \cup es) /\ reply' = Cardinality(es \ S)
    BY <1>1, <2>1 DEF SAdd, Set
  <2>3. IsSet(Set(S \cup es)) /\ Size(Set(S \cup es)) # 0 /\ Cardinality(es \ S) \in Int
    BY Sizes, FiniteElems DEF IsSet
  <2> QED BY <2>2, <2>3 DEF Shape, Shaped, Collected
<1>2. ASSUME value.type = "set" PROVE \E S \in SUBSET Elem : value = Set(S) /\ value.set = S
  BY <1>2, ShapeByType DEF Shape, IsSet, Set
<1>3. ASSUME NEW es, SRem(es) PROVE Shape'
  <2>1. PICK S \in SUBSET Elem : value.set = S
    BY <1>2, <1>3 DEF SRem
  <2>2. IsSet(Set(S \ es)) /\ Cardinality(S \cap es) \in Int
    BY FiniteElems DEF IsSet
  <2> QED BY <1>3, <2>1, <2>2, KeptIsShaped DEF SRem, Collected, Shape
<1>4. ASSUME NEW n, SPop(n) PROVE Shape'
  <2>1. PICK S \in SUBSET Elem : value.set = S
    BY <1>2, <1>4 DEF SPop
  <2>2. PICK taken \in SUBSET S : Keep(Set(S \ taken)) /\ reply' = Cardinality(taken)
    BY <1>4, <2>1 DEF SPop
  <2>3. IsSet(Set(S \ taken)) /\ Cardinality(taken) \in Int
    BY FiniteElems DEF IsSet
  <2> QED BY <2>2, <2>3, KeptIsShaped DEF Collected, Shape
<1> QED BY <1>1, <1>3, <1>4

LEMMA HashCommandsKeepShape ==
  ASSUME Shape, \/ \E e \in Elem : HSet(e)
                \/ \E es \in (SUBSET Elem) \ {{}} : HDel(es)
  PROVE  Shape'
<1>1. ASSUME NEW e \in Elem, HSet(e) PROVE Shape'
  <2>1. PICK D \in SUBSET Elem : \E f \in [D -> {"value"}] : Entry("hash") = Hash(f)
    BY <1>1, EntriesAreCollected DEF HSet, IsHash
  <2>2. PICK f \in [D -> {"value"}] : Entry("hash") = Hash(f)
    BY <2>1
  <2> DEFINE g == With(f, e, "value")
  <2>3. value' = Hash(g) /\ reply' \in {0, 1}
    BY <1>1, <2>2 DEF HSet, Hash
  <2>4. g \in [D \cup {e} -> {"value"}]
    BY DEF With
  <2> HIDE DEF g
  <2>5. IsHash(Hash(g))
    BY <2>4 DEF IsHash
  <2>6. Size(Hash(g)) # 0
    BY <2>4, Sizes, FiniteElems
  <2> QED BY <2>3, <2>5, <2>6 DEF Shape, Shaped, Collected
<1>2. ASSUME NEW es \in (SUBSET Elem) \ {{}}, HDel(es) PROVE Shape'
  <2>1. PICK D \in SUBSET Elem : \E f \in [D -> {"value"}] : value = Hash(f)
    BY <1>2, ShapeByType DEF HDel, Shape, IsHash
  <2>2. PICK f \in [D -> {"value"}] : value = Hash(f)
    BY <2>1
  <2>3. Keep(Hash(Without(f, es))) /\ reply' = Cardinality(D \cap es)
    BY <1>2, <2>2 DEF HDel, Hash
  <2>4. Without(f, es) \in [D \ es -> {"value"}] /\ D \ es \in SUBSET Elem
    BY DEF Without
  <2>5. Collected(Hash(Without(f, es)))
    BY <2>4 DEF Collected, IsHash
  <2> QED BY <2>3, <2>5, KeptIsShaped, FiniteElems DEF Shape
<1> QED BY <1>1, <1>2

(* scores and tree stay functions of elements and of scores. *)
LEMMA LeaveIsSorted ==
  ASSUME NEW v, IsSorted(v), NEW members PROVE IsSorted(Leave(v, members))
<1>1. PICK D \in SUBSET Elem, E \in SUBSET Score :
        \E f \in [D -> Score] : \E t \in [E -> SUBSET Elem] : v = Sorted(f, t)
  BY DEF IsSorted
<1>2. PICK f \in [D -> Score] : \E t \in [E -> SUBSET Elem] : v = Sorted(f, t)
  BY <1>1
<1>3. PICK t \in [E -> SUBSET Elem] : v = Sorted(f, t)
  BY <1>2
<1>4. v.scores = f /\ v.tree = t
  BY <1>3 DEF Sorted
<1> DEFINE gone(s) == {m \in members \cap DOMAIN v.scores : v.scores[m] = s}
           left == {s \in DOMAIN v.tree : gone(s) = {} \/ v.tree[s] \ gone(s) # {}}
           u == [s \in left |-> v.tree[s] \ gone(s)]
<1>5. /\ Leave(v, members) = Sorted(Without(f, members), u)
      /\ left \in SUBSET E /\ u \in [left -> SUBSET Elem]
  <2>1. Leave(v, members) = Sorted(Without(v.scores, members), u)
    BY Zenon DEF Leave
  <2>2. left \in SUBSET E
    BY <1>4
  <2>3. \A s \in left : v.tree[s] \ gone(s) \in SUBSET Elem
    BY <1>4, <2>2
  <2> QED BY <1>4, <2>1, <2>2, <2>3
<1> HIDE DEF gone, left, u
<1>6. Without(f, members) \in [D \ members -> Score]
  BY DEF Without
<1> QED BY <1>5, <1>6 DEF IsSorted

LEMMA JoinIsSorted ==
  ASSUME NEW v, IsSorted(v), NEW score \in Score, NEW m \in Elem
  PROVE  IsSorted(Join(v, score, m)) /\ Size(Join(v, score, m)) # 0
<1> DEFINE rest == Leave(v, {m})
<1>1. PICK D \in SUBSET Elem, E \in SUBSET Score :
        \E f \in [D -> Score] : \E t \in [E -> SUBSET Elem] : rest = Sorted(f, t)
  BY LeaveIsSorted DEF IsSorted
<1>2. PICK f \in [D -> Score] : \E t \in [E -> SUBSET Elem] : rest = Sorted(f, t)
  BY <1>1
<1>3. PICK t \in [E -> SUBSET Elem] : rest = Sorted(f, t)
  BY <1>2
<1> DEFINE bucket == IF score \in E THEN t[score] \cup {m} ELSE {m}
           g == With(f, m, score)
           u == With(t, score, bucket)
<1>4. Join(v, score, m) = Sorted(g, u)
  <2>1. rest.scores = f /\ rest.tree = t
    BY <1>3 DEF Sorted
  <2> QED BY <2>1, Zenon DEF Join
<1>5. g \in [D \cup {m} -> Score] /\ D \cup {m} \in SUBSET Elem
  BY DEF With
<1>6. u \in [E \cup {score} -> SUBSET Elem] /\ E \cup {score} \in SUBSET Score
  BY DEF With
<1> HIDE DEF g, u
<1>7. Size(Sorted(g, u)) # 0
  BY <1>5, Sizes, FiniteElems
<1> QED BY <1>4, <1>5, <1>6, <1>7 DEF IsSorted

LEMMA SortedSetCommandsKeepShape ==
  ASSUME Shape, \/ \E e \in Elem, s \in Score : ZAdd(s, e)
                \/ \E es \in (SUBSET Elem) \ {{}} : ZRem(es)
  PROVE  Shape'
<1>1. ASSUME NEW e \in Elem, NEW s \in Score, ZAdd(s, e) PROVE Shape'
  <2>1. IsSorted(value') /\ Size(value') # 0
    BY <1>1, EntriesAreCollected, JoinIsSorted DEF ZAdd
  <2>2. reply' \in Int
    BY <1>1 DEF ZAdd
  <2> QED BY <2>1, <2>2 DEF Shape, Shaped, Collected
<1>2. ASSUME NEW es \in (SUBSET Elem) \ {{}}, ZRem(es) PROVE Shape'
  <2>1. Collected(Leave(value, es))
    BY <1>2, ShapeByType, LeaveIsSorted DEF ZRem, Shape, Collected
  <2>2. reply' \in Int
    BY <1>2, FiniteElems DEF ZRem
  <2> QED BY <1>2, <2>1, <2>2, KeptIsShaped DEF ZRem, Shape
<1> QED BY <1>1, <1>2

LEMMA ShapeImpliesType == Shape => TypeOK
<1> SUFFICES ASSUME Shape PROVE TypeOK
  OBVIOUS
<1>1. Size(value) = 0 => value = NoKey
  BY DEF Shape, Shaped
<1>2. value.type = "list" => value.list \in Seq(Elem) /\ Len(value.list) <= MaxLen
  BY ShapeByType DEF Shape, IsList, List
<1>3. value.type = "set" => value.set \in SUBSET Elem
  BY ShapeByType DEF Shape, IsSet, Set
<1>4. value.type = "hash" => DOMAIN value.map \subseteq Elem
  BY ShapeByType DEF Shape, IsHash, Hash
<1>5. value.type = "zset" => DOMAIN value.scores \subseteq Elem /\ DOMAIN value.tree \subseteq Score
  BY ShapeByType DEF Shape, IsSorted, Sorted
<1>6. value.type = "none" => value = NoKey
  BY ShapeByType DEF Shape
<1>7. value.type \in {"none", "list", "set", "hash", "zset"}
  BY ShapeByType DEF Shape
<1> QED BY <1>1, <1>2, <1>3, <1>4, <1>5, <1>6, <1>7 DEF TypeOK, Shape

LEMMA ShapeIsInvariant == Spec => []Shape
<1>1. Init => Shape
  BY DEF Init, Shape, Shaped
<1>2. ASSUME Shape, Next PROVE Shape'
  <2>1. ASSUME NEW a \in Elem, LPush(<<a>>) \/ RPush(<<a>>) PROVE Shape'
    <3>1. <<a>> \in Seq(Elem) /\ <<a>> # <<>>
      OBVIOUS
    <3> QED BY <1>2, <2>1, <3>1, PushesKeepShape
  <2>2. ASSUME NEW a \in Elem, NEW b \in Elem, LPush(<<a, b>>) \/ RPush(<<a, b>>) PROVE Shape'
    <3>1. <<a, b>> \in Seq(Elem) /\ <<a, b>> # <<>>
      OBVIOUS
    <3> QED BY <1>2, <2>2, <3>1, PushesKeepShape
  <2>3. CASE Del
    BY <2>3 DEF Del, Shape, Shaped
  <2> QED BY <1>2, <2>1, <2>2, <2>3, PopsKeepShape, SetCommandsKeepShape, HashCommandsKeepShape,
             SortedSetCommandsKeepShape, Zenon DEF Next, Add, Remove
<1>3. ASSUME Shape, UNCHANGED vars PROVE Shape'
  BY <1>3 DEF Shape, vars
<1> QED BY <1>1, <1>2, <1>3, PTL DEF Spec

(* Every sequence of commands leaves contents of the type the value says,   *)
(* of elements and scores only, lists within their bound, and never an     *)
(* empty collection under a key.                                           *)
THEOREM CollectionsTypeCorrect == Spec => []TypeOK
  BY ShapeIsInvariant, ShapeImpliesType, PTL

-----------------------------------------------------------------------------
(* One pair of the tree for each member with its score in the interval. *)
LEMMA BucketsCountMembers ==
  ASSUME NEW D \in SUBSET Elem, NEW f \in [D -> Score], NEW E \in SUBSET Score,
         NEW t \in [E -> SUBSET Elem], Agree(f, t),
         NEW min \in Score, NEW max \in Score, min <= max,
         value = Sorted(f, t)
  PROVE  ZCount(min, max) = <<Cardinality({m \in D : f[m] \in min .. max})>>
<1> DEFINE M  == {m \in D : f[m] \in min .. max}
           in == {s \in E : min <= s /\ s <= max}
           P  == {p \in in \X Elem : p[2] \in t[p[1]]}
           pair == [m \in M |-> <<f[m], m>>]
<1>1. ZCount(min, max) = <<Cardinality(P)>>
  <2>1. ~(min > max)
    BY ScoreAssumption
  <2> QED BY <2>1 DEF ZCount, Sorted
<1>2. pair \in [M -> P]
  <2>1. ASSUME NEW m \in M PROVE <<f[m], m>> \in P
    <3>1. f[m] \in E /\ min <= f[m] /\ f[m] <= max
      BY ScoreAssumption DEF Agree
    <3>2. m \in t[f[m]]
      BY <3>1 DEF Agree
    <3> QED BY <3>1, <3>2
  <2> QED BY <2>1
<1>3. \A p \in P : p[2] \in M /\ p = <<f[p[2]], p[2]>>
  <2>1. ASSUME NEW p \in P PROVE p[2] \in M /\ p = <<f[p[2]], p[2]>>
    <3>1. p = <<p[1], p[2]>> /\ p[1] \in E /\ min <= p[1] /\ p[1] <= max /\ p[2] \in t[p[1]]
      OBVIOUS
    <3>2. p[2] \in D /\ f[p[2]] = p[1]
      BY <3>1 DEF Agree
    <3>3. p[1] \in min .. max
      <4>1. p[1] \in Int /\ min \in Int /\ max \in Int
        BY <3>1, ScoreAssumption
      <4> QED BY <3>1, <4>1
    <3> QED BY <3>1, <3>2, <3>3
  <2> QED BY <2>1
<1>4. \A a, b \in M : pair[a] = pair[b] => a = b
  OBVIOUS
<1>5. \A p \in P : \E m \in M : pair[m] = p
  BY <1>3
<1> HIDE DEF M, P, pair
<1>6. ExistsBijection(M, P)
  BY <1>2, <1>4, <1>5, Fun_IsBij DEF ExistsBijection
<1>7. M \in SUBSET Elem
  BY DEF M
<1> QED BY <1>1, <1>6, <1>7, FiniteElems, FS_Bijection DEF M

LEMMA CountsFollow == Shape /\ HalvesAgree => CountFollowsScores
<1> SUFFICES ASSUME Shape, HalvesAgree, value.type = "zset",
                    NEW min \in Score, NEW max \in Score
             PROVE  ZCount(min, max) =
                      IF min <= max THEN <<Cardinality(InRange(min, max))>> ELSE <<>>
  BY DEF CountFollowsScores
<1>0. CASE ~(min <= max)
  BY <1>0, ScoreAssumption DEF ZCount
<1> SUFFICES ASSUME min <= max
             PROVE  ZCount(min, max) = <<Cardinality(InRange(min, max))>>
  BY <1>0
<1>1. PICK D \in SUBSET Elem, E \in SUBSET Score :
        \E f \in [D -> Score] : \E t \in [E -> SUBSET Elem] : value = Sorted(f, t)
  BY ShapeByType DEF Shape, IsSorted
<1>2. PICK f \in [D -> Score] : \E t \in [E -> SUBSET Elem] : value = Sorted(f, t)
  BY <1>1
<1>3. PICK t \in [E -> SUBSET Elem] : value = Sorted(f, t)
  BY <1>2
<1>4. value.scores = f /\ value.tree = t
  BY <1>3 DEF Sorted
<1>5. Agree(f, t)
  BY <1>4 DEF HalvesAgree
<1> QED BY <1>3, <1>4, <1>5, BucketsCountMembers DEF InRange

(* ZCOUNT, which walks the tree, counts for every interval the members      *)
(* whose ZSCORE, which reads the other half, lies in it; bounds out of      *)
(* order, on which the range panics, are those that get no answer.          *)
THEOREM CountsAgreeWithScores == Spec => []CountFollowsScores
  BY ShapeIsInvariant, SortedSetHalvesAgree, CountsFollow, PTL

-----------------------------------------------------------------------------
(* A cast changes negative sums only, and makes them huge. *)
LEMMA Cast ==
  ASSUME NEW i \in Int, -UsizeSize <= i, i < UsizeSize
  PROVE  AsUsize(i) = IF i < 0 THEN i + UsizeSize ELSE i
  BY UsizeAssumption, SMT DEF AsUsize

LEMMA IndexBounds ==
  ASSUME NEW len \in Nat, len < UsizeSize, NEW i \in Indices
  PROVE  /\ FromEnd(len, i) \in Int
         /\ -UsizeSize < FromEnd(len, i) /\ FromEnd(len, i) < UsizeSize
         /\ i < 0 => FromEnd(len, i) < len
  BY LengthAssumption, UsizeAssumption DEF FromEnd, Indices

(* The two slices are Redis's wherever the stop is not before the start of  *)
(* the collection.                                                         *)
LEMMA SlicesAreRedis ==
  ASSUME NEW T, NEW s \in Seq(T), Len(s) < UsizeSize,
         NEW i \in Indices, NEW j \in Indices, FromEnd(Len(s), j) >= 0
  PROVE  ListSlice(s, i, j) = Redis(s, i, j) /\ MembersSlice(s, i, j) = Redis(s, i, j)
<1> DEFINE len == Len(s)
           lo  == FromEnd(len, i)
           hi  == FromEnd(len, j)
           from == IF lo < 0 THEN 0 ELSE lo
           to   == IF hi < len THEN hi ELSE len - 1
<1>1. len \in Nat /\ UsizeSize \in Nat
  BY LenProperties, UsizeAssumption
<1>2. /\ lo \in Int /\ -UsizeSize < lo /\ lo < UsizeSize
      /\ hi \in Int /\ 0 <= hi /\ hi < UsizeSize
  BY <1>1, IndexBounds
<1>3. from \in Nat /\ StartIndex(len, i) = from
  BY <1>1, <1>2, Cast DEF StartIndex
<1>4. Redis(s, i, j) = SubSeq(s, from + 1, to + 1)
  BY DEF Redis
<1>5. len > 0 => to \in 0 .. len - 1 /\ StopIndex(len, j) = to
  <2>1. len > 0 => to \in 0 .. len - 1
    BY <1>1, <1>2
  <2>2. StopIndex(len, j) = AsUsize(to)
    BY DEF StopIndex
  <2> QED BY <1>1, <2>1, <2>2, Cast
<1> HIDE DEF len, from, to, lo, hi
<1>6. CASE len > 0 /\ from <= to
  BY <1>1, <1>3, <1>4, <1>5, <1>6 DEF len, ListSlice, MembersSlice, Nothing
<1>7. CASE len > 0 /\ from > to
  <2>1. Redis(s, i, j) = <<>>
    BY <1>3, <1>4, <1>5, <1>7, SubSeqEmpty
  <2> QED BY <1>3, <1>5, <1>7, <2>1 DEF len, ListSlice, MembersSlice, Nothing
<1>8. CASE len = 0
  <2>1. from >= len /\ to = -1
    BY <1>2, <1>3, <1>8 DEF to
  <2>2. Redis(s, i, j) = <<>>
    BY <1>3, <1>4, <1>8, <2>1, SubSeqEmpty
  <2> QED BY <1>3, <2>1, <2>2 DEF len, ListSlice, MembersSlice, Nothing
<1>9. from \in Int /\ len \in Nat /\ (len > 0 => to \in Int)
  BY <1>1, <1>3, <1>5
<1> QED BY <1>6, <1>7, <1>8, <1>9

LEMMA SubSeqOfOne ==
  ASSUME NEW T, NEW s \in Seq(T), NEW k \in 1 .. Len(s) PROVE SubSeq(s, k, k) = <<s[k]>>
<1>1. k \in Int /\ k \in k .. Len(s)
  BY LenProperties
<1>2. SubSeq(s, k, k) = <<s[k]>> \o SubSeq(s, k + 1, k)
  BY <1>1, SubSeqRecursiveFirst
<1>3. SubSeq(s, k + 1, k) = <<>>
  BY <1>1, SubSeqEmpty
<1>4. <<s[k]>> \in Seq(T)
  BY ElementOfSeq
<1> QED BY <1>2, <1>3, <1>4, ConcatEmptySeq

(* LINDEX needs no condition: a sum that stays negative is cast past the    *)
(* end, where there is nothing either.                                     *)
LEMMA IndexingIsRedis ==
  ASSUME NEW T, value.list \in Seq(T), Len(value.list) < UsizeSize, NEW i \in Indices
  PROVE  LIndex(i) = Redis(value.list, i, i)
<1> DEFINE s == value.list
           len == Len(s)
           at  == FromEnd(len, i)
<1>1. len \in Nat /\ UsizeSize \in Nat
  BY LenProperties, UsizeAssumption
<1>2. at \in Int /\ -UsizeSize < at /\ at < UsizeSize
  BY <1>1, IndexBounds
<1>3. AsUsize(at) = IF at < 0 THEN at + UsizeSize ELSE at
  BY <1>1, <1>2, Cast
<1>4. Redis(s, i, i) = SubSeq(s, (IF at < 0 THEN 0 ELSE at) + 1, (IF at < len THEN at ELSE len - 1) + 1)
  BY DEF Redis
<1>5. LIndex(i) = IF AsUsize(at) < len THEN <<s[AsUsize(at) + 1]>> ELSE <<>>
  BY DEF LIndex
<1>6. i < 0 => at = len + i
  BY DEF FromEnd
<1> HIDE DEF s, len, at
<1>7. CASE at < 0
  <2>1. AsUsize(at) >= len
    <3>1. at >= 0 \/ at + UsizeSize >= len
      BY <1>1, <1>2, <1>6, <1>7, LengthAssumption DEF Indices, FromEnd, at
    <3> QED BY <1>1, <1>2, <1>3, <1>7, <3>1
  <2>2. Redis(s, i, i) = <<>>
    BY <1>1, <1>2, <1>4, <1>7, SubSeqEmpty
  <2> QED BY <1>1, <1>2, <1>3, <1>5, <2>1, <2>2 DEF s
<1>8. CASE at >= len
  <2>1. Redis(s, i, i) = <<>>
    BY <1>1, <1>2, <1>4, <1>8, SubSeqEmpty
  <2> QED BY <1>1, <1>2, <1>3, <1>5, <1>8, <2>1 DEF s
<1>9. CASE 0 <= at /\ at < len
  <2>1. Redis(s, i, i) = SubSeq(s, at + 1, at + 1)
    BY <1>2, <1>4, <1>9
  <2>2. SubSeq(s, at + 1, at + 1) = <<s[at + 1]>>
    BY <1>1, <1>2, <1>9, SubSeqOfOne DEF s, len
  <2> QED BY <1>2, <1>3, <1>5, <1>9, <2>1, <2>2 DEF s
<1> QED BY <1>1, <1>2, <1>7, <1>8, <1>9

LEMMA WalksAreSequences ==
  ASSUME Shape, value.type = "zset", NEW w \in Walks
  PROVE  w \in Seq(Members) /\ Len(w) < UsizeSize
<1>1. Members \in SUBSET Elem
  <2>1. PICK D \in SUBSET Elem, E \in SUBSET Score :
          \E f \in [D -> Score] : \E t \in [E -> SUBSET Elem] : value = Sorted(f, t)
    BY ShapeByType DEF Shape, IsSorted
  <2>2. value.tree \in [E -> SUBSET Elem]
    BY <2>1 DEF Sorted
  <2> QED BY <2>2 DEF Members
<1>2. Cardinality(Members) \in Nat /\ Cardinality(Members) < UsizeSize
  <2>1. Cardinality(Elem) \in Nat
    BY FiniteElems
  <2>2. Cardinality(Members) \in Nat /\ Cardinality(Members) <= Cardinality(Elem)
    BY <1>1, FiniteElems
  <2> QED BY <2>1, <2>2, ElemAssumption, UsizeAssumption
<1>3. w \in [1 .. Cardinality(Members) -> Members]
  BY DEF Walks
<1> HIDE DEF Members
<1>4. w \in Seq(Members) /\ Len(w) = Cardinality(Members)
  BY <1>2, <1>3
<1> QED BY <1>2, <1>4

LEMMA RangesFollow == Shape => RangesAreRedis
<1> SUFFICES ASSUME Shape, NEW i \in Indices, NEW j \in Indices
             PROVE  /\ value.type = "list" =>
                         /\ FromEnd(Len(value.list), j) >= 0 => LRange(i, j) = Redis(value.list, i, j)
                         /\ LIndex(i) = Redis(value.list, i, i)
                    /\ value.type = "zset" =>
                         \A w \in Walks :
                           FromEnd(Len(w), j) >= 0 => ZRange(w, i, j) = Redis(w, i, j)
  BY DEF RangesAreRedis
<1>1. value.type = "list" => value.list \in Seq(Elem) /\ Len(value.list) < UsizeSize
  <2> SUFFICES ASSUME value.type = "list"
               PROVE  value.list \in Seq(Elem) /\ Len(value.list) < UsizeSize
    OBVIOUS
  <2>1. value.list \in Seq(Elem) /\ Len(value.list) <= MaxLen
    BY ShapeByType DEF Shape, IsList, List
  <2> QED BY <2>1, LenProperties, LengthAssumption, UsizeAssumption
<1> QED BY <1>1, WalksAreSequences, SlicesAreRedis, IndexingIsRedis DEF LRange, ZRange

(* Whatever the width of usize and the lengths and indices below it, LRANGE *)
(* and ZRANGE with a stop that is not before the start of the collection,  *)
(* and LINDEX with any index, answer what Redis documents.                 *)
THEOREM RangesAnswerLikeRedis == Spec => []RangesAreRedis
  BY ShapeIsInvariant, RangesFollow, PTL

-----------------------------------------------------------------------------
(* What Values allows a command, as a condition on the sizes. *)
LEMMA AddAllows ==
  ASSUME Shape, NEW type \in {"list", "set", "hash", "zset"}, NEW n \in Nat, Holds(type),
         value'.type = type, Size(value') \in Nat \ {0},
         IF type = "list" THEN Size(value') = Size(value) + 1
         ELSE /\ Size(value) <= Size(value')
              /\ Size(value') <= Size(value) + (IF type = "set" THEN n ELSE 1)
  PROVE  Allows("ADD", type, n)
<1> DEFINE c   == [name |-> "ADD", type |-> type, n |-> n]
           v   == Abstract(value)
           old == IF v = V!Absent THEN V!Stored(type, 0) ELSE v
<1>1. Size(value) \in Nat
  BY SizesAreNatural DEF Shape, Shaped
<1>2. v.kind = value.type /\ v.n = Size(value)
  BY DEF Abstract, V!Stored
<1>3. old.kind = type /\ old.n = Size(value)
  <2>1. CASE value.type = "none"
    <3>1. v = V!Absent /\ Size(value) = 0
      BY <2>1, ShapeByType, Sizes DEF Shape, Abstract, V!Absent
    <3> QED BY <3>1 DEF V!Stored
  <2>2. CASE value.type = type
    BY <1>2, <2>2 DEF V!Absent, V!Stored
  <2> QED BY <2>1, <2>2 DEF Holds
<1>4. Size(value') \in V!SizesAfterAdd(c, old.n)
  BY <1>1, <1>3 DEF V!SizesAfterAdd
<1>5. V!Effect(c, v) = V!AddTo(c, v)
  BY DEF V!Effect
<1> DEFINE o == V!Outcome(V!Stored(type, Size(value')), V!Ok)
<1>6. o \in V!AddTo(c, v)
  BY <1>3, <1>4 DEF V!AddTo
<1>7. o.val = Abstract(value') /\ ~V!IsEmpty(o.val)
  BY DEF V!Outcome, V!IsEmpty, V!Stored, Abstract
<1> QED BY <1>5, <1>6, <1>7 DEF Allows

LEMMA RemAllows ==
  ASSUME Shape, NEW type \in {"list", "set", "hash", "zset"}, NEW n \in Nat,
         value.type = type, NEW w, w.type = type, Keep(w), Size(w) \in Nat,
         IF type = "list" THEN Size(w) = Size(value) - 1
         ELSE Size(w) <= Size(value) /\ Size(value) - Size(w) <= n
  PROVE  Allows("REM", type, n)
<1> DEFINE c == [name |-> "REM", type |-> type, n |-> n]
           v == Abstract(value)
<1>1. Size(value) \in Nat
  BY SizesAreNatural DEF Shape, Shaped
<1>2. v.kind = type /\ v.n = Size(value)
  BY DEF Abstract, V!Stored
<1>3. Size(w) \in V!SizesAfterRem(c, v.n)
  BY <1>1, <1>2 DEF V!SizesAfterRem
<1>4. V!Effect(c, v) = V!RemFrom(c, v)
  BY DEF V!Effect
<1> DEFINE answer == IF Size(w) = v.n THEN V!Nil ELSE V!Ok
           o == V!Outcome(V!Stored(type, Size(w)), answer)
<1>5. o \in V!RemFrom(c, v) /\ o.val = V!Stored(type, Size(w))
  <2>1. o \in V!RemFrom(c, v)
    BY <1>2, <1>3 DEF V!RemFrom
  <2> QED BY <2>1 DEF V!Outcome
<1> HIDE DEF o
<1>6. Abstract(value') = IF V!IsEmpty(o.val) THEN V!Absent ELSE o.val
  <2>1. V!IsEmpty(o.val) <=> Size(w) = 0
    BY <1>5 DEF V!IsEmpty, V!Stored, V!Collections
  <2>2. Size(w) = 0 => Abstract(value') = V!Absent
    BY Sizes DEF Keep, Abstract, V!Absent, NoKey
  <2>3. Size(w) # 0 => Abstract(value') = V!Stored(type, Size(w))
    BY DEF Keep, Abstract
  <2> QED BY <1>5, <2>1, <2>2, <2>3
<1> QED BY <1>4, <1>5, <1>6 DEF Allows

(* Sizes of unions and differences of sets of elements *)
LEMMA Differences ==
  ASSUME NEW S \in SUBSET Elem, NEW T \in SUBSET Elem
  PROVE  /\ Cardinality(S \ T) \in Nat
         /\ Cardinality(S \ T) <= Cardinality(S)
         /\ Cardinality(S) - Cardinality(S \ T) <= Cardinality(T)
         /\ Cardinality(S \cup T) \in Nat
         /\ Cardinality(S) <= Cardinality(S \cup T)
         /\ Cardinality(S \cup T) <= Cardinality(S) + Cardinality(T)
<1>1. /\ Cardinality(S) \in Nat /\ Cardinality(T) \in Nat
      /\ Cardinality(S \cap T) \in Nat /\ Cardinality(S \cap T) <= Cardinality(T)
      /\ Cardinality(S \cap T) <= Cardinality(S)
  BY FiniteElems, FS_Intersection
<1>2. Cardinality(S \ T) = Cardinality(S) - Cardinality(S \cap T)
  BY FiniteElems, FS_Difference
<1>3. Cardinality(S \cup T) = Cardinality(S) + Cardinality(T) - Cardinality(S \cap T)
  BY FiniteElems, FS_Union
<1> QED BY <1>1, <1>2, <1>3

LEMMA ListSizesFollow ==
  ASSUME Shape
  PROVE  /\ LPop \/ RPop => Allows("REM", "list", 1)
         /\ \A e \in Elem : LPush(<<e>>) \/ RPush(<<e>>) => Allows("ADD", "list", 1)
<1>1. ASSUME LPop \/ RPop PROVE Allows("REM", "list", 1)
  <2>1. PICK s \in Seq(Elem) : value = List(s)
    BY <1>1, ShapeByType DEF Shape, LPop, RPop, IsList
  <2>2. s # <<>> /\ value.list = s /\ Size(value) = Len(s) /\ value.type = "list"
    BY <2>1, Sizes, EmptySeq DEF Shape, Shaped, NoKey, List
  <2>3. PICK t : Keep(List(t)) /\ (t = Tail(s) \/ t = SubSeq(s, 1, Len(s) - 1))
    BY <1>1, <2>2 DEF LPop, RPop
  <2>4. Len(Tail(s)) = Len(s) - 1 /\ Len(s) \in Nat /\ Len(s) > 0
    BY <2>2, HeadTailProperties, EmptySeq
  <2>5. Len(SubSeq(s, 1, Len(s) - 1)) = Len(s) - 1
    <3>1. \A i \in 1 .. Len(s) - 1 : s[i] \in Elem
      BY ElementOfSeq, <2>4
    <3>2. PICK k \in Nat : k = Len(s) - 1
      BY <2>4
    <3>3. Len(SubSeq(s, 1, k)) = IF 1 <= k THEN k - 1 + 1 ELSE 0
      BY <3>1, <3>2, SubSeqProperties
    <3> QED BY <3>2, <3>3
  <2>6. Size(List(t)) = Size(value) - 1 /\ Size(List(t)) \in Nat /\ List(t).type = "list"
    BY <2>2, <2>3, <2>4, <2>5, Sizes DEF List
  <2> QED BY <2>2, <2>3, <2>6, RemAllows
<1>2. ASSUME NEW e \in Elem, LPush(<<e>>) \/ RPush(<<e>>) PROVE Allows("ADD", "list", 1)
  <2>1. PICK s \in Seq(Elem) : Entry("list") = List(s)
    BY <1>2, EntriesAreCollected DEF LPush, RPush, IsList
  <2>2. Entry("list").list = s /\ Size(value) = Len(s) /\ Holds("list")
    BY <1>2, <2>1, EntriesAreCollected DEF LPush, RPush, List
  <2>3. PICK t : (t = <<e>> \o s \/ t = s \o <<e>>) /\ value' = List(t)
    BY <1>2, <2>2 DEF LPush, RPush
  <2>4. <<e>> \in Seq(Elem) /\ Len(<<e>>) = 1
    OBVIOUS
  <2>5. Len(<<e>> \o s) = Len(s) + 1 /\ Len(s \o <<e>>) = Len(s) + 1 /\ Len(s) \in Nat
    BY <2>4, ConcatProperties, LenProperties
  <2>6. Size(value') = Size(value) + 1 /\ Size(value') \in Nat \ {0} /\ value'.type = "list"
    BY <2>2, <2>3, <2>5, Sizes DEF List
  <2> QED BY <2>2, <2>6, AddAllows
<1> QED BY <1>1, <1>2

LEMMA SetSizesFollow ==
  ASSUME Shape
  PROVE  /\ \A es \in (SUBSET Elem) \ {{}} :
              /\ SAdd(es) => Allows("ADD", "set", Cardinality(es))
              /\ SRem(es) => Allows("REM", "set", Cardinality(es))
         /\ \A n \in 0 .. Cardinality(Elem) : SPop(n) => Allows("REM", "set", n)
<1>1. ASSUME NEW es \in (SUBSET Elem) \ {{}}, SAdd(es) PROVE Allows("ADD", "set", Cardinality(es))
  <2>1. PICK S \in SUBSET Elem : Entry("set") = Set(S)
    BY <1>1, EntriesAreCollected DEF SAdd, IsSet
  <2>2. value' = Set(S \cup es) /\ Holds("set")
    BY <1>1, <2>1 DEF SAdd, Set
  <2>3. Size(value) = Cardinality(S)
    <3>1. CASE value.type = "none"
      <4>1. value = NoKey
        BY <3>1, ShapeByType DEF Shape
      <4>2. S = {}
        BY <2>1, <3>1 DEF Entry, New, Set
      <4> QED BY <4>1, <4>2, Sizes, FiniteElems
    <3>2. CASE value.type = "set"
      BY <2>1, <3>2, Sizes DEF Entry
    <3> QED BY <2>2, <3>1, <3>2 DEF Holds
  <2>4. Size(value') = Cardinality(S \cup es) /\ value'.type = "set" /\ S \cup es # {}
    BY <2>2, Sizes DEF Set
  <2>5. Size(value') \in Nat \ {0}
    BY <2>4, FiniteElems
  <2>6. Cardinality(S) <= Cardinality(S \cup es) /\ Cardinality(S \cup es) <= Cardinality(S) + Cardinality(es)
    BY Differences
  <2> QED BY <2>2, <2>3, <2>4, <2>5, <2>6, AddAllows, FiniteElems
<1>2. ASSUME NEW es \in SUBSET Elem, NEW n \in Nat, Cardinality(es) <= n,
             value.type = "set", Keep(Set(value.set \ es))
      PROVE  Allows("REM", "set", n)
  <2>1. value.set \in SUBSET Elem /\ Size(value) = Cardinality(value.set)
    BY <1>2, ShapeByType, Sizes DEF Shape, IsSet, Set
  <2> DEFINE w == Set(value.set \ es)
  <2>2. w.type = "set" /\ Size(w) = Cardinality(value.set \ es)
    BY Sizes DEF Set
  <2> HIDE DEF w
  <2>3. Size(w) \in Nat /\ Size(w) <= Size(value) /\ Size(value) - Size(w) <= Cardinality(es)
    BY <2>1, <2>2, Differences
  <2>4. Size(value) - Size(w) <= n
    BY <1>2, <2>1, <2>3, FiniteElems
  <2>5. Keep(w)
    BY <1>2 DEF w
  <2> QED BY <1>2, <2>2, <2>3, <2>4, <2>5, RemAllows
<1>3. ASSUME NEW es \in (SUBSET Elem) \ {{}}, SRem(es) PROVE Allows("REM", "set", Cardinality(es))
  BY <1>2, <1>3, FiniteElems DEF SRem
<1>4. ASSUME NEW n \in 0 .. Cardinality(Elem), SPop(n) PROVE Allows("REM", "set", n)
  <2>1. value.set \in SUBSET Elem /\ value.type = "set"
    BY <1>4, ShapeByType DEF Shape, SPop, IsSet, Set
  <2>2. PICK taken \in SUBSET value.set :
          /\ Cardinality(taken) = n \/ (taken = value.set /\ Cardinality(taken) < n)
          /\ Keep(Set(value.set \ taken))
    BY <1>4 DEF SPop
  <2>3. taken \in SUBSET Elem /\ Cardinality(taken) <= n /\ n \in Nat
    BY <2>1, <2>2, FiniteElems
  <2> QED BY <1>2, <2>1, <2>2, <2>3
<1> QED BY <1>1, <1>3, <1>4

LEMMA HashSizesFollow ==
  ASSUME Shape
  PROVE  /\ \A e \in Elem : HSet(e) => Allows("ADD", "hash", 1)
         /\ \A es \in (SUBSET Elem) \ {{}} : HDel(es) => Allows("REM", "hash", Cardinality(es))
<1>1. ASSUME NEW e \in Elem, HSet(e) PROVE Allows("ADD", "hash", 1)
  <2>1. PICK D \in SUBSET Elem : \E f \in [D -> {"value"}] : Entry("hash") = Hash(f)
    BY <1>1, EntriesAreCollected DEF HSet, IsHash
  <2>2. PICK f \in [D -> {"value"}] : Entry("hash") = Hash(f)
    BY <2>1
  <2>3. /\ value' = Hash(With(f, e, "value")) /\ Holds("hash")
        /\ DOMAIN With(f, e, "value") = D \cup {e}
    BY <1>1, <2>2 DEF HSet, Hash, With
  <2>4. Size(value) = Cardinality(D)
    <3>1. CASE value.type = "none"
      <4>1. value = NoKey
        BY <3>1, ShapeByType DEF Shape
      <4>2. f = <<>>
        BY <2>2, <3>1 DEF Entry, New, Hash
      <4> QED BY <4>1, <4>2, Sizes, FiniteElems
    <3>2. CASE value.type = "hash"
      BY <2>2, <3>2, Sizes DEF Entry
    <3> QED BY <2>3, <3>1, <3>2 DEF Holds
  <2>5. Size(value') = Cardinality(D \cup {e}) /\ value'.type = "hash"
    BY <2>3, Sizes DEF Hash
  <2>6. Size(value') \in Nat \ {0}
    BY <2>5, FiniteElems
  <2>7. Cardinality(D) <= Cardinality(D \cup {e}) /\ Cardinality(D \cup {e}) <= Cardinality(D) + 1
    BY Differences, FS_Singleton
  <2> QED BY <2>3, <2>4, <2>5, <2>6, <2>7, AddAllows
<1>2. ASSUME NEW es \in (SUBSET Elem) \ {{}}, HDel(es) PROVE Allows("REM", "hash", Cardinality(es))
  <2>1. PICK D \in SUBSET Elem : \E f \in [D -> {"value"}] : value = Hash(f)
    BY <1>2, ShapeByType DEF HDel, Shape, IsHash
  <2>2. PICK f \in [D -> {"value"}] : value = Hash(f)
    BY <2>1
  <2> DEFINE w == Hash(Without(f, es))
  <2>3. /\ Keep(w) /\ w.type = "hash" /\ value.type = "hash"
        /\ Size(w) = Cardinality(D \ es) /\ Size(value) = Cardinality(D)
    BY <1>2, <2>2, Sizes DEF HDel, Hash, Without
  <2> HIDE DEF w
  <2>4. Size(w) \in Nat /\ Size(w) <= Size(value) /\ Size(value) - Size(w) <= Cardinality(es)
    BY <2>3, Differences
  <2> QED BY <2>3, <2>4, RemAllows, FiniteElems
<1> QED BY <1>1, <1>2

LEMMA SortedSetSizesFollow ==
  ASSUME Shape
  PROVE  /\ \A e \in Elem, s \in Score : ZAdd(s, e) => Allows("ADD", "zset", 1)
         /\ \A es \in (SUBSET Elem) \ {{}} : ZRem(es) => Allows("REM", "zset", Cardinality(es))
<1>1. ASSUME NEW e \in Elem, NEW s \in Score, ZAdd(s, e) PROVE Allows("ADD", "zset", 1)
  <2> DEFINE v == Entry("zset")
             D == DOMAIN v.scores
  <2>1. Holds("zset") /\ value' = Join(v, s, e)
    BY <1>1 DEF ZAdd
  <2>2. D \in SUBSET Elem
    BY <2>1, EntriesAreCollected DEF IsSorted, Sorted
  <2>3. value'.type = "zset" /\ DOMAIN value'.scores = D \cup {e}
    BY <2>1 DEF Join, Leave, Without, With, Sorted
  <2>4. Size(value) = Cardinality(D)
    <3>1. CASE value.type = "none"
      <4>1. value = NoKey
        BY <3>1, ShapeByType DEF Shape
      <4>2. D = {}
        BY <3>1 DEF Entry, New, Sorted
      <4> QED BY <4>1, <4>2, Sizes, FiniteElems
    <3>2. CASE value.type = "zset"
      BY <3>2 DEF Entry, Size
    <3> QED BY <2>1, <3>1, <3>2 DEF Holds
  <2> HIDE DEF v, D
  <2>5. Size(value') = Cardinality(D \cup {e})
    BY <2>3 DEF Size
  <2>6. Size(value') \in Nat \ {0}
    BY <2>2, <2>5, FiniteElems
  <2>7. Cardinality(D) <= Cardinality(D \cup {e}) /\ Cardinality(D \cup {e}) <= Cardinality(D) + 1
    BY <2>2, Differences, FS_Singleton
  <2> QED BY <2>1, <2>3, <2>4, <2>5, <2>6, <2>7, AddAllows
<1>2. ASSUME NEW es \in (SUBSET Elem) \ {{}}, ZRem(es) PROVE Allows("REM", "zset", Cardinality(es))
  <2> DEFINE D == DOMAIN value.scores
             w == Leave(value, es)
  <2>1. Keep(w) /\ value.type = "zset" /\ D \in SUBSET Elem
    BY <1>2, ShapeByType DEF ZRem, Shape, IsSorted, Sorted
  <2>2. w.type = "zset" /\ DOMAIN w.scores = D \ es
    BY DEF Leave, Without, Sorted
  <2> HIDE DEF w
  <2>3. Size(w) = Cardinality(D \ es) /\ Size(value) = Cardinality(D)
    BY <2>1, <2>2 DEF Size
  <2>4. Size(w) \in Nat /\ Size(w) <= Size(value) /\ Size(value) - Size(w) <= Cardinality(es)
    BY <2>1, <2>3, Differences
  <2> QED BY <2>1, <2>2, <2>4, RemAllows, FiniteElems
<1> QED BY <1>1, <1>2

(* Each command leaves one of the sizes Values allows for it, and no key    *)
(* when nothing is left: Store, which sees sizes only, loses no step.      *)
THEOREM SizesAreAllowed == Spec => SizesFollowValues
<1> DEFINE Allowed ==
      /\ LPop \/ RPop => Allows("REM", "list", 1)
      /\ \A e \in Elem :
           /\ LPush(<<e>>) \/ RPush(<<e>>) => Allows("ADD", "list", 1)
           /\ HSet(e) => Allows("ADD", "hash", 1)
           /\ \A s \in Score : ZAdd(s, e) => Allows("ADD", "zset", 1)
      /\ \A es \in (SUBSET Elem) \ {{}} :
           /\ SAdd(es) => Allows("ADD", "set", Cardinality(es))
           /\ SRem(es) => Allows("REM", "set", Cardinality(es))
           /\ HDel(es) => Allows("REM", "hash", Cardinality(es))
           /\ ZRem(es) => Allows("REM", "zset", Cardinality(es))
      /\ \A n \in 0 .. Cardinality(Elem) : SPop(n) => Allows("REM", "set", n)
<1>1. Shape => Allowed
  BY ListSizesFollow, SetSizesFollow, HashSizesFollow, SortedSetSizesFollow
<1>2. SizesFollowValues <=> [][Allowed]_vars
  BY DEF SizesFollowValues
<1> HIDE DEF Allowed
<1> QED BY <1>1, <1>2, ShapeIsInvariant, PTL
=============================================================================
