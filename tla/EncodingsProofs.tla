-------------------------- MODULE EncodingsProofs --------------------------
(***************************************************************************)
(* Lengths in the RDB file are read back, all that fit 31 bits; the commands *)
(* of a rewrite restore every value, of any size, in whatever order its    *)
(* members come, with its deadline rounded up to a second; and the file of a *)
(* save, of any number of keys, loads as what was saved, or as a beginning of *)
(* it when it lacks its end.                                               *)
(***************************************************************************)
EXTENDS Encodings, CollectionsProofs, Recursion

(* What a cut leaves of some bytes begins like them. *)
LEMMA CutBytes ==
  ASSUME NEW b, NEW cut \in Nat \ {0}
  PROVE  LET s == SubSeq(b, 1, cut) IN s # <<>> /\ Len(s) = cut /\ s[1] = b[1]
<1> DEFINE S == {b[i] : i \in 1 .. cut}
<1>1. \A i \in 1 .. cut : b[i] \in S
  OBVIOUS
<1> HIDE DEF S
<1>2. /\ SubSeq(b, 1, cut) \in Seq(S)
      /\ Len(SubSeq(b, 1, cut)) = cut
      /\ \A i \in 1 .. cut : SubSeq(b, 1, cut)[i] = b[1 + i - 1]
  BY <1>1, SubSeqProperties
<1>3. SubSeq(b, 1, cut)[1] = b[1]
  BY <1>2
<1>4. SubSeq(b, 1, cut) # <<>>
  BY <1>2
<1> QED BY <1>2, <1>3, <1>4

(* Nothing is read of nothing. *)
LEMMA NoBytes == ASSUME NEW b PROVE ReadLength(SubSeq(b, 1, 0)) = Truncated
<1>1. SubSeq(b, 1, 0) = <<>>
  BY SubSeqEmpty
<1> QED BY <1>1 DEF ReadLength

(* 6 bits *)
LEMMA ShortLengths == ASSUME NEW n \in Nat, n < 64 PROVE ReadsBack(n)
<1>1. WriteLength(n) = <<n>>
  BY SMT DEF WriteLength, Short
<1>2. n \div 64 = 0 /\ n % 64 = n
  OBVIOUS
<1>3. ReadLength(<<n>>) = [len |-> n, next |-> 2]
  BY <1>2 DEF ReadLength, Truncated
<1>4. ASSUME NEW cut \in 0 .. 0 PROVE ReadLength(SubSeq(<<n>>, 1, cut)) = Truncated
  BY <1>4, NoBytes
<1> QED BY <1>1, <1>3, <1>4 DEF ReadsBack

(* 14 bits *)
LEMMA MiddleLengths == ASSUME NEW n \in Nat, 64 <= n, n < 16384 PROVE ReadsBack(n)
<1> DEFINE hi == n \div 256
           lo == n % 256
           b  == <<64 + hi, lo>>
<1>1. WriteLength(n) = b
  BY SMT DEF WriteLength, Short
<1>2. hi \in 0 .. 63 /\ lo \in 0 .. 255 /\ n = hi * 256 + lo
  BY SMT
<1> HIDE DEF hi, lo
<1>3. (64 + hi) \div 64 = 1 /\ (64 + hi) % 64 = hi
  BY <1>2
<1>4. ReadLength(b) = [len |-> n, next |-> 3]
  BY <1>2, <1>3 DEF ReadLength, Truncated
<1>5. ASSUME NEW cut \in 0 .. 1 PROVE ReadLength(SubSeq(b, 1, cut)) = Truncated
  <2>1. Len(b) = 2 /\ b[1] = 64 + hi
    BY <1>2
  <2> HIDE DEF b
  <2>2. CASE cut = 1
    <3>1. /\ SubSeq(b, 1, cut) # <<>> /\ Len(SubSeq(b, 1, cut)) = 1
          /\ SubSeq(b, 1, cut)[1] = 64 + hi
      BY <2>1, <2>2, CutBytes
    <3> QED BY <3>1, <1>3 DEF ReadLength, Truncated
  <2> QED BY <2>1, <2>2, NoBytes
<1> QED BY <1>1, <1>4, <1>5 DEF ReadsBack

(* 64 bits, of which 31 are used *)
LEMMA LongLengths == ASSUME NEW n \in Nat, 16384 <= n, n <= 2147483647 PROVE ReadsBack(n)
<1> DEFINE n1 == n \div 256
           n2 == n1 \div 256
           n3 == n2 \div 256
           b3 == n2 % 256
           b2 == n1 % 256
           b1 == n % 256
           b  == <<128, 0, 0, 0, 0, n3, b3, b2, b1>>
<1>1. WriteLength(n) = b
  BY SMT DEF WriteLength, Short, Marked
<1>2. /\ n3 \in Nat /\ b3 \in 0 .. 255 /\ b2 \in 0 .. 255 /\ b1 \in 0 .. 255
      /\ n = ((n3 * 256 + b3) * 256 + b2) * 256 + b1
  <2>1. n1 \in Nat /\ b1 \in 0 .. 255 /\ n = n1 * 256 + b1
    BY SMT
  <2> HIDE DEF n1, b1
  <2>2. n2 \in Nat /\ b2 \in 0 .. 255 /\ n1 = n2 * 256 + b2
    BY <2>1, SMT
  <2> HIDE DEF n2, b2
  <2>3. n3 \in Nat /\ b3 \in 0 .. 255 /\ n2 = n3 * 256 + b3
    BY <2>2, SMT
  <2> HIDE DEF n3, b3
  <2> QED BY <2>1, <2>2, <2>3, SMT
<1> HIDE DEF n1, n2, n3, b1, b2, b3
<1>3. 128 \div 64 = 2
  BY SMT
<1>4. ReadLength(b) = [len |-> n, next |-> 10]
  BY <1>2, <1>3, SMT DEF ReadLength, Truncated
<1>5. ASSUME NEW cut \in 0 .. 8 PROVE ReadLength(SubSeq(b, 1, cut)) = Truncated
  <2>1. Len(b) = 9 /\ b[1] = 128
    BY <1>2, SMT
  <2> HIDE DEF b
  <2>2. CASE cut # 0
    <3>1. cut \in Nat \ {0} /\ cut < 9
      BY <2>2, SMT
    <3>2. /\ SubSeq(b, 1, cut) # <<>> /\ Len(SubSeq(b, 1, cut)) = cut
          /\ SubSeq(b, 1, cut)[1] = b[1]
      BY <3>1, CutBytes, SMT
    <3> QED BY <2>1, <3>1, <3>2, <1>3, SMT DEF ReadLength, Truncated
  <2> QED BY <2>1, <2>2, NoBytes, SMT
<1> QED BY <1>1, <1>4, <1>5, SMT DEF ReadsBack

(* Every length of up to 31 bits, in whichever of the three forms it is       *)
(* written to the RDB file, is read back, and never read from a file that  *)
(* breaks off in it.                                                       *)
THEOREM LengthsAreReadBack == Spec => []LengthsReadBack
<1>1. LengthsReadBack
  BY ShortLengths, MiddleLengths, LongLengths, MaxLengthAssumption, SMT DEF LengthsReadBack
<1>2. LengthsReadBack'
  BY ShortLengths, MiddleLengths, LongLengths, MaxLengthAssumption, SMT DEF LengthsReadBack
<1> QED BY <1>1, <1>2, PTL DEF Spec

(* A rewrite never lets a key expire before its deadline, and not a second   *)
(* after it.                                                               *)
THEOREM DeadlinesAreRoundedUp ==
  ASSUME NEW ms \in Nat \ {0}
  PROVE  Seconds(ms) >= 1 /\ 1000 * Seconds(ms) - ms \in 0 .. 999
  BY SMT DEF Seconds

-----------------------------------------------------------------------------
(* A fold over pairs or over commands is recursion on their number:          *)
(* whatever takes the same steps ends where it ends.                       *)
LEMMA PutAllIs ==
  ASSUME NEW how, NEW v, NEW pairs, Len(pairs) \in Nat, NEW g, g[0] = v,
         \A i \in 1 .. Len(pairs) : g[i] = Put(how, g[i - 1], pairs[i])
  PROVE  PutAll(how, v, pairs) = g[Len(pairs)]
<1> DEFINE n == Len(pairs)
           Body(h) == [i \in 0 .. n |-> IF i = 0 THEN v ELSE Put(how, h[i - 1], pairs[i])]
           after == CHOOSE h : h = Body(h)
           f == [i \in 0 .. n |-> g[i]]
<1>1. f = Body(f)
  <2>1. ASSUME NEW i \in 0 .. n PROVE f[i] = IF i = 0 THEN v ELSE Put(how, f[i - 1], pairs[i])
    <3>1. CASE i = 0
      BY <3>1
    <3>2. CASE i # 0
      <4>1. i \in 1 .. n /\ i - 1 \in 0 .. n
        BY <3>2
      <4>2. f[i] = g[i] /\ f[i - 1] = g[i - 1]
        BY <4>1
      <4> HIDE DEF f
      <4> QED BY <3>2, <4>1, <4>2
    <3> QED BY <3>1, <3>2
  <2>2. f = [i \in 0 .. n |-> f[i]]
    OBVIOUS
  <2> HIDE DEF f
  <2> QED BY <2>1, <2>2
<1>2. after = Body(after)
  <2> HIDE DEF Body, f
  <2> QED BY <1>1
<1>3. PutAll(how, v, pairs) = after[n]
  BY DEF PutAll
<1> DEFINE T == {i \in 0 .. n : after[i] = g[i]}
<1> HIDE DEF after
<1>4. 0 \in T
  BY <1>2
<1>5. ASSUME NEW i \in 1 .. n, i - 1 \in T PROVE i \in T
  <2>1. after[i] = Put(how, after[i - 1], pairs[i])
    BY <1>2
  <2> QED BY <1>5, <2>1
<1>6. \A i \in 0 .. n : i \in T
  <2> HIDE DEF T, n
  <2>1. Inductive(T, n)
    BY <1>4, <1>5 DEF Inductive
  <2>2. n \in Nat
    BY DEF n
  <2> QED BY <2>1, <2>2, InductionUpTo
<1>7. n \in T
  BY <1>6
<1> QED BY <1>3, <1>7

LEMMA ReplayedIs ==
  ASSUME NEW commands, Len(commands) \in Nat, NEW g, g[0] = Stored(NoKey, NoTtl),
         \A i \in 1 .. Len(commands) : g[i] = Run(g[i - 1], commands[i])
  PROVE  Replayed(commands) = g[Len(commands)]
<1> DEFINE n == Len(commands)
           Body(h) == [i \in 0 .. n |->
                         IF i = 0 THEN Stored(NoKey, NoTtl) ELSE Run(h[i - 1], commands[i])]
           after == CHOOSE h : h = Body(h)
           f == [i \in 0 .. n |-> g[i]]
<1>1. f = Body(f)
  <2>1. ASSUME NEW i \in 0 .. n
        PROVE  f[i] = IF i = 0 THEN Stored(NoKey, NoTtl) ELSE Run(f[i - 1], commands[i])
    <3>1. CASE i = 0
      BY <3>1
    <3>2. CASE i # 0
      <4>1. i \in 1 .. n /\ i - 1 \in 0 .. n
        BY <3>2
      <4>2. f[i] = g[i] /\ f[i - 1] = g[i - 1]
        BY <4>1
      <4> HIDE DEF f
      <4> QED BY <3>2, <4>1, <4>2
    <3> QED BY <3>1, <3>2
  <2>2. f = [i \in 0 .. n |-> f[i]]
    OBVIOUS
  <2> HIDE DEF f
  <2> QED BY <2>1, <2>2
<1>2. after = Body(after)
  <2> HIDE DEF Body, f
  <2> QED BY <1>1
<1>3. Replayed(commands) = after[n]
  BY DEF Replayed
<1> DEFINE T == {i \in 0 .. n : after[i] = g[i]}
<1> HIDE DEF after
<1>4. 0 \in T
  BY <1>2
<1>5. ASSUME NEW i \in 1 .. n, i - 1 \in T PROVE i \in T
  <2>1. after[i] = Run(after[i - 1], commands[i])
    BY <1>2
  <2> QED BY <1>5, <2>1
<1>6. \A i \in 0 .. n : i \in T
  <2> HIDE DEF T, n
  <2>1. Inductive(T, n)
    BY <1>4, <1>5 DEF Inductive
  <2>2. n \in Nat
    BY DEF n
  <2> QED BY <2>1, <2>2, InductionUpTo
<1>7. n \in T
  BY <1>6
<1> QED BY <1>3, <1>7

-----------------------------------------------------------------------------
(* What an iteration passes: all members, each once. *)
IsOrder(order, S) ==
  /\ order \in Seq(S) /\ Len(order) = Cardinality(S)
  /\ \A x \in S : \E i \in 1 .. Len(order) : order[i] = x
  /\ \A i, j \in 1 .. Len(order) : i # j => order[i] # order[j]

LEMMA OrdersCover ==
  ASSUME NEW S, IsFiniteSet(S), NEW order \in Seqs!SetToSeqs(S)
  PROVE  IsOrder(order, S)
<1> DEFINE n == Cardinality(S)
           D == 1 .. n
           R == {order[i] : i \in D}
<1>1. n \in Nat
  BY FS_CardinalityType
<1>2. order \in [D -> S] /\ \A i, j \in D : i # j => order[i] # order[j]
  <2>1. Seqs!Cardinality(S) = Cardinality(S)
    BY DEF Seqs!Cardinality, Cardinality
  <2> QED BY <2>1 DEF Seqs!SetToSeqs
<1>3. order \in Seq(S) /\ Len(order) = n
  BY <1>1, <1>2
<1>4. R = S
  <2>1. R \subseteq S /\ IsFiniteSet(R)
    BY <1>2, FS_Subset
  <2>2. order \in Bijection(D, R)
    <3>1. order \in [D -> R]
      BY <1>2
    <3>2. \A i, j \in D : order[i] = order[j] => i = j
      BY <1>2
    <3> HIDE DEF D
    <3>3. \A x \in R : \E i \in D : order[i] = x
      OBVIOUS
    <3> HIDE DEF R
    <3> QED BY <3>1, <3>2, <3>3 DEF Bijection, Injection, Surjection, IsInjective
  <2>3. IsFiniteSet(D) /\ Cardinality(D) = n
    BY <1>1, FS_Interval
  <2>4. Cardinality(R) = n
    <3> HIDE DEF D, R, n
    <3>1. ExistsBijection(D, R)
      BY <2>2 DEF ExistsBijection
    <3> QED BY <2>1, <2>3, <3>1, FS_Bijection
  <2> QED BY <2>1, <2>4, FS_Subset
<1>5. ASSUME NEW x \in S PROVE \E i \in 1 .. Len(order) : order[i] = x
  BY <1>3, <1>4
<1> QED BY <1>2, <1>3, <1>5 DEF IsOrder

(* The pairs of an iteration over a map are its members and their values. *)
LEMMA PairsOf ==
  ASSUME NEW n \in Nat, NEW s, NEW t, Len(s) = n
  PROVE  /\ Len(Alternating(s, t)) = 2 * n
         /\ Len(Pairs(Alternating(s, t))) = n
         /\ \A i \in 1 .. n : Pairs(Alternating(s, t))[i] = <<s[i], t[i]>>
         /\ n # 0 => Alternating(s, t) # <<>>
         /\ n = 0 => Alternating(s, t) = <<>>
<1> DEFINE a == Alternating(s, t)
<1>1. a = [i \in 1 .. 2 * n |-> IF i % 2 = 1 THEN s[(i + 1) \div 2] ELSE t[i \div 2]]
  BY DEF Alternating
<1>2. DOMAIN a = 1 .. 2 * n /\ Len(a) = 2 * n
  BY <1>1
<1>3. (2 * n) \div 2 = n
  OBVIOUS
<1>4. Pairs(a) = [i \in 1 .. n |-> <<a[2 * i - 1], a[2 * i]>>]
  BY <1>2, <1>3 DEF Pairs
<1>5. Len(Pairs(a)) = n
  BY <1>4
<1>6. ASSUME NEW i \in 1 .. n PROVE Pairs(a)[i] = <<s[i], t[i]>>
  <2>1. /\ 2 * i - 1 \in 1 .. 2 * n /\ 2 * i \in 1 .. 2 * n
        /\ (2 * i - 1) % 2 = 1 /\ ((2 * i - 1) + 1) \div 2 = i
        /\ (2 * i) % 2 = 0 /\ (2 * i) \div 2 = i
    OBVIOUS
  <2>2. a[2 * i - 1] = s[i]
    BY <1>1, <2>1
  <2>3. a[2 * i] = t[i]
    BY <1>1, <2>1
  <2> QED BY <1>4, <2>2, <2>3
<1>7. n = 0 => a = <<>>
  BY <1>1
<1>8. n # 0 => a # <<>>
  BY <1>2
<1> QED BY <1>2, <1>5, <1>6, <1>7, <1>8

-----------------------------------------------------------------------------
(* The first members that an iteration passes *)
Passed(order, i) == {order[j] : j \in 1 .. i}

LEMMA PassedGrows ==
  ASSUME NEW S, NEW order, IsOrder(order, S)
  PROVE  /\ Len(order) \in Nat
         /\ Passed(order, 0) = {} /\ Passed(order, Len(order)) = S
         /\ \A i \in 1 .. Len(order) : /\ Passed(order, i) = Passed(order, i - 1) \cup {order[i]}
                                      /\ order[i] \notin Passed(order, i - 1)
                                      /\ order[i] \in S
<1>1. Len(order) \in Nat
  BY DEF IsOrder
<1>2. Passed(order, 0) = {}
  BY DEF Passed
<1>3. Passed(order, Len(order)) = S
  BY DEF Passed, IsOrder
<1>4. ASSUME NEW i \in 1 .. Len(order)
      PROVE  /\ Passed(order, i) = Passed(order, i - 1) \cup {order[i]}
             /\ order[i] \notin Passed(order, i - 1)
             /\ order[i] \in S
  <2>1. \A j : j \in 1 .. i <=> j \in 1 .. i - 1 \/ j = i
    BY <1>1
  <2>2. \A j \in 1 .. i - 1 : j \in 1 .. Len(order) /\ j # i
    BY <1>1
  <2>3. Passed(order, i) = Passed(order, i - 1) \cup {order[i]}
    BY <2>1 DEF Passed
  <2>4. order[i] \notin Passed(order, i - 1)
    BY <2>2 DEF Passed, IsOrder
  <2>5. order[i] \in S
    BY DEF IsOrder
  <2> QED BY <2>3, <2>4, <2>5
<1> QED BY <1>1, <1>2, <1>3, <1>4

(* A map on some of its keys *)
Part(f, S) == [x \in S |-> f[x]]

LEMMA PartGrows ==
  ASSUME NEW f, NEW S, NEW x PROVE With(Part(f, S), x, f[x]) = Part(f, S \cup {x})
  BY DEF With, Part

LEMMA NoPart == ASSUME NEW f PROVE Part(f, {}) = <<>>
  BY DEF Part

(* The fields of a hash, put one after the other *)
LEMMA HashComesBack ==
  ASSUME NEW D, NEW f, f = [x \in D |-> f[x]], NEW order, IsOrder(order, D)
  PROVE  PutAll("HSET", New("hash"), Pairs(Alternating(order, [i \in DOMAIN order |-> f[order[i]]])))
           = Hash(f)
<1> DEFINE n == Len(order)
           t == [i \in DOMAIN order |-> f[order[i]]]
           pairs == Pairs(Alternating(order, t))
           g == [i \in 0 .. n |-> Hash(Part(f, Passed(order, i)))]
<1>1. n \in Nat
  BY PassedGrows
<1>2. Len(pairs) = n /\ \A i \in 1 .. n : pairs[i] = <<order[i], t[i]>>
  <2> DEFINE a == Alternating(order, t)
  <2>1. Len(order) = n
    OBVIOUS
  <2> HIDE DEF t, n
  <2>2. Len(Pairs(a)) = n /\ \A i \in 1 .. n : Pairs(a)[i] = <<order[i], t[i]>>
    BY <1>1, <2>1, PairsOf
  <2> QED BY <2>2
<1>3. \A i \in 1 .. n : t[i] = f[order[i]]
  BY DEF IsOrder
<1>4. g[0] = New("hash")
  <2>1. g[0] = Hash(Part(f, Passed(order, 0)))
    BY <1>1
  <2> QED BY <2>1, PassedGrows, NoPart DEF New
<1>5. ASSUME NEW i \in 1 .. n PROVE g[i] = Put("HSET", g[i - 1], pairs[i])
  <2>1. g[i] = Hash(Part(f, Passed(order, i))) /\ g[i - 1] = Hash(Part(f, Passed(order, i - 1)))
    BY <1>1
  <2>2. pairs[i][1] = order[i] /\ pairs[i][2] = f[order[i]]
    <3> HIDE DEF pairs, t, n
    <3> QED BY <1>2, <1>3
  <2> HIDE DEF g, pairs, t
  <2>3. Put("HSET", g[i - 1], pairs[i]) = Hash(With(g[i - 1].map, pairs[i][1], pairs[i][2]))
    BY DEF Put
  <2>4. g[i - 1].map = Part(f, Passed(order, i - 1))
    BY <2>1 DEF Hash
  <2>5. Passed(order, i) = Passed(order, i - 1) \cup {order[i]}
    BY PassedGrows
  <2> QED BY <2>1, <2>2, <2>3, <2>4, <2>5, PartGrows
<1>6. g[n] = Hash(f)
  <2>1. g[n] = Hash(Part(f, Passed(order, n)))
    BY <1>1
  <2>2. Passed(order, n) = D
    BY PassedGrows
  <2> QED BY <2>1, <2>2 DEF Part
<1>7. PutAll("HSET", New("hash"), pairs) = g[n]
  <2> HIDE DEF g, pairs
  <2> QED BY <1>1, <1>2, <1>4, <1>5, PutAllIs
<1> QED BY <1>6, <1>7

(* A sorted set is known by its scores: the tree is their inverse. *)
Tree(f) == [s \in {f[x] : x \in DOMAIN f} |-> {x \in DOMAIN f : f[x] = s}]

LEMMA TreeOfScores ==
  ASSUME NEW f, NEW t, t = [s \in DOMAIN t |-> t[s]], Agree(f, t)
  PROVE  t = Tree(f)
<1>1. DOMAIN t = {f[x] : x \in DOMAIN f}
  BY DEF Agree
<1>2. \A s \in DOMAIN t : t[s] = {x \in DOMAIN f : f[x] = s}
  BY DEF Agree
<1> QED BY <1>1, <1>2 DEF Tree

LEMMA TreeAgrees == ASSUME NEW f PROVE Agree(f, Tree(f))
  BY DEF Agree, Tree

(* A member that is not there joins. *)
LEMMA JoinsTree ==
  ASSUME NEW f, f = [x \in DOMAIN f |-> f[x]], NEW m, m \notin DOMAIN f, NEW s
  PROVE  Join(Sorted(f, Tree(f)), s, m) = Sorted(With(f, m, s), Tree(With(f, m, s)))
<1> DEFINE v == Sorted(f, Tree(f))
           rest == Leave(v, {m})
           w == Join(v, s, m)
           t == With(rest.tree, s, IF s \in DOMAIN rest.tree THEN rest.tree[s] \cup {m} ELSE {m})
<1>1. v.scores = f /\ v.tree = Tree(f)
  BY DEF Sorted
<1>2. Agree(w.scores, w.tree)
  BY <1>1, TreeAgrees, JoinAgrees
<1>3. w = Sorted(With(rest.scores, m, s), t)
  BY DEF Join
<1>4. rest.scores = f
  <2>1. rest.scores = Without(v.scores, {m})
    BY DEF Leave, Sorted
  <2>2. DOMAIN f \ {m} = DOMAIN f
    OBVIOUS
  <2> QED BY <1>1, <2>1, <2>2 DEF Without
<1>5. w.scores = With(f, m, s) /\ w.tree = t
  BY <1>3, <1>4 DEF Sorted
<1>6. t = [z \in DOMAIN t |-> t[z]]
  BY DEF With
<1> HIDE DEF v, rest, w, t
<1>7. t = Tree(With(f, m, s))
  BY <1>2, <1>5, <1>6, TreeOfScores
<1> QED BY <1>3, <1>4, <1>7 DEF w, v

(* Such a member is in no bucket that it would have to be taken out of. *)
LEMMA JoinsAlone ==
  ASSUME NEW f, f = [x \in DOMAIN f |-> f[x]], NEW m, m \notin DOMAIN f, NEW s
  PROVE  JoinOnly(Sorted(f, Tree(f)), s, m) = Join(Sorted(f, Tree(f)), s, m)
<1> DEFINE v == Sorted(f, Tree(f))
           gone(score) == {x \in {m} \cap DOMAIN v.scores : v.scores[x] = score}
           left == {z \in DOMAIN v.tree : gone(z) = {} \/ v.tree[z] \ gone(z) # {}}
<1>1. v.scores = f /\ v.tree = Tree(f) /\ v.type = "zset"
  BY DEF Sorted
<1>2. Tree(f) = [z \in DOMAIN Tree(f) |-> Tree(f)[z]]
  BY DEF Tree
<1>3. ASSUME NEW z PROVE gone(z) = {}
  BY <1>1
<1>4. left = DOMAIN v.tree
  <2> HIDE DEF gone, v
  <2> QED BY <1>3
<1>5. Leave(v, {m}) = Sorted(Without(v.scores, {m}), [z \in left |-> v.tree[z] \ gone(z)])
  BY DEF Leave
<1>6. Without(v.scores, {m}) = f
  <2>1. DOMAIN f \ {m} = DOMAIN f
    OBVIOUS
  <2> QED BY <1>1, <2>1 DEF Without
<1>7. [z \in left |-> v.tree[z] \ gone(z)] = Tree(f)
  <2> HIDE DEF gone, v
  <2>1. \A z : v.tree[z] \ gone(z) = v.tree[z]
    BY <1>3
  <2> QED BY <1>1, <1>2, <1>4, <2>1
<1>8. Leave(v, {m}) = v
  BY <1>5, <1>6, <1>7
<1> QED BY <1>8 DEF Join, JoinOnly

(* The members of a sorted set, each with its score, one after the other *)
LEMMA SortedComesBack ==
  ASSUME NEW D, NEW f, f = [x \in D |-> f[x]], NEW order, IsOrder(order, D),
         NEW how \in {"load", "ZADD"}
  PROVE  PutAll(how, New("zset"), Pairs(Alternating([i \in DOMAIN order |-> f[order[i]]], order)))
           = Sorted(f, Tree(f))
<1> DEFINE n == Len(order)
           t == [i \in DOMAIN order |-> f[order[i]]]
           pairs == Pairs(Alternating(t, order))
           part(i) == Part(f, Passed(order, i))
           g == [i \in 0 .. n |-> Sorted(part(i), Tree(part(i)))]
<1>1. n \in Nat
  BY PassedGrows
<1>2. Len(pairs) = n /\ \A i \in 1 .. n : pairs[i] = <<t[i], order[i]>>
  <2>1. Len(t) = n
    BY DEF IsOrder
  <2> DEFINE a == Alternating(t, order)
  <2> HIDE DEF t, n
  <2>2. Len(Pairs(a)) = n /\ \A i \in 1 .. n : Pairs(a)[i] = <<t[i], order[i]>>
    BY <1>1, <2>1, PairsOf
  <2> QED BY <2>2
<1>3. \A i \in 1 .. n : t[i] = f[order[i]]
  BY DEF IsOrder
<1>4. g[0] = New("zset")
  <2>1. g[0] = Sorted(part(0), Tree(part(0)))
    BY <1>1
  <2>2. part(0) = <<>>
    BY PassedGrows, NoPart
  <2>3. Tree(<<>>) = <<>>
    BY DEF Tree
  <2> QED BY <2>1, <2>2, <2>3 DEF New
<1>5. ASSUME NEW i \in 1 .. n PROVE g[i] = Put(how, g[i - 1], pairs[i])
  <2>1. g[i] = Sorted(part(i), Tree(part(i))) /\ g[i - 1] = Sorted(part(i - 1), Tree(part(i - 1)))
    BY <1>1
  <2>2. pairs[i][1] = f[order[i]] /\ pairs[i][2] = order[i]
    <3> HIDE DEF pairs, t, n
    <3> QED BY <1>2, <1>3
  <2>3. Passed(order, i) = Passed(order, i - 1) \cup {order[i]} /\ order[i] \notin Passed(order, i - 1)
    BY PassedGrows
  <2>4. part(i) = With(part(i - 1), order[i], f[order[i]])
    BY <2>3, PartGrows
  <2>5. DOMAIN part(i - 1) = Passed(order, i - 1) /\ part(i - 1) = [x \in DOMAIN part(i - 1) |-> part(i - 1)[x]]
    BY DEF Part
  <2> HIDE DEF g, pairs, t, part
  <2>6. Put(how, g[i - 1], pairs[i]) = Join(g[i - 1], pairs[i][1], pairs[i][2])
    <3>1. CASE how = "ZADD"
      BY <3>1 DEF Put
    <3>2. CASE how = "load"
      <4>1. Put(how, g[i - 1], pairs[i]) = JoinOnly(g[i - 1], pairs[i][1], pairs[i][2])
        BY <3>2 DEF Put
      <4> QED BY <4>1, <2>1, <2>2, <2>3, <2>5, JoinsAlone
    <3> QED BY <3>1, <3>2
  <2>7. Join(Sorted(part(i - 1), Tree(part(i - 1))), f[order[i]], order[i])
          = Sorted(With(part(i - 1), order[i], f[order[i]]), Tree(With(part(i - 1), order[i], f[order[i]])))
    BY <2>3, <2>5, JoinsTree
  <2> QED BY <2>1, <2>2, <2>4, <2>6, <2>7
<1>6. g[n] = Sorted(f, Tree(f))
  <2>1. g[n] = Sorted(part(n), Tree(part(n)))
    BY <1>1
  <2>2. part(n) = f
    BY PassedGrows DEF Part
  <2> QED BY <2>1, <2>2
<1>7. PutAll(how, New("zset"), pairs) = g[n]
  <2> HIDE DEF g, pairs
  <2> QED BY <1>1, <1>2, <1>4, <1>5, PutAllIs
<1> QED BY <1>6, <1>7

-----------------------------------------------------------------------------
(* The values of the store, from the inductive invariants of Collections *)
Whole(v) ==
  \/ \E bytes : v = String(bytes)
  \/ \E s : v = List(s) /\ s \in Seq(Elem)
  \/ \E S \in SUBSET Elem : v = Set(S)
  \/ \E D \in SUBSET Elem : \E f : f = [x \in D |-> f[x]] /\ v = Hash(f)
  \/ \E D \in SUBSET Elem : \E f : f = [x \in D |-> f[x]] /\ v = Sorted(f, Tree(f))

(* The command that builds a value, and what it leaves of no key *)
Built(v, order) == Run(Stored(NoKey, NoTtl), [name |-> Builder(v.type), args |-> Items(v, order)])

LEMMA BuiltAgain ==
  ASSUME NEW v, Whole(v), NEW order \in Orders(v)
  PROVE  /\ Built(v, order) = Stored(v, NoTtl)
         /\ v.type \in {"string", "list", "set", "hash", "zset"} /\ v # NoKey
         /\ Items(v, order) = <<>> <=> v.type # "string" /\ Size(v) = 0
<1>1. CASE \E bytes : v = String(bytes)
  <2>1. PICK bytes : v = String(bytes)
    BY <1>1
  <2>2. v.type = "string" /\ v.bytes = bytes
    BY <2>1 DEF String
  <2>3. Items(v, order) = <<bytes>> /\ Builder(v.type) = "SET"
    BY <2>2 DEF Items, Builder
  <2>4. Built(v, order) = Stored(String(bytes), NoTtl)
    BY <2>3 DEF Built, Run
  <2> QED BY <2>1, <2>2, <2>3, <2>4 DEF NoKey
<1>2. CASE \E s : v = List(s) /\ s \in Seq(Elem)
  <2>1. PICK s : v = List(s) /\ s \in Seq(Elem)
    BY <1>2
  <2>2. v.type = "list" /\ v.list = s /\ Size(v) = Len(s)
    BY <2>1, Sizes DEF List
  <2>3. order = s
    BY <2>2 DEF Orders
  <2>4. Items(v, order) = s /\ Builder(v.type) = "RPUSH"
    BY <2>2, <2>3 DEF Items, Builder
  <2>5. New("list").list = <<>> /\ <<>> \o s = s
    BY <2>1 DEF New, List
  <2>6. Built(v, order) = Stored(List(s), NoTtl)
    BY <2>4, <2>5 DEF Built, Run, Stored
  <2>7. s = <<>> <=> Len(s) = 0
    BY <2>1
  <2> QED BY <2>1, <2>2, <2>4, <2>6, <2>7 DEF NoKey
<1>3. CASE \E S \in SUBSET Elem : v = Set(S)
  <2>1. PICK S \in SUBSET Elem : v = Set(S)
    BY <1>3
  <2>2. v.type = "set" /\ v.set = S /\ Size(v) = Cardinality(S)
    BY <2>1, Sizes DEF Set
  <2>3. IsOrder(order, S)
    BY <2>2, FiniteElems, OrdersCover DEF Orders
  <2>4. Items(v, order) = order /\ Builder(v.type) = "SADD"
    BY <2>2 DEF Items, Builder
  <2>5. Seqs!ToSet(order) = S
    BY <2>3 DEF IsOrder, Seqs!ToSet
  <2>6. New("set").set = {} /\ {} \cup S = S
    BY DEF New, Set
  <2>7. Built(v, order) = Stored(Set(S), NoTtl)
    BY <2>4, <2>5, <2>6 DEF Built, Run, Stored
  <2>8. order = <<>> <=> Cardinality(S) = 0
    BY <2>3 DEF IsOrder
  <2> QED BY <2>1, <2>2, <2>4, <2>7, <2>8 DEF NoKey
<1>4. CASE \E D \in SUBSET Elem : \E f : f = [x \in D |-> f[x]] /\ v = Hash(f)
  <2>0. PICK D \in SUBSET Elem : \E f : f = [x \in D |-> f[x]] /\ v = Hash(f)
    BY <1>4
  <2>1. PICK f : f = [x \in D |-> f[x]] /\ v = Hash(f)
    BY <2>0
  <2>2. v.type = "hash" /\ v.map = f /\ DOMAIN f = D /\ Size(v) = Cardinality(D)
    BY <2>1, Sizes DEF Hash
  <2>3. IsOrder(order, D)
    BY <2>2, FiniteElems, OrdersCover DEF Orders
  <2>4. /\ Items(v, order) = Alternating(order, [i \in DOMAIN order |-> f[order[i]]])
        /\ Builder(v.type) = "HSET"
    BY <2>2 DEF Items, Builder
  <2>5. PutAll("HSET", New("hash"), Pairs(Items(v, order))) = Hash(f)
    BY <2>1, <2>3, <2>4, HashComesBack
  <2>6. Built(v, order) = Stored(Hash(f), NoTtl)
    BY <2>4, <2>5 DEF Built, Run, Stored
  <2>7. Items(v, order) = <<>> <=> Cardinality(D) = 0
    BY <2>3, <2>4, PairsOf DEF IsOrder
  <2> QED BY <2>1, <2>2, <2>6, <2>7 DEF NoKey
<1>5. CASE \E D \in SUBSET Elem : \E f : f = [x \in D |-> f[x]] /\ v = Sorted(f, Tree(f))
  <2>0. PICK D \in SUBSET Elem : \E f : f = [x \in D |-> f[x]] /\ v = Sorted(f, Tree(f))
    BY <1>5
  <2>1. PICK f : f = [x \in D |-> f[x]] /\ v = Sorted(f, Tree(f))
    BY <2>0
  <2>2. v.type = "zset" /\ v.scores = f /\ DOMAIN f = D /\ Size(v) = Cardinality(D)
    BY <2>1, Sizes DEF Sorted
  <2>3. IsOrder(order, D)
    BY <2>2, FiniteElems, OrdersCover DEF Orders
  <2>4. /\ Items(v, order) = Alternating([i \in DOMAIN order |-> f[order[i]]], order)
        /\ Builder(v.type) = "ZADD"
    BY <2>2 DEF Items, Builder
  <2>5. PutAll("ZADD", New("zset"), Pairs(Items(v, order))) = Sorted(f, Tree(f))
    BY <2>1, <2>3, <2>4, SortedComesBack
  <2>6. Built(v, order) = Stored(Sorted(f, Tree(f)), NoTtl)
    BY <2>4, <2>5 DEF Built, Run, Stored
  <2>7. Len([i \in DOMAIN order |-> f[order[i]]]) = Len(order) /\ Len(order) \in Nat
    BY <2>3 DEF IsOrder
  <2>8. Items(v, order) = <<>> <=> Cardinality(D) = 0
    BY <2>3, <2>4, <2>7, PairsOf DEF IsOrder
  <2> QED BY <2>1, <2>2, <2>6, <2>8 DEF NoKey
<1> QED BY <1>1, <1>2, <1>3, <1>4, <1>5 DEF Whole

(* What the commands for a value and a deadline are, one by one *)
LEMMA CommandsAre ==
  ASSUME NEW v, NEW order, NEW ms
  PROVE  LET c == [name |-> Builder(v.type), args |-> Items(v, order)]
             e == [name |-> "EXPIRE", args |-> <<Seconds(ms)>>]
             all == ValueToCommands(v, order, ms)
         IN  /\ Items(v, order) = <<>> /\ ms = NoTtl => Len(all) = 0
             /\ Items(v, order) = <<>> /\ ms # NoTtl => Len(all) = 1 /\ all[1] = e
             /\ Items(v, order) # <<>> /\ ms = NoTtl => Len(all) = 1 /\ all[1] = c
             /\ Items(v, order) # <<>> /\ ms # NoTtl => Len(all) = 2 /\ all[1] = c /\ all[2] = e
<1> DEFINE c == [name |-> Builder(v.type), args |-> Items(v, order)]
           e == [name |-> "EXPIRE", args |-> <<Seconds(ms)>>]
           S == {c, e}
           a == IF Items(v, order) = <<>> THEN <<>> ELSE <<c>>
           b == IF ms = NoTtl THEN <<>> ELSE <<e>>
<1>1. ValueToCommands(v, order, ms) = a \o b
  BY DEF ValueToCommands
<1>2. /\ Items(v, order) = <<>> => a = <<>>
      /\ Items(v, order) # <<>> => a = <<c>>
      /\ ms = NoTtl => b = <<>>
      /\ ms # NoTtl => b = <<e>>
  BY Zenon
<1> HIDE DEF c, e, a, b
<1>3. /\ <<>> \in Seq(S) /\ Len(<<>>) = 0
      /\ <<c>> \in Seq(S) /\ Len(<<c>>) = 1 /\ <<c>>[1] = c
      /\ <<e>> \in Seq(S) /\ Len(<<e>>) = 1 /\ <<e>>[1] = e
  OBVIOUS
<1> HIDE DEF S
<1>4. a \in Seq(S) /\ b \in Seq(S)
  BY <1>2, <1>3
<1>5. /\ Len(a \o b) = Len(a) + Len(b)
      /\ \A i \in 1 .. Len(a) + Len(b) : (a \o b)[i] = IF i <= Len(a) THEN a[i] ELSE b[i - Len(a)]
  BY <1>4, ConcatProperties
<1>6. CASE Items(v, order) = <<>> /\ ms = NoTtl
  BY <1>1, <1>2, <1>3, <1>5, <1>6
<1>7. CASE Items(v, order) = <<>> /\ ms # NoTtl
  <2>1. Len(a) = 0 /\ Len(b) = 1 /\ b[1] = e
    BY <1>2, <1>3, <1>7
  <2>2. Len(a \o b) = 1 /\ (a \o b)[1] = e
    BY <1>5, <2>1
  <2> QED BY <1>1, <1>7, <2>2 DEF e
<1>8. CASE Items(v, order) # <<>> /\ ms = NoTtl
  <2>1. Len(a) = 1 /\ Len(b) = 0 /\ a[1] = c
    BY <1>2, <1>3, <1>8
  <2>2. Len(a \o b) = 1 /\ (a \o b)[1] = c
    BY <1>5, <2>1
  <2> QED BY <1>1, <1>8, <2>2 DEF c
<1>9. CASE Items(v, order) # <<>> /\ ms # NoTtl
  <2>1. Len(a) = 1 /\ Len(b) = 1 /\ a[1] = c /\ b[1] = e
    BY <1>2, <1>3, <1>9
  <2>2. Len(a \o b) = 2 /\ (a \o b)[1] = c /\ (a \o b)[2] = e
    BY <1>5, <2>1
  <2> QED BY <1>1, <1>9, <2>2 DEF c, e
<1> QED BY <1>6, <1>7, <1>8, <1>9

(* What RewritesReplay asks of one value, deadline and replay *)
ComesBack(v, ms, r) ==
  IF v.type # "string" /\ Size(v) = 0 THEN r = Stored(NoKey, NoTtl)
  ELSE /\ r.val = v
       /\ IF ms = NoTtl THEN r.ttl = NoTtl ELSE r.ttl - ms \in 0 .. 999

(* Whatever a rewrite finds in the store - a value of any size, its members   *)
(* in any order, any deadline or none - its commands replay to that value, *)
(* the deadline no earlier and less than a second later; of a collection   *)
(* without members nothing comes back.                                     *)
THEOREM RewriteComesBack ==
  ASSUME NEW v, Whole(v), NEW order \in Orders(v), NEW ms \in (Nat \ {0}) \cup {NoTtl}
  PROVE  ComesBack(v, ms, Replayed(ValueToCommands(v, order, ms)))
<1> DEFINE all == ValueToCommands(v, order, ms)
           r == Replayed(all)
           c == [name |-> Builder(v.type), args |-> Items(v, order)]
           e == [name |-> "EXPIRE", args |-> <<Seconds(ms)>>]
           start == Stored(NoKey, NoTtl)
<1>1. /\ Items(v, order) = <<>> /\ ms = NoTtl => Len(all) = 0
      /\ Items(v, order) = <<>> /\ ms # NoTtl => Len(all) = 1 /\ all[1] = e
      /\ Items(v, order) # <<>> /\ ms = NoTtl => Len(all) = 1 /\ all[1] = c
      /\ Items(v, order) # <<>> /\ ms # NoTtl => Len(all) = 2 /\ all[1] = c /\ all[2] = e
  BY CommandsAre
<1>2. Run(start, c) = Stored(v, NoTtl) /\ v # NoKey
  BY BuiltAgain DEF Built
<1>3. Run(start, e) = start
  BY DEF Run, Stored
<1>4. /\ Run(Stored(v, NoTtl), e).val = v
      /\ Run(Stored(v, NoTtl), e).ttl = 1000 * Seconds(ms)
  BY <1>2 DEF Run, Stored
<1>5. Items(v, order) = <<>> <=> v.type # "string" /\ Size(v) = 0
  BY BuiltAgain
<1> SUFFICES ComesBack(v, ms, r)
  OBVIOUS
<1> HIDE DEF all, c, e, start
<1>6. CASE Items(v, order) = <<>> /\ ms = NoTtl
  <2> DEFINE g == [i \in 0 .. 0 |-> start]
  <2>1. Len(all) = 0 /\ g[0] = start
    BY <1>1, <1>6
  <2> HIDE DEF g
  <2>2. r = g[0]
    BY <2>1, ReplayedIs DEF start
  <2> QED BY <1>5, <1>6, <2>1, <2>2 DEF ComesBack, start
<1>7. CASE Items(v, order) = <<>> /\ ms # NoTtl
  <2> DEFINE g == [i \in 0 .. 1 |-> start]
  <2>1. Len(all) = 1 /\ g[0] = start /\ g[1] = Run(g[1 - 1], all[1])
    BY <1>1, <1>3, <1>7
  <2>2. g[1] = start
    OBVIOUS
  <2> HIDE DEF g
  <2>3. \A i \in 1 .. Len(all) : g[i] = Run(g[i - 1], all[i])
    BY <2>1
  <2>4. r = g[Len(all)]
    <3>1. Len(all) \in Nat /\ g[0] = Stored(NoKey, NoTtl)
      BY <2>1 DEF start
    <3> QED BY <2>3, <3>1, ReplayedIs, Zenon
  <2> QED BY <1>5, <1>7, <2>1, <2>2, <2>4 DEF ComesBack, start
<1>8. CASE Items(v, order) # <<>> /\ ms = NoTtl
  <2> DEFINE g == [i \in 0 .. 1 |-> IF i = 0 THEN start ELSE Stored(v, NoTtl)]
  <2>1. Len(all) = 1 /\ g[0] = start /\ g[1] = Run(g[1 - 1], all[1])
    BY <1>1, <1>2, <1>8
  <2>2. g[1] = Stored(v, NoTtl)
    OBVIOUS
  <2> HIDE DEF g
  <2>3. \A i \in 1 .. Len(all) : g[i] = Run(g[i - 1], all[i])
    BY <2>1
  <2>4. r = g[Len(all)]
    <3>1. Len(all) \in Nat /\ g[0] = Stored(NoKey, NoTtl)
      BY <2>1 DEF start
    <3> QED BY <2>3, <3>1, ReplayedIs, Zenon
  <2>5. r.val = v /\ r.ttl = NoTtl
    BY <2>1, <2>2, <2>4 DEF Stored
  <2> QED BY <1>5, <1>8, <2>5 DEF ComesBack
<1>9. CASE Items(v, order) # <<>> /\ ms # NoTtl
  <2> DEFINE last == Run(Stored(v, NoTtl), e)
             g == [i \in 0 .. 2 |-> IF i = 0 THEN start ELSE IF i = 1 THEN Stored(v, NoTtl) ELSE last]
  <2>1. /\ Len(all) = 2 /\ g[0] = start
        /\ g[1] = Run(g[1 - 1], all[1]) /\ g[2] = Run(g[2 - 1], all[2])
    BY <1>1, <1>2, <1>9
  <2>2. g[2] = last
    OBVIOUS
  <2> HIDE DEF g
  <2>3. \A i \in 1 .. Len(all) : g[i] = Run(g[i - 1], all[i])
    BY <2>1
  <2>4. r = g[Len(all)]
    <3>1. Len(all) \in Nat /\ g[0] = Stored(NoKey, NoTtl)
      BY <2>1 DEF start
    <3> QED BY <2>3, <3>1, ReplayedIs, Zenon
  <2>5. ms \in Nat \ {0}
    BY <1>9
  <2>6. r.val = v /\ r.ttl - ms \in 0 .. 999
    <3>1. r = last
      BY <2>1, <2>2, <2>4
    <3>2. 1000 * Seconds(ms) - ms \in 0 .. 999
      BY <2>5, DeadlinesAreRoundedUp
    <3> HIDE DEF r
    <3>3. r.val = v /\ r.ttl = 1000 * Seconds(ms)
      BY <1>4, <3>1
    <3> QED BY <3>2, <3>3
  <2> QED BY <1>5, <1>9, <2>6 DEF ComesBack
<1> QED BY <1>6, <1>7, <1>8, <1>9

(* The values of the store, and the empty ones *)
LEMMA StoredIsWhole ==
  ASSUME NEW v, v # NoKey, Shaped(v), v.type = "zset" => Agree(v.scores, v.tree)
  PROVE  Whole(v)
<1>1. CASE IsList(v) \/ IsSet(v)
  BY <1>1 DEF IsList, IsSet, Whole
<1>2. CASE IsHash(v)
  <2>1. PICK D \in SUBSET Elem : \E f \in [D -> {"value"}] : v = Hash(f)
    BY <1>2 DEF IsHash
  <2>2. PICK f \in [D -> {"value"}] : v = Hash(f)
    BY <2>1
  <2> QED BY <2>2 DEF Whole
<1>3. CASE IsSorted(v)
  <2>1. PICK D \in SUBSET Elem, E \in SUBSET Score :
          \E f \in [D -> Score] : \E t \in [E -> SUBSET Elem] : v = Sorted(f, t)
    BY <1>3 DEF IsSorted
  <2>2. PICK f \in [D -> Score], t \in [E -> SUBSET Elem] : v = Sorted(f, t)
    BY <2>1
  <2>3. Agree(f, t)
    BY <2>2 DEF Sorted
  <2>4. t = Tree(f)
    BY <2>3, TreeOfScores
  <2> QED BY <2>2, <2>4 DEF Whole
<1> QED BY <1>1, <1>2, <1>3 DEF Shaped, Collected

LEMMA EmptyIsWhole ==
  Whole(String("a")) /\ \A type \in {"list", "set", "hash", "zset"} : Whole(New(type))
<1>1. Whole(String("a"))
  BY DEF Whole
<1>2. Whole(New("list"))
  <2>1. New("list") = List(<<>>) /\ <<>> \in Seq(Elem)
    BY DEF New
  <2> QED BY <2>1 DEF Whole
<1>3. Whole(New("set"))
  BY DEF New, Whole
<1> DEFINE f == [x \in {} |-> x]
<1>4. f = <<>> /\ f = [x \in {} |-> f[x]] /\ Tree(f) = <<>> /\ {} \in SUBSET Elem
  BY DEF Tree
<1> HIDE DEF f
<1>5. Whole(Hash(f)) /\ Whole(Sorted(f, Tree(f)))
  BY <1>4 DEF Whole
<1>6. New("hash") = Hash(f) /\ New("zset") = Sorted(f, Tree(f))
  BY <1>4 DEF New
<1> QED BY <1>1, <1>2, <1>3, <1>5, <1>6

LEMMA AllRewritesReplay == ASSUME Shape, HalvesAgree PROVE RewritesReplay
<1> SUFFICES ASSUME NEW v \in {value, String("a")} \cup {New(t) : t \in {"list", "set", "hash", "zset"}},
                    v # NoKey, NEW ms \in {NoTtl} \cup {1, 999, 1000, 1001}, NEW order \in Orders(v)
             PROVE  ComesBack(v, ms, Replayed(ValueToCommands(v, order, ms)))
  BY DEF RewritesReplay, ComesBack
<1>1. Whole(v)
  <2>1. CASE v = value
    BY <2>1, StoredIsWhole DEF Shape, HalvesAgree
  <2>2. CASE v # value
    BY <2>2, EmptyIsWhole
  <2> QED BY <2>1, <2>2
<1>2. ms \in (Nat \ {0}) \cup {NoTtl}
  OBVIOUS
<1> QED BY <1>1, <1>2, RewriteComesBack

(* The commands that a rewrite makes of what the handlers put into the store  *)
(* replay to it; of an emptied collection they make no key (value_to_commands).   *)
THEOREM RewritesRestoreValues == Spec => []RewritesReplay
<1>1. Shape /\ HalvesAgree => RewritesReplay
  BY AllRewritesReplay
<1> QED BY <1>1, ShapeIsInvariant, SortedSetHalvesAgree, PTL

-----------------------------------------------------------------------------
(* Sequences of anything, put one behind the other *)
IsCells(s) == Len(s) \in Nat /\ s = [i \in 1 .. Len(s) |-> s[i]]

LEMMA CellsOf == ASSUME NEW S, NEW s \in Seq(S) PROVE IsCells(s)
  BY DEF IsCells

LEMMA SomeCells == ASSUME NEW s, IsCells(s) PROVE s \in Seq({s[i] : i \in 1 .. Len(s)})
<1> DEFINE S == {s[i] : i \in 1 .. Len(s)}
<1>1. s \in [1 .. Len(s) -> S]
  BY DEF IsCells
<1> QED BY <1>1 DEF IsCells

LEMMA MoreCells ==
  ASSUME NEW s, IsCells(s), NEW S, \A i \in 1 .. Len(s) : s[i] \in S
  PROVE  s \in Seq(S)
<1>1. s \in [1 .. Len(s) -> S]
  BY DEF IsCells
<1> QED BY <1>1 DEF IsCells

LEMMA Behind ==
  ASSUME NEW a, IsCells(a), NEW b, IsCells(b)
  PROVE  /\ IsCells(a \o b) /\ Len(a \o b) = Len(a) + Len(b)
         /\ \A i \in 1 .. Len(a) : (a \o b)[i] = a[i]
         /\ \A i \in 1 .. Len(b) : (a \o b)[Len(a) + i] = b[i]
<1> DEFINE S == {a[i] : i \in 1 .. Len(a)} \cup {b[i] : i \in 1 .. Len(b)}
<1>1. a \in Seq(S) /\ b \in Seq(S)
  <2>1. \A i \in 1 .. Len(a) : a[i] \in S
    OBVIOUS
  <2>2. \A i \in 1 .. Len(b) : b[i] \in S
    OBVIOUS
  <2> HIDE DEF S
  <2> QED BY <2>1, <2>2, MoreCells
<1>2. Len(a) \in Nat /\ Len(b) \in Nat
  BY DEF IsCells
<1> HIDE DEF S
<1>3. /\ a \o b \in Seq(S) /\ Len(a \o b) = Len(a) + Len(b)
      /\ \A i \in 1 .. Len(a) + Len(b) : (a \o b)[i] = IF i <= Len(a) THEN a[i] ELSE b[i - Len(a)]
  BY <1>1, ConcatProperties
<1>4. \A i \in 1 .. Len(a) : (a \o b)[i] = a[i]
  BY <1>2, <1>3
<1>5. \A i \in 1 .. Len(b) : (a \o b)[Len(a) + i] = b[i]
  <2> TAKE i \in 1 .. Len(b)
  <2>1. Len(a) + i \in 1 .. Len(a) + Len(b) /\ ~(Len(a) + i <= Len(a)) /\ (Len(a) + i) - Len(a) = i
    BY <1>2
  <2> QED BY <1>3, <2>1
<1>6. IsCells(a \o b)
  BY <1>3, CellsOf
<1> QED BY <1>3, <1>4, <1>5, <1>6

-----------------------------------------------------------------------------
(* What write_value writes of a value, and read_value builds of it *)
LEMMA ItemsAre ==
  ASSUME NEW v, Whole(v), NEW order \in Orders(v)
  PROVE  /\ IsCells(Items(v, order))
         /\ Build(v.type, Items(v, order)) = v
         /\ v.type = "string" => Len(Items(v, order)) = 1
         /\ v.type \in {"list", "set"} => Len(Items(v, order)) = Len(order)
         /\ v.type \in {"hash", "zset"} => Len(Items(v, order)) = 2 * Len(order)
         /\ v.type # "string" => Len(order) \in Nat
<1>1. CASE \E bytes : v = String(bytes)
  <2>1. PICK bytes : v = String(bytes)
    BY <1>1
  <2>2. v.type = "string" /\ v.bytes = bytes
    BY <2>1 DEF String
  <2>3. Items(v, order) = <<bytes>>
    BY <2>2 DEF Items
  <2>4. IsCells(<<bytes>>) /\ Len(<<bytes>>) = 1 /\ <<bytes>>[1] = bytes
    BY DEF IsCells
  <2>5. Build("string", <<bytes>>) = String(bytes)
    BY <2>4 DEF Build
  <2> QED BY <2>1, <2>2, <2>3, <2>4, <2>5
<1>2. CASE \E s : v = List(s) /\ s \in Seq(Elem)
  <2>1. PICK s : v = List(s) /\ s \in Seq(Elem)
    BY <1>2
  <2>2. v.type = "list" /\ v.list = s
    BY <2>1 DEF List
  <2>3. order = s /\ Items(v, order) = s
    BY <2>2 DEF Orders, Items
  <2>4. Build("list", s) = List(s)
    BY DEF Build
  <2> QED BY <2>1, <2>2, <2>3, <2>4, CellsOf DEF IsCells
<1>3. CASE \E S \in SUBSET Elem : v = Set(S)
  <2>1. PICK S \in SUBSET Elem : v = Set(S)
    BY <1>3
  <2>2. v.type = "set" /\ v.set = S
    BY <2>1 DEF Set
  <2>3. IsOrder(order, S)
    BY <2>2, FiniteElems, OrdersCover DEF Orders
  <2>4. Items(v, order) = order
    BY <2>2 DEF Items
  <2>5. Seqs!ToSet(order) = S
    BY <2>3 DEF IsOrder, Seqs!ToSet
  <2>6. Build("set", order) = Set(S)
    BY <2>5 DEF Build
  <2>7. IsCells(order)
    BY <2>3, CellsOf DEF IsOrder
  <2> QED BY <2>1, <2>2, <2>4, <2>6, <2>7 DEF IsCells
<1>4. CASE \E D \in SUBSET Elem : \E f : f = [x \in D |-> f[x]] /\ v = Hash(f)
  <2>0. PICK D \in SUBSET Elem : \E f : f = [x \in D |-> f[x]] /\ v = Hash(f)
    BY <1>4
  <2>1. PICK f : f = [x \in D |-> f[x]] /\ v = Hash(f)
    BY <2>0
  <2>2. v.type = "hash" /\ v.map = f /\ DOMAIN f = D
    BY <2>1 DEF Hash
  <2>3. IsOrder(order, D)
    BY <2>2, FiniteElems, OrdersCover DEF Orders
  <2>4. Items(v, order) = Alternating(order, [i \in DOMAIN order |-> f[order[i]]])
    BY <2>2 DEF Items
  <2>5. Build("hash", Items(v, order)) = PutAll("HSET", New("hash"), Pairs(Items(v, order)))
    BY DEF Build
  <2>6. Build("hash", Items(v, order)) = Hash(f)
    BY <2>1, <2>3, <2>4, <2>5, HashComesBack
  <2>7. Len(order) \in Nat
    BY <2>3 DEF IsOrder
  <2>8. Len(Items(v, order)) = 2 * Len(order)
    BY <2>4, <2>7, PairsOf
  <2>9. IsCells(Items(v, order))
    BY <2>4, <2>7, <2>8 DEF IsCells, Alternating
  <2> QED BY <2>1, <2>2, <2>6, <2>7, <2>8, <2>9
<1>5. CASE \E D \in SUBSET Elem : \E f : f = [x \in D |-> f[x]] /\ v = Sorted(f, Tree(f))
  <2>0. PICK D \in SUBSET Elem : \E f : f = [x \in D |-> f[x]] /\ v = Sorted(f, Tree(f))
    BY <1>5
  <2>1. PICK f : f = [x \in D |-> f[x]] /\ v = Sorted(f, Tree(f))
    BY <2>0
  <2>2. v.type = "zset" /\ v.scores = f /\ DOMAIN f = D
    BY <2>1 DEF Sorted
  <2>3. IsOrder(order, D)
    BY <2>2, FiniteElems, OrdersCover DEF Orders
  <2>4. Items(v, order) = Alternating([i \in DOMAIN order |-> f[order[i]]], order)
    BY <2>2 DEF Items
  <2>5. Build("zset", Items(v, order)) = PutAll("load", New("zset"), Pairs(Items(v, order)))
    BY DEF Build
  <2>6. Build("zset", Items(v, order)) = Sorted(f, Tree(f))
    BY <2>1, <2>3, <2>4, <2>5, SortedComesBack
  <2>7. Len([i \in DOMAIN order |-> f[order[i]]]) = Len(order) /\ Len(order) \in Nat
    BY <2>3 DEF IsOrder
  <2>8. Len(Items(v, order)) = 2 * Len(order)
    BY <2>4, <2>7, PairsOf
  <2>9. IsCells(Items(v, order))
    BY <2>4, <2>7, <2>8 DEF IsCells, Alternating
  <2> QED BY <2>1, <2>2, <2>6, <2>7, <2>8, <2>9
<1> QED BY <1>1, <1>2, <1>3, <1>4, <1>5 DEF Whole

-----------------------------------------------------------------------------
(* Some cells have w from cell p on, or end within it. *)
Has(cells, p, w) ==
  /\ p + Len(w) - 1 <= Len(cells)
  /\ \A i \in 1 .. Len(w) : cells[p + i - 1] = w[i]

EndsIn(cells, p, w) ==
  /\ Len(cells) < p + Len(w) - 1
  /\ \A i \in 1 .. Len(w) : p + i - 1 <= Len(cells) => cells[p + i - 1] = w[i]

LEMMA OneBefore ==
  ASSUME NEW x, NEW k, IsCells(k)
  PROVE  /\ IsCells(<<x>> \o k) /\ Len(<<x>> \o k) = 1 + Len(k)
         /\ (<<x>> \o k)[1] = x
         /\ \A i \in 1 .. Len(k) : (<<x>> \o k)[1 + i] = k[i]
<1>1. IsCells(<<x>>) /\ Len(<<x>>) = 1 /\ <<x>>[1] = x
  BY DEF IsCells
<1> DEFINE a == <<x>>
<1>2. IsCells(a)
  BY <1>1, Zenon
<1>3. Len(a) = 1 /\ a[1] = x
  BY <1>1, Zenon
<1>5. SUFFICES /\ IsCells(a \o k) /\ Len(a \o k) = 1 + Len(k) /\ (a \o k)[1] = x
               /\ \A i \in 1 .. Len(k) : (a \o k)[1 + i] = k[i]
  BY Zenon
<1> HIDE DEF a
<1>6. IsCells(a \o k) /\ Len(a \o k) = 1 + Len(k)
  <2>1. IsCells(a \o k) /\ Len(a \o k) = Len(a) + Len(k)
    BY <1>2, Behind
  <2> QED BY <1>3, <2>1
<1>7. (a \o k)[1] = x
  <2>1. 1 \in 1 .. Len(a)
    BY <1>3
  <2> QED BY <2>1, <1>2, <1>3, Behind
<1>8. \A i \in 1 .. Len(k) : (a \o k)[1 + i] = k[i]
  <2>1. \A i \in 1 .. Len(k) : (a \o k)[Len(a) + i] = k[i]
    BY <1>2, Behind
  <2> QED BY <1>3, <2>1
<1> QED BY <1>6, <1>7, <1>8

(* What write_value writes: the items, behind their number *)
LEMMA WrittenValue ==
  ASSUME NEW v, Whole(v), NEW order \in Orders(v)
  PROVE  LET w == WriteValue(v, order)
             k == Items(v, order)
             h == IF v.type = "string" THEN 0 ELSE 1
         IN  /\ IsCells(w) /\ Len(w) = h + Len(k)
             /\ v.type # "string" => w[1] = Len(order)
             /\ \A i \in 1 .. Len(k) : w[h + i] = k[i]
<1> DEFINE w == WriteValue(v, order)
           k == Items(v, order)
<1>1. IsCells(k)
  BY ItemsAre
<1>2. CASE v.type = "string"
  <2>1. w = k
    BY <1>2 DEF WriteValue
  <2>2. \A i \in 1 .. Len(k) : w[0 + i] = k[i]
    BY <2>1
  <2>3. Len(w) = 0 + Len(k)
    BY <2>1, <1>1 DEF IsCells
  <2> HIDE DEF w, k
  <2>4. IsCells(w)
    BY <1>1, <2>1
  <2> QED BY <1>2, <2>2, <2>3, <2>4 DEF w, k
<1>3. CASE v.type # "string"
  <2>1. w = <<Len(order)>> \o k
    BY <1>3 DEF WriteValue
  <2>2. /\ IsCells(w) /\ Len(w) = 1 + Len(k) /\ w[1] = Len(order)
        /\ \A i \in 1 .. Len(k) : w[1 + i] = k[i]
    <3> HIDE DEF w, k
    <3> QED BY <1>1, <2>1, OneBefore
  <2> QED BY <1>3, <2>2
<1> QED BY <1>2, <1>3

(* The cells from one place to another *)
LEMMA CellsBetween ==
  ASSUME NEW cells, IsCells(cells), NEW p \in Nat \ {0}, NEW k, IsCells(k),
         p + Len(k) - 1 <= Len(cells), \A i \in 1 .. Len(k) : cells[p + i - 1] = k[i]
  PROVE  SubSeq(cells, p, p + Len(k) - 1) = k
<1> DEFINE S == {cells[i] : i \in 1 .. Len(cells)}
           s == SubSeq(cells, p, p + Len(k) - 1)
<1>1. cells \in Seq(S) /\ Len(cells) \in Nat /\ Len(k) \in Nat
  BY SomeCells DEF IsCells
<1>2. CASE Len(k) = 0
  <2>1. s = <<>>
    <3>1. p + Len(k) - 1 < p
      BY <1>2
    <3> QED BY <1>1, <3>1, SubSeqEmpty
  <2>2. k = <<>>
    BY <1>2 DEF IsCells
  <2> QED BY <2>1, <2>2
<1>3. CASE Len(k) # 0
  <2>1. p \in 1 .. Len(cells) + 1 /\ p + Len(k) - 1 \in p - 1 .. Len(cells)
    BY <1>1
  <2>2. /\ s \in Seq(S)
        /\ Len(s) = (p + Len(k) - 1) - p + 1
        /\ \A i \in 1 .. (p + Len(k) - 1) - p + 1 : s[i] = cells[p + i - 1]
    <3> HIDE DEF S
    <3> QED BY <1>1, <2>1, SubSeqProperties
  <2>3. (p + Len(k) - 1) - p + 1 = Len(k)
    BY <1>1
  <2>4. s = [i \in 1 .. Len(s) |-> s[i]]
    BY <2>2
  <2>5. k = [i \in 1 .. Len(k) |-> k[i]]
    BY DEF IsCells
  <2> HIDE DEF s, S
  <2>6. Len(s) = Len(k) /\ \A i \in 1 .. Len(k) : s[i] = k[i]
    BY <2>2, <2>3
  <2> QED BY <2>4, <2>5, <2>6 DEF s
<1> QED BY <1>2, <1>3

LEMMA ValueIsRead ==
  ASSUME NEW v, Whole(v), NEW order \in Orders(v),
         NEW type, type = v.type,
         NEW cells, IsCells(cells), NEW p \in Nat \ {0}, Has(cells, p, WriteValue(v, order))
  PROVE  ReadValue(cells, p, type)
           = [ok |-> TRUE, val |-> v, next |-> p + Len(WriteValue(v, order))]
<1> DEFINE w == WriteValue(v, order)
           k == Items(v, order)
           h == IF type = "string" THEN 0 ELSE 1
           m == Len(k)
<1>q. PICK q : q = Start(p, type)
  OBVIOUS
<1>1. /\ IsCells(w) /\ Len(w) = h + m
      /\ type # "string" => w[1] = Len(order)
      /\ \A i \in 1 .. m : w[h + i] = k[i]
  BY WrittenValue
<1>2. /\ IsCells(k) /\ m \in Nat /\ Len(cells) \in Nat /\ q \in Nat /\ h \in Nat
      /\ q = p + h
      /\ type # "string" => h = 1
  BY <1>q, ItemsAre DEF IsCells, Start
<1>3. /\ type = "string" => m = 1
      /\ type \in {"list", "set"} => m = Len(order)
      /\ type \in {"hash", "zset"} => m = 2 * Len(order)
      /\ type \in {"string", "list", "set", "hash", "zset"}
  BY ItemsAre, BuiltAgain
<1>4. Build(type, k) = v
  BY ItemsAre
<1>5. /\ p + Len(w) - 1 <= Len(cells)
      /\ \A i \in 1 .. Len(w) : cells[p + i - 1] = w[i]
  BY DEF Has
<1> HIDE DEF w, k, h, m
<1>6. Len(w) \in Nat \ {0} /\ p <= Len(cells)
  BY <1>1, <1>2, <1>3, <1>5
<1>7. CountAt(cells, p, type) = m
  <2>1. type # "string" => cells[p] = Len(order)
    <3>1. 1 \in 1 .. Len(w) /\ p + 1 - 1 = p
      BY <1>6
    <3> QED BY <1>1, <1>5, <3>1
  <2> QED BY <1>3, <2>1 DEF CountAt
<1>8. \A i \in 1 .. m : cells[q + i - 1] = k[i]
  <2> TAKE i \in 1 .. m
  <2>1. h + i \in 1 .. Len(w) /\ p + (h + i) - 1 = q + i - 1
    BY <1>1, <1>2
  <2> QED BY <1>1, <1>5, <2>1
<1>9. q + m = p + Len(w) /\ q + m - 1 <= Len(cells) /\ q \in Nat \ {0}
  BY <1>1, <1>2, <1>5
<1>10. SubSeq(cells, q, q + m - 1) = k
  BY <1>2, <1>8, <1>9, CellsBetween DEF m
<1>11. ReadValue(cells, p, type)
         = [ok |-> TRUE, val |-> Build(type, SubSeq(cells, q, q + m - 1)), next |-> q + m]
  <2>1. q + m - 1 <= Len(cells) /\ p <= Len(cells)
    BY <1>6, <1>9
  <2>2. q \in Nat /\ m \in Nat /\ Len(cells) \in Nat /\ p \in Nat
    BY <1>2
  <2>3. Start(p, type) = q
    BY <1>q
  <2> QED BY <1>7, <2>1, <2>2, <2>3 DEF ReadValue
<1> QED BY <1>4, <1>9, <1>10, <1>11 DEF w

LEMMA CutValueIsNoticed ==
  ASSUME NEW v, Whole(v), NEW order \in Orders(v),
         NEW type, type = v.type,
         NEW cells, IsCells(cells), NEW p \in Nat \ {0}, EndsIn(cells, p, WriteValue(v, order))
  PROVE  ReadValue(cells, p, type) = Cut
<1> DEFINE w == WriteValue(v, order)
           h == IF type = "string" THEN 0 ELSE 1
           m == Len(Items(v, order))
<1>q. PICK q : q = Start(p, type)
  OBVIOUS
<1>1. /\ Len(w) = h + m
      /\ type # "string" => w[1] = Len(order)
  BY WrittenValue
<1>2. /\ m \in Nat /\ Len(cells) \in Nat /\ q \in Nat /\ h \in Nat
      /\ q = p + h
      /\ type # "string" => h = 1
  BY <1>q, ItemsAre DEF IsCells, Start
<1>3. /\ type = "string" => m = 1
      /\ type \in {"list", "set"} => m = Len(order)
      /\ type \in {"hash", "zset"} => m = 2 * Len(order)
      /\ type \in {"string", "list", "set", "hash", "zset"}
  BY ItemsAre, BuiltAgain
<1>4. /\ Len(cells) < p + Len(w) - 1
      /\ \A i \in 1 .. Len(w) : p + i - 1 <= Len(cells) => cells[p + i - 1] = w[i]
  BY DEF EndsIn
<1> HIDE DEF w, h, m
<1>5. CASE p > Len(cells)
  BY <1>5 DEF ReadValue
<1>6. CASE p <= Len(cells)
  <2>1. type # "string" => cells[p] = Len(order)
    <3>1. Len(w) \in Nat /\ 1 \in 1 .. Len(w) /\ p + 1 - 1 = p
      BY <1>1, <1>2, <1>4, <1>6
    <3> QED BY <1>1, <1>4, <1>6, <3>1
  <2>2. CountAt(cells, p, type) = m
    BY <1>3, <2>1 DEF CountAt
  <2>3. q + m - 1 > Len(cells)
    BY <1>1, <1>2, <1>4
  <2> QED BY <1>q, <1>2, <2>2, <2>3 DEF ReadValue
<1>7. p > Len(cells) \/ p <= Len(cells)
  BY <1>2
<1> QED BY <1>5, <1>6, <1>7, Zenon

-----------------------------------------------------------------------------
(* What a save finds under a key *)
Kept(e) == \E v, ttl : Whole(v) /\ ttl \in Nat \cup {NoTtl} /\ e = Stored(v, ttl)

(* The cells of an entry *)
LEMMA EntryIs ==
  ASSUME NEW key, NEW e, Kept(e), NEW order \in Orders(e.val),
         NEW d, d = IF e.ttl = NoTtl THEN 0 ELSE 2,
         NEW w, w = WriteEntry(key, e, order), NEW x, x = WriteValue(e.val, order)
  PROVE  /\ IsCells(w) /\ Len(w) = d + 2 + Len(x) /\ Len(x) \in Nat \ {0}
         /\ e.ttl # NoTtl => w[1] = "expire_ms" /\ w[2] = e.ttl
         /\ w[d + 1] = e.val.type /\ w[d + 2] = key
         /\ \A i \in 1 .. Len(x) : w[d + 2 + i] = x[i]
<1> DEFINE a == IF e.ttl = NoTtl THEN <<>> ELSE <<"expire_ms", e.ttl>>
           b == <<e.val.type, key>>
           ab == a \o b
<1>1. Whole(e.val)
  BY DEF Kept, Stored
<1>2. IsCells(x) /\ Len(x) \in Nat \ {0}
  <2> DEFINE h == IF e.val.type = "string" THEN 0 ELSE 1
             m == Len(Items(e.val, order))
  <2>1. IsCells(x) /\ Len(x) = h + m
    BY <1>1, WrittenValue
  <2>2. m \in Nat /\ (e.val.type = "string" => m = 1)
    BY <1>1, ItemsAre DEF IsCells
  <2>3. h \in Nat /\ (e.val.type # "string" => h = 1)
    OBVIOUS
  <2> HIDE DEF h, m
  <2>4. h + m \in Nat \ {0}
    BY <2>2, <2>3
  <2> QED BY <2>1, <2>4
<1>3. IsCells(a) /\ Len(a) = d /\ (e.ttl # NoTtl => a[1] = "expire_ms" /\ a[2] = e.ttl)
  <2>1. CASE e.ttl = NoTtl
    <3>1. a = <<>> /\ d = 0
      BY <2>1
    <3>2. IsCells(<<>>) /\ Len(<<>>) = 0
      BY DEF IsCells
    <3> QED BY <2>1, <3>1, <3>2
  <2>2. CASE e.ttl # NoTtl
    <3>1. a = <<"expire_ms", e.ttl>> /\ d = 2
      BY <2>2
    <3>2. /\ IsCells(<<"expire_ms", e.ttl>>) /\ Len(<<"expire_ms", e.ttl>>) = 2
          /\ <<"expire_ms", e.ttl>>[1] = "expire_ms" /\ <<"expire_ms", e.ttl>>[2] = e.ttl
      BY DEF IsCells
    <3> QED BY <3>1, <3>2
  <2> QED BY <2>1, <2>2
<1>4. IsCells(b) /\ Len(b) = 2 /\ b[1] = e.val.type /\ b[2] = key
  BY DEF IsCells
<1>5. w = ab \o x
  BY DEF WriteEntry
<1>6. d \in {0, 2} /\ (e.ttl # NoTtl => d = 2)
  OBVIOUS
<1> HIDE DEF a, b
<1>7. /\ IsCells(ab) /\ Len(ab) = Len(a) + Len(b)
      /\ \A i \in 1 .. Len(a) : ab[i] = a[i]
      /\ \A i \in 1 .. Len(b) : ab[Len(a) + i] = b[i]
  <2>1. IsCells(a) /\ IsCells(b)
    BY <1>3, <1>4
  <2>2. IsCells(ab) /\ Len(ab) = Len(a) + Len(b)
    BY <2>1, Behind
  <2>3. \A i \in 1 .. Len(a) : ab[i] = a[i]
    BY <2>1, Behind
  <2>4. \A i \in 1 .. Len(b) : ab[Len(a) + i] = b[i]
    BY <2>1, Behind
  <2> QED BY <2>2, <2>3, <2>4
<1> HIDE DEF ab
<1>8. /\ IsCells(w) /\ Len(w) = Len(ab) + Len(x)
      /\ \A i \in 1 .. Len(ab) : w[i] = ab[i]
      /\ \A i \in 1 .. Len(x) : w[Len(ab) + i] = x[i]
  <2>1. IsCells(ab) /\ IsCells(x)
    BY <1>2, <1>7
  <2>2. IsCells(ab \o x) /\ Len(ab \o x) = Len(ab) + Len(x)
    BY <2>1, Behind
  <2>3. \A i \in 1 .. Len(ab) : (ab \o x)[i] = ab[i]
    BY <2>1, Behind
  <2>4. \A i \in 1 .. Len(x) : (ab \o x)[Len(ab) + i] = x[i]
    BY <2>1, Behind
  <2> QED BY <1>5, <2>2, <2>3, <2>4
<1>9. Len(ab) = d + 2 /\ d \in Nat
  BY <1>3, <1>4, <1>6, <1>7
<1>10. e.ttl # NoTtl => w[1] = "expire_ms" /\ w[2] = e.ttl
  <2> SUFFICES ASSUME e.ttl # NoTtl PROVE w[1] = "expire_ms" /\ w[2] = e.ttl
    OBVIOUS
  <2>1. Len(a) = 2 /\ Len(ab) = 4
    BY <1>3, <1>6, <1>9
  <2>2. 1 \in 1 .. Len(a) /\ 2 \in 1 .. Len(a) /\ 1 \in 1 .. Len(ab) /\ 2 \in 1 .. Len(ab)
    BY <2>1
  <2> QED BY <1>3, <1>7, <1>8, <2>2
<1>11. w[d + 1] = e.val.type /\ w[d + 2] = key
  <2>1. d + 1 \in 1 .. Len(ab) /\ d + 2 \in 1 .. Len(ab) /\ 1 \in 1 .. Len(b) /\ 2 \in 1 .. Len(b)
    BY <1>4, <1>9
  <2>2. ab[d + 1] = b[1] /\ ab[d + 2] = b[2]
    BY <1>3, <1>7, <2>1
  <2> QED BY <1>4, <1>8, <2>1, <2>2
<1>12. \A i \in 1 .. Len(x) : w[d + 2 + i] = x[i]
  BY <1>8, <1>9
<1>13. Len(w) = d + 2 + Len(x)
  BY <1>8, <1>9
<1> QED BY <1>2, <1>8, <1>10, <1>11, <1>12, <1>13

LEMMA EntryHasCells ==
  ASSUME NEW key, NEW e, Kept(e), NEW order \in Orders(e.val), NEW w, w = WriteEntry(key, e, order)
  PROVE  IsCells(w) /\ Len(w) # 0
<1> PICK d : d = IF e.ttl = NoTtl THEN 0 ELSE 2
  OBVIOUS
<1> PICK x : x = WriteValue(e.val, order)
  OBVIOUS
<1>1. IsCells(w) /\ Len(w) = d + 2 + Len(x) /\ Len(x) \in Nat \ {0}
  BY EntryIs
<1>2. d \in Nat
  OBVIOUS
<1> QED BY <1>1, <1>2

-----------------------------------------------------------------------------
(* The types of values *)
Types == {"string", "list", "set", "hash", "zset"}

(* A reader at cell p with what it has read *)
Reading(p, data) == [at |-> p, data |-> data, stage |-> "reading"]

LEMMA Breaks ==
  ASSUME NEW p, NEW data
  PROVE  [Reading(p, data) EXCEPT !.stage = "broken"].stage = "broken"
  BY DEF Reading

LEMMA DatedTurn ==
  ASSUME NEW cells, NEW p \in Nat, Len(cells) \in Nat, p + 2 <= Len(cells), cells[p] = "expire_ms",
         NEW now, NEW data
  PROVE  LET t == Turn(cells, now, Reading(p, data))
             v == ReadValue(cells, p + 4, cells[p + 2])
         IN  /\ v = Cut => t.stage = "broken"
             /\ \A val, next : v = [ok |-> TRUE, val |-> val, next |-> next] =>
                  t = Reading(next, IF Lapsed(cells[p + 1], now) THEN data
                                    ELSE With(data, cells[p + 3], Stored(val, cells[p + 1])))
<1> DEFINE r == Reading(p, data)
           v == ReadValue(cells, p + 4, cells[p + 2])
           more == IF Lapsed(cells[p + 1], now) THEN data
                   ELSE With(data, cells[p + 3], Stored(v.val, cells[p + 1]))
<1>1. r.at = p /\ r.data = data /\ r.stage = "reading" /\ p \in Nat
  BY DEF Reading
<1>2. (p + 2) + 2 = p + 4 /\ (p + 2) + 1 = p + 3 /\ ~(p > Len(cells)) /\ ~(p + 2 > Len(cells))
  OBVIOUS
<1>3. Turn(cells, now, r) =
        IF ~v.ok THEN [r EXCEPT !.stage = "broken"]
        ELSE [at |-> v.next, stage |-> "reading", data |-> more]
  BY <1>1, <1>2 DEF Turn
<1>4. [r EXCEPT !.stage = "broken"].stage = "broken"
  BY Breaks
<1>5. ASSUME v = Cut PROVE Turn(cells, now, r).stage = "broken"
  <2>1. ~v.ok
    BY <1>5 DEF Cut
  <2> HIDE DEF v
  <2> QED BY <1>3, <1>4, <2>1
<1>6. ASSUME NEW val, NEW next, v = [ok |-> TRUE, val |-> val, next |-> next]
      PROVE  Turn(cells, now, r)
               = Reading(next, IF Lapsed(cells[p + 1], now) THEN data
                               ELSE With(data, cells[p + 3], Stored(val, cells[p + 1])))
  <2> HIDE DEF v
  <2>1. v.ok /\ v.val = val /\ v.next = next
    BY <1>6
  <2> QED BY <1>3, <2>1 DEF Reading
<1> QED BY <1>5, <1>6

LEMMA DatedEnd ==
  ASSUME NEW cells, NEW p \in Nat, Len(cells) \in Nat, p <= Len(cells), p + 2 > Len(cells),
         cells[p] = "expire_ms", NEW now, NEW data
  PROVE  Turn(cells, now, Reading(p, data)).stage = "broken"
<1> DEFINE r == Reading(p, data)
<1>1. r.at = p /\ r.stage = "reading" /\ ~(p > Len(cells))
  BY DEF Reading
<1>2. Turn(cells, now, r) = [r EXCEPT !.stage = "broken"]
  BY <1>1 DEF Turn
<1> QED BY <1>2, Breaks

LEMMA PlainTurn ==
  ASSUME NEW cells, NEW p \in Nat, Len(cells) \in Nat, p <= Len(cells), cells[p] \in Types,
         NEW now, NEW data
  PROVE  LET t == Turn(cells, now, Reading(p, data))
             v == ReadValue(cells, p + 2, cells[p])
         IN  /\ v = Cut => t.stage = "broken"
             /\ \A val, next : v = [ok |-> TRUE, val |-> val, next |-> next] =>
                  t = Reading(next, With(data, cells[p + 1], Stored(val, NoTtl)))
<1> DEFINE r == Reading(p, data)
           v == ReadValue(cells, p + 2, cells[p])
           more == With(data, cells[p + 1], Stored(v.val, NoTtl))
<1>1. r.at = p /\ r.data = data /\ r.stage = "reading" /\ p \in Nat
  BY DEF Reading
<1>2. ~(p > Len(cells)) /\ ~Lapsed(NoTtl, now)
  BY DEF Lapsed
<1>3. Turn(cells, now, r) =
        IF ~v.ok THEN [r EXCEPT !.stage = "broken"]
        ELSE [at |-> v.next, stage |-> "reading", data |-> more]
  BY <1>1, <1>2 DEF Turn, Types
<1>4. [r EXCEPT !.stage = "broken"].stage = "broken"
  BY Breaks
<1>5. ASSUME v = Cut PROVE Turn(cells, now, r).stage = "broken"
  <2>1. ~v.ok
    BY <1>5 DEF Cut
  <2> HIDE DEF v
  <2> QED BY <1>3, <1>4, <2>1
<1>6. ASSUME NEW val, NEW next, v = [ok |-> TRUE, val |-> val, next |-> next]
      PROVE  Turn(cells, now, r) = Reading(next, With(data, cells[p + 1], Stored(val, NoTtl)))
  <2> HIDE DEF v
  <2>1. v.ok /\ v.val = val /\ v.next = next
    BY <1>6
  <2> QED BY <1>3, <2>1 DEF Reading
<1> QED BY <1>5, <1>6

LEMMA HeaderTurn ==
  ASSUME NEW cells, NEW p \in Nat, Len(cells) \in Nat, p <= Len(cells), NEW now, NEW data,
         cells[p] \in {"aux", "select_db", "resize_db"}
  PROVE  LET t == Turn(cells, now, Reading(p, data))
         IN  /\ p + Arguments(cells[p]) > Len(cells) => t.stage = "broken"
             /\ p + Arguments(cells[p]) <= Len(cells) => t = Reading(p + Arguments(cells[p]) + 1, data)
<1> DEFINE r == Reading(p, data)
<1>0. Arguments(cells[p]) \in Nat
  BY DEF Arguments
<1>1. r.at = p /\ r.data = data /\ r.stage = "reading" /\ ~(p > Len(cells))
  BY DEF Reading
<1>2. Turn(cells, now, r) =
        IF p + Arguments(cells[p]) > Len(cells) THEN [r EXCEPT !.stage = "broken"]
        ELSE [r EXCEPT !.at = p + Arguments(cells[p]) + 1]
  BY <1>1 DEF Turn
<1>3. /\ [r EXCEPT !.stage = "broken"].stage = "broken"
      /\ [r EXCEPT !.at = p + Arguments(cells[p]) + 1] = Reading(p + Arguments(cells[p]) + 1, data)
  BY DEF Reading
<1> HIDE DEF r
<1> QED BY <1>0, <1>2, <1>3 DEF r

LEMMA LastTurn ==
  ASSUME NEW cells, NEW p \in Nat, Len(cells) \in Nat, NEW now, NEW data,
         p > Len(cells) \/ cells[p] = "eof"
  PROVE  LET t == Turn(cells, now, Reading(p, data)) IN t.stage = "loaded" /\ t.data = data
  BY DEF Turn, Reading

LEMMA NoMoreTurns ==
  ASSUME NEW cells, NEW now, NEW r, r.stage # "reading" PROVE Turn(cells, now, r) = r
  BY DEF Turn

-----------------------------------------------------------------------------
(* The turn at a piece reads all of it, or notices that it breaks off. *)
Reads(piece, now, before, after) ==
  \A cells, p : IsCells(cells) /\ p \in Nat \ {0} =>
    /\ Has(cells, p, piece) =>
         Turn(cells, now, Reading(p, before)) = Reading(p + Len(piece), after)
    /\ p <= Len(cells) /\ EndsIn(cells, p, piece) =>
         Turn(cells, now, Reading(p, before)).stage = "broken"

(* What the turn at an entry adds *)
Added(data, key, e, now) == IF Lapsed(e.ttl, now) THEN data ELSE With(data, key, e)

LEMMA PlainEntryIsRead ==
  ASSUME NEW key, NEW e, Kept(e), e.ttl = NoTtl, NEW order \in Orders(e.val), NEW now \in Nat, NEW data
  PROVE  Reads(WriteEntry(key, e, order), now, data, Added(data, key, e, now))
<1> PICK w : w = WriteEntry(key, e, order)
  OBVIOUS
<1> PICK more : more = Added(data, key, e, now)
  OBVIOUS
<1> SUFFICES ASSUME NEW cells, IsCells(cells), NEW p \in Nat \ {0},
                      NEW t, t = Turn(cells, now, Reading(p, data))
               PROVE  /\ Has(cells, p, w) => t = Reading(p + Len(w), more)
                      /\ p <= Len(cells) /\ EndsIn(cells, p, w) => t.stage = "broken"
  <2>1. Reads(w, now, data, more)
    BY DEF Reads
  <2> QED BY <2>1
<1>0. more = With(data, key, e)
  BY DEF Added, Lapsed
<1> DEFINE x == WriteValue(e.val, order)
           v == ReadValue(cells, p + 2, cells[p])
<1>1. Whole(e.val) /\ e = Stored(e.val, NoTtl)
  BY DEF Kept, Stored
<1>2. e.val.type \in Types
  BY <1>1, BuiltAgain DEF Types
<1>3. /\ Len(w) = 2 + Len(x) /\ Len(x) \in Nat \ {0} /\ w[1] = e.val.type /\ w[2] = key
      /\ \A i \in 1 .. Len(x) : w[2 + i] = x[i]
  <2>0. PICK d : d = 0
    OBVIOUS
  <2>1. d = (IF e.ttl = NoTtl THEN 0 ELSE 2) /\ d + 2 = 2 /\ d + 1 = 1
    BY <2>0
  <2> HIDE DEF x
  <2>2. w = WriteEntry(key, e, order) /\ x = WriteValue(e.val, order)
    BY DEF x
  <2>3. /\ Len(w) = d + 2 + Len(x) /\ Len(x) \in Nat \ {0}
        /\ w[d + 1] = e.val.type /\ w[d + 2] = key
        /\ \A i \in 1 .. Len(x) : w[d + 2 + i] = x[i]
    BY <2>1, <2>2, EntryIs
  <2> QED BY <2>1, <2>3
<1>4. Len(cells) \in Nat
  BY DEF IsCells
<1>5. ASSUME Has(cells, p, w)
      PROVE  t = Reading(p + Len(w), more)
  <2> HIDE DEF x
  <2>1. /\ p + Len(w) - 1 <= Len(cells)
        /\ \A i \in 1 .. Len(w) : cells[p + i - 1] = w[i]
    BY <1>5 DEF Has
  <2>2. cells[p] = e.val.type /\ cells[p + 1] = key
    <3>1. 1 \in 1 .. Len(w) /\ 2 \in 1 .. Len(w) /\ p + 1 - 1 = p /\ p + 2 - 1 = p + 1
      BY <1>3
    <3> QED BY <1>3, <2>1, <3>1
  <2>3. Has(cells, p + 2, x)
    <3>1. (p + 2) + Len(x) - 1 <= Len(cells)
      BY <1>3, <1>4, <2>1
    <3>2. ASSUME NEW i \in 1 .. Len(x) PROVE cells[(p + 2) + i - 1] = x[i]
      <4>1. 2 + i \in 1 .. Len(w) /\ p + (2 + i) - 1 = (p + 2) + i - 1
        BY <1>3
      <4> QED BY <1>3, <2>1, <4>1
    <3> QED BY <3>1, <3>2 DEF Has
  <2>4. v = [ok |-> TRUE, val |-> e.val, next |-> (p + 2) + Len(x)]
    <3>1. p + 2 \in Nat \ {0}
      OBVIOUS
    <3> QED BY <1>1, <2>2, <2>3, <3>1, ValueIsRead DEF x
  <2>5. p + Len(w) = (p + 2) + Len(x)
    BY <1>3
  <2>6. p <= Len(cells) /\ cells[p] \in Types /\ p \in Nat
    BY <1>2, <1>3, <1>4, <2>1, <2>2
  <2>7. t
          = Reading((p + 2) + Len(x), With(data, cells[p + 1], Stored(e.val, NoTtl)))
    <3> HIDE DEF v
    <3>1. \A val, next : v = [ok |-> TRUE, val |-> val, next |-> next] =>
            t = Reading(next, With(data, cells[p + 1], Stored(val, NoTtl)))
      BY <1>4, <2>6, PlainTurn DEF v
    <3> QED BY <2>4, <3>1
  <2> QED BY <1>0, <1>1, <2>2, <2>5, <2>7
<1>6. ASSUME p <= Len(cells), EndsIn(cells, p, w)
      PROVE  t.stage = "broken"
  <2> HIDE DEF x
  <2>1. /\ Len(cells) < p + Len(w) - 1
        /\ \A i \in 1 .. Len(w) : p + i - 1 <= Len(cells) => cells[p + i - 1] = w[i]
    BY <1>6 DEF EndsIn
  <2>2. cells[p] = e.val.type
    <3>1. 1 \in 1 .. Len(w) /\ p + 1 - 1 = p /\ p + 1 - 1 <= Len(cells)
      BY <1>3, <1>4, <1>6
    <3> QED BY <1>3, <2>1, <3>1
  <2>3. EndsIn(cells, p + 2, x)
    <3>1. Len(cells) < (p + 2) + Len(x) - 1
      BY <1>3, <1>4, <2>1
    <3>2. ASSUME NEW i \in 1 .. Len(x), (p + 2) + i - 1 <= Len(cells) PROVE cells[(p + 2) + i - 1] = x[i]
      <4>1. 2 + i \in 1 .. Len(w) /\ p + (2 + i) - 1 = (p + 2) + i - 1
        BY <1>3
      <4> QED BY <1>3, <2>1, <3>2, <4>1
    <3> QED BY <3>1, <3>2 DEF EndsIn
  <2>4. v = Cut
    <3>1. p + 2 \in Nat \ {0}
      OBVIOUS
    <3> QED BY <1>1, <2>2, <2>3, <3>1, CutValueIsNoticed DEF x
  <2>5. p <= Len(cells) /\ cells[p] \in Types /\ p \in Nat
    BY <1>2, <1>6, <2>2
  <2>6. v = Cut => t.stage = "broken"
    BY <1>4, <2>5, PlainTurn
  <2> QED BY <2>4, <2>6
<1> QED BY <1>5, <1>6

LEMMA DatedEntryIsRead ==
  ASSUME NEW key, NEW e, Kept(e), e.ttl # NoTtl, NEW order \in Orders(e.val), NEW now \in Nat, NEW data
  PROVE  Reads(WriteEntry(key, e, order), now, data, Added(data, key, e, now))
<1> PICK w : w = WriteEntry(key, e, order)
  OBVIOUS
<1> PICK more : more = Added(data, key, e, now)
  OBVIOUS
<1> SUFFICES ASSUME NEW cells, IsCells(cells), NEW p \in Nat \ {0},
                      NEW t, t = Turn(cells, now, Reading(p, data))
               PROVE  /\ Has(cells, p, w) => t = Reading(p + Len(w), more)
                      /\ p <= Len(cells) /\ EndsIn(cells, p, w) => t.stage = "broken"
  <2>1. Reads(w, now, data, more)
    BY DEF Reads
  <2> QED BY <2>1
<1>0. /\ Lapsed(e.ttl, now) => more = data
      /\ ~Lapsed(e.ttl, now) => more = With(data, key, e)
  BY DEF Added
<1> DEFINE x == WriteValue(e.val, order)
           v == ReadValue(cells, p + 4, cells[p + 2])
<1>1. Whole(e.val) /\ e = Stored(e.val, e.ttl)
  BY DEF Kept, Stored
<1>3. /\ Len(w) = 4 + Len(x) /\ Len(x) \in Nat \ {0}
      /\ w[1] = "expire_ms" /\ w[2] = e.ttl /\ w[3] = e.val.type /\ w[4] = key
      /\ \A i \in 1 .. Len(x) : w[4 + i] = x[i]
  <2>0. PICK d : d = 2
    OBVIOUS
  <2>1. d = (IF e.ttl = NoTtl THEN 0 ELSE 2) /\ d + 2 = 4 /\ d + 1 = 3
    BY <2>0
  <2> HIDE DEF x
  <2>2. w = WriteEntry(key, e, order) /\ x = WriteValue(e.val, order)
    BY DEF x
  <2>3. /\ Len(w) = d + 2 + Len(x) /\ Len(x) \in Nat \ {0}
        /\ w[1] = "expire_ms" /\ w[2] = e.ttl /\ w[d + 1] = e.val.type /\ w[d + 2] = key
        /\ \A i \in 1 .. Len(x) : w[d + 2 + i] = x[i]
    BY <2>1, <2>2, EntryIs
  <2> QED BY <2>1, <2>3
<1>4. Len(cells) \in Nat
  BY DEF IsCells
<1>5. ASSUME Has(cells, p, w)
      PROVE  t = Reading(p + Len(w), more)
  <2> HIDE DEF x
  <2>1. /\ p + Len(w) - 1 <= Len(cells)
        /\ \A i \in 1 .. Len(w) : cells[p + i - 1] = w[i]
    BY <1>5 DEF Has
  <2>2. /\ cells[p] = "expire_ms" /\ cells[p + 1] = e.ttl
        /\ cells[p + 2] = e.val.type /\ cells[p + 3] = key
    <3>1. /\ 1 \in 1 .. Len(w) /\ 2 \in 1 .. Len(w) /\ 3 \in 1 .. Len(w) /\ 4 \in 1 .. Len(w)
          /\ p + 1 - 1 = p /\ p + 2 - 1 = p + 1 /\ p + 3 - 1 = p + 2 /\ p + 4 - 1 = p + 3
      BY <1>3
    <3> QED BY <1>3, <2>1, <3>1
  <2>3. Has(cells, p + 4, x)
    <3>1. (p + 4) + Len(x) - 1 <= Len(cells)
      BY <1>3, <1>4, <2>1
    <3>2. ASSUME NEW i \in 1 .. Len(x) PROVE cells[(p + 4) + i - 1] = x[i]
      <4>1. 4 + i \in 1 .. Len(w) /\ p + (4 + i) - 1 = (p + 4) + i - 1
        BY <1>3
      <4> QED BY <1>3, <2>1, <4>1
    <3> QED BY <3>1, <3>2 DEF Has
  <2>4. v = [ok |-> TRUE, val |-> e.val, next |-> (p + 4) + Len(x)]
    <3>1. p + 4 \in Nat \ {0}
      OBVIOUS
    <3> QED BY <1>1, <2>2, <2>3, <3>1, ValueIsRead DEF x
  <2>5. p + Len(w) = (p + 4) + Len(x)
    BY <1>3
  <2>6. p <= Len(cells) /\ p + 2 <= Len(cells) /\ p \in Nat
    BY <1>3, <1>4, <2>1
  <2>7. t = Reading((p + 4) + Len(x), IF Lapsed(cells[p + 1], now) THEN data
                                      ELSE With(data, cells[p + 3], Stored(e.val, cells[p + 1])))
    <3> HIDE DEF v
    <3>1. \A val, next : v = [ok |-> TRUE, val |-> val, next |-> next] =>
            t = Reading(next, IF Lapsed(cells[p + 1], now) THEN data
                              ELSE With(data, cells[p + 3], Stored(val, cells[p + 1])))
      BY <1>4, <2>2, <2>6, DatedTurn DEF v
    <3> QED BY <2>4, <3>1
  <2> QED BY <1>0, <1>1, <2>2, <2>5, <2>7
<1>6. ASSUME p <= Len(cells), EndsIn(cells, p, w) PROVE t.stage = "broken"
  <2> HIDE DEF x
  <2>1. /\ Len(cells) < p + Len(w) - 1
        /\ \A i \in 1 .. Len(w) : p + i - 1 <= Len(cells) => cells[p + i - 1] = w[i]
    BY <1>6 DEF EndsIn
  <2>2. cells[p] = "expire_ms"
    <3>1. 1 \in 1 .. Len(w) /\ p + 1 - 1 = p /\ p + 1 - 1 <= Len(cells)
      BY <1>3, <1>4, <1>6
    <3> QED BY <1>3, <2>1, <3>1
  <2>4. CASE p + 2 > Len(cells)
    BY <1>4, <1>6, <2>2, <2>4, DatedEnd
  <2>5. CASE p + 2 <= Len(cells)
    <3>1. cells[p + 2] = e.val.type
      <4>1. 3 \in 1 .. Len(w) /\ p + 3 - 1 = p + 2
        BY <1>3
      <4> QED BY <1>3, <2>1, <2>5, <4>1
    <3>2. EndsIn(cells, p + 4, x)
      <4>1. Len(cells) < (p + 4) + Len(x) - 1
        BY <1>3, <1>4, <2>1
      <4>2. ASSUME NEW i \in 1 .. Len(x), (p + 4) + i - 1 <= Len(cells) PROVE cells[(p + 4) + i - 1] = x[i]
        <5>1. 4 + i \in 1 .. Len(w) /\ p + (4 + i) - 1 = (p + 4) + i - 1
          BY <1>3
        <5> QED BY <1>3, <2>1, <4>2, <5>1
      <4> QED BY <4>1, <4>2 DEF EndsIn
    <3>3. v = Cut
      <4>1. p + 4 \in Nat \ {0}
        OBVIOUS
      <4> QED BY <1>1, <3>1, <3>2, <4>1, CutValueIsNoticed DEF x
    <3>4. v = Cut => t.stage = "broken"
      BY <1>4, <2>2, <2>5, DatedTurn
    <3> QED BY <3>3, <3>4
  <2>6. p + 2 > Len(cells) \/ p + 2 <= Len(cells)
    BY <1>4
  <2> QED BY <2>4, <2>5, <2>6
<1> QED BY <1>5, <1>6

-----------------------------------------------------------------------------
(* LoadFile is what its turns make of the opened file, one by one. *)
LEMMA LoadedIs ==
  ASSUME NEW cells, Len(cells) \in Nat, NEW now, NEW g, g[0] = Opened(cells),
         \A i \in 1 .. Len(cells) : g[i] = Turn(cells, now, g[i - 1])
  PROVE  LoadFile(cells, now) = g[Len(cells)]
<1> DEFINE n == Len(cells)
           Body(h) == [i \in 0 .. n |-> IF i = 0 THEN Opened(cells) ELSE Turn(cells, now, h[i - 1])]
           after == CHOOSE h : h = Body(h)
           f == [i \in 0 .. n |-> g[i]]
<1>1. f = Body(f)
  <2>1. ASSUME NEW i \in 0 .. n PROVE f[i] = IF i = 0 THEN Opened(cells) ELSE Turn(cells, now, f[i - 1])
    <3>1. CASE i = 0
      BY <3>1
    <3>2. CASE i # 0
      <4>1. i \in 1 .. n /\ i - 1 \in 0 .. n
        BY <3>2
      <4>2. f[i] = g[i] /\ f[i - 1] = g[i - 1]
        BY <4>1
      <4> HIDE DEF f
      <4> QED BY <3>2, <4>1, <4>2
    <3> QED BY <3>1, <3>2
  <2>2. f = [i \in 0 .. n |-> f[i]]
    OBVIOUS
  <2> HIDE DEF f
  <2> QED BY <2>1, <2>2
<1>2. after = Body(after)
  <2> HIDE DEF Body, f
  <2> QED BY <1>1
<1>3. LoadFile(cells, now) = after[n]
  BY DEF LoadFile
<1> DEFINE T == {i \in 0 .. n : after[i] = g[i]}
<1> HIDE DEF after
<1>4. 0 \in T
  BY <1>2
<1>5. ASSUME NEW i \in 1 .. n, i - 1 \in T PROVE i \in T
  <2>1. after[i] = Turn(cells, now, after[i - 1])
    BY <1>2
  <2> QED BY <1>5, <2>1
<1>6. \A i \in 0 .. n : i \in T
  <2> HIDE DEF T, n
  <2>1. Inductive(T, n)
    BY <1>4, <1>5 DEF Inductive
  <2>2. n \in Nat
    BY DEF n
  <2> QED BY <2>1, <2>2, InductionUpTo
<1> QED BY <1>3, <1>6

(* A load that reads k pieces, each in a turn, and stops in the next turn,   *)
(* ends as that turn leaves it.                                            *)
LEMMA TurnsEnd ==
  ASSUME NEW cells, IsCells(cells), NEW now, NEW k \in Nat, k + 1 <= Len(cells),
         NEW L, NEW D, L[0] = 1, D[0] = <<>>,
         \A i \in 1 .. k : Turn(cells, now, Reading(L[i - 1] + 1, D[i - 1])) = Reading(L[i] + 1, D[i]),
         NEW last, last = Turn(cells, now, Reading(L[k] + 1, D[k])), last.stage # "reading"
  PROVE  LoadFile(cells, now) = last
<1> DEFINE n == Len(cells)
           g == [i \in 0 .. n |-> IF i <= k THEN Reading(L[i] + 1, D[i]) ELSE last]
<1>1. n \in Nat /\ cells # <<>>
  BY DEF IsCells
<1>2. g[0] = Opened(cells)
  <2>1. g[0] = Reading(1 + 1, <<>>)
    BY <1>1
  <2>2. Opened(cells) = Reading(2, <<>>)
    BY <1>1 DEF Opened, Reading
  <2>3. 1 + 1 = 2
    OBVIOUS
  <2> QED BY <2>1, <2>2, <2>3
<1>3. ASSUME NEW i \in 1 .. n PROVE g[i] = Turn(cells, now, g[i - 1])
  <2>1. i \in Int /\ i \in 0 .. n /\ i - 1 \in 0 .. n
    BY <1>1
  <2>2. CASE i <= k
    <3>1. g[i] = Reading(L[i] + 1, D[i]) /\ g[i - 1] = Reading(L[i - 1] + 1, D[i - 1]) /\ i \in 1 .. k
      BY <2>1, <2>2
    <3> HIDE DEF g
    <3> QED BY <3>1
  <2>3. CASE i = k + 1
    <3>1. g[i] = last /\ g[i - 1] = Reading(L[k] + 1, D[k])
      BY <2>1, <2>3
    <3> HIDE DEF g
    <3> QED BY <3>1
  <2>4. CASE i > k + 1
    <3>1. g[i] = last /\ g[i - 1] = last
      BY <2>1, <2>4
    <3>2. Turn(cells, now, last) = last
      BY NoMoreTurns
    <3> HIDE DEF g
    <3> QED BY <3>1, <3>2
  <2> QED BY <2>1, <2>2, <2>3, <2>4
<1>4. g[n] = last
  BY <1>1
<1> HIDE DEF g
<1> QED BY <1>1, <1>2, <1>3, <1>4, LoadedIs

-----------------------------------------------------------------------------
(* Written is what appending the pieces one by one gives. *)
LEMMA WrittenIs ==
  ASSUME NEW pieces, Len(pieces) \in Nat, NEW g, g[0] = <<"magic">>,
         \A i \in 1 .. Len(pieces) : g[i] = g[i - 1] \o pieces[i]
  PROVE  Written(pieces) = g[Len(pieces)]
<1> DEFINE n == Len(pieces)
           More(a, i) == a \o pieces[i]
           Body(h) == [i \in 0 .. n |-> IF i = 0 THEN <<"magic">> ELSE More(h[i - 1], i)]
           file == CHOOSE h : h = Body(h)
           f == [i \in 0 .. n |-> g[i]]
<1>0. Written(pieces) = file[n]
  BY DEF Written
<1>g. \A i \in 1 .. n : g[i] = More(g[i - 1], i)
  OBVIOUS
<1> HIDE DEF More
<1>1. f = Body(f)
  <2>1. ASSUME NEW i \in 0 .. n PROVE f[i] = IF i = 0 THEN <<"magic">> ELSE More(f[i - 1], i)
    <3>1. CASE i = 0
      BY <3>1
    <3>2. CASE i # 0
      <4>1. i \in 1 .. n /\ i - 1 \in 0 .. n
        BY <3>2
      <4>2. f[i] = g[i] /\ f[i - 1] = g[i - 1]
        BY <4>1
      <4> HIDE DEF f
      <4> QED BY <1>g, <3>2, <4>1, <4>2
    <3> QED BY <3>1, <3>2
  <2>2. f = [i \in 0 .. n |-> f[i]]
    OBVIOUS
  <2> HIDE DEF f
  <2> QED BY <2>1, <2>2
<1>2. file = Body(file)
  <2> HIDE DEF Body, f
  <2> QED BY <1>1
<1> DEFINE T == {i \in 0 .. n : file[i] = g[i]}
<1> HIDE DEF file
<1>4. 0 \in T
  BY <1>2
<1>5. ASSUME NEW i \in 1 .. n, i - 1 \in T PROVE i \in T
  <2>1. file[i] = More(file[i - 1], i)
    BY <1>2
  <2> QED BY <1>g, <1>5, <2>1
<1>6. \A i \in 0 .. n : i \in T
  <2> HIDE DEF T, n
  <2>1. Inductive(T, n)
    BY <1>4, <1>5 DEF Inductive
  <2>2. n \in Nat
    BY DEF n
  <2> QED BY <2>1, <2>2, InductionUpTo
<1> QED BY <1>0, <1>6

(* The places at which the pieces end *)
Laid(cells, pieces, L) ==
  /\ IsCells(cells) /\ L[0] = 1
  /\ \A i \in 0 .. Len(pieces) : L[i] \in Nat /\ L[i] <= Len(cells) /\ i + 1 <= L[i]
  /\ \A i \in 1 .. Len(pieces) : L[i] = L[i - 1] + Len(pieces[i]) /\ Has(cells, L[i - 1] + 1, pieces[i])

ArePieces(pieces) ==
  Len(pieces) \in Nat /\ \A i \in 1 .. Len(pieces) : IsCells(pieces[i]) /\ Len(pieces[i]) # 0

(* The files that writing goes through, and the places at which they end *)
LEMMA FilesGrow ==
  ASSUME NEW pieces, ArePieces(pieces)
  PROVE  \E g, S : /\ g \in [0 .. Len(pieces) -> Seq(S)] /\ g[0] = <<"magic">>
                   /\ \A i \in 1 .. Len(pieces) : g[i] = g[i - 1] \o pieces[i] /\ pieces[i] \in Seq(S)
<1> DEFINE n == Len(pieces)
           S == {"magic"} \cup UNION {{pieces[i][j] : j \in 1 .. Len(pieces[i])} : i \in 1 .. n}
           step == [a \in Seq(S) \X (1 .. n) |-> a[1] \o pieces[a[2]]]
           first == <<"magic">>
<1>1. n \in Nat
  BY DEF ArePieces
<1>2. \A i \in 1 .. n : pieces[i] \in Seq(S)
  <2> TAKE i \in 1 .. n
  <2>1. IsCells(pieces[i])
    BY DEF ArePieces
  <2>2. \A j \in 1 .. Len(pieces[i]) : pieces[i][j] \in S
    OBVIOUS
  <2> HIDE DEF S
  <2> QED BY <2>1, <2>2, MoreCells
<1>3. first \in Seq(S)
  OBVIOUS
<1> HIDE DEF S, n
<1>4. step \in [Seq(S) \X (1 .. n) -> Seq(S)]
  BY <1>2
<1>5. \A s \in Seq(S), i \in 1 .. n : step[<<s, i>>] = s \o pieces[i]
  OBVIOUS
<1> HIDE DEF step, first
<1>6. PICK g \in [0 .. n -> Seq(S)] : Iterates(g, first, step, n)
  BY <1>1, <1>3, <1>4, RecursiveFunction
<1>7. g[0] = first /\ \A i \in 1 .. n : g[i] = g[i - 1] \o pieces[i]
  <2>1. g[0] = first /\ \A i \in 1 .. n : g[i] = step[<<g[i - 1], i>>]
    BY <1>6 DEF Iterates
  <2>2. \A i \in 1 .. n : g[i - 1] \in Seq(S)
    BY <1>1, <1>6
  <2> QED BY <1>5, <2>1, <2>2
<1> QED BY <1>2, <1>7 DEF n, first

LEMMA HasStill ==
  ASSUME NEW a, IsCells(a), NEW b, IsCells(b), NEW p \in Nat \ {0}, NEW w, Len(w) \in Nat, Has(a, p, w)
  PROVE  Has(a \o b, p, w)
<1>1. Len(a) \in Nat /\ Len(b) \in Nat
  BY DEF IsCells
<1>2. Len(a \o b) = Len(a) + Len(b) /\ \A i \in 1 .. Len(a) : (a \o b)[i] = a[i]
  BY Behind
<1> DEFINE c == a \o b
<1>3. Len(c) = Len(a) + Len(b) /\ \A i \in 1 .. Len(a) : c[i] = a[i]
  BY <1>2
<1> HIDE DEF c
<1>4. p + Len(w) - 1 <= Len(c)
  BY <1>1, <1>3 DEF Has
<1>5. ASSUME NEW i \in 1 .. Len(w) PROVE c[p + i - 1] = w[i]
  <2>1. p + i - 1 \in 1 .. Len(a) /\ a[p + i - 1] = w[i]
    BY <1>1 DEF Has
  <2> QED BY <1>3, <2>1
<1>6. Has(c, p, w)
  BY <1>4, <1>5 DEF Has
<1> QED BY <1>6 DEF c

LEMMA HasLast ==
  ASSUME NEW a, IsCells(a), NEW b, IsCells(b)
  PROVE  Has(a \o b, Len(a) + 1, b)
<1>1. Len(a) \in Nat /\ Len(b) \in Nat
  BY DEF IsCells
<1> DEFINE c == a \o b
<1>3. Len(c) = Len(a) + Len(b) /\ \A i \in 1 .. Len(b) : c[Len(a) + i] = b[i]
  BY Behind
<1> HIDE DEF c
<1>4. (Len(a) + 1) + Len(b) - 1 <= Len(c)
  BY <1>1, <1>3
<1>5. ASSUME NEW i \in 1 .. Len(b) PROVE c[(Len(a) + 1) + i - 1] = b[i]
  <2>1. (Len(a) + 1) + i - 1 = Len(a) + i
    BY <1>1
  <2> QED BY <1>3, <2>1
<1>6. Has(c, Len(a) + 1, b)
  BY <1>4, <1>5 DEF Has
<1> QED BY <1>6 DEF c

(* One more piece, or the end of the file *)
LEMMA LaidStill ==
  ASSUME NEW a, NEW b, IsCells(b), NEW pieces, ArePieces(pieces), NEW L, Laid(a, pieces, L)
  PROVE  Laid(a \o b, pieces, L)
<1> DEFINE c == a \o b
<1>1. IsCells(a) /\ Len(a) \in Nat /\ Len(b) \in Nat /\ Len(pieces) \in Nat
  BY DEF Laid, IsCells, ArePieces
<1>2. IsCells(c) /\ Len(c) = Len(a) + Len(b)
  BY <1>1, Behind
<1>3. ASSUME NEW i \in 1 .. Len(pieces) PROVE Has(c, L[i - 1] + 1, pieces[i])
  <2>1. Has(a, L[i - 1] + 1, pieces[i]) /\ L[i - 1] + 1 \in Nat \ {0} /\ Len(pieces[i]) \in Nat
    <3>1. Has(a, L[i - 1] + 1, pieces[i])
      BY DEF Laid
    <3>2. L[i - 1] + 1 \in Nat \ {0}
      <4>1. i - 1 \in 0 .. Len(pieces)
        BY <1>1
      <4>2. L[i - 1] \in Nat
        BY <4>1 DEF Laid
      <4> QED BY <4>2
    <3>3. Len(pieces[i]) \in Nat
      BY DEF ArePieces, IsCells
    <3> QED BY <3>1, <3>2, <3>3
  <2> QED BY <1>1, <2>1, HasStill
<1> HIDE DEF c
<1>4. ASSUME NEW i \in 0 .. Len(pieces) PROVE L[i] \in Nat /\ L[i] <= Len(c) /\ i + 1 <= L[i]
  <2>1. L[i] \in Nat /\ L[i] <= Len(a) /\ i + 1 <= L[i]
    BY DEF Laid
  <2> QED BY <1>1, <1>2, <2>1
<1>5. Laid(c, pieces, L)
  BY <1>2, <1>3, <1>4 DEF Laid
<1> QED BY <1>5 DEF c

LEMMA WrittenIsLaid ==
  ASSUME NEW pieces, ArePieces(pieces)
  PROVE  \E L : Laid(Written(pieces), pieces, L) /\ L[Len(pieces)] = Len(Written(pieces))
<1> DEFINE n == Len(pieces)
<1>1. PICK g, S : /\ g \in [0 .. n -> Seq(S)] /\ g[0] = <<"magic">>
                  /\ \A i \in 1 .. n : g[i] = g[i - 1] \o pieces[i] /\ pieces[i] \in Seq(S)
  BY FilesGrow
<1>2. n \in Nat /\ \A i \in 1 .. n : IsCells(pieces[i]) /\ Len(pieces[i]) \in Nat \ {0}
  BY DEF ArePieces, IsCells
<1>3. Written(pieces) = g[n]
  BY <1>1, <1>2, WrittenIs
<1> DEFINE L == [i \in 0 .. n |-> Len(g[i])]
           Good(m) == /\ m + 1 <= L[m]
                      /\ \A i \in 0 .. m : L[i] <= L[m]
                      /\ \A i \in 1 .. m : Has(g[m], L[i - 1] + 1, pieces[i])
           T == {m \in 0 .. n : Good(m)}
<1>4. \A i \in 0 .. n : L[i] = Len(g[i]) /\ L[i] \in Nat /\ IsCells(g[i])
  <2> TAKE i \in 0 .. n
  <2>1. g[i] \in Seq(S)
    BY <1>1
  <2> QED BY <2>1, CellsOf
<1>5. L[0] = 1
  BY <1>1, <1>2
<1> HIDE DEF L, n
<1>6. \A i \in 1 .. n : L[i] = L[i - 1] + Len(pieces[i])
  <2> TAKE i \in 1 .. n
  <2>1. i \in 0 .. n /\ i - 1 \in 0 .. n
    BY <1>2
  <2>2. Len(g[i]) = Len(g[i - 1]) + Len(pieces[i])
    <3>1. IsCells(g[i - 1]) /\ IsCells(pieces[i]) /\ g[i] = g[i - 1] \o pieces[i]
      BY <1>1, <1>2, <1>4, <2>1
    <3> QED BY <3>1, Behind
  <2> QED BY <1>4, <2>1, <2>2
<1>7. 0 \in T
  BY <1>2, <1>5
<1>8. ASSUME NEW m \in 1 .. n, m - 1 \in T PROVE m \in T
  <2>1. m \in 0 .. n /\ m - 1 \in 0 .. n /\ L[m] \in Nat /\ L[m - 1] \in Nat
    BY <1>2, <1>4
  <2>2. L[m] = L[m - 1] + Len(pieces[m]) /\ Len(pieces[m]) \in Nat \ {0}
    BY <1>2, <1>6
  <2>3. (m - 1) + 1 <= L[m - 1] /\ \A i \in 0 .. m - 1 : L[i] <= L[m - 1]
    BY <1>8
  <2>4. m + 1 <= L[m]
    BY <2>1, <2>2, <2>3
  <2>5. \A i \in 0 .. m : L[i] <= L[m]
    <3> TAKE i \in 0 .. m
    <3>1. L[i] \in Nat
      BY <1>2, <1>4
    <3>2. CASE i \in 0 .. m - 1
      BY <2>1, <2>2, <2>3, <3>1, <3>2
    <3>3. CASE i = m
      BY <3>1, <3>3
    <3> QED BY <3>2, <3>3
  <2>6. \A i \in 1 .. m : Has(g[m], L[i - 1] + 1, pieces[i])
    <3> TAKE i \in 1 .. m
    <3>1. IsCells(g[m - 1]) /\ IsCells(pieces[m]) /\ g[m] = g[m - 1] \o pieces[m]
      BY <1>1, <1>2, <1>4, <2>1
    <3>2. CASE i = m
      <4>1. Has(g[m - 1] \o pieces[m], Len(g[m - 1]) + 1, pieces[m])
        BY <3>1, HasLast
      <4>2. L[m - 1] = Len(g[m - 1])
        BY <1>4, <2>1
      <4> QED BY <3>1, <3>2, <4>1, <4>2
    <3>3. CASE i # m
      <4>1. i \in 1 .. m - 1 /\ i - 1 \in 0 .. n /\ i \in 1 .. n
        BY <1>2, <2>1, <3>3
      <4>2. Has(g[m - 1], L[i - 1] + 1, pieces[i])
        <5>1. Good(m - 1)
          BY <1>8
        <5> QED BY <4>1, <5>1
      <4>3. L[i - 1] + 1 \in Nat \ {0} /\ Len(pieces[i]) \in Nat
        BY <1>2, <1>4, <4>1
      <4>4. Has(g[m - 1] \o pieces[m], L[i - 1] + 1, pieces[i])
        BY <3>1, <4>2, <4>3, HasStill
      <4> QED BY <3>1, <4>4
    <3> QED BY <3>2, <3>3
  <2> QED BY <2>1, <2>4, <2>5, <2>6
<1>9. \A i \in 0 .. n : i \in T
  <2> HIDE DEF T
  <2>1. Inductive(T, n)
    BY <1>7, <1>8 DEF Inductive
  <2> QED BY <1>2, <2>1, InductionUpTo
<1>10. n \in 0 .. n
  BY <1>2
<1>11. /\ L[n] = Len(g[n]) /\ IsCells(g[n])
       /\ \A i \in 0 .. n : L[i] <= L[n] /\ L[i] \in Nat /\ i + 1 <= L[i]
       /\ \A i \in 1 .. n : Has(g[n], L[i - 1] + 1, pieces[i])
  BY <1>4, <1>9, <1>10
<1>12. Laid(g[n], pieces, L)
  BY <1>5, <1>6, <1>11 DEF Laid, n
<1> QED BY <1>3, <1>11, <1>12 DEF n

PiecesRead(pieces, now, D) ==
  /\ ArePieces(pieces) /\ D[0] = <<>>
  /\ \A i \in 1 .. Len(pieces) : Reads(pieces[i], now, D[i - 1], D[i])

(* A file whose pieces are laid out as L says, and that ends behind them *)
Ends(F, pieces, L) ==
  Laid(F, pieces, L) /\ Len(F) = L[Len(pieces)] + 1 /\ F[L[Len(pieces)] + 1] = "eof"

LEMMA FileIsLaid ==
  ASSUME NEW pieces, ArePieces(pieces)
  PROVE  \E L : Ends(Written(pieces) \o <<"eof">>, pieces, L)
<1> DEFINE w == Written(pieces)
           e == <<"eof">>
           n == Len(pieces)
           F == w \o e
<1>1. PICK L : Laid(w, pieces, L) /\ L[n] = Len(w)
  BY WrittenIsLaid
<1>2. IsCells(e) /\ Len(e) = 1 /\ e[1] = "eof"
  BY DEF IsCells
<1> HIDE DEF w, e
<1>3. IsCells(w)
  BY <1>1 DEF Laid
<1>4. Laid(F, pieces, L)
  BY <1>1, <1>2, LaidStill
<1>5. Len(F) = Len(w) + Len(e) /\ \A i \in 1 .. Len(e) : F[Len(w) + i] = e[i]
  <2>1. IsCells(e)
    BY <1>2
  <2> QED BY <1>3, <2>1, Behind
<1> HIDE DEF F
<1>6. 1 \in 1 .. Len(e)
  BY <1>2
<1>7. Ends(F, pieces, L)
  BY <1>1, <1>2, <1>4, <1>5, <1>6 DEF Ends
<1> QED BY <1>7 DEF F, w, e

LEMMA Beginning ==
  ASSUME NEW F, IsCells(F), NEW c \in Nat, c <= Len(F)
  PROVE  /\ IsCells(SubSeq(F, 1, c)) /\ Len(SubSeq(F, 1, c)) = c
         /\ \A i \in 1 .. c : SubSeq(F, 1, c)[i] = F[i]
<1> DEFINE S == {F[i] : i \in 1 .. Len(F)}
           s == SubSeq(F, 1, c)
<1>1. F \in Seq(S) /\ Len(F) \in Nat
  BY SomeCells DEF IsCells
<1>2. 1 \in 1 .. Len(F) + 1 /\ c \in 1 - 1 .. Len(F)
  BY <1>1
<1> HIDE DEF S
<1>3. /\ s \in Seq(S) /\ Len(s) = c - 1 + 1
      /\ \A i \in 1 .. c - 1 + 1 : s[i] = F[1 + i - 1]
  BY <1>1, <1>2, SubSeqProperties
<1>4. c - 1 + 1 = c /\ \A i \in 1 .. c : 1 + i - 1 = i
  OBVIOUS
<1>5. IsCells(s)
  BY <1>3, CellsOf
<1> HIDE DEF s
<1>6. Len(s) = c /\ \A i \in 1 .. c : s[i] = F[i]
  BY <1>3, <1>4
<1> QED BY <1>5, <1>6 DEF s

LEMMA NothingLoads == ASSUME NEW now PROVE LoadFile(<<>>, now).stage = "broken"
<1> DEFINE g == [i \in 0 .. 0 |-> Opened(<<>>)]
<1>1. Len(<<>>) = 0 /\ g[0] = Opened(<<>>)
  OBVIOUS
<1>2. Opened(<<>>).stage = "broken"
  BY DEF Opened
<1>3. \A i \in 1 .. Len(<<>>) : g[i] = Turn(<<>>, now, g[i - 1])
  BY <1>1
<1> HIDE DEF g
<1>4. LoadFile(<<>>, now) = g[Len(<<>>)]
  BY <1>1, <1>3, LoadedIs
<1> QED BY <1>1, <1>2, <1>4

(* The pieces that lie wholly within the first c cells are read. *)
LEMMA WholePiecesAreRead ==
  ASSUME NEW pieces, NEW now, NEW D, PiecesRead(pieces, now, D),
         NEW F, NEW L, Laid(F, pieces, L),
         NEW cells, IsCells(cells), Len(cells) <= Len(F), \A i \in 1 .. Len(cells) : cells[i] = F[i],
         NEW k \in 0 .. Len(pieces), L[k] <= Len(cells)
  PROVE  \A i \in 1 .. k : Turn(cells, now, Reading(L[i - 1] + 1, D[i - 1])) = Reading(L[i] + 1, D[i])
<1>1. Len(pieces) \in Nat /\ Len(cells) \in Nat /\ Len(F) \in Nat
  BY DEF PiecesRead, ArePieces, IsCells, Laid
<1>2. \A i \in 0 .. Len(pieces) : L[i] \in Nat
  BY DEF Laid
<1>3. \A i \in 1 .. Len(pieces) : /\ L[i] = L[i - 1] + Len(pieces[i]) /\ Has(F, L[i - 1] + 1, pieces[i])
                                  /\ Len(pieces[i]) \in Nat
  BY DEF Laid, PiecesRead, ArePieces, IsCells
<1> DEFINE T == {i \in 0 .. k : L[k - i] <= L[k]}
<1>4. 0 \in T
  BY <1>1, <1>2
<1>5. ASSUME NEW i \in 1 .. k, i - 1 \in T PROVE i \in T
  <2>1. k - i \in 0 .. Len(pieces) /\ k - (i - 1) \in 1 .. Len(pieces) /\ k - (i - 1) - 1 = k - i /\ i \in 0 .. k
    BY <1>1
  <2>2. L[k - (i - 1)] = L[k - i] + Len(pieces[k - (i - 1)]) /\ Len(pieces[k - (i - 1)]) \in Nat
    BY <1>3, <2>1
  <2>3. L[k - (i - 1)] <= L[k]
    BY <1>5
  <2>4. L[k - i] \in Nat /\ L[k] \in Nat
    BY <1>2, <2>1
  <2>5. L[k - i] <= L[k]
    BY <2>2, <2>3, <2>4
  <2> QED BY <2>1, <2>5
<1>6. \A i \in 0 .. k : i \in T
  <2> HIDE DEF T
  <2>1. Inductive(T, k)
    BY <1>4, <1>5 DEF Inductive
  <2> QED BY <1>1, <2>1, InductionUpTo
<1> TAKE i \in 1 .. k
<1>7. L[i] <= L[k]
  <2>1. k - i \in 0 .. k /\ k - (k - i) = i
    BY <1>1
  <2>2. k - i \in T
    BY <1>6, <2>1
  <2>3. L[k - (k - i)] <= L[k]
    BY <2>2
  <2> HIDE DEF T
  <2> QED BY <2>1, <2>3
<1>8. i \in 1 .. Len(pieces) /\ i - 1 \in 0 .. Len(pieces) /\ i \in 0 .. Len(pieces)
  BY <1>1
<1>9. L[i - 1] \in Nat /\ L[i] \in Nat /\ L[k] \in Nat
  BY <1>2, <1>8
<1> DEFINE p == L[i - 1] + 1
           w == pieces[i]
<1>10. p \in Nat \ {0} /\ p + Len(w) = L[i] + 1 /\ Len(w) \in Nat
  <2>1. L[i] = L[i - 1] + Len(w) /\ Len(w) \in Nat
    BY <1>3, <1>8
  <2> HIDE DEF w
  <2> QED BY <1>9, <2>1
<1>11. Has(F, p, w)
  BY <1>3, <1>8
<1>12. Reads(w, now, D[i - 1], D[i])
  BY <1>8 DEF PiecesRead
<1> HIDE DEF p, w
<1>13. Has(cells, p, w)
  <2>1. p + Len(w) - 1 <= Len(cells)
    BY <1>1, <1>7, <1>9, <1>10
  <2>2. ASSUME NEW j \in 1 .. Len(w) PROVE cells[p + j - 1] = w[j]
    <3>1. p + j - 1 \in 1 .. Len(cells)
      BY <1>1, <1>10, <2>1
    <3> QED BY <1>11, <3>1 DEF Has
  <2> QED BY <2>1, <2>2 DEF Has
<1>14. Turn(cells, now, Reading(p, D[i - 1])) = Reading(p + Len(w), D[i])
  BY <1>10, <1>12, <1>13 DEF Reads
<1> QED BY <1>10, <1>14 DEF p

(* The last piece that lies wholly within the first c cells *)
LEMMA LastWhole ==
  ASSUME NEW n \in Nat, NEW L, L[0] = 1, NEW c \in Nat \ {0}
  PROVE  \E k \in 0 .. n : L[k] <= c /\ (k < n => ~(L[k + 1] <= c))
<1> SUFFICES ASSUME \A k \in 0 .. n : L[k] <= c => k < n /\ L[k + 1] <= c PROVE FALSE
  OBVIOUS
<1> DEFINE T == {k \in 0 .. n : L[k] <= c}
<1>1. 0 \in T
  OBVIOUS
<1>2. ASSUME NEW i \in 1 .. n, i - 1 \in T PROVE i \in T
  <2>1. i - 1 \in 0 .. n /\ L[i - 1] <= c /\ (i - 1) + 1 = i /\ i \in 0 .. n
    BY <1>2
  <2> QED BY <2>1
<1>3. \A i \in 0 .. n : i \in T
  <2> HIDE DEF T
  <2>1. Inductive(T, n)
    BY <1>1, <1>2 DEF Inductive
  <2> QED BY <2>1, InductionUpTo
<1>4. n \in T
  BY <1>3
<1> QED BY <1>4

(* A file is read to its end. *)
LEMMA FileIsRead ==
  ASSUME NEW pieces, NEW now, NEW D, PiecesRead(pieces, now, D),
         NEW F, NEW L, Ends(F, pieces, L), NEW r, r = LoadFile(F, now)
  PROVE  r.stage = "loaded" /\ r.data = D[Len(pieces)]
<1>0. PICK n : n = Len(pieces)
  OBVIOUS
<1>1. /\ Laid(F, pieces, L) /\ Len(F) = L[n] + 1 /\ F[L[n] + 1] = "eof"
      /\ IsCells(F) /\ n \in Nat /\ D[0] = <<>>
  BY <1>0 DEF Ends, Laid, PiecesRead, ArePieces
<1>2. L[0] = 1 /\ L[n] \in Nat /\ n + 1 <= L[n]
  <2>1. n \in 0 .. Len(pieces)
    BY <1>0, <1>1
  <2> QED BY <1>1, <2>1 DEF Laid
<1>3. /\ n \in 0 .. Len(pieces) /\ L[n] <= Len(F) /\ Len(F) <= Len(F)
      /\ n + 1 <= Len(F) /\ Len(F) \in Nat
  BY <1>0, <1>1, <1>2
<1>4. \A i \in 1 .. n : Turn(F, now, Reading(L[i - 1] + 1, D[i - 1])) = Reading(L[i] + 1, D[i])
  BY <1>1, <1>3, WholePiecesAreRead
<1>5. PICK last : last = Turn(F, now, Reading(L[n] + 1, D[n]))
  OBVIOUS
<1>6. last.stage = "loaded" /\ last.data = D[n]
  <2>1. PICK p : p = L[n] + 1
    OBVIOUS
  <2>2. p \in Nat /\ F[p] = "eof"
    BY <1>1, <1>2, <2>1
  <2>3. Turn(F, now, Reading(p, D[n])).stage = "loaded" /\ Turn(F, now, Reading(p, D[n])).data = D[n]
    BY <1>3, <2>2, LastTurn
  <2> QED BY <1>5, <2>1, <2>3
<1>7. last.stage # "reading"
  BY <1>6
<1>8. LoadFile(F, now) = last
  BY <1>1, <1>2, <1>3, <1>4, <1>5, <1>7, TurnsEnd
<1> QED BY <1>0, <1>6, <1>8

(* A file that lacks its end is refused, or read up to the end of a piece. *)
LEMMA CutFileIsRead ==
  ASSUME NEW pieces, NEW now, NEW D, PiecesRead(pieces, now, D),
         NEW F, NEW L, Ends(F, pieces, L),
         NEW c \in 0 .. Len(F), NEW r, r = LoadFile(SubSeq(F, 1, c), now)
  PROVE  \/ r.stage = "broken"
         \/ \E k \in 0 .. Len(pieces) : r.stage = "loaded" /\ r.data = D[k]
<1>0. PICK n : n = Len(pieces)
  OBVIOUS
<1>1. /\ Laid(F, pieces, L) /\ Len(F) = L[n] + 1
      /\ IsCells(F) /\ n \in Nat /\ D[0] = <<>> /\ L[0] = 1
  BY <1>0 DEF Ends, Laid, PiecesRead, ArePieces
<1>2. Len(F) \in Nat /\ c \in Nat /\ c <= Len(F)
  BY <1>1 DEF IsCells
<1>3. \A k \in 0 .. n : L[k] \in Nat /\ k + 1 <= L[k]
  BY <1>0, <1>1 DEF Laid
<1>4. PICK cells : cells = SubSeq(F, 1, c)
  OBVIOUS
<1>5. IsCells(cells) /\ Len(cells) = c /\ \A i \in 1 .. c : cells[i] = F[i]
  BY <1>1, <1>2, <1>4, Beginning
<1>6. r = LoadFile(cells, now)
  BY <1>4
<1>7. CASE c = 0
  <2>1. cells = <<>>
    BY <1>5, <1>7 DEF IsCells
  <2> QED BY <1>6, <2>1, NothingLoads
<1>8. CASE c = Len(F)
  <2>1. cells = F
    <3>1. F = [i \in 1 .. Len(F) |-> F[i]] /\ cells = [i \in 1 .. Len(cells) |-> cells[i]]
      BY <1>1, <1>5 DEF IsCells
    <3> QED BY <1>5, <1>8, <3>1
  <2>2. r = LoadFile(F, now)
    BY <1>6, <2>1
  <2>3. r.stage = "loaded" /\ r.data = D[n]
    BY <1>0, <2>2, FileIsRead
  <2>4. n \in 0 .. Len(pieces)
    BY <1>0, <1>1
  <2> QED BY <2>3, <2>4
<1>9. CASE c # 0 /\ c # Len(F)
  <2>1. c \in Nat \ {0} /\ c <= L[n]
    <3>1. L[n] \in Nat
      BY <1>1, <1>3
    <3> QED BY <1>1, <1>2, <1>9, <3>1
  <2>2. PICK k \in 0 .. n : L[k] <= c /\ (k < n => ~(L[k + 1] <= c))
    BY <1>1, <2>1, LastWhole
  <2>3. k \in Nat /\ L[k] \in Nat /\ k + 1 <= L[k] /\ k \in 0 .. Len(pieces)
    BY <1>0, <1>1, <1>3
  <2>4. \A i \in 1 .. k : Turn(cells, now, Reading(L[i - 1] + 1, D[i - 1])) = Reading(L[i] + 1, D[i])
    <3>1. Len(cells) <= Len(F) /\ \A i \in 1 .. Len(cells) : cells[i] = F[i]
      BY <1>2, <1>5
    <3>2. L[k] <= Len(cells)
      BY <1>5, <2>2
    <3>3. Laid(F, pieces, L) /\ IsCells(cells) /\ k \in 0 .. Len(pieces)
      BY <1>1, <1>5, <2>3
    <3> QED BY <3>1, <3>2, <3>3, WholePiecesAreRead
  <2>5. PICK p : p = L[k] + 1
    OBVIOUS
  <2>6. PICK last : last = Turn(cells, now, Reading(p, D[k]))
    OBVIOUS
  <2>7. p \in Nat \ {0} /\ k + 1 <= Len(cells)
    BY <1>2, <1>5, <2>2, <2>3, <2>5
  <2>8. last.stage # "reading" => r = last
    <3>1. last = Turn(cells, now, Reading(L[k] + 1, D[k]))
      BY <2>5, <2>6
    <3>2. last.stage # "reading" => LoadFile(cells, now) = last
      BY <1>1, <1>5, <2>3, <2>4, <2>7, <3>1, TurnsEnd
    <3> QED BY <1>6, <3>2
  <2>9. CASE L[k] = c
    <3>1. p > Len(cells) /\ Len(cells) \in Nat /\ p \in Nat
      BY <1>2, <1>5, <2>5, <2>7, <2>9
    <3>2. last.stage = "loaded" /\ last.data = D[k]
      BY <2>6, <3>1, LastTurn
    <3> QED BY <2>3, <2>8, <3>2
  <2>10. CASE L[k] # c
    <3>1. k < n
      <4>1. k = n => L[k] = L[n]
        OBVIOUS
      <4> QED BY <1>1, <2>1, <2>2, <2>3, <2>10, <4>1
    <3>2. k + 1 \in 1 .. n /\ k + 1 \in 0 .. n /\ (k + 1) - 1 = k
      BY <1>1, <2>3, <3>1
    <3>3. PICK piece : piece = pieces[k + 1]
      OBVIOUS
    <3>4. /\ L[k + 1] = L[k] + Len(piece) /\ Has(F, p, piece) /\ L[k + 1] \in Nat
          /\ Len(piece) \in Nat
      <4>1. L[k + 1] = L[(k + 1) - 1] + Len(piece) /\ Has(F, L[(k + 1) - 1] + 1, piece)
        BY <1>0, <1>1, <3>2, <3>3 DEF Laid
      <4>2. Len(piece) \in Nat
        BY <1>0, <3>2, <3>3 DEF PiecesRead, ArePieces, IsCells
      <4>3. L[k + 1] \in Nat
        BY <1>3, <3>2
      <4> QED BY <2>5, <3>2, <4>1, <4>2, <4>3
    <3>5. Reads(piece, now, D[k], D[k + 1])
      <4>1. Reads(pieces[k + 1], now, D[(k + 1) - 1], D[k + 1])
        BY <1>0, <3>2 DEF PiecesRead
      <4> QED BY <3>2, <3>3, <4>1
    <3>6. p <= Len(cells) /\ p + Len(piece) - 1 > Len(cells)
      BY <1>2, <1>5, <2>2, <2>3, <2>5, <2>10, <3>1, <3>4
    <3>7. EndsIn(cells, p, piece)
      <4>1. ASSUME NEW i \in 1 .. Len(piece), p + i - 1 <= Len(cells) PROVE cells[p + i - 1] = piece[i]
        <5>1. p + i - 1 \in 1 .. c
          BY <1>2, <1>5, <2>7, <3>4, <4>1
        <5>2. F[p + i - 1] = piece[i]
          BY <3>4 DEF Has
        <5> QED BY <1>5, <5>1, <5>2
      <4>2. Len(cells) < p + Len(piece) - 1
        BY <1>2, <1>5, <2>7, <3>4, <3>6
      <4> QED BY <4>1, <4>2 DEF EndsIn
    <3>8. last.stage = "broken"
      BY <1>5, <2>6, <2>7, <3>5, <3>6, <3>7 DEF Reads
    <3> QED BY <2>8, <3>8
  <2> QED BY <2>9, <2>10
<1> QED BY <1>7, <1>8, <1>9

-----------------------------------------------------------------------------
(* The pieces of a file, one by one *)
LEMMA HeaderIsRead ==
  ASSUME NEW piece, IsCells(piece), piece[1] \in {"aux", "select_db", "resize_db"},
         Len(piece) = Arguments(piece[1]) + 1, NEW now, NEW data
  PROVE  Reads(piece, now, data, data)
<1> SUFFICES ASSUME NEW cells, NEW p, IsCells(cells), p \in Nat \ {0}
             PROVE  /\ Has(cells, p, piece) =>
                         Turn(cells, now, Reading(p, data)) = Reading(p + Len(piece), data)
                    /\ p <= Len(cells) /\ EndsIn(cells, p, piece) =>
                         Turn(cells, now, Reading(p, data)).stage = "broken"
  BY DEF Reads
<1>1. Len(cells) \in Nat /\ p \in Nat
  BY DEF IsCells
<1>2. Arguments(piece[1]) \in Nat /\ Len(piece) \in Nat /\ 1 \in 1 .. Len(piece) /\ p + 1 - 1 = p
  BY DEF Arguments
<1>3. ASSUME Has(cells, p, piece)
      PROVE  Turn(cells, now, Reading(p, data)) = Reading(p + Len(piece), data)
  <2>1. cells[p] = piece[1] /\ p + Len(piece) - 1 <= Len(cells)
    <3>1. cells[p + 1 - 1] = piece[1] /\ p + Len(piece) - 1 <= Len(cells)
      BY <1>2, <1>3 DEF Has
    <3> QED BY <1>2, <3>1
  <2>2. p <= Len(cells) /\ p + Arguments(cells[p]) <= Len(cells)
    BY <1>1, <1>2, <2>1
  <2>3. Turn(cells, now, Reading(p, data)) = Reading(p + Arguments(cells[p]) + 1, data)
    <3>1. cells[p] \in {"aux", "select_db", "resize_db"}
      BY <2>1
    <3> QED BY <1>1, <2>2, <3>1, HeaderTurn
  <2>4. p + Arguments(cells[p]) + 1 = p + Len(piece)
    BY <1>1, <1>2, <2>1
  <2> QED BY <2>3, <2>4
<1>4. ASSUME p <= Len(cells), EndsIn(cells, p, piece)
      PROVE  Turn(cells, now, Reading(p, data)).stage = "broken"
  <2>1. cells[p] = piece[1] /\ p + Len(piece) - 1 > Len(cells)
    <3>1. p + 1 - 1 <= Len(cells)
      BY <1>1, <1>4
    <3>2. cells[p + 1 - 1] = piece[1] /\ Len(cells) < p + Len(piece) - 1
      BY <1>2, <1>4, <3>1 DEF EndsIn
    <3> QED BY <1>1, <1>2, <3>2
  <2>2. p + Arguments(cells[p]) > Len(cells)
    BY <1>1, <1>2, <2>1
  <2>3. cells[p] \in {"aux", "select_db", "resize_db"}
    BY <2>1
  <2> QED BY <1>1, <1>4, <2>2, <2>3, HeaderTurn
<1> QED BY <1>3, <1>4

LEMMA EntryIsRead ==
  ASSUME NEW key, NEW e, Kept(e), NEW order \in Orders(e.val), NEW now \in Nat, NEW data
  PROVE  Reads(WriteEntry(key, e, order), now, data, Added(data, key, e, now))
BY PlainEntryIsRead, DatedEntryIsRead

LEMMA RestoredGrows ==
  ASSUME NEW K, NEW keys \in Seq(K), NEW store, \A k \in K : Kept(store[k]),
         NEW i \in 1 .. Len(keys), NEW now \in Nat
  PROVE  Restored(keys, store, i, now)
           = Added(Restored(keys, store, i - 1, now), keys[i], store[keys[i]], now)
<1> DEFINE Stays(j) == ~(store[keys[j]].ttl \in 0 .. now)
           Dom(n) == {keys[j] : j \in {m \in 1 .. n : Stays(m)}}
           before == Restored(keys, store, i - 1, now)
           e == store[keys[i]]
<1>1. keys[i] \in K /\ Kept(e)
  OBVIOUS
<1>2. e.ttl \in Nat \cup {NoTtl}
  BY <1>1 DEF Kept, Stored
<1>3. Stays(i) <=> ~Lapsed(e.ttl, now)
  BY <1>2 DEF Lapsed, NoTtl
<1>4. \A n : Restored(keys, store, n, now) = [k \in Dom(n) |-> store[k]]
  BY DEF Restored
<1> HIDE DEF Stays
<1>5. i \in Nat \ {0} /\ \A m \in 1 .. i : m \in 1 .. i - 1 \/ m = i
  OBVIOUS
<1>6. CASE Lapsed(e.ttl, now)
  <2>1. {m \in 1 .. i : Stays(m)} = {m \in 1 .. i - 1 : Stays(m)}
    BY <1>3, <1>5, <1>6
  <2>2. Dom(i) = Dom(i - 1)
    BY <2>1
  <2> HIDE DEF Dom
  <2>3. Restored(keys, store, i, now) = before
    BY <1>4, <2>2
  <2> HIDE DEF before, e
  <2> QED BY <1>6, <2>3 DEF Added, before, e
<1>7. CASE ~Lapsed(e.ttl, now)
  <2>1. {m \in 1 .. i : Stays(m)} = {m \in 1 .. i - 1 : Stays(m)} \cup {i}
    BY <1>3, <1>5, <1>7
  <2>2. Dom(i) = Dom(i - 1) \cup {keys[i]}
    <3> HIDE DEF e
    <3> QED BY <2>1
  <2> HIDE DEF Dom
  <2>3. before = [k \in Dom(i - 1) |-> store[k]]
    BY <1>4
  <2>4. Restored(keys, store, i, now) = [k \in Dom(i - 1) \cup {keys[i]} |-> store[k]]
    BY <1>4, <2>2
  <2> HIDE DEF before
  <2>5. With(before, keys[i], e) = [k \in Dom(i - 1) \cup {keys[i]} |-> store[k]]
    BY <2>3 DEF With
  <2> HIDE DEF e
  <2>6. Added(before, keys[i], e, now) = With(before, keys[i], e)
    BY <1>7 DEF Added
  <2>7. Restored(keys, store, i, now) = Added(before, keys[i], e, now)
    BY <2>4, <2>5, <2>6
  <2> QED BY <2>7 DEF before, e
<1> QED BY <1>6, <1>7

LEMMA PiecesAre ==
  ASSUME NEW K, NEW keys \in Seq(K), NEW store, NEW orders
  PROVE  LET pieces == Pieces(keys, store, orders)
         IN  /\ Len(pieces) = 5 + Len(keys)
             /\ \A i \in 1 .. 5 : pieces[i] = Preamble[i]
             /\ \A i \in 1 .. Len(keys) :
                  pieces[5 + i] = WriteEntry(keys[i], store[keys[i]], orders[keys[i]])
<1> DEFINE w == [i \in DOMAIN keys |-> WriteEntry(keys[i], store[keys[i]], orders[keys[i]])]
<1>1. Len(keys) \in Nat /\ DOMAIN keys = 1 .. Len(keys)
  OBVIOUS
<1>2. /\ IsCells(w) /\ Len(w) = Len(keys)
      /\ \A i \in 1 .. Len(keys) : w[i] = WriteEntry(keys[i], store[keys[i]], orders[keys[i]])
  BY <1>1 DEF IsCells
<1>3. IsCells(Preamble) /\ Len(Preamble) = 5
  BY DEF Preamble, IsCells
<1>4. Pieces(keys, store, orders) = Preamble \o w
  BY DEF Pieces
<1> HIDE DEF w
<1>5. PICK pieces : pieces = Preamble \o w
  OBVIOUS
<1>6. PICK five : five = Len(Preamble)
  OBVIOUS
<1>7. /\ Len(pieces) = five + Len(w)
      /\ \A i \in 1 .. five : pieces[i] = Preamble[i]
      /\ \A i \in 1 .. Len(w) : pieces[five + i] = w[i]
  <2>1. IsCells(Preamble) /\ IsCells(w)
    BY <1>2, <1>3
  <2> QED BY <1>5, <1>6, <2>1, Behind
<1>8. five = 5 /\ pieces = Pieces(keys, store, orders)
  BY <1>3, <1>4, <1>5, <1>6
<1> QED BY <1>2, <1>7, <1>8

-----------------------------------------------------------------------------
(* What is in a file with keys is what a save finds. *)
Savable(K, keys, store, orders) ==
  keys \in Seq(K) /\ \A k \in K : Kept(store[k]) /\ orders[k] \in Orders(store[k].val)

(* What has been read behind the first pieces: of the header nothing *)
ReadBehind(keys, store, now) ==
  [i \in 0 .. 5 + Len(keys) |-> Restored(keys, store, IF i <= 5 THEN 0 ELSE i - 5, now)]

LEMMA FilePiecesAreRead ==
  ASSUME NEW K, NEW keys, NEW store, NEW orders, Savable(K, keys, store, orders), NEW now \in Nat
  PROVE  PiecesRead(Pieces(keys, store, orders), now, ReadBehind(keys, store, now))
<1> PICK pieces : pieces = Pieces(keys, store, orders)
  OBVIOUS
<1> PICK D : D = ReadBehind(keys, store, now)
  OBVIOUS
<1>1. /\ keys \in Seq(K) /\ Len(keys) \in Nat
      /\ \A k \in K : Kept(store[k]) /\ orders[k] \in Orders(store[k].val)
  BY DEF Savable
<1>2. /\ Len(pieces) = 5 + Len(keys)
      /\ \A i \in 1 .. 5 : pieces[i] = Preamble[i]
      /\ \A i \in 1 .. Len(keys) :
           pieces[5 + i] = WriteEntry(keys[i], store[keys[i]], orders[keys[i]])
  BY <1>1, PiecesAre
<1>3. \A i \in 0 .. 5 : D[i] = Restored(keys, store, 0, now)
  BY <1>1 DEF ReadBehind
<1>4. \A i \in 0 .. Len(keys) : D[5 + i] = Restored(keys, store, i, now)
  <2> TAKE i \in 0 .. Len(keys)
  <2>1. 5 + i \in 0 .. 5 + Len(keys) /\ (5 + i <= 5 <=> i = 0) /\ (5 + i) - 5 = i
    BY <1>1
  <2> QED BY <2>1 DEF ReadBehind
<1>5. D[0] = <<>>
  <2>1. Restored(keys, store, 0, now) = <<>>
    BY DEF Restored
  <2>2. 0 \in 0 .. 5
    OBVIOUS
  <2> QED BY <1>3, <2>1, <2>2
<1>6. ASSUME NEW i \in 1 .. 5
      PROVE  IsCells(pieces[i]) /\ Len(pieces[i]) # 0 /\ Reads(pieces[i], now, D[i - 1], D[i])
  <2>1. D[i - 1] = D[i]
    <3>1. i \in 0 .. 5 /\ i - 1 \in 0 .. 5
      OBVIOUS
    <3> QED BY <1>3, <3>1
  <2>2. PICK piece : piece = Preamble[i]
    OBVIOUS
  <2>3. /\ IsCells(piece) /\ piece[1] \in {"aux", "select_db", "resize_db"}
        /\ Len(piece) = Arguments(piece[1]) + 1 /\ Len(piece) # 0
    <3>1. CASE i = 1
      <4>1. piece = <<"aux", "redis-ver", "7.0.0">>
        BY <2>2, <3>1 DEF Preamble
      <4> QED BY <4>1 DEF IsCells, Arguments
    <3>2. CASE i = 2
      <4>1. piece = <<"aux", "redis-bits", "64">>
        BY <2>2, <3>2 DEF Preamble
      <4> QED BY <4>1 DEF IsCells, Arguments
    <3>3. CASE i = 3
      <4>1. piece = <<"aux", "ctime", "now">>
        BY <2>2, <3>3 DEF Preamble
      <4> QED BY <4>1 DEF IsCells, Arguments
    <3>4. CASE i = 4
      <4>1. piece = <<"select_db", 0>>
        BY <2>2, <3>4 DEF Preamble
      <4> QED BY <4>1 DEF IsCells, Arguments
    <3>5. CASE i = 5
      <4>1. piece = <<"resize_db", "keys", "deadlines">>
        BY <2>2, <3>5 DEF Preamble
      <4> QED BY <4>1 DEF IsCells, Arguments
    <3> QED BY <3>1, <3>2, <3>3, <3>4, <3>5
  <2>4. Reads(piece, now, D[i], D[i])
    BY <2>3, HeaderIsRead
  <2>5. pieces[i] = piece
    BY <1>2, <2>2
  <2> QED BY <2>1, <2>3, <2>4, <2>5
<1>7. ASSUME NEW i \in 1 .. Len(keys)
      PROVE  /\ IsCells(pieces[5 + i]) /\ Len(pieces[5 + i]) # 0
             /\ Reads(pieces[5 + i], now, D[(5 + i) - 1], D[5 + i])
  <2> PICK e : e = store[keys[i]]
    OBVIOUS
  <2> PICK order : order = orders[keys[i]]
    OBVIOUS
  <2> PICK w : w = WriteEntry(keys[i], e, order)
    OBVIOUS
  <2>1. keys[i] \in K /\ Kept(e) /\ order \in Orders(e.val)
    BY <1>1
  <2>2. pieces[5 + i] = w
    BY <1>2
  <2>3. IsCells(w) /\ Len(w) # 0
    BY <2>1, EntryHasCells
  <2>4. i \in 0 .. Len(keys) /\ i - 1 \in 0 .. Len(keys) /\ (5 + i) - 1 = 5 + (i - 1)
    BY <1>1
  <2>5. D[(5 + i) - 1] = Restored(keys, store, i - 1, now) /\ D[5 + i] = Restored(keys, store, i, now)
    BY <1>4, <2>4
  <2>6. Restored(keys, store, i, now) = Added(Restored(keys, store, i - 1, now), keys[i], e, now)
    BY <1>1, RestoredGrows
  <2>7. Reads(w, now, D[(5 + i) - 1], Added(D[(5 + i) - 1], keys[i], e, now))
    BY <2>1, EntryIsRead
  <2>8. Reads(w, now, D[(5 + i) - 1], D[5 + i])
    BY <2>5, <2>6, <2>7
  <2> QED BY <2>2, <2>3, <2>8
<1>8. ASSUME NEW i \in 1 .. Len(pieces)
      PROVE  IsCells(pieces[i]) /\ Len(pieces[i]) # 0 /\ Reads(pieces[i], now, D[i - 1], D[i])
  <2>1. CASE i \in 1 .. 5
    BY <1>6, <2>1
  <2>2. CASE i \notin 1 .. 5
    <3> PICK j : j = i - 5
      OBVIOUS
    <3>1. j \in 1 .. Len(keys) /\ i = 5 + j
      BY <1>1, <1>2, <2>2
    <3> QED BY <1>7, <3>1
  <2> QED BY <2>1, <2>2
<1>9. Len(pieces) \in Nat
  BY <1>1, <1>2
<1> QED BY <1>5, <1>8, <1>9 DEF PiecesRead, ArePieces

(* Whatever the keys of a save, their values and their deadlines, and in     *)
(* whatever order they come (save_to_file, write_value): the file that is   *)
(* written loads (load_from_file, read_value) as what was saved and has not *)
(* expired, and of a file that lacks its end a load refuses all, or takes   *)
(* what was saved up to the last whole entry.                              *)
THEOREM FileComesBack ==
  ASSUME NEW K, NEW keys, NEW store, NEW orders, Savable(K, keys, store, orders), NEW now \in Nat
  PROVE  LoadsBack(keys, store, orders, now)
<1> PICK pieces : pieces = Pieces(keys, store, orders)
  OBVIOUS
<1> PICK D : D = ReadBehind(keys, store, now)
  OBVIOUS
<1> PICK F : F = FileOf(keys, store, orders)
  OBVIOUS
<1>1. PiecesRead(pieces, now, D)
  BY FilePiecesAreRead
<1>2. PICK L : Ends(F, pieces, L)
  <2>1. ArePieces(pieces)
    BY <1>1 DEF PiecesRead
  <2>2. F = Written(pieces) \o <<"eof">>
    BY DEF FileOf
  <2> QED BY <2>1, <2>2, FileIsLaid
<1>3. keys \in Seq(K) /\ Len(keys) \in Nat
  BY DEF Savable
<1>4. Len(pieces) = 5 + Len(keys)
  BY <1>3, PiecesAre
<1>5. ASSUME NEW i \in 0 .. Len(pieces)
      PROVE  \E n \in 0 .. Len(keys) : D[i] = Restored(keys, store, n, now)
  <2> PICK n : n = IF i <= 5 THEN 0 ELSE i - 5
    OBVIOUS
  <2>1. n \in 0 .. Len(keys)
    BY <1>3, <1>4
  <2>2. D[i] = Restored(keys, store, n, now)
    BY <1>4 DEF ReadBehind
  <2> QED BY <2>1, <2>2
<1>6. D[Len(pieces)] = Restored(keys, store, Len(keys), now)
  <2>1. /\ Len(pieces) \in 0 .. 5 + Len(keys)
        /\ (IF Len(pieces) <= 5 THEN 0 ELSE Len(pieces) - 5) = Len(keys)
    BY <1>3, <1>4
  <2> QED BY <2>1 DEF ReadBehind
<1>7. /\ LoadFile(F, now).stage = "loaded"
      /\ LoadFile(F, now).data = Restored(keys, store, Len(keys), now)
  BY <1>1, <1>2, <1>6, FileIsRead
<1>8. ASSUME NEW c \in 0 .. Len(F)
      PROVE  \/ LoadFile(SubSeq(F, 1, c), now).stage = "broken"
             \/ \E n \in 0 .. Len(keys) :
                  /\ LoadFile(SubSeq(F, 1, c), now).stage = "loaded"
                  /\ LoadFile(SubSeq(F, 1, c), now).data = Restored(keys, store, n, now)
  <2> PICK r : r = LoadFile(SubSeq(F, 1, c), now)
    OBVIOUS
  <2>1. \/ r.stage = "broken"
        \/ \E i \in 0 .. Len(pieces) : r.stage = "loaded" /\ r.data = D[i]
    BY <1>1, <1>2, CutFileIsRead
  <2> QED BY <1>5, <2>1
<1> QED BY <1>7, <1>8 DEF LoadsBack

LEMMA AllFilesLoad == ASSUME Shape, HalvesAgree PROVE SavedFilesLoad
<1> SUFFICES ASSUME value # NoKey, NEW ttl \in {NoTtl, 1}, NEW now \in 0 .. 2, NEW order \in Orders(value)
             PROVE  LoadsBack(<<"k1", "k2", "k3">>,
                              [k1 |-> Stored(String("a"), 2), k2 |-> Stored(value, ttl),
                               k3 |-> Stored(String("b"), NoTtl)],
                              [k1 |-> <<>>, k2 |-> order, k3 |-> <<>>], now)
  BY DEF SavedFilesLoad
<1> DEFINE K == {"k1", "k2", "k3"}
           keys == <<"k1", "k2", "k3">>
           store == [k1 |-> Stored(String("a"), 2), k2 |-> Stored(value, ttl),
                     k3 |-> Stored(String("b"), NoTtl)]
           orders == [k1 |-> <<>>, k2 |-> order, k3 |-> <<>>]
<1>1. Whole(value) /\ Whole(String("a")) /\ Whole(String("b"))
  BY StoredIsWhole DEF Shape, HalvesAgree, Whole
<1>2. ASSUME NEW v, Whole(v), NEW d \in Nat \cup {NoTtl} PROVE Kept(Stored(v, d)) /\ Stored(v, d).val = v
  BY <1>2 DEF Kept, Stored
<1>3. 2 \in Nat \cup {NoTtl} /\ ttl \in Nat \cup {NoTtl} /\ NoTtl \in Nat \cup {NoTtl}
  OBVIOUS
<1>4. \A bytes : <<>> \in Orders(String(bytes))
  BY DEF Orders, String
<1>5. /\ Kept(store["k1"]) /\ orders["k1"] \in Orders(store["k1"].val)
      /\ Kept(store["k2"]) /\ orders["k2"] \in Orders(store["k2"].val)
      /\ Kept(store["k3"]) /\ orders["k3"] \in Orders(store["k3"].val)
  BY <1>1, <1>2, <1>3, <1>4
<1>6. keys \in Seq(K)
  OBVIOUS
<1> HIDE DEF store, orders, keys
<1>7. Savable(K, keys, store, orders)
  BY <1>5, <1>6 DEF Savable
<1>8. now \in Nat
  OBVIOUS
<1>9. LoadsBack(keys, store, orders, now)
  BY <1>7, <1>8, FileComesBack
<1> QED BY <1>9 DEF keys, store, orders

(* A file with what the handlers put into the store, beside two strings,    *)
(* loads as what was saved; cut short, as a beginning of it or not at all   *)
(* (save_to_file, load_from_file).                                         *)
THEOREM SavedFilesAreLoaded == Spec => []SavedFilesLoad
<1>1. Shape /\ HalvesAgree => SavedFilesLoad
  BY AllFilesLoad
<1> QED BY <1>1, ShapeIsInvariant, SortedSetHalvesAgree, PTL
=============================================================================
