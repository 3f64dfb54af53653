---------------------------- MODULE VecMapProofs ----------------------------
(***************************************************************************)
(* The vector is a map, for any keys and values: a signal never has two    *)
(* slots, nor an id two actions, and actions run in the order in which     *)
(* they were registered.                                                   *)
(***************************************************************************)
EXTENDS VecMap, SequenceTheorems, WellFoundedInduction, TLAPS

(* SelectInSeq takes an operator and is expanded in one place only.        *)
Places(s, k) == {i \in 1 .. Len(s) : s[i].key = k}

(* A vector is a sequence of pairs. *)
Pairs == [key : Keys, value : Values]
Vectors == Seq(Pairs)

(* find() returns a place of the key, and 0 when there is none. *)
LEMMA FindFinds ==
    ASSUME vec \in Vectors, NEW k
    PROVE  IF Places(vec, k) = {} THEN Find(k) = 0 ELSE Find(k) \in Places(vec, k)
<1> DEFINE Less == {ss \in Nat \X Nat : ss[1] < ss[2]}
           I == Places(vec, k)
<1>1. I \subseteq Nat
  BY DEF Places, Vectors
<1>2. Find(k) = IF I # {} THEN SX!Min(I) ELSE 0
  BY DEF Find, SX!SelectInSeq, Places
<1>3. SUFFICES ASSUME I # {} PROVE SX!Min(I) \in I
  BY <1>2
<1>4. IsWellFoundedOn(Less, Nat)
  BY NatLessThanWellFounded DEF OpToRel
<1>5. PICK x \in I : \A y \in I : << y, x >> \notin Less
  <2> HIDE DEF Less, I
  <2> QED
    BY <1>1, <1>3, <1>4, WFMin
<1>6. \A y \in I : x <= y
  <2>1. TAKE y \in I
  <2>2. x \in Nat /\ y \in Nat
    BY <1>1
  <2>3. << y, x >> \notin Less
    BY <1>5
  <2> QED
    BY <2>2, <2>3
<1> HIDE DEF I
<1> QED
  BY <1>6 DEF SX!Min

(* A place that is found has the key, and none is found without one. *)
LEMMA FindIs ==
    ASSUME vec \in Vectors, NEW k
    PROVE  /\ Find(k) \in 0 .. Len(vec)
           /\ Find(k) # 0 => vec[Find(k)].key = k
           /\ Find(k) = 0 => \A i \in 1 .. Len(vec) : vec[i].key # k
<1>1. CASE Places(vec, k) = {}
  BY <1>1, FindFinds DEF Places, Vectors
<1>2. CASE Places(vec, k) # {}
  BY <1>2, FindFinds DEF Places, Vectors
<1> QED
  BY <1>1, <1>2

(* Vec::remove() leaves a vector in which place i of the new one is place  *)
(* Behind(f, i) of the old one.                                            *)
Behind(f, i) == IF i < f THEN i ELSE i + 1

LEMMA RemovedIs ==
    ASSUME NEW s \in Seq(Pairs), NEW f \in 1 .. Len(s)
    PROVE  /\ SX!RemoveAt(s, f) \in Seq(Pairs)
           /\ Len(SX!RemoveAt(s, f)) = Len(s) - 1
           /\ \A i \in 1 .. Len(s) - 1 :
                 Behind(f, i) \in 1 .. Len(s) /\ SX!RemoveAt(s, f)[i] = s[Behind(f, i)]
<1> DEFINE w == SX!RemoveAt(s, f)
           front == SubSeq(s, 1, f - 1)
           rest == SubSeq(s, f + 1, Len(s))
<1>1. w = front \o rest
  BY DEF SX!RemoveAt
<1>2. /\ front \in Seq(Pairs) /\ Len(front) = f - 1
      /\ \A i \in 1 .. f - 1 : front[i] = s[i]
  OBVIOUS
<1>3. /\ rest \in Seq(Pairs) /\ Len(rest) = Len(s) - f
      /\ \A i \in 1 .. Len(s) - f : rest[i] = s[f + i]
  <2>1. \A i \in f + 1 .. Len(s) : s[i] \in Pairs
    OBVIOUS
  <2>2. f + 1 \in Int /\ Len(s) \in Int
    OBVIOUS
  <2> QED
    BY <2>1, <2>2, SubSeqProperties
<1> HIDE DEF w, front, rest
<1>4. /\ w \in Seq(Pairs) /\ Len(w) = Len(s) - 1
      /\ \A i \in 1 .. Len(w) : w[i] = IF i < f THEN front[i] ELSE rest[i - (f - 1)]
  <2>1. /\ w \in Seq(Pairs) /\ Len(w) = Len(front) + Len(rest)
        /\ \A i \in 1 .. Len(front) + Len(rest) :
               w[i] = IF i <= Len(front) THEN front[i] ELSE rest[i - Len(front)]
    BY <1>1, <1>2, <1>3, ConcatProperties
  <2>2. \A i \in 1 .. Len(w) : i <= Len(front) <=> i < f
    BY <1>2, <2>1
  <2>3. Len(s) \in Nat
    OBVIOUS
  <2> QED
    BY <1>2, <1>3, <2>1, <2>2, <2>3
<1>5. ASSUME NEW i \in 1 .. Len(s) - 1
      PROVE  Behind(f, i) \in 1 .. Len(s) /\ w[i] = s[Behind(f, i)]
  <2>1. CASE i < f
    BY <1>2, <1>4, <2>1 DEF Behind
  <2>2. CASE i >= f
    <3> DEFINE n == i - (f - 1)
    <3>1. n \in 1 .. Len(s) - f /\ f + n = i + 1
      BY <2>2
    <3>2. w[i] = rest[n]
      BY <1>4, <2>2
    <3> HIDE DEF n
    <3> QED
      BY <1>3, <2>2, <3>1, <3>2 DEF Behind
  <2> QED
    BY <2>1, <2>2
<1> QED
  BY <1>4, <1>5 DEF w

(* What the proof needs of the variables. *)
Distinct == vec \in Vectors /\ KeysUnique

LEMMA InsertKeeps ==
    ASSUME Distinct, NEW k \in Keys, NEW v \in Values, Insert(k, v)
    PROVE  Distinct'
<1>1. vec \in Seq(Pairs) /\ KeysUnique /\ vec' = Inserted(k, v)
  BY DEF Distinct, Vectors, Insert
<1>2. CASE Find(k) # 0
  <2> DEFINE f == Find(k)
             p == [vec[f] EXCEPT !.value = v]
  <2>1. f \in 1 .. Len(vec)
    BY <1>1, <1>2, FindIs DEF Vectors
  <2>2. vec[f] \in Pairs
    BY <1>1, <2>1
  <2>3. p \in Pairs /\ p.key = vec[f].key
    BY <2>2 DEF Pairs
  <2>4. vec' = [vec EXCEPT ![f] = p]
    BY <1>1, <1>2 DEF Inserted
  <2> HIDE DEF f, p
  <2>5. vec' \in Seq(Pairs) /\ Len(vec') = Len(vec)
    BY <1>1, <2>1, <2>3, <2>4
  <2>6. \A i \in 1 .. Len(vec) : vec'[i].key = vec[i].key
    BY <1>1, <2>1, <2>3, <2>4
  <2> QED
    BY <1>1, <2>5, <2>6 DEF Distinct, Vectors, KeysUnique
<1>3. CASE Find(k) = 0
  <2> DEFINE p == Pair(k, v)
  <2>1. p \in Pairs /\ p.key = k
    BY DEF Pairs, Pair
  <2>2. \A i \in 1 .. Len(vec) : vec[i].key # k
    BY <1>1, <1>3, FindIs DEF Vectors
  <2>3. vec' = Append(vec, p)
    BY <1>1, <1>3 DEF Inserted
  <2> HIDE DEF p
  <2> QED
    BY <1>1, <2>1, <2>2, <2>3 DEF Distinct, Vectors, KeysUnique
<1> QED
  BY <1>2, <1>3

LEMMA RemoveKeeps ==
    ASSUME Distinct, NEW k \in Keys, Remove(k)
    PROVE  Distinct'
<1>1. vec \in Seq(Pairs) /\ KeysUnique
  BY DEF Distinct, Vectors
<1>2. CASE Find(k) = 0
  BY <1>1, <1>2 DEF Remove, Distinct, Vectors, KeysUnique
<1>3. CASE Find(k) # 0
  <2> DEFINE f == Find(k)
  <2>1. f \in 1 .. Len(vec)
    BY <1>1, <1>3, FindIs DEF Vectors
  <2>2. vec' = SX!RemoveAt(vec, f)
    BY <1>3 DEF Remove
  <2> HIDE DEF f
  <2>3. /\ vec' \in Seq(Pairs) /\ Len(vec') = Len(vec) - 1
        /\ \A i \in 1 .. Len(vec') : Behind(f, i) \in 1 .. Len(vec) /\ vec'[i] = vec[Behind(f, i)]
    BY <1>1, <2>1, <2>2, RemovedIs
  <2>4. \A i, j \in 1 .. Len(vec') : Behind(f, i) = Behind(f, j) => i = j
    BY <2>1, <2>3 DEF Behind
  <2>5. DOMAIN vec = 1 .. Len(vec) /\ DOMAIN vec' = 1 .. Len(vec')
    BY <1>1, <2>3
  <2> QED
    BY <1>1, <2>3, <2>4, <2>5 DEF Distinct, Vectors, KeysUnique
<1> QED
  BY <1>2, <1>3

(* The vector is always one, and no key is twice in it. *)
THEOREM Invariance == Spec => []Distinct
<1>1. Init => Distinct
  BY DEF Init, Distinct, Vectors, KeysUnique
<1>2. Distinct /\ [Next]_vars => Distinct'
  <2> SUFFICES ASSUME Distinct, [Next]_vars PROVE Distinct'
    OBVIOUS
  <2>1. CASE \E k \in Keys : Remove(k)
    BY <2>1, RemoveKeeps
  <2>2. CASE \E k \in Keys, v \in Values : Insert(k, v)
    BY <2>2, InsertKeeps
  <2>3. CASE Clear
    BY <2>3 DEF Clear, Distinct, Vectors, KeysUnique
  <2>4. CASE UNCHANGED vars
    BY <2>4 DEF vars, Distinct, KeysUnique
  <2> QED
    BY <2>1, <2>2, <2>3, <2>4 DEF Next
<1> QED
  BY <1>1, <1>2, PTL DEF Spec

(* No operation puts a key into the vector twice (VecMap's promise, which  *)
(* the registry's one slot per signal and one action per id rest on).      *)
THEOREM Unique == Spec => []KeysUnique
BY Invariance, PTL DEF Distinct

-----------------------------------------------------------------------------
(* The map. *)

(* What a lookup returns, and which keys came before which, told by the    *)
(* places of the vector.                                                   *)
Reads ==
    /\ \A i \in 1 .. Len(vec) :
          /\ vec[i].key \in Keys
          /\ vec[i].value # None
          /\ Value[vec[i].key] = vec[i].value
    /\ \A k \in Keys : Value[k] # None => \E i \in 1 .. Len(vec) : vec[i].key = k
    /\ Value = [k \in Keys |-> Value[k]]
    /\ Before \subseteq Keys \X Keys
    /\ \A x, y \in Keys :
          << x, y >> \in Before <=>
              \E i, j \in 1 .. Len(vec) : i < j /\ vec[i].key = x /\ vec[j].key = y

LEMMA ReadsIs == Distinct => Reads
<1> SUFFICES ASSUME Distinct PROVE Reads
  OBVIOUS
<1>1. vec \in Seq(Pairs) /\ KeysUnique /\ DOMAIN vec = 1 .. Len(vec)
  BY DEF Distinct, Vectors
<1>2. ASSUME NEW i \in 1 .. Len(vec)
      PROVE  vec[i].key \in Keys /\ vec[i].value \in Values /\ vec[i].value # None
  <2>1. vec[i] \in Pairs
    BY <1>1
  <2> QED
    BY <2>1, NoneAssumption DEF Pairs
<1>3. ASSUME NEW i \in 1 .. Len(vec) PROVE Lookup(vec[i].key) = vec[i].value
  <2> DEFINE f == Find(vec[i].key)
  <2>1. /\ f \in 0 .. Len(vec)
        /\ f # 0 => vec[f].key = vec[i].key
        /\ f = 0 => \A j \in 1 .. Len(vec) : vec[j].key # vec[i].key
    BY <1>1, FindIs DEF Vectors
  <2>2. Lookup(vec[i].key) = IF f = 0 THEN None ELSE vec[f].value
    BY DEF Lookup
  <2> HIDE DEF f
  <2>3. f \in 1 .. Len(vec) /\ vec[f].key = vec[i].key
    BY <1>1, <2>1
  <2>4. f = i
    BY <1>1, <2>3 DEF KeysUnique
  <2> QED
    BY <1>1, <2>2, <2>3, <2>4
<1>4. ASSUME NEW k \in Keys, Lookup(k) # None PROVE \E i \in 1 .. Len(vec) : vec[i].key = k
  <2>1. Find(k) # 0
    BY <1>4 DEF Lookup
  <2> QED
    BY <1>1, <2>1, FindIs DEF Vectors
<1>5. Value = [k \in Keys |-> Value[k]] /\ \A k \in Keys : Value[k] = Lookup(k)
  BY DEF Value
<1> QED
  BY <1>1, <1>2, <1>3, <1>4, <1>5 DEF Reads, Before

LEMMA ReadsAfter == Distinct' => Reads'
BY ReadsIs, PTL

(* A vector that stays the same, and one that is empty. *)
LEMMA SameIs ==
    ASSUME Distinct, Distinct', vec' = vec
    PROVE  Value' = Value /\ Before' = Before
<1>1. Reads /\ Reads'
  BY ReadsIs, ReadsAfter
<1>2. ASSUME NEW x \in Keys PROVE Value'[x] = Value[x]
  <2>1. CASE \E i \in 1 .. Len(vec) : vec[i].key = x
    BY <1>1, <2>1 DEF Reads
  <2>2. CASE \A i \in 1 .. Len(vec) : vec[i].key # x
    BY <1>1, <2>2 DEF Reads
  <2> QED
    BY <2>1, <2>2
<1>3. Value' = Value
  BY <1>1, <1>2 DEF Reads
<1> QED
  BY <1>3 DEF Before

LEMMA EmptyIs == vec = << >> => Value = [k \in Keys |-> None] /\ Before = {}
<1> SUFFICES ASSUME vec = << >> PROVE Value = [k \in Keys |-> None] /\ Before = {}
  OBVIOUS
<1>1. vec \in Vectors /\ KeysUnique /\ Len(vec) = 0 /\ DOMAIN vec = {}
  BY DEF Vectors, KeysUnique
<1>2. Reads
  BY <1>1, ReadsIs DEF Distinct
<1>3. Before = {}
  BY <1>1 DEF Before
<1>4. \A k \in Keys : Value[k] = None
  BY <1>1, <1>2 DEF Reads
<1> QED
  BY <1>2, <1>3, <1>4 DEF Reads

LEMMA EmptyAfter == vec' = << >> => Value' = [k \in Keys |-> None] /\ Before' = {}
<1>1. (vec = << >> => Value = [k \in Keys |-> None] /\ Before = {})'
  BY EmptyIs, PTL
<1> QED
  BY <1>1

(* insert() keeps the place of a known key and puts a new one last.        *)
LEMMA InsertInserts ==
    ASSUME Distinct, Distinct', NEW k \in Keys, NEW v \in Values, Insert(k, v)
    PROVE  Ordered!Insert(k, v)
<1>1. vec \in Seq(Pairs) /\ KeysUnique /\ vec' = Inserted(k, v) /\ vec' \in Seq(Pairs)
  BY DEF Distinct, Vectors, Insert
<1>2. Reads /\ Reads'
  BY ReadsIs, ReadsAfter
<1>3. ret' = Value[k]
  BY DEF Insert, Value
<1>4. v # None
  BY NoneAssumption
<1>5. CASE Find(k) # 0
  <2> DEFINE f == Find(k)
             p == [vec[f] EXCEPT !.value = v]
  <2>1. f \in 1 .. Len(vec) /\ vec[f].key = k
    BY <1>1, <1>5, FindIs DEF Vectors
  <2>2. vec[f] \in Pairs
    BY <1>1, <2>1
  <2>3. p \in Pairs /\ p.key = k /\ p.value = v
    BY <2>1, <2>2 DEF Pairs
  <2>4. vec' = [vec EXCEPT ![f] = p]
    BY <1>1, <1>5 DEF Inserted
  <2> HIDE DEF f, p
  <2>5. /\ Len(vec') = Len(vec)
        /\ \A i \in 1 .. Len(vec) : vec'[i].key = vec[i].key
        /\ \A i \in 1 .. Len(vec) : i # f => vec'[i] = vec[i]
        /\ vec'[f].value = v
    BY <1>1, <2>1, <2>3, <2>4
  <2>6. Value[k] # None
    BY <1>2, <2>1 DEF Reads
  <2>7. ASSUME NEW x \in Keys, NEW y \in Keys
        PROVE  << x, y >> \in Before' <=> << x, y >> \in Before
    <3>1. << x, y >> \in Before' <=>
              \E i, j \in 1 .. Len(vec') : i < j /\ vec'[i].key = x /\ vec'[j].key = y
      BY <1>2 DEF Reads
    <3>2. << x, y >> \in Before <=>
              \E i, j \in 1 .. Len(vec) : i < j /\ vec[i].key = x /\ vec[j].key = y
      BY <1>2 DEF Reads
    <3> QED
      BY <2>5, <3>1, <3>2
  <2>8. Before' = Before
    <3>1. Before \subseteq Keys \X Keys /\ Before' \subseteq Keys \X Keys
      BY <1>2 DEF Reads
    <3>2. ASSUME NEW pair \in Keys \X Keys PROVE pair \in Before' <=> pair \in Before
      <4>1. pair = << pair[1], pair[2] >> /\ pair[1] \in Keys /\ pair[2] \in Keys
        OBVIOUS
      <4> QED
        BY <2>7, <4>1
    <3> QED
      BY <3>1, <3>2
  <2>9. ASSUME NEW x \in Keys PROVE Value'[x] = IF x = k THEN v ELSE Value[x]
    <3>1. CASE x = k
      BY <1>2, <2>1, <2>5, <3>1 DEF Reads
    <3>2. CASE x # k /\ \E i \in 1 .. Len(vec) : vec[i].key = x
      <4>1. PICK i \in 1 .. Len(vec) : vec[i].key = x /\ i # f
        BY <2>1, <3>2
      <4>2. vec'[i] = vec[i] /\ i \in 1 .. Len(vec')
        BY <2>5, <4>1
      <4> QED
        BY <1>2, <3>2, <4>1, <4>2 DEF Reads
    <3>3. CASE x # k /\ \A i \in 1 .. Len(vec) : vec[i].key # x
      BY <1>2, <2>5, <3>3 DEF Reads
    <3> QED
      BY <3>1, <3>2, <3>3
  <2>10. Value' = [Value EXCEPT ![k] = v]
    BY <1>2, <2>9 DEF Reads
  <2>11. k \in Ordered!Present
    BY <2>6 DEF Ordered!Present
  <2> QED
    BY <1>3, <2>8, <2>10, <2>11 DEF Ordered!Insert
<1>6. CASE Find(k) = 0
  <2> DEFINE p == Pair(k, v)
             n == Len(vec)
  <2>1. p \in Pairs /\ p.key = k /\ p.value = v
    BY DEF Pairs, Pair
  <2>2. \A i \in 1 .. n : vec[i].key # k
    BY <1>1, <1>6, FindIs DEF Vectors
  <2>3. vec' = Append(vec, p)
    BY <1>1, <1>6 DEF Inserted
  <2> HIDE DEF p
  <2>4. /\ n \in Nat /\ Len(vec') = n + 1 /\ vec'[n + 1] = p
        /\ \A i \in 1 .. n : vec'[i] = vec[i]
    BY <1>1, <2>1, <2>3, AppendProperties
  <2> HIDE DEF n
  <2>5. Value[k] = None
    BY <1>2, <2>2 DEF Reads, n
  <2>6. ASSUME NEW x \in Keys PROVE Value[x] # None <=> \E i \in 1 .. n : vec[i].key = x
    BY <1>2 DEF Reads, n
  <2>7. ASSUME NEW x \in Keys, NEW y \in Keys
        PROVE  << x, y >> \in Before' <=> << x, y >> \in Before \/ (Value[x] # None /\ y = k)
    <3>1. << x, y >> \in Before <=> \E i, j \in 1 .. n : i < j /\ vec[i].key = x /\ vec[j].key = y
      BY <1>2 DEF Reads, n
    <3>2. << x, y >> \in Before' <=>
              \E i, j \in 1 .. n + 1 : i < j /\ vec'[i].key = x /\ vec'[j].key = y
      BY <1>2, <2>4 DEF Reads
    <3>3. ASSUME << x, y >> \in Before' PROVE << x, y >> \in Before \/ (Value[x] # None /\ y = k)
      <4>1. PICK i \in 1 .. n + 1, j \in 1 .. n + 1 : i < j /\ vec'[i].key = x /\ vec'[j].key = y
        BY <3>2, <3>3
      <4>2. i \in 1 .. n /\ vec[i].key = x
        BY <2>4, <4>1
      <4>3. CASE j = n + 1
        BY <2>1, <2>4, <2>6, <4>1, <4>2, <4>3
      <4>4. CASE j # n + 1
        BY <2>4, <3>1, <4>1, <4>2, <4>4
      <4> QED
        BY <4>3, <4>4
    <3>4. ASSUME << x, y >> \in Before PROVE << x, y >> \in Before'
      <4>1. PICK i \in 1 .. n, j \in 1 .. n : i < j /\ vec[i].key = x /\ vec[j].key = y
        BY <3>1, <3>4
      <4> QED
        BY <2>4, <3>2, <4>1
    <3>5. ASSUME Value[x] # None, y = k PROVE << x, y >> \in Before'
      <4>1. PICK i \in 1 .. n : vec[i].key = x
        BY <2>6, <3>5
      <4>2. i < n + 1 /\ i \in 1 .. n + 1 /\ n + 1 \in 1 .. n + 1 /\ vec'[n + 1].key = y
        BY <2>1, <2>4, <3>5
      <4> QED
        BY <2>4, <3>2, <4>1, <4>2
    <3> QED
      BY <3>3, <3>4, <3>5
  <2>8. Before' = Before \cup (Ordered!Present \X {k})
    BY <1>2, <2>7 DEF Reads, Ordered!Present
  <2>9. ASSUME NEW x \in Keys PROVE Value'[x] = IF x = k THEN v ELSE Value[x]
    <3>1. CASE x = k
      <4>1. n + 1 \in 1 .. Len(vec')
        BY <2>4
      <4> QED
        BY <1>2, <2>1, <2>4, <3>1, <4>1 DEF Reads
    <3>2. CASE x # k /\ \E i \in 1 .. n : vec[i].key = x
      <4>1. PICK i \in 1 .. n : vec[i].key = x
        BY <3>2
      <4>2. vec'[i] = vec[i] /\ i \in 1 .. Len(vec') /\ i \in 1 .. Len(vec)
        BY <2>4, <4>1 DEF n
      <4> QED
        BY <1>2, <3>2, <4>1, <4>2 DEF Reads
    <3>3. CASE x # k /\ \A i \in 1 .. n : vec[i].key # x
      <4>1. \A i \in 1 .. Len(vec') : vec'[i].key # x
        BY <2>1, <2>4, <3>3
      <4> QED
        BY <1>2, <2>6, <3>3, <4>1 DEF Reads
    <3> QED
      BY <3>1, <3>2, <3>3
  <2>10. Value' = [Value EXCEPT ![k] = v]
    BY <1>2, <2>9 DEF Reads
  <2>11. k \notin Ordered!Present
    BY <2>5 DEF Ordered!Present
  <2> QED
    BY <1>3, <2>8, <2>10, <2>11 DEF Ordered!Insert
<1> QED
  BY <1>5, <1>6

(* remove() keeps the order of the other keys. *)
LEMMA RemoveRemoves ==
    ASSUME Distinct, Distinct', NEW k \in Keys, Remove(k)
    PROVE  Ordered!Remove(k)
<1>1. vec \in Seq(Pairs) /\ KeysUnique /\ Find(k) \in 0 .. Len(vec)
  BY FindIs DEF Distinct, Vectors
<1>2. Reads /\ Reads'
  BY ReadsIs, ReadsAfter
<1>3. ret' = Value[k]
  BY DEF Remove, Value
<1>4. CASE Find(k) = 0
  <2>1. vec' = vec /\ \A i \in 1 .. Len(vec) : vec[i].key # k
    BY <1>1, <1>4, FindIs DEF Remove, Vectors
  <2>2. Value[k] = None
    BY <1>2, <2>1 DEF Reads
  <2>3. Value' = Value /\ Before' = Before
    BY <2>1, SameIs
  <2>4. Value' = [Value EXCEPT ![k] = None]
    BY <1>2, <2>2, <2>3 DEF Reads
  <2>5. ASSUME NEW x \in Keys, NEW y \in Keys, << x, y >> \in Before PROVE x # k /\ y # k
    <3>1. PICK i \in 1 .. Len(vec), j \in 1 .. Len(vec) : vec[i].key = x /\ vec[j].key = y
      BY <1>2, <2>5 DEF Reads
    <3> QED
      BY <2>1, <3>1
  <2>6. ASSUME NEW pair \in Before PROVE k \notin {pair[1], pair[2]}
    <3>1. pair = << pair[1], pair[2] >> /\ pair[1] \in Keys /\ pair[2] \in Keys
      BY <1>2 DEF Reads
    <3> QED
      BY <2>5, <3>1
  <2> QED
    BY <1>3, <2>3, <2>4, <2>6 DEF Ordered!Remove
<1>5. CASE Find(k) # 0
  <2> DEFINE f == Find(k)
             n == Len(vec)
  <2>1. f \in 1 .. n /\ vec[f].key = k
    BY <1>1, <1>5, FindIs DEF Vectors
  <2>2. vec' = SX!RemoveAt(vec, f)
    BY <1>5 DEF Remove
  <2> HIDE DEF f
  <2>3. /\ n \in Nat /\ Len(vec') = n - 1
        /\ \A i \in 1 .. n - 1 : Behind(f, i) \in 1 .. n /\ vec'[i] = vec[Behind(f, i)]
    <3>1. f \in 1 .. Len(vec)
      BY <2>1
    <3>2. /\ Len(vec') = Len(vec) - 1 /\ Len(vec) \in Nat
          /\ \A i \in 1 .. Len(vec) - 1 :
                 Behind(f, i) \in 1 .. Len(vec) /\ vec'[i] = vec[Behind(f, i)]
      <4> HIDE DEF n
      <4>1. /\ Len(SX!RemoveAt(vec, f)) = Len(vec) - 1
            /\ \A i \in 1 .. Len(vec) - 1 :
                   Behind(f, i) \in 1 .. Len(vec) /\ SX!RemoveAt(vec, f)[i] = vec[Behind(f, i)]
        BY <1>1, <3>1, RemovedIs
      <4>2. Len(vec) \in Nat
        BY <1>1
      <4> QED
        BY <2>2, <4>1, <4>2
    <3> QED
      BY <3>2
  <2>4. ASSUME NEW j \in 1 .. n
        PROVE  vec[j].key = k <=> j = f
    BY <1>1, <2>1 DEF KeysUnique
  <2>5. ASSUME NEW j \in 1 .. n, j # f
        PROVE  \E i \in 1 .. n - 1 : Behind(f, i) = j /\ vec'[i] = vec[j]
    <3>1. CASE j < f
      <4>1. j \in 1 .. n - 1 /\ Behind(f, j) = j
        BY <2>1, <2>3, <3>1 DEF Behind
      <4> QED
        BY <2>3, <4>1
    <3>2. CASE j > f
      <4>1. j - 1 \in 1 .. n - 1 /\ Behind(f, j - 1) = j
        BY <2>1, <2>3, <3>2 DEF Behind
      <4> QED
        BY <2>3, <4>1
    <3> QED
      BY <2>1, <2>3, <2>5, <3>1, <3>2
  <2>6. ASSUME NEW i \in 1 .. n - 1 PROVE Behind(f, i) # f
    BY <2>1, <2>3 DEF Behind
  <2>7. ASSUME NEW i \in 1 .. n - 1, NEW j \in 1 .. n - 1
        PROVE  i < j <=> Behind(f, i) < Behind(f, j)
    BY <2>1, <2>3 DEF Behind
  <2> HIDE DEF n
  <2>8. ASSUME NEW x \in Keys PROVE Value'[x] = IF x = k THEN None ELSE Value[x]
    <3>1. CASE x = k
      <4>1. \A i \in 1 .. Len(vec') : vec'[i].key # k
        BY <2>3, <2>4, <2>6
      <4> QED
        BY <1>2, <3>1, <4>1 DEF Reads
    <3>2. CASE x # k /\ \E j \in 1 .. n : vec[j].key = x
      <4>1. PICK j \in 1 .. n : vec[j].key = x
        BY <3>2
      <4>2. PICK i \in 1 .. n - 1 : vec'[i] = vec[j]
        BY <2>4, <2>5, <3>2, <4>1
      <4>3. Value[x] = vec[j].value
        BY <1>2, <4>1 DEF Reads, n
      <4>4. Value'[x] = vec'[i].value
        BY <1>2, <2>3, <4>1, <4>2 DEF Reads
      <4> QED
        BY <3>2, <4>2, <4>3, <4>4
    <3>3. CASE x # k /\ \A j \in 1 .. n : vec[j].key # x
      <4>1. \A i \in 1 .. Len(vec') : vec'[i].key # x
        BY <2>3, <3>3
      <4> QED
        BY <1>2, <3>3, <4>1 DEF Reads, n
    <3> QED
      BY <3>1, <3>2, <3>3
  <2>9. Value' = [Value EXCEPT ![k] = None]
    BY <1>2, <2>8 DEF Reads
  <2>10. ASSUME NEW x \in Keys, NEW y \in Keys
         PROVE  << x, y >> \in Before' <=> << x, y >> \in Before /\ k \notin {x, y}
    <3>1. << x, y >> \in Before <=> \E i, j \in 1 .. n : i < j /\ vec[i].key = x /\ vec[j].key = y
      BY <1>2 DEF Reads, n
    <3>2. << x, y >> \in Before' <=>
              \E i, j \in 1 .. n - 1 : i < j /\ vec'[i].key = x /\ vec'[j].key = y
      BY <1>2, <2>3 DEF Reads
    <3>3. ASSUME << x, y >> \in Before' PROVE << x, y >> \in Before /\ k \notin {x, y}
      <4>1. PICK i \in 1 .. n - 1, j \in 1 .. n - 1 : i < j /\ vec'[i].key = x /\ vec'[j].key = y
        BY <3>2, <3>3
      <4>2. /\ Behind(f, i) \in 1 .. n /\ Behind(f, j) \in 1 .. n
            /\ Behind(f, i) < Behind(f, j)
            /\ vec[Behind(f, i)].key = x /\ vec[Behind(f, j)].key = y
        BY <2>3, <2>7, <4>1
      <4>3. k # x /\ k # y
        BY <2>4, <2>6, <4>2
      <4> QED
        BY <3>1, <4>2, <4>3
    <3>4. ASSUME << x, y >> \in Before, k \notin {x, y} PROVE << x, y >> \in Before'
      <4>1. PICK i \in 1 .. n, j \in 1 .. n : i < j /\ vec[i].key = x /\ vec[j].key = y
        BY <3>1, <3>4
      <4>2. PICK g \in 1 .. n - 1 : Behind(f, g) = i /\ vec'[g] = vec[i]
        BY <2>4, <2>5, <3>4, <4>1
      <4>3. PICK h \in 1 .. n - 1 : Behind(f, h) = j /\ vec'[h] = vec[j]
        BY <2>4, <2>5, <3>4, <4>1
      <4>4. g < h
        BY <2>7, <4>1, <4>2, <4>3
      <4> QED
        BY <3>2, <4>1, <4>2, <4>3, <4>4
    <3> QED
      BY <3>3, <3>4
  <2>11. Before' = {pair \in Before : k \notin {pair[1], pair[2]}}
    <3>1. Before \subseteq Keys \X Keys /\ Before' \subseteq Keys \X Keys
      BY <1>2 DEF Reads
    <3>2. ASSUME NEW pair \in Keys \X Keys
          PROVE  pair \in Before' <=> pair \in Before /\ k \notin {pair[1], pair[2]}
      <4>1. pair = << pair[1], pair[2] >> /\ pair[1] \in Keys /\ pair[2] \in Keys
        OBVIOUS
      <4> QED
        BY <2>10, <4>1
    <3> QED
      BY <3>1, <3>2
  <2> QED
    BY <1>3, <2>9, <2>11 DEF Ordered!Remove
<1> QED
  BY <1>4, <1>5

(* The vector is the ordered map, results included (VecMap, all of its     *)
(* operations): the handler, which runs values() in order, runs the        *)
(* actions in the order of their registration.                             *)
THEOREM Implements == Spec => ImplementsOrderedMap
<1>1. Init => Ordered!Init
  BY EmptyIs DEF Init, Ordered!Init
<1>2. Distinct /\ Distinct' /\ [Next]_vars => [Ordered!Next]_(Ordered!vars)
  <2> SUFFICES ASSUME Distinct, Distinct', [Next]_vars
               PROVE  [Ordered!Next]_(Ordered!vars)
    OBVIOUS
  <2>1. ASSUME NEW k \in Keys, Remove(k) PROVE Ordered!Next
    BY <2>1, RemoveRemoves DEF Ordered!Next
  <2>2. ASSUME NEW k \in Keys, NEW v \in Values, Insert(k, v) PROVE Ordered!Next
    BY <2>2, InsertInserts DEF Ordered!Next
  <2>3. CASE Clear
    BY <2>3, EmptyAfter DEF Clear, Ordered!Clear, Ordered!Next
  <2>4. CASE UNCHANGED vars
    BY <2>4, SameIs DEF vars, Ordered!vars
  <2> QED
    BY <2>1, <2>2, <2>3, <2>4 DEF Next
<1> QED
  BY <1>1, <1>2, Invariance, PTL DEF Spec, ImplementsOrderedMap, Ordered!Spec
=============================================================================
