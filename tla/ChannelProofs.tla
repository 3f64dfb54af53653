--------------------------- MODULE ChannelProofs ----------------------------
(***************************************************************************)
(* The channel neither loses nor shares a slot, does not panic, drops only *)
(* what it may and is a first-in first-out queue, for any number of slots, *)
(* senders, receivers and values.  First come the words: what get() and    *)
(* set() do to the places of a number, and from that what enqueue() and    *)
(* dequeue() do to the queue it stands for.  Then the invariant, where     *)
(* only those facts are used, and last what follows from it.               *)
(***************************************************************************)
EXTENDS Channel, WellFoundedInduction, FunctionTheorems, FiniteSetTheorems,
        SequenceTheorems, TLAPS

-----------------------------------------------------------------------------
(* Numbers. *)

(* The least number of a set: the form in which induction is used here.    *)
LEMMA Least ==
    ASSUME NEW I \in SUBSET Nat, I # {}
    PROVE  \E n \in I : \A m \in I : n <= m
<1> DEFINE Less == {ss \in Nat \X Nat : ss[1] < ss[2]}
<1>1. IsWellFoundedOn(Less, Nat)
  BY NatLessThanWellFounded DEF OpToRel
<1>2. PICK n \in I : \A m \in I : << m, n >> \notin Less
  <2> HIDE DEF Less
  <2> QED
    BY <1>1, WFMin
<1>3. ASSUME NEW m \in I PROVE n <= m
  <2>1. m \in Nat /\ n \in Nat
    OBVIOUS
  <2>2. << m, n >> \notin Less
    BY <1>2
  <2> QED
    BY <2>1, <2>2
<1> QED
  BY <1>3

(* A place has room for the number of any slot. *)
LEMMA BaseIs == BASE \in Nat /\ BASE > SLOTS /\ BASE > 1
<1>1. 2 ^ BITS \in Int
  BY SlotsAssumption
<1> QED
  BY <1>1, SlotsAssumption DEF BASE

(* Quotient and remainder. *)
LEMMA DivIs ==
    ASSUME NEW a \in Nat, NEW b \in Nat \ {0}
    PROVE  a \div b \in Nat /\ a % b \in 0 .. b - 1 /\ a = b * (a \div b) + (a % b)
OBVIOUS

(* They are known from how the number is made up. *)
LEMMA DivUnique ==
    ASSUME NEW q \in Int, NEW b \in Nat \ {0}, NEW r \in 0 .. b - 1
    PROVE  (b * q + r) \div b = q /\ (b * q + r) % b = r
OBVIOUS

(* Two shifts are one. *)
LEMMA DivDiv ==
    ASSUME NEW a \in Nat, NEW b \in Nat \ {0}, NEW c \in Nat \ {0}
    PROVE  (a \div b) \div c = a \div (b * c)
OBVIOUS

(* What is above a place does not show in it. *)
LEMMA ModIs ==
    ASSUME NEW k \in Int, NEW b \in Nat \ {0}, NEW h \in Int
    PROVE  (k + b * h) % b = k % b
<1>1. k = b * (k \div b) + (k % b) /\ k \div b \in Int /\ k % b \in 0 .. b - 1
  OBVIOUS
<1> DEFINE a == k \div b
           c == k % b
<1> HIDE DEF a, c
<1>2. k = b * a + c /\ a \in Int /\ c \in 0 .. b - 1
  BY <1>1 DEF a, c
<1>3. k + b * h = b * (a + h) + c /\ a + h \in Int
  BY <1>2
<1>4. (b * (a + h) + c) % b = c
  BY <1>2, <1>3, DivUnique
<1> QED
  BY <1>3, <1>4 DEF c

(* The function that Weight is. *)
LEMMA WeightIs ==
    /\ Weight \in [0 .. SLOTS -> Nat \ {0}]
    /\ Weight[0] = 1
    /\ \A i \in Places : Weight[i + 1] = BASE * Weight[i]
<1> DEFINE Def(f, n) == f = [i \in 0 .. n |-> IF i = 0 THEN 1 ELSE BASE * f[i - 1]]
           Bad == {n \in Nat : ~ \E f : Def(f, n)}
<1>1. Bad = {}
  <2>1. SUFFICES ASSUME Bad # {} PROVE FALSE
    OBVIOUS
  <2>2. PICK n \in Bad : \A m \in Bad : n <= m
    BY <2>1, Least
  <2>3. n # 0
    <3>1. Def([i \in 0 .. 0 |-> 1], 0)
      OBVIOUS
    <3> QED
      BY <3>1
  <2>4. n - 1 \in Nat /\ n - 1 \notin Bad
    <3> HIDE DEF Def
    <3> QED
      BY <2>2, <2>3
  <2>5. PICK f : Def(f, n - 1)
    BY <2>4
  <2> DEFINE g == [i \in 0 .. n |-> IF i = n THEN BASE * f[n - 1] ELSE f[i]]
  <2>6. ASSUME NEW i \in 0 .. n PROVE g[i] = IF i = 0 THEN 1 ELSE BASE * g[i - 1]
    BY <2>4, <2>5
  <2>7. Def(g, n)
    BY <2>6
  <2> QED
    BY <2>7
<1>2. SLOTS \in Nat
  BY SlotsAssumption
<1>3. \E f : Def(f, SLOTS)
  BY <1>1, <1>2
<1>4. Def(Weight, SLOTS)
  BY <1>3 DEF Weight
<1>5. DOMAIN Weight = 0 .. SLOTS /\ Weight = [i \in DOMAIN Weight |-> Weight[i]]
  BY <1>4
<1>6. /\ Weight[0] = 1
      /\ \A i \in Places : Weight[i + 1] = BASE * Weight[i]
  BY <1>2, <1>4 DEF Places
<1> DEFINE Wrong == {i \in 0 .. SLOTS : Weight[i] \notin Nat \ {0}}
<1>7. Wrong = {}
  <2>1. SUFFICES ASSUME Wrong # {} PROVE FALSE
    OBVIOUS
  <2>2. PICK i \in Wrong : \A j \in Wrong : i <= j
    <3>1. Wrong \in SUBSET Nat
      BY <1>2
    <3> HIDE DEF Wrong
    <3> QED
      BY <2>1, <3>1, Least
  <2>3. i # 0
    BY <1>6
  <2>4. i - 1 \in Places /\ i - 1 \notin Wrong
    BY <1>2, <2>2, <2>3 DEF Places
  <2>5. Weight[i - 1] \in Nat \ {0} /\ Weight[i] = BASE * Weight[i - 1]
    BY <1>2, <1>6, <2>4 DEF Places
  <2> QED
    BY <2>5, BaseIs
<1> QED
  BY <1>5, <1>6, <1>7

(* The weights are the powers of the base. *)
LEMMA WeightSum ==
    ASSUME NEW i \in 0 .. SLOTS, NEW j \in 0 .. SLOTS - i
    PROVE  Weight[i + j] = Weight[i] * Weight[j]
<1> USE SlotsAssumption DEF Places
<1> DEFINE Wrong == {k \in 0 .. SLOTS - i : Weight[i + k] # Weight[i] * Weight[k]}
<1>1. Wrong = {}
  <2>1. SUFFICES ASSUME Wrong # {} PROVE FALSE
    OBVIOUS
  <2>2. PICK k \in Wrong : \A m \in Wrong : k <= m
    <3>1. Wrong \in SUBSET Nat
      OBVIOUS
    <3> HIDE DEF Wrong
    <3> QED
      BY <2>1, <3>1, Least
  <2>3. k # 0
    BY WeightIs
  <2> DEFINE m == k - 1
  <2>4. m \in 0 .. SLOTS - i /\ m \in Places /\ i + m \in Places /\ m \notin Wrong
    BY <2>2, <2>3
  <2>5. Weight[i + m] = Weight[i] * Weight[m]
    BY <2>4
  <2>6. Weight[m + 1] = BASE * Weight[m] /\ Weight[(i + m) + 1] = BASE * Weight[i + m]
    BY <2>4, WeightIs
  <2>7. m + 1 = k /\ (i + m) + 1 = i + k
    BY <2>2
  <2>8. Weight[k] = BASE * Weight[m] /\ Weight[i + k] = BASE * Weight[i + m]
    BY <2>6, <2>7
  <2>9. Weight[i] \in Nat /\ Weight[m] \in Nat /\ BASE \in Nat
    BY <2>4, WeightIs, BaseIs
  <2> HIDE DEF m
  <2>10. Weight[i + k] = Weight[i] * Weight[k]
    BY <2>5, <2>8, <2>9
  <2> QED
    BY <2>10
<1> QED
  BY <1>1

-----------------------------------------------------------------------------
(* Words. *)

(* The places of a word. *)
LEMMA GetIs ==
    ASSUME NEW n \in Nat, NEW i \in 0 .. SLOTS
    PROVE  Get(n, i) \in 0 .. BASE - 1
<1>1. Weight[i] \in Nat \ {0} /\ BASE \in Nat \ {0}
  BY WeightIs, BaseIs
<1>2. n \div Weight[i] \in Nat
  BY <1>1, DivIs
<1> QED
  BY <1>1, <1>2, DivIs DEF Get

(* Nothing is at a place and behind it in a number that is small enough.   *)
LEMMA NothingBehind ==
    ASSUME NEW i \in 0 .. SLOTS, NEW n \in 0 .. Weight[i] - 1
    PROVE  n \div Weight[i] = 0
<1>1. Weight[i] \in Nat \ {0}
  BY WeightIs
<1>2. (Weight[i] * 0 + n) \div Weight[i] = 0
  BY <1>1, DivUnique
<1> QED
  BY <1>1, <1>2

(* dequeue() moves each place one down. *)
LEMMA GetDown ==
    ASSUME NEW n \in Words, NEW i \in Places
    PROVE  Get(n \div BASE, i) = IF i = SLOTS - 1 THEN 0 ELSE Get(n, i + 1)
<1>1. n \in Nat /\ i \in 0 .. SLOTS /\ i + 1 \in 0 .. SLOTS
  BY SlotsAssumption, WeightIs DEF Words, Places
<1>2. Weight[i] \in Nat \ {0} /\ BASE \in Nat \ {0} /\ Weight[i + 1] = BASE * Weight[i]
  BY <1>1, WeightIs, BaseIs
<1>3. (n \div BASE) \div Weight[i] = n \div Weight[i + 1]
  BY <1>1, <1>2, DivDiv
<1>4. Get(n \div BASE, i) = Get(n, i + 1)
  BY <1>3 DEF Get
<1>5. CASE i = SLOTS - 1
  <2>1. n \div Weight[i + 1] = 0
    BY <1>1, <1>5, SlotsAssumption, NothingBehind DEF Words
  <2> QED
    BY <1>2, <1>3, <1>5, <2>1 DEF Get
<1> QED
  BY <1>4, <1>5

(* A number is what is behind a place, what is at it, and what is before.  *)
LEMMA Parts ==
    ASSUME NEW n \in Nat, NEW i \in Places
    PROVE  \E q \in Nat, r \in 0 .. Weight[i] - 1 :
              /\ n = Weight[i + 1] * q + (Weight[i] * Get(n, i) + r)
              /\ q = n \div Weight[i + 1]
<1> DEFINE w == Weight[i]
           k == n \div w
           r == n % w
           q == k \div BASE
           d == k % BASE
<1>1. /\ w \in Nat \ {0} /\ BASE \in Nat \ {0}
      /\ Weight[i + 1] = BASE * w
  BY SlotsAssumption, WeightIs, BaseIs DEF Places
<1>2. k \in Nat /\ r \in 0 .. w - 1 /\ n = w * k + r
  BY <1>1, DivIs
<1>3. q \in Nat /\ d \in 0 .. BASE - 1 /\ k = BASE * q + d
  BY <1>1, <1>2, DivIs
<1>4. q = n \div Weight[i + 1]
  <2>1. (n \div w) \div BASE = n \div (w * BASE)
    BY <1>1, DivDiv
  <2> QED
    BY <1>1, <2>1
<1>5. d = Get(n, i)
  BY DEF Get
<1> HIDE DEF w, k, r, q, d
<1>6. n = (BASE * w) * q + (w * d + r)
  BY <1>1, <1>2, <1>3
<1> QED
  BY <1>1, <1>2, <1>3, <1>4, <1>5, <1>6 DEF w

(* set() writes one place and leaves the others. *)
LEMMA SetIs ==
    ASSUME NEW n \in Words, NEW i \in Places, NEW v \in 0 .. BASE - 1
    PROVE  /\ Set(n, i, v) \in Words
           /\ \A j \in Places : Get(Set(n, i, v), j) = IF j = i THEN v ELSE Get(n, j)
<1> DEFINE w == Weight[i]
           m == Set(n, i, v)
           d == Get(n, i)
<1>1. /\ w \in Nat \ {0} /\ BASE \in Nat \ {0} /\ SLOTS \in Nat
      /\ Weight[i + 1] = BASE * w /\ Weight[SLOTS] \in Nat
      /\ i \in 0 .. SLOTS /\ i + 1 \in 0 .. SLOTS
  BY SlotsAssumption, WeightIs, BaseIs DEF Places
<1>2. n \in Nat /\ n < Weight[SLOTS]
  BY <1>1 DEF Words
<1>3. d \in 0 .. BASE - 1
  BY <1>1, <1>2, GetIs
<1>4. PICK q \in Nat, r \in 0 .. w - 1 :
         /\ n = Weight[i + 1] * q + (w * d + r)
         /\ q = n \div Weight[i + 1]
  BY <1>2, Parts
<1>5. m = n - d * w + v * w
  BY DEF Set
<1> HIDE DEF w, m, d
<1>6. v \in Nat /\ d \in Nat /\ r \in Nat
  BY <1>1, <1>3, <1>4
<1>7. m = (BASE * w) * q + (w * v + r) /\ m = w * (v + BASE * q) + r
  <2> DEFINE Q == (BASE * w) * q
             D == w * d
             V == w * v
  <2>1. n = Q + (D + r)
    BY <1>1, <1>4
  <2>2. Q \in Int /\ D \in Int /\ V \in Int /\ r \in Int
    BY <1>1, <1>4, <1>6
  <2>3. d * w = D /\ v * w = V
    BY <1>1, <1>6
  <2>4. w * (v + BASE * q) = V + Q
    <3> DEFINE x == BASE * q
    <3>1. w \in Int /\ v \in Int /\ x \in Int
      BY <1>1, <1>4, <1>6
    <3>2. w * x = Q
      BY <1>1, <1>4
    <3> HIDE DEF x, Q
    <3>3. w * (v + x) = w * v + w * x
      BY <3>1
    <3> QED
      BY <3>2, <3>3 DEF x
  <2> HIDE DEF Q, D, V
  <2>5. m = Q + (V + r) /\ m = (V + Q) + r
    BY <1>5, <2>1, <2>2, <2>3
  <2>6. m = w * (v + BASE * q) + r
    BY <2>4, <2>5
  <2> QED
    BY <2>5, <2>6 DEF Q, V
<1>8. w * v + r \in 0 .. BASE * w - 1
  <2>1. v <= BASE - 1 /\ r < w
    BY <1>1, <1>4
  <2>2. w * v <= w * (BASE - 1)
    BY <1>1, <1>6, <2>1
  <2>3. w * v + r < w * (BASE - 1) + w /\ w * v + r \in Nat
    BY <1>1, <1>6, <2>1, <2>2
  <2> QED
    BY <1>1, <2>3
<1>9. m \in Nat
  BY <1>1, <1>4, <1>7, <1>8
<1>10. m \div (BASE * w) = q
  <2>1. BASE * w \in Nat \ {0}
    BY <1>1
  <2> DEFINE b == BASE * w
             e == w * v + r
  <2> HIDE DEF b, e
  <2>2. (b * q + e) \div b = q
    BY <1>4, <1>8, <2>1, DivUnique DEF b, e
  <2> QED
    BY <1>7, <2>2 DEF b, e
<1>11. ASSUME NEW j \in i + 1 .. SLOTS PROVE m \div Weight[j] = n \div Weight[j]
  <2>1. j - (i + 1) \in 0 .. SLOTS - (i + 1) /\ (i + 1) + (j - (i + 1)) = j /\ j - (i + 1) \in 0 .. SLOTS
    BY <1>1
  <2>2. Weight[j] = (BASE * w) * Weight[j - (i + 1)]
    BY <1>1, <2>1, WeightSum
  <2>3. Weight[j - (i + 1)] \in Nat \ {0} /\ BASE * w \in Nat \ {0}
    BY <1>1, <2>1, WeightIs
  <2>4. m \div Weight[j] = (m \div (BASE * w)) \div Weight[j - (i + 1)]
    BY <1>9, <2>2, <2>3, DivDiv
  <2>5. n \div Weight[j] = (n \div (BASE * w)) \div Weight[j - (i + 1)]
    BY <1>2, <2>2, <2>3, DivDiv
  <2> QED
    BY <1>1, <1>4, <1>10, <2>4, <2>5
<1>12. m \in Words
  <2>1. n \div Weight[SLOTS] = 0
    BY <1>1, <1>2, NothingBehind DEF Words
  <2>2. m \div Weight[SLOTS] = 0
    BY <1>1, <1>11, <2>1
  <2>3. Weight[SLOTS] \in Nat \ {0}
    BY <1>1, WeightIs
  <2>4. m % Weight[SLOTS] \in 0 .. Weight[SLOTS] - 1 /\ m = Weight[SLOTS] * 0 + (m % Weight[SLOTS])
    BY <1>9, <2>2, <2>3, DivIs
  <2> QED
    BY <2>3, <2>4 DEF Words
<1>13. ASSUME NEW j \in Places, j > i PROVE Get(m, j) = Get(n, j)
  BY <1>1, <1>11, <1>13 DEF Get, Places
<1>14. Get(m, i) = v
  <2>1. v + BASE * q \in Int
    BY <1>1, <1>4, <1>6
  <2>2. m \div w = v + BASE * q
    <3> DEFINE k == v + BASE * q
    <3> HIDE DEF k
    <3>1. (w * k + r) \div w = k
      BY <1>1, <1>4, <2>1, DivUnique DEF k
    <3> QED
      BY <1>7, <3>1 DEF k
  <2>3. (v + BASE * q) % BASE = v % BASE
    <3>1. v \in Int /\ q \in Int /\ BASE \in Nat \ {0}
      BY <1>1, <1>4, <1>6
    <3> QED
      BY <3>1, ModIs, Zenon
  <2>4. v % BASE = v
    BY <1>1
  <2> QED
    BY <2>2, <2>3, <2>4 DEF Get, w
<1>15. ASSUME NEW j \in Places, j < i PROVE Get(m, j) = Get(n, j)
  <2> DEFINE g == i - (j + 1)
             u == Weight[g]
             x == Weight[j]
             k == n \div x
             s == n % x
             h == (v - d) * u
  <2>1. j + 1 \in 0 .. SLOTS /\ g \in 0 .. SLOTS - (j + 1) /\ g \in 0 .. SLOTS /\ (j + 1) + g = i /\ j \in 0 .. SLOTS
    BY <1>1, <1>15 DEF Places
  <2>2. x \in Nat \ {0} /\ u \in Nat \ {0} /\ Weight[j + 1] = BASE * x
    BY <2>1, WeightIs
  <2>3. w = (BASE * x) * u
    <3>1. Weight[(j + 1) + g] = Weight[j + 1] * Weight[g]
      BY <2>1, WeightSum
    <3> QED
      BY <2>1, <2>2, <3>1 DEF w
  <2>4. k \in Nat /\ s \in 0 .. x - 1 /\ n = x * k + s
    BY <1>2, <2>2, DivIs
  <2>5. Get(n, j) = k % BASE
    BY DEF Get
  <2>6. Get(m, j) = (m \div x) % BASE
    BY DEF Get
  <2>7. h \in Int
    BY <1>6, <2>2
  <2> HIDE DEF g, u, x, k, s
  <2>8. m = x * (k + BASE * h) + s
    BY <1>1, <1>5, <1>6, <2>2, <2>3, <2>4
  <2> HIDE DEF h
  <2>9. m \div x = k + BASE * h
    <3>1. k + BASE * h \in Int
      BY <1>1, <2>4, <2>7
    <3> QED
      BY <2>2, <2>4, <2>8, <3>1, DivUnique
  <2>10. (k + BASE * h) % BASE = k % BASE
    <3>1. k \in Int /\ BASE \in Nat \ {0}
      BY <1>1, <2>4
    <3> QED
      BY <2>7, <3>1, ModIs, Zenon
  <2> QED
    BY <2>5, <2>6, <2>9, <2>10
<1> QED
  <2>1. ASSUME NEW j \in Places PROVE Get(m, j) = IF j = i THEN v ELSE Get(n, j)
    BY <1>1, <1>13, <1>14, <1>15 DEF Places
  <2> QED
    BY <1>12, <2>1 DEF m

(* The bounds of the places, without the bits. *)
LEMMA PlacesAre ==
    SLOTS \in Nat \ {0} /\ SLOTS < BASE /\ BASE \in Nat /\ Places \in SUBSET Nat
BY SlotsAssumption, BaseIs DEF Places

(* The search of enqueue() stops at the least vacant place. *)
LEMMA FirstVacantIs ==
    ASSUME NEW n, Vacant(n) # {}
    PROVE  FirstVacant(n) \in Vacant(n) /\ \A j \in Vacant(n) : FirstVacant(n) <= j
<1>1. Vacant(n) \in SUBSET Nat
  BY PlacesAre DEF Vacant
<1>2. \E i \in Vacant(n) : \A j \in Vacant(n) : i <= j
  BY <1>1, Least
<1> QED
  BY <1>2 DEF FirstVacant

(* A packed word holds something in its first places and nowhere else.     *)
LEMMA UsedIs ==
    ASSUME NEW n, Packed(n)
    PROVE  /\ Used(n) \in 0 .. SLOTS
           /\ Used(n) = SLOTS <=> Vacant(n) = {}
           /\ \A i \in Places : Get(n, i) # 0 <=> i < Used(n)
<1>1. CASE Vacant(n) = {}
  BY <1>1, PlacesAre DEF Used, Vacant, Places
<1>2. CASE Vacant(n) # {}
  <2> DEFINE u == FirstVacant(n)
  <2>1. u \in Places /\ Get(n, u) = 0 /\ \A j \in Vacant(n) : u <= j
    BY <1>2, FirstVacantIs DEF Vacant
  <2>2. Used(n) = u
    BY <1>2 DEF Used
  <2> HIDE DEF u
  <2>3. ASSUME NEW i \in Places PROVE Get(n, i) # 0 <=> i < u
    <3>1. CASE i < u
      <4>1. i \notin Vacant(n)
        BY <2>1, <3>1, PlacesAre DEF Places
      <4> QED
        BY <3>1, <4>1 DEF Vacant
    <3>2. CASE i = u
      BY <2>1, <3>2, PlacesAre DEF Places
    <3>3. CASE u < i
      BY <2>1, <3>3, PlacesAre DEF Packed, Places
    <3> QED
      BY <2>1, <3>1, <3>2, <3>3, PlacesAre DEF Places
  <2> QED
    BY <1>2, <2>1, <2>2, <2>3, PlacesAre DEF Places
<1> QED
  BY <1>1, <1>2

(* Nothing else tells how much of a packed word is used. *)
LEMMA UsedUnique ==
    ASSUME NEW n, Packed(n), NEW u \in 0 .. SLOTS,
           \A i \in Places : Get(n, i) # 0 <=> i < u
    PROVE  Used(n) = u
<1>1. Used(n) \in 0 .. SLOTS /\ \A i \in Places : i < Used(n) <=> i < u
  BY UsedIs
<1>2. ~ Used(n) < u
  <2>1. SUFFICES ASSUME Used(n) < u PROVE FALSE
    OBVIOUS
  <2>2. Used(n) \in Places
    BY <1>1, <2>1, PlacesAre DEF Places
  <2> QED
    BY <1>1, <2>1, <2>2
<1>3. ~ u < Used(n)
  <2>1. SUFFICES ASSUME u < Used(n) PROVE FALSE
    OBVIOUS
  <2>2. u \in Places
    BY <1>1, <2>1, PlacesAre DEF Places
  <2> QED
    BY <1>1, <2>1, <2>2
<1> QED
  BY <1>1, <1>2, <1>3, PlacesAre

(* The queue of a packed word. *)
LEMMA QueueIs ==
    ASSUME NEW n, Packed(n)
    PROVE  /\ Queue[n] = [i \in 1 .. Used(n) |-> Get(n, i - 1)]
           /\ \A i \in 1 .. Used(n) : i - 1 \in Places /\ Get(n, i - 1) \in SlotIds
           /\ Queue[n] \in Seq(SlotIds)
           /\ Len(Queue[n]) = Used(n)
           /\ In(n) = {Queue[n][i] : i \in 1 .. Used(n)}
<1>1. Queue[n] = [i \in 1 .. Used(n) |-> Get(n, i - 1)]
  BY DEF Packed, Queue
<1>2. Used(n) \in 0 .. SLOTS /\ \A i \in Places : Get(n, i) # 0 <=> i < Used(n)
  BY UsedIs
<1>3. ASSUME NEW i \in 1 .. Used(n) PROVE i - 1 \in Places /\ Get(n, i - 1) \in SlotIds
  <2>1. i - 1 \in Places /\ i - 1 < Used(n)
    BY <1>2, PlacesAre DEF Places
  <2> QED
    BY <1>2, <2>1, PlacesAre DEF Packed, SlotIds
<1>4. Used(n) \in Nat
  BY <1>2, PlacesAre
<1>5. Queue[n] \in Seq(SlotIds) /\ Len(Queue[n]) = Used(n)
  BY <1>1, <1>3, <1>4
<1>6. ASSUME NEW s \in In(n) PROVE s \in {Queue[n][i] : i \in 1 .. Used(n)}
  <2>1. PICK i \in Places : Get(n, i) = s /\ s # 0
    BY DEF In
  <2>2. i + 1 \in 1 .. Used(n) /\ (i + 1) - 1 = i
    BY <1>2, <2>1, PlacesAre DEF Places
  <2>3. Queue[n][i + 1] = s
    BY <1>1, <2>1, <2>2
  <2> QED
    BY <2>2, <2>3
<1>7. ASSUME NEW i \in 1 .. Used(n) PROVE Queue[n][i] \in In(n)
  <2>1. Queue[n][i] = Get(n, i - 1) /\ i - 1 \in Places /\ Get(n, i - 1) \in SlotIds
    BY <1>1, <1>3
  <2> QED
    BY <2>1, PlacesAre DEF In, SlotIds
<1> QED
  BY <1>1, <1>3, <1>5, <1>6, <1>7

(* enqueue() puts a slot that the word does not hold behind the others.    *)
LEMMA EnqueuedIs ==
    ASSUME NEW n, Packed(n), Vacant(n) # {}, NEW v \in SlotIds, v \notin In(n)
    PROVE  /\ Packed(Enqueued(n, v))
           /\ In(Enqueued(n, v)) = In(n) \cup {v}
           /\ Queue[Enqueued(n, v)] = Append(Queue[n], v)
<1> DEFINE u == FirstVacant(n)
           m == Enqueued(n, v)
<1>1. u \in Places /\ Get(n, u) = 0 /\ Used(n) = u
  BY FirstVacantIs DEF Vacant, Used
<1>2. n \in Words /\ v \in 0 .. BASE - 1 /\ v # 0
  BY PlacesAre DEF Packed, SlotIds
<1>3. /\ m \in Words
      /\ \A j \in Places : Get(m, j) = IF j = u THEN v ELSE Get(n, j)
  BY <1>1, <1>2, SetIs DEF Enqueued
<1>4. \A i \in Places : Get(n, i) # 0 <=> i < u
  BY <1>1, UsedIs
<1> HIDE DEF u, m
<1>5. \A j \in Places : Get(n, j) # v
  BY <1>2 DEF In
<1>6. Packed(m)
  <2>1. \A i \in Places : Get(m, i) \in 0 .. SLOTS
    BY <1>3, PlacesAre DEF Packed, SlotIds
  <2>2. ASSUME NEW i \in Places, NEW j \in Places, i < j, Get(m, i) = 0
        PROVE  Get(m, j) = 0
    BY <1>1, <1>2, <1>3, <1>4, <2>2, PlacesAre DEF Places
  <2>3. ASSUME NEW i \in Places, NEW j \in Places, Get(m, i) = Get(m, j), Get(m, i) # 0
        PROVE  i = j
    BY <1>1, <1>2, <1>3, <1>5, <2>3 DEF Packed
  <2> QED
    BY <1>3, <2>1, <2>2, <2>3 DEF Packed
<1>7. In(m) = In(n) \cup {v}
  <2>1. ASSUME NEW s \in In(m) PROVE s \in In(n) \cup {v}
    BY <1>3 DEF In
  <2>2. v \in In(m)
    BY <1>1, <1>2, <1>3 DEF In
  <2>3. ASSUME NEW s \in In(n) PROVE s \in In(m)
    BY <1>1, <1>3 DEF In
  <2> QED
    BY <2>1, <2>2, <2>3
<1>8. u \in Nat /\ u + 1 \in 0 .. SLOTS
  BY <1>1, PlacesAre DEF Places
<1>9. Used(m) = u + 1
  <2>1. \A i \in Places : Get(m, i) # 0 <=> i < u + 1
    BY <1>1, <1>2, <1>3, <1>4, PlacesAre DEF Places
  <2> QED
    BY <1>6, <1>8, <2>1, UsedUnique
<1>10. Queue[m] = Append(Queue[n], v)
  <2>1. Queue[m] = [i \in 1 .. u + 1 |-> Get(m, i - 1)] /\ Queue[m] \in Seq(SlotIds) /\ Len(Queue[m]) = u + 1
    BY <1>6, <1>9, QueueIs
  <2>2. Queue[n] = [i \in 1 .. u |-> Get(n, i - 1)] /\ Queue[n] \in Seq(SlotIds) /\ Len(Queue[n]) = u
    BY <1>1, QueueIs
  <2> DEFINE q == Append(Queue[n], v)
  <2>3. /\ q \in Seq(SlotIds) /\ Len(q) = u + 1
        /\ \A i \in 1 .. u : q[i] = Queue[n][i]
        /\ q[u + 1] = v
    <3>1. /\ q \in Seq(SlotIds) /\ Len(q) = Len(Queue[n]) + 1
          /\ \A i \in 1 .. Len(Queue[n]) : q[i] = Queue[n][i]
          /\ q[Len(Queue[n]) + 1] = v
      <4> DEFINE r == Queue[n]
      <4>1. r \in Seq(SlotIds) /\ q = Append(r, v)
        BY <2>2
      <4> HIDE DEF r, q
      <4>2. /\ q \in Seq(SlotIds) /\ Len(q) = Len(r) + 1
            /\ \A i \in 1 .. Len(r) : q[i] = r[i]
            /\ q[Len(r) + 1] = v
        BY <4>1, AppendProperties
      <4> QED
        BY <4>2 DEF r
    <3> QED
      BY <2>2, <3>1
  <2> HIDE DEF q
  <2>4. ASSUME NEW i \in 1 .. u + 1 PROVE Queue[m][i] = q[i]
    <3>1. i - 1 \in Places /\ Queue[m][i] = Get(m, i - 1)
      BY <1>8, <2>1, PlacesAre DEF Places
    <3>2. CASE i = u + 1
      BY <1>3, <1>8, <2>3, <3>1, <3>2
    <3>3. CASE i # u + 1
      <4>1. i \in 1 .. u /\ i - 1 # u
        BY <1>8, <3>3
      <4>2. Queue[n][i] = Get(n, i - 1)
        BY <2>2, <4>1
      <4>3. Get(m, i - 1) = Get(n, i - 1)
        BY <1>3, <3>1, <4>1
      <4> QED
        BY <2>3, <3>1, <4>1, <4>2, <4>3
    <3> QED
      BY <3>2, <3>3
  <2>5. Queue[m] = q
    BY <2>1, <2>3, <2>4, SeqEqual
  <2> QED
    BY <2>5 DEF q
<1> QED
  BY <1>6, <1>7, <1>10 DEF m

(* The first place of a word. *)
LEMMA FrontIs ==
    ASSUME NEW n \in Words
    PROVE  Front(n) = Get(n, 0) /\ 0 \in Places
<1>1. n \in Nat /\ Weight[0] = 1 /\ n \div 1 = n
  BY WeightIs, PlacesAre DEF Words
<1> QED
  BY <1>1, PlacesAre DEF Front, Get, Places

(* Nothing in the first place, nothing in the word. *)
LEMMA NothingIs ==
    ASSUME NEW n, Packed(n), Front(n) = 0
    PROVE  In(n) = {} /\ Queue[n] = << >> /\ Vacant(n) # {}
<1>1. 0 \in Places /\ Get(n, 0) = 0
  BY FrontIs DEF Packed
<1>2. \A i \in Places : Get(n, i) = 0
  BY <1>1, PlacesAre DEF Packed, Places
<1>3. Used(n) = 0
  BY <1>1, UsedIs, PlacesAre
<1>4. Queue[n] \in Seq(SlotIds) /\ Len(Queue[n]) = 0
  BY <1>3, QueueIs
<1>5. Queue[n] = << >>
  BY <1>4, EmptySeq
<1> QED
  BY <1>1, <1>2, <1>5 DEF In, Vacant

(* dequeue() takes the first slot and leaves the others in their order. *)
LEMMA DequeuedIs ==
    ASSUME NEW n, Packed(n), Front(n) # 0
    PROVE  /\ Front(n) \in In(n) /\ Front(n) \in SlotIds
           /\ Queue[n] # << >> /\ Head(Queue[n]) = Front(n)
           /\ Packed(Dequeued(n))
           /\ In(Dequeued(n)) = In(n) \ {Front(n)}
           /\ Queue[Dequeued(n)] = Tail(Queue[n])
<1> DEFINE m == Dequeued(n)
           f == Front(n)
           u == Used(n)
<1>1. f = Get(n, 0) /\ 0 \in Places /\ n \in Words
  BY FrontIs DEF Packed
<1>2. f \in SlotIds /\ f \in In(n)
  BY <1>1, PlacesAre DEF Packed, SlotIds, In
<1>3. \A i \in Places : Get(m, i) = IF i = SLOTS - 1 THEN 0 ELSE Get(n, i + 1)
  BY <1>1, GetDown DEF Dequeued
<1>4. m \in Words
  <2>1. n \in Nat /\ n <= Weight[SLOTS] - 1 /\ BASE \in Nat \ {0} /\ Weight[SLOTS] \in Nat
    BY <1>1, PlacesAre, WeightIs DEF Words
  <2>2. n \div BASE \in Nat /\ n \div BASE <= n
    BY <2>1
  <2> QED
    BY <2>1, <2>2 DEF Dequeued, Words
<1>5. /\ u \in 1 .. SLOTS /\ \A i \in Places : Get(n, i) # 0 <=> i < u
  BY <1>1, UsedIs, PlacesAre
<1> HIDE DEF m, f, u
<1>6. Packed(m)
  <2>1. \A i \in Places : Get(m, i) \in 0 .. SLOTS
    BY <1>3, PlacesAre DEF Packed, Places
  <2>2. ASSUME NEW i \in Places, NEW j \in Places, i < j, Get(m, i) = 0
        PROVE  Get(m, j) = 0
    <3>1. CASE j = SLOTS - 1
      BY <1>3, <3>1
    <3>2. CASE j # SLOTS - 1
      <4>1. i # SLOTS - 1 /\ i + 1 \in Places /\ j + 1 \in Places /\ i + 1 < j + 1
        BY <2>2, <3>2, PlacesAre DEF Places
      <4>2. Get(n, i + 1) = 0
        BY <1>3, <2>2, <4>1
      <4>3. Get(n, j + 1) = 0
        BY <4>1, <4>2 DEF Packed
      <4> QED
        BY <1>3, <3>2, <4>3
    <3> QED
      BY <3>1, <3>2
  <2>3. ASSUME NEW i \in Places, NEW j \in Places, Get(m, i) = Get(m, j), Get(m, i) # 0
        PROVE  i = j
    <3>1. i # SLOTS - 1 /\ j # SLOTS - 1
      BY <1>3, <2>3
    <3>2. i + 1 \in Places /\ j + 1 \in Places
      BY <3>1, PlacesAre DEF Places
    <3>3. Get(n, i + 1) = Get(n, j + 1) /\ Get(n, i + 1) # 0
      BY <1>3, <2>3, <3>1
    <3>4. i + 1 = j + 1
      BY <3>2, <3>3 DEF Packed
    <3> QED
      BY <3>4, PlacesAre DEF Places
  <2> QED
    BY <1>4, <2>1, <2>2, <2>3 DEF Packed
<1>7. In(m) = In(n) \ {f}
  <2>1. ASSUME NEW s \in In(m) PROVE s \in In(n) /\ s # f
    <3>1. PICK i \in Places : Get(m, i) = s /\ s # 0
      BY DEF In
    <3>2. i # SLOTS - 1 /\ Get(n, i + 1) = s
      BY <1>3, <3>1
    <3>3. i + 1 \in Places /\ i + 1 # 0
      BY <3>2, PlacesAre DEF Places
    <3> QED
      BY <1>1, <3>1, <3>2, <3>3 DEF In, Packed
  <2>2. ASSUME NEW s \in In(n), s # f PROVE s \in In(m)
    <3>1. PICK i \in Places : Get(n, i) = s /\ s # 0
      BY DEF In
    <3>2. i - 1 \in Places /\ i - 1 # SLOTS - 1 /\ (i - 1) + 1 = i
      BY <1>1, <2>2, <3>1, PlacesAre DEF Places
    <3>3. Get(m, i - 1) = s
      BY <1>3, <3>1, <3>2
    <3> QED
      BY <3>1, <3>2, <3>3 DEF In
  <2> QED
    BY <2>1, <2>2
<1>8. Used(m) = u - 1
  <2>1. u - 1 \in 0 .. SLOTS
    BY <1>5, PlacesAre
  <2>2. ASSUME NEW i \in Places PROVE Get(m, i) # 0 <=> i < u - 1
    <3>1. CASE i = SLOTS - 1
      BY <1>3, <1>5, <3>1, PlacesAre DEF Places
    <3>2. CASE i # SLOTS - 1
      <4>1. i + 1 \in Places /\ Get(m, i) = Get(n, i + 1)
        BY <1>3, <3>2, PlacesAre DEF Places
      <4>2. Get(n, i + 1) # 0 <=> i + 1 < u
        BY <1>5, <4>1
      <4> QED
        BY <1>5, <4>1, <4>2, PlacesAre DEF Places
    <3> QED
      BY <3>1, <3>2
  <2> QED
    BY <1>6, <2>1, <2>2, UsedUnique
<1>9. Queue[n] = [i \in 1 .. u |-> Get(n, i - 1)] /\ Queue[n] \in Seq(SlotIds) /\ Len(Queue[n]) = u
  BY QueueIs DEF u
<1>10. Queue[n] # << >> /\ Head(Queue[n]) = f
  <2>1. Queue[n][1] = Get(n, 1 - 1) /\ 1 - 1 = 0 /\ u # 0
    BY <1>5, <1>9
  <2> DEFINE q == Queue[n]
  <2>2. q \in Seq(SlotIds) /\ Len(q) # 0
    BY <1>9, <2>1
  <2> HIDE DEF q
  <2>3. q # << >> /\ Head(q) = q[1]
    BY <2>2
  <2> QED
    BY <1>1, <2>1, <2>3 DEF q
<1>11. Queue[m] = Tail(Queue[n])
  <2>1. Queue[m] = [i \in 1 .. u - 1 |-> Get(m, i - 1)] /\ Queue[m] \in Seq(SlotIds) /\ Len(Queue[m]) = u - 1
    BY <1>6, <1>8, QueueIs
  <2> DEFINE q == Queue[n]
             t == Tail(q)
  <2>2. q \in Seq(SlotIds) /\ Len(q) = u /\ q # << >>
    BY <1>9, <1>10
  <2> HIDE DEF q
  <2>3. t \in Seq(SlotIds) /\ Len(t) = u - 1 /\ \A i \in 1 .. Len(t) : t[i] = q[i + 1]
    BY <2>2, HeadTailProperties
  <2> HIDE DEF t
  <2>4. ASSUME NEW i \in 1 .. u - 1 PROVE Queue[m][i] = t[i]
    <3>1. i - 1 \in Places /\ i - 1 # SLOTS - 1 /\ (i - 1) + 1 = i /\ i + 1 \in 1 .. u
      BY <1>5, PlacesAre DEF Places
    <3>2. Queue[m][i] = Get(n, i)
      BY <1>3, <2>1, <3>1
    <3>3. q[i + 1] = Get(n, (i + 1) - 1)
      BY <1>9, <3>1 DEF q
    <3>4. (i + 1) - 1 = i
      BY <3>1
    <3> QED
      BY <2>3, <3>2, <3>3, <3>4
  <2>5. Queue[m] = t
    BY <2>1, <2>3, <2>4, SeqEqual
  <2> QED
    BY <2>5 DEF t, q
<1> QED
  BY <1>2, <1>6, <1>7, <1>10, <1>11 DEF m, f

(* A word without some slot has a place for it. *)
LEMMA RoomIs ==
    ASSUME NEW n, Packed(n), NEW s \in SlotIds, s \notin In(n)
    PROVE  Vacant(n) # {}
<1>1. SUFFICES ASSUME Vacant(n) = {} PROVE FALSE
  OBVIOUS
<1>2. IsFiniteSet(SlotIds) /\ Cardinality(SlotIds) = SLOTS
  BY PlacesAre, FS_Interval DEF SlotIds
<1>3. IsFiniteSet(Places) /\ Cardinality(Places) = SLOTS
  <2>1. IsFiniteSet(0 .. SLOTS - 1) /\ Cardinality(0 .. SLOTS - 1) = IF 0 > SLOTS - 1 THEN 0 ELSE (SLOTS - 1) - 0 + 1
    BY PlacesAre, FS_Interval
  <2> QED
    BY <2>1, PlacesAre DEF Places
<1> DEFINE f == [i \in Places |-> Get(n, i)]
<1>4. f \in [Places -> SlotIds \ {s}] /\ \A i, j \in Places : f[i] = f[j] => i = j
  BY <1>1, PlacesAre DEF Packed, Vacant, SlotIds, In
<1>5. IsFiniteSet(SlotIds \ {s}) /\ Cardinality(SlotIds \ {s}) = SLOTS - 1
  BY <1>2, FS_RemoveElement
<1> HIDE DEF f
<1>6. f \in Injection(Places, SlotIds \ {s})
  BY <1>4 DEF Injection, IsInjective
<1>7. Cardinality(Places) <= Cardinality(SlotIds \ {s})
  BY <1>5, <1>6, FS_Injection
<1> QED
  BY <1>3, <1>5, <1>7, PlacesAre

(* Channel::new() leads to a word with every slot. *)
LEMMA NewWordIs ==
    /\ Packed(0) /\ In(0) = {}
    /\ Packed(NewWord[SLOTS]) /\ In(NewWord[SLOTS]) = SlotIds
<1> DEFINE Def(f, n) == f = [i \in 0 .. n |-> IF i = 0 THEN 0 ELSE Enqueued(f[i - 1], i)]
           Bad == {n \in Nat : ~ \E f : Def(f, n)}
<1>1. Bad = {}
  <2>1. SUFFICES ASSUME Bad # {} PROVE FALSE
    OBVIOUS
  <2>2. PICK n \in Bad : \A m \in Bad : n <= m
    BY <2>1, Least
  <2>3. n # 0
    <3>1. Def([i \in 0 .. 0 |-> 0], 0)
      OBVIOUS
    <3> QED
      BY <3>1
  <2>4. n - 1 \in Nat /\ n - 1 \notin Bad
    <3> HIDE DEF Def
    <3> QED
      BY <2>2, <2>3
  <2>5. PICK f : Def(f, n - 1)
    BY <2>4
  <2> DEFINE g == [i \in 0 .. n |-> IF i = n THEN Enqueued(f[n - 1], n) ELSE f[i]]
  <2>6. ASSUME NEW i \in 0 .. n PROVE g[i] = IF i = 0 THEN 0 ELSE Enqueued(g[i - 1], i)
    BY <2>4, <2>5
  <2>7. Def(g, n)
    BY <2>6
  <2> QED
    BY <2>7
<1>2. \E f : Def(f, SLOTS)
  BY <1>1, PlacesAre
<1>3. Def(NewWord, SLOTS)
  BY <1>2 DEF NewWord
<1>4. NewWord[0] = 0 /\ \A i \in 1 .. SLOTS : NewWord[i] = Enqueued(NewWord[i - 1], i)
  BY <1>3, PlacesAre
<1>5. Packed(0) /\ In(0) = {}
  <2>1. 0 \in Words
    BY WeightIs, PlacesAre DEF Words
  <2>2. ASSUME NEW i \in Places PROVE Get(0, i) = 0
    <3>1. Weight[i] \in Nat \ {0} /\ BASE \in Nat \ {0}
      BY WeightIs, PlacesAre DEF Places
    <3> QED
      BY <3>1 DEF Get
  <2> QED
    BY <2>1, <2>2, PlacesAre DEF Packed, In, Places
<1> DEFINE Wrong == {i \in 0 .. SLOTS : ~ (Packed(NewWord[i]) /\ In(NewWord[i]) = 1 .. i)}
<1>6. Wrong = {}
  <2>1. SUFFICES ASSUME Wrong # {} PROVE FALSE
    OBVIOUS
  <2>2. PICK i \in Wrong : \A j \in Wrong : i <= j
    <3>1. Wrong \in SUBSET Nat
      BY PlacesAre
    <3> HIDE DEF Wrong
    <3> QED
      BY <2>1, <3>1, Least
  <2>3. i # 0
    BY <1>4, <1>5
  <2>4. i - 1 \in 0 .. SLOTS /\ i - 1 \notin Wrong /\ i \in 1 .. SLOTS
    BY <2>2, <2>3, PlacesAre
  <2> DEFINE n == NewWord[i - 1]
  <2>5. Packed(n) /\ In(n) = 1 .. i - 1
    BY <2>4
  <2>6. i \in SlotIds /\ i \notin In(n)
    BY <2>4, <2>5, PlacesAre DEF SlotIds
  <2>7. NewWord[i] = Enqueued(n, i)
    BY <1>4, <2>4
  <2> HIDE DEF n
  <2>8. Packed(NewWord[i]) /\ In(NewWord[i]) = In(n) \cup {i}
    BY <2>5, <2>6, <2>7, RoomIs, EnqueuedIs
  <2>9. In(NewWord[i]) = 1 .. i
    BY <2>4, <2>5, <2>8
  <2> QED
    BY <2>8, <2>9
<1>7. SLOTS \notin Wrong /\ SLOTS \in 0 .. SLOTS
  BY <1>6, PlacesAre
<1> QED
  BY <1>5, <1>7 DEF SlotIds

-----------------------------------------------------------------------------
(* The invariant. *)

(* What the proofs below need to know of a packed word. *)
LEMMA PackedIs ==
    ASSUME NEW n, Packed(n)
    PROVE  n \in Words /\ In(n) \subseteq SlotIds /\ 0 \notin In(n)
BY PlacesAre DEF Packed, In, SlotIds

(* The channel that new() makes has the invariant. *)
LEMMA InitIInv == Init => IInv
<1>1. SUFFICES ASSUME Init PROVE IInv
  OBVIOUS
<1>2. /\ Packed(full) /\ In(full) = {}
      /\ Packed(empty) /\ In(empty) = SlotIds
  BY <1>1, NewWordIs DEF Init
<1>3. TypeOK
  BY <1>1, <1>2, PackedIs, PlacesAre DEF Init, TypeOK
<1>4. Parted
  BY <1>1, <1>2, PackedIs DEF Init, Parted
<1>5. AtWork
  BY <1>1 DEF Init, AtWork, Procs
<1>6. Stored
  BY <1>1, <1>2 DEF Init, Stored
<1> QED
  BY <1>2, <1>3, <1>4, <1>5, <1>6 DEF IInv

(* A step of one process that leaves the words, the slots and who holds    *)
(* them alone moves only its own locals.                                   *)
LEMMA LocalStep ==
    ASSUME IInv, UNCHANGED << empty, full, idx >>
    PROVE  Packed(empty)' /\ Packed(full)' /\ Parted'
<1>1. Packed(empty)' /\ Packed(full)'
  BY DEF IInv
<1>2. Parted'
  BY DEF IInv, Parted
<1> QED
  BY <1>1, <1>2

(* A slot is dequeued by a process that holds none. *)
LEMMA TakenParted ==
    ASSUME IInv, NEW p \in Procs, idx[p] = 0,
           NEW f \in SlotIds, f \in In(empty) \cup In(full),
           idx' = [idx EXCEPT ![p] = f],
           In(empty') = In(empty) \ {f}, In(full') = In(full) \ {f}
    PROVE  Parted'
<1>1. In(empty') \cap In(full') = {}
  BY DEF IInv, Parted
<1>2. \A q \in Procs : idx'[q] \notin In(empty') \cup In(full')
  BY DEF IInv, Parted, TypeOK
<1>3. \A q, r \in Procs : idx'[q] = idx'[r] /\ idx'[q] # 0 => q = r
  BY DEF IInv, Parted, TypeOK
<1>4. \A s \in SlotIds : s \in In(empty') \cup In(full') \/ \E q \in Procs : idx'[q] = s
  <2>1. SUFFICES ASSUME NEW s \in SlotIds, s \notin In(empty') \cup In(full')
                 PROVE  \E q \in Procs : idx'[q] = s
    OBVIOUS
  <2>2. CASE s = f
    BY <2>2 DEF IInv, TypeOK
  <2>3. CASE s # f
    <3>1. s \notin In(empty) \cup In(full)
      BY <2>1, <2>3
    <3>2. PICK q \in Procs : idx[q] = s
      BY <3>1 DEF IInv, Parted
    <3>3. s # 0
      BY DEF SlotIds
    <3> QED
      BY <3>2, <3>3 DEF IInv, TypeOK
  <2> QED
    BY <2>2, <2>3
<1> QED
  BY <1>1, <1>2, <1>3, <1>4 DEF Parted

(* The slot that a process holds is enqueued. *)
LEMMA GivenParted ==
    ASSUME IInv, NEW p \in Procs, idx[p] # 0,
           idx' = [idx EXCEPT ![p] = 0],
           \/ In(empty') = In(empty) \cup {idx[p]} /\ In(full') = In(full)
           \/ In(full') = In(full) \cup {idx[p]} /\ In(empty') = In(empty)
    PROVE  Parted'
<1>1. /\ 0 \notin In(empty) \cup In(full)
      /\ idx[p] \notin In(empty) \cup In(full)
      /\ \A q \in Procs : q # p => idx'[q] = idx[q] /\ idx[q] # idx[p]
      /\ idx'[p] = 0
  BY PackedIs DEF IInv, Parted, TypeOK
<1>2. In(empty') \cap In(full') = {}
  BY <1>1 DEF IInv, Parted
<1>3. \A q \in Procs : idx'[q] \notin In(empty') \cup In(full')
  BY <1>1 DEF IInv, Parted
<1>4. \A q, r \in Procs : idx'[q] = idx'[r] /\ idx'[q] # 0 => q = r
  BY <1>1 DEF IInv, Parted
<1>5. \A s \in SlotIds : s \in In(empty') \cup In(full') \/ \E q \in Procs : idx'[q] = s
  BY <1>1 DEF IInv, Parted
<1> QED
  BY <1>2, <1>3, <1>4, <1>5 DEF Parted

(* Each step keeps it, one lemma for each action.  Who holds which slot is *)
(* for TakenParted and GivenParted, the words are for the lemmas above.    *)
LEMMA SendLoadsIInv ==
    ASSUME IInv, NEW p \in Senders, NEW v \in Values, SendLoads(p, v)
    PROVE  IInv'
<1> USE DisjointAssumption, NoneAssumption DEF Procs
<1>1. Packed(empty)' /\ Packed(full)' /\ Parted'
  BY LocalStep DEF SendLoads
<1>2. TypeOK'
  BY DEF IInv, TypeOK, SendLoads, Sees, Goto
<1>3. AtWork'
  BY DEF IInv, TypeOK, AtWork, SendLoads, NoSlot, Sees, Goto
<1>4. Stored'
  BY DEF IInv, TypeOK, Stored, SendLoads, Sees, Goto
<1> QED
  BY <1>1, <1>2, <1>3, <1>4 DEF IInv

LEMMA SendDropsIInv ==
    ASSUME IInv, NEW p \in Senders, SendDrops(p)
    PROVE  IInv'
<1> USE DisjointAssumption DEF Procs
<1>1. pc[p] \in {"idle", "popEmpty"} /\ idx[p] = 0 /\ UNCHANGED << empty, full, idx >>
  BY DEF IInv, TypeOK, AtWork, SendDrops, Finish
<1>2. Packed(empty)' /\ Packed(full)' /\ Parted'
  BY <1>1, LocalStep
<1>3. TypeOK'
  BY PlacesAre, NewWordIs, PackedIs DEF IInv, TypeOK, SendDrops, Finish, Sees, Goto
<1>4. AtWork'
  BY <1>1 DEF IInv, TypeOK, AtWork, SendDrops, Finish, Sees, Goto
<1>5. Stored'
  BY <1>1 DEF IInv, TypeOK, Stored, SendDrops, Finish, Sees, Goto
<1> QED
  BY <1>2, <1>3, <1>4, <1>5 DEF IInv

LEMMA PopEmptyRetriesIInv ==
    ASSUME IInv, NEW p \in Senders, PopEmptyRetries(p)
    PROVE  IInv'
<1> USE DisjointAssumption DEF Procs
<1>1. Packed(empty)' /\ Packed(full)' /\ Parted'
  BY LocalStep DEF PopEmptyRetries
<1>2. TypeOK'
  BY DEF IInv, TypeOK, PopEmptyRetries, Sees
<1>3. AtWork'
  BY DEF IInv, TypeOK, AtWork, PopEmptyRetries, NoSlot, Sees
<1>4. Stored'
  BY DEF IInv, TypeOK, Stored, PopEmptyRetries, Sees
<1> QED
  BY <1>1, <1>2, <1>3, <1>4 DEF IInv

LEMMA PopEmptyIInv ==
    ASSUME IInv, NEW p \in Senders, PopEmpty(p)
    PROVE  IInv'
<1> USE DisjointAssumption DEF Procs
<1> DEFINE f == Front(empty)
<1>1. Packed(empty) /\ Packed(full) /\ f # 0 /\ idx[p] = 0 /\ pc[p] = "popEmpty"
  BY DEF IInv, AtWork, PopEmpty
<1>2. /\ f \in In(empty) /\ f \in SlotIds
      /\ Packed(empty') /\ In(empty') = In(empty) \ {f}
  BY <1>1, DequeuedIs DEF PopEmpty
<1>3. 0 \in Words /\ empty' \in Words
  BY <1>2, PackedIs, NewWordIs
<1>4. full' = full /\ idx' = [idx EXCEPT ![p] = f]
  BY DEF PopEmpty
<1> HIDE DEF f
<1>5. Packed(empty)' /\ Packed(full)'
  BY <1>1, <1>2, <1>4
<1>6. TypeOK'
  BY <1>2, <1>3 DEF IInv, TypeOK, PopEmpty, Sees, Goto, SlotIds, f
<1>7. Parted'
  <2>1. In(full') = In(full) \ {f}
    BY <1>2, <1>4 DEF IInv, Parted
  <2> QED
    BY <1>1, <1>2, <1>4, <2>1, TakenParted
<1>8. AtWork'
  BY <1>1 DEF IInv, TypeOK, AtWork, PopEmpty, Sees, Goto, f
<1>9. Stored'
  BY <1>1 DEF IInv, TypeOK, Stored, PopEmpty, Sees, Goto, f
<1> QED
  BY <1>5, <1>6, <1>7, <1>8, <1>9 DEF IInv

LEMMA FillIInv ==
    ASSUME IInv, NEW p \in Senders, Fill(p)
    PROVE  IInv'
<1> USE DisjointAssumption DEF Procs
<1>1. pc[p] = "fill" /\ idx[p] \in SlotIds /\ val[p] # None /\ idx[p] \notin In(full)
  BY PlacesAre DEF IInv, TypeOK, AtWork, Parted, Fill, SlotIds
<1>2. Packed(empty)' /\ Packed(full)' /\ Parted'
  BY LocalStep DEF Fill
<1>3. TypeOK'
  BY DEF IInv, TypeOK, Fill, Goto
<1>4. AtWork'
  BY <1>1 DEF IInv, TypeOK, AtWork, Fill, Goto
<1>5. Stored'
  <2>1. /\ storage'[idx[p]] = val[p]
        /\ \A s \in SlotIds : s # idx[p] => storage'[s] = storage[s]
    BY <1>1 DEF IInv, TypeOK, Fill
  <2>2. \A s \in In(full') : storage'[s] # None
    BY <1>1, <2>1, PackedIs DEF IInv, Stored, Fill
  <2>3. ASSUME NEW q \in Procs, pc'[q] \in {"loadFull", "pushFull", "take"}
        PROVE  storage'[idx'[q]] # None
    <3>1. CASE q = p
      BY <1>1, <2>1, <3>1 DEF Fill
    <3>2. CASE q # p
      <4>1. pc[q] \in {"loadFull", "pushFull", "take"} /\ storage[idx[q]] # None /\ idx' = idx
        BY <2>3, <3>2 DEF IInv, TypeOK, Stored, Fill, Goto
      <4>2. idx[q] \in SlotIds /\ idx[q] # idx[p]
        BY <3>2, <4>1, PlacesAre DEF IInv, TypeOK, AtWork, Parted, SlotIds
      <4> QED
        BY <2>1, <4>1, <4>2
    <3> QED
      BY <3>1, <3>2
  <2> QED
    BY <2>2, <2>3 DEF Stored
<1> QED
  BY <1>2, <1>3, <1>4, <1>5 DEF IInv

LEMMA LoadFullIInv ==
    ASSUME IInv, NEW p \in Senders, LoadFull(p)
    PROVE  IInv'
<1> USE DisjointAssumption DEF Procs
<1>1. pc[p] \in {"loadFull", "pushFull"} /\ idx[p] \in SlotIds /\ idx[p] \notin In(full)
  BY PlacesAre DEF IInv, TypeOK, AtWork, Parted, LoadFull, SlotIds
<1>2. Vacant(full) # {}
  BY <1>1, RoomIs DEF IInv
<1>3. /\ pc' = [pc EXCEPT ![p] = "pushFull"] /\ current' = [current EXCEPT ![p] = full]
      /\ UNCHANGED << empty, full, storage, idx, val >>
  BY <1>2 DEF LoadFull, PushOrPanic, Sees, Goto
<1>4. Packed(empty)' /\ Packed(full)' /\ Parted'
  BY <1>3, LocalStep
<1>5. TypeOK'
  BY <1>3 DEF IInv, TypeOK
<1>6. AtWork'
  BY <1>1, <1>2, <1>3 DEF IInv, TypeOK, AtWork
<1>7. Stored'
  BY <1>1, <1>3 DEF IInv, TypeOK, Stored
<1> QED
  BY <1>4, <1>5, <1>6, <1>7 DEF IInv

LEMMA PushFullIInv ==
    ASSUME IInv, NEW p \in Senders, PushFull(p)
    PROVE  IInv'
<1> USE DisjointAssumption DEF Procs
<1>1. /\ pc[p] = "pushFull" /\ idx[p] \in SlotIds /\ idx[p] # 0
      /\ idx[p] \notin In(full) /\ Vacant(full) # {} /\ Packed(empty) /\ Packed(full)
      /\ storage[idx[p]] # None
  BY PlacesAre DEF IInv, TypeOK, AtWork, Parted, Stored, PushFull, SlotIds
<1>2. Packed(full') /\ In(full') = In(full) \cup {idx[p]}
  BY <1>1, EnqueuedIs DEF PushFull
<1>3. /\ empty' = empty /\ storage' = storage
      /\ pc' = [pc EXCEPT ![p] = "idle"] /\ current' = [current EXCEPT ![p] = 0]
      /\ idx' = [idx EXCEPT ![p] = 0] /\ val' = [val EXCEPT ![p] = None]
  BY DEF PushFull, Finish, Sees, Goto
<1>4. Packed(empty)' /\ Packed(full)'
  BY <1>1, <1>2, <1>3
<1>5. TypeOK'
  BY <1>2, <1>3, PlacesAre, NewWordIs, PackedIs DEF IInv, TypeOK
<1>6. Parted'
  BY <1>1, <1>2, <1>3, GivenParted
<1>7. AtWork'
  BY <1>1, <1>3 DEF IInv, TypeOK, AtWork
<1>8. Stored'
  BY <1>1, <1>2, <1>3 DEF IInv, TypeOK, Stored
<1> QED
  BY <1>4, <1>5, <1>6, <1>7, <1>8 DEF IInv

LEMMA RecvLoadsIInv ==
    ASSUME IInv, NEW p \in Receivers, RecvLoads(p)
    PROVE  IInv'
<1> USE DisjointAssumption, NoneAssumption DEF Procs
<1>1. pc[p] \in {"idle", "popFull"} /\ idx[p] = 0 /\ val[p] = None
  BY DEF IInv, AtWork, RecvLoads
<1>2. /\ UNCHANGED << empty, full, storage, idx, val >>
      /\ \/ /\ pc' = [pc EXCEPT ![p] = "idle"] /\ current' = [current EXCEPT ![p] = 0]
         \/ /\ pc' = [pc EXCEPT ![p] = "popFull"] /\ current' = [current EXCEPT ![p] = full]
            /\ Front(full) # 0
  BY <1>1 DEF IInv, TypeOK, RecvLoads, Finish, Sees, Goto
<1>3. Packed(empty)' /\ Packed(full)' /\ Parted'
  BY <1>2, LocalStep
<1>4. TypeOK'
  BY <1>2, NewWordIs, PackedIs DEF IInv, TypeOK
<1>5. AtWork'
  BY <1>1, <1>2 DEF IInv, TypeOK, AtWork
<1>6. Stored'
  BY <1>1, <1>2 DEF IInv, TypeOK, Stored
<1> QED
  BY <1>3, <1>4, <1>5, <1>6 DEF IInv

LEMMA PopFullIInv ==
    ASSUME IInv, NEW p \in Receivers, PopFull(p)
    PROVE  IInv'
<1> USE DisjointAssumption DEF Procs
<1> DEFINE f == Front(full)
<1>1. Packed(empty) /\ Packed(full) /\ f # 0 /\ idx[p] = 0 /\ pc[p] = "popFull"
  BY DEF IInv, AtWork, PopFull
<1>2. /\ f \in In(full) /\ f \in SlotIds
      /\ Packed(full') /\ In(full') = In(full) \ {f}
  BY <1>1, DequeuedIs DEF PopFull
<1>3. /\ empty' = empty /\ storage' = storage /\ val' = val /\ idx' = [idx EXCEPT ![p] = f]
      /\ pc' = [pc EXCEPT ![p] = "take"] /\ current' = [current EXCEPT ![p] = 0]
  BY DEF PopFull, Sees, Goto
<1> HIDE DEF f
<1>4. Packed(empty)' /\ Packed(full)'
  BY <1>1, <1>2, <1>3
<1>5. TypeOK'
  BY <1>2, <1>3, NewWordIs, PackedIs DEF IInv, TypeOK, SlotIds
<1>6. Parted'
  <2>1. In(empty') = In(empty) \ {f}
    BY <1>2, <1>3 DEF IInv, Parted
  <2> QED
    BY <1>1, <1>2, <1>3, <2>1, TakenParted
<1>7. AtWork'
  BY <1>1, <1>2, <1>3 DEF IInv, TypeOK, AtWork, SlotIds
<1>8. Stored'
  BY <1>1, <1>2, <1>3 DEF IInv, TypeOK, Stored
<1> QED
  BY <1>4, <1>5, <1>6, <1>7, <1>8 DEF IInv

LEMMA TakeIInv ==
    ASSUME IInv, NEW p \in Receivers, Take(p)
    PROVE  IInv'
<1> USE DisjointAssumption DEF Procs
<1>1. /\ pc[p] = "take" /\ idx[p] \in SlotIds /\ idx[p] # 0 /\ val[p] = None
      /\ storage[idx[p]] # None /\ idx[p] \notin In(full)
  BY PlacesAre DEF IInv, TypeOK, AtWork, Stored, Parted, Take, SlotIds
<1>2. /\ UNCHANGED << empty, full, current, idx >>
      /\ val' = [val EXCEPT ![p] = storage[idx[p]]]
      /\ storage' = [storage EXCEPT ![idx[p]] = None]
      /\ pc' = [pc EXCEPT ![p] = "loadEmpty"]
  BY <1>1 DEF Take, Goto
<1>3. Packed(empty)' /\ Packed(full)' /\ Parted'
  BY <1>2, LocalStep
<1>4. TypeOK'
  BY <1>1, <1>2 DEF IInv, TypeOK
<1>5. AtWork'
  BY <1>1, <1>2 DEF IInv, TypeOK, AtWork
<1>6. Stored'
  <2>1. \A s \in SlotIds : s # idx[p] => storage'[s] = storage[s]
    BY <1>1, <1>2 DEF IInv, TypeOK
  <2>2. \A s \in In(full') : storage'[s] # None
    BY <1>1, <1>2, <2>1, PackedIs DEF IInv, Stored
  <2>3. ASSUME NEW q \in Procs, pc'[q] \in {"loadFull", "pushFull", "take"}
        PROVE  storage'[idx'[q]] # None
    <3>1. q # p /\ pc[q] \in {"loadFull", "pushFull", "take"}
      BY <1>2, <2>3 DEF IInv, TypeOK
    <3>2. idx[q] \in SlotIds /\ idx[q] # idx[p] /\ storage[idx[q]] # None
      BY <3>1, <1>1, PlacesAre DEF IInv, TypeOK, AtWork, Parted, Stored, SlotIds
    <3> QED
      BY <1>2, <2>1, <3>2
  <2> QED
    BY <2>2, <2>3 DEF Stored
<1> QED
  BY <1>3, <1>4, <1>5, <1>6 DEF IInv

LEMMA LoadEmptyIInv ==
    ASSUME IInv, NEW p \in Receivers, LoadEmpty(p)
    PROVE  IInv'
<1> USE DisjointAssumption DEF Procs
<1>1. pc[p] \in {"loadEmpty", "pushEmpty"} /\ idx[p] \in SlotIds /\ idx[p] \notin In(empty)
  BY PlacesAre DEF IInv, TypeOK, AtWork, Parted, LoadEmpty, SlotIds
<1>2. Vacant(empty) # {}
  BY <1>1, RoomIs DEF IInv
<1>3. /\ pc' = [pc EXCEPT ![p] = "pushEmpty"] /\ current' = [current EXCEPT ![p] = empty]
      /\ UNCHANGED << empty, full, storage, idx, val >>
  BY <1>2 DEF LoadEmpty, PushOrPanic, Sees, Goto
<1>4. Packed(empty)' /\ Packed(full)' /\ Parted'
  BY <1>3, LocalStep
<1>5. TypeOK'
  BY <1>3 DEF IInv, TypeOK
<1>6. AtWork'
  BY <1>1, <1>2, <1>3 DEF IInv, TypeOK, AtWork
<1>7. Stored'
  BY <1>1, <1>3 DEF IInv, TypeOK, Stored
<1> QED
  BY <1>4, <1>5, <1>6, <1>7 DEF IInv

LEMMA PushEmptyIInv ==
    ASSUME IInv, NEW p \in Receivers, PushEmpty(p)
    PROVE  IInv'
<1> USE DisjointAssumption DEF Procs
<1>1. /\ pc[p] = "pushEmpty" /\ idx[p] \in SlotIds /\ idx[p] # 0
      /\ idx[p] \notin In(empty) /\ Vacant(empty) # {} /\ Packed(empty) /\ Packed(full)
  BY PlacesAre DEF IInv, TypeOK, AtWork, Parted, PushEmpty, SlotIds
<1>2. Packed(empty') /\ In(empty') = In(empty) \cup {idx[p]}
  BY <1>1, EnqueuedIs DEF PushEmpty, SlotReturned
<1>3. /\ full' = full /\ storage' = storage
      /\ pc' = [pc EXCEPT ![p] = "idle"] /\ current' = [current EXCEPT ![p] = 0]
      /\ idx' = [idx EXCEPT ![p] = 0] /\ val' = [val EXCEPT ![p] = None]
  BY DEF PushEmpty, Finish, Sees, Goto
<1>4. Packed(empty)' /\ Packed(full)'
  BY <1>1, <1>2, <1>3
<1>5. TypeOK'
  BY <1>2, <1>3, PlacesAre, NewWordIs, PackedIs DEF IInv, TypeOK
<1>6. Parted'
  BY <1>1, <1>2, <1>3, GivenParted
<1>7. AtWork'
  BY <1>1, <1>3 DEF IInv, TypeOK, AtWork
<1>8. Stored'
  BY <1>1, <1>3 DEF IInv, TypeOK, Stored
<1> QED
  BY <1>4, <1>5, <1>6, <1>7, <1>8 DEF IInv

(* The invariant holds in every state that send() and recv() reach.        *)
THEOREM Invariance == Spec => []IInv
<1>1. Init => IInv
  BY InitIInv
<1>2. IInv /\ [Next]_vars => IInv'
  <2>1. SUFFICES ASSUME IInv, [Next]_vars PROVE IInv'
    OBVIOUS
  <2>2. CASE UNCHANGED vars
    BY <2>1, <2>2 DEF vars, IInv, TypeOK, Packed, Parted, AtWork, Stored, In, Get, Front, Vacant
  <2>3. ASSUME NEW p \in Senders, Send(p) PROVE IInv'
    BY <2>1, <2>3, SendLoadsIInv, SendDropsIInv, PopEmptyRetriesIInv, PopEmptyIInv,
       FillIInv, LoadFullIInv, PushFullIInv DEF Send
  <2>4. ASSUME NEW p \in Receivers, Recv(p) PROVE IInv'
    BY <2>1, <2>4, RecvLoadsIInv, PopFullIInv, TakeIInv, LoadEmptyIInv, PushEmptyIInv DEF Recv
  <2> QED
    BY <2>1, <2>2, <2>3, <2>4 DEF Next
<1> QED
  BY <1>1, <1>2, PTL DEF Spec

-----------------------------------------------------------------------------
(* What follows from it. *)

(* A slot is once in the queue of the word that has it, and not at all in  *)
(* another.                                                                *)
LEMMA TimesIs ==
    ASSUME NEW n, Packed(n), NEW s \in SlotIds
    PROVE  Times(s, Queue[n]) = IF s \in In(n) THEN 1 ELSE 0
<1> DEFINE q == Queue[n]
           T == {i \in DOMAIN q : q[i] = s}
<1>1. /\ q = [i \in 1 .. Used(n) |-> Get(n, i - 1)]
      /\ \A i \in 1 .. Used(n) : i - 1 \in Places /\ Get(n, i - 1) \in SlotIds
      /\ In(n) = {q[i] : i \in 1 .. Used(n)}
  BY QueueIs
<1>2. Times(s, Queue[n]) = Cardinality(T)
  BY DEF Times
<1>3. DOMAIN q = 1 .. Used(n) /\ Used(n) \in Nat
  BY <1>1, UsedIs, PlacesAre
<1>4. CASE s \in In(n)
  <2>1. PICK i \in 1 .. Used(n) : q[i] = s
    BY <1>1, <1>4
  <2>2. ASSUME NEW j \in 1 .. Used(n), q[j] = s PROVE j = i
    <3>1. Get(n, i - 1) = s /\ Get(n, j - 1) = s /\ s # 0 /\ i - 1 \in Places /\ j - 1 \in Places
      BY <1>1, <2>1, <2>2 DEF SlotIds
    <3>2. i - 1 = j - 1
      BY <3>1 DEF Packed
    <3> QED
      BY <1>3, <3>2
  <2> HIDE DEF q
  <2>3. T = {i}
    BY <1>3, <2>1, <2>2
  <2>4. Cardinality({i}) = 1
    BY FS_Singleton
  <2> QED
    BY <1>2, <1>4, <2>3, <2>4
<1>5. CASE s \notin In(n)
  <2> HIDE DEF q
  <2>1. T = {}
    BY <1>1, <1>3, <1>5
  <2>2. Cardinality({}) = 0
    BY FS_EmptySet
  <2> QED
    BY <1>2, <1>5, <2>1, <2>2
<1> QED
  BY <1>4, <1>5

(* Each slot is in one of the queues, once, or in the hands of one process *)
(* (the storage that send() and recv() access by index), for any number of *)
(* slots, senders and receivers.                                           *)
THEOREM Conservation == Spec => []SlotsConserved
<1>1. ASSUME IInv PROVE SlotsConserved
  <2>1. SUFFICES ASSUME NEW s \in SlotIds
                 PROVE  Times(s, Queue[empty]) + Times(s, Queue[full])
                            + Cardinality({p \in Procs : idx[p] = s}) = 1
    BY DEF SlotsConserved
  <2> DEFINE H == {p \in Procs : idx[p] = s}
  <2>2. /\ Times(s, Queue[empty]) = IF s \in In(empty) THEN 1 ELSE 0
        /\ Times(s, Queue[full]) = IF s \in In(full) THEN 1 ELSE 0
    BY <1>1, TimesIs DEF IInv
  <2>3. CASE s \in In(empty) \cup In(full)
    <3>1. H = {}
      BY <1>1, <2>3 DEF IInv, Parted
    <3>2. Cardinality({}) = 0
      BY FS_EmptySet
    <3>3. ~ (s \in In(empty) /\ s \in In(full))
      BY <1>1 DEF IInv, Parted
    <3> QED
      BY <2>2, <2>3, <3>1, <3>2, <3>3
  <2>4. CASE s \notin In(empty) \cup In(full)
    <3>1. PICK p \in Procs : idx[p] = s
      BY <1>1, <2>4 DEF IInv, Parted
    <3>2. H = {p}
      BY <1>1, <3>1 DEF IInv, Parted, SlotIds
    <3>3. Cardinality({p}) = 1
      BY FS_Singleton
    <3> QED
      BY <2>2, <2>4, <3>2, <3>3
  <2> QED
    BY <2>3, <2>4
<1> QED
  BY <1>1, Invariance, PTL

(* Neither expect() of send() and recv() ("No empty slot available", "Full *)
(* slot with nothing in it") fails.                                        *)
THEOREM PanicFreedom == Spec => []NoPanic
<1>1. IInv => NoPanic
  BY DEF IInv, AtWork, NoPanic, Procs
<1> QED
  BY <1>1, Invariance, PTL

(* In every state in which send() would find no slot, and drop its value   *)
(* at its first look or after a failed exchange, another one is pending,   *)
(* if there are fewer receivers than slots: with nothing pending, each     *)
(* slot would be with a receiver of its own that is giving it back.        *)
THEOREM DropsArePending ==
    ASSUME IsFiniteSet(Receivers), Cardinality(Receivers) < SLOTS
    PROVE  Spec => []DropsOnlyIfPending
<1>1. ASSUME IInv, NoSlot PROVE Pending
  <2>1. SUFFICES ASSUME ~ Pending PROVE FALSE
    OBVIOUS
  <2>2. In(empty) = {}
    BY <1>1, NothingIs DEF IInv, NoSlot
  <2>3. In(full) = {}
    <3>1. Queue[full] = << >> /\ Packed(full)
      BY <1>1, <2>1 DEF Pending, IInv
    <3>2. Front(full) = 0
      BY <3>1, DequeuedIs
    <3> QED
      BY <3>1, <3>2, NothingIs
  <2>4. ASSUME NEW s \in SlotIds PROVE \E r \in Receivers : idx[r] = s
    <3>1. PICK r \in Procs : idx[r] = s
      BY <1>1, <2>2, <2>3 DEF IInv, Parted
    <3>2. pc[r] \notin {"idle", "popEmpty", "popFull"}
      BY <1>1, <3>1 DEF IInv, AtWork, SlotIds
    <3>3. r \notin Senders
      BY <1>1, <2>1, <3>2 DEF IInv, AtWork, Pending
    <3> QED
      BY <3>1, <3>3 DEF Procs
  <2> DEFINE f == [s \in SlotIds |-> CHOOSE r \in Receivers : idx[r] = s]
  <2>5. ASSUME NEW s \in SlotIds PROVE f[s] \in Receivers /\ idx[f[s]] = s
    BY <2>4
  <2>6. f \in [SlotIds -> Receivers]
    BY <2>5
  <2> HIDE DEF f
  <2>7. f \in Injection(SlotIds, Receivers)
    BY <2>5, <2>6 DEF Injection, IsInjective
  <2>8. Cardinality(SlotIds) <= Cardinality(Receivers)
    BY <2>7, FS_Injection
  <2>9. Cardinality(SlotIds) = SLOTS
    BY PlacesAre, FS_Interval DEF SlotIds
  <2>10. Cardinality(Receivers) \in Nat
    BY FS_CardinalityType
  <2> QED
    BY <2>8, <2>9, <2>10, PlacesAre
<1>2. IInv => DropsOnlyIfPending
  BY <1>1 DEF DropsOnlyIfPending
<1> QED
  BY <1>2, Invariance, PTL

-----------------------------------------------------------------------------
(* The refinement. *)

(* The values that the slots of a word hold. *)
LEMMA CarriedIs ==
    ASSUME NEW n, Packed(n), NEW slots, \A s \in In(n) : slots[s] \in Values
    PROVE  /\ Queue[n] \in Seq(SlotIds) /\ Used(n) \in Nat /\ Len(Queue[n]) = Used(n)
           /\ \A i \in 1 .. Used(n) : Queue[n][i] \in In(n)
           /\ Carried(n, slots) \in Seq(Values) /\ Len(Carried(n, slots)) = Used(n)
           /\ \A i \in 1 .. Used(n) : Carried(n, slots)[i] = slots[Queue[n][i]]
<1> DEFINE q == Queue[n]
           u == Used(n)
           c == Carried(n, slots)
<1>1. q \in Seq(SlotIds) /\ Len(q) = u /\ In(n) = {q[i] : i \in 1 .. u}
  BY QueueIs
<1>2. u \in Nat
  BY UsedIs, PlacesAre
<1> HIDE DEF q, u
<1>3. DOMAIN q = 1 .. u /\ \A i \in 1 .. u : q[i] \in In(n)
  BY <1>1
<1>4. c = [i \in 1 .. u |-> slots[q[i]]]
  BY <1>3 DEF Carried, q
<1> HIDE DEF c
<1>5. c \in Seq(Values) /\ Len(c) = u
  BY <1>2, <1>3, <1>4
<1> QED
  BY <1>1, <1>2, <1>3, <1>4, <1>5 DEF q, u, c

(* The full slots hold values, before a step and after it. *)
LEMMA FilledIs ==
    ASSUME IInv
    PROVE  \A s \in In(full) : storage[s] \in Values
BY PackedIs DEF IInv, TypeOK, Stored

LEMMA FilledAfter ==
    ASSUME IInv'
    PROVE  Packed(full)' /\ \A s \in In(full') : storage'[s] \in Values
<1>1. Packed(full')
  BY DEF IInv
<1> QED
  BY <1>1, PackedIs DEF IInv, TypeOK, Stored

(* Nothing happens to them while the slots that hold them are left alone. *)
LEMMA SentSame ==
    ASSUME IInv, full' = full, \A s \in In(full) : storage'[s] = storage[s]
    PROVE  Sent' = Sent
<1> DEFINE q == Queue[full]
<1>1. /\ q \in Seq(SlotIds) /\ Len(q) = Used(full)
      /\ \A i \in 1 .. Used(full) : q[i] \in In(full)
  BY FilledIs, CarriedIs DEF IInv
<1>2. Queue[full'] = q
  OBVIOUS
<1> HIDE DEF q
<1>3. \A i \in DOMAIN q : q[i] \in In(full)
  BY <1>1
<1>4. Sent = [i \in DOMAIN q |-> storage[q[i]]]
  BY DEF Sent, Carried, q
<1>5. Sent' = [i \in DOMAIN q |-> storage'[q[i]]]
  BY <1>2 DEF Sent, Carried
<1> QED
  BY <1>3, <1>4, <1>5

(* A step of one process leaves the others and their slots alone. *)
LEMMA Frame ==
    ASSUME IInv, NEW p \in Procs, Send(p) \/ Recv(p)
    PROVE  /\ \A q \in Procs \ {p} : pc'[q] = pc[q] /\ idx'[q] = idx[q] /\ val'[q] = val[q]
           /\ \A s \in SlotIds \ {idx[p]} : storage'[s] = storage[s]
<1> USE DEF IInv, TypeOK, Goto, Sees, Finish
<1>1. CASE Fill(p)
  BY <1>1 DEF Fill
<1>2. CASE Take(p)
  BY <1>2 DEF Take
<1>3. CASE ~ Fill(p) /\ ~ Take(p)
  <2>1. storage' = storage
    BY <1>3 DEF Send, SendLoads, SendDrops, PopEmptyRetries, PopEmpty, LoadFull, PushOrPanic,
                PushFull, Recv, RecvLoads, PopFull, LoadEmpty, PushEmpty
  <2>2. CASE Send(p)
    BY <1>3, <2>2 DEF Send, SendLoads, SendDrops, PopEmptyRetries, PopEmpty, LoadFull,
                      PushOrPanic, PushFull
  <2>3. CASE Recv(p)
    BY <1>3, <2>3 DEF Recv, RecvLoads, PopFull, LoadEmpty, PushOrPanic, PushEmpty
  <2> QED
    BY <2>1, <2>2, <2>3
<1> QED
  BY <1>1, <1>2, <1>3

(* So only what it carries itself changes. *)
LEMMA HandsAfter ==
    ASSUME IInv, NEW p \in Procs, Send(p) \/ Recv(p), NEW P \in SUBSET Procs
    PROVE  /\ p \in P => Hands(P)' = [Hands(P) EXCEPT ![p] = Carrying(p)']
           /\ p \notin P \/ Carrying(p)' = Carrying(p) => Hands(P)' = Hands(P)
<1>1. ASSUME NEW q \in Procs \ {p} PROVE Carrying(q)' = Carrying(q)
  <2>1. pc'[q] = pc[q] /\ idx'[q] = idx[q] /\ val'[q] = val[q]
    BY Frame
  <2>2. CASE idx[q] = 0
    BY <2>1, <2>2 DEF Carrying
  <2>3. CASE idx[q] # 0
    <3>1. idx[q] \in SlotIds /\ idx[q] # idx[p]
      BY <2>3, PlacesAre DEF IInv, TypeOK, Parted, SlotIds
    <3>2. storage'[idx[q]] = storage[idx[q]]
      BY <3>1, Frame
    <3> QED
      BY <2>1, <3>2 DEF Carrying
  <2> QED
    BY <2>2, <2>3
<1> DEFINE c(q) == Carrying(q)
           d(q) == Carrying(q)'
<1>2. Hands(P) = [q \in P |-> c(q)] /\ Hands(P)' = [q \in P |-> d(q)]
  BY DEF Hands
<1> HIDE DEF c, d
<1>3. \A q \in P : q # p => d(q) = c(q)
  BY <1>1 DEF c, d
<1>4. /\ p \in P => Hands(P)' = [Hands(P) EXCEPT ![p] = d(p)]
      /\ p \notin P \/ d(p) = c(p) => Hands(P)' = Hands(P)
  BY <1>2, <1>3
<1> QED
  BY <1>4 DEF c, d

(* The step that takes an empty slot. *)
LEMMA PopEmptyReserves ==
    ASSUME IInv, IInv', NEW p \in Senders, PopEmpty(p)
    PROVE  Fifo!Reserve(p)
<1> USE DisjointAssumption DEF Procs
<1>1. Packed(empty) /\ Front(empty) # 0 /\ pc[p] = "popEmpty" /\ val[p] # None /\ idx[p] = 0
  BY DEF IInv, AtWork, PopEmpty
<1>2. Packed(empty') /\ Queue[empty] # << >> /\ Queue[empty'] = Tail(Queue[empty])
  BY <1>1, DequeuedIs DEF PopEmpty
<1>3. Used(empty) > 0 /\ Used(empty') = Used(empty) - 1
  <2>1. /\ Queue[empty] \in Seq(SlotIds) /\ Len(Queue[empty]) = Used(empty)
        /\ Len(Queue[empty']) = Used(empty')
    BY <1>1, <1>2, QueueIs
  <2> DEFINE q == Queue[empty]
  <2> HIDE DEF q
  <2>2. q \in Seq(SlotIds) /\ q # << >> => Len(q) > 0 /\ Len(Tail(q)) = Len(q) - 1
    BY EmptySeq, HeadTailProperties
  <2> QED
    BY <1>2, <2>1, <2>2 DEF q
<1>4. Sent' = Sent
  BY SentSame DEF PopEmpty
<1>5. Carrying(p) = None /\ Carrying(p)' # None
  <2>1. pc'[p] = "fill" /\ val'[p] # None
    BY <1>1 DEF PopEmpty, Goto, IInv, TypeOK
  <2>2. idx'[p] # 0
    BY <1>1 DEF PopEmpty, IInv, TypeOK
  <2> QED
    BY <1>1, <2>1, <2>2 DEF Carrying
<1>6. /\ Hands(Senders)' = [Hands(Senders) EXCEPT ![p] = Carrying(p)']
      /\ Hands(Receivers)' = Hands(Receivers)
  <2>1. Send(p)
    BY DEF Send
  <2> QED
    BY <2>1, HandsAfter
<1>7. Hands(Senders)[p] = None /\ Hands(Senders)'[p] = Carrying(p)'
  BY <1>5 DEF Hands
<1> QED
  BY <1>3, <1>4, <1>5, <1>6, <1>7 DEF Fifo!Reserve

(* The step that puts a value into the queue. *)
LEMMA PushFullSends ==
    ASSUME IInv, IInv', NEW p \in Senders, PushFull(p)
    PROVE  Fifo!Send(p)
<1> USE DisjointAssumption DEF Procs
<1> DEFINE s == idx[p]
           v == storage[idx[p]]
<1>1. /\ s \in SlotIds /\ v \in Values
      /\ s \notin In(full) /\ Vacant(full) # {} /\ Packed(full)
  <2>1. pc[p] = "pushFull" /\ current[p] = full /\ idx[p] # 0 /\ Vacant(full) # {}
    BY DEF IInv, AtWork, PushFull
  <2>2. s \in SlotIds
    BY <2>1, PlacesAre DEF IInv, TypeOK, SlotIds
  <2>3. v \in Values
    BY <2>1, <2>2 DEF IInv, TypeOK, Stored
  <2> QED
    BY <2>1, <2>2, <2>3 DEF IInv, Parted
<1>2. Queue[full'] = Append(Queue[full], s)
  BY <1>1, EnqueuedIs DEF PushFull
<1>3. storage' = storage
  BY DEF PushFull
<1>4. /\ Hands(Senders)[p] = v
      /\ Hands(Senders)' = [Hands(Senders) EXCEPT ![p] = None]
      /\ Hands(Receivers)' = Hands(Receivers)
  <2>1. Carrying(p) = v /\ Carrying(p)' = None
    BY <1>1, PlacesAre DEF Carrying, PushFull, Finish, IInv, TypeOK, SlotIds
  <2>2. Send(p)
    BY DEF Send
  <2>3. /\ Hands(Senders)' = [Hands(Senders) EXCEPT ![p] = None]
        /\ Hands(Receivers)' = Hands(Receivers)
    BY <2>1, <2>2, HandsAfter
  <2> QED
    BY <2>1, <2>3 DEF Hands
<1>5. Used(full) \in 0 .. SLOTS /\ Used(full) # SLOTS
  BY <1>1, UsedIs
<1>6. /\ Sent \in Seq(Values) /\ Len(Sent) = Used(full)
      /\ \A i \in 1 .. Used(full) : Sent[i] = storage[Queue[full][i]]
  BY <1>1, FilledIs, CarriedIs DEF Sent
<1>7. /\ Sent' \in Seq(Values) /\ Len(Sent') = Used(full') /\ Used(full') = Len(Queue[full'])
      /\ \A i \in 1 .. Used(full') : Sent'[i] = storage'[Queue[full'][i]]
  BY FilledAfter, CarriedIs DEF IInv, Sent
<1> DEFINE q == Queue[full]
           u == Used(full)
<1>8. q \in Seq(SlotIds) /\ Len(q) = u /\ u \in Nat
  BY <1>1, FilledIs, CarriedIs
<1> HIDE DEF s, v, q, u
<1>10. /\ Queue[full'] = Append(q, s) /\ Len(Append(q, s)) = u + 1
       /\ \A i \in 1 .. u : Append(q, s)[i] = q[i]
       /\ Append(q, s)[u + 1] = s
  BY <1>1, <1>2, <1>8, AppendProperties DEF q
<1>11. Len(Sent') = u + 1
  BY <1>7, <1>10
<1> DEFINE a == Append(Sent, v)
<1>12. /\ a \in Seq(Values) /\ Len(a) = u + 1
       /\ \A i \in 1 .. u : a[i] = Sent[i]
       /\ a[u + 1] = v
  BY <1>1, <1>6, AppendProperties DEF u
<1> HIDE DEF a
<1>13. ASSUME NEW i \in 1 .. u + 1 PROVE Sent'[i] = a[i]
  <2>1. Sent'[i] = storage[Append(q, s)[i]]
    BY <1>3, <1>7, <1>10
  <2>2. CASE i = u + 1
    BY <1>10, <1>12, <2>1, <2>2 DEF s, v
  <2>3. CASE i # u + 1
    <3>1. i \in 1 .. u
      BY <1>8, <2>3
    <3> QED
      BY <1>6, <1>10, <1>12, <2>1, <3>1 DEF q, u
  <2> QED
    BY <2>2, <2>3
<1>14. Sent' = a
  BY <1>7, <1>11, <1>12, <1>13, SeqEqual
<1>15. Used(empty)' = Used(empty) /\ v # None
  BY <1>1, NoneAssumption DEF PushFull
<1> QED
  BY <1>4, <1>14, <1>15 DEF Fifo!Send, a

(* The step that takes the first one out. *)
LEMMA PopFullReceives ==
    ASSUME IInv, IInv', NEW p \in Receivers, PopFull(p)
    PROVE  Fifo!Recv(p)
<1> USE DisjointAssumption DEF Procs
<1> DEFINE f == Front(full)
           q == Queue[full]
           u == Used(full)
<1>1. Packed(full) /\ f # 0 /\ pc[p] = "popFull" /\ val[p] = None
  BY DEF IInv, AtWork, PopFull
<1>2. q # << >> /\ Head(q) = f /\ Queue[full'] = Tail(q)
  BY <1>1, DequeuedIs DEF PopFull
<1>3. storage' = storage /\ idx' = [idx EXCEPT ![p] = f] /\ val' = val
      /\ pc' = [pc EXCEPT ![p] = "take"]
  BY DEF PopFull, Goto
<1>4. q \in Seq(SlotIds) /\ Len(q) = u /\ u \in Nat
  BY <1>1, FilledIs, CarriedIs
<1>6. /\ Sent \in Seq(Values) /\ Len(Sent) = u
      /\ \A i \in 1 .. u : Sent[i] = storage[q[i]]
  BY <1>1, FilledIs, CarriedIs DEF Sent
<1>7. /\ Sent' \in Seq(Values) /\ Len(Sent') = Used(full') /\ Used(full') = Len(Queue[full'])
      /\ \A i \in 1 .. Used(full') : Sent'[i] = storage'[Queue[full'][i]]
  BY FilledAfter, CarriedIs DEF IInv, Sent
<1> HIDE DEF f, q, u
<1>8. u # 0 /\ q[1] = f
  BY <1>2, <1>4
<1>9. /\ Len(Tail(q)) = u - 1
      /\ \A i \in 1 .. u - 1 : Tail(q)[i] = q[i + 1]
  BY <1>2, <1>4, HeadTailProperties
<1>10. Sent # << >> /\ Head(Sent) = storage[f]
  <2> DEFINE t == Sent
  <2>1. t \in Seq(Values) /\ Len(t) # 0 /\ t[1] = storage[q[1]]
    BY <1>4, <1>6, <1>8
  <2> HIDE DEF t
  <2>2. t # << >> /\ Head(t) = t[1]
    BY <2>1
  <2> QED
    BY <1>8, <2>1, <2>2 DEF t
<1> DEFINE t == Tail(Sent)
<1>11. /\ t \in Seq(Values) /\ Len(t) = u - 1
       /\ \A i \in 1 .. u - 1 : t[i] = Sent[i + 1]
  BY <1>6, <1>10, HeadTailProperties
<1> HIDE DEF t
<1>12. Len(Sent') = u - 1
  BY <1>2, <1>7, <1>9
<1>13. ASSUME NEW i \in 1 .. u - 1 PROVE Sent'[i] = t[i]
  <2>1. i + 1 \in 1 .. u
    BY <1>4
  <2>2. Sent'[i] = storage[Tail(q)[i]]
    BY <1>2, <1>3, <1>7, <1>9
  <2> QED
    BY <1>6, <1>9, <1>11, <2>1, <2>2
<1>14. Sent' = t
  BY <1>7, <1>11, <1>12, <1>13, SeqEqual
<1>15. /\ Hands(Receivers)[p] = None
       /\ Hands(Receivers)' = [Hands(Receivers) EXCEPT ![p] = Head(Sent)]
       /\ Hands(Senders)' = Hands(Senders)
  <2>1. Carrying(p) = None /\ Carrying(p)' = storage[f]
    BY <1>1, <1>3 DEF Carrying, IInv, TypeOK, AtWork
  <2>2. Recv(p)
    BY DEF Recv
  <2>3. /\ Hands(Receivers)' = [Hands(Receivers) EXCEPT ![p] = Carrying(p)']
        /\ Hands(Senders)' = Hands(Senders)
    BY <2>2, HandsAfter
  <2> QED
    BY <1>10, <2>1, <2>3 DEF Hands
<1>16. Used(empty)' = Used(empty)
  BY DEF PopFull
<1> QED
  BY <1>10, <1>14, <1>15, <1>16 DEF Fifo!Recv, t

(* The step that ends recv(). *)
LEMMA PushEmptyReturns ==
    ASSUME IInv, IInv', NEW p \in Receivers, PushEmpty(p)
    PROVE  Fifo!Return(p)
<1> USE DisjointAssumption DEF Procs
<1>1. Sent' = Sent
  BY SentSame DEF PushEmpty
<1>2. /\ pc[p] = "pushEmpty" /\ val[p] # None /\ idx[p] # 0
      /\ Packed(empty) /\ Vacant(empty) # {} /\ idx[p] \in SlotIds /\ idx[p] \notin In(empty)
  BY PlacesAre DEF IInv, TypeOK, AtWork, Parted, PushEmpty, SlotIds
<1>3. Packed(empty') /\ Queue[empty'] = Append(Queue[empty], idx[p])
  BY <1>2, EnqueuedIs DEF PushEmpty, SlotReturned
<1>4. Used(empty') = Used(empty) + 1
  <2>1. /\ Queue[empty] \in Seq(SlotIds) /\ Len(Queue[empty]) = Used(empty)
        /\ Len(Queue[empty']) = Used(empty')
    BY <1>2, <1>3, QueueIs
  <2> DEFINE q == Queue[empty]
  <2> HIDE DEF q
  <2> QED
    BY <1>2, <1>3, <2>1, AppendProperties DEF q
<1>5. Carrying(p) = val[p] /\ Carrying(p)' = None
  BY <1>2 DEF Carrying, PushEmpty, Finish, IInv, TypeOK
<1>6. /\ Hands(Receivers)[p] # None
      /\ Hands(Receivers)' = [Hands(Receivers) EXCEPT ![p] = None]
      /\ Hands(Senders)' = Hands(Senders)
  <2>1. Recv(p)
    BY DEF Recv
  <2>2. /\ Hands(Receivers)' = [Hands(Receivers) EXCEPT ![p] = None]
        /\ Hands(Senders)' = Hands(Senders)
    BY <1>5, <2>1, HandsAfter
  <2> QED
    BY <1>2, <1>5, <2>2 DEF Hands
<1> QED
  BY <1>1, <1>4, <1>6 DEF Fifo!Return

(* The other steps of a sender do not show. *)
LEMMA SenderStutters ==
    ASSUME IInv, NEW p \in Senders, Send(p), ~ PopEmpty(p), ~ PushFull(p)
    PROVE  UNCHANGED Fifo!vars
<1> USE DisjointAssumption DEF Procs
<1>1. full' = full /\ empty' = empty
  BY DEF Send, SendLoads, SendDrops, PopEmptyRetries, Fill, LoadFull, PushOrPanic
<1>2. Sent' = Sent /\ Carrying(p)' = Carrying(p)
  <2>1. CASE Fill(p)
    <3>1. idx[p] \in SlotIds /\ idx[p] \notin In(full) /\ pc[p] = "fill"
      BY <2>1, PlacesAre DEF IInv, TypeOK, AtWork, Parted, Fill, SlotIds
    <3>2. Sent' = Sent
      BY <1>1, <3>1, Frame, SentSame, PackedIs DEF IInv
    <3>3. idx' = idx /\ pc'[p] = "loadFull" /\ storage'[idx[p]] = val[p]
      BY <2>1, <3>1 DEF Fill, Goto, IInv, TypeOK
    <3> QED
      BY <3>1, <3>2, <3>3 DEF Carrying
  <2>2. CASE LoadFull(p)
    <3>1. storage' = storage /\ idx' = idx /\ val' = val
      BY <2>2 DEF LoadFull, PushOrPanic
    <3>2. idx[p] # 0 /\ pc[p] \in {"loadFull", "pushFull"} /\ pc'[p] = "pushFull"
      <4>1. Vacant(full) # {}
        BY <2>2, RoomIs, PlacesAre DEF IInv, TypeOK, AtWork, Parted, LoadFull, SlotIds
      <4> QED
        BY <2>2, <4>1 DEF LoadFull, PushOrPanic, Goto, IInv, TypeOK, AtWork
    <3> QED
      BY <1>1, <3>1, <3>2, SentSame DEF Carrying
  <2>3. CASE ~ Fill(p) /\ ~ LoadFull(p)
    <3>1. storage' = storage /\ idx[p] = 0 /\ idx'[p] = 0
      BY <2>3 DEF Send, SendLoads, SendDrops, PopEmptyRetries, Finish, IInv, TypeOK, AtWork
    <3> QED
      BY <1>1, <3>1, SentSame DEF Carrying
  <2> QED
    BY <2>1, <2>2, <2>3
<1>3. UNCHANGED << Hands(Senders), Hands(Receivers) >>
  BY <1>2, HandsAfter
<1> QED
  BY <1>1, <1>2, <1>3 DEF Fifo!vars

(* Nor do the other steps of a receiver. *)
LEMMA ReceiverStutters ==
    ASSUME IInv, NEW p \in Receivers, RecvLoads(p) \/ Take(p) \/ LoadEmpty(p)
    PROVE  UNCHANGED Fifo!vars
<1> USE DisjointAssumption DEF Procs
<1>1. full' = full /\ empty' = empty
  BY DEF RecvLoads, Take, LoadEmpty, PushOrPanic
<1>2. Sent' = Sent /\ Carrying(p)' = Carrying(p)
  <2>1. CASE RecvLoads(p)
    <3>1. storage' = storage /\ idx[p] = 0 /\ idx'[p] = 0
      BY <2>1 DEF RecvLoads, Finish, IInv, TypeOK, AtWork
    <3> QED
      BY <1>1, <3>1, SentSame DEF Carrying
  <2>2. CASE Take(p)
    <3>1. idx[p] \in SlotIds /\ idx[p] \notin In(full) /\ pc[p] = "take" /\ storage[idx[p]] # None
      BY <2>2, PlacesAre DEF IInv, TypeOK, AtWork, Parted, Stored, Take, SlotIds
    <3>2. Sent' = Sent
      BY <1>1, <2>2, <3>1, Frame, SentSame, PackedIs DEF IInv, Recv
    <3>3. idx' = idx /\ pc'[p] = "loadEmpty" /\ val'[p] = storage[idx[p]]
      BY <2>2, <3>1 DEF Take, Goto, IInv, TypeOK
    <3> QED
      BY <3>1, <3>2, <3>3 DEF Carrying
  <2>3. CASE LoadEmpty(p)
    <3>1. storage' = storage /\ idx' = idx /\ val' = val
      BY <2>3 DEF LoadEmpty, PushOrPanic
    <3>2. /\ pc[p] \in {"loadEmpty", "pushEmpty"} /\ pc'[p] \in {"pushEmpty", "panic"}
      BY <2>3 DEF LoadEmpty, PushOrPanic, Goto, IInv, TypeOK, AtWork
    <3> QED
      BY <1>1, <3>1, <3>2, SentSame DEF Carrying
  <2> QED
    BY <2>1, <2>2, <2>3
<1>3. UNCHANGED << Hands(Senders), Hands(Receivers) >>
  BY <1>2, HandsAfter DEF Recv
<1> QED
  BY <1>1, <1>2, <1>3 DEF Fifo!vars

(* At first all slots are empty. *)
LEMMA AllFree == Init => Used(empty) = SLOTS
<1>1. SUFFICES ASSUME Init PROVE Used(empty) = SLOTS
  OBVIOUS
<1>2. Packed(empty) /\ In(empty) = SlotIds
  BY <1>1, NewWordIs DEF Init
<1> DEFINE u == Used(empty)
           q == Queue[empty]
<1>3. u \in 0 .. SLOTS /\ In(empty) = {q[i] : i \in 1 .. u}
  BY <1>2, UsedIs, QueueIs
<1> HIDE DEF u, q
<1>4. u \in Nat /\ u <= SLOTS
  BY <1>3, PlacesAre
<1>5. IsFiniteSet(1 .. u) /\ Cardinality(1 .. u) = u /\ Cardinality(SlotIds) = SLOTS
  BY <1>4, PlacesAre, FS_Interval DEF SlotIds
<1> DEFINE f == [i \in 1 .. u |-> q[i]]
<1>6. f \in Surjection(1 .. u, SlotIds)
  BY <1>2, <1>3 DEF Surjection
<1> HIDE DEF f
<1>7. Cardinality(SlotIds) <= Cardinality(1 .. u)
  BY <1>5, <1>6, FS_Surjection
<1> QED
  BY <1>4, <1>5, <1>7, PlacesAre DEF u

(* The words, the slots and the locals of send() and recv() together are a *)
(* first-in first-out queue of the values sent.                            *)
THEOREM Implements == Spec => ImplementsFifo
<1>1. Init => Fifo!Init
  <2>1. SUFFICES ASSUME Init PROVE Fifo!Init
    OBVIOUS
  <2>2. IInv /\ full = 0 /\ Queue[full] = << >>
    <3>1. IInv /\ full = 0
      BY <2>1, InitIInv DEF Init
    <3>2. Packed(0) /\ Front(0) = 0
      BY NewWordIs, BaseIs DEF Front
    <3> QED
      BY <3>1, <3>2, NothingIs
  <2>3. Sent = << >>
    <3>1. Sent \in Seq(Values) /\ Len(Sent) = 0
      BY <2>2, FilledIs, CarriedIs DEF IInv, Sent
    <3> QED
      BY <3>1, EmptySeq
  <2>4. Hands(Senders) = [p \in Senders |-> None] /\ Hands(Receivers) = [r \in Receivers |-> None]
    BY <2>1 DEF Init, Hands, Carrying, Procs
  <2> QED
    BY <2>1, <2>3, <2>4, AllFree DEF Fifo!Init
<1>2. IInv /\ IInv' /\ [Next]_vars => [Fifo!Next]_(Fifo!vars)
  <2>1. SUFFICES ASSUME IInv, IInv', [Next]_vars PROVE [Fifo!Next]_(Fifo!vars)
    OBVIOUS
  <2>2. CASE UNCHANGED vars
    BY <2>2 DEF vars, Fifo!vars, Sent, Carried, Hands, Carrying
  <2>3. ASSUME NEW p \in Senders, Send(p) PROVE [Fifo!Next]_(Fifo!vars)
    BY <2>1, <2>3, PopEmptyReserves, PushFullSends, SenderStutters DEF Fifo!Next
  <2>4. ASSUME NEW p \in Receivers, Recv(p) PROVE [Fifo!Next]_(Fifo!vars)
    BY <2>1, <2>4, PopFullReceives, PushEmptyReturns, ReceiverStutters DEF Recv, Fifo!Next
  <2> QED
    BY <2>1, <2>2, <2>3, <2>4 DEF Next
<1> QED
  BY <1>1, <1>2, Invariance, PTL DEF Spec, ImplementsFifo, Fifo!Spec
=============================================================================
